------------------------------- MODULE Arguments -------------------------------
(***************************************************************************)
(* The two loops that cut a string into words: of messageReceived() in     *)
(* src/src/plugincomm.cpp, for what a user says to the bot, and of         *)
(* start_plugin() in src/src/pluginmonitor.cpp, for the parameters of a    *)
(* plugin.  A step is one round of a loop.                                 *)
(*                                                                         *)
(* A string is a sequence of characters; what replaces %s and %n is one    *)
(* character each, or nothing for the network of a global plugin.          *)
(***************************************************************************)
EXTENDS Integers, SequencesExt, FiniteSets, Ranks

CONSTANTS
  Said,        \* the characters of messages
  Configured,  \* the characters of parameters
  MaxSaid,     \* bound: length of a message
  MaxConfigured \* bound: length of the parameters

ASSUME BoundAssumption == MaxSaid \in Nat /\ MaxConfigured \in Nat

Space == " "
Backslash == "\\"
Single == "'"
Double == "\""
Quotes == {Single, Double}
None == "none"
Socket == "socket path"
Network == "network name"

ASSUME CharacterAssumption == {None, Socket, Network} \intersect (Said \union Configured) = {}

VARIABLES
  text,     \* payload or parameters
  at,       \* i
  args,     \* args or arguments
  current,  \* stringBuilder or current_arg
  quote,    \* the quote that is open; in messages only double ones count
  escaped,  \* inEscape; in_escape is never set
  quoted,   \* hadQuotesThisArg
  hasCommand,
  full,     \* fullArgs
  network,  \* state->network
  loop,     \* "message" or "parameters"
  done

word == <<args, current, quoted>>
rest == <<hasCommand, full>>
vars == <<text, at, word, quote, escaped, rest, network, loop, done>>

Texts(chars, max) == UNION {[1 .. n -> chars] : n \in 0 .. max}

\* A payload has been trimmed and is not empty.
Payloads ==
  {s \in Texts(Said, MaxSaid) : s # <<>> /\ s[1] # Space /\ s[Len(s)] # Space}

Init ==
  /\ \/ loop = "message" /\ text \in Payloads /\ network = <<>>
     \/ loop = "parameters" /\ text \in Texts(Configured, MaxConfigured)
                            /\ network \in {<<>>, <<Network>>}
  /\ at = 1
  /\ args = <<>>
  /\ current = <<>>
  /\ quote = None
  /\ escaped = FALSE
  /\ quoted = FALSE
  /\ hasCommand = FALSE
  /\ full = <<>>
  /\ done = FALSE

Char == text[at]
Consume(n) == at' = at + n /\ UNCHANGED <<text, network, loop, done>>

Build(s) == current' = current \o s /\ UNCHANGED <<args, quoted>>

\* Mutant: hadQuotesThisArg is not reset.
FinishStillQuoted(counts) ==
  /\ args' = IF counts THEN Append(args, current) ELSE args
  /\ current' = <<>>
  /\ UNCHANGED quoted

\* The word at hand goes to args if it counts.
Finish(counts) ==
  /\ args' = IF counts THEN Append(args, current) ELSE args
  /\ current' = <<>>
  /\ quoted' = FALSE

-----------------------------------------------------------------------------
(* messageReceived().                                                      *)

\* Mutant: the first word is taken, too.
TakeAll(isBlank) ==
  /\ full' = Append(full, Char)
  /\ hasCommand' = (hasCommand \/ isBlank)

\* The rest of the message, as it is, from the end of the first word on.
Take(isBlank) ==
  /\ full' = IF hasCommand THEN Append(full, Char) ELSE full
  /\ hasCommand' = (hasCommand \/ isBlank)

Literal ==
  /\ escaped
  /\ escaped' = FALSE /\ Take(FALSE)
  /\ Build(<<Char>>)
  /\ UNCHANGED quote

Escape ==
  /\ ~escaped /\ Char = Backslash
  /\ escaped' = TRUE /\ Take(FALSE)
  /\ UNCHANGED <<word, quote>>

\* Words are kept if they are not empty or have quotes.
Blank ==
  /\ ~escaped /\ quote = None /\ Char = Space
  /\ Finish(current # <<>> \/ quoted)
  /\ Take(TRUE)
  /\ UNCHANGED <<quote, escaped>>

Quote ==
  /\ ~escaped /\ Char = Double
  /\ quote' = IF quote = None THEN Double ELSE None
  /\ quoted' = TRUE
  /\ Take(FALSE)
  /\ UNCHANGED <<args, current, escaped>>

Letter ==
  /\ ~escaped /\ Char \notin {Backslash, Double} /\ (Char = Space => quote # None)
  /\ Build(<<Char>>)
  /\ Take(FALSE)
  /\ UNCHANGED <<quote, escaped>>

SplitMessage ==
  /\ loop = "message" /\ at <= Len(text)
  /\ Literal \/ Escape \/ Blank \/ Quote \/ Letter
  /\ Consume(1)

-----------------------------------------------------------------------------
(* start_plugin().                                                         *)

\* A closing quote ends the argument, be it empty.
CloseQuote ==
  /\ quote # None /\ Char = quote
  /\ Finish(TRUE)
  /\ quote' = None
  /\ Consume(1)

OpenQuote ==
  /\ quote = None /\ Char \in Quotes
  /\ quote' = Char
  /\ Consume(1)
  /\ UNCHANGED word

Separate ==
  /\ quote = None /\ Char = Space
  /\ Finish(current # <<>>)
  /\ Consume(1)
  /\ UNCHANGED quote

\* Mutant: the replacement leaves the letter behind.
ReplacedOnly(s) == Build(s) /\ Consume(1)

Replaced(s) == Build(s) /\ Consume(2)

\* Mutant: a lone % takes the next character with it.
ReplacementSkips ==
  /\ quote = None /\ Char = "%"
  /\ LET next == IF at < Len(text) THEN text[at + 1] ELSE None
     IN CASE next = "s" -> Replaced(<<Socket>>)
          [] next = "n" -> Replaced(network)
          [] OTHER      -> Build(<<Char>>) /\ Consume(2)
  /\ UNCHANGED quote

\* %s and %n; any other % stands for itself.
Replacement ==
  /\ quote = None /\ Char = "%"
  /\ LET next == IF at < Len(text) THEN text[at + 1] ELSE None
     IN CASE next = "s" -> Replaced(<<Socket>>)
          [] next = "n" -> Replaced(network)
          [] OTHER      -> Build(<<Char>>) /\ Consume(1)
  /\ UNCHANGED quote

Plain ==
  /\ IF quote = None THEN Char \notin Quotes \union {Space, "%"} ELSE Char # quote
  /\ Build(<<Char>>)
  /\ Consume(1)
  /\ UNCHANGED quote

SplitParameters ==
  /\ loop = "parameters" /\ at <= Len(text)
  /\ CloseQuote \/ OpenQuote \/ Separate \/ Replacement \/ Plain
  /\ UNCHANGED <<escaped, rest>>

Trimmed(s) ==
  LET letters == {i \in 1 .. Len(s) : s[i] # Space}
  IN IF letters = {} THEN <<>> ELSE SubSeq(s, Min(letters), Max(letters))

\* After either loop; a quote that is still open does not matter.
End ==
  /\ ~done /\ at > Len(text)
  /\ Finish(current # <<>> \/ quoted)
  /\ full' = Trimmed(full)
  /\ done' = TRUE
  /\ UNCHANGED <<text, at, quote, escaped, hasCommand, network, loop>>

Over == done /\ UNCHANGED vars

Next == SplitMessage \/ SplitParameters \/ End \/ Over

Spec == Init /\ [][Next]_vars

-----------------------------------------------------------------------------
(* What the words of a string are, said by positions in it.  A string x is *)
(* its characters with the loop that is to cut it and what replaces %n.    *)

Of(chars) == [text |-> chars, loop |-> loop, network |-> network]

Marks(x) == IF x.loop = "message" THEN {Double} ELSE Quotes

\* After an odd number of backslashes.
Escaped(x, i) ==
  Cardinality({j \in 1 .. i - 1 : \A k \in j .. i - 1 : x.text[k] = Backslash}) % 2 = 1

\* The quote that is open after the first i characters.
Within(x) ==
  LET q[i \in 0 .. Len(x.text)] ==
        IF i = 0 THEN None
        ELSE IF q[i - 1] = None /\ x.text[i] \in Marks(x) /\ ~Escaped(x, i) THEN x.text[i]
        ELSE IF q[i - 1] = x.text[i] /\ ~Escaped(x, i) THEN None
        ELSE q[i - 1]
  IN q

IsMark(x, i) == Within(x)[i] # Within(x)[i - 1]

\* Where words end; one also begins with the string.
Breaks(x) ==
  LET within == Within(x)
  IN {0} \union {i \in 1 .. Len(x.text) :
                   x.text[i] = Space /\ ~Escaped(x, i) /\ within[i - 1] = None}

IsPercent(x, i) == x.text[i] = "%" /\ ~Escaped(x, i)

\* %s, %n or %%, after an even number of %.
IsReplaced(x, i) ==
  /\ x.loop = "parameters" /\ i \in 1 .. Len(x.text) - 1 /\ Within(x)[i] = None
  /\ IsPercent(x, i) /\ x.text[i + 1] \in {"s", "n", "%"}
  /\ Cardinality({j \in 1 .. i - 1 : \A k \in j .. i - 1 : IsPercent(x, k)}) % 2 = 0

Replacing(x, i) ==
  IF x.text[i + 1] = "s" THEN <<Socket>>
  ELSE IF x.text[i + 1] = "n" THEN x.network ELSE <<x.text[i]>>

\* What a character adds to the word it stands in.
Meaning(x, i) ==
  CASE IsMark(x, i) -> <<>>
    [] x.text[i] = Backslash /\ ~Escaped(x, i) -> <<>>
    [] IsReplaced(x, i) -> Replacing(x, i)
    [] IsReplaced(x, i - 1) -> <<>>
    [] OTHER -> <<x.text[i]>>

\* The word after the break b: up to the next one, and not a word if it has
\* neither characters nor quotes.
Stretch(x, b) ==
  LET next == {j \in Breaks(x) : j > b}
  IN {i \in b + 1 .. Len(x.text) : \A j \in next : i < j}

Spelled(x, S) ==
  LET letters == {i \in S : Meaning(x, i) # <<>>}
  IN [n \in 1 .. Cardinality(letters) |-> Meaning(x, InOrder(letters)[n])[1]]

Counts(x, S) == \E i \in S : Meaning(x, i) # <<>> \/ IsMark(x, i)

Words(x) ==
  LET starts == {b \in Breaks(x) : Counts(x, Stretch(x, b))}
  IN [n \in 1 .. Cardinality(starts) |-> Spelled(x, Stretch(x, InOrder(starts)[n]))]

\* Quotes are closed, and closed at the end of a word.
QuotesEndWords(x) ==
  /\ Within(x)[Len(x.text)] = None
  /\ \A i \in 1 .. Len(x.text) - 1 : IsMark(x, i) /\ Within(x)[i] = None => x.text[i + 1] = Space

\* Every backslash that escapes stands before a character that has a meaning.
EscapesMean(x) ==
  \A i \in 1 .. Len(x.text) :
    x.text[i] = Backslash /\ ~Escaped(x, i) =>
      i < Len(x.text) /\ x.text[i + 1] \in Quotes \union {Space, "%", Backslash}

\* Something is to be taken literally: there is a backslash, or a %%.
HasLiterals(x) ==
  \/ \E i \in 1 .. Len(x.text) : x.text[i] = Backslash
  \/ \E i \in 1 .. Len(x.text) - 1 : x.text[i] = "%" /\ x.text[i + 1] = "%"

-----------------------------------------------------------------------------
(* Properties.                                                             *)

Message == loop = "message"

\* Types; no loop reads past the end of its string.
TypeOK ==
  /\ at \in 1 .. Len(text) + 1
  /\ quote \in Marks(Of(text)) \union {None}
  /\ escaped \/ quoted \/ hasCommand \/ full # <<>> => Message
  /\ done => current = <<>> /\ ~quoted

\* The command and the arguments of a message are its words: quotes and escapes
\* of any nesting keep spaces, quotes and empty words.
MessageIsWords == Message /\ done => args = Words(Of(text))

\* fullArgs, which plugins get next to the arguments, has just these as its
\* words: the quotes and escapes in it are still to be read.
RestHasSameWords ==
  Message /\ done /\ args # <<>> => Words(Of(full)) = Tail(args)

\* "Simple double-quotes and single-quotes are supported", "%s will be replaced
\* with a path to the DaZeus socket, %n [...] by the network name"
\* (src/dazeus.plugin.sample.conf:28-31): so it is if quotes end where words do
\* and nothing is to be taken literally.
ParametersAreWords ==
  ~Message /\ done /\ QuotesEndWords(Of(text)) /\ ~HasLiterals(Of(text)) =>
    args = Words(Of(text))

\* The same lines go on: "as is metacharacter escaping using '\' (inside and
\* outside quotes)", "A literal % can be written as \% or %%".  With these the
\* arguments should be the words, too.  Not true of the code, which copies both.
EscapesAreHonoured ==
  ~Message /\ done /\ QuotesEndWords(Of(text)) /\ EscapesMean(Of(text)) =>
    args = Words(Of(text))
=============================================================================
