----------------------------- MODULE PluginSocket -----------------------------
(***************************************************************************)
(* The sockets of plugins in src/src/plugincomm.cpp: PluginComm::run and   *)
(* poll(), which cut the bytes of a plugin into packets, have handle()     *)
(* answer them and write what the plugin is to be told.                    *)
(*                                                                         *)
(* poll() works on a copy of SocketInfo and stores the copy when it is     *)
(* done with the socket; dispatch() works on the SocketInfo in sockets_.   *)
(* Meanwhile plugins send any number of bytes and go away.                 *)
(*                                                                         *)
(* pc says where the thread is:                                            *)
(*   run    PluginComm::run, outside poll()                                *)
(*   visit  poll(), at the head of the loop over sockets_                  *)
(*   read   the loop around read(2)                                        *)
(*   parse  the loop over the packets in readahead                         *)
(*   write  the loop around write(2)                                       *)
(*   aborted an assertion failed, or an exception left poll()              *)
(***************************************************************************)
EXTENDS Integers, Sequences, SequencesExt

CONSTANTS
  Plugin,      \* the plugins, each with the descriptor of its connection
  NoPlugin,    \* no socket is being visited
  Kind,        \* the kinds of packet plugins send
  Base,        \* the base sizes are written in (10 in the code)
  MaxRequests, \* bound: packets on the connections open at one time
  MaxEvents    \* bound: events raised

\* The packets that are requests, and those no well-behaved plugin sends: one
\* that is not JSON, one without a size and one of size 0.
ASSUME KindAssumption ==
  Kind \subseteq {"subscribe", "handshake", "badHandshake", "config", "coreConfig",
                  "badConfig", "message", "malformed", "unsized", "empty"}
ASSUME NoPluginAssumption == NoPlugin \notin Plugin
\* The size of a packet is a number of one or two digits.
ASSUME BoundAssumption == Base \in Nat /\ Base > 1 /\ MaxRequests \in Nat /\ MaxEvents \in Nat

VARIABLES
  connected,   \* the keys of sockets_
  info,        \* the values of sockets_
  copy,        \* info of poll(), the copy of the socket being visited
  cur,         \* the socket being visited
  todo,        \* the sockets the loop has still to visit
  toRemove,    \* toRemove of poll(): the sockets it has closed
  pc,          \* where the thread is
  sent,        \* the packets a plugin has sent since it connected
  wire,        \* the bytes it sent that were not read
  peer,        \* the plugin's end: open, eof (no more bytes), hup (gone)
  received,    \* the messages written to it
  raised       \* the number of events raised

table == <<connected, info>>
loop == <<copy, cur, todo, toRemove, pc>>
kernel == <<sent, wire, peer, received>>
vars == <<table, loop, kernel, raised>>

\* The module that states what this one promises, for its kinds of messages.
\* View(p) is the SocketInfo that counts: the copy while poll() works on it.
View(p) == IF p = cur THEN copy ELSE info[p]

Channel == INSTANCE PluginChannel WITH
  up <- connected,
  greeted <- {p \in connected : View(p).greeted},
  subscribed <- {p \in connected : View(p).subscribed},
  said <- [p \in Plugin |-> received[p] \o View(p).writebuffer],
  stopped <- (pc = "aborted")

-----------------------------------------------------------------------------
(* Bytes and packets.                                                      *)

Digit(d) == <<"digit", d>>
Brace    == <<"{", 0>>
Text(i)  == <<"text", i>>
Newline  == <<"newline", 0>>

IsDigit(b) == b[1] = "digit"

\* The JSON of the i-th packet: it begins with a brace and may contain digits.
Body(i) == <<Brace, Text(i), Digit(1)>>
BodySize == 3

Size(n) == IF n < Base THEN <<Digit(n)>> ELSE <<Digit(n \div Base), Digit(n % Base)>>

\* The i-th packet as a plugin writes it, with a newline after it.
Announcement(k) ==
  CASE k = "unsized" -> <<>> [] k = "empty" -> <<Digit(0)>> [] OTHER -> Size(BodySize)

Packet(k, i) == Announcement(k) \o Body(i) \o <<Newline>>

HasBrace(bytes) == \E j \in DOMAIN bytes : bytes[j] = Brace
FirstBrace(bytes) == SelectInSeq(bytes, LAMBDA b : b = Brace)

\* Where the digits before the first brace are, and the number s >> waitingSize
\* reads from them.
Announced(bytes) == {j \in 1 .. FirstBrace(bytes) - 1 : IsDigit(bytes[j])}
Number(bytes) ==
  LET first == Min(Announced(bytes))
      last == Max(Announced(bytes))
  IN (IF first = last THEN 0 ELSE bytes[first][2] * Base) + bytes[last][2]

Drop(s, n) == SubSeq(s, n + 1, Len(s))
Take(s, n) == SubSeq(s, 1, n)

-----------------------------------------------------------------------------
Fresh == [greeted |-> FALSE, subscribed |-> FALSE, waitingSize |-> 0,
          readahead |-> <<>>, writebuffer |-> <<>>]

Init ==
  /\ connected = {}
  /\ info = [p \in Plugin |-> Fresh]
  /\ copy = Fresh
  /\ cur = NoPlugin
  /\ todo = {}
  /\ toRemove = {}
  /\ pc = "run"
  /\ sent = [p \in Plugin |-> <<>>]
  /\ wire = [p \in Plugin |-> <<>>]
  /\ peer = [p \in Plugin |-> "open"]
  /\ received = [p \in Plugin |-> <<>>]
  /\ raised = 0

-----------------------------------------------------------------------------
(* PluginComm::run.                                                        *)

\* newTcpConnection() and newLocalConnection().
NewConnection(p) ==
  /\ pc = "run" /\ p \notin connected
  /\ connected' = connected \union {p}
  /\ info' = [info EXCEPT ![p] = Fresh]
  /\ UNCHANGED <<loop, kernel, raised>>

\* dispatch(): into the SocketInfo of every subscriber in sockets_.
Dispatch ==
  info' = [p \in Plugin |->
    IF p \in connected /\ info[p].subscribed
    THEN [info[p] EXCEPT !.writebuffer = Append(@, Channel!Event(raised + 1))]
    ELSE info[p]]

\* ircEvent(), called by a network when it processes its descriptors.
IrcEvent ==
  /\ pc = "run" /\ raised < MaxEvents
  /\ raised' = raised + 1
  /\ Dispatch
  /\ UNCHANGED <<connected, loop, kernel>>

\* select() reports a plugin's socket.
Ready(p) == wire[p] # <<>> \/ peer[p] # "open" \/ info[p].writebuffer # <<>>

Poll ==
  /\ pc = "run"
  /\ \E p \in connected : Ready(p)
  /\ pc' = "visit"
  /\ todo' = connected
  /\ UNCHANGED <<table, copy, cur, toRemove, kernel, raised>>

-----------------------------------------------------------------------------
(* poll(), for one socket.                                                 *)

\* POLLHUP: the plugin is gone, what it sent last is not looked at.
VisitGone(p) ==
  /\ pc = "visit" /\ p \in todo /\ peer[p] = "hup"
  /\ todo' = todo \ {p}
  /\ toRemove' = toRemove \union {p}
  /\ UNCHANGED <<table, copy, cur, pc, kernel, raised>>

Visit(p) ==
  /\ pc = "visit" /\ p \in todo /\ peer[p] # "hup"
  /\ todo' = todo \ {p}
  /\ cur' = p
  /\ copy' = info[p]
  /\ pc' = "read"
  /\ UNCHANGED <<table, toRemove, kernel, raised>>

\* read(2) until it fails or returns 0, of which n bytes come.  The end of the
\* stream is seen only behind its last byte.
Read(n) ==
  /\ pc = "read"
  /\ n \in (IF wire[cur] = <<>> THEN {0} ELSE 1 .. Len(wire[cur]))
  /\ copy' = [copy EXCEPT !.readahead = @ \o Take(wire[cur], n)]
  /\ wire' = [wire EXCEPT ![cur] = Drop(@, n)]
  /\ toRemove' = IF peer[cur] # "open" /\ n = Len(wire[cur])
                 THEN toRemove \union {cur} ELSE toRemove
  /\ pc' = IF n > 0 THEN "parse" ELSE "write"
  /\ UNCHANGED <<table, cur, todo, sent, peer, received, raised>>

\* Mutant: what is before the brace stays in readahead.
ParseSizeKeepsDigits ==
  /\ pc = "parse" /\ copy.waitingSize = 0 /\ HasBrace(copy.readahead)
  /\ Announced(copy.readahead) # {}
  /\ Number(copy.readahead) > 0
  /\ copy' = [copy EXCEPT !.waitingSize = Number(copy.readahead)]
  /\ UNCHANGED <<table, cur, todo, toRemove, pc, kernel, raised>>

\* The size of the next packet is read and removed, with what precedes it.
ParseSize ==
  /\ pc = "parse" /\ copy.waitingSize = 0 /\ HasBrace(copy.readahead)
  /\ Announced(copy.readahead) # {}
  /\ Number(copy.readahead) > 0
  /\ copy' = [copy EXCEPT
       !.waitingSize = Number(copy.readahead),
       !.readahead = Drop(@, FirstBrace(copy.readahead) - 1)]
  /\ UNCHANGED <<table, cur, todo, toRemove, pc, kernel, raised>>

\* assert(s) fails: there was no number.
ParseNoSize ==
  /\ pc = "parse" /\ copy.waitingSize = 0 /\ HasBrace(copy.readahead)
  /\ Announced(copy.readahead) = {}
  /\ pc' = "aborted"
  /\ UNCHANGED <<table, copy, cur, todo, toRemove, kernel, raised>>

\* No brace yet, a size of 0, or a packet that is not complete.
ParseDone ==
  /\ pc = "parse"
  /\ IF copy.waitingSize = 0
     THEN HasBrace(copy.readahead) =>
            /\ Announced(copy.readahead) # {}
            /\ Number(copy.readahead) = 0
     ELSE Len(copy.readahead) < copy.waitingSize
  /\ pc' = "write"
  /\ UNCHANGED <<table, copy, cur, todo, toRemove, kernel, raised>>

Complete ==
  /\ pc = "parse" /\ copy.waitingSize # 0
  /\ Len(copy.readahead) >= copy.waitingSize

\* The complete packet is that of the i-th request.
IsRequest(i) ==
  /\ Take(copy.readahead, copy.waitingSize) = Body(i)
  /\ sent[cur][i] # "malformed"

\* The constructor of JSON throws, outside the try block.
HandleMalformed ==
  /\ Complete /\ \A i \in DOMAIN sent[cur] : ~IsRequest(i)
  /\ pc' = "aborted"
  /\ UNCHANGED <<table, copy, cur, todo, toRemove, kernel, raised>>

\* What handle() and the lines around its call do to the copy.
Handled(i, ok) ==
  [copy EXCEPT
     !.readahead = Drop(@, copy.waitingSize),
     !.waitingSize = 0,
     !.greeted = @ \/ sent[cur][i] = "handshake",
     !.subscribed = @ \/ sent[cur][i] = "subscribe",
     !.writebuffer = Append(@, Channel!Reply(i, ok))]

\* Mutant: the loop ends after one packet.
HandleOnce(i, ok) ==
  /\ Complete /\ i \in DOMAIN sent[cur] /\ IsRequest(i)
  /\ ok \in Channel!Outcome(sent[cur][i], copy.greeted)
  /\ copy' = Handled(i, ok)
  /\ pc' = "write"
  /\ UNCHANGED <<table, cur, todo, toRemove, kernel, raised>>

\* handle() answers, or throws and the exception is the answer.
Handle(i, ok) ==
  /\ Complete /\ i \in DOMAIN sent[cur] /\ IsRequest(i)
  /\ ok \in Channel!Outcome(sent[cur][i], copy.greeted)
  /\ copy' = Handled(i, ok)
  /\ UNCHANGED <<table, cur, todo, toRemove, pc, kernel, raised>>

\* Mutant: the event a message raises is not dispatched.
HandleMessageUnheard(i) ==
  /\ Complete /\ i \in DOMAIN sent[cur] /\ IsRequest(i)
  /\ sent[cur][i] = "message" /\ raised < MaxEvents
  /\ raised' = raised + 1
  /\ copy' = Handled(i, TRUE)
  /\ UNCHANGED <<table, cur, todo, toRemove, pc, kernel>>

\* handle() for a message the network echoes at once as an event PRIVMSG_ME.
\* For the socket being visited the event goes to the SocketInfo that the copy
\* will overwrite.
HandleMessage(i) ==
  /\ Complete /\ i \in DOMAIN sent[cur] /\ IsRequest(i)
  /\ sent[cur][i] = "message" /\ raised < MaxEvents
  /\ raised' = raised + 1
  /\ Dispatch
  /\ copy' = Handled(i, TRUE)
  /\ UNCHANGED <<connected, cur, todo, toRemove, pc, kernel>>

\* it->second = info, the last statement of the loop.
Store(i) ==
  /\ info' = [info EXCEPT ![cur] = i]
  /\ copy' = Fresh
  /\ cur' = NoPlugin
  /\ pc' = "visit"

\* write(2) accepts n messages of the buffer.
Write(n) ==
  /\ pc = "write" /\ cur \notin toRemove
  /\ n \in 0 .. Len(copy.writebuffer)
  /\ received' = [received EXCEPT ![cur] = @ \o Take(copy.writebuffer, n)]
  /\ Store([copy EXCEPT !.writebuffer = Drop(@, n)])
  /\ UNCHANGED <<connected, todo, toRemove, sent, wire, peer, raised>>

\* write(2) fails: the plugin has gone, or poll() has closed the descriptor,
\* which is then closed a second time.
WriteFails ==
  /\ pc = "write"
  /\ \/ cur \in toRemove
     \/ peer[cur] = "hup" /\ copy.writebuffer # <<>>
  /\ toRemove' = toRemove \union {cur}
  /\ Store(copy)
  /\ UNCHANGED <<connected, todo, kernel, raised>>

\* What the kernel keeps of a connection ends with it.
Forget(S) ==
  /\ sent' = [p \in Plugin |-> IF p \in S THEN <<>> ELSE sent[p]]
  /\ wire' = [p \in Plugin |-> IF p \in S THEN <<>> ELSE wire[p]]
  /\ peer' = [p \in Plugin |-> IF p \in S THEN "open" ELSE peer[p]]
  /\ received' = [p \in Plugin |-> IF p \in S THEN <<>> ELSE received[p]]

\* Mutant: the SocketInfo of a closed socket stays in sockets_.
EraseKeepsInfo ==
  /\ pc = "visit" /\ todo = {}
  /\ connected' = connected \ toRemove
  /\ Forget(toRemove)
  /\ toRemove' = {}
  /\ pc' = "run"
  /\ UNCHANGED <<info, copy, cur, todo, raised>>

\* The loop is over: the sockets that were closed are erased from sockets_.
Erase ==
  /\ pc = "visit" /\ todo = {}
  /\ connected' = connected \ toRemove
  /\ info' = [p \in Plugin |-> IF p \in toRemove THEN Fresh ELSE info[p]]
  /\ Forget(toRemove)
  /\ toRemove' = {}
  /\ pc' = "run"
  /\ UNCHANGED <<copy, cur, todo, raised>>

-----------------------------------------------------------------------------
(* The plugins.  What they do is interleaved with the steps of the thread  *)
(* that can see it: the others, which only work on the copy, commute.      *)

Total == FoldFunction(+, 0, [p \in Plugin |-> Len(sent[p])])

Send(p, k) ==
  /\ pc \in {"run", "read"} /\ p \in connected /\ peer[p] = "open"
  /\ Total < MaxRequests
  /\ sent' = [sent EXCEPT ![p] = Append(@, k)]
  /\ wire' = [wire EXCEPT ![p] = @ \o Packet(k, Len(sent[p]) + 1)]
  /\ UNCHANGED <<table, loop, peer, received, raised>>

HangUp(p) ==
  /\ pc \notin {"parse", "aborted"} /\ p \in connected
  /\ \/ peer[p] = "open" /\ peer' = [peer EXCEPT ![p] = "eof"]
     \/ peer[p] # "hup" /\ peer' = [peer EXCEPT ![p] = "hup"]
  /\ UNCHANGED <<table, loop, sent, wire, received, raised>>

Terminated == pc = "aborted" /\ UNCHANGED vars

-----------------------------------------------------------------------------
\* The steps the thread takes on its own.
Thread ==
  \/ Poll \/ Erase \/ WriteFails
  \/ ParseSize \/ ParseNoSize \/ ParseDone \/ HandleMalformed
  \/ \E p \in Plugin : VisitGone(p) \/ Visit(p)
  \/ pc = "read" /\ \E n \in 0 .. Len(wire[cur]) : Read(n)
  \/ \E n \in 0 .. Len(copy.writebuffer) : Write(n)
  \/ \E i \in 1 .. MaxRequests : HandleMessage(i) \/ \E ok \in BOOLEAN : Handle(i, ok)

Environment ==
  \/ IrcEvent
  \/ \E p \in Plugin : NewConnection(p) \/ HangUp(p) \/ \E k \in Kind : Send(p, k)

Next == Thread \/ Environment \/ Terminated

Spec == Init /\ [][Next]_vars

\* The thread keeps running; plugins need not send or go away, and nothing has
\* to be written to a plugin that does not read.
FairSpec == Spec /\ WF_vars(Thread)

-----------------------------------------------------------------------------
(* Properties.                                                             *)

Byte == ({"digit"} \X (0 .. Base - 1)) \union ({"text"} \X Nat) \union {Brace, Newline}

Message == ({"reply"} \X Nat \X BOOLEAN) \union ({"event"} \X Nat \X {TRUE})

SocketInfo == [greeted : BOOLEAN, subscribed : BOOLEAN, waitingSize : {0, BodySize},
               readahead : Seq(Byte), writebuffer : Seq(Message)]

\* What may be in a buffer: answers to packets that were sent on this very
\* connection, and events that happened.
MessageTo(p) ==
  {Channel!Reply(i, ok) : i \in DOMAIN sent[p], ok \in BOOLEAN}
    \union {Channel!Event(e) : e \in 1 .. raised}

\* The variables keep their types: a socket that connects anew finds nothing of
\* the one that had its descriptor before.
TypeOK ==
  /\ connected \subseteq Plugin
  /\ info \in [Plugin -> SocketInfo] /\ copy \in SocketInfo
  /\ pc \in {"run", "visit", "read", "parse", "write", "aborted"}
  /\ IF pc \in {"run", "visit"} THEN cur = NoPlugin ELSE cur \in connected \ todo
  /\ todo \subseteq connected /\ toRemove \subseteq connected \ todo
  /\ sent \in [Plugin -> Seq(Kind)]
  /\ wire \in [Plugin -> Seq(Byte)]
  /\ peer \in [Plugin -> {"open", "eof", "hup"}]
  /\ received \in [Plugin -> Seq(Message)]
  /\ raised \in 0 .. MaxEvents
  /\ \A p \in Plugin : /\ info[p].writebuffer \in Seq(MessageTo(p))
                       /\ View(p).writebuffer \in Seq(MessageTo(p))
                       /\ received[p] \in Seq(MessageTo(p))

\* However the bytes are cut and whatever happens while poll() works on its
\* copy of a socket, a plugin is told what PluginChannel says: the answers to
\* its requests in order, each once, and every event somebody else caused.
ImplementsChannel == Channel!Spec

Replied(p) == Channel!Replies(received[p] \o View(p).writebuffer)

\* A request that was sent whole is answered, unless a packet of size 0 was
\* sent before it, its plugin hangs up or the program ends.
RequestsAnswered ==
  \A p \in Plugin : \A i \in 1 .. MaxRequests :
    (i \in DOMAIN sent[p] /\ \A j \in 1 .. i : sent[p][j] # "empty")
      ~> (Replied(p) >= i \/ peer[p] # "open" \/ p \notin connected \/ pc = "aborted")
=============================================================================
