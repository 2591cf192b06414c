----------------------------- MODULE CommandQueue -----------------------------
(***************************************************************************)
(* The queue of IRC commands in src/src/plugincomm.{h,cpp}: messages that  *)
(* name a command wait in commandQueue_ until it is known whether their    *)
(* sender is identified to services, if some plugin asked to know.         *)
(*                                                                         *)
(* DaZeus handles one plugin request or one IRC event at a time, so every  *)
(* action is one call of ircEvent() or of handle().  What is asynchronous  *)
(* is the IRC server: a WHOIS may be answered much later, after other      *)
(* messages, plugins and answers have come and gone.                       *)
(*                                                                         *)
(* A command is named by the number of its arrival, and commandQueue_ by   *)
(* the set of the numbers in it: push_back() and erase() keep the vector   *)
(* in the order of arrival.  Class Network is external; what the code uses *)
(* of it is isIdentified() and sendWhois().                                *)
(***************************************************************************)
EXTENDS Integers, Sequences

CONSTANTS
  Plugin,       \* plugin sockets that may be connected
  Network,      \* the networks DaZeus is on
  User,         \* nicks
  Receiver,     \* channels, or the bot's own nick
  Command,      \* first words of messages addressed to the bot
  Nothing,      \* the empty string, and the null pointer of wantedNetwork
  Offered,      \* the requirements plugins use in {"do":"command"}
  Events,       \* the events plugins use in {"do":"subscribe"}
  Lossy,        \* TRUE: a network connection may break before a WHOIS is answered
  MaxMessages   \* bound: commands received

\* The four forms of RequirementInfo, with the command it is stored under.
Requirement ==
  [command : Command, kind : {"any"}, network : {Nothing}, object : {Nothing}]
  \union [command : Command, kind : {"network"}, network : Network, object : {Nothing}]
  \union [command : Command, kind : {"receiver"}, network : Network, object : Receiver]
  \union [command : Command, kind : {"sender"}, network : Network, object : User]

ASSUME NothingAssumption == Nothing \notin User \union Network
ASSUME OfferedAssumption == Offered \subseteq Requirement
ASSUME BoundAssumption ==
  Events \subseteq {"PRIVMSG", "WHOIS"} /\ Lossy \in BOOLEAN /\ MaxMessages \in Nat

VARIABLES
  connected,    \* the keys of sockets_
  commands,     \* SocketInfo::commands
  subscriptions,\* SocketInfo::subscriptions
  outbox,       \* SocketInfo::writebuffer, as the set of events in it
  arrived,      \* every command received so far, in order
  waiting,      \* commandQueue_
  whoisSent,    \* the commands in it whose Command::whoisSent is set
  identified,   \* the users for whom Network::isIdentified() is true
  asked         \* WHOIS requests the server has not answered

sockets == <<connected, commands, subscriptions>>
vars == <<sockets, outbox, arrived, waiting, whoisSent, identified, asked>>

Message == [network : Network, origin : User, channel : Receiver, command : Command]

\* A WHOIS request, by the command or the plugin it was sent for.
Query == [network : Network, nick : User, by : (1 .. MaxMessages) \union Plugin]

\* Mutant: the channel is asked about instead of the sender.
QueryOfChannel(i, m) == [network |-> m.network, nick |-> m.channel, by |-> i]

QueryOf(i, m) == [network |-> m.network, nick |-> m.origin, by |-> i]

Init ==
  /\ connected = {}
  /\ commands = [p \in Plugin |-> {}]
  /\ subscriptions = [p \in Plugin |-> {}]
  /\ outbox = [p \in Plugin |-> {}]
  /\ arrived = <<>>
  /\ waiting = {}
  /\ whoisSent = {}
  /\ identified = [n \in Network |-> {}]
  /\ asked = {}

-----------------------------------------------------------------------------
(* SocketInfo and flushCommandQueue().                                     *)

\* What a requirement says of a command, its sender's identification apart.
Matches(r, m) ==
  /\ r.command = m.command
  /\ r.kind # "any" => r.network = m.network
  /\ r.kind = "receiver" => r.object = m.channel
  /\ r.kind = "sender" => r.object = m.origin

\* Mutant: isSubscribedToCommand() forgets to ask whether the sender is identified.
SubscribedUnchecked(p, m, known) == \E r \in commands[p] : Matches(r, m)

IsSubscribedToCommand(p, m, known) ==
  \E r \in commands[p] : Matches(r, m) /\ (r.kind = "sender" => known)

CommandMightNeedWhois(p, c) ==
  \E r \in commands[p] : r.command = c /\ r.kind = "sender"

WhoisRequired(m) ==
  /\ \E p \in connected : CommandMightNeedWhois(p, m.command)
  /\ m.origin \notin identified'[m.network]

\* "continue" in the loop over commandQueue_.
HoldsBack(m, nick) == WhoisRequired(m) /\ nick # m.origin

\* Mutant: a command that was asked about waits for the answer in any case.
FlushKeepsAsked(nick, known, queue, open) ==
  LET held == {i \in queue : \/ HoldsBack(arrived'[i], nick)
                             \/ i \in whoisSent /\ nick # arrived'[i].origin}
  IN /\ waiting' = held
     /\ whoisSent' = held
     /\ asked' = open \union {QueryOf(i, arrived'[i]) : i \in held \ whoisSent}

\* Mutant: a command that is held back is not asked about when others wait.
FlushAsksWhenEmpty(nick, known, queue, open) ==
  LET held == {i \in queue : HoldsBack(arrived'[i], nick)}
  IN /\ waiting' = held
     /\ whoisSent' = held
     /\ asked' = open \union {QueryOf(i, arrived'[i]) :
                                i \in IF whoisSent = {} THEN held ELSE {}}

\* flushCommandQueue(nick, known) on the given queue, apart from what it writes
\* to the plugins: the commands that are held back stay, and those asked about
\* for the first time send a WHOIS.
Flush(nick, known, queue, open) ==
  LET held == {i \in queue : HoldsBack(arrived'[i], nick)}
  IN /\ waiting' = held
     /\ whoisSent' = held
     /\ asked' = open \union {QueryOf(i, arrived'[i]) : i \in held \ whoisSent}

\* The COMMAND events the same call writes to p, of which left left the queue.
Forwarded(p, left, known) ==
  IF p \notin connected THEN {}
  ELSE {<<"COMMAND", i>> : i \in
         {j \in left : IsSubscribedToCommand(p, arrived'[j],
            known \/ arrived'[j].origin \in identified'[arrived'[j].network])}}

\* dispatch(): the event goes to every plugin that subscribed to it.
Dispatched(p, name, event) ==
  IF p \in connected /\ name \in subscriptions[p] THEN {event} ELSE {}

-----------------------------------------------------------------------------
(* IRC events.                                                             *)

Privmsg(u, n) == <<"PRIVMSG", u, u \in identified[n]>>

\* messageReceived() for a message that names a command.
MessageReceived(m) ==
  /\ Len(arrived) < MaxMessages
  /\ arrived' = Append(arrived, m)
  /\ UNCHANGED <<sockets, identified>>
  /\ LET queue == waiting \union {Len(arrived) + 1}
     IN /\ Flush(Nothing, FALSE, queue, asked)
        /\ outbox' = [p \in Plugin |->
             outbox[p] \union Forwarded(p, queue \ waiting', FALSE)
                       \union Dispatched(p, "PRIVMSG", Privmsg(m.origin, m.network))]

\* messageReceived() for any other message.
ChatReceived(u, n) ==
  /\ outbox' = [p \in Plugin |-> outbox[p] \union Dispatched(p, "PRIVMSG", Privmsg(u, n))]
  /\ UNCHANGED <<sockets, arrived, waiting, whoisSent, identified, asked>>

\* Mutant: the WHOIS event is only dispatched to the plugins.
WhoisReceivedUnflushed(q, known) ==
  /\ q \in asked
  /\ identified' = [identified EXCEPT ![q.network] =
                      IF known THEN @ \union {q.nick} ELSE @ \ {q.nick}]
  /\ asked' = asked \ {q}
  /\ outbox' = [p \in Plugin |->
       outbox[p] \union Dispatched(p, "WHOIS", <<"WHOIS", q.nick, known>>)]
  /\ UNCHANGED <<sockets, arrived, waiting, whoisSent>>

\* The server answers a WHOIS: Network stores the result and raises the WHOIS
\* event, for which ircEvent() calls flushCommandQueue().
WhoisReceived(q, known) ==
  /\ q \in asked
  /\ identified' = [identified EXCEPT ![q.network] =
                      IF known THEN @ \union {q.nick} ELSE @ \ {q.nick}]
  /\ UNCHANGED <<sockets, arrived>>
  /\ Flush(q.nick, known, waiting, asked \ {q})
  /\ outbox' = [p \in Plugin |->
       outbox[p] \union Dispatched(p, "WHOIS", <<"WHOIS", q.nick, known>>)
                 \union Forwarded(p, waiting \ waiting', known)]

\* A user leaves or takes another nick: Network forgets the identification.
IdentityLost(u, n) ==
  /\ u \in identified[n]
  /\ identified' = [identified EXCEPT ![n] = @ \ {u}]
  /\ UNCHANGED <<sockets, outbox, arrived, waiting, whoisSent, asked>>

\* The connection breaks: nobody is identified and no WHOIS will be answered.
ConnectionLost(n) ==
  /\ Lossy
  /\ \E q \in asked : q.network = n
  /\ identified' = [identified EXCEPT ![n] = {}]
  /\ asked' = {q \in asked : q.network # n}
  /\ UNCHANGED <<sockets, outbox, arrived, waiting, whoisSent>>

-----------------------------------------------------------------------------
(* Plugins.                                                                *)

Connect(p) ==
  /\ p \notin connected
  /\ connected' = connected \union {p}
  /\ UNCHANGED <<commands, subscriptions, outbox, arrived, waiting, whoisSent,
                 identified, asked>>

\* poll() finds the socket closed and erases it from sockets_.
Disconnect(p) ==
  /\ p \in connected
  /\ connected' = connected \ {p}
  /\ commands' = [commands EXCEPT ![p] = {}]
  /\ subscriptions' = [subscriptions EXCEPT ![p] = {}]
  /\ outbox' = [outbox EXCEPT ![p] = {}]
  /\ UNCHANGED <<arrived, waiting, whoisSent, identified, asked>>

\* {"do":"command"}.
SubscribeToCommand(p, r) ==
  /\ p \in connected
  /\ commands' = [commands EXCEPT ![p] = @ \union {r}]
  /\ UNCHANGED <<connected, subscriptions, outbox, arrived, waiting, whoisSent,
                 identified, asked>>

\* {"do":"subscribe"} and {"do":"unsubscribe"}.
Subscribe(p, e) ==
  /\ p \in connected
  /\ \/ subscriptions' = [subscriptions EXCEPT ![p] = @ \union {e}]
     \/ subscriptions' = [subscriptions EXCEPT ![p] = @ \ {e}]
  /\ UNCHANGED <<connected, commands, outbox, arrived, waiting, whoisSent,
                 identified, asked>>

\* {"do":"whois"}: one request of each plugin is under way at a time.
Whois(p, n, u) ==
  /\ p \in connected
  /\ \A q \in asked : q.by # p
  /\ asked' = asked \union {[network |-> n, nick |-> u, by |-> p]}
  /\ UNCHANGED <<sockets, outbox, arrived, waiting, whoisSent, identified>>

\* poll() writes the buffer to the socket.
Poll(p) ==
  /\ outbox[p] # {}
  /\ outbox' = [outbox EXCEPT ![p] = {}]
  /\ UNCHANGED <<sockets, arrived, waiting, whoisSent, identified, asked>>

-----------------------------------------------------------------------------
Irc ==
  \/ \E m \in Message : MessageReceived(m)
  \/ \E u \in User, n \in Network : ChatReceived(u, n) \/ IdentityLost(u, n)
  \/ \E q \in asked, known \in BOOLEAN : WhoisReceived(q, known)
  \/ \E n \in Network : ConnectionLost(n)

Plugins ==
  \E p \in Plugin :
    \/ Connect(p) \/ Disconnect(p) \/ Poll(p)
    \/ \E r \in Offered : SubscribeToCommand(p, r)
    \/ \E e \in Events : Subscribe(p, e)
    \/ \E n \in Network, u \in User : Whois(p, n, u)

Next == Irc \/ Plugins

Spec == Init /\ [][Next]_vars

\* The server answers every WHOIS, unless the connection breaks first.
Fairness == \A q \in Query : WF_vars(\E known \in BOOLEAN : WhoisReceived(q, known))

FairSpec == Spec /\ Fairness

-----------------------------------------------------------------------------
(* Properties.                                                             *)

Id == 1 .. Len(arrived)

\* A buffer holds COMMAND events of commands received, never of one to come,
\* and an event of any other name only as it was dispatched.
TypeOK ==
  /\ connected \subseteq Plugin
  /\ commands \in [Plugin -> SUBSET Requirement]
  /\ subscriptions \in [Plugin -> SUBSET {"PRIVMSG", "WHOIS"}]
  /\ outbox \in [Plugin -> SUBSET (  ({"COMMAND"} \X Id)
                              \union ({"PRIVMSG", "WHOIS"} \X User \X BOOLEAN))]
  /\ arrived \in Seq(Message) /\ Len(arrived) <= MaxMessages
  /\ waiting \subseteq Id
  /\ whoisSent \subseteq waiting
  /\ identified \in [Network -> SUBSET User]
  /\ asked \subseteq Query

\* p asked for m, and where it filters on the sender he is identified on the network
\* m came from, now that the command is sent.
Entitled(p, m) ==
  \E r \in commands[p] :
    /\ Matches(r, m)
    /\ r.kind = "sender" => m.origin \in identified'[m.network]

Written(p, i) == <<"COMMAND", i>> \in outbox'[p] \ outbox[p]

\* "When a sender filter is given, the core will only forward commands to plugins
\* if the sender is identified to services" (src/misc/protocol.dox:175-177): when
\* the command is sent, on the network it came from.  An answer for the same nick
\* on another network releases it, too, so this holds on a single one only.
SenderVerified ==
  [][\A p \in Plugin : \A i \in DOMAIN arrived' :
       Written(p, i) => Entitled(p, arrived'[i])]_vars

\* The commands one user gives by the same name on one network leave the queue
\* in the order they were received: the WHOIS of an earlier one never lets a
\* later one overtake it.
SameSource(m, o) ==
  m.network = o.network /\ m.origin = o.origin /\ m.command = o.command

InOrderPerSender ==
  \A i \in waiting : \A j \in Id :
    i < j /\ SameSource(arrived[i], arrived[j]) => j \in waiting

\* As long as no connection breaks, a command that waits has its own WHOIS
\* under way: whoisSent is never set without one, and no other answer for its
\* sender leaves it behind.
WaitingIsAsked ==
  ~Lossy => \A i \in waiting : QueryOf(i, arrived[i]) \in asked

\* A command leaves the queue: the plugins that do not care who sent it get it
\* late, but get it.
CommandsLeave == \A i \in 1 .. MaxMessages : i \in waiting ~> i \notin waiting
=============================================================================
