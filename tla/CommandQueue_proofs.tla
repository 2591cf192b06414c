-------------------------- MODULE CommandQueue_proofs --------------------------
(***************************************************************************)
(* Proofs about CommandQueue, for any plugins, networks, users, commands   *)
(* and requirements, and any number of messages.                           *)
(***************************************************************************)
EXTENDS CommandQueue, TLAPS

USE NothingAssumption, OfferedAssumption, BoundAssumption

Buffer(k) == ({"COMMAND"} \X (1 .. k)) \union ({"PRIVMSG", "WHOIS"} \X User \X BOOLEAN)

-----------------------------------------------------------------------------
(* What the operators of the module write.                                 *)

\* The commands forwarded are among those that left the queue.
LEMMA ForwardedType ==
  ASSUME NEW p \in Plugin, NEW k \in Nat, NEW left \in SUBSET (1 .. k),
         NEW known
  PROVE  Forwarded(p, left, known) \in SUBSET Buffer(k)
BY DEF Forwarded, Buffer

\* An event dispatched is a PRIVMSG or a WHOIS.
LEMMA DispatchedType ==
  ASSUME NEW p \in Plugin, NEW k \in Nat, NEW u \in User, NEW b \in BOOLEAN,
         NEW e \in {"PRIVMSG", "WHOIS"}
  PROVE  Dispatched(p, e, <<e, u, b>>) \in SUBSET Buffer(k)
BY DEF Dispatched, Buffer

LEMMA PrivmsgType ==
  ASSUME NEW p \in Plugin, NEW k \in Nat, NEW u \in User, NEW n \in Network
  PROVE  Dispatched(p, "PRIVMSG", Privmsg(u, n)) \in SUBSET Buffer(k)
<1>1. (u \in identified[n]) \in BOOLEAN
  OBVIOUS
<1> QED
  BY <1>1, DispatchedType DEF Privmsg

\* A message that arrives is numbered after the others, which keep theirs.
LEMMA AppendFacts ==
  ASSUME TypeOK, NEW m \in Message, MessageReceived(m)
  PROVE  /\ arrived' \in Seq(Message)
         /\ Len(arrived) \in Nat
         /\ Len(arrived') = Len(arrived) + 1
         /\ Len(arrived') <= MaxMessages
         /\ arrived'[Len(arrived) + 1] = m
         /\ \A i \in Id : arrived'[i] = arrived[i]
         /\ \A i \in 1 .. Len(arrived') : arrived'[i] \in Message
BY DEF TypeOK, MessageReceived, Id

\* What flushCommandQueue() leaves behind.
LEMMA FlushType ==
  ASSUME NEW nick, NEW known, NEW queue \in SUBSET (1 .. Len(arrived')),
         NEW open \in SUBSET Query,
         arrived' \in Seq(Message), Len(arrived') <= MaxMessages,
         Flush(nick, known, queue, open)
  PROVE  /\ waiting' \subseteq queue
         /\ whoisSent' \subseteq waiting'
         /\ asked' \subseteq Query
<1>1. ASSUME NEW i \in 1 .. Len(arrived')
      PROVE  QueryOf(i, arrived'[i]) \in Query
  <2>1. arrived'[i] \in Message
    OBVIOUS
  <2>2. i \in 1 .. MaxMessages
    OBVIOUS
  <2> QED
    BY <2>1, <2>2 DEF QueryOf, Query, Message
<1>2. waiting' \subseteq queue /\ whoisSent' = waiting'
  BY DEF Flush
<1>3. asked' \subseteq open \union {QueryOf(i, arrived'[i]) : i \in waiting'}
  BY DEF Flush
<1> QED
  BY <1>1, <1>2, <1>3

-----------------------------------------------------------------------------
(* Type correctness.                                                       *)

LEMMA TypeInit == Init => TypeOK
BY DEF Init, TypeOK, Id

LEMMA TypeMessage ==
  ASSUME TypeOK, NEW m \in Message, MessageReceived(m)
  PROVE  TypeOK'
<1>0. /\ arrived' \in Seq(Message)
      /\ Len(arrived) \in Nat
      /\ Len(arrived') = Len(arrived) + 1
      /\ Len(arrived') <= MaxMessages
  BY AppendFacts
<1>1. waiting \union {Len(arrived) + 1} \in SUBSET (1 .. Len(arrived'))
  <2>1. waiting \subseteq 1 .. Len(arrived)
    BY DEF TypeOK, Id
  <2>2. 1 .. Len(arrived) \subseteq 1 .. Len(arrived')
    BY <1>0
  <2>3. Len(arrived) + 1 \in 1 .. Len(arrived')
    BY <1>0
  <2> QED
    BY <2>1, <2>2, <2>3
<1>2. /\ waiting' \subseteq 1 .. Len(arrived')
      /\ whoisSent' \subseteq waiting'
      /\ asked' \subseteq Query
  <2>1. Flush(Nothing, FALSE, waiting \union {Len(arrived) + 1}, asked)
    BY DEF MessageReceived
  <2>2. asked \in SUBSET Query
    BY DEF TypeOK
  <2> QED
    BY <1>0, <1>1, <2>1, <2>2, FlushType
<1>3. outbox' \in [Plugin -> SUBSET Buffer(Len(arrived'))]
  <2>1. \A p \in Plugin : outbox[p] \in SUBSET Buffer(Len(arrived'))
    BY <1>0 DEF TypeOK, Buffer, Id
  <2>2. \A p \in Plugin :
          Forwarded(p, (waiting \union {Len(arrived) + 1}) \ waiting', FALSE)
            \in SUBSET Buffer(Len(arrived'))
    <3>1. (waiting \union {Len(arrived) + 1}) \ waiting' \in SUBSET (1 .. Len(arrived'))
      BY <1>1
    <3>2. Len(arrived') \in Nat
      BY <1>0
    <3> QED
      BY <3>1, <3>2, ForwardedType
  <2>3. \A p \in Plugin :
          Dispatched(p, "PRIVMSG", Privmsg(m.origin, m.network)) \in SUBSET Buffer(Len(arrived'))
    <3>1. m.origin \in User /\ m.network \in Network /\ Len(arrived') \in Nat
      BY <1>0 DEF Message
    <3> QED
      BY <3>1, PrivmsgType
  <2> QED
    BY <2>1, <2>2, <2>3 DEF MessageReceived
<1> QED
  BY <1>0, <1>2, <1>3 DEF MessageReceived, TypeOK, Buffer, Id, sockets

LEMMA TypeWhois ==
  ASSUME TypeOK, NEW q \in asked, NEW known \in BOOLEAN, WhoisReceived(q, known)
  PROVE  TypeOK'
<1>1. q \in Query /\ UNCHANGED <<sockets, arrived>>
  BY DEF TypeOK, WhoisReceived
<1>2. /\ waiting' \subseteq waiting
      /\ whoisSent' \subseteq waiting'
      /\ asked' \subseteq Query
  <2>1. Flush(q.nick, known, waiting, asked \ {q})
    BY DEF WhoisReceived
  <2>2. /\ waiting \in SUBSET (1 .. Len(arrived')) /\ asked \ {q} \in SUBSET Query
        /\ arrived' \in Seq(Message) /\ Len(arrived') <= MaxMessages
    BY <1>1 DEF TypeOK, Id
  <2> QED
    BY <2>1, <2>2, FlushType
<1>3. outbox' \in [Plugin -> SUBSET Buffer(Len(arrived))]
  <2>1. \A p \in Plugin : outbox[p] \in SUBSET Buffer(Len(arrived))
    BY DEF TypeOK, Buffer, Id
  <2>2. \A p \in Plugin :
          Forwarded(p, waiting \ waiting', known) \in SUBSET Buffer(Len(arrived))
    <3>1. waiting \subseteq 1 .. Len(arrived)
      BY DEF TypeOK, Id
    <3>2. waiting \ waiting' \in SUBSET (1 .. Len(arrived))
      BY <3>1
    <3>3. Len(arrived) \in Nat
      BY DEF TypeOK
    <3> QED
      BY <3>2, <3>3, ForwardedType
  <2>3. \A p \in Plugin :
          Dispatched(p, "WHOIS", <<"WHOIS", q.nick, known>>) \in SUBSET Buffer(Len(arrived))
    <3>1. q.nick \in User /\ Len(arrived) \in Nat
      BY <1>1 DEF Query, TypeOK
    <3> QED
      BY <3>1, DispatchedType
  <2> QED
    BY <2>1, <2>2, <2>3 DEF WhoisReceived
<1>4. identified' \in [Network -> SUBSET User]
  BY <1>1 DEF WhoisReceived, TypeOK, Query
<1> QED
  BY <1>1, <1>2, <1>3, <1>4 DEF TypeOK, Buffer, Id, sockets

LEMMA TypeStep == TypeOK /\ [Next]_vars => TypeOK'
<1> SUFFICES ASSUME TypeOK, [Next]_vars PROVE TypeOK'
  OBVIOUS
<1> USE DEF TypeOK, Id, sockets
<1>1. CASE UNCHANGED vars
  BY <1>1 DEF vars
<1>2. ASSUME NEW m \in Message, MessageReceived(m) PROVE TypeOK'
  BY <1>2, TypeMessage
<1>3. ASSUME NEW u \in User, NEW n \in Network, ChatReceived(u, n) PROVE TypeOK'
  <2>1. \A p \in Plugin : Dispatched(p, "PRIVMSG", Privmsg(u, n)) \in SUBSET Buffer(Len(arrived))
    BY PrivmsgType
  <2> QED
    BY <1>3, <2>1 DEF ChatReceived, Buffer
<1>4. ASSUME NEW u \in User, NEW n \in Network, IdentityLost(u, n) PROVE TypeOK'
  BY <1>4 DEF IdentityLost
<1>5. ASSUME NEW q \in asked, NEW known \in BOOLEAN, WhoisReceived(q, known) PROVE TypeOK'
  BY <1>5, TypeWhois
<1>6. ASSUME NEW n \in Network, ConnectionLost(n) PROVE TypeOK'
  BY <1>6 DEF ConnectionLost
<1>7. ASSUME NEW p \in Plugin, Connect(p) \/ Disconnect(p) \/ Poll(p) PROVE TypeOK'
  BY <1>7 DEF Connect, Disconnect, Poll
<1>8. ASSUME NEW p \in Plugin, NEW r \in Offered, SubscribeToCommand(p, r) PROVE TypeOK'
  BY <1>8 DEF SubscribeToCommand
<1>9. ASSUME NEW p \in Plugin, NEW e \in Events, Subscribe(p, e) PROVE TypeOK'
  BY <1>9 DEF Subscribe
<1>10. ASSUME NEW p \in Plugin, NEW n \in Network, NEW u \in User, Whois(p, n, u)
       PROVE  TypeOK'
  BY <1>10 DEF Whois, Query
<1> QED
  BY <1>1, <1>2, <1>3, <1>4, <1>5, <1>6, <1>7, <1>8, <1>9, <1>10
  DEF Next, Irc, Plugins

\* The variables keep their types: in particular every COMMAND event in a
\* write buffer is of a command that was received.
THEOREM TypeCorrect == Spec => []TypeOK
<1> QED
  BY TypeInit, TypeStep, PTL DEF Spec

-----------------------------------------------------------------------------
(* What one call of flushCommandQueue() does to the commands in the queue. *)

\* A command that stays has its WHOIS under way if those that were asked about
\* before do.
LEMMA FlushAsks ==
  ASSUME NEW nick, NEW known, NEW queue, NEW open,
         Flush(nick, known, queue, open),
         \A i \in queue \intersect whoisSent :
            nick # arrived'[i].origin => QueryOf(i, arrived'[i]) \in open
  PROVE  \A i \in waiting' : QueryOf(i, arrived'[i]) \in asked'
BY DEF Flush, HoldsBack

\* Of two commands from one source both stay or both leave.
LEMMA FlushFair ==
  ASSUME NEW nick, NEW known, NEW queue, NEW open,
         Flush(nick, known, queue, open),
         NEW i \in waiting', NEW j \in queue, SameSource(arrived'[i], arrived'[j])
  PROVE  i \in queue /\ j \in waiting'
BY DEF Flush, HoldsBack, WhoisRequired, SameSource

\* A step that leaves the messages and the queue alone.
LEMMA Idle ==
  ASSUME [Next]_vars,
         ~ \E m \in Message : MessageReceived(m),
         ~ \E q \in asked, known \in BOOLEAN : WhoisReceived(q, known)
  PROVE  UNCHANGED <<arrived, waiting, whoisSent>>
BY DEF Next, vars, sockets, Irc, Plugins, ChatReceived, IdentityLost, ConnectionLost,
       Connect, Disconnect, Poll, SubscribeToCommand, Subscribe, Whois

-----------------------------------------------------------------------------
(* Every command that waits has been asked about.                          *)

LEMMA AskedStep == TypeOK /\ WaitingIsAsked /\ [Next]_vars => WaitingIsAsked'
<1> SUFFICES ASSUME TypeOK, WaitingIsAsked, [Next]_vars, ~Lossy
             PROVE  \A i \in waiting' : QueryOf(i, arrived'[i]) \in asked'
  BY DEF WaitingIsAsked
<1>0. \A i \in waiting : i \in Id /\ QueryOf(i, arrived[i]) \in asked
  BY DEF WaitingIsAsked, TypeOK
<1>1. ASSUME NEW m \in Message, MessageReceived(m)
      PROVE  \A i \in waiting' : QueryOf(i, arrived'[i]) \in asked'
  <2>1. Flush(Nothing, FALSE, waiting \union {Len(arrived) + 1}, asked)
    BY <1>1 DEF MessageReceived
  <2>2. \A i \in Id : arrived'[i] = arrived[i]
    BY <1>1, AppendFacts
  <2>3. \A i \in whoisSent : QueryOf(i, arrived'[i]) \in asked
    BY <1>0, <2>2 DEF TypeOK
  <2> QED
    BY <2>1, <2>3, FlushAsks
<1>2. ASSUME NEW q \in asked, NEW known \in BOOLEAN, WhoisReceived(q, known)
      PROVE  \A i \in waiting' : QueryOf(i, arrived'[i]) \in asked'
  \* The answer takes the WHOIS of no command but those of its own nick, and
  \* they leave the queue.
  <2>1. Flush(q.nick, known, waiting, asked \ {q}) /\ arrived' = arrived
    BY <1>2 DEF WhoisReceived
  <2>2. \A i \in waiting : q.nick # arrived'[i].origin
                              => QueryOf(i, arrived'[i]) \in asked \ {q}
    BY <1>0, <2>1 DEF QueryOf
  <2> QED
    BY <2>1, <2>2, FlushAsks
<1>3. ASSUME ~ \E m \in Message : MessageReceived(m),
             ~ \E q \in asked, known \in BOOLEAN : WhoisReceived(q, known)
      PROVE  \A i \in waiting' : QueryOf(i, arrived'[i]) \in asked'
  <2>1. UNCHANGED <<arrived, waiting>>
    BY <1>3, Idle
  <2>2. asked \subseteq asked'
    BY <1>3 DEF Next, vars, sockets, Irc, Plugins, ChatReceived, IdentityLost,
                ConnectionLost, Connect, Disconnect, Poll, SubscribeToCommand,
                Subscribe, Whois
  <2> QED
    BY <1>0, <2>1, <2>2
<1> QED
  BY <1>1, <1>2, <1>3

\* With connections that last, a command in commandQueue_ always has its WHOIS
\* under way.
THEOREM WaitingIsAskedCorrect == Spec => []WaitingIsAsked
<1>1. Init => WaitingIsAsked
  BY DEF Init, WaitingIsAsked
<1> QED
  BY <1>1, TypeCorrect, AskedStep, PTL DEF Spec

-----------------------------------------------------------------------------
(* Commands of one sender keep their order.                                *)

LEMMA OrderStep == TypeOK /\ InOrderPerSender /\ [Next]_vars => InOrderPerSender'
<1> SUFFICES ASSUME TypeOK, InOrderPerSender, [Next]_vars,
                    NEW i \in waiting', NEW j \in Id', i < j,
                    SameSource(arrived'[i], arrived'[j])
             PROVE  j \in waiting'
  BY DEF InOrderPerSender, SameSource
<1>1. ASSUME NEW m \in Message, MessageReceived(m) PROVE j \in waiting'
  <2>1. Flush(Nothing, FALSE, waiting \union {Len(arrived) + 1}, asked)
    BY <1>1 DEF MessageReceived
  <2>2. i \in waiting \union {Len(arrived) + 1}
    BY <2>1 DEF Flush
  <2>3. /\ Len(arrived) \in Nat /\ Len(arrived') = Len(arrived) + 1
        /\ \A k \in Id : arrived'[k] = arrived[k]
    BY <1>1, AppendFacts
  <2>4. j \in 1 .. Len(arrived) + 1
    BY <2>3 DEF Id
  <2>5. j \in waiting \union {Len(arrived) + 1}
    <3>1. CASE j = Len(arrived) + 1
      BY <3>1
    <3>2. CASE j # Len(arrived) + 1
      <4>1. j \in Id
        BY <2>3, <2>4, <3>2 DEF Id
      <4>2. i \in waiting /\ i \in Id
        BY <2>2, <2>3, <2>4, <3>2 DEF TypeOK, Id
      <4> QED
        BY <2>3, <4>1, <4>2 DEF InOrderPerSender
    <3> QED
      BY <3>1, <3>2
  <2> QED
    BY <2>1, <2>5, FlushFair
<1>2. ASSUME NEW q \in asked, NEW known \in BOOLEAN, WhoisReceived(q, known)
      PROVE  j \in waiting'
  <2>1. Flush(q.nick, known, waiting, asked \ {q}) /\ arrived' = arrived
    BY <1>2 DEF WhoisReceived
  <2>2. i \in waiting /\ j \in Id
    BY <2>1 DEF Flush, Id
  <2>3. j \in waiting
    BY <2>1, <2>2 DEF InOrderPerSender
  <2> QED
    BY <2>1, <2>3, FlushFair
<1>3. ASSUME ~ \E m \in Message : MessageReceived(m),
             ~ \E q \in asked, known \in BOOLEAN : WhoisReceived(q, known)
      PROVE  j \in waiting'
  BY <1>3, Idle DEF InOrderPerSender, Id
<1> QED
  BY <1>1, <1>2, <1>3

\* A later command of the same user is never forwarded before an earlier one
\* of the same name, whatever is answered meanwhile.
THEOREM InOrderPerSenderCorrect == Spec => []InOrderPerSender
<1>1. Init => InOrderPerSender
  BY DEF Init, InOrderPerSender
<1> QED
  BY <1>1, TypeCorrect, OrderStep, PTL DEF Spec

-----------------------------------------------------------------------------
(* Commands filtered on the sender.                                        *)

\* A COMMAND event is none of the others.
LEMMA OnlyForwarded ==
  ASSUME NEW p \in Plugin, NEW e \in {"PRIVMSG", "WHOIS"}, NEW u, NEW b,
         NEW i, <<"COMMAND", i>> \in Dispatched(p, e, <<e, u, b>>)
  PROVE  FALSE
BY DEF Dispatched

\* A command is forwarded to a plugin only if one of its requirements matches
\* and, where that one filters on the sender, the sender is identified on the
\* command's network or flushCommandQueue() was called for a positive answer
\* about his nick.
LEMMA ForwardedEntitled ==
  ASSUME NEW p \in Plugin, NEW nick, NEW known, NEW queue, NEW open,
         Flush(nick, known, queue, open), UNCHANGED sockets,
         NEW i, <<"COMMAND", i>> \in Forwarded(p, queue \ waiting', known)
  PROVE  \E r \in commands[p] :
           /\ Matches(r, arrived'[i])
           /\ r.kind = "sender" =>
                \/ arrived'[i].origin \in identified'[arrived'[i].network]
                \/ known /\ nick = arrived'[i].origin
<1>1. /\ p \in connected /\ i \in queue \ waiting'
      /\ IsSubscribedToCommand(p, arrived'[i],
           known \/ arrived'[i].origin \in identified'[arrived'[i].network])
  BY DEF Forwarded
<1>2. ~HoldsBack(arrived'[i], nick)
  BY <1>1 DEF Flush
<1>3. PICK r \in commands[p] :
        /\ Matches(r, arrived'[i])
        /\ r.kind = "sender" =>
             (known \/ arrived'[i].origin \in identified'[arrived'[i].network])
  BY <1>1 DEF IsSubscribedToCommand
<1>4. CASE r.kind = "sender" /\ arrived'[i].origin \notin identified'[arrived'[i].network]
  <2>1. CommandMightNeedWhois(p, arrived'[i].command)
    BY <1>3, <1>4 DEF CommandMightNeedWhois, Matches
  <2>2. WhoisRequired(arrived'[i])
    BY <1>1, <1>4, <2>1 DEF WhoisRequired
  <2> QED
    BY <1>2, <1>3, <1>4, <2>2 DEF HoldsBack
<1> QED
  BY <1>3, <1>4

\* On one network an answer is about the network of the command.
LEMMA VerifiedStep ==
  ASSUME \A n, o \in Network : n = o, TypeOK, TypeOK', [Next]_vars,
         NEW p \in Plugin, NEW i \in DOMAIN arrived', Written(p, i)
  PROVE  Entitled(p, arrived'[i])
<1>1. arrived'[i] \in Message
  BY DEF TypeOK
<1>2. arrived'[i].network \in Network
  BY <1>1 DEF Message
<1>3. ASSUME NEW m \in Message, MessageReceived(m)
      PROVE  Entitled(p, arrived'[i])
  <2>1. PICK queue, known : queue = waiting \union {Len(arrived) + 1} /\ known = FALSE
    OBVIOUS
  <2>2. Flush(Nothing, known, queue, asked) /\ UNCHANGED sockets
    BY <1>3, <2>1 DEF MessageReceived
  <2>3. <<"COMMAND", i>> \in Forwarded(p, queue \ waiting', known)
                        \union Dispatched(p, "PRIVMSG", Privmsg(m.origin, m.network))
    BY <1>3, <2>1 DEF MessageReceived, Written
  <2>4. <<"COMMAND", i>> \in Forwarded(p, queue \ waiting', known)
    BY <2>3, OnlyForwarded DEF Privmsg
  <2>5. PICK r \in commands[p] :
           /\ Matches(r, arrived'[i])
           /\ r.kind = "sender" =>
                \/ arrived'[i].origin \in identified'[arrived'[i].network]
                \/ known /\ Nothing = arrived'[i].origin
    BY <2>2, <2>4, ForwardedEntitled
  <2> QED
    BY <1>2, <2>1, <2>5 DEF Entitled
<1>4. ASSUME NEW q \in asked, NEW known \in BOOLEAN, WhoisReceived(q, known)
      PROVE  Entitled(p, arrived'[i])
  <2>1. /\ Flush(q.nick, known, waiting, asked \ {q})
        /\ UNCHANGED sockets
    BY <1>4 DEF WhoisReceived
  <2>2. <<"COMMAND", i>> \in
          Dispatched(p, "WHOIS", <<"WHOIS", q.nick, known>>)
            \union Forwarded(p, waiting \ waiting', known)
    BY <1>4 DEF WhoisReceived, Written
  <2>3. <<"COMMAND", i>> \in Forwarded(p, waiting \ waiting', known)
    BY <2>2, OnlyForwarded
  <2>4. PICK r \in commands[p] :
           /\ Matches(r, arrived'[i])
           /\ r.kind = "sender" =>
                \/ arrived'[i].origin \in identified'[arrived'[i].network]
                \/ known /\ q.nick = arrived'[i].origin
    BY <2>1, <2>3, ForwardedEntitled
  <2>5. q.network \in Network /\ (known => q.nick \in identified'[q.network])
    BY <1>4 DEF WhoisReceived, TypeOK, Query
  <2>6. q.network = arrived'[i].network
    BY <1>2, <2>5
  <2> QED
    BY <2>4, <2>5, <2>6 DEF Entitled
<1>5. ASSUME ~ \E m \in Message : MessageReceived(m),
             ~ \E q \in asked, known \in BOOLEAN : WhoisReceived(q, known)
      PROVE  FALSE
  \* No other step writes a COMMAND event.
  <2>1. CASE UNCHANGED vars
    BY <2>1 DEF vars, Written
  <2>2. ASSUME NEW u \in User, NEW n \in Network, ChatReceived(u, n) PROVE FALSE
    <3>1. <<"COMMAND", i>> \in Dispatched(p, "PRIVMSG", Privmsg(u, n))
      BY <2>2 DEF ChatReceived, Written
    <3> QED
      BY <3>1, OnlyForwarded DEF Privmsg
  <2>3. ASSUME NEW u \in User, NEW n \in Network, IdentityLost(u, n) \/ ConnectionLost(n)
        PROVE  FALSE
    BY <2>3 DEF IdentityLost, ConnectionLost, Written
  <2>4. CASE Plugins
    <3>1. outbox'[p] \subseteq outbox[p]
      BY <2>4 DEF Plugins, Connect, Disconnect, Poll, SubscribeToCommand,
                  Subscribe, Whois, TypeOK
    <3> QED
      BY <3>1 DEF Written
  <2>5. ASSUME NEW n \in Network, ConnectionLost(n) PROVE FALSE
    BY <2>5 DEF ConnectionLost, Written
  <2> QED
    BY <1>5, <2>1, <2>2, <2>3, <2>4, <2>5 DEF Next, Irc
<1> QED
  BY <1>3, <1>4, <1>5

\* On one network, a command filtered on its sender is forwarded only while he is
\* identified there, which is what the protocol promises (flushCommandQueue()).
THEOREM SenderVerifiedCorrect ==
  ASSUME \A n, o \in Network : n = o
  PROVE  Spec => SenderVerified
<1>1. TypeOK /\ TypeOK' /\ [Next]_vars =>
        [\A p \in Plugin : \A i \in DOMAIN arrived' :
           Written(p, i) => Entitled(p, arrived'[i])]_vars
  BY VerifiedStep
<1> QED
  BY <1>1, TypeCorrect, PTL DEF Spec, SenderVerified
=============================================================================
