----------------------------- MODULE PluginChannel -----------------------------
(***************************************************************************)
(* What PluginComm promises a plugin, without sockets and buffers: the     *)
(* requests of one connection are answered one at a time, once each and in *)
(* the order they were sent, as if nobody else were connected; an event    *)
(* comes once, somewhere between two answers.                              *)
(*                                                                         *)
(* PluginSocket, the poll() loop of src/src/plugincomm.cpp, is shown to    *)
(* implement this module.                                                  *)
(***************************************************************************)
EXTENDS Integers, Sequences, FiniteSets

CONSTANTS
  Plugin,     \* the plugins that connect
  Kind        \* the kinds of request they send

VARIABLES
  up,         \* the plugins that are connected
  sent,       \* the requests of each since it connected
  greeted,    \* the plugins that did a handshake
  subscribed, \* the plugins subscribed to the event
  said,       \* what each was told since it connected
  raised,     \* how many events there were
  stopped     \* the program has ended

vars == <<up, sent, greeted, subscribed, said, raised, stopped>>

Reply(i, ok) == <<"reply", i, ok>>
Event(e) == <<"event", e, TRUE>>

IsReply(m) == m[1] = "reply"
Replies(messages) == Cardinality({j \in DOMAIN messages : IsReply(messages[j])})

\* Whether a request may succeed, for a plugin that did a handshake or did not.
\* A handshake is done once; "badHandshake" lacks parameters or is of another
\* version of the protocol.
HandshakeOutcome(kind, didHandshake) == {kind = "handshake" /\ ~didHandshake}

\* "config" asks for the group of the plugin, which is given after a handshake,
\* "coreConfig" for that of DaZeus; "badConfig" has another number of parameters
\* or names another group.
ConfigOutcome(kind, didHandshake) ==
  {kind = "coreConfig" \/ (kind = "config" /\ didHandshake)}

\* A message succeeds if DaZeus is on the network and in the channel.
MessageOutcome == BOOLEAN

Outcome(kind, didHandshake) ==
  CASE kind = "subscribe" -> {TRUE}
    [] kind \in {"handshake", "badHandshake"} -> HandshakeOutcome(kind, didHandshake)
    [] kind \in {"config", "coreConfig", "badConfig"} -> ConfigOutcome(kind, didHandshake)
    [] kind = "message" -> MessageOutcome
    [] OTHER -> {}

Init ==
  /\ up = {}
  /\ sent = [p \in Plugin |-> <<>>]
  /\ greeted = {}
  /\ subscribed = {}
  /\ said = [p \in Plugin |-> <<>>]
  /\ raised = 0
  /\ stopped = FALSE

Join(p) ==
  /\ p \notin up
  /\ up' = up \union {p}
  /\ UNCHANGED <<sent, greeted, subscribed, said, raised, stopped>>

Leave(S) ==
  /\ S # {} /\ S \subseteq up
  /\ up' = up \ S
  /\ greeted' = greeted \ S
  /\ subscribed' = subscribed \ S
  /\ sent' = [p \in Plugin |-> IF p \in S THEN <<>> ELSE sent[p]]
  /\ said' = [p \in Plugin |-> IF p \in S THEN <<>> ELSE said[p]]
  /\ UNCHANGED <<raised, stopped>>

Request(p, k) ==
  /\ p \in up
  /\ sent' = [sent EXCEPT ![p] = Append(@, k)]
  /\ UNCHANGED <<up, greeted, subscribed, said, raised, stopped>>

\* Every subscriber but those of without is told of a new event.
Told(without) ==
  [p \in Plugin |-> IF p \in subscribed \ without
                    THEN Append(said[p], Event(raised + 1)) ELSE said[p]]

Happen ==
  /\ raised' = raised + 1
  /\ said' = Told({})
  /\ UNCHANGED <<up, sent, greeted, subscribed, stopped>>

\* A message may raise an event at once.  The plugin that sent it is not
\* promised that event, but all others are.
Answer(p) ==
  LET i == Replies(said[p]) + 1
  IN /\ p \in up /\ i <= Len(sent[p])
     /\ \E ok \in Outcome(sent[p][i], p \in greeted) :
          \/ /\ said' = [said EXCEPT ![p] = Append(@, Reply(i, ok))]
             /\ UNCHANGED raised
          \/ /\ sent[p][i] = "message" /\ ok
             /\ said' = [Told({p}) EXCEPT ![p] = Append(@, Reply(i, ok))]
             /\ raised' = raised + 1
     /\ greeted' = IF sent[p][i] = "handshake" THEN greeted \union {p} ELSE greeted
     /\ subscribed' = IF sent[p][i] = "subscribe" THEN subscribed \union {p} ELSE subscribed
     /\ UNCHANGED <<up, sent, stopped>>

\* Only a packet that is no request, next in turn, ends the program.
Stop(p) ==
  LET i == Replies(said[p]) + 1
  IN /\ p \in up /\ i <= Len(sent[p])
     /\ sent[p][i] \in {"malformed", "unsized"}
     /\ stopped' = TRUE
     /\ UNCHANGED <<up, sent, greeted, subscribed, said, raised>>

Next ==
  \/ \E p \in Plugin : Join(p) \/ Answer(p) \/ Stop(p)
  \/ \E p \in Plugin, k \in Kind : Request(p, k)
  \/ \E S \in SUBSET Plugin : Leave(S)
  \/ Happen

Spec == Init /\ [][~stopped /\ Next]_vars
=============================================================================
