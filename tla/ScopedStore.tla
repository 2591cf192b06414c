------------------------------ MODULE ScopedStore ------------------------------
(***************************************************************************)
(* What src/misc/protocol.dox promises of properties and of permissions    *)
(* alike: names have values in scopes, and a request is answered with the  *)
(* value of the closest scope, with what the request gave as a default if  *)
(* there is none.  "When returning the variable, the `closest' variable is *)
(* returned."                                                              *)
(*                                                                         *)
(* A scope is a network, a receiver and a sender; each may be left out,    *)
(* which is wider.  StoreRequests shows which backend implements it for    *)
(* what.                                                                   *)
(***************************************************************************)
EXTENDS Integers

CONSTANTS
  Name,      \* names of properties, or of permissions
  Value,     \* what can be stored
  Scope,     \* the scopes requests name, as triples
  Any,       \* a field of a scope that is left out
  Optional,  \* the fields that may be left out
  Default,   \* the answers a request may ask for if no scope has a value
  Unset,     \* in place of a value, if there is none
  NoReply

VARIABLES
  held,      \* the value of each name in each scope
  reply      \* the answer to the last request

vars == <<held, reply>>

Init ==
  /\ held = [n \in Name |-> [s \in Scope |-> Unset]]
  /\ reply = NoReply

\* t is s, or wider.
Covers(t, s) == \A i \in 1 .. 3 : t[i] = s[i] \/ (i \in Optional /\ t[i] = Any)

\* Where n has a value in store h that a request in scope s may be answered with,
Settings(h, n, s) == {t \in Scope : h[n][t] # Unset /\ Covers(t, s)}

\* and the closest of them, none of which is wider than another.  There is one,
\* unless receivers are left out before senders: which of "the sender, anywhere"
\* and "anyone in the channel" is closer is not said.
Closest(h, n, s) ==
  {t \in Settings(h, n, s) : \A u \in Settings(h, n, s) : Covers(t, u) => u = t}

Answers(h, n, s, default) ==
  IF Settings(h, n, s) = {} THEN {default} ELSE {h[n][t] : t \in Closest(h, n, s)}

Get(n, s, default) ==
  /\ \E v \in Answers(held, n, s, default) : reply' = <<n, s, default, v>>
  /\ UNCHANGED held

Set(n, s, v) ==
  /\ reply' = NoReply
  /\ held' = [held EXCEPT ![n][s] = v]

\* A request that is about something else, or fails.
Other ==
  /\ reply' = NoReply
  /\ UNCHANGED held

Next ==
  \/ Other
  \/ \E n \in Name, s \in Scope :
       \/ \E d \in Default : Get(n, s, d)
       \/ \E v \in Value \union {Unset} : Set(n, s, v)

Spec == Init /\ [][Next]_vars
=============================================================================
