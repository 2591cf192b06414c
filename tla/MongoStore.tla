------------------------------ MODULE MongoStore ------------------------------
(***************************************************************************)
(* src/src/db/mongo.cpp.  Two collections without a schema; rows are made  *)
(* by upserts, one per name and location.                                  *)
(***************************************************************************)
EXTENDS Database

CONSTANT QueriesFail   \* TRUE: a query may fail, which reads as "no results"

\* mongo_sync_connect() and the index, which may exist already.
Open ==
  /\ status = "closed"
  /\ status' = "open"
  /\ UNCHANGED <<step, uncommitted, upgraded, data>>

\* The nested conditions: what is below an empty field is null.
Nested(at) ==
  << at[1],
     IF at[1] = Empty THEN Empty ELSE at[2],
     IF at[1] = Empty \/ at[2] = Empty THEN Empty ELSE at[3] >>

\* property() restricts the fields down to the first empty one, and leaves the
\* others free.
Restricted(query) == {i \in 1 .. 3 : \A j \in 1 .. i : query[j] # Empty}

\* Mutant: $in without the null.
SelectedExactly(at, query) == \A i \in Restricted(query) : at[i] = query[i]

Selected(at, query) ==
  \A i \in Restricted(query) : at[i] = query[i] \/ at[i] = Empty

Property(k, query) ==
  FirstOf({r \in properties : r.key = k /\ Selected(r.at, query)})
    \union (IF QueriesFail THEN {Empty} ELSE {})

SetProperty(k, v, at) ==
  LET old == RowAt(k, Nested(at))
  IN properties' = (IF v = Empty THEN properties \ old
                    ELSE (properties \ old) \union {Row(k, Nested(at), v)})

\* An empty result is reported as a failed query.
PropertyKeys(namespace, at) ==
  {r.key : r \in {r \in properties : StartsWith(r.key, namespace) /\ r.at = Nested(at)}}

\* value += prefix.length() + 1: the namespace and a dot, or as many characters of
\* a longer name.
Cut(k, namespace) == IF k[1] = namespace THEN k[2] ELSE <<"cut", k>>

\* Mutant: the network is asked before the channel.
ModesReordered == << {2, 3}, {3}, {}, {2} >>

\* The modes ALL, SENDER, CHANNEL, NETWORK.  The strings given are compared as
\* they are; only the fields a mode leaves out are null.  An empty string is
\* not null, so it selects nothing.
Modes == << {2, 3}, {3}, {2}, {} >>

InMode(at, query, fields) ==
  /\ at[1] = query[1]
  /\ \A i \in 2 .. 3 :
       IF i \in fields THEN at[i] = query[i] /\ query[i] # Empty ELSE at[i] = Empty

AskedIn(p, query, mode) ==
  {g \in permissions : g.name = p /\ InMode(g.at, query, Modes[mode])}

\* The first mode with a result answers; each query before it may have failed.
HasPermission(p, query, default) ==
  LET hits == {m \in 1 .. 4 : AskedIn(p, query, m) # {}}
      answering == IF QueriesFail THEN hits
                   ELSE {m \in hits : \A o \in hits : m <= o}
  IN {g.permission : g \in UNION {AskedIn(p, query, m) : m \in answering}}
     \union (IF QueriesFail \/ hits = {} THEN {default} ELSE {})

UnsetPermission(p, at) == permissions' = permissions \ GrantAt(p, at)

SetPermission(p, at, b) ==
  permissions' = (permissions \ GrantAt(p, at)) \union {Grant(p, at, b)}
=============================================================================
