-------------------------- MODULE StoreRequests_proofs --------------------------
(***************************************************************************)
(* Theorems about the three backends, for any names, scopes and bounds:    *)
(* opening and upgrading the databases, the permissions of SQLite, what    *)
(* the tables hold, what a get finds in them, and that SQLite does for     *)
(* properties, and MongoDB for permissions, what ScopedStore promises.     *)
(***************************************************************************)
EXTENDS StoreRequests, SequenceTheorems, TLAPS

-----------------------------------------------------------------------------
(* The schema.                                                             *)

SqliteSchema ==
  /\ schema \in 0 .. 2 /\ version \in {0, 2} /\ closes \in Nat
  /\ version = 2 => schema = 2
  /\ status = "closed" /\ version = 0 /\ closes = 0 => schema = 0
  /\ status = "upgrading" => /\ version = 0 /\ step \in 0 .. 2
                             /\ step > 0 => schema = step
                             /\ closes = 0 => schema = step
  /\ status = "open" => version = 2
  /\ status = "failed" => version = 0 /\ schema > 0 /\ closes > 0

\* What is not committed is exactly what the loop has done.
PostgresSchema ==
  /\ version \in {0, 5} /\ schema = version
  /\ status = "upgrading" => version = 0 /\ step \in 0 .. 5 /\ uncommitted = step
  /\ status = "open" => version = 5
  /\ status # "failed"

MongoSchema ==
  /\ schema = 0 /\ version = 0
  /\ status \in {"closed", "open"}

SchemaInv ==
  /\ backend \in {"sqlite", "postgres", "mongo"}
  /\ status \in {"closed", "upgrading", "open", "failed"}
  /\ closes \in Nat
  /\ backend = "sqlite" => SqliteSchema
  /\ backend = "postgres" => PostgresSchema
  /\ backend = "mongo" => MongoSchema

LEMMA SchemaInit == StoreInit => SchemaInv
BY BackendAssumption DEF StoreInit, Init, SchemaInv, SqliteSchema, PostgresSchema, MongoSchema

\* Requests need an open database and leave the schema alone.
LEMMA RequestsKeepSchema ==
  Request => UNCHANGED <<connection, upgraded, backend, closes>>
BY DEF Request, GetProperty, SetProperty, PropertyKeys, HasPermission, SetPermission,
       UnsetPermission, RequestFails, database

LEMMA SchemaStep == SchemaInv /\ [Next]_vars => SchemaInv'
<1> SUFFICES ASSUME SchemaInv, [Next]_vars PROVE SchemaInv'
    OBVIOUS
<1> USE DEF SchemaInv
<1>1. CASE UNCHANGED <<connection, upgraded, backend, closes>>
      BY <1>1 DEF connection, upgraded, SqliteSchema, PostgresSchema, MongoSchema
<1>2. CASE OpenDatabase /\ backend = "sqlite"
  <2>1. Sqlite!Open \/ Sqlite!Upgrade \/ Sqlite!Stamp
        BY <1>2 DEF OpenDatabase
  <2>2. UNCHANGED <<backend, closes>>
        BY <1>2 DEF OpenDatabase
  <2> USE DEF SqliteSchema, Sqlite!upgraded, Sqlite!Target, upgraded
  <2>3. CASE Sqlite!Open
        BY <1>2, <2>2, <2>3 DEF Sqlite!Open
  <2>4. CASE Sqlite!Upgrade
        BY <1>2, <2>2, <2>4 DEF Sqlite!Upgrade
  <2>5. CASE Sqlite!Stamp
        BY <1>2, <2>2, <2>5 DEF Sqlite!Stamp
  <2> QED BY <2>1, <2>3, <2>4, <2>5
<1>3. CASE OpenDatabase /\ backend = "postgres"
  <2>1. Postgres!Open \/ Postgres!Upgrade \/ Postgres!Commit
        BY <1>3 DEF OpenDatabase
  <2>2. UNCHANGED <<backend, closes>>
        BY <1>3 DEF OpenDatabase
  <2> USE DEF PostgresSchema, Postgres!upgraded, Postgres!Target, upgraded
  <2>3. CASE Postgres!Open
        BY <1>3, <2>2, <2>3 DEF Postgres!Open
  <2>4. CASE Postgres!Upgrade
        BY <1>3, <2>2, <2>4 DEF Postgres!Upgrade
  <2>5. CASE Postgres!Commit
        BY <1>3, <2>2, <2>5 DEF Postgres!Commit
  <2> QED BY <2>1, <2>3, <2>4, <2>5
<1>4. CASE OpenDatabase /\ backend = "mongo"
      BY <1>4 DEF OpenDatabase, Mongo!Open, Mongo!upgraded, MongoSchema
<1>5. CASE CloseDatabase
      BY <1>5 DEF CloseDatabase, Close, upgraded, SqliteSchema, PostgresSchema, MongoSchema
<1>6. CASE Request
      BY <1>1, <1>6, RequestsKeepSchema
<1>7. CASE UNCHANGED vars
      BY <1>1, <1>7 DEF vars, database
<1> QED BY <1>2, <1>3, <1>4, <1>5, <1>6, <1>7 DEF Next

LEMMA SchemaCorrect == Spec => []SchemaInv
<1>1. StoreInit => SchemaInv
      BY SchemaInit
<1>2. SchemaInv /\ [Next]_vars => SchemaInv'
      BY SchemaStep
<1> QED BY <1>1, <1>2, PTL DEF Spec

\* Whatever happened to earlier attempts to open it, a database that is open
\* has its whole schema (upgradeDB() of both SQL backends).
THEOREM OpenIsCompleteCorrect == Spec => []OpenIsComplete
<1>1. SchemaInv => OpenIsComplete
      BY DEF SchemaInv, SqliteSchema, PostgresSchema, MongoSchema, OpenIsComplete,
             Sqlite!Target, Postgres!Target
<1> QED BY <1>1, SchemaCorrect, PTL

\* Only SQLite, and only after a crash in its first upgrade, cannot be opened.
THEOREM OpenFailsCorrect == Spec => []OpenFailsOnlyAfterTornUpgrade
<1>1. SchemaInv => OpenFailsOnlyAfterTornUpgrade
      BY DEF SchemaInv, SqliteSchema, PostgresSchema, MongoSchema,
             OpenFailsOnlyAfterTornUpgrade
<1> QED BY <1>1, SchemaCorrect, PTL
-----------------------------------------------------------------------------
(* Scopes, which are locations.                                            *)

LEMMA ScopeIsTriple ==
  /\ \A s \in PropertyScopes : s = <<s[1], s[2], s[3]>>
  /\ \A s \in PermissionScopes : s = <<s[1], s[2], s[3]>>
BY DEF PropertyScopes, PermissionScopes, PropertyAt, At

LEMMA ScopeOfArray ==
  ASSUME NEW a \in Array
  PROVE  /\ PropertyAt(a) \in PropertyScopes
         /\ a # <<>> => At(a) \in PermissionScopes
BY DEF PropertyScopes, PermissionScopes

\* The order prefers what is narrower.
LEMMA NarrowerIsBefore ==
  ASSUME NEW s \in PropertyScopes, NEW t \in PropertyScopes, Sqlite!Covers(s, t), s # t
  PROVE  Before(t, s)
<1>1. s = <<s[1], s[2], s[3]>> /\ t = <<t[1], t[2], t[3]>>
      BY ScopeIsTriple
<1>2. \A i \in 1 .. 3 : s[i] # t[i] => t[i] # Empty /\ s[i] = Empty
      BY DEF Sqlite!Covers
<1>3. s[1] # t[1] \/ s[2] # t[2] \/ s[3] # t[3]
      BY <1>1
<1> QED BY <1>2, <1>3 DEF Before

-----------------------------------------------------------------------------
(* The permissions of SQLite.                                              *)

\* The table has a row for what is granted, and none for what is unset.
GrantsAreRows ==
  /\ permitted \in [Permission -> [PermissionScopes -> BOOLEAN \union {Empty}]]
  /\ backend = "sqlite" =>
       \A p \in Permission, s \in PermissionScopes :
         /\ permitted[p][s] = TRUE => GrantAt(p, s) # {}
         /\ permitted[p][s] = Empty => GrantAt(p, s) = {}

GrantsInv == GrantsAreRows /\ SqliteGrants

LEMMA GrantsInit == StoreInit => GrantsInv
<1> SUFFICES ASSUME StoreInit PROVE GrantsInv
    OBVIOUS
<1>1. permitted = [p \in Permission |-> [s \in PermissionScopes |-> Empty]] /\ permissions = {}
      BY DEF StoreInit, Init
<1>2. \A p \in Permission, s \in PermissionScopes : GrantAt(p, s) = {}
      BY <1>1 DEF GrantAt
<1>3. \A p \in Permission, s \in PermissionScopes : permitted[p][s] # TRUE
      BY <1>1, EmptyAssumption
<1>4. permitted \in [Permission -> [PermissionScopes -> BOOLEAN \union {Empty}]]
      BY <1>1
<1>5. SqliteGrants
      BY DEF StoreInit, SqliteGrants, NoReply
<1> QED BY <1>2, <1>3, <1>4, <1>5 DEF GrantsInv, GrantsAreRows

\* Steps that store no permission.
LEMMA OthersKeepGrants ==
  ASSUME GrantsAreRows, UNCHANGED <<permissions, permitted, backend>>
  PROVE  GrantsAreRows'
BY DEF GrantsAreRows, GrantAt

\* The rows of one name and location are replaced, by new or by none.
LEMMA ReplacesGrants ==
  ASSUME GrantsAreRows, NEW p \in Permission, NEW s \in PermissionScopes,
         NEW b \in BOOLEAN \union {Empty}, NEW new,
         \A g \in new : g.name = p /\ g.at = s,
         b = TRUE => new # {}, b = Empty => new = {},
         permitted' = [permitted EXCEPT ![p][s] = b], backend' = backend,
         backend = "sqlite" => permissions' = (permissions \ GrantAt(p, s)) \union new
  PROVE  GrantsAreRows'
<1>1. permitted' \in [Permission -> [PermissionScopes -> BOOLEAN \union {Empty}]]
      BY DEF GrantsAreRows
<1>2. ASSUME backend = "sqlite", NEW q \in Permission, NEW t \in PermissionScopes
      PROVE  /\ permitted'[q][t] = TRUE => GrantAt(q, t)' # {}
             /\ permitted'[q][t] = Empty => GrantAt(q, t)' = {}
  <2>1. permissions' = (permissions \ {g \in permissions : g.name = p /\ g.at = s}) \union new
        BY <1>2 DEF GrantAt
  <2>2. CASE q = p /\ t = s
    <3>1. permitted'[q][t] = b
          BY <2>2 DEF GrantsAreRows
    <3>2. {g \in permissions' : g.name = q /\ g.at = t} = new
          BY <2>1, <2>2
    <3> QED BY <3>1, <3>2 DEF GrantAt
  <2>3. CASE ~(q = p /\ t = s)
    <3>1. permitted'[q][t] = permitted[q][t]
          BY <2>3 DEF GrantsAreRows
    <3>2. {g \in permissions' : g.name = q /\ g.at = t} = {g \in permissions : g.name = q /\ g.at = t}
          BY <2>1, <2>3
    <3> QED BY <1>2, <3>1, <3>2 DEF GrantsAreRows, GrantAt
  <2> QED BY <2>2, <2>3
<1> QED BY <1>1, <1>2 DEF GrantsAreRows

LEMMA SetPermissionKeepsGrants ==
  ASSUME GrantsAreRows,
         NEW p \in Permission, NEW a \in Array, NEW b \in BOOLEAN, SetPermission(p, a, b)
  PROVE  GrantsAreRows' /\ reply' = Done
<1> DEFINE s == At(a) new == {Grant(p, s, TRUE)}
<1>1. s \in PermissionScopes
      BY ScopeOfArray DEF SetPermission
<1>2. permitted' = [permitted EXCEPT ![p][s] = b] /\ reply' = Done /\ backend' = backend
      BY DEF SetPermission
<1>3. backend = "sqlite" => permissions' = (permissions \ GrantAt(p, s)) \union new
      BY DEF SetPermission, Sqlite!SetPermission, Sqlite!GrantAt, Sqlite!Grant, GrantAt, Grant
<1>4. \A g \in new : g.name = p /\ g.at = s
      BY DEF Grant
<1>5. /\ b \in BOOLEAN \union {Empty}
      /\ b = TRUE => new # {}
      /\ b = Empty => new = {}
      BY EmptyAssumption
<1> HIDE DEF s, new
<1>6. GrantsAreRows'
      BY <1>1, <1>2, <1>3, <1>4, <1>5, ReplacesGrants, Zenon
<1> QED BY <1>2, <1>6

LEMMA UnsetPermissionKeepsGrants ==
  ASSUME GrantsAreRows,
         NEW p \in Permission, NEW a \in Array, UnsetPermission(p, a)
  PROVE  GrantsAreRows' /\ reply' = Done
<1> DEFINE s == At(a) new == {}
<1>1. s \in PermissionScopes
      BY ScopeOfArray DEF UnsetPermission
<1>2. permitted' = [permitted EXCEPT ![p][s] = Empty] /\ reply' = Done /\ backend' = backend
      BY DEF UnsetPermission
<1>3. backend = "sqlite" => permissions' = (permissions \ GrantAt(p, s)) \union new
      BY DEF UnsetPermission, Sqlite!UnsetPermission, Sqlite!GrantAt, GrantAt
<1>4. Empty # TRUE
      BY EmptyAssumption
<1> HIDE DEF s
<1> QED BY <1>1, <1>2, <1>3, <1>4, ReplacesGrants

\* An answer is right in the state in which it is given.
LEMMA HasPermissionAnswers ==
  ASSUME GrantsAreRows,
         NEW p \in Permission, NEW a \in Array, NEW default \in BOOLEAN,
         HasPermission(p, a, default)
  PROVE  SqliteGrants'
<1> DEFINE s == At(a) answer == Sqlite!HasPermission(p, s, default)
<1> SUFFICES ASSUME backend' = "sqlite" PROVE SqliteGrants'
    BY DEF SqliteGrants
<1>1. s \in PermissionScopes
      BY ScopeOfArray DEF HasPermission
<1>2. UNCHANGED <<permissions, permitted, backend>>
      BY DEF HasPermission, database, data, requests
<1>3. reply' = <<"has", p, s, default, answer>>
      BY <1>2 DEF HasPermission
<1>4. Sqlite!GrantAt(p, s) = GrantAt(p, s)
      BY DEF Sqlite!GrantAt, GrantAt
<1>5. permitted[p][s] = TRUE => answer = TRUE
      BY <1>1, <1>2, <1>4 DEF GrantsAreRows, Sqlite!HasPermission
<1>6. permitted[p][s] = Empty => answer = default
      BY <1>1, <1>2, <1>4 DEF GrantsAreRows, Sqlite!HasPermission
<1>7. permitted[p][s] # Empty => s \in Permissions!Settings(permitted, p, s)
      BY <1>1 DEF Permissions!Settings, Permissions!Covers
<1> HIDE DEF answer, s
<1>8. /\ permitted'[p][s] = TRUE => answer = TRUE
      /\ Permissions!Settings(permitted', p, s) = {} => answer = default
      BY <1>2, <1>5, <1>6, <1>7
<1> QED BY <1>3, <1>8 DEF SqliteGrants

LEMMA GrantsStep == GrantsInv /\ [Next]_vars => GrantsInv'
<1> SUFFICES ASSUME GrantsInv, [Next]_vars PROVE GrantsInv'
    OBVIOUS
<1>0. GrantsAreRows /\ SqliteGrants
      BY DEF GrantsInv
<1>1. ASSUME GrantsAreRows', reply'[1] # "has" PROVE GrantsInv'
      BY <1>1 DEF GrantsInv, SqliteGrants
<1>2. ASSUME UNCHANGED <<permissions, permitted, backend>>, reply' = reply \/ reply'[1] # "has"
      PROVE  GrantsInv'
  <2>1. GrantsAreRows'
        BY <1>0, <1>2, OthersKeepGrants
  <2> QED BY <1>0, <1>2, <2>1 DEF GrantsInv, SqliteGrants
<1>3. CASE OpenDatabase
  <2>1. UNCHANGED <<permitted, backend, reply>>
        BY <1>3 DEF OpenDatabase, requests
  <2>2. UNCHANGED permissions
        BY <1>3 DEF OpenDatabase, Sqlite!Open, Sqlite!Upgrade, Sqlite!Stamp, Postgres!Open,
          Postgres!Upgrade, Postgres!Commit, Mongo!Open, Sqlite!data, Postgres!data, Mongo!data
  <2> QED BY <1>2, <2>1, <2>2
<1>4. CASE CloseDatabase
      BY <1>2, <1>4 DEF CloseDatabase, Close, data, requests, NoReply
<1>5. CASE Request
  <2>1. ASSUME NEW k \in Key, NEW a \in Array,
               \/ GetProperty(k, a)
               \/ \E v \in Value \union {Empty} : SetProperty(k, v, a)
        PROVE  GrantsInv'
    <3>1. CASE GetProperty(k, a)
      <4>1. UNCHANGED <<permissions, permitted, backend>>
            BY <3>1 DEF GetProperty, database, data, requests
      <4>2. reply'[1] = "get"
            BY <3>1 DEF GetProperty
      <4> QED BY <1>2, <4>1, <4>2
    <3>2. CASE \E v \in Value \union {Empty} : SetProperty(k, v, a)
          BY <1>2, <3>2 DEF SetProperty, Done
    <3> QED BY <2>1, <3>1, <3>2
  <2>2. ASSUME NEW p \in Permission, NEW a \in Array, NEW b \in BOOLEAN, HasPermission(p, a, b)
        PROVE  GrantsInv'
    <3>1. UNCHANGED <<permissions, permitted, backend>>
          BY <2>2 DEF HasPermission, database, data, requests
    <3>2. GrantsAreRows'
          BY <1>0, <3>1, OthersKeepGrants
    <3>3. SqliteGrants'
          BY <1>0, <2>2, HasPermissionAnswers
    <3> QED BY <3>2, <3>3 DEF GrantsInv
  <2>3. ASSUME NEW p \in Permission, NEW a \in Array, NEW b \in BOOLEAN, SetPermission(p, a, b)
        PROVE  GrantsInv'
        BY <1>0, <1>1, <2>3, SetPermissionKeepsGrants DEF Done
  <2>4. ASSUME NEW p \in Permission, NEW a \in Array, UnsetPermission(p, a)
        PROVE  GrantsInv'
        BY <1>0, <1>1, <2>4, UnsetPermissionKeepsGrants DEF Done
  <2>5. CASE RequestFails
        BY <1>2, <2>5 DEF RequestFails, database, data, requests, Failed
  <2>6. ASSUME NEW n \in Namespace, NEW a \in Array, PropertyKeys(n, a)
        PROVE  GrantsInv'
    <3>1. UNCHANGED <<permissions, permitted, backend>>
          BY <2>6 DEF PropertyKeys, database, data, requests
    <3>2. reply'[1] # "has"
          BY <2>6 DEF PropertyKeys, Failed
    <3> QED BY <1>2, <3>1, <3>2
  <2> QED BY <1>5, <2>1, <2>2, <2>3, <2>4, <2>5, <2>6 DEF Request
<1>6. CASE UNCHANGED vars
      BY <1>2, <1>6 DEF vars, database, data
<1> QED BY <1>3, <1>4, <1>5, <1>6 DEF Next

\* In SQLite a permission that a plugin granted and did not revoke is granted in
\* its scope, and one that is set in no scope around it has its default, over any
\* other requests, reconnections and crashes.
THEOREM SqliteGrantsCorrect == Spec => []SqliteGrants
<1>1. StoreInit => GrantsInv
      BY GrantsInit
<1>2. GrantsInv /\ [Next]_vars => GrantsInv'
      BY GrantsStep
<1>3. GrantsInv => SqliteGrants
      BY DEF GrantsInv
<1> QED BY <1>1, <1>2, <1>3, PTL DEF Spec

-----------------------------------------------------------------------------
(* The table of the properties.                                            *)

\* The locations where the table can be trusted: PostgreSQL exchanges receiver and
\* sender of what it inserts, MongoDB drops what is below a field left out.
Trusted(x) ==
  \/ backend = "sqlite"
  \/ backend = "postgres" /\ x[2] = Empty /\ x[3] = Empty
  \/ backend = "mongo" /\ NoGaps

\* r is the row of something that was set, and not unset.
IsSet(r) ==
  \E k \in Key, s \in PropertyScopes : set[k][s] # Empty /\ r = Row(k, s, set[k][s])

PropertyRows ==
  /\ set \in [Key -> [PropertyScopes -> Value \union {Empty}]]
  /\ properties \subseteq [key : Key, at : Location, value : Value]
  /\ backend # "postgres" => \A r \in properties : RowAt(r.key, r.at) = {r}
  /\ \A r : Trusted(r.at) => (r \in properties <=> IsSet(r))

\* What covers a trusted location is trusted.
LEMMA TrustedAbove ==
  ASSUME NEW s, NEW t, Trusted(s), Sqlite!Covers(t, s)
  PROVE  Trusted(t)
<1>1. \A i \in 1 .. 3 : t[i] = s[i] \/ t[i] = Empty
      BY DEF Sqlite!Covers
<1> QED BY <1>1 DEF Trusted

\* The rows a query finds are those of what is set in a scope that covers it ...
LEMMA RowsFound ==
  ASSUME PropertyRows, NEW k \in Key, NEW s \in PropertyScopes, Trusted(s), NEW r
  PROVE  r \in properties /\ r.key = k /\ Sqlite!Covers(r.at, s)
           <=> \E t \in Properties!Settings(set, k, s) : r = Row(k, t, set[k][t])
<1>1. \A t : t \in Properties!Settings(set, k, s)
               <=> t \in PropertyScopes /\ set[k][t] # Empty /\ Sqlite!Covers(t, s)
      BY DEF Properties!Settings, Properties!Covers, Sqlite!Covers
<1>2. \A t, v : Row(k, t, v).key = k /\ Row(k, t, v).at = t
      BY DEF Row
<1>3. ASSUME r \in properties, r.key = k, Sqlite!Covers(r.at, s)
      PROVE  \E t \in Properties!Settings(set, k, s) : r = Row(k, t, set[k][t])
  <2>1. Trusted(r.at)
        BY <1>3, TrustedAbove
  <2>2. PICK l \in Key, t \in PropertyScopes : set[l][t] # Empty /\ r = Row(l, t, set[l][t])
        BY <1>3, <2>1 DEF PropertyRows, IsSet
  <2>3. l = k /\ r.at = t
        BY <1>3, <2>2 DEF Row
  <2> QED BY <1>1, <1>3, <2>2, <2>3
<1>4. ASSUME NEW t \in Properties!Settings(set, k, s), r = Row(k, t, set[k][t])
      PROVE  r \in properties /\ r.key = k /\ Sqlite!Covers(r.at, s)
  <2>1. t \in PropertyScopes /\ set[k][t] # Empty /\ Sqlite!Covers(t, s)
        BY <1>1
  <2>2. r.key = k /\ r.at = t
        BY <1>2, <1>4
  <2>3. Trusted(r.at) /\ IsSet(r)
        BY <1>4, <2>1, <2>2, TrustedAbove DEF IsSet
  <2> QED BY <2>1, <2>2, <2>3 DEF PropertyRows
<1> QED BY <1>3, <1>4

\* ... and what may come first of them is an answer of ScopedStore.
LEMMA FirstIsAnswer ==
  ASSUME PropertyRows, NEW k \in Key, NEW s \in PropertyScopes, Trusted(s),
         NEW v \in FirstOf({r \in properties : r.key = k /\ Sqlite!Covers(r.at, s)})
  PROVE  v \in Properties!Answers(set, k, s, Empty)
<1> DEFINE rows == {r \in properties : r.key = k /\ Sqlite!Covers(r.at, s)}
           settings == Properties!Settings(set, k, s)
           row(t) == Row(k, t, set[k][t])
<1>1. \A r : r \in rows <=> \E t \in settings : r = row(t)
      BY RowsFound
<1>2. \A t : row(t).at = t /\ row(t).value = set[k][t]
      BY DEF Row
<1>3. FirstOf(rows) = IF rows = {} THEN {Empty}
                      ELSE {r.value : r \in {r \in rows : \A o \in rows : ~Before(o.at, r.at)}}
      BY DEF FirstOf
<1>4. Properties!Answers(set, k, s, Empty)
        = IF settings = {} THEN {Empty}
          ELSE {set[k][t] : t \in {t \in settings : \A u \in settings : Properties!Covers(t, u) => u = t}}
      BY DEF Properties!Answers, Properties!Closest
<1>5. \A t \in settings : t \in PropertyScopes
      BY DEF Properties!Settings
<1>6. \A t, u : Properties!Covers(t, u) <=> Sqlite!Covers(t, u)
      BY DEF Properties!Covers, Sqlite!Covers
<1>7. v \in FirstOf(rows)
      OBVIOUS
<1> HIDE DEF rows, settings, row
<1>8. CASE rows = {}
  <2>1. settings = {}
        BY <1>1, <1>8
  <2> QED BY <1>3, <1>4, <1>7, <1>8, <2>1
<1>9. CASE rows # {}
  <2>1. PICK r \in rows : v = r.value /\ \A o \in rows : ~Before(o.at, r.at)
        BY <1>3, <1>7, <1>9
  <2>2. PICK t \in settings : r = row(t)
        BY <1>1, <2>1
  <2>3. v = set[k][t] /\ r.at = t
        BY <1>2, <2>1, <2>2
  <2>4. ASSUME NEW u \in settings, Sqlite!Covers(t, u) PROVE u = t
    <3>1. row(u) \in rows /\ row(u).at = u
          BY <1>1, <1>2
    <3>2. ~Before(u, t)
          BY <2>1, <2>3, <3>1
    <3> QED BY <1>5, <2>4, <3>2, NarrowerIsBefore
  <2>5. t \in {x \in settings : \A u \in settings : Properties!Covers(x, u) => u = x}
        BY <1>6, <2>4
  <2> QED BY <1>4, <2>3, <2>5
<1> QED BY <1>8, <1>9

-----------------------------------------------------------------------------
(* Every request keeps it.                                                 *)

LEMMA PropertyRowsInit == StoreInit => PropertyRows
<1> SUFFICES ASSUME StoreInit PROVE PropertyRows
    OBVIOUS
<1>1. properties = {} /\ set = [k \in Key |-> [s \in PropertyScopes |-> Empty]]
      BY DEF StoreInit, Init
<1>2. \A r : ~IsSet(r)
      BY <1>1 DEF IsSet
<1> QED BY <1>1, <1>2 DEF PropertyRows

LEMMA OthersKeepProperties ==
  ASSUME PropertyRows, UNCHANGED <<properties, set, backend>>
  PROVE  PropertyRows'
<1>1. Location' = Location
      BY DEF Location
<1>2. \A r : (Trusted(r.at)' <=> Trusted(r.at)) /\ (IsSet(r)' <=> IsSet(r))
      BY DEF Trusted, IsSet, Row
<1> QED BY <1>1, <1>2 DEF PropertyRows, RowAt

\* Replacing the rows of a location keeps the primary key.
LEMMA ReplacingKeepsKey ==
  ASSUME \A r \in properties : RowAt(r.key, r.at) = {r},
         NEW k, NEW x, NEW new, \A r \in new : r.key = k /\ r.at = x, \A r, o \in new : r = o,
         properties' = (properties \ RowAt(k, x)) \union new
  PROVE  \A r \in properties' : RowAt(r.key, r.at)' = {r}
<1>1. \A r, o \in properties : o.key = r.key /\ o.at = r.at => o = r
      BY DEF RowAt
<1>2. properties' = (properties \ {r \in properties : r.key = k /\ r.at = x}) \union new
      BY DEF RowAt
<1>3. \A r, o \in properties' : o.key = r.key /\ o.at = r.at => o = r
      BY <1>1, <1>2
<1>4. \A r \in properties' : {o \in properties' : o.key = r.key /\ o.at = r.at} = {r}
      BY <1>3
<1> QED BY <1>4 DEF RowAt

\* What is set now: as before, but for one name in one scope.
LEMMA SetNow ==
  ASSUME set \in [Key -> [PropertyScopes -> Value \union {Empty}]],
         NEW k \in Key, NEW s \in PropertyScopes, NEW v \in Value \union {Empty},
         set' = [set EXCEPT ![k][s] = v], NEW r
  PROVE  IsSet(r)' <=> \/ v # Empty /\ r = Row(k, s, v)
                       \/ IsSet(r) /\ ~(r.key = k /\ r.at = s)
<1>1. \A l \in Key, t \in PropertyScopes :
        set'[l][t] = IF l = k /\ t = s THEN v ELSE set[l][t]
      OBVIOUS
<1>2. \A l, t, w : Row(l, t, w).key = l /\ Row(l, t, w).at = t
      BY DEF Row
<1>3. IsSet(r)' <=> \E l \in Key, t \in PropertyScopes : set'[l][t] # Empty /\ r = Row(l, t, set'[l][t])
      BY DEF IsSet, Row
<1>4. ASSUME IsSet(r)'
      PROVE  \/ v # Empty /\ r = Row(k, s, v)
             \/ IsSet(r) /\ ~(r.key = k /\ r.at = s)
  <2>1. PICK l \in Key, t \in PropertyScopes : set'[l][t] # Empty /\ r = Row(l, t, set'[l][t])
        BY <1>3, <1>4
  <2>2. CASE l = k /\ t = s
        BY <1>1, <2>1, <2>2
  <2>3. CASE ~(l = k /\ t = s)
    <3>1. set'[l][t] = set[l][t]
          BY <1>1, <2>3
    <3>2. IsSet(r)
          BY <2>1, <3>1 DEF IsSet
    <3>3. r.key = l /\ r.at = t
          BY <1>2, <2>1
    <3> QED BY <2>3, <3>2, <3>3
  <2> QED BY <2>2, <2>3
<1>5. ASSUME v # Empty, r = Row(k, s, v) PROVE IsSet(r)'
      BY <1>1, <1>3, <1>5
<1>6. ASSUME IsSet(r), ~(r.key = k /\ r.at = s) PROVE IsSet(r)'
  <2>1. PICK l \in Key, t \in PropertyScopes : set[l][t] # Empty /\ r = Row(l, t, set[l][t])
        BY <1>6 DEF IsSet
  <2>2. ~(l = k /\ t = s)
        BY <1>2, <1>6, <2>1
  <2>3. set'[l][t] = set[l][t]
        BY <1>1, <2>2
  <2> QED BY <1>3, <2>1, <2>3
<1> QED BY <1>4, <1>5, <1>6

\* A request for a trusted location replaces its row ...
LEMMA ReplacesRow ==
  ASSUME PropertyRows, NEW k \in Key, NEW s \in PropertyScopes, Trusted(s),
         NEW v \in Value \union {Empty},
         set' = [set EXCEPT ![k][s] = v], backend' = backend,
         properties' = (properties \ RowAt(k, s))
                         \union (IF v = Empty THEN {} ELSE {Row(k, s, v)})
  PROVE  PropertyRows'
<1> DEFINE new == IF v = Empty THEN {} ELSE {Row(k, s, v)}
<1>0. /\ set \in [Key -> [PropertyScopes -> Value \union {Empty}]]
      /\ properties \subseteq [key : Key, at : Location, value : Value]
      BY DEF PropertyRows
<1>1. set' \in [Key -> [PropertyScopes -> Value \union {Empty}]]
      BY <1>0
<1>2. \A r \in new : r.key = k /\ r.at = s /\ r \in [key : Key, at : Location, value : Value]
      BY DEF Row, Location
<1>3. Location' = Location
      BY DEF Location
<1>4. properties' \subseteq [key : Key, at : Location, value : Value]'
      BY <1>0, <1>2, <1>3
<1>5. \A r, o \in new : r = o
      OBVIOUS
<1>6. backend' # "postgres" => \A r \in properties' : RowAt(r.key, r.at)' = {r}
  <2>1. CASE backend # "postgres"
    <3>1. \A r \in properties : RowAt(r.key, r.at) = {r}
          BY <2>1 DEF PropertyRows
    <3>2. \A r \in new : r.key = k /\ r.at = s
          BY <1>2
    <3>3. properties' = (properties \ RowAt(k, s)) \union new
          OBVIOUS
    <3> HIDE DEF new
    <3> QED BY <1>5, <3>1, <3>2, <3>3, ReplacingKeepsKey
  <2> QED BY <2>1
<1>7. ASSUME NEW r, Trusted(r.at)' PROVE r \in properties' <=> IsSet(r)'
  <2>1. Trusted(r.at)
        BY <1>7 DEF Trusted
  <2>2. r \in properties <=> IsSet(r)
        BY <2>1 DEF PropertyRows
  <2>3. IsSet(r)' <=> \/ v # Empty /\ r = Row(k, s, v)
                      \/ IsSet(r) /\ ~(r.key = k /\ r.at = s)
        BY <1>0, SetNow
  <2>4. r \in new <=> v # Empty /\ r = Row(k, s, v)
        OBVIOUS
  <2>5. r \in RowAt(k, s) <=> r \in properties /\ r.key = k /\ r.at = s
        BY DEF RowAt
  <2> QED BY <2>2, <2>3, <2>4, <2>5
<1> QED BY <1>1, <1>4, <1>6, <1>7 DEF PropertyRows

\* ... and one for another location leaves the trusted ones alone.
LEMMA KeepsTrustedRows ==
  ASSUME PropertyRows, NEW k \in Key, NEW s \in PropertyScopes, ~Trusted(s),
         NEW v \in Value \union {Empty},
         set' = [set EXCEPT ![k][s] = v], backend' = backend,
         properties' \subseteq [key : Key, at : Location, value : Value],
         backend # "postgres" => \A r \in properties' : RowAt(r.key, r.at)' = {r},
         \A r : Trusted(r.at) => (r \in properties' <=> r \in properties)
  PROVE  PropertyRows'
<1>1. set \in [Key -> [PropertyScopes -> Value \union {Empty}]]
      BY DEF PropertyRows
<1>2. set' \in [Key -> [PropertyScopes -> Value \union {Empty}]]
      BY <1>1
<1>3. properties' \subseteq [key : Key, at : Location, value : Value]'
      BY DEF Location
<1>4. ASSUME NEW r, Trusted(r.at)' PROVE r \in properties' <=> IsSet(r)'
  <2>1. Trusted(r.at)
        BY <1>4 DEF Trusted
  <2>2. (r \in properties <=> IsSet(r)) /\ (r \in properties' <=> r \in properties)
        BY <2>1 DEF PropertyRows
  <2>3. r.at # s
        BY <2>1
  <2>4. IsSet(r)' <=> \/ v # Empty /\ r = Row(k, s, v)
                      \/ IsSet(r) /\ ~(r.key = k /\ r.at = s)
        BY <1>1, SetNow
  <2>5. Row(k, s, v).at = s
        BY DEF Row
  <2> QED BY <2>2, <2>3, <2>4, <2>5
<1> QED BY <1>2, <1>3, <1>4 DEF PropertyRows

LEMMA SqliteKeepsRows ==
  ASSUME PropertyRows, backend = "sqlite",
         NEW k \in Key, NEW v \in Value \union {Empty}, NEW a \in Array, SetProperty(k, v, a)
  PROVE  PropertyRows'
<1> DEFINE s == PropertyAt(a)
<1>1. s \in PropertyScopes /\ Trusted(s)
      BY ScopeOfArray DEF Trusted
<1>2. set' = [set EXCEPT ![k][s] = v] /\ backend' = backend
      BY DEF SetProperty
<1>3. properties' = (properties \ RowAt(k, s)) \union (IF v = Empty THEN {} ELSE {Row(k, s, v)})
      BY DEF SetProperty, Sqlite!SetProperty, Sqlite!RowAt, Sqlite!Row, RowAt, Row
<1> HIDE DEF s
<1> QED BY <1>1, <1>2, <1>3, ReplacesRow

LEMMA MongoKeepsRows ==
  ASSUME PropertyRows, backend = "mongo",
         NEW k \in Key, NEW v \in Value \union {Empty}, NEW a \in Array, SetProperty(k, v, a)
  PROVE  PropertyRows'
<1> DEFINE s == PropertyAt(a) x == Mongo!Nested(s)
           new == IF v = Empty THEN {} ELSE {Row(k, x, v)}
<1>1. s \in PropertyScopes /\ x \in Location
      BY ScopeOfArray DEF Location
<1>2. set' = [set EXCEPT ![k][s] = v] /\ backend' = backend
      BY DEF SetProperty
<1>3. properties' = (properties \ RowAt(k, x)) \union new
      BY DEF SetProperty, Mongo!SetProperty, Mongo!RowAt, Mongo!Row, RowAt, Row
<1>4. CASE NoGaps
  <2>1. x = s /\ Trusted(s)
        BY <1>1, <1>4 DEF NoGaps, Trusted
  <2> HIDE DEF s
  <2>2. properties' = (properties \ RowAt(k, s)) \union (IF v = Empty THEN {} ELSE {Row(k, s, v)})
        BY <1>3, <2>1
  <2> QED BY <1>1, <1>2, <2>1, <2>2, ReplacesRow
<1>5. CASE ~NoGaps
  <2>1. \A y : ~Trusted(y)
        BY <1>5 DEF Trusted
  <2>2. \A r \in new : r.key = k /\ r.at = x /\ r \in [key : Key, at : Location, value : Value]
        BY <1>1 DEF Row
  <2>3. \A r, o \in new : r = o
        OBVIOUS
  <2>4. \A r \in properties : RowAt(r.key, r.at) = {r}
        BY DEF PropertyRows
  <2> HIDE DEF new, s, x
  <2>5. \A r \in properties' : RowAt(r.key, r.at)' = {r}
        BY <1>3, <2>2, <2>3, <2>4, ReplacingKeepsKey
  <2>6. properties' \subseteq [key : Key, at : Location, value : Value]
        BY <1>3, <2>2 DEF PropertyRows
  <2> QED BY <1>1, <1>2, <2>1, <2>5, <2>6, KeepsTrustedRows
<1> QED BY <1>4, <1>5

LEMMA PostgresKeepsRows ==
  ASSUME PropertyRows, backend = "postgres",
         NEW k \in Key, NEW v \in Value \union {Empty}, NEW a \in Array, SetProperty(k, v, a)
  PROVE  PropertyRows'
<1> DEFINE s == PropertyAt(a) x == Postgres!Swapped(s) old == RowAt(k, s)
<1>1. s \in PropertyScopes /\ s \in Location /\ x \in Location
      BY ScopeOfArray DEF Location
<1>2. set' = [set EXCEPT ![k][s] = v] /\ backend' = backend
      BY DEF SetProperty
<1>3. properties' = IF v = Empty THEN properties \ old
                    ELSE IF old # {} THEN (properties \ old) \union {Row(k, s, v)}
                    ELSE properties \union {Row(k, x, v)}
      BY DEF SetProperty, Postgres!SetProperty, Postgres!Updated, Postgres!RowAt, Postgres!Row,
             RowAt, Row
<1>4. s = <<s[1], s[2], s[3]>> /\ x = <<s[1], s[3], s[2]>>
      BY <1>1, ScopeIsTriple DEF Postgres!Swapped
<1>5. properties \subseteq [key : Key, at : Location, value : Value]
      BY DEF PropertyRows
<1>6. CASE Trusted(s)
  <2>1. x = s
    <3>1. s[2] = Empty /\ s[3] = Empty
          BY <1>6 DEF Trusted
    <3> QED BY <1>4, <3>1
  <2> HIDE DEF s, x
  <2>2. properties' = (properties \ RowAt(k, s)) \union (IF v = Empty THEN {} ELSE {Row(k, s, v)})
        BY <1>3, <2>1
  <2> QED BY <1>1, <1>2, <1>6, <2>2, ReplacesRow
<1>7. CASE ~Trusted(s)
  <2>1. ~Trusted(x)
        BY <1>4, <1>7 DEF Trusted
  <2>2. \A r \in old : r.at = s
        BY DEF RowAt
  <2>3. Row(k, s, v).at = s /\ Row(k, x, v).at = x
        BY DEF Row
  <2>4. v # Empty => /\ Row(k, s, v) \in [key : Key, at : Location, value : Value]
                     /\ Row(k, x, v) \in [key : Key, at : Location, value : Value]
        BY <1>1 DEF Row
  <2> HIDE DEF old, s, x
  <2>5. properties' \subseteq [key : Key, at : Location, value : Value]
        BY <1>3, <1>5, <2>4
  <2>6. \A r : Trusted(r.at) => (r \in properties' <=> r \in properties)
        BY <1>3, <1>7, <2>1, <2>2, <2>3
  <2> QED BY <1>1, <1>2, <1>7, <2>5, <2>6, KeepsTrustedRows
<1> QED BY <1>6, <1>7

\* Steps that store no property.
LEMMA OpeningKeepsTables ==
  OpenDatabase \/ CloseDatabase => UNCHANGED <<data, backend, requests>>
BY DEF OpenDatabase, CloseDatabase, Close, data, Sqlite!Open, Sqlite!Upgrade, Sqlite!Stamp,
       Postgres!Open, Postgres!Upgrade, Postgres!Commit, Mongo!Open, Sqlite!data,
       Postgres!data, Mongo!data

LEMMA PropertyRowsStep == SchemaInv /\ PropertyRows /\ [Next]_vars => PropertyRows'
<1> SUFFICES ASSUME SchemaInv, PropertyRows, [Next]_vars PROVE PropertyRows'
    OBVIOUS
<1>1. CASE UNCHANGED <<properties, set, backend>>
      BY <1>1, OthersKeepProperties
<1>2. CASE OpenDatabase \/ CloseDatabase
      BY <1>1, <1>2, OpeningKeepsTables DEF data, requests
<1>3. CASE Request
  <2>1. CASE \E k \in Key, a \in Array, v \in Value \union {Empty} : SetProperty(k, v, a)
        BY <2>1, SqliteKeepsRows, PostgresKeepsRows, MongoKeepsRows DEF SchemaInv
  <2>2. CASE ~\E k \in Key, a \in Array, v \in Value \union {Empty} : SetProperty(k, v, a)
        BY <1>1, <1>3, <2>2 DEF Request, GetProperty, PropertyKeys, HasPermission, SetPermission,
           UnsetPermission, RequestFails, database, data, requests
  <2> QED BY <2>1, <2>2
<1>4. CASE UNCHANGED vars
      BY <1>1, <1>4 DEF vars, database, data
<1> QED BY <1>2, <1>3, <1>4 DEF Next

LEMMA PropertyRowsCorrect == Spec => []PropertyRows
<1>1. StoreInit => PropertyRows
      BY PropertyRowsInit
<1>2. SchemaInv /\ PropertyRows /\ [Next]_vars => PropertyRows'
      BY PropertyRowsStep
<1> QED BY <1>1, <1>2, SchemaCorrect, PTL DEF Spec

-----------------------------------------------------------------------------
(* What a get is answered with.                                            *)

\* The gets that are answered as documented: all of SQLite; in PostgreSQL those
\* whose rows are where they are looked for; in MongoDB those that restrict all
\* fields, while no query fails.
Answered(s) ==
  \/ backend = "sqlite"
  \/ backend = "postgres" /\ s[2] = Empty /\ s[3] = Empty
  \/ backend = "mongo" /\ NoGaps /\ QueriesFail = FALSE /\ \A i \in 1 .. 3 : s[i] # Empty

GetsInv ==
  reply[1] = "get" =>
    /\ reply[2] \in Key /\ reply[3] \in PropertyScopes
    /\ Answered(reply[3]) => reply[4] \in Properties!Answers(set, reply[2], reply[3], Empty)

LEMMA GetsInit == StoreInit => GetsInv
BY DEF StoreInit, GetsInv, NoReply

LEMMA AnswersOfGet ==
  ASSUME PropertyRows, NEW k \in Key, NEW s \in PropertyScopes, Answered(s)
  PROVE  /\ backend = "sqlite" => \A v \in Sqlite!Property(k, s) :
                                    v \in Properties!Answers(set, k, s, Empty)
         /\ backend = "postgres" => \A v \in Postgres!Property(k, s) :
                                      v \in Properties!Answers(set, k, s, Empty)
         /\ backend = "mongo" => \A v \in Mongo!Property(k, s) :
                                   v \in Properties!Answers(set, k, s, Empty)
<1> DEFINE rows == {r \in properties : r.key = k /\ Sqlite!Covers(r.at, s)}
<1>1. Trusted(s)
      BY DEF Answered, Trusted
<1>2. \A v \in FirstOf(rows) : v \in Properties!Answers(set, k, s, Empty)
      BY <1>1, FirstIsAnswer
<1>3. Sqlite!Property(k, s) = FirstOf(rows)
      BY DEF Sqlite!Property, Sqlite!FirstOf, Sqlite!Before, FirstOf, Before
<1>4. Postgres!Property(k, s) = FirstOf(rows)
      BY DEF Postgres!Property, Postgres!Covers, Sqlite!Covers, Postgres!FirstOf,
             Postgres!Before, FirstOf, Before
<1>5. ASSUME backend = "mongo" PROVE Mongo!Property(k, s) = FirstOf(rows)
  <2>1. QueriesFail = FALSE /\ \A i \in 1 .. 3 : s[i] # Empty
        BY <1>5 DEF Answered
  <2>2. Mongo!Restricted(s) = 1 .. 3
        BY <2>1 DEF Mongo!Restricted
  <2>3. \A x : Mongo!Selected(x, s) <=> Sqlite!Covers(x, s)
        BY <2>2 DEF Mongo!Selected, Sqlite!Covers
  <2>4. {r \in properties : r.key = k /\ Mongo!Selected(r.at, s)} = rows
        BY <2>3
  <2>5. Mongo!Property(k, s) = Mongo!FirstOf(rows)
        BY <2>1, <2>4 DEF Mongo!Property
  <2> QED BY <2>5 DEF Mongo!FirstOf, Mongo!Before, FirstOf, Before
<1> HIDE DEF rows
<1> QED BY <1>2, <1>3, <1>4, <1>5

LEMMA GetAnswers ==
  ASSUME SchemaInv, PropertyRows, NEW k \in Key, NEW a \in Array, GetProperty(k, a)
  PROVE  GetsInv'
<1> DEFINE s == PropertyAt(a)
           answers == CASE backend = "sqlite"   -> Sqlite!Property(k, s)
                        [] backend = "postgres" -> Postgres!Property(k, s)
                        [] backend = "mongo"    -> Mongo!Property(k, s)
<1>1. s \in PropertyScopes
      BY ScopeOfArray
<1>2. UNCHANGED <<properties, set, backend>>
      BY DEF GetProperty, database, data, requests
<1>3. PICK v \in answers : reply' = <<"get", k, s, v>>
      BY DEF GetProperty
<1>4. backend \in {"sqlite", "postgres", "mongo"}
      BY DEF SchemaInv
<1>5. Answered(s) => v \in Properties!Answers(set, k, s, Empty)
      BY <1>1, <1>3, <1>4, AnswersOfGet
<1> HIDE DEF s, answers
<1>6. reply'[2] = k /\ reply'[3] = s /\ reply'[4] = v
      BY <1>3
<1>7. Properties!Answers(set', reply'[2], reply'[3], Empty) = Properties!Answers(set, k, s, Empty)
      BY <1>2, <1>6
<1>8. Answered(reply[3])' <=> Answered(s)
      BY <1>2, <1>6 DEF Answered
<1> QED BY <1>1, <1>5, <1>6, <1>7, <1>8 DEF GetsInv

LEMMA GetsStep == SchemaInv /\ PropertyRows /\ GetsInv /\ [Next]_vars => GetsInv'
<1> SUFFICES ASSUME SchemaInv, PropertyRows, GetsInv, [Next]_vars PROVE GetsInv'
    OBVIOUS
<1>1. ASSUME reply'[1] # "get" PROVE GetsInv'
      BY <1>1 DEF GetsInv
<1>2. ASSUME UNCHANGED <<reply, set, backend>> PROVE GetsInv'
      BY <1>2 DEF GetsInv, Answered
<1>3. CASE OpenDatabase
      BY <1>2, <1>3 DEF OpenDatabase, requests
<1>4. CASE CloseDatabase
      BY <1>1, <1>4 DEF CloseDatabase, NoReply
<1>5. CASE Request
  <2>1. CASE \E k \in Key, a \in Array : GetProperty(k, a)
        BY <2>1, GetAnswers
  <2>2. CASE ~\E k \in Key, a \in Array : GetProperty(k, a)
    <3>1. reply'[1] # "get"
          BY <1>5, <2>2 DEF Request, SetProperty, PropertyKeys, HasPermission, SetPermission,
             UnsetPermission, RequestFails, Done, Failed
    <3> QED BY <1>1, <3>1
  <2> QED BY <2>1, <2>2
<1>6. CASE UNCHANGED vars
      BY <1>2, <1>6 DEF vars
<1> QED BY <1>3, <1>4, <1>5, <1>6 DEF Next

LEMMA GetsCorrect == Spec => []GetsInv
<1>1. StoreInit => GetsInv
      BY GetsInit
<1>2. SchemaInv /\ PropertyRows /\ GetsInv /\ [Next]_vars => GetsInv'
      BY GetsStep
<1> QED BY <1>1, <1>2, SchemaCorrect, PropertyRowsCorrect, PTL DEF Spec

\* In PostgreSQL a get without receiver and sender is answered as documented,
\* whatever else was set and under whatever exchanged fields.
THEOREM NetworkGetsCorrect == Spec => []NetworkGets
<1>1. GetsInv => NetworkGets
      BY DEF GetsInv, NetworkGets, GetIsDocumented, Answered
<1> QED BY <1>1, GetsCorrect, PTL

\* In MongoDB, as long as its queries do not fail and no scope has a gap, a get
\* with network, receiver and sender is answered as documented.
THEOREM FullScopeGetsCorrect ==
  ASSUME QueriesFail = FALSE
  PROVE  Spec => []FullScopeGets
<1>1. GetsInv => FullScopeGets
      BY DEF GetsInv, FullScopeGets, GetIsDocumented, Answered
<1> QED BY <1>1, GetsCorrect, PTL

\* What SQLite selects for keys is what was set in this very scope.
LEMMA KeysAnswer ==
  ASSUME PropertyRows, NEW n \in Namespace, NEW a \in Array, PropertyKeys(n, a)
  PROVE  SqliteKeys'
<1> DEFINE s == PropertyAt(a)
<1>1. s \in PropertyScopes
      BY DEF PropertyScopes
<1>2. UNCHANGED <<set, backend>>
      BY DEF PropertyKeys, requests
<1> SUFFICES ASSUME backend = "sqlite"
    PROVE  SqliteKeys'
    BY <1>2 DEF SqliteKeys
<1>3. reply' = <<"keys", n, s, Sqlite!PropertyKeys(n, s)>>
      BY DEF PropertyKeys
<1>4. \A k \in Key : set[k][s] # Empty <=> \E r \in properties : r.key = k /\ r.at = s
  <2> TAKE k \in Key
  <2>1. Trusted(s)
        BY <1>1 DEF Trusted
  <2>2. ASSUME set[k][s] # Empty
        PROVE  \E r \in properties : r.key = k /\ r.at = s
    <3>1. IsSet(Row(k, s, set[k][s]))
          BY <1>1, <2>2 DEF IsSet, Row
    <3>2. Row(k, s, set[k][s]).at = s /\ Row(k, s, set[k][s]).key = k
          BY DEF Row
    <3>3. Row(k, s, set[k][s]) \in properties
          BY <2>1, <3>1, <3>2 DEF PropertyRows
    <3> QED BY <3>2, <3>3
  <2>3. ASSUME NEW r \in properties, r.key = k, r.at = s
        PROVE  set[k][s] # Empty
    <3> HIDE DEF s
    <3>1. IsSet(r)
          BY <2>1, <2>3 DEF PropertyRows
    <3>2. PICK l \in Key, u \in PropertyScopes : set[l][u] # Empty /\ r = Row(l, u, set[l][u])
          BY <3>1 DEF IsSet
    <3>3. l = k /\ u = s
          BY <2>3, <3>2 DEF Row
    <3> QED BY <3>2, <3>3
  <2> QED BY <2>2, <2>3
<1>5. \A r \in properties : r.key \in Key
      BY DEF PropertyRows
<1>6. Sqlite!PropertyKeys(n, s) = {k \in Key : StartsWith(k, n) /\ set[k][s] # Empty}
      BY <1>4, <1>5 DEF Sqlite!PropertyKeys, Sqlite!StartsWith, StartsWith
<1> HIDE DEF s
<1>7. reply'[2] = n /\ reply'[3] = s /\ reply'[4] = Sqlite!PropertyKeys(n, s)
      BY <1>3
<1> QED BY <1>2, <1>6, <1>7 DEF SqliteKeys, StartsWith

LEMMA KeysStep == PropertyRows /\ SqliteKeys /\ [Next]_vars => SqliteKeys'
<1> SUFFICES ASSUME PropertyRows, SqliteKeys, [Next]_vars PROVE SqliteKeys'
    OBVIOUS
<1>1. ASSUME reply'[1] # "keys" PROVE SqliteKeys'
      BY <1>1 DEF SqliteKeys
<1>2. ASSUME UNCHANGED <<reply, set, backend>> PROVE SqliteKeys'
      BY <1>2 DEF SqliteKeys, StartsWith
<1>3. CASE OpenDatabase
      BY <1>2, <1>3 DEF OpenDatabase, requests
<1>4. CASE CloseDatabase
      BY <1>1, <1>4 DEF CloseDatabase, NoReply
<1>5. CASE Request
  <2>1. CASE \E n \in Namespace, a \in Array : PropertyKeys(n, a)
        BY <2>1, KeysAnswer
  <2>2. CASE ~\E n \in Namespace, a \in Array : PropertyKeys(n, a)
    <3>1. reply'[1] # "keys"
          BY <1>5, <2>2 DEF Request, GetProperty, SetProperty, HasPermission, SetPermission,
             UnsetPermission, RequestFails, Done, Failed
    <3> QED BY <1>1, <3>1
  <2> QED BY <2>1, <2>2
<1>6. CASE UNCHANGED vars
      BY <1>2, <1>6 DEF vars
<1> QED BY <1>3, <1>4, <1>5, <1>6 DEF Next

\* SQLite answers a request for keys with the names that are set in the scope of
\* the request, no wider and no narrower one, and not unset since.
THEOREM SqliteKeysCorrect == Spec => []SqliteKeys
<1>1. StoreInit => SqliteKeys
      BY DEF StoreInit, NoReply, SqliteKeys
<1>2. PropertyRows /\ SqliteKeys /\ [Next]_vars => SqliteKeys'
      BY KeysStep
<1> QED BY <1>1, <1>2, PropertyRowsCorrect, PTL DEF Spec

-----------------------------------------------------------------------------
(* The table of the permissions.                                           *)

Given(p, s) ==
  IF permitted[p][s] = Empty THEN {} ELSE {Grant(p, s, permitted[p][s])}

\* One row per name and location; those of MongoDB are what plugins set last.
PermissionRows ==
  /\ permitted \in [Permission -> [PermissionScopes -> BOOLEAN \union {Empty}]]
  /\ permissions \subseteq [name : Permission, at : PermissionScopes, permission : BOOLEAN]
  /\ \A g \in permissions : GrantAt(g.name, g.at) = {g}
  /\ backend = "mongo" =>
       \A p \in Permission, s \in PermissionScopes : GrantAt(p, s) = Given(p, s)

LEMMA PermissionRowsInit == StoreInit => PermissionRows
<1> SUFFICES ASSUME StoreInit PROVE PermissionRows
    OBVIOUS
<1>1. permissions = {} /\ permitted = [p \in Permission |-> [s \in PermissionScopes |-> Empty]]
      BY DEF StoreInit, Init
<1>2. \A p \in Permission, s \in PermissionScopes : GrantAt(p, s) = {} /\ Given(p, s) = {}
      BY <1>1 DEF GrantAt, Given
<1> QED BY <1>1, <1>2 DEF PermissionRows

LEMMA OthersKeepPermissions ==
  ASSUME PermissionRows, UNCHANGED <<permissions, permitted, backend>>
  PROVE  PermissionRows'
BY DEF PermissionRows, Given, GrantAt

\* The rows of one name and location are replaced.
LEMMA ReplacesGrant ==
  ASSUME PermissionRows, NEW p \in Permission, NEW s \in PermissionScopes,
         NEW b \in BOOLEAN \union {Empty}, NEW c \in BOOLEAN \union {Empty},
         permitted' = [permitted EXCEPT ![p][s] = b], backend' = backend,
         backend = "mongo" => b = c,
         permissions' = (permissions \ GrantAt(p, s))
                          \union (IF c = Empty THEN {} ELSE {Grant(p, s, c)})
  PROVE  PermissionRows'
<1> DEFINE new == IF c = Empty THEN {} ELSE {Grant(p, s, c)}
<1>1. /\ permitted \in [Permission -> [PermissionScopes -> BOOLEAN \union {Empty}]]
      /\ permissions \subseteq [name : Permission, at : PermissionScopes, permission : BOOLEAN]
      BY DEF PermissionRows
<1>2. permitted' \in [Permission -> [PermissionScopes -> BOOLEAN \union {Empty}]]
      BY <1>1
<1>3. permissions' \subseteq [name : Permission, at : PermissionScopes, permission : BOOLEAN]
      BY <1>1 DEF Grant
<1>4. \A g \in new : g.name = p /\ g.at = s
      BY DEF Grant
<1>5. permissions' = (permissions \ {g \in permissions : g.name = p /\ g.at = s}) \union new
      BY DEF GrantAt
<1>6. \A g, h \in new : g = h
      OBVIOUS
<1>7. \A g, h \in permissions : h.name = g.name /\ h.at = g.at => h = g
      BY DEF PermissionRows, GrantAt
<1>8. \A g \in permissions' : GrantAt(g.name, g.at)' = {g}
  <2> HIDE DEF new
  <2>1. \A g, h \in permissions' : h.name = g.name /\ h.at = g.at => h = g
        BY <1>4, <1>5, <1>6, <1>7
  <2>2. \A g \in permissions' : {h \in permissions' : h.name = g.name /\ h.at = g.at} = {g}
        BY <2>1
  <2> QED BY <2>2 DEF GrantAt
<1>9. ASSUME backend = "mongo", NEW q \in Permission, NEW t \in PermissionScopes
      PROVE  GrantAt(q, t)' = Given(q, t)'
  <2>1. {g \in permissions : g.name = q /\ g.at = t} = Given(q, t)
        BY <1>9 DEF PermissionRows, GrantAt
  <2>2. CASE q = p /\ t = s
    <3>1. Given(q, t)' = new
          BY <1>1, <1>9, <2>2 DEF Given, Grant
    <3> HIDE DEF new
    <3>2. {g \in permissions' : g.name = q /\ g.at = t} = new
          BY <1>4, <1>5, <2>2
    <3> QED BY <3>1, <3>2 DEF GrantAt
  <2>3. CASE ~(q = p /\ t = s)
    <3>1. permitted'[q][t] = permitted[q][t]
          BY <1>1, <2>3
    <3>2. Given(q, t)' = Given(q, t)
          BY <3>1 DEF Given, Grant
    <3> HIDE DEF new
    <3>3. {g \in permissions' : g.name = q /\ g.at = t} = {g \in permissions : g.name = q /\ g.at = t}
          BY <1>4, <1>5, <2>3
    <3> QED BY <2>1, <3>2, <3>3 DEF GrantAt
  <2> QED BY <2>2, <2>3
<1> QED BY <1>2, <1>3, <1>8, <1>9 DEF PermissionRows

LEMMA SetPermissionKeepsRows ==
  ASSUME PermissionRows, backend \in {"sqlite", "postgres", "mongo"},
         NEW p \in Permission, NEW a \in Array, NEW b \in BOOLEAN, SetPermission(p, a, b)
  PROVE  PermissionRows'
<1> DEFINE s == At(a)
<1>1. s \in PermissionScopes
      BY ScopeOfArray DEF SetPermission
<1>2. permitted' = [permitted EXCEPT ![p][s] = b] /\ backend' = backend
      BY DEF SetPermission
<1>3. \/ backend = "sqlite" /\ Sqlite!SetPermission(p, s, b)
      \/ backend = "postgres" /\ Postgres!SetPermission(p, s, b)
      \/ backend = "mongo" /\ Mongo!SetPermission(p, s, b)
      BY DEF SetPermission
<1>4. TRUE # Empty /\ b # Empty
      BY EmptyAssumption
<1> HIDE DEF s
<1>5. CASE backend = "sqlite"
  <2>1. permissions' = (permissions \ GrantAt(p, s)) \union {Grant(p, s, TRUE)}
        BY <1>3, <1>5 DEF Sqlite!SetPermission, Sqlite!GrantAt, Sqlite!Grant, GrantAt, Grant
  <2> DEFINE c == TRUE
  <2>2. c \in BOOLEAN \union {Empty} /\ c # Empty
        BY <1>4
  <2> QED BY <1>1, <1>2, <1>4, <1>5, <2>1, ReplacesGrant
<1>6. CASE backend = "mongo"
  <2>1. permissions' = (permissions \ GrantAt(p, s)) \union {Grant(p, s, b)}
        BY <1>3, <1>6 DEF Mongo!SetPermission, Mongo!GrantAt, Mongo!Grant, GrantAt, Grant
  <2> QED BY <1>1, <1>2, <1>4, <2>1, ReplacesGrant
<1>7. CASE backend = "postgres" /\ GrantAt(p, s) = {}
  <2>1. permissions' = (permissions \ GrantAt(p, s)) \union {Grant(p, s, TRUE)}
        BY <1>3, <1>7 DEF Postgres!SetPermission, Postgres!GrantAt, Postgres!Grant, GrantAt, Grant
  <2> QED BY <1>1, <1>2, <1>4, <1>7, <2>1, ReplacesGrant
<1>8. CASE backend = "postgres" /\ GrantAt(p, s) # {}
  <2>1. permissions' = permissions
        BY <1>3, <1>8 DEF Postgres!SetPermission, Postgres!GrantAt, GrantAt
  <2>2. permitted' \in [Permission -> [PermissionScopes -> BOOLEAN \union {Empty}]]
        BY <1>1, <1>2 DEF PermissionRows
  <2> QED BY <1>2, <1>8, <2>1, <2>2 DEF PermissionRows, GrantAt
<1> QED BY <1>5, <1>6, <1>7, <1>8

LEMMA UnsetPermissionKeepsRows ==
  ASSUME PermissionRows, backend \in {"sqlite", "postgres", "mongo"},
         NEW p \in Permission, NEW a \in Array, UnsetPermission(p, a)
  PROVE  PermissionRows'
<1> DEFINE s == At(a)
<1>1. s \in PermissionScopes
      BY ScopeOfArray DEF UnsetPermission
<1>2. permitted' = [permitted EXCEPT ![p][s] = Empty] /\ backend' = backend
      BY DEF UnsetPermission
<1>3. permissions' = (permissions \ GrantAt(p, s)) \union {}
      BY DEF UnsetPermission, Sqlite!UnsetPermission, Postgres!UnsetPermission,
             Mongo!UnsetPermission, Sqlite!GrantAt, Postgres!GrantAt, Mongo!GrantAt, GrantAt
<1> HIDE DEF s
<1> QED BY <1>1, <1>2, <1>3, ReplacesGrant

LEMMA PermissionRowsStep == SchemaInv /\ PermissionRows /\ [Next]_vars => PermissionRows'
<1> SUFFICES ASSUME SchemaInv, PermissionRows, [Next]_vars PROVE PermissionRows'
    OBVIOUS
<1>1. CASE UNCHANGED <<permissions, permitted, backend>>
      BY <1>1, OthersKeepPermissions
<1>2. CASE OpenDatabase \/ CloseDatabase
      BY <1>1, <1>2, OpeningKeepsTables DEF data, requests
<1>3. CASE Request
  <2>1. CASE \E p \in Permission, a \in Array, b \in BOOLEAN : SetPermission(p, a, b)
        BY <2>1, SetPermissionKeepsRows DEF SchemaInv
  <2>2. CASE \E p \in Permission, a \in Array : UnsetPermission(p, a)
        BY <2>2, UnsetPermissionKeepsRows DEF SchemaInv
  <2>3. CASE /\ ~\E p \in Permission, a \in Array, b \in BOOLEAN : SetPermission(p, a, b)
             /\ ~\E p \in Permission, a \in Array : UnsetPermission(p, a)
    <3>1. \/ \E k \in Key, a \in Array :
               \/ GetProperty(k, a)
               \/ \E v \in Value \union {Empty} : SetProperty(k, v, a)
          \/ \E n \in Namespace, a \in Array : PropertyKeys(n, a)
          \/ \E p \in Permission, a \in Array, b \in BOOLEAN : HasPermission(p, a, b)
          \/ RequestFails
          BY <1>3, <2>3 DEF Request
    <3> QED BY <1>1, <3>1 DEF GetProperty, SetProperty, PropertyKeys, HasPermission,
               RequestFails, database, data, requests
  <2> QED BY <2>1, <2>2, <2>3
<1>4. CASE UNCHANGED vars
      BY <1>1, <1>4 DEF vars, database, data
<1> QED BY <1>2, <1>3, <1>4 DEF Next

LEMMA PermissionRowsCorrect == Spec => []PermissionRows
<1>1. StoreInit => PermissionRows
      BY PermissionRowsInit
<1>2. SchemaInv /\ PermissionRows /\ [Next]_vars => PermissionRows'
      BY PermissionRowsStep
<1> QED BY <1>1, <1>2, SchemaCorrect, PTL DEF Spec

-----------------------------------------------------------------------------
(* Types.                                                                  *)

Steps == step \in 0 .. 5 /\ uncommitted \in 0 .. 5

LEMMA StepsStep == SchemaInv /\ Steps /\ [Next]_vars => Steps'
<1> SUFFICES ASSUME SchemaInv, Steps, [Next]_vars PROVE Steps'
    OBVIOUS
<1>1. schema \in 0 .. 5 /\ version \in 0 .. 5 /\ step \in 0 .. 5 /\ uncommitted \in 0 .. 5
      BY DEF Steps, SchemaInv, SqliteSchema, PostgresSchema, MongoSchema
<1>2. CASE UNCHANGED connection
      BY <1>2, <1>1 DEF connection, Steps
<1>3. CASE OpenDatabase
  <2>1. CASE Sqlite!Open \/ Sqlite!Upgrade \/ Sqlite!Stamp
        BY <1>1, <2>1 DEF Sqlite!Open, Sqlite!Upgrade, Sqlite!Stamp, Sqlite!Target, Steps
  <2>2. CASE Postgres!Open \/ Postgres!Upgrade \/ Postgres!Commit
        BY <1>1, <2>2 DEF Postgres!Open, Postgres!Upgrade, Postgres!Commit, Postgres!Target, Steps
  <2>3. CASE Mongo!Open
        BY <1>1, <2>3 DEF Mongo!Open, Steps
  <2> QED BY <1>3, <2>1, <2>2, <2>3 DEF OpenDatabase
<1>4. CASE CloseDatabase
      BY <1>4 DEF CloseDatabase, Close, Steps
<1>5. CASE Request
      BY <1>2, <1>5, RequestsKeepSchema
<1>6. CASE UNCHANGED vars
      BY <1>2, <1>6 DEF vars, database
<1> QED BY <1>3, <1>4, <1>5, <1>6 DEF Next

\* The types of all three backends, and their primary keys: one row per
\* permission and location everywhere, and one per property and location in
\* SQLite and MongoDB.
THEOREM TypeCorrect == Spec => []TypeOK
<1>1. StoreInit => Steps
      BY DEF StoreInit, Init, Steps
<1>2. SchemaInv /\ Steps /\ [Next]_vars => Steps'
      BY StepsStep
<1>3. ASSUME SchemaInv, Steps, PropertyRows, PermissionRows PROVE TypeOK
  <2>1. status \in {"closed", "upgrading", "open", "failed"}
        BY <1>3 DEF SchemaInv
  <2>2. {step, schema, version, uncommitted} \subseteq 0 .. 5
        BY <1>3 DEF SchemaInv, SqliteSchema, PostgresSchema, MongoSchema, Steps
  <2>3. permissions \subseteq [name : Permission, at : Location, permission : BOOLEAN]
    <3>1. PermissionScopes \subseteq Location
          BY DEF Location
    <3>2. permissions \subseteq [name : Permission, at : PermissionScopes, permission : BOOLEAN]
          BY <1>3 DEF PermissionRows
    <3> QED BY <3>1, <3>2
  <2> QED BY <1>3, <2>1, <2>2, <2>3 DEF TypeOK, PropertyRows, PermissionRows
<1> QED BY <1>1, <1>2, <1>3, SchemaCorrect, PropertyRowsCorrect, PermissionRowsCorrect, PTL DEF Spec

-----------------------------------------------------------------------------
(* SQLite does for properties what the protocol promises.                  *)

Held == [k \in Key |-> [s \in PropertyScopes |-> SqliteProperty(k, s)]]

\* The table of SQLite is what was set.
HeldIsSet ==
  /\ backend = "sqlite" => Held = set
  /\ backend # "sqlite" => Held = [k \in Key |-> [s \in PropertyScopes |-> Empty]]

LEMMA RowsGiveHeld == PropertyRows => HeldIsSet
<1> SUFFICES ASSUME PropertyRows PROVE HeldIsSet
    OBVIOUS
<1>1. ASSUME backend = "sqlite", NEW k \in Key, NEW s \in PropertyScopes
      PROVE  SqliteProperty(k, s) = set[k][s]
  <2> DEFINE r == Row(k, s, set[k][s])
  <2>1. \A x, v : Row(k, x, v).key = k /\ Row(k, x, v).at = x /\ Row(k, x, v).value = v
        BY DEF Row
  <2>2. \A o : Trusted(o.at)
        BY <1>1 DEF Trusted
  <2>3. \A o : o \in RowAt(k, s) <=> IsSet(o) /\ o.key = k /\ o.at = s
        BY <2>2 DEF PropertyRows, RowAt
  <2>4. \A o : o \in RowAt(k, s) => set[k][s] # Empty /\ o = r
    <3>1. SUFFICES ASSUME NEW o, IsSet(o), o.key = k, o.at = s PROVE set[k][s] # Empty /\ o = r
          BY <2>3
    <3>2. PICK l \in Key, t \in PropertyScopes : set[l][t] # Empty /\ o = Row(l, t, set[l][t])
          BY <3>1 DEF IsSet
    <3>3. l = k /\ t = s
          BY <3>1, <3>2 DEF Row
    <3> QED BY <3>2, <3>3
  <2>5. set[k][s] # Empty => r \in RowAt(k, s)
        BY <2>1, <2>3 DEF IsSet
  <2>6. r.value = set[k][s]
        BY <2>1
  <2> HIDE DEF r
  <2>7. CASE set[k][s] = Empty
    <3>1. RowAt(k, s) = {}
          BY <2>4, <2>7
    <3> QED BY <2>7, <3>1 DEF SqliteProperty
  <2>8. CASE set[k][s] # Empty
    <3>1. RowAt(k, s) = {r}
          BY <2>4, <2>5, <2>8
    <3>2. (CHOOSE x \in {r} : TRUE) = r
          OBVIOUS
    <3> QED BY <1>1, <2>6, <3>1, <3>2 DEF SqliteProperty
  <2> QED BY <2>7, <2>8
<1>2. backend # "sqlite" => \A k \in Key, s \in PropertyScopes : SqliteProperty(k, s) = Empty
      BY DEF SqliteProperty
<1>3. set \in [Key -> [PropertyScopes -> Value \union {Empty}]]
      BY DEF PropertyRows
<1>4. ASSUME backend = "sqlite" PROVE Held = set
  <2>1. \A k \in Key : Held[k] = [s \in PropertyScopes |-> set[k][s]]
        BY <1>1, <1>4 DEF Held
  <2>2. \A k \in Key : Held[k] = set[k]
        BY <1>3, <2>1
  <2> QED BY <1>3, <2>2 DEF Held
<1>5. ASSUME backend # "sqlite" PROVE Held = [k \in Key |-> [s \in PropertyScopes |-> Empty]]
      BY <1>2, <1>5 DEF Held
<1> QED BY <1>4, <1>5 DEF HeldIsSet

\* Steps that ScopedStore takes for requests about something else.
LEMMA OtherRequests ==
  ASSUME HeldIsSet, HeldIsSet', set' = set, backend' = backend,
         backend = "sqlite" => reply'[1] # "get"
  PROVE  Properties!Next
<1>1. Held' = Held
      BY DEF HeldIsSet
<1>2. SqliteAnswer' = Empty
      BY DEF SqliteAnswer
<1>3. Properties!Other
      BY <1>1, <1>2 DEF Properties!Other, Held
<1> QED BY <1>3 DEF Properties!Next

LEMMA GetImplements ==
  ASSUME PropertyRows, HeldIsSet, HeldIsSet', backend = "sqlite",
         NEW k \in Key, NEW a \in Array, GetProperty(k, a)
  PROVE  Properties!Next
<1> DEFINE s == PropertyAt(a)
<1>1. s \in PropertyScopes
      BY ScopeOfArray
<1>2. UNCHANGED <<set, backend>>
      BY DEF GetProperty, requests
<1>3. Held' = Held /\ Held = set
      BY <1>2 DEF HeldIsSet
<1>4. PICK v \in Sqlite!Property(k, s) : reply' = <<"get", k, s, v>>
      BY DEF GetProperty
<1>5. v \in Properties!Answers(set, k, s, Empty)
      BY <1>1, <1>4, AnswersOfGet DEF Answered
<1>6. Properties!Answers(Held, k, s, Empty) = Properties!Answers(set, k, s, Empty)
      BY <1>3
<1> HIDE DEF s
<1>7. SqliteAnswer' = <<k, s, Empty, v>>
      BY <1>2, <1>4 DEF SqliteAnswer
<1>8. Properties!Get(k, s, Empty)
      BY <1>3, <1>5, <1>6, <1>7 DEF Properties!Get, Held
<1> QED BY <1>1, <1>8 DEF Properties!Next

LEMMA SetImplements ==
  ASSUME HeldIsSet, HeldIsSet', backend = "sqlite",
         NEW k \in Key, NEW v \in Value \union {Empty}, NEW a \in Array, SetProperty(k, v, a)
  PROVE  Properties!Next
<1> DEFINE s == PropertyAt(a)
<1>1. s \in PropertyScopes
      BY ScopeOfArray
<1>2. set' = [set EXCEPT ![k][s] = v] /\ backend' = backend /\ reply' = Done
      BY DEF SetProperty
<1> HIDE DEF s
<1>3. Held' = [Held EXCEPT ![k][s] = v]
      BY <1>2 DEF HeldIsSet
<1>4. SqliteAnswer' = Empty
      BY <1>2 DEF SqliteAnswer, Done
<1>5. Properties!Set(k, s, v)
      BY <1>3, <1>4 DEF Properties!Set, Held
<1> QED BY <1>1, <1>5 DEF Properties!Next

LEMMA SqliteStep ==
  SchemaInv /\ PropertyRows /\ HeldIsSet /\ HeldIsSet' /\ [Next]_vars
    => [Properties!Next]_(Properties!vars)
<1> SUFFICES ASSUME SchemaInv, PropertyRows, HeldIsSet, HeldIsSet', [Next]_vars
             PROVE  Properties!Next \/ UNCHANGED Properties!vars
    OBVIOUS
<1>1. ASSUME UNCHANGED <<reply, set, backend>> PROVE UNCHANGED Properties!vars
  <2>1. Held' = Held
        BY <1>1 DEF HeldIsSet
  <2>2. SqliteAnswer' = SqliteAnswer
        BY <1>1 DEF SqliteAnswer
  <2> QED BY <2>1, <2>2 DEF Properties!vars, Held
<1>2. CASE OpenDatabase
      BY <1>1, <1>2 DEF OpenDatabase, requests
<1>3. CASE CloseDatabase
      BY <1>3, OtherRequests DEF CloseDatabase, requests, NoReply
<1>4. CASE Request /\ backend # "sqlite"
  <2>1. backend' = backend
        BY <1>4, RequestsKeepSchema
  <2>2. Held' = Held
        BY <1>4, <2>1 DEF HeldIsSet
  <2>3. SqliteAnswer' = Empty
        BY <1>4, <2>1 DEF SqliteAnswer
  <2>4. Properties!Other
        BY <2>2, <2>3 DEF Properties!Other, Held
  <2> QED BY <2>4 DEF Properties!Next
<1>5. CASE Request /\ backend = "sqlite"
  <2>1. ASSUME NEW k \in Key, NEW a \in Array,
               \/ GetProperty(k, a)
               \/ \E v \in Value \union {Empty} : SetProperty(k, v, a)
        PROVE  Properties!Next
        BY <1>5, <2>1, GetImplements, SetImplements
  <2>2. ASSUME NEW p \in Permission, NEW a \in Array,
               \/ \E b \in BOOLEAN : HasPermission(p, a, b) \/ SetPermission(p, a, b)
               \/ UnsetPermission(p, a)
        PROVE  Properties!Next
    <3>1. UNCHANGED <<set, backend>> /\ reply'[1] # "get"
          BY <2>2 DEF HasPermission, SetPermission, UnsetPermission, requests, Done, Failed
    <3> QED BY <3>1, OtherRequests
  <2>3. ASSUME NEW n \in Namespace, NEW a \in Array, PropertyKeys(n, a)
        PROVE  Properties!Next
    <3>1. UNCHANGED <<set, backend>> /\ reply'[1] # "get"
          BY <2>3 DEF PropertyKeys, requests, Failed
    <3> QED BY <3>1, OtherRequests
  <2>4. CASE RequestFails
        BY <2>4, OtherRequests DEF RequestFails, requests, Failed
  <2> QED BY <1>5, <2>1, <2>2, <2>3, <2>4 DEF Request
<1>6. CASE UNCHANGED vars
      BY <1>1, <1>6 DEF vars
<1> QED BY <1>2, <1>3, <1>4, <1>5, <1>6 DEF Next

\* Whatever is set, unset and asked for, over crashes and reconnections, SQLite
\* answers a get as ScopedStore does: with the closest property, or none.
THEOREM SqliteImplementsCorrect == Spec => SqliteImplements
<1>1. StoreInit => Properties!Init
  <2> SUFFICES ASSUME StoreInit PROVE Properties!Init
      OBVIOUS
  <2>1. properties = {} /\ reply = <<"none">>
        BY DEF StoreInit, Init, NoReply
  <2>2. \A k \in Key, s \in PropertyScopes : SqliteProperty(k, s) = Empty
        BY <2>1 DEF SqliteProperty, RowAt
  <2>3. SqliteAnswer = Empty
        BY <2>1 DEF SqliteAnswer
  <2> QED BY <2>2, <2>3 DEF Properties!Init
<1>2. PropertyRows => HeldIsSet
      BY RowsGiveHeld
<1>3. SchemaInv /\ PropertyRows /\ HeldIsSet /\ HeldIsSet' /\ [Next]_vars
        => [Properties!Next]_(Properties!vars)
      BY SqliteStep
<1> QED BY <1>1, <1>2, <1>3, SchemaCorrect, PropertyRowsCorrect, PTL
        DEF Spec, SqliteImplements, Properties!Spec

-----------------------------------------------------------------------------
(* MongoDB does for permissions what the protocol promises.                *)

Granted == [p \in Permission |-> [s \in PermissionScopes |-> MongoPermission(p, s)]]

\* The collection of MongoDB is what was set.
GrantedIsPermitted ==
  /\ backend = "mongo" => Granted = permitted
  /\ backend # "mongo" => Granted = [p \in Permission |-> [s \in PermissionScopes |-> Empty]]

LEMMA RowsGiveGranted == PermissionRows => GrantedIsPermitted
<1> SUFFICES ASSUME PermissionRows PROVE GrantedIsPermitted
    OBVIOUS
<1>1. ASSUME backend = "mongo", NEW p \in Permission, NEW s \in PermissionScopes
      PROVE  MongoPermission(p, s) = permitted[p][s]
  <2> DEFINE g == Grant(p, s, permitted[p][s])
  <2>1. GrantAt(p, s) = Given(p, s)
        BY <1>1 DEF PermissionRows
  <2>2. g.permission = permitted[p][s]
        BY DEF Grant
  <2>3. Given(p, s) = IF permitted[p][s] = Empty THEN {} ELSE {g}
        BY DEF Given
  <2> HIDE DEF g
  <2>4. (CHOOSE x \in {g} : TRUE) = g
        OBVIOUS
  <2> QED BY <1>1, <2>1, <2>2, <2>3, <2>4 DEF MongoPermission
<1>2. backend # "mongo" => \A p \in Permission, s \in PermissionScopes : MongoPermission(p, s) = Empty
      BY DEF MongoPermission
<1>3. permitted \in [Permission -> [PermissionScopes -> BOOLEAN \union {Empty}]]
      BY DEF PermissionRows
<1>4. ASSUME backend = "mongo" PROVE Granted = permitted
  <2>1. \A p \in Permission : Granted[p] = [s \in PermissionScopes |-> permitted[p][s]]
        BY <1>1, <1>4 DEF Granted
  <2>2. \A p \in Permission : Granted[p] = permitted[p]
        BY <1>3, <2>1
  <2> QED BY <1>3, <2>2 DEF Granted
<1>5. ASSUME backend # "mongo"
      PROVE  Granted = [p \in Permission |-> [s \in PermissionScopes |-> Empty]]
      BY <1>2, <1>5 DEF Granted
<1> QED BY <1>4, <1>5 DEF GrantedIsPermitted

\* The four modes ask for all the scopes around one, each in one mode ...
LEMMA ModesCover ==
  ASSUME NEW t, NEW x
  PROVE  Permissions!Covers(t, x) <=> \E m \in 1 .. 4 : Mongo!InMode(t, x, Mongo!Modes[m])
<1>1. Permissions!Covers(t, x) <=> /\ t[1] = x[1]
                                   /\ t[2] = x[2] \/ t[2] = Empty
                                   /\ t[3] = x[3] \/ t[3] = Empty
  <2>1. \A i \in 1 .. 3 : i \in 2 .. 3 <=> i # 1
        OBVIOUS
  <2> QED BY <2>1 DEF Permissions!Covers
<1>2. \A fields : Mongo!InMode(t, x, fields) <=>
        /\ t[1] = x[1]
        /\ IF 2 \in fields THEN t[2] = x[2] /\ x[2] # Empty ELSE t[2] = Empty
        /\ IF 3 \in fields THEN t[3] = x[3] /\ x[3] # Empty ELSE t[3] = Empty
      BY DEF Mongo!InMode
<1>3. /\ Mongo!Modes[1] = {2, 3} /\ Mongo!Modes[2] = {3}
      /\ Mongo!Modes[3] = {2} /\ Mongo!Modes[4] = {}
      BY DEF Mongo!Modes
<1>4. ASSUME NEW m \in 1 .. 4, Mongo!InMode(t, x, Mongo!Modes[m]) PROVE Permissions!Covers(t, x)
      BY <1>1, <1>2, <1>4
<1>5. ASSUME Permissions!Covers(t, x) PROVE \E m \in 1 .. 4 : Mongo!InMode(t, x, Mongo!Modes[m])
  <2>1. CASE t[2] # Empty /\ t[3] # Empty
    <3>1. Mongo!InMode(t, x, Mongo!Modes[1])
          BY <1>1, <1>2, <1>3, <1>5, <2>1
    <3> QED BY <3>1
  <2>2. CASE t[2] = Empty /\ t[3] # Empty
    <3>1. Mongo!InMode(t, x, Mongo!Modes[2])
          BY <1>1, <1>2, <1>3, <1>5, <2>2
    <3> QED BY <3>1
  <2>3. CASE t[2] # Empty /\ t[3] = Empty
    <3>1. Mongo!InMode(t, x, Mongo!Modes[3])
          BY <1>1, <1>2, <1>3, <1>5, <2>3
    <3> QED BY <3>1
  <2>4. CASE t[2] = Empty /\ t[3] = Empty
    <3>1. Mongo!InMode(t, x, Mongo!Modes[4])
          BY <1>1, <1>2, <1>3, <1>5, <2>4
    <3> QED BY <3>1
  <2> QED BY <2>1, <2>2, <2>3, <2>4
<1> QED BY <1>4, <1>5

\* ... and a closer scope in an earlier one.
LEMMA CloserIsEarlier ==
  ASSUME NEW t \in PermissionScopes, NEW u \in PermissionScopes, NEW x,
         NEW m \in 1 .. 4, NEW n \in 1 .. 4, m <= n,
         Mongo!InMode(t, x, Mongo!Modes[m]), Mongo!InMode(u, x, Mongo!Modes[n]),
         Permissions!Covers(t, u)
  PROVE  u = t
<1>1. t = <<t[1], t[2], t[3]>> /\ u = <<u[1], u[2], u[3]>>
      BY ScopeIsTriple
<1>2. /\ t[1] = u[1]
      /\ t[2] = u[2] \/ t[2] = Empty
      /\ t[3] = u[3] \/ t[3] = Empty
  <2>1. \A i \in 1 .. 3 : i \in 2 .. 3 <=> i # 1
        OBVIOUS
  <2> QED BY <2>1 DEF Permissions!Covers
<1>3. \A y, fields : Mongo!InMode(y, x, fields) <=>
        /\ y[1] = x[1]
        /\ IF 2 \in fields THEN y[2] = x[2] /\ x[2] # Empty ELSE y[2] = Empty
        /\ IF 3 \in fields THEN y[3] = x[3] /\ x[3] # Empty ELSE y[3] = Empty
      BY DEF Mongo!InMode
<1>4. /\ Mongo!Modes[1] = {2, 3} /\ Mongo!Modes[2] = {3}
      /\ Mongo!Modes[3] = {2} /\ Mongo!Modes[4] = {}
      BY DEF Mongo!Modes
<1>5. \A i \in 1 .. 4 : /\ 2 \in Mongo!Modes[i] <=> i = 1 \/ i = 3
                        /\ 3 \in Mongo!Modes[i] <=> i = 1 \/ i = 2
      BY <1>4
<1>6. /\ t[2] = Empty <=> m = 2 \/ m = 4
      /\ t[3] = Empty <=> m = 3 \/ m = 4
      /\ u[2] = Empty <=> n = 2 \/ n = 4
      /\ u[3] = Empty <=> n = 3 \/ n = 4
      BY <1>3, <1>5
<1>7. m = n
      BY <1>2, <1>6
<1>8. t[2] = u[2] /\ t[3] = u[3]
      BY <1>2, <1>6, <1>7
<1> QED BY <1>1, <1>2, <1>8

\* So the first mode with a result answers with the closest scope that has a
\* boolean, and the default if there is none.
LEMMA AnswersOfHas ==
  ASSUME QueriesFail = FALSE, PermissionRows, backend = "mongo", NEW p \in Permission,
         NEW s \in PermissionScopes, NEW default, NEW v \in Mongo!HasPermission(p, s, default)
  PROVE  v \in Permissions!Answers(permitted, p, s, default)
<1> DEFINE settings == Permissions!Settings(permitted, p, s)
           hits == {m \in 1 .. 4 : Mongo!AskedIn(p, s, m) # {}}
           answering == {m \in hits : \A o \in hits : m <= o}
<1>1. ASSUME NEW g \in permissions, g.name = p
      PROVE  g.at \in PermissionScopes /\ permitted[p][g.at] # Empty /\ g.permission = permitted[p][g.at]
  <2>1. g.at \in PermissionScopes
        BY DEF PermissionRows
  <2>2. g \in Given(p, g.at)
        BY <1>1, <2>1 DEF PermissionRows, GrantAt
  <2> QED BY <2>1, <2>2 DEF Given, Grant
<1>2. ASSUME NEW t \in PermissionScopes, permitted[p][t] # Empty
      PROVE  \E g \in permissions : g.name = p /\ g.at = t
  <2>1. Grant(p, t, permitted[p][t]) \in GrantAt(p, t)
        BY <1>2 DEF PermissionRows, Given
  <2> QED BY <2>1 DEF GrantAt
<1>3. \A m, g : g \in Mongo!AskedIn(p, s, m)
                  <=> g \in permissions /\ g.name = p /\ Mongo!InMode(g.at, s, Mongo!Modes[m])
      BY DEF Mongo!AskedIn
<1>4. \A t : t \in settings
               <=> t \in PermissionScopes /\ permitted[p][t] # Empty /\ Permissions!Covers(t, s)
      BY DEF Permissions!Settings
<1>5. ASSUME NEW t \in settings
      PROVE  \E m \in hits : Mongo!InMode(t, s, Mongo!Modes[m])
  <2>1. PICK m \in 1 .. 4 : Mongo!InMode(t, s, Mongo!Modes[m])
        BY <1>4, ModesCover
  <2>2. PICK g \in permissions : g.name = p /\ g.at = t
        BY <1>2, <1>4
  <2>3. g \in Mongo!AskedIn(p, s, m)
        BY <1>3, <2>1, <2>2
  <2> QED BY <2>1, <2>3
<1>6. v \in {g.permission : g \in UNION {Mongo!AskedIn(p, s, m) : m \in answering}}
              \union (IF hits = {} THEN {default} ELSE {})
      BY DEF Mongo!HasPermission
<1>7. Permissions!Answers(permitted, p, s, default)
        = IF settings = {} THEN {default}
          ELSE {permitted[p][t] :
                  t \in {t \in settings : \A u \in settings : Permissions!Covers(t, u) => u = t}}
      BY DEF Permissions!Answers, Permissions!Closest
<1>8. hits \subseteq 1 .. 4
      OBVIOUS
<1>9. \A m \in answering : m \in hits /\ \A o \in hits : m <= o
      OBVIOUS
<1> HIDE DEF settings, hits, answering
<1>10. CASE v = default /\ hits = {}
  <2>1. settings = {}
        BY <1>5, <1>10
  <2> QED BY <1>7, <1>10, <2>1
<1>11. ASSUME NEW m \in answering, NEW g \in Mongo!AskedIn(p, s, m), v = g.permission
       PROVE  v \in Permissions!Answers(permitted, p, s, default)
  <2>1. g \in permissions /\ g.name = p /\ Mongo!InMode(g.at, s, Mongo!Modes[m])
        BY <1>3
  <2>2. m \in 1 .. 4
        BY <1>8, <1>9
  <2>3. g.at \in PermissionScopes /\ v = permitted[p][g.at]
        BY <1>1, <1>11, <2>1
  <2>4. g.at \in settings
    <3>1. Permissions!Covers(g.at, s)
          BY <2>1, <2>2, ModesCover
    <3> QED BY <1>1, <1>4, <2>1, <2>3, <3>1
  <2>5. ASSUME NEW u \in settings, Permissions!Covers(g.at, u) PROVE u = g.at
    <3>1. PICK n \in hits : Mongo!InMode(u, s, Mongo!Modes[n])
          BY <1>5
    <3>2. n \in 1 .. 4 /\ m <= n /\ u \in PermissionScopes
          BY <1>4, <1>8, <1>9
    <3> QED BY <2>1, <2>2, <2>3, <2>5, <3>1, <3>2, CloserIsEarlier
  <2> DEFINE t == g.at
  <2>6. t \in {x \in settings : \A u \in settings : Permissions!Covers(x, u) => u = x}
        BY <2>4, <2>5
  <2> QED BY <1>7, <2>3, <2>4, <2>6
<1> QED BY <1>6, <1>10, <1>11

LEMMA OtherPermissions ==
  ASSUME GrantedIsPermitted, GrantedIsPermitted', permitted' = permitted, backend' = backend,
         backend = "mongo" => reply'[1] # "has"
  PROVE  Permissions!Next
<1>1. Granted' = Granted
      BY DEF GrantedIsPermitted
<1>2. MongoAnswer' = Empty
      BY DEF MongoAnswer
<1>3. Permissions!Other
      BY <1>1, <1>2 DEF Permissions!Other, Granted
<1> QED BY <1>3 DEF Permissions!Next

LEMMA HasImplements ==
  ASSUME QueriesFail = FALSE, PermissionRows, GrantedIsPermitted, GrantedIsPermitted',
         backend = "mongo", NEW p \in Permission, NEW a \in Array, NEW default \in BOOLEAN,
         HasPermission(p, a, default)
  PROVE  Permissions!Next
<1> DEFINE s == At(a)
<1>1. s \in PermissionScopes
      BY ScopeOfArray DEF HasPermission
<1>2. UNCHANGED <<permitted, backend>>
      BY DEF HasPermission, requests
<1>3. Granted' = Granted /\ Granted = permitted
      BY <1>2 DEF GrantedIsPermitted
<1>4. PICK b \in Mongo!HasPermission(p, s, default) : reply' = <<"has", p, s, default, b>>
      BY DEF HasPermission
<1>5. b \in Permissions!Answers(permitted, p, s, default)
      BY <1>1, <1>4, AnswersOfHas
<1>6. Permissions!Answers(Granted, p, s, default) = Permissions!Answers(permitted, p, s, default)
      BY <1>3
<1> HIDE DEF s
<1>7. MongoAnswer' = <<p, s, default, b>>
      BY <1>2, <1>4 DEF MongoAnswer
<1>8. Permissions!Get(p, s, default)
      BY <1>3, <1>5, <1>6, <1>7 DEF Permissions!Get, Granted
<1> QED BY <1>1, <1>8 DEF Permissions!Next

LEMMA PermitImplements ==
  ASSUME GrantedIsPermitted, GrantedIsPermitted', backend = "mongo",
         NEW p \in Permission, NEW b \in BOOLEAN \union {Empty}, NEW s \in PermissionScopes,
         permitted' = [permitted EXCEPT ![p][s] = b], backend' = backend, reply' = Done
  PROVE  Permissions!Next
<1>1. Granted' = [Granted EXCEPT ![p][s] = b]
      BY DEF GrantedIsPermitted
<1>2. MongoAnswer' = Empty
      BY DEF MongoAnswer, Done
<1>3. Permissions!Set(p, s, b)
      BY <1>1, <1>2 DEF Permissions!Set, Granted
<1> QED BY <1>3 DEF Permissions!Next

LEMMA MongoStep ==
  ASSUME QueriesFail = FALSE
  PROVE  SchemaInv /\ PermissionRows /\ GrantedIsPermitted /\ GrantedIsPermitted' /\ [Next]_vars
           => [Permissions!Next]_(Permissions!vars)
<1> SUFFICES ASSUME SchemaInv, PermissionRows, GrantedIsPermitted, GrantedIsPermitted', [Next]_vars
             PROVE  Permissions!Next \/ UNCHANGED Permissions!vars
    OBVIOUS
<1>1. ASSUME UNCHANGED <<reply, permitted, backend>> PROVE UNCHANGED Permissions!vars
  <2>1. Granted' = Granted
        BY <1>1 DEF GrantedIsPermitted
  <2>2. MongoAnswer' = MongoAnswer
        BY <1>1 DEF MongoAnswer
  <2> QED BY <2>1, <2>2 DEF Permissions!vars, Granted
<1>2. CASE OpenDatabase
      BY <1>1, <1>2 DEF OpenDatabase, requests
<1>3. CASE CloseDatabase
      BY <1>3, OtherPermissions DEF CloseDatabase, requests, NoReply
<1>4. CASE Request /\ backend # "mongo"
  <2>1. backend' = backend
        BY <1>4, RequestsKeepSchema
  <2>2. Granted' = Granted
        BY <1>4, <2>1 DEF GrantedIsPermitted
  <2>3. MongoAnswer' = Empty
        BY <1>4, <2>1 DEF MongoAnswer
  <2>4. Permissions!Other
        BY <2>2, <2>3 DEF Permissions!Other, Granted
  <2> QED BY <2>4 DEF Permissions!Next
<1>5. CASE Request /\ backend = "mongo"
  <2>1. ASSUME NEW k \in Key, NEW a \in Array,
               \/ GetProperty(k, a)
               \/ \E v \in Value \union {Empty} : SetProperty(k, v, a)
        PROVE  Permissions!Next
    <3>1. UNCHANGED <<permitted, backend>> /\ reply'[1] # "has"
          BY <2>1 DEF GetProperty, SetProperty, requests, Done, Failed
    <3> QED BY <3>1, OtherPermissions
  <2>2. ASSUME NEW p \in Permission, NEW a \in Array, NEW b \in BOOLEAN, HasPermission(p, a, b)
        PROVE  Permissions!Next
        BY <1>5, <2>2, HasImplements
  <2>3. ASSUME NEW p \in Permission, NEW a \in Array, NEW b \in BOOLEAN, SetPermission(p, a, b)
        PROVE  Permissions!Next
    <3>1. /\ permitted' = [permitted EXCEPT ![p][At(a)] = b]
          /\ backend' = backend /\ reply' = Done /\ a # <<>>
          BY <2>3 DEF SetPermission
    <3> QED BY <1>5, <3>1, ScopeOfArray, PermitImplements
  <2>4. ASSUME NEW p \in Permission, NEW a \in Array, UnsetPermission(p, a)
        PROVE  Permissions!Next
    <3>1. /\ permitted' = [permitted EXCEPT ![p][At(a)] = Empty]
          /\ backend' = backend /\ reply' = Done /\ a # <<>>
          BY <2>4 DEF UnsetPermission
    <3> QED BY <1>5, <3>1, ScopeOfArray, PermitImplements
  <2>5. CASE RequestFails
        BY <2>5, OtherPermissions DEF RequestFails, requests, Failed
  <2>6. ASSUME NEW n \in Namespace, NEW a \in Array, PropertyKeys(n, a)
        PROVE  Permissions!Next
    <3>1. UNCHANGED <<permitted, backend>> /\ reply'[1] # "has"
          BY <2>6 DEF PropertyKeys, requests, Failed
    <3> QED BY <3>1, OtherPermissions
  <2> QED BY <1>5, <2>1, <2>2, <2>3, <2>4, <2>5, <2>6 DEF Request
<1>6. CASE UNCHANGED vars
      BY <1>1, <1>6 DEF vars
<1> QED BY <1>2, <1>3, <1>4, <1>5, <1>6 DEF Next

\* As long as its queries do not fail, MongoDB answers a question for a
\* permission as ScopedStore does, over crashes and reconnections: with the
\* closest of the scopes that grant or deny it, else with the default.
THEOREM MongoImplementsCorrect ==
  ASSUME QueriesFail = FALSE
  PROVE  Spec => MongoImplements
<1>1. StoreInit => Permissions!Init
  <2> SUFFICES ASSUME StoreInit PROVE Permissions!Init
      OBVIOUS
  <2>1. permissions = {} /\ reply = <<"none">>
        BY DEF StoreInit, Init, NoReply
  <2>2. \A p \in Permission, s \in PermissionScopes : MongoPermission(p, s) = Empty
        BY <2>1 DEF MongoPermission, GrantAt
  <2>3. MongoAnswer = Empty
        BY <2>1 DEF MongoAnswer
  <2> QED BY <2>2, <2>3 DEF Permissions!Init
<1>2. PermissionRows => GrantedIsPermitted
      BY RowsGiveGranted
<1>3. SchemaInv /\ PermissionRows /\ GrantedIsPermitted /\ GrantedIsPermitted' /\ [Next]_vars
        => [Permissions!Next]_(Permissions!vars)
      BY MongoStep
<1> QED BY <1>1, <1>2, <1>3, SchemaCorrect, PermissionRowsCorrect, PTL
        DEF Spec, MongoImplements, Permissions!Spec

================================================================================
