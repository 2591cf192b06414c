----------------------------- MODULE StoreRequests -----------------------------
(***************************************************************************)
(* The requests property and permission of PluginComm::handle(), in        *)
(* src/src/plugincomm.cpp, on the backend Factory::createDb() chose, which *)
(* is opened, upgraded, and closed again by a reload or a crash.           *)
(*                                                                         *)
(* The three backends work on the variables of Database; set and permitted *)
(* record what plugins asked to be stored, for the properties.             *)
(***************************************************************************)
EXTENDS Database

CONSTANTS
  Backend,      \* types of database the configuration may name
  Array,        \* the "scope" arrays of the requests
  QueriesFail,  \* TRUE: queries of MongoDB fail
  MaxCalls,     \* bound: requests that store something
  MaxCloses     \* bound: times the connection ends

ASSUME BackendAssumption == Backend \subseteq {"sqlite", "postgres", "mongo"}
ASSUME ArrayAssumption == Array \subseteq Seq(STRING \union {Empty})

VARIABLES
  backend,      \* the class of database_
  reply,        \* the response to the last request
  set,          \* ghost: the properties that requests have set
  permitted,    \* ghost: the permissions that requests have set
  calls, closes

vars == <<database, backend, reply, set, permitted, calls, closes>>

Sqlite   == INSTANCE SqliteStore
Postgres == INSTANCE PostgresStore
Mongo    == INSTANCE MongoStore

\* network, receiver and sender, of the first three names of an array.  What is not
\* given is empty, and so is an element that is not a string.
At(a) == [i \in 1 .. 3 |-> IF i <= Len(a) THEN a[i] ELSE Empty]

\* For a property, the switch over scope.size(): more than three names are none.
PropertyAt(a) == At(IF Len(a) > 3 THEN <<>> ELSE a)

PropertyScopes == {PropertyAt(a) : a \in Array}

\* A permission needs a scope.
PermissionScopes == {At(a) : a \in Array \ {<<>>}}

NoReply == <<"none">>
Failed == <<"error">>
Done == <<"done">>

StoreInit ==
  /\ Init
  /\ backend \in Backend
  /\ reply = NoReply
  /\ set = [k \in Key |-> [s \in PropertyScopes |-> Empty]]
  /\ permitted = [p \in Permission |-> [s \in PermissionScopes |-> Empty]]
  /\ calls = 0
  /\ closes = 0

requests == <<set, permitted, calls>>

-----------------------------------------------------------------------------
(* Opening and closing.                                                    *)

OpenDatabase ==
  /\ \/ backend = "sqlite" /\ (Sqlite!Open \/ Sqlite!Upgrade \/ Sqlite!Stamp)
     \/ backend = "postgres" /\ (Postgres!Open \/ Postgres!Upgrade \/ Postgres!Commit)
     \/ backend = "mongo" /\ Mongo!Open
  /\ UNCHANGED <<backend, reply, requests, closes>>

CloseDatabase ==
  /\ closes < MaxCloses \/ status = "failed"
  /\ Close
  /\ closes' = IF status = "failed" THEN closes ELSE closes + 1
  /\ reply' = NoReply
  /\ UNCHANGED <<backend, requests>>

-----------------------------------------------------------------------------
(* {"do":"property"}: get, set and unset, keys.                            *)

GetProperty(k, a) ==
  LET s == PropertyAt(a)
      answers == CASE backend = "sqlite"   -> Sqlite!Property(k, s)
                   [] backend = "postgres" -> Postgres!Property(k, s)
                   [] backend = "mongo"    -> Mongo!Property(k, s)
  IN /\ status = "open"
     /\ \E v \in answers : reply' = <<"get", k, s, v>>
     /\ UNCHANGED <<database, backend, requests, closes>>

\* To set the empty string is to unset.
SetProperty(k, v, a) ==
  LET s == PropertyAt(a)
  IN /\ status = "open" /\ calls < MaxCalls
     /\ \/ backend = "sqlite" /\ Sqlite!SetProperty(k, v, s)
        \/ backend = "postgres" /\ Postgres!SetProperty(k, v, s)
        \/ backend = "mongo" /\ Mongo!SetProperty(k, v, s)
     /\ set' = [set EXCEPT ![k][s] = v]
     /\ calls' = calls + 1
     /\ reply' = Done
     /\ UNCHANGED <<connection, upgraded, permissions, backend, permitted, closes>>

\* What keys may be asked for: namespaces, and beginnings of them.
Namespace == {k[1] : k \in Key} \union {l[1] : l \in Longer}

\* The SQL backends answer with whole keys, MongoDB with what comes after the
\* namespace; it takes an empty result for a failure.
PropertyKeys(namespace, a) ==
  LET s == PropertyAt(a)
      answer == CASE backend = "sqlite"   -> Sqlite!PropertyKeys(namespace, s)
                  [] backend = "postgres" -> Postgres!PropertyKeys(namespace, s)
                  [] backend = "mongo"    -> Mongo!PropertyKeys(namespace, s)
  IN /\ status = "open"
     /\ IF backend = "mongo"
        THEN reply' = IF answer = {} THEN Failed
                      ELSE <<"keys", namespace, s, {Mongo!Cut(k, namespace) : k \in answer}>>
        ELSE reply' = <<"keys", namespace, s, answer>>
     /\ UNCHANGED <<database, backend, requests, closes>>

-----------------------------------------------------------------------------
(* {"do":"permission"}: has, set, unset; each needs a scope.               *)

\* The statement PostgreSQL is asked to execute is not the one it prepared.
HasPermission(p, a, default) ==
  LET s == At(a)
      answers == IF backend = "sqlite"
                 THEN {Sqlite!HasPermission(p, s, default)}
                 ELSE Mongo!HasPermission(p, s, default)
  IN /\ status = "open" /\ a # <<>>
     /\ IF backend = "postgres" THEN reply' = Failed
        ELSE \E b \in answers : reply' = <<"has", p, s, default, b>>
     /\ UNCHANGED <<database, backend, requests, closes>>

\* Without params[2] the code reads past the end of params: any boolean, or a
\* crash, which is CloseDatabase.
SetPermission(p, a, b) ==
  LET s == At(a)
  IN /\ status = "open" /\ calls < MaxCalls /\ a # <<>>
     /\ \/ backend = "sqlite" /\ Sqlite!SetPermission(p, s, b)
        \/ backend = "postgres" /\ Postgres!SetPermission(p, s, b)
        \/ backend = "mongo" /\ Mongo!SetPermission(p, s, b)
     /\ permitted' = [permitted EXCEPT ![p][s] = b]
     /\ calls' = calls + 1
     /\ reply' = Done
     /\ UNCHANGED <<connection, upgraded, properties, backend, set, closes>>

UnsetPermission(p, a) ==
  LET s == At(a)
  IN /\ status = "open" /\ calls < MaxCalls /\ a # <<>>
     /\ \/ backend = "sqlite" /\ Sqlite!UnsetPermission(p, s)
        \/ backend = "postgres" /\ Postgres!UnsetPermission(p, s)
        \/ backend = "mongo" /\ Mongo!UnsetPermission(p, s)
     /\ permitted' = [permitted EXCEPT ![p][s] = Empty]
     /\ calls' = calls + 1
     /\ reply' = Done
     /\ UNCHANGED <<connection, upgraded, properties, backend, set, closes>>

\* A request with too few parameters, a permission without a scope, or a
\* statement that fails: an exception, which poll() answers.
RequestFails ==
  /\ status = "open"
  /\ reply' = Failed
  /\ UNCHANGED <<database, backend, requests, closes>>

Request ==
  \/ \E k \in Key, a \in Array :
       \/ GetProperty(k, a)
       \/ \E v \in Value \union {Empty} : SetProperty(k, v, a)
  \/ \E n \in Namespace, a \in Array : PropertyKeys(n, a)
  \/ \E p \in Permission, a \in Array :
       \/ \E b \in BOOLEAN : HasPermission(p, a, b) \/ SetPermission(p, a, b)
       \/ UnsetPermission(p, a)
  \/ RequestFails

Next == OpenDatabase \/ CloseDatabase \/ Request

Spec == StoreInit /\ [][Next]_vars

-----------------------------------------------------------------------------
(* Properties.                                                             *)

Location ==
  PropertyScopes \union PermissionScopes \union {Mongo!Nested(s) : s \in PropertyScopes}
    \union {Postgres!Swapped(s) : s \in PropertyScopes}

\* Types, and the primary keys: of SQLite and MongoDB one row per name and
\* location.
TypeOK ==
  /\ status \in {"closed", "upgrading", "open", "failed"}
  /\ {step, schema, version, uncommitted} \subseteq 0 .. 5
  /\ properties \subseteq [key : Key, at : Location, value : Value]
  /\ permissions \subseteq [name : Permission, at : Location, permission : BOOLEAN]
  /\ backend # "postgres" => \A r \in properties : RowAt(r.key, r.at) = {r}
  /\ \A g \in permissions : GrantAt(g.name, g.at) = {g}
  /\ set \in [Key -> [PropertyScopes -> Value \union {Empty}]]
  /\ permitted \in [Permission -> [PermissionScopes -> BOOLEAN \union {Empty}]]

\* An open SQL database has all that upgrades[] creates, and its version says
\* so, whatever happened to earlier attempts to open it.
OpenIsComplete ==
  status = "open" =>
    /\ schema = version
    /\ backend = "sqlite" => version = Sqlite!Target
    /\ backend = "postgres" => version = Postgres!Target

\* open() fails for ever only in SQLite, after a crash in the first upgrade:
\* there are tables without a version.
OpenFailsOnlyAfterTornUpgrade ==
  status = "failed" => backend = "sqlite" /\ version = 0 /\ schema > 0 /\ closes > 0

-----------------------------------------------------------------------------
(* The protocol, for properties and for permissions (src/misc/protocol.dox,*)
(* sections Properties and Permissions).                                   *)

\* The properties of SQLite, as the rows of its table hold them.
SqliteProperty(k, s) ==
  LET rows == RowAt(k, s)
  IN IF backend # "sqlite" \/ rows = {} THEN Empty ELSE (CHOOSE r \in rows : TRUE).value

SqliteAnswer ==
  IF backend = "sqlite" /\ reply[1] = "get"
  THEN <<reply[2], reply[3], Empty, reply[4]>>
  ELSE Empty

\* A get without a value has no "value" in its answer (protocol.dox:250-253).
Properties == INSTANCE ScopedStore WITH
  Name <- Key, Scope <- PropertyScopes, Any <- Empty, Optional <- 1 .. 3,
  Default <- {Empty}, Unset <- Empty, NoReply <- Empty,
  held <- [k \in Key |-> [s \in PropertyScopes |-> SqliteProperty(k, s)]],
  reply <- SqliteAnswer

\* What plugins set in SQLite, over other requests, crashes and reconnections,
\* they get as the protocol promises: the closest value, or none.  (It does not
\* answer for keys as promised, see KeysAreDocumented.)
SqliteImplements == Properties!Spec

\* The permissions of MongoDB.
MongoPermission(p, s) ==
  LET grants == GrantAt(p, s)
  IN IF backend # "mongo" \/ grants = {} THEN Empty
     ELSE (CHOOSE g \in grants : TRUE).permission

MongoAnswer ==
  IF backend = "mongo" /\ reply[1] = "has"
  THEN <<reply[2], reply[3], reply[4], reply[5]>>
  ELSE Empty

\* The network of a permission is not left out, and the default is a boolean: "if
\* no permission state can be found, this value is returned" (protocol.dox:267-268).
Permissions == INSTANCE ScopedStore WITH
  Name <- Permission, Value <- BOOLEAN, Scope <- PermissionScopes,
  Any <- Empty, Optional <- 2 .. 3, Default <- BOOLEAN,
  Unset <- Empty, NoReply <- Empty,
  held <- [p \in Permission |-> [s \in PermissionScopes |-> MongoPermission(p, s)]],
  reply <- MongoAnswer

\* MongoDB grants and denies as the protocol promises: what is set in the closest
\* scope, else the default that was given.
MongoImplements == Permissions!Spec

GetIsDocumented ==
  reply[1] = "get" => reply[4] \in Properties!Answers(set, reply[2], reply[3], Empty)

\* No scope names a receiver without its network, or a sender without its receiver.
NoGaps == \A s \in PropertyScopes : Mongo!Nested(s) = s

\* MongoDB answers a get with network, receiver and sender as documented, also
\* after reconnections, unless scopes have gaps: the comment at mongo.cpp:167-169
\* assumes they have none.  Of gets with less it is not true (see Restricted).
FullScopeGets ==
  NoGaps /\ backend = "mongo" /\ reply[1] = "get" /\ (\A i \in 1 .. 3 : reply[3][i] # Empty)
    => GetIsDocumented

\* PostgreSQL answers a get without receiver and sender as documented, although
\* it stores other properties under exchanged fields.
NetworkGets ==
  backend = "postgres" /\ reply[1] = "get" /\ (\A i \in 2 .. 3 : reply[3][i] = Empty)
    => GetIsDocumented

\* "After this, the property can be retrieved using property get" and "the
\* `closest' variable is returned" (src/misc/protocol.dox:191 and 224), for any
\* scope.  PostgreSQL stores a property of a receiver where no get finds it;
\* MongoDB answers a get of a wide scope with a value of a narrower one.
GetReturnsClosest == GetIsDocumented

\* The names a request for keys should list (protocol.dox:207-215): what comes
\* after the namespace.
DocumentedKeys(namespace, s) == {k[2] : k \in {k \in Key : k[1] = namespace /\ set[k][s] # Empty}}

\* "returns a list of keys in a given namespace [...] Which could respond [...]
\* count" for examples.counter.count.  SQLite lists whole names, and names of longer
\* namespaces.
KeysAreDocumented == reply[1] = "keys" => reply[4] = DocumentedKeys(reply[2], reply[3])

\* SQLite lists, by their whole names, the properties that are set in exactly this
\* scope, not those it would fall back to.
SqliteKeys ==
  backend = "sqlite" /\ reply[1] = "keys" =>
    reply[4] = {k \in Key : StartsWith(k, reply[2]) /\ set[k][reply[3]] # Empty}

\* Where the permissions of SQLite, which know no denial and no fallback, agree
\* with the protocol: what was granted in this very scope is granted, and if
\* nothing is set in it or a wider one, or not any more, the default answers.
SqliteGrants ==
  backend = "sqlite" /\ reply[1] = "has" =>
    /\ permitted[reply[2]][reply[3]] = TRUE => reply[5] = TRUE
    /\ Permissions!Settings(permitted, reply[2], reply[3]) = {} => reply[5] = reply[4]

\* "Explicitly deny EatCake" (protocol.dox:272-276): a permission set to false is
\* not granted in its scope.  SQLite does not store the boolean.
DenialsHold ==
  reply[1] = "has" /\ permitted[reply[2]][reply[3]] = FALSE => reply[5] = FALSE

\* "Give all users on Freenode permission to EatCake" (protocol.dox:263-270): what is
\* granted in a wider scope is granted where nothing closer is set.  SQLite asks for
\* the one scope.
WiderGrantsHold ==
  reply[1] = "has" /\ permitted[reply[2]][reply[3]] = Empty =>
    (Permissions!Answers(permitted, reply[2], reply[3], reply[4]) = {TRUE} => reply[5] = TRUE)
=============================================================================
