------------------------------- MODULE Database -------------------------------
(***************************************************************************)
(* What the backends of src/src/db share: class Database, its two tables,  *)
(* and the order in which queries prefer rows.                             *)
(*                                                                         *)
(* A location is the three strings network, receiver, sender that every    *)
(* method takes; Empty is "", for MongoDB null.  The version of the schema *)
(* is a row of the properties under the key dazeus_version; it is kept     *)
(* apart, since requests for that key are assumed not to be made.          *)
(***************************************************************************)
EXTENDS Integers, Sequences, FiniteSets

CONSTANTS
  Key,          \* names of properties, as <<namespace, rest>>
  Longer,       \* pairs of namespaces, the second a longer name that begins with
                \* the text of the first: counter and counters
  Value,        \* their values
  Permission,   \* names of permissions
  Empty         \* the empty string

ASSUME KeyAssumption == \A k \in Key : k = <<k[1], k[2]>>
ASSUME EmptyAssumption == Empty \notin Value \union BOOLEAN

VARIABLES
  status,       \* "closed", "upgrading", "open" or "failed"
  step,         \* i, in the loop of upgradeDB()
  schema,       \* how many of the statements of upgrades[] are in effect
  version,      \* the value of dazeus_version, 0 if there is none
  uncommitted,  \* schema in the transaction under way
  properties,   \* rows of the table or collection of properties
  permissions   \* rows of the table or collection of permissions

connection == <<status, step, uncommitted>>
upgraded == <<schema, version>>
data == <<properties, permissions>>
database == <<connection, upgraded, data>>

Row(k, at, v) == [key |-> k, at |-> at, value |-> v]
RowAt(k, at) == {r \in properties : r.key = k /\ r.at = at}

Grant(p, at, b) == [name |-> p, at |-> at, permission |-> b]
GrantAt(p, at) == {g \in permissions : g.name = p /\ g.at = at}

\* The name k begins with the text of this namespace: SUBSTR(key, 1, LENGTH(?1)),
\* or the regular expression.
StartsWith(k, namespace) == k[1] = namespace \/ <<namespace, k[1]>> \in Longer

\* Mutant: ascending, so that the least specific row comes first.
BeforeAscending(a, b) ==
  \E i \in 1 .. 3 : /\ \A j \in 1 .. i - 1 : a[j] = b[j]
                    /\ a[i] = Empty /\ b[i] # Empty

\* ORDER BY network DESC, receiver DESC, sender DESC puts empty fields last;
\* how two names compare is left open.
Before(a, b) ==
  \E i \in 1 .. 3 : /\ \A j \in 1 .. i - 1 : a[j] = b[j]
                    /\ a[i] # Empty /\ b[i] = Empty

\* The values that LIMIT 1 may yield, Empty if there is no row.
FirstOf(rows) ==
  IF rows = {} THEN {Empty}
  ELSE {r.value : r \in {r \in rows : \A o \in rows : ~Before(o.at, r.at)}}

Init ==
  /\ status = "closed"
  /\ step = 0
  /\ schema = 0
  /\ version = 0
  /\ uncommitted = 0
  /\ properties = {}
  /\ permissions = {}

\* The connection ends: the destructor, or a crash.  A transaction is lost.
Close ==
  /\ status # "closed"
  /\ status' = "closed"
  /\ step' = 0
  /\ uncommitted' = 0
  /\ UNCHANGED <<upgraded, data>>
=============================================================================
