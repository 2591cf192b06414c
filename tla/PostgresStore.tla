----------------------------- MODULE PostgresStore -----------------------------
(***************************************************************************)
(* src/src/db/postgres.cpp.  upgradeDB() is one transaction; setProperty() *)
(* and the permissions are one each.  The primary key of the properties    *)
(* includes the value, so a location may hold several rows.                *)
(***************************************************************************)
EXTENDS Database

Target == 5   \* two tables, a function, two triggers

-----------------------------------------------------------------------------
(* open() and upgradeDB().                                                 *)

\* The connection, the transaction w, and the query for the version.  The
\* statements bootstrapDB() prepares are sent when first used.
Open ==
  /\ status = "closed"
  /\ status' = IF version < Target THEN "upgrading" ELSE "open"
  /\ step' = version
  /\ uncommitted' = schema
  /\ UNCHANGED <<upgraded, data>>

\* Mutant: each statement commits by itself.
UpgradeCommitted ==
  /\ status = "upgrading" /\ step < Target
  /\ IF uncommitted <= step
     THEN /\ uncommitted' = step + 1
          /\ schema' = step + 1
          /\ step' = step + 1
          /\ UNCHANGED status
     ELSE /\ status' = "failed"
          /\ UNCHANGED <<uncommitted, schema, step>>
  /\ UNCHANGED <<version, data>>

\* Statement i fails if what it creates exists.
Upgrade ==
  /\ status = "upgrading" /\ step < Target
  /\ IF uncommitted <= step
     THEN /\ uncommitted' = step + 1
          /\ step' = step + 1
          /\ UNCHANGED status
     ELSE /\ status' = "failed"
          /\ UNCHANGED <<uncommitted, step>>
  /\ UNCHANGED <<upgraded, data>>

\* dazeus_version is stored and the transaction commits.
Commit ==
  /\ status = "upgrading" /\ step = Target
  /\ schema' = uncommitted
  /\ version' = Target
  /\ status' = "open"
  /\ UNCHANGED <<step, uncommitted, data>>

-----------------------------------------------------------------------------
(* The prepared statements.                                                *)

Covers(at, query) == \A i \in 1 .. 3 : at[i] = query[i] \/ at[i] = Empty

\* Several rows of one location come in any order.
Property(k, query) ==
  FirstOf({r \in properties : r.key = k /\ Covers(r.at, query)})

\* update_property: UPDATE the rows of the location, or INSERT one if there are
\* none - with receiver and sender exchanged, as in its SELECT.
Swapped(at) == <<at[1], at[3], at[2]>>

\* Mutant: the network is exchanged as well.
UpdatedRotated(k, v, at) ==
  IF RowAt(k, at) # {} THEN (properties \ RowAt(k, at)) \union {Row(k, at, v)}
  ELSE properties \union {Row(k, <<at[3], at[1], at[2]>>, v)}

Updated(k, v, at) ==
  IF RowAt(k, at) # {} THEN (properties \ RowAt(k, at)) \union {Row(k, at, v)}
  ELSE properties \union {Row(k, Swapped(at), v)}

\* The primary key refuses to make two rows equal, and to insert a row again.
Refused(k, v, at) ==
  IF RowAt(k, at) # {} THEN Cardinality(RowAt(k, at)) > 1
  ELSE Row(k, Swapped(at), v) \in properties

SetProperty(k, v, at) ==
  /\ v # Empty => ~Refused(k, v, at)
  /\ properties' = IF v = Empty THEN properties \ RowAt(k, at) ELSE Updated(k, v, at)

PropertyKeys(namespace, at) ==
  {r.key : r \in {r \in properties : StartsWith(r.key, namespace) /\ r.at = at}}

UnsetPermission(p, at) == permissions' = permissions \ GrantAt(p, at)

SetPermission(p, at, b) ==
  permissions' = permissions
    \union (IF GrantAt(p, at) = {} THEN {Grant(p, at, TRUE)} ELSE {})
=============================================================================
