------------------------------ MODULE SqliteStore ------------------------------
(***************************************************************************)
(* src/src/db/sqlite.cpp.  Every statement commits by itself, so a crash   *)
(* may fall between any two statements of upgradeDB().  The tables are     *)
(* created in the order of upgrades[]: schema is how many exist.           *)
(***************************************************************************)
EXTENDS Database

Target == 2   \* CREATE TABLE dazeus_properties, CREATE TABLE dazeus_permissions

-----------------------------------------------------------------------------
(* open() and upgradeDB().                                                 *)

\* Mutant: a database with a table is taken for an upgraded one.
OpenIfFound ==
  /\ status = "closed"
  /\ status' = IF schema = 0 THEN "upgrading" ELSE "open"
  /\ step' = version
  /\ UNCHANGED <<upgraded, uncommitted, data>>

\* sqlite3_open_v2(), and the query for the version.  A database without its
\* first table has version 0.
Open ==
  /\ status = "closed"
  /\ status' = IF version < Target THEN "upgrading" ELSE "open"
  /\ step' = version
  /\ UNCHANGED <<upgraded, uncommitted, data>>

\* Statement i fails if its table exists.
Upgrade ==
  /\ status = "upgrading" /\ step < Target
  /\ IF schema <= step
     THEN /\ schema' = step + 1
          /\ step' = step + 1
          /\ UNCHANGED status
     ELSE /\ status' = "failed"
          /\ UNCHANGED <<schema, step>>
  /\ UNCHANGED <<version, uncommitted, data>>

\* INSERT OR REPLACE of dazeus_version; bootstrapDB() prepares the statements.
Stamp ==
  /\ status = "upgrading" /\ step = Target
  /\ version' = Target
  /\ status' = "open"
  /\ UNCHANGED <<step, schema, uncommitted, data>>

-----------------------------------------------------------------------------
(* The prepared statements.                                                *)

Covers(at, query) == \A i \in 1 .. 3 : at[i] = query[i] \/ at[i] = Empty

Property(k, query) ==
  FirstOf({r \in properties : r.key = k /\ Covers(r.at, query)})

\* Mutant: a plain INSERT next to the old row.
InsertOnly(k, v, at) ==
  properties' = (IF v = Empty THEN properties \ RowAt(k, at)
                 ELSE properties \union {Row(k, at, v)})

SetProperty(k, v, at) ==
  properties' = (IF v = Empty THEN properties \ RowAt(k, at)
                 ELSE (properties \ RowAt(k, at)) \union {Row(k, at, v)})

\* Mutant: the names of wider scopes are listed, too.
KeysCovering(namespace, at) ==
  {r.key : r \in {r \in properties : StartsWith(r.key, namespace) /\ Covers(r.at, at)}}

PropertyKeys(namespace, at) ==
  {r.key : r \in {r \in properties : StartsWith(r.key, namespace) /\ r.at = at}}

\* The row is all that counts: the boolean is not stored, and less specific
\* locations are not looked at.
HasPermission(p, at, default) == GrantAt(p, at) # {} \/ default

\* Mutant: the row stays.
UnsetNothing(p, at) == UNCHANGED permissions

UnsetPermission(p, at) == permissions' = permissions \ GrantAt(p, at)

SetPermission(p, at, b) ==
  permissions' = (permissions \ GrantAt(p, at)) \union {Grant(p, at, TRUE)}
=============================================================================
