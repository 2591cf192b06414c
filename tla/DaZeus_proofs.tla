----------------------------- MODULE DaZeus_proofs -----------------------------
(***************************************************************************)
(* Theorems about what loadConfig() does to the objects of DaZeus, for any *)
(* configuration files, addresses and number of reloads, also of those     *)
(* that fail halfway.                                                      *)
(***************************************************************************)
EXTENDS DaZeus, ConfigReader_proofs

-----------------------------------------------------------------------------
(* The database.                                                           *)

DatabaseTypes ==
  /\ databases \in [DatabaseAt -> {"free", "raw", "open"}]
  /\ database \in DatabaseAt \union {Null}
  /\ pc \in {"open", "comm"} => database # Null

\* Between open() and setDatabase() PluginComm still has the old pointer.
CommIsTold ==
  pc # "comm" /\ database # Null /\ databases[database] = "open" => commDatabase = database

DatabaseInv == DatabaseTypes /\ CommIsTold

LEMMA DatabaseStep == DatabaseInv /\ [Next]_vars => DatabaseInv'
<1> SUFFICES ASSUME DatabaseInv, [Next]_vars PROVE DatabaseInv'
    OBVIOUS
<1> USE NullAssumption DEF DatabaseInv, DatabaseTypes, CommIsTold
<1>1. ASSUME UNCHANGED <<databases, database, commDatabase>>,
             pc # "comm",
             pc' = pc \/ pc' \notin {"open", "comm"}
      PROVE  DatabaseInv'
      BY <1>1
<1>2. ASSUME UNCHANGED <<databases, database, commDatabase, pc>>
      PROVE  DatabaseInv'
      BY <1>2
<1>3. CASE Load
  <2>1. CASE Reload
        BY <1>1, <2>1 DEF Reload, heap
  <2>2. CASE ReadLine
        BY <1>2, <2>2 DEF ReadLine, control, heap
  <2>3. CASE ReadEnds
        BY <1>1, <2>3 DEF ReadEnds, Goto, Return, heap
  <2>4. CASE DeleteCrashes
        BY <1>1, <2>4 DEF DeleteCrashes, Goto, heap
  <2>5. CASE CreateDb
        BY <2>5 DEF CreateDb, Goto, Deleted
  <2>6. CASE CreateDbThrows
        BY <2>6 DEF CreateDbThrows, Return, Deleted
  <2>7. CASE OpenDatabase
        BY <2>7 DEF OpenDatabase, Goto
  <2>8. CASE OpenFails \/ OpenThrows
        BY <1>1, <2>8 DEF OpenFails, OpenThrows, Goto, Return, heap
  <2>9. CASE SetDatabase
        BY <2>9 DEF SetDatabase, Goto
  <2>10. CASE ConfigReloaded \/ ConfigRejected
        BY <1>1, <2>10 DEF ConfigReloaded, ConfigRejected, Goto, Return, heap
  <2>11. CASE AddNetworks
        BY <1>1, <2>11 DEF AddNetworks, Goto
  <2>12. CASE DropNetworks
        BY <1>1, <2>12 DEF DropNetworks, Goto
  <2>13. CASE CountInits
        BY <1>1, <2>13 DEF CountInits, Goto, Return, heap
  <2>14. CASE Destroy
        BY <2>14 DEF Destroy, Goto, Deleted
  <2> QED BY <1>3, <2>1, <2>2, <2>3, <2>4, <2>5, <2>6, <2>7, <2>8, <2>9, <2>10,
             <2>11, <2>12, <2>13, <2>14 DEF Load
<1>4. CASE Service
      BY <1>1, <1>4 DEF Service, PropertyRequestCrashes, Refer, Forget, RunOnceThrows,
                        Goto, heap, control
<1>5. CASE Construct
      BY <1>1, <1>5 DEF Construct, Goto, heap
<1>6. CASE Edit
      BY <1>2, <1>6 DEF Edit, control, heap
<1>7. CASE Hangup
  <2>1. UNCHANGED <<databases, database, commDatabase>>
        BY <1>7 DEF Hangup, heap
  <2>2. pc' = pc \/ (pc = "starting" /\ pc' = "aborted")
        BY <1>7 DEF Hangup
  <2> QED BY <1>1, <1>2, <2>1, <2>2
<1>8. CASE Over \/ UNCHANGED vars
      BY <1>2, <1>8 DEF Over, vars, control, heap
<1> QED BY <1>3, <1>4, <1>5, <1>6, <1>7, <1>8 DEF Next

\* However the loads ended, an open database is the one PluginComm works on.
THEOREM CommFollowsDatabaseCorrect == Spec => []CommFollowsDatabase
<1>1. Init => DatabaseInv
      BY NullAssumption DEF Init, DatabaseInv, DatabaseTypes, CommIsTold
<1>2. DatabaseInv /\ [Next]_vars => DatabaseInv'
      BY DatabaseStep
<1>3. DatabaseInv => CommFollowsDatabase
      BY DEF DatabaseInv, CommIsTold, CommFollowsDatabase
<1> QED BY <1>1, <1>2, <1>3, PTL DEF Spec

-----------------------------------------------------------------------------
(* References to networks.                                                 *)

LEMMA ReferencesStep == ReferencesStayValid /\ [Next]_vars => ReferencesStayValid'
<1> SUFFICES ASSUME ReferencesStayValid, [Next]_vars PROVE ReferencesStayValid'
    OBVIOUS
<1>1. ASSUME UNCHANGED <<networks, references, dropped>>
      PROVE  ReferencesStayValid'
      BY <1>1 DEF ReferencesStayValid
<1>2. CASE AddNetworks
  <2>1. networks \subseteq networks' /\ UNCHANGED <<references, dropped>>
        BY <1>2 DEF AddNetworks, Kept, ghosts
  <2> QED BY <2>1 DEF ReferencesStayValid
<1>3. CASE DropNetworks
  <2>1. /\ networks' = networks \ Gone
        /\ dropped' = dropped \union (Names(Gone) \intersect Names(references))
        /\ references' = references
        BY <1>3 DEF DropNetworks
  <2>2. ASSUME NEW r \in references, r.name \notin dropped' PROVE r \notin Gone
        BY <2>1, <2>2 DEF Names
  <2> QED BY <2>1, <2>2 DEF ReferencesStayValid
<1>4. CASE Refer
  <2>1. PICK n \in networks : references' = references \union {n}
        BY <1>4 DEF Refer
  <2>2. UNCHANGED <<networks, dropped>>
        BY <1>4 DEF Refer, ghosts
  <2> QED BY <2>1, <2>2 DEF ReferencesStayValid
<1>5. CASE Forget
  <2>1. PICK n \in references :
          /\ references' = references \ {n}
          /\ dropped' = dropped \ ({n.name} \ Names(references \ {n}))
        BY <1>5 DEF Forget
  <2>2. networks' = networks
        BY <1>5 DEF Forget
  <2>3. ASSUME NEW r \in references', r.name \notin dropped' PROVE r.name \notin dropped
        BY <2>1, <2>3 DEF Names
  <2> QED BY <2>1, <2>2, <2>3 DEF ReferencesStayValid
<1>6. CASE Destroy
      BY <1>6 DEF Destroy, ReferencesStayValid
<1>7. CASE Load /\ ~AddNetworks /\ ~DropNetworks /\ ~Destroy
      BY <1>1, <1>7 DEF Load, Reload, ReadLine, ReadEnds, DeleteCrashes, CreateDb,
           CreateDbThrows, OpenDatabase, OpenFails, OpenThrows, SetDatabase, ConfigReloaded,
           ConfigRejected, CountInits, heap, ghosts
<1>8. CASE PropertyRequestCrashes \/ RunOnceThrows \/ Construct \/ Edit \/ Hangup \/ Over
      BY <1>1, <1>8 DEF PropertyRequestCrashes, RunOnceThrows, Construct, Edit, Hangup, Over,
           vars, heap, ghosts
<1>9. CASE UNCHANGED vars
      BY <1>1, <1>9 DEF vars, heap, ghosts
<1> QED BY <1>2, <1>3, <1>4, <1>5, <1>6, <1>7, <1>8, <1>9 DEF Next, Service

\* What requirements and queued commands point to survives every reload that
\* keeps the network.
THEOREM ReferencesStayValidCorrect == Spec => []ReferencesStayValid
<1>1. Init => ReferencesStayValid
      BY DEF Init, ReferencesStayValid
<1>2. ReferencesStayValid /\ [Next]_vars => ReferencesStayValid'
      BY ReferencesStep
<1> QED BY <1>1, <1>2, PTL DEF Spec
-----------------------------------------------------------------------------
(* Networks.                                                               *)

LEMMA AddNetworksKeepsOwned ==
  ASSUME NetworksOwned, AddNetworks
  PROVE  NetworksOwned'
<1> DEFINE new == Configured \ Names(networks)
<1>1. PICK place \in [new -> Fresh] :
        /\ \A m, n \in new : place[m] = place[n] => m = n
        /\ objects' = objects \union {place[n] : n \in new}
        /\ networks' = networks \union {[name |-> n, at |-> place[n]] : n \in new}
      BY DEF AddNetworks, Kept
<1> HIDE DEF new
<1>2. \A n \in networks : n.name \notin new /\ n.at \in objects
      BY DEF NetworksOwned, new, Names
<1>3. \A n \in new : place[n] \notin objects
      BY <1>1 DEF Fresh
<1>4. ASSUME NEW m \in networks', NEW n \in networks', m.name = n.name \/ m.at = n.at
      PROVE  m = n
  <2>1. CASE m \in networks /\ n \in networks
        BY <1>4, <2>1 DEF NetworksOwned
  <2>2. CASE m \notin networks /\ n \notin networks
    <3>1. PICK i \in new : m = [name |-> i, at |-> place[i]]
          BY <1>1, <2>2
    <3>2. PICK j \in new : n = [name |-> j, at |-> place[j]]
          BY <1>1, <2>2
    <3> QED BY <1>1, <1>4, <3>1, <3>2
  <2>3. CASE m \in networks /\ n \notin networks
    <3>1. PICK j \in new : n = [name |-> j, at |-> place[j]]
          BY <1>1, <2>3
    <3> QED BY <1>2, <1>3, <1>4, <2>3, <3>1
  <2>4. CASE m \notin networks /\ n \in networks
    <3>1. PICK i \in new : m = [name |-> i, at |-> place[i]]
          BY <1>1, <2>4
    <3> QED BY <1>2, <1>3, <1>4, <2>4, <3>1
  <2> QED BY <2>1, <2>2, <2>3, <2>4
<1>5. objects' = {n.at : n \in networks'}
  <2>1. ASSUME NEW a \in objects' PROVE \E n \in networks' : a = n.at
    <3>1. CASE a \in objects
          BY <1>1, <3>1 DEF NetworksOwned
    <3>2. CASE a \notin objects
      <4>1. PICK i \in new : a = place[i]
            BY <1>1, <2>1, <3>2
      <4>2. [name |-> i, at |-> place[i]] \in networks'
            BY <1>1
      <4> QED BY <4>1, <4>2
    <3> QED BY <3>1, <3>2
  <2>2. ASSUME NEW n \in networks' PROVE n.at \in objects'
    <3>1. CASE n \in networks
          BY <1>1, <1>2, <3>1
    <3>2. CASE n \notin networks
      <4>1. PICK i \in new : n = [name |-> i, at |-> place[i]]
            BY <1>1, <2>2, <3>2
      <4> QED BY <1>1, <4>1
    <3> QED BY <3>1, <3>2
  <2> QED BY <2>1, <2>2
<1> QED BY <1>4, <1>5 DEF NetworksOwned

LEMMA DropNetworksKeepsOwned ==
  ASSUME NetworksOwned, DropNetworks
  PROVE  NetworksOwned'
<1>1. networks' = networks \ Gone /\ objects' = objects \ {n.at : n \in Gone}
      BY DEF DropNetworks, Freed
<1>2. Gone \subseteq networks
      BY DEF Gone
<1>3. \A m, n \in networks : m.name = n.name \/ m.at = n.at => m = n
      BY DEF NetworksOwned
<1>4. objects = {n.at : n \in networks}
      BY DEF NetworksOwned
<1>5. ASSUME NEW a \in objects' PROVE \E n \in networks' : a = n.at
  <2>1. PICK n \in networks : a = n.at
        BY <1>1, <1>4, <1>5
  <2>2. n \notin Gone
        BY <1>1, <1>5, <2>1
  <2> QED BY <1>1, <2>1, <2>2
<1>6. ASSUME NEW n \in networks' PROVE n.at \in objects'
  <2>1. n.at \in objects /\ n \notin Gone
        BY <1>1, <1>4, <1>6
  <2>2. \A g \in Gone : g.at # n.at
        BY <1>1, <1>2, <1>3, <1>6, <2>1
  <2> QED BY <1>1, <2>1, <2>2
<1>7. objects' = {n.at : n \in networks'}
      BY <1>5, <1>6
<1> QED BY <1>1, <1>3, <1>7 DEF NetworksOwned

LEMMA NetworksStep == NetworksOwned /\ [Next]_vars => NetworksOwned'
<1> SUFFICES ASSUME NetworksOwned, [Next]_vars PROVE NetworksOwned'
    OBVIOUS
<1>1. ASSUME UNCHANGED <<networks, objects>>
      PROVE  NetworksOwned'
      BY <1>1 DEF NetworksOwned
<1>2. CASE AddNetworks
      BY <1>2, AddNetworksKeepsOwned
<1>3. CASE DropNetworks
      BY <1>3, DropNetworksKeepsOwned
<1>4. CASE Destroy
      BY <1>4 DEF Destroy, NetworksOwned
<1>5. CASE Load /\ ~AddNetworks /\ ~DropNetworks /\ ~Destroy
      BY <1>1, <1>5 DEF Load, Reload, ReadLine, ReadEnds, DeleteCrashes, CreateDb,
           CreateDbThrows, OpenDatabase, OpenFails, OpenThrows, SetDatabase, ConfigReloaded,
           ConfigRejected, CountInits, heap
<1>6. CASE Service \/ Construct \/ Edit \/ Hangup \/ Over
      BY <1>1, <1>6 DEF Service, PropertyRequestCrashes, RunOnceThrows, Refer, Forget,
           Construct, Edit, Hangup, Over, vars, heap
<1>7. CASE UNCHANGED vars
      BY <1>1, <1>7 DEF vars, heap
<1> QED BY <1>2, <1>3, <1>4, <1>5, <1>6, <1>7 DEF Next

\* No Network is leaked, freed twice or used after it was freed by networks_,
\* however many reloads there are and wherever they fail.
THEOREM NetworksOwnedCorrect == Spec => []NetworksOwned
<1>1. Init => NetworksOwned
      BY DEF Init, NetworksOwned
<1>2. NetworksOwned /\ [Next]_vars => NetworksOwned'
      BY NetworksStep
<1> QED BY <1>1, <1>2, PTL DEF Spec
-----------------------------------------------------------------------------
(* Loads that succeed.                                                     *)

\* Once the database is passed on it stays, and the networks are first a
\* superset of the configured ones and then these.
LoadInv ==
  /\ pc = "comm" => databases[database] = "open"
  /\ pc \in {"monitor", "networks", "drop", "numinits"} \/ (pc = "idle" /\ result = "ok")
       => databases[database] = "open" /\ commDatabase = database
  /\ pc = "drop" => Configured \subseteq Names(networks)
  /\ pc = "numinits" \/ (pc = "idle" /\ result = "ok") => Names(networks) = Configured
  /\ pc = "starting" => result = "none"

\* What the invariant relates; Configured is what config says.
related == <<databases, database, commDatabase, networks, config>>

LEMMA ConfiguredKept == ASSUME UNCHANGED config PROVE Configured' = Configured
BY DEF Configured

LEMMA LoadStep == DatabaseInv /\ LoadInv /\ [Next]_vars => LoadInv'
<1> SUFFICES ASSUME DatabaseInv, LoadInv, [Next]_vars PROVE LoadInv'
    OBVIOUS
<1>1. ASSUME UNCHANGED <<related, pc, result>> PROVE LoadInv'
      BY <1>1, ConfiguredKept DEF LoadInv, related, Names
<1>2. ASSUME pc' \in Dead \union {"reading", "connect", "open"} PROVE LoadInv'
      BY <1>2 DEF LoadInv, Dead
<1>3. ASSUME pc' \in {"idle", "ending"}, result' # "ok" PROVE LoadInv'
      BY <1>3 DEF LoadInv
<1>4. CASE Load
  <2>1. CASE Reload
        BY <1>2, <2>1 DEF Reload
  <2>2. CASE ReadLine
        BY <1>2, <2>2 DEF ReadLine, control
  <2>3. CASE ReadEnds
        BY <1>2, <1>3, <2>3 DEF ReadEnds, Goto, Return, Dead
  <2>4. CASE DeleteCrashes \/ OpenThrows
        BY <1>2, <2>4 DEF DeleteCrashes, OpenThrows, Goto, Dead
  <2>5. CASE CreateDb
        BY <1>2, <2>5 DEF CreateDb, Goto
  <2>6. CASE CreateDbThrows \/ OpenFails
        BY <1>3, <2>6 DEF CreateDbThrows, OpenFails, Return
  <2>7. CASE OpenDatabase
    <3>1. database \in DatabaseAt
          BY <2>7 DEF OpenDatabase, DatabaseInv, DatabaseTypes
    <3>2. pc' = "comm" /\ databases'[database'] = "open"
          BY <2>7, <3>1 DEF OpenDatabase, Goto, DatabaseInv, DatabaseTypes
    <3> QED BY <3>2 DEF LoadInv
  <2>8. CASE SetDatabase
        BY <2>8 DEF SetDatabase, Goto, LoadInv
  <2>9. CASE ConfigReloaded
        BY <2>9 DEF ConfigReloaded, Goto, LoadInv, heap
  <2>10. CASE ConfigRejected
        BY <1>3, <2>10 DEF ConfigRejected, Return
  <2>11. CASE AddNetworks
    <3>1. pc' = "drop" /\ UNCHANGED <<databases, database, commDatabase, config>>
          BY <2>11 DEF AddNetworks, Goto, reader
    <3>2. PICK place \in [Configured \ Names(networks) -> Fresh] :
            networks' = networks \union
              {[name |-> n, at |-> place[n]] : n \in Configured \ Names(networks)}
          BY <2>11 DEF AddNetworks, Kept
    <3>3. ASSUME NEW n \in Configured PROVE n \in Names(networks')
      <4>1. CASE n \in Names(networks)
            BY <3>2, <4>1 DEF Names
      <4>2. CASE n \notin Names(networks)
        <5>1. [name |-> n, at |-> place[n]] \in networks'
              BY <3>2, <4>2
        <5> QED BY <5>1 DEF Names
      <4> QED BY <4>1, <4>2
    <3>4. Configured' \subseteq Names(networks')
          BY <3>1, <3>3, ConfiguredKept
    <3>5. Names(networks)' = Names(networks')
          BY DEF Names
    <3> QED BY <2>11, <3>1, <3>4, <3>5 DEF LoadInv, AddNetworks
  <2>12. CASE DropNetworks
    <3>1. /\ pc = "drop" /\ pc' = "numinits"
          /\ UNCHANGED <<databases, database, commDatabase, config>>
          /\ networks' = networks \ Gone
          BY <2>12 DEF DropNetworks, Goto, reader
    <3>2. Configured \subseteq Names(networks)
          BY <3>1 DEF LoadInv
    <3>3. ASSUME NEW n \in Names(networks') PROVE n \in Configured
          BY <3>1, <3>3 DEF Names, Gone
    <3>4. ASSUME NEW n \in Configured PROVE n \in Names(networks')
      <4>1. PICK m \in networks : m.name = n
            BY <3>2 DEF Names
      <4>2. m \in networks'
            BY <3>1, <4>1 DEF Gone
      <4> QED BY <4>1, <4>2 DEF Names
    <3>5. Names(networks)' = Configured'
          BY <3>1, <3>3, <3>4, ConfiguredKept DEF Names
    <3> QED BY <3>1, <3>5 DEF LoadInv
  <2>13. CASE CountInits
    <3>1. UNCHANGED <<databases, database, commDatabase, networks, config>>
          BY <2>13 DEF CountInits, heap, reader
    <3>2. pc = "numinits" /\ pc' \in {"idle", "ending", "aborted"}
          BY <2>13 DEF CountInits, Goto, Return
    <3>3. /\ databases'[database'] = "open" /\ commDatabase' = database'
          /\ Names(networks)' = Configured'
          BY <3>1, <3>2, ConfiguredKept DEF LoadInv, Names
    <3> QED BY <3>2, <3>3 DEF LoadInv
  <2>14. CASE Destroy
        BY <1>2, <2>14 DEF Destroy, Goto, Dead
  <2> QED BY <1>4, <2>1, <2>2, <2>3, <2>4, <2>5, <2>6, <2>7, <2>8, <2>9, <2>10,
             <2>11, <2>12, <2>13, <2>14 DEF Load
<1>5. CASE Service
  <2>1. CASE PropertyRequestCrashes \/ RunOnceThrows
        BY <1>2, <2>1 DEF PropertyRequestCrashes, RunOnceThrows, Goto, Dead
  <2>2. CASE Refer
        BY <1>1, <2>2 DEF Refer, control, reader, related, ghosts
  <2>3. CASE Forget
        BY <1>1, <2>3 DEF Forget, control, reader, related
  <2> QED BY <1>5, <2>1, <2>2, <2>3 DEF Service
<1>6. CASE Construct
  <2>1. pc = "starting" /\ pc' = "idle" /\ result' = result
        BY <1>6 DEF Construct, Goto, ghosts
  <2> QED BY <1>3, <2>1 DEF LoadInv
<1>7. CASE Edit
      BY <1>1, <1>7 DEF Edit, control, heap, reader, related
<1>8. CASE Hangup
      BY <1>1, <1>2, <1>8 DEF Hangup, heap, reader, related, Dead
<1>9. CASE Over \/ UNCHANGED vars
      BY <1>1, <1>9 DEF Over, vars, control, heap, reader, related, ghosts
<1> QED BY <1>4, <1>5, <1>6, <1>7, <1>8, <1>9 DEF Next

\* After a load that succeeds, PluginComm works on the open database and the
\* networks are those of the configuration.
THEOREM LoadedIsConsistentCorrect == Spec => []LoadedIsConsistent
<1> DEFINE Inv == DatabaseInv /\ LoadInv
<1>1. Init => Inv
      BY NullAssumption DEF Init, DatabaseInv, DatabaseTypes, CommIsTold, LoadInv
<1>2. Inv /\ [Next]_vars => Inv'
      BY DatabaseStep, LoadStep
<1>3. Inv => LoadedIsConsistent
      BY DEF LoadInv, LoadedIsConsistent
<1> QED BY <1>1, <1>2, <1>3, PTL DEF Spec

-----------------------------------------------------------------------------
(* The configuration.                                                      *)

ReaderInv == disk \in File /\ ControlInv /\ ContentInv

LEMMA ReaderStep == ReaderInv /\ [Next]_vars => ReaderInv'
<1> SUFFICES ASSUME ReaderInv, [Next]_vars PROVE ReaderInv'
    OBVIOUS
<1>1. ASSUME UNCHANGED <<reader, disk>> PROVE ReaderInv'
      BY <1>1, ControlKept, ContentKept DEF ReaderInv
<1>2. CASE Reload
  <2>1. StartRead(disk) /\ disk' = disk
        BY <1>2 DEF Reload
  <2> QED BY <2>1, StartReadControl, StartReadContent DEF ReaderInv
<1>3. CASE ReadLine
  <2>1. Read /\ disk' = disk
        BY <1>3 DEF ReadLine
  <2> QED BY <2>1, ReadControl, ReadContent DEF ReaderInv
<1>4. CASE Load /\ ~Reload /\ ~ReadLine
      BY <1>1, <1>4 DEF Load, ReadEnds, DeleteCrashes, CreateDb, CreateDbThrows, OpenDatabase,
           OpenFails, OpenThrows, SetDatabase, ConfigReloaded, ConfigRejected, AddNetworks,
           DropNetworks, CountInits, Destroy
<1>5. CASE Edit
  <2>1. UNCHANGED reader /\ disk' \in File
        BY <1>5 DEF Edit
  <2> QED BY <2>1, ControlKept, ContentKept DEF ReaderInv
<1>6. CASE Service \/ Construct \/ Hangup \/ Over
      BY <1>1, <1>6 DEF Service, PropertyRequestCrashes, RunOnceThrows, Refer, Forget,
           Construct, Hangup, Over, vars
<1>7. CASE UNCHANGED vars
      BY <1>1, <1>7 DEF vars
<1> QED BY <1>2, <1>3, <1>4, <1>5, <1>6, <1>7 DEF Next

\* For every file and whatever was read before it: lines read so far are built as
\* they declare, a file that is refused is not well-formed.
THEOREM ReaderInvariant == Spec => []ReaderInv
<1>1. Init => ReaderInv
      BY DEF Init, ReaderInit, ReaderInv, ControlInv, ContentInv, ReaderTypes
<1>2. ReaderInv /\ [Next]_vars => ReaderInv'
      BY ReaderStep
<1> QED BY <1>1, <1>2, PTL DEF Spec

\* What the reader publishes of a nested file is what the file declares.
THEOREM ConfigIsDeclaredCorrect == Spec => []ConfigIsDeclared
<1>1. ReaderInv => ConfigIsDeclared
      BY DEF ReaderInv, ContentInv, ConfigIsDeclared
<1> QED BY <1>1, ReaderInvariant, PTL

\* The reader refuses only files that are not well-formed, and accepts others
\* only where a network ignores the start of another section.
THEOREM WellFormedIsReadCorrect == Spec => []WellFormedIsRead
<1>1. ReaderInv => WellFormedIsRead
      BY DEF ReaderInv, ControlInv, WellFormedIsRead, Ignored
<1> QED BY <1>1, ReaderInvariant, PTL

-----------------------------------------------------------------------------
(* Types.                                                                  *)

\* The only database there is is the one database_ points to.
OnlyOne == \A a \in DatabaseAt : databases[a] # "free" => a = database

TypesInv ==
  /\ pc \in Dead \union {"starting", "idle", "reading", "connect", "open", "comm",
                         "monitor", "networks", "drop", "numinits", "ending"}
  /\ pending \in BOOLEAN /\ initial \in BOOLEAN
  /\ commDatabase \in DatabaseAt \union {Null}
  /\ OnlyOne

LEMMA TypesStep == DatabaseInv /\ TypesInv /\ [Next]_vars => TypesInv'
<1> SUFFICES ASSUME DatabaseInv, TypesInv, [Next]_vars PROVE TypesInv'
    OBVIOUS
<1> DEFINE Labels == Dead \union {"starting", "idle", "reading", "connect", "open", "comm",
                                  "monitor", "networks", "drop", "numinits", "ending"}
<1>1. /\ databases \in [DatabaseAt -> {"free", "raw", "open"}]
      /\ database \in DatabaseAt \union {Null}
      /\ pc = "open" => database \in DatabaseAt
      BY DEF DatabaseInv, DatabaseTypes
<1>2. ASSUME UNCHANGED <<databases, database, commDatabase>>, pc' \in Labels,
             pending' \in BOOLEAN, initial' \in BOOLEAN
      PROVE  TypesInv'
      BY <1>2 DEF TypesInv, OnlyOne
<1>3. pending \in BOOLEAN /\ initial \in BOOLEAN /\ pc \in Labels
      BY DEF TypesInv
<1>4. CASE CreateDb
  <2>1. PICK a \in DatabaseAt : /\ Deleted[a] = "free"
                                /\ databases' = [Deleted EXCEPT ![a] = "raw"] /\ database' = a
        BY <1>4 DEF CreateDb
  <2>2. \A b \in DatabaseAt : Deleted[b] = "free"
        BY <1>1, NullAssumption DEF TypesInv, OnlyOne, Deleted
  <2>3. OnlyOne'
        BY <1>1, <2>1, <2>2 DEF OnlyOne, Deleted
  <2>4. pc' = "open" /\ UNCHANGED <<pending, initial, commDatabase>>
        BY <1>4 DEF CreateDb, Goto
  <2> QED BY <2>3, <2>4 DEF TypesInv
<1>5. CASE CreateDbThrows \/ Destroy
  <2>1. databases' = Deleted /\ UNCHANGED <<database, commDatabase>>
        BY <1>5 DEF CreateDbThrows, Destroy
  <2>2. OnlyOne'
        BY <1>1, <2>1 DEF TypesInv, OnlyOne, Deleted
  <2>3. pc' \in Labels /\ pending' \in BOOLEAN /\ initial' \in BOOLEAN
        BY <1>3, <1>5 DEF CreateDbThrows, Destroy, Goto, Return, Dead
  <2> QED BY <2>1, <2>2, <2>3 DEF TypesInv
<1>6. CASE OpenDatabase
  <2>1. databases' = [databases EXCEPT ![database] = "open"] /\ UNCHANGED <<database, commDatabase>>
        BY <1>6 DEF OpenDatabase
  <2>2. OnlyOne'
        BY <1>1, <1>6, <2>1 DEF TypesInv, OnlyOne, OpenDatabase
  <2>3. pc' = "comm" /\ UNCHANGED <<pending, initial>>
        BY <1>6 DEF OpenDatabase, Goto
  <2> QED BY <2>1, <2>2, <2>3 DEF TypesInv
<1>7. CASE SetDatabase
      BY <1>1, <1>7 DEF SetDatabase, Goto, TypesInv, OnlyOne
<1>8. CASE Load /\ ~CreateDb /\ ~CreateDbThrows /\ ~Destroy /\ ~OpenDatabase /\ ~SetDatabase
  <2>1. UNCHANGED <<databases, database, commDatabase>>
        BY <1>8 DEF Load, Reload, ReadLine, ReadEnds, DeleteCrashes, OpenFails, OpenThrows,
             ConfigReloaded, ConfigRejected, AddNetworks, DropNetworks, CountInits, heap
  <2>2. pc' \in Labels /\ pending' \in BOOLEAN /\ initial' \in BOOLEAN
        BY <1>3, <1>8 DEF Load, Reload, ReadLine, ReadEnds, DeleteCrashes, OpenFails, OpenThrows,
             ConfigReloaded, ConfigRejected, AddNetworks, DropNetworks, CountInits, control,
             Goto, Return, Dead
  <2> QED BY <1>2, <2>1, <2>2
<1>9. CASE Service \/ Construct \/ Edit \/ Hangup \/ Over
  <2>1. UNCHANGED <<databases, database, commDatabase>>
        BY <1>9 DEF Service, PropertyRequestCrashes, RunOnceThrows, Refer, Forget, Construct,
             Edit, Hangup, Over, vars, heap
  <2>2. pc' \in Labels /\ pending' \in BOOLEAN /\ initial' \in BOOLEAN
        BY <1>3, <1>9 DEF Service, PropertyRequestCrashes, RunOnceThrows, Refer, Forget,
             Construct, Edit, Hangup, Over, vars, control, Goto, Dead
  <2> QED BY <1>2, <2>1, <2>2
<1>10. CASE UNCHANGED vars
      BY <1>2, <1>3, <1>10 DEF vars, control, heap
<1> QED BY <1>4, <1>5, <1>6, <1>7, <1>8, <1>9, <1>10 DEF Next

\* There is never more than one database, and the reader is always in a section
\* that it is building.
THEOREM TypeCorrect == Spec => []TypeOK
<1> DEFINE Inv == DatabaseInv /\ TypesInv
<1>1. Init => Inv
      BY NullAssumption DEF Init, DatabaseInv, DatabaseTypes, CommIsTold, TypesInv, OnlyOne
<1>2. Inv /\ [Next]_vars => Inv'
      BY DatabaseStep, TypesStep
<1>3. Inv /\ ReaderInv => TypeOK
  <2> SUFFICES ASSUME Inv, ReaderInv PROVE TypeOK
      OBVIOUS
  <2>1. Cardinality({a \in DatabaseAt : databases[a] # "free"}) <= 1
    <3> DEFINE used == {a \in DatabaseAt : databases[a] # "free"}
    <3>1. used \in SUBSET {database}
          BY DEF TypesInv, OnlyOne
    <3>2. IsFiniteSet({database}) /\ Cardinality({database}) = 1
          BY FS_Singleton
    <3> HIDE DEF used
    <3>3. Cardinality(used) <= 1
          BY <3>1, <3>2, FS_Subset
    <3> QED BY <3>3 DEF used
  <2>2. /\ databases \in [DatabaseAt -> {"free", "raw", "open"}]
        /\ database \in DatabaseAt \union {Null}
        BY DEF DatabaseInv, DatabaseTypes
  <2>3. /\ section \in Sections \union {"root"} /\ isRead \in BOOLEAN
        /\ outcome \in {"unread", "reading", "read", "exception", "abort"}
        /\ outcome # "unread" => section \in DOMAIN progress
        BY DEF ReaderInv, ControlInv, ReaderTypes
  <2>4. /\ pc \in Dead \union {"starting", "idle", "reading", "connect", "open", "comm",
                                "monitor", "networks", "drop", "numinits", "ending"}
        /\ pending \in BOOLEAN /\ initial \in BOOLEAN
        /\ commDatabase \in DatabaseAt \union {Null}
        BY DEF TypesInv
  <2> QED BY <2>1, <2>2, <2>3, <2>4 DEF TypeOK
<1> QED BY <1>1, <1>2, <1>3, ReaderInvariant, PTL DEF Spec
=============================================================================
