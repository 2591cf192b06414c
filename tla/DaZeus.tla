-------------------------------- MODULE DaZeus --------------------------------
(***************************************************************************)
(* Class DaZeus of src/src/dazeus.cpp: run() and loadConfig(), with the    *)
(* objects they own.  A SIGHUP sets a flag; loadConfig() then reads the    *)
(* file (ConfigReader), replaces the database, tells PluginComm and        *)
(* PluginMonitor, and creates and deletes networks.  It may fail after     *)
(* each of these steps, and what it did stays done.                        *)
(*                                                                         *)
(* Objects are addresses, which the allocator hands out again.  Of         *)
(* PluginComm the model has the pointers it keeps: one to the database,    *)
(* and the networks of its RequirementInfos and queued Commands.           *)
(***************************************************************************)
EXTENDS ConfigReader, FiniteSets

CONSTANTS
  DatabaseAt,   \* addresses of databases
  NetworkAt,    \* addresses of networks
  Supported,    \* the types of database createDb() knows
  Null,
  MaxEdits      \* bound: changes of the file

ASSUME NullAssumption == Null \notin DatabaseAt

VARIABLES
  pc,           \* the next statement of the thread
  pending,      \* config_reload_pending_
  initial,      \* initial_config
  databases,    \* the state of the object at each address: free, raw or open
  database,     \* DaZeus::database_
  commDatabase, \* PluginComm::database_
  objects,      \* the addresses at which there is a Network
  networks,     \* DaZeus::networks_, as a set of [name, at]
  references,   \* what requirements and queued commands point to, as in networks
  disk,         \* the file on disk
  edits,        \* ghost: how often it changed
  requested,    \* ghost: edits when a reload was last asked for
  loaded,       \* ghost: edits when a load last began
  result,       \* ghost: what loadConfig() came to
  dropped       \* ghost: networks removed since they were referenced

control == <<pc, pending, initial>>
heap == <<databases, database, commDatabase, objects, networks, references>>
ghosts == <<edits, requested, loaded, result, dropped>>
vars == <<reader, control, heap, disk, ghosts>>

Names(S) == {n.name : n \in S}
Fresh == NetworkAt \ objects
Dead == {"exited", "aborted", "crashed"}

Init ==
  /\ ReaderInit
  /\ pc = "starting"
  /\ pending = TRUE
  /\ initial = TRUE
  /\ databases = [a \in DatabaseAt |-> "free"]
  /\ database = Null
  /\ commDatabase = Null
  /\ objects = {}
  /\ networks = {}
  /\ references = {}
  /\ disk \in File
  /\ edits = 0
  /\ requested = 0
  /\ loaded = 0
  /\ result = "none"
  /\ dropped = {}

Goto(label) == pc' = label /\ UNCHANGED <<pending, initial>>

-----------------------------------------------------------------------------
(* main() and run().                                                       *)

\* d is set after the signal handlers are installed.
Construct ==
  /\ pc = "starting"
  /\ Goto("idle")
  /\ UNCHANGED <<reader, heap, disk, ghosts>>

\* The flag is cleared before the file is read.
Reload ==
  /\ pc = "idle" /\ pending
  /\ pc' = "reading"
  /\ pending' = FALSE
  /\ StartRead(disk)
  /\ loaded' = edits
  /\ UNCHANGED <<initial, heap, disk, edits, requested, result, dropped>>

\* Mutant: the flag is cleared when loadConfig() has returned.
ReturnAndClear(r) ==
  /\ pc' = IF r # "ok" /\ initial THEN "ending" ELSE "idle"
  /\ initial' = FALSE
  /\ pending' = FALSE
  /\ result' = r

\* loadConfig() returns; if the first one fails, run() and main() end.
Return(r) ==
  /\ pc' = IF r # "ok" /\ initial THEN "ending" ELSE "idle"
  /\ initial' = FALSE
  /\ result' = r
  /\ UNCHANGED pending

-----------------------------------------------------------------------------
(* loadConfig() and connectDatabase().                                     *)

ReadLine ==
  /\ pc = "reading" /\ Read
  /\ UNCHANGED <<control, heap, disk, ghosts>>

ReadEnds ==
  /\ pc = "reading"
  /\ \/ outcome = "read" /\ Goto("connect") /\ UNCHANGED result
     \/ outcome = "exception" /\ Return("unread")
     \/ outcome = "abort" /\ Goto("aborted") /\ UNCHANGED result
  /\ UNCHANGED <<reader, heap, disk, edits, requested, loaded, dropped>>

DatabaseType ==
  LET given == {o[2] : o \in {o \in config.database : o[1] = <<"type">>}}
  IN IF given = {} THEN "" ELSE CHOOSE t \in given : TRUE

\* Mutant: the old database is left alone.
DeletedNone == databases

\* delete database_.  Of an object that was never opened this reads members
\* that were never set; of one that is deleted already it is undefined too.
Deleted ==
  IF database = Null THEN databases ELSE [databases EXCEPT ![database] = "free"]

DeleteCrashes ==
  /\ pc \in {"connect", "ending"} /\ database # Null /\ databases[database] # "open"
  /\ Goto("crashed")
  /\ UNCHANGED <<reader, heap, disk, ghosts>>

\* The destructor, of the networks too, and of PluginComm with its pointers.
Destroy ==
  /\ pc = "ending"
  /\ networks' = {}
  /\ objects' = objects \ {n.at : n \in networks}
  /\ references' = {}
  /\ databases' = Deleted
  /\ Goto("exited")
  /\ UNCHANGED <<reader, database, commDatabase, disk, ghosts>>

\* The new object may be where the old one was.
CreateDb ==
  /\ pc = "connect" /\ DatabaseType \in Supported
  /\ \E a \in DatabaseAt :
       /\ Deleted[a] = "free"
       /\ databases' = [Deleted EXCEPT ![a] = "raw"]
       /\ database' = a
  /\ Goto("open")
  /\ UNCHANGED <<reader, commDatabase, objects, networks, references, disk, ghosts>>

\* createDb() throws: database_ keeps pointing to what was deleted.
CreateDbThrows ==
  /\ pc = "connect" /\ DatabaseType \notin Supported
  /\ databases' = Deleted
  /\ Return("no database")
  /\ UNCHANGED <<reader, database, commDatabase, objects, networks, references, disk,
                 edits, requested, loaded, dropped>>

OpenDatabase ==
  /\ pc = "open"
  /\ databases' = [databases EXCEPT ![database] = "open"]
  /\ Goto("comm")
  /\ UNCHANGED <<reader, database, commDatabase, objects, networks, references, disk, ghosts>>

\* open() throws the exception of databases.
OpenFails ==
  /\ pc = "open"
  /\ Return("no database")
  /\ UNCHANGED <<reader, heap, disk, edits, requested, loaded, dropped>>

\* SQLite reads its version with std::stoi(), which throws another exception if
\* that property is no number.
OpenThrows ==
  /\ pc = "open" /\ DatabaseType \in {"sqlite", "sqlite3"}
  /\ Goto("aborted")
  /\ UNCHANGED <<reader, heap, disk, ghosts>>

\* Mutant: the pointer is passed on the first time only.
SetDatabaseOnce ==
  /\ pc = "comm"
  /\ commDatabase' = IF commDatabase = Null THEN database ELSE commDatabase
  /\ Goto("monitor")
  /\ UNCHANGED <<reader, databases, database, objects, networks, references, disk, ghosts>>

\* new PluginComm, or setDatabase().
SetDatabase ==
  /\ pc = "comm"
  /\ commDatabase' = database
  /\ Goto("monitor")
  /\ UNCHANGED <<reader, databases, database, objects, networks, references, disk, ghosts>>

\* The names of states configReloaded() looks for; it throws if one comes twice.
PerNetwork(p) == \E o \in p.options : o = <<<<"scope">>, "network">>

States ==
  {s \in (1 .. Len(config.plugins)) \X (0 .. Len(config.networks)) :
     PerNetwork(config.plugins[s[1]]) <=> s[2] > 0}

StateName(s) ==
  <<config.plugins[s[1]].name, IF s[2] = 0 THEN "" ELSE config.networks[s[2]].name>>

Repeated == \E s, t \in States : s # t /\ StateName(s) = StateName(t)

\* Parameters with %s need a socket.
NeedsSocket(p) == \E o \in p.options : o = <<<<"parameters">>, "%s">>

SocketMissing ==
  config.sockets = <<>> /\ \E i \in DOMAIN config.plugins : NeedsSocket(config.plugins[i])

ConfigReloaded ==
  /\ pc = "monitor" /\ ~Repeated
  /\ Goto("networks")
  /\ UNCHANGED <<reader, heap, disk, ghosts>>

ConfigRejected ==
  /\ pc = "monitor" /\ (Repeated \/ SocketMissing)
  /\ Return("rejected")
  /\ UNCHANGED <<reader, heap, disk, edits, requested, loaded, dropped>>

Configured == {config.networks[i].name : i \in DOMAIN config.networks}

\* Mutant: networks that exist get a new object.
KeptNone == {n \in networks : n.name \notin Configured}

\* Networks that exist keep their object (resetConfig), the others get one.
Kept == networks

AddNetworks ==
  /\ pc = "networks"
  /\ LET new == Configured \ Names(Kept)
     IN \E place \in [new -> Fresh] :
          /\ \A m, n \in new : place[m] = place[n] => m = n
          /\ objects' = objects \union {place[n] : n \in new}
          /\ networks' = Kept \union {[name |-> n, at |-> place[n]] : n \in new}
  /\ Goto("drop")
  /\ UNCHANGED <<reader, databases, database, commDatabase, references, disk, ghosts>>

\* Mutant: networks that are gone from the file stay.
GoneNone == {}

Gone == {n \in networks : n.name \notin Configured}

\* Mutant: erased from the map, and not deleted.
FreedNone == objects

Freed == objects \ {n.at : n \in Gone}

\* Nobody tells PluginComm.
DropNetworks ==
  /\ pc = "drop"
  /\ networks' = networks \ Gone
  /\ objects' = Freed
  /\ dropped' = dropped \union (Names(Gone) \intersect Names(references))
  /\ Goto("numinits")
  /\ UNCHANGED <<reader, databases, database, commDatabase, references, disk,
                 edits, requested, loaded, result>>

\* The number of initialisations is read and stored; what the database throws
\* is caught by nobody.
CountInits ==
  /\ pc = "numinits"
  /\ \/ Return("ok")
     \/ Goto("aborted") /\ UNCHANGED result
  /\ UNCHANGED <<reader, heap, disk, edits, requested, loaded, dropped>>

-----------------------------------------------------------------------------
(* PluginComm::run() and PluginMonitor::runOnce(), called when idle.       *)

\* {"do":"property"} with a database that was deleted or never opened.
PropertyRequestCrashes ==
  /\ pc = "idle" /\ ~initial
  /\ commDatabase # Null /\ databases[commDatabase] # "open"
  /\ Goto("crashed")
  /\ UNCHANGED <<reader, heap, disk, ghosts>>

\* A plugin asks for the commands of a network, or one arrives from it.
Refer ==
  /\ pc = "idle" /\ ~initial
  /\ \E n \in networks : references' = references \union {n}
  /\ UNCHANGED <<reader, control, databases, database, commDatabase, objects, networks,
                 disk, ghosts>>

\* Plugins that asked hang up, and commands leave the queue.
Forget ==
  /\ pc = "idle" /\ references # {}
  /\ \E n \in references :
       /\ references' = references \ {n}
       /\ dropped' = dropped \ ({n.name} \ Names(references \ {n}))
  /\ UNCHANGED <<reader, control, databases, database, commDatabase, objects, networks,
                 disk, edits, requested, loaded, result>>

\* A plugin that runOnce() starts needs a socket; nobody catches the exception.
RunOnceThrows ==
  /\ pc = "idle" /\ ~initial /\ config # None /\ SocketMissing
  /\ Goto("aborted")
  /\ UNCHANGED <<reader, heap, disk, ghosts>>

-----------------------------------------------------------------------------
(* The operator.                                                           *)

\* Lines are read from the file as it was opened, so the steps of the operator
\* are only interleaved with the first of them.
MayAct == pc \notin Dead /\ (pc = "reading" => at = 0)

Edit ==
  /\ MayAct /\ edits < MaxEdits
  /\ \E f \in File : disk' = f
  /\ edits' = edits + 1
  /\ UNCHANGED <<reader, control, heap, requested, loaded, result, dropped>>

\* SIGHUP, or {"do":"reload"} of a plugin.  Before d is set the handler's
\* assertion fails.
Hangup ==
  /\ MayAct /\ requested < edits
  /\ IF pc = "starting" THEN pc' = "aborted" /\ UNCHANGED pending
     ELSE pending' = TRUE /\ UNCHANGED pc
  /\ requested' = edits
  /\ UNCHANGED <<reader, initial, heap, disk, edits, loaded, result, dropped>>

Over == pc \in Dead /\ UNCHANGED vars

Load ==
  \/ Reload \/ ReadLine \/ ReadEnds
  \/ DeleteCrashes \/ CreateDb \/ CreateDbThrows \/ OpenDatabase \/ OpenFails \/ OpenThrows
  \/ SetDatabase \/ ConfigReloaded \/ ConfigRejected
  \/ AddNetworks \/ DropNetworks \/ CountInits
  \/ Destroy

Service == PropertyRequestCrashes \/ Refer \/ Forget \/ RunOnceThrows

Next == Construct \/ Load \/ Service \/ Edit \/ Hangup \/ Over

Spec == Init /\ [][Next]_vars

FairSpec == Spec /\ WF_vars(Construct) /\ WF_vars(Load)

-----------------------------------------------------------------------------
(* Properties.                                                             *)

TypeOK ==
  /\ pc \in Dead \union {"starting", "idle", "reading", "connect", "open", "comm",
                         "monitor", "networks", "drop", "numinits", "ending"}
  /\ {pending, initial, isRead} \subseteq BOOLEAN
  /\ databases \in [DatabaseAt -> {"free", "raw", "open"}]
  /\ {database, commDatabase} \subseteq DatabaseAt \union {Null}
  /\ Cardinality({a \in DatabaseAt : databases[a] # "free"}) <= 1
  /\ section \in Sections \union {"root"}
  /\ outcome # "unread" => section \in DOMAIN progress
  /\ outcome \in {"unread", "reading", "read", "exception", "abort"}

\* What ConfigReader publishes is what the file declares, whatever was read
\* before it: options where they belong, networks with the names in force where
\* they open, nothing left over from an earlier read.
ConfigIsDeclared == isRead /\ Nested(file) => config = Declared(file)

\* read() refuses only files that are not well-formed; it accepts others only
\* where a network holds the start of another section, which is ignored.
WellFormedIsRead ==
  /\ outcome \in {"exception", "abort"} => file = Missing \/ ~WellFormed(file)
  /\ outcome = "read" =>
       \/ Nested(file)
       \/ \E i \in 1 .. Len(file) :
            file[i].call = "open" /\ file[i].what # "server" /\ Inside(file, i) = "network"

\* After a load that succeeds, PluginComm works on the database that is open and
\* the networks are those of the configuration.
LoadedIsConsistent ==
  pc = "idle" /\ result = "ok" =>
    /\ databases[database] = "open" /\ commDatabase = database
    /\ Names(networks) = Configured

\* However a load ended, if there is an open database PluginComm works on it.
CommFollowsDatabase ==
  pc = "idle" /\ database # Null /\ databases[database] = "open" => commDatabase = database

\* networks_ has each name and each object once, no deleted object, and every
\* Network that exists, even between the steps of a reload.
NetworksOwned ==
  /\ \A m, n \in networks : m.name = n.name \/ m.at = n.at => m = n
  /\ objects = {n.at : n \in networks}

\* What plugins refer to stays valid over any reload that keeps the network:
\* only networks that were dropped leave pointers behind.
ReferencesStayValid == \A r \in references : r.name \notin dropped => r \in networks

\* A SIGHUP is never lost: the file as it was when the signal came, or a later
\* one, is read, also if the signal comes during a load.
ReloadHonoured ==
  \A e \in 1 .. MaxEdits : requested = e ~> (loaded >= e \/ pc \in Dead)

\* DaZeus "provides a configuration, database and IRC interface through UNIX and
\* TCP sockets" (README.md:4): while it runs, PluginComm's database is open.
\* After a reload that fails in connectDatabase() it is a deleted one.
DatabaseServed == pc = "idle" /\ ~initial => databases[commDatabase] = "open"
=============================================================================
