# DaZeus in TLA+

DaZeus is an IRC bot whose features are plugins: processes that DaZeus starts,
restarts and stops, and that talk to it over sockets in a small JSON protocol.
The core is one thread around `select(2)`; what makes it hard are the things
that happen between two of its statements: signals, exiting children, bytes
that arrive in pieces, an IRC server that answers late or never, and reloads of
the configuration.

This directory holds TLA+ models of that core, the instances TLC checks, and
theorems checked by TLAPS. Paths are relative to the root of the repository.

## Inventory

| Component | Code | State | Operations | Hard behaviour | What makes it correct |
|---|---|---|---|---|---|
| Plugin monitor | `src/src/pluginmonitor.*`, `main.cpp` | `state_` (pid, failures, last start, autostart per plugin), `should_run_`, the signal mask, the process table | `configReloaded`, `kill_plugins`, `runOnce`, `start_plugin`, destructor, `SIGCHLD`/`SIGHUP` handlers | a child dies at any statement; `runOnce` is re-entered from `kill_plugins`; exceptions; time | no child is lost or started twice, plugins are kept running, held back after failures, stopped when removed |
| Command queue | `src/src/plugincomm.*` | `commandQueue_`, per socket the command requirements, WHOIS requests under way | `messageReceived`, `flushCommandQueue`, WHOIS events, `subscribe`, `command`, `whois` requests | answers come late, for another network, or not at all; subscriptions change meanwhile | filtered commands only for identified senders, in order, and none stays for ever |
| Plugin sockets | `src/src/plugincomm.*` | `sockets_`: read-ahead, announced size, write buffer, subscriptions, handshake | `run`, accept, `poll`, `dispatch` | packets in pieces, short writes, hang-ups, events caused while a *copy* of the socket is worked on | requests answered once and in order, events not lost |
| Plugin requests | `PluginComm::handle` | none of its own | 18 actions | exceptions halfway | one answer each |
| DaZeus | `src/src/dazeus.*` | database, networks, `running_`, pending reload | `run`, `loadConfig`, `connectDatabase`, `stop` | a reload that fails halfway; a SIGHUP during a load | nothing deleted stays referenced, no reload is lost |
| ConfigReader | `src/src/config.*` | the section being read | `read`, section callbacks | sections nested wrongly or never closed | either a complete configuration or an exception |
| Property store | `src/src/db/*` | tables `properties` and `permissions` | property get/set/keys, permission has/set/unset | fallback over four scopes, three backends | all backends answer alike |
| Schema upgrade | `sqlite.cpp`, `postgres.cpp` | schema version | `bootstrapDB`, `upgradeDB` | a crash between two statements | `open` works after any crash |
| Argument splitting | `start_plugin`, `messageReceived` | none | two word splitters | escapes, quotes, `%` | what the sample configuration says |
| Database factory, JSON wrapper | `db/factory.h`, `jsonwrap.*` | none | `createDb` | | `createDb` is a step of `DaZeus`; the wrapper is not modelled |
| IRC network | `contrib/libdazeus-irc`, a submodule not in the repository | | | | external; modelled from its use |

They interact by calls in one thread: `DaZeus::run` calls `runOnce` of the
monitor and `run` of PluginComm in turn and reloads the configuration between
the two; PluginComm calls `poll`, networks call `ircEvent`, which fills the
command queue and the write buffers; `handle` calls networks and the database.
Only the signal handlers cut in: they set `should_run_` and a reload flag. A
load reads the file, replaces the database, tells PluginComm and the monitor,
and creates and deletes networks, whose addresses PluginComm keeps in command
requirements and in the queue.

`PROJECT.json` lists every hazard found in this code with its line and the
properties that watch it.

## Modules

| Module | What it is |
|---|---|
| `PluginMonitor`, `MCPluginMonitor`, `PluginMonitor_proofs` | the monitor with signals, processes and time, and an observer; symmetry; its theorems |
| `CommandQueue`, `MCCommandQueue`, `CommandQueue_proofs` | the queue of commands and the WHOIS answers; instances; its theorems |
| `PluginChannel` | the abstract specification of a plugin's connection |
| `PluginSocket`, `MCPluginSocket`, `PluginSocket_proofs` | `run` and `poll`, shown to implement `PluginChannel`; symmetry; lemmas about bytes, theorems |
| `ScopedStore` | the abstract specification of properties and of permissions |
| `Database`, `SqliteStore`, `PostgresStore`, `MongoStore` | the tables the backends share, and one module for each |
| `StoreRequests`, `MCStoreRequests`, `StoreRequests_proofs` | the requests on top of whichever backend is configured, with crashes; shown to implement `ScopedStore` as far as they do; theorems about the schema and SQLite's permissions, and about the tables |
| `ConfigFile`, `ConfigReader`, `ConfigReader_proofs` | configuration files and what they declare; the reader as a state machine; lemmas about its steps |
| `DaZeus`, `MCDaZeus`, `DaZeus_proofs` | loading and reloading on top of `ConfigReader`; files of the instances; theorems |
| `Arguments`, `MCArguments`, `Arguments_proofs` | the two loops that cut strings into words; their characters; theorems |
| `Ranks`, `Ranks_proofs` | the numbers of a set in ascending order; lemmas about them, and induction |

Operators called "Mutant" in a comment are used by no action: each is a
definition with a plausible bug, for which the property it is meant for fails.

### PluginMonitor

`pc` is the next statement of the thread (the table at the head of the module).
`runOnce` is one action per phase: test of `should_run_` (`ReturnEarly`,
`Enter`), the `wait4` loop (`Reap`, `ReapDone`), the loop over `state_` (`Skip`,
`Hold`, `Launch`, `LaunchFails`, `LaunchThrows`), the assignment to
`should_run_` (`Assign`) and the unblocking of the signal (`Unblock`).
`kill_plugins` is `StopGracefully`, `StopHard` with a call of `runOnce` after
each; `caller` says where `Return` goes on. `configReloaded` up to
`kill_plugins` is `ConfigReloaded` or, if a name is repeated, `ConfigRejected`.
The kernel is `proc` (free, running, sent SIGKILL, zombie), one bit for a
pending `SIGCHLD` (signals do not queue) and one for the mask. `last_start` is
kept as the time since (`since_start`), which `Tick` advances to a cap above
which the code no longer tells values apart. The failures of a plugin are
counted in full; a bound in `Exit` and `LaunchFails` stops the plugin from
failing again.

An observer checks the promise of the class comment, that a plugin which keeps
failing is restarted at longer and longer intervals. It has a clock of its own
and sees what can be seen from outside: attempts to start a plugin, processes
waited for, reloads. `history` is how many attempts the present series has and
how long ago the first and the last were made, for the plugins in `Observed`
(none where no property is about it); it reads neither `num_failures` nor
`last_start`, so that both, and the hold made of them, are checked by it.

Left out: the text of paths and parameters (the sanity checks of `start_plugin`
are the choice between `Launch`, `LaunchFails` and `LaunchThrows`; how it splits
parameters is in `Arguments`), and logging.

### CommandQueue

One action is one call of `ircEvent` or of `handle`, since one thread runs them
to the end. `waiting` is `commandQueue_` (as numbers of arrival, which keeps the
order), `whoisSent` the flag of its entries, `asked` the WHOIS requests on
their way, `identified` what the networks know. `Flush` and `Forwarded` are the
loop of `flushCommandQueue`; its two parts, holding commands back and
forwarding them, are separate operators over the same condition `HoldsBack`.
`WhoisReceived` is the answer of the server: the network stores it, plugins get
the event, the queue is flushed. Networks are fixed here; what a reload does to
a queued command's `Network&` is in the module `DaZeus`.

### PluginSocket and PluginChannel

`PluginSocket` has one action for each thing `poll` does with a socket: `Visit`
copies the `SocketInfo`, `Read` appends what `read(2)` yields, `ParseSize`,
`ParseDone`, `Handle` and `HandleMessage` are the loop over packets, `Write` and
`WriteFails` empty the buffer as far as the kernel lets them and store the copy
back, `Erase` removes closed sockets. Bytes are tokens: digits, the brace, the
rest of a packet. The base of numbers is a parameter so that a size of two
digits belongs to a packet of three bytes.

A plugin may send at any time a poll could notice and hang up in two ways: the
end of the stream, or `POLLHUP`, which `poll` sees before it reads. While
packets are parsed nothing outside is interleaved, because those steps touch
only the copy.

`PluginChannel` says what `src/misc/protocol.dox:52` says: answers in the order
of the requests, events in between. Its refinement mapping takes the copy as
the state of the socket being visited, and what was written plus what is
buffered as what the plugin was told. The abstraction had to admit one
exception, which is visible in `Answer`: if the network raises the event for a
message (`PRIVMSG_ME` and the like) while `handle` runs, the plugin that sent it
does not get that event, because its buffer is overwritten by the copy
(`plugincomm.cpp:385`). Whether the network does so is up to the external
library, so this is stated, not counted as a bug. Which requests succeed
(`HandshakeOutcome`, `ConfigOutcome`) is the same in both modules, as the protocol
describes none of the conditions: a handshake with its parameters and version 1,
once; `config` for the plugin's group after it, for that of DaZeus at any time, for
no other group. What is shown is when each is answered, and in which state of
the connection.

### ScopedStore, Database, the backends and StoreRequests

The tables `dazeus_properties` and `dazeus_permissions` are sets of rows; a
location is a triple of network, receiver and sender, with `Empty` for the empty
string (`null` in MongoDB). Every backend module has one operator per method of
class `Database`, translated from its SQL or its BSON: which rows a get selects,
what its `ORDER BY` prefers (`Before`; the order of two names is left open, so
`FirstOf` is a set of possible answers), which row a set replaces, deletes or,
in PostgreSQL, inserts with exchanged fields. `open` is one action per statement
of `upgradeDB`: in SQLite each commits by itself, in PostgreSQL `uncommitted` is
lost by a crash (`Close`). `StoreRequests` chooses the backend, computes the
scope from the array of a request as `handle` does (more than three names are
none for a property and cut off for a permission), and keeps as ghosts what
requests asked to be stored (`set`, `permitted`).

`ScopedStore` is what the protocol promises (`protocol.dox:217-283`): names have
values in scopes, and a request is answered from the closest one, or, if no
scope has a value, as the request says: a get without a value, a `has` with the
default it gave. Two refinements hold and are checked: SQLite implements it for
properties, MongoDB for permissions. The others do not, and the invariants say
what is left: MongoDB answers gets with all three names (`FullScopeGets`),
PostgreSQL those without receiver and sender (`NetworkGets`), SQLite grants what
was granted in the same scope and answers with the default where nothing is set
(`SqliteGrants`); it knows neither denial nor wider scopes (`DenialsHold`,
`WiderGrantsHold` state what the protocol promises, and fail). PostgreSQL cannot
answer `has` at all, as it executes a statement it never prepared
(`postgres.cpp:235`).

A name of a property is its namespace and the rest. The backends select names by
their first letters, so `Longer` says which namespaces are the beginning of which
(`StartsWith`). MongoDB answers a request for keys with the rests (`Cut`), the SQL
backends with whole names: `SqliteKeys` is what SQLite lists, `KeysAreDocumented`
what it should, and fails.

A scope may name a sender without a receiver, or have an empty name: `handle` makes
one of every element that is no string. Which of "the sender, in any channel" and
"anybody in this channel" is closer the protocol does not say; `ScopedStore` allows
either. MongoDB assumes there are no such gaps (`mongo.cpp:167-169`, `NoGaps`).

Assumed: no request uses the key `dazeus_version`, and none asks for the keys of a
namespace that is itself the name of a property. A statement that fails is
`RequestFails`, an answer without effect. `QueriesFail` lets the queries of MongoDB
fail, which it takes for empty results; it is off in the runs.

### ConfigFile, ConfigReader and DaZeus

A file is a sequence of the calls dotconf makes: sections opened and closed,
options. `ConfigReader` has one action per callback; `section` is
`current_section`, `progress` the six `..._progress` optionals (a function on
those that hold something), `outcome` how `read()` ended: with a configuration,
an exception, or a failed assertion. `ConfigFile!Declared` says by positions in
the file what it declares, and `Nested` which files are meant; the two do not
know the reader.

`DaZeus` is `loadConfig` with one action per call that may fail, with the heap:
`databases` is the state of the object at each address (free, raw, open),
`objects` the addresses of networks; addresses are handed out again. Of
PluginComm it has the pointers it keeps (`commDatabase`, `references`). After
any failure the thread is back in `run` with what was done so far, as in the
code. `dropped` remembers for which referenced networks a reload has deleted the
object. The operator edits the file, and SIGHUP (or the request `reload`) comes
between any two steps; while lines are read only before the first, since a file
is read as it was opened. A database that does not open is `OpenFails`;
`OpenThrows` is the one exception that `connectDatabase` does not catch, the
`std::stoi` of SQLite's version (PostgreSQL turns those of its library into
`db::exception`, `postgres.cpp:54-62`), and ends the program. What the monitor
does with its configuration is `PluginMonitor`; here `configReloaded` is
accepted or throws, by the same condition on names.

Left out: trimming, booleans of options, the sockets `init` opens, and what
`Network` does when it is told to disconnect.

### Arguments

One step is one round of a loop. A character is a value; what replaces `%s` and
`%n` is one character, or none for the network of a global plugin. `Words` is
the reference: where words begin, end and what each character adds, said by
positions (after how many backslashes, within which quote). It is a function of
the string alone, so it says of any part of a message, too, what its words are.
In parameters it gives backslashes and `%%` the meaning that
`dazeus.plugin.sample.conf:28-32` gives them, not what the code makes of them.
`rest` is what `messageReceived` keeps for `fullArgs`: whether the first word
has ended, and the characters since.

## Runs

| Run | Instance | Shows |
|---|---|---|
| `monitor_safety` | 2 plugins, 2 pids, 1 failure | pids and children correspond, no child or plugin is overlooked, removed plugins are stopped, dead children are reaped, plugins restarted |
| `monitor_faults` | 2 plugins, 2 pids, 3 failures, one makes `start_plugin` throw, names repeated | the inductive invariant survives both; failures in a row are spread out as the class comment says |
| `queue_safety` | 2 users, 1 network, 1 plugin, 2 commands, fair server | filter on the sender, WHOIS bookkeeping, every command leaves |
| `queue_networks` | 2 plugins, 2 networks, 1 user, 2 commands, broken connections | order |
| `queue_filter` | 1 plugin, 2 networks, 1 user, 1 command | finding: an answer on another network releases a command |
| `socket_events` | 2 plugins, 2 packets, 2 events | `PluginSocket` implements `PluginChannel` |
| `socket_answers` | 1 plugin, 2 packets of every kind | the same with packets that are no requests; requests are answered |
| `store_backends` | each backend, 1 key, 2 values, 1 permission, 6 arrays, 2 namespaces, 3 writes, 1 crash or reload | schema complete when open, which upgrades can be torn, the two refinements, and what holds of the other backends |
| `store_postgres` | PostgreSQL, 1 write | finding: what is set for a receiver is not found |
| `reload` | 16 files (5 well-formed, 1 missing), 2 edits, 2 addresses each | what is read is declared, refused files are broken, networks are neither leaked nor freed twice, references survive, no SIGHUP is lost |
| `reload_database` | 3 files | finding: plugins are served by a deleted database |
| `arguments` | all messages of 6 and parameters of 5 characters | the loops against the definition of words |

### Bounds, and why they are enough

* Monitor: two plugins let one die while the other is visited, waited for or
  killed; a third adds no new pair. A pid is handed out again as soon as it was
  waited for, also to the other plugin, which is the worst case for a pid that
  was kept. In `monitor_safety` one failure gives a hold; how long it is does
  not matter there. In `monitor_faults` `MaxFailures` 3 passes the first hold,
  the doubled one and the limit (1, 2 and 3 units), and `SinceCap` lies past
  `ResetFailure`, so failures are also forgotten; `HistoryCap` lies past the
  longest series. `Quantum` is the step of the clock.
* Queue: two commands are what an order needs; two users or two networks are
  what an answer for the wrong one needs. One WHOIS request of each plugin
  itself is under way at a time, enough to have an answer for a nick without a
  command waiting for it. One command on two networks is what `queue_filter`
  needs. Filters on a channel are in the theorems only.
* Sockets: two packets put the end of one and the start of the next into the
  same read, at every cut; a connection that ends can be followed by another on
  the same descriptor. `socket_events` leaves out the three kinds of broken
  packets, which need no second plugin.
* Store: the scopes are all levels of one branch, a second network and an array
  with a name too many. Three writes are what it takes to have two rows of one
  location in PostgreSQL, or a value in two scopes and one of them unset; only
  `keys` looks at several names, by what they begin with: it is asked for a
  namespace and for the beginning of one. Scopes with gaps are in the theorems
  only. One close puts a crash between any two steps of an upgrade, which the
  next `open` then finds.
* Reload: two edits give three loads with any files in any order: a load, one
  that fails, and one after it. Two addresses are as many as the files have
  networks at a time, so a freed address is handed out at once, which is the
  worst case for a pointer that was kept. Files are as long as the case they are
  there for; well-formed ones have every kind of section.
* Arguments: six characters hold two quoted words or an escape within a quote;
  the alphabet has every character the loops tell apart and one they do not.

No run disables the deadlock check.

### Fairness

* `PluginMonitor`: weak fairness of the thread, of the delivery of a pending,
  unblocked signal, of the clock, and of death by SIGKILL. `DaZeus::run` is an
  endless loop whose `select` has a timeout of at most 30 seconds
  (`dazeus.cpp:241`), so the thread always goes on; the rest is the kernel's
  promise. Nobody has to reload, and a plugin may ignore SIGINT for ever.
* `CommandQueue`: each WHOIS is answered if its connection stays up. `Lossy`
  withdraws just that.
* `PluginSocket`: weak fairness of the thread only. A plugin need not send,
  read or leave.
* `DaZeus`: weak fairness of the start of `main` and of the steps of a load,
  which the thread takes without waiting for anybody; `run` comes back to the
  test of the flag since `select` has a timeout. Nobody has to edit or signal.

## Proofs

Nothing is assumed but the constants' assumptions in the modules and what a
theorem states as its hypothesis; all holds for any sets of plugins, pids,
networks, users and for any bounds.

The provers know no induction over operators. What needs it is proved by the
least counterexample (`LeastOf` in `Ranks_proofs`, from the library's theorem
that `<` is well-founded on `Nat`); functions defined by recursion are shown to
exist by building them up to n (`RecursionExists`, `WithinExists`).

**PluginMonitor_proofs.** The invariant `IInv` is inductive (`Inductive`).
`NoLostChild` alone is not: `Assign` overwrites `should_run_`, and only
`MaskedWhileProcessing` (the signal is blocked since before the `wait4` loop, so
a child that died after the loop has left its signal pending) says why that
loses nothing. `NoForgottenPlugin` needs `NeedyIsCovered`: a plugin without a
process is still to be visited or was remembered in `waiting_plugin`.
`OnlyConfiguredRun` and `ReloadStops` need `RemovedAreStopping`: a running plugin
the configuration no longer names is a victim that SIGKILL has yet to reach.
The last two, and `NoForgottenPlugin`, are proved under the hypotheses the
findings show to be necessary: no name is repeated (`~DuplicateNames`) and
`start_plugin` does not throw (`Throwing = {}`). `PidTable`, `NoLostChild` and
`TypeOK` need neither.

**CommandQueue_proofs.** `TypeCorrect`, `WaitingIsAskedCorrect` (if no
connection breaks), `InOrderPerSenderCorrect`, and `SenderVerifiedCorrect` for a
single network, without which it does not hold (`queue_filter`). The order is an
invariant because two commands of the same source are held back under the same
condition (`HoldsBack` depends on the source only), so a flush takes both or
neither.

**StoreRequests_proofs, the schema.** `OpenIsCompleteCorrect` and
`OpenFailsCorrect` share the invariant `SchemaInv`: how far the loop of
`upgradeDB` has come relates to how many tables exist, in SQLite with what is on
disk, in PostgreSQL with the transaction only; without it nothing says that the
version that is stamped is the one of the schema. `SqliteGrantsCorrect` needs
`GrantsInv`, which ties the rows of the table to what requests asked for. They
hold for any names, scopes, numbers of calls and of crashes.

**DaZeus_proofs.** For any files, any number of reloads and failures at any step:
`CommFollowsDatabaseCorrect` (by `CommIsTold`: only between `open` and
`setDatabase` may the pointers differ), `ReferencesStayValidCorrect`,
`NetworksOwnedCorrect` (inductive by itself; the lemmas for adding and dropping
say why addresses stay distinct), and `LoadedIsConsistentCorrect`, by `LoadInv`,
which follows a load from one step to the next. These do not depend on what a
file means, the next two are about nothing else: `ConfigIsDeclaredCorrect` and
`WellFormedIsReadCorrect`, for every file. `ConfigFile` speaks of positions in a
whole file and the reader works line by line, so the invariant (`ReaderInv`, in
`ConfigReader_proofs`) speaks of prefixes. `ControlInv`: as long as no network
ignored the start of a section, `current_section` is what `Inside` says of the
next line and the optionals that are set are the sections the first n lines
opened. `ContentInv`: each of them holds what the first n lines declare of it
(`Built`). The step lemmas say how each definition by positions grows with one
line; that a section is appended at the end of the list needs the rank of the
newest position (`InOrderAdd`). `FileAssumption` says that sections bear names
dotconf has registered (`config.cpp:48-58`), since it calls no callback for
others. `TypeCorrect` needs `OnlyOne`: an address of a database is handed out only
after the object that had it was deleted.

**PluginSocket_proofs.** `IInv` is an invariant over bytes: of the packets a plugin
sent on this connection, laid out one after the other (`Layout`), what is in
`readahead` and behind it in the kernel is exactly the rest from where the
packets that were answered end, short of the announcement if `waitingSize` is set
and with or without the newline of the packet before (`IsRest`). It says nothing
of how the bytes were cut, so reading is a step that preserves it by itself, and
it ties the parser to the answers: the number of answers in what a plugin was
told is the number of packets consumed. TLC checked `IInv` first, on the instance
of `socket_events`. From it follow `TypeCorrect`; `PacketsAreCutRight`, that a
packet `poll` takes to be complete is the packet whose turn it is; and
`ImplementsChannelCorrect`, the refinement of `PluginChannel` for any number of
plugins, packets, events and any base of numbers. The lemmas about bytes say where the
first brace of a rest is, and what number `s >> waitingSize` makes of what is
before it.

**StoreRequests_proofs, the tables.** `TypeCorrect` holds the primary keys of
every backend's tables. The refinements need invariants that say what the rows
are: `PropertyRows` and `PermissionRows` tie the table to the ghosts `set` and
`permitted`. In SQLite every scope has its row where it should be, and the first
row by `ORDER BY` is that of the longest prefix with a value
(`SqliteImplementsCorrect`); that this is a closest one, also with gaps, follows
from `ORDER BY`, and that a get without any row has no value from there being
none. A request for keys reads the rows of its own scope, so it lists what is
set there (`SqliteKeysCorrect`). In PostgreSQL rows are right only in locations
in which exchanging the fields changes nothing (`Sound`), and a get for a
network selects only such ones (`NetworkGetsCorrect`). For MongoDB,
`FullScopeGetsCorrect` and `MongoImplementsCorrect` have the hypothesis
`QueriesFail = FALSE`: the code takes a failed query for an empty result, and
with `QueriesFail = TRUE` TLC refutes both. The former also assumes `NoGaps`.
`MongoImplementsCorrect` goes through the modes `hasPermission` tries in turn:
the first with an answer has the closest scope, and only if none has one the
default of the request is returned.

**Arguments_proofs.** The loops against `Words`, for strings of any length. `Follow`
says what the first n characters amount to: the words that have ended, what the
next one has so far, and whether it has quotes. Its lemmas say how that changes
with one character, be it within a word, at a break or at the end; they need that
`Escaped` and `Within`, which look back over the string, can be stepped, too
(`EscapedNext`, `WithinSteps`). `MessageInv` is then that `args`, `stringBuilder` and
the flags are those of the first `at - 1` characters (`MessagesAreCutRight`).
`RestInv` has a second copy of it for `RestIsCutAlike`: from the first character
after the blanks on, the loop does to all but the first argument what it would do
if the rest were the whole message; that trimming `fullArgs` gives just this rest is
`TrimmedIs`. `Splits` is the counterpart for parameters: there a closing quote ends
an argument at once, before the space at which `Words` ends it
(`ParametersAreCutRight`, for strings in which quotes end where words do and nothing
is to be taken literally; `NothingEscaped` and `ReplacedIs` say what is left of the
reference then). TLC checked `TextInv`,
`MessageInv` and `RestInv` first, on the instance of `arguments`.

**Only model-checked.** Every safety property of a passing run is a theorem,
some under the hypotheses named above, except `RestartsSpreadOut`, which
compares an observer's sums of holds with the counts of the monitor. What else
remains with TLC is liveness (`ChildrenReaped`, `PluginsRestarted`,
`CommandsLeave`, `RequestsAnswered`, `ReloadHonoured`), and with it everything
about `ENABLED`: out of TLAPS' reach.

## Findings

With a run:

* `postgres.cpp:91`: a property that is set for a receiver is inserted as one of a
  sender, and no get finds it (`store_postgres`; `protocol.dox:191`, `224`).
* `plugincomm.cpp:426`, `453`: an answer to a WHOIS is matched by nick, not by network,
  so it releases commands of another user of that nick (`queue_filter`;
  `protocol.dox:175-176`).
* `dazeus.cpp:79`: a reload whose database cannot be created or opened leaves
  PluginComm with a deleted one (`reload_database`; `README.md:4`).

Without a run, each seen in the models and reproduced by the constants given:

* `pluginmonitor.cpp:416`: `5 * (1 << (num_failures - 1))` overflows `int` from the
  30th failure on, and the plugin is tried again without any hold, where
  `pluginmonitor.h:28-31` promises longer intervals. `RestartsSpreadOut` with one plugin
  that never starts (`Pid = {}`), `BaseWait = 5`, `MaxWait = 300`,
  `ResetFailure = 3600`, `GraceSeconds = 2`, `Quantum = 300`, `MaxFailures = 36`
  and `Observed = Plugin`.
* `pluginmonitor.cpp:106`: a configuration rejected halfway leaves plugins marked
  to run which nothing starts until another child dies. `PluginsRestarted` with
  `DuplicateNames = TRUE`.
* `pluginmonitor.cpp:141`: the destructor kills plugins through `runOnce`, which
  starts them again (`Stopped`, which `ReloadStops` states for reloads only). In
  this program nothing calls `DaZeus::stop`, so no plugin is running by then.
* `plugincomm.cpp:427`: a WHOIS is sent once; if its answer is lost the command
  waits for ever, also for plugins that do not filter. `CommandsLeave` with
  `Lossy = TRUE`.
* `sqlite.cpp:132`: a crash between the first `CREATE TABLE` and the version makes
  every later `open` fail (`OpenFailsOnlyAfterTornUpgrade` says that it is the only
  such case).
* `sqlite.cpp:346`, `postgres.cpp:248`: the boolean of a permission is not stored,
  so setting it to false grants it, contrary to `protocol.dox:272-276`. `DenialsHold`
  with `Backend = {"sqlite"}`.
* `sqlite.cpp:301`: what is granted to a network is not granted to its users, contrary
  to `protocol.dox:263-270`. `WiderGrantsHold` with `Backend = {"sqlite"}`.
* `sqlite.cpp:285`: `keys` answers with whole names, also of longer namespaces, contrary
  to `protocol.dox:207-215`. `KeysAreDocumented` with `Backend = {"sqlite"}`.
* `sqlite.cpp:159`: a `dazeus_version` that is no number ends the program when the
  database is opened (`OpenThrows`).
* `postgres.cpp:235`: the prepared statement is asked for under another name (its
  first letter is not an h), so `has` always fails.
* `mongo.cpp:196`: a get without a sender may be answered with what was set for
  some sender, because the fields below the first empty one are not restricted.
  `GetReturnsClosest` with `Backend = {"mongo"}`.
* `mongo.cpp:228`, `371`: a failed query is taken for an empty result; with
  `QueriesFail = TRUE` even permissions are answered by their default.
* `config.cpp:120`: a section that is not closed ends the program by an assertion,
  where `config.h:83` announces an exception (`outcome = "abort"`).
* `config.cpp:380`: `Scope Global` after `Scope Network` has no effect; `ConfigFile`
  declares it so (`SetsNothing`).
* `pluginmonitor.cpp:232`: `in_escape` is never set, and `%%` stays as it is, although
  `dazeus.plugin.sample.conf:28-32` promises both. `EscapesAreHonoured` with
  parameters of two characters, `\\'`. Also, `"a"b` is two arguments.
  `ParametersAreWords` is about strings whose quotes end where words do and in which
  nothing is to be taken literally.
* `dazeus.cpp:232`: `runOnce` throws outside any `try` if a plugin with `%s` is due and
  no socket is configured (`RunOnceThrows`).
* An exception out of `start_plugin` below `configReloaded` leaves `SIGCHLD` blocked
  until the next full `runOnce` (`LaunchThrows`; nothing is lost, as `monitor_faults`
  shows).

## Not modelled

* `jsonwrap.*`: reference counts of the jansson library, one constructor and one
  destructor call each.
* `PluginComm::init` and the opening of listening sockets: system calls made once
  at the start, without state afterwards but the descriptors `PluginSocket` has.
* `Network`: it is in a submodule that is not in the repository; what it does on
  its own (reconnecting, channels, nicks) cannot be read here.
* The texts of messages, paths and log lines; trimming of options; `main`'s parsing
  of its arguments.

## What remains

The plan of the models and of the proofs is done. Worth composing: `CommandQueue`
with `DaZeus`, so that a WHOIS answer and the deletion of its network meet in one
model. Worth proving with it: `SenderVerified` on two networks under the hypothesis
that no two networks have a nick in common, since the code matches answers by
nick.
