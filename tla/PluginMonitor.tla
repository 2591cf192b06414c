---------------------------- MODULE PluginMonitor ----------------------------
(***************************************************************************)
(* The init-style plugin supervisor of src/src/pluginmonitor.cpp, driven   *)
(* by the loop of DaZeus::run (src/src/dazeus.cpp).                        *)
(*                                                                         *)
(* One thread runs the monitor.  It shares the flag should_run_ with the   *)
(* SIGCHLD handler, which may run between any two of its steps unless      *)
(* SIGCHLD is blocked, and the process table with the kernel, where plugin *)
(* processes exit whenever they like.                                      *)
(*                                                                         *)
(* pc says which statement the thread executes next:                       *)
(*   idle    DaZeus::run, between two iterations of its loop               *)
(*   stop    kill_plugins(), the loop that sends SIGINT                    *)
(*   sleep   kill_plugins(), in sleep(2)                                   *)
(*   kill    kill_plugins(), the loop that sends SIGKILL                   *)
(*   done    the statement after kill_plugins()                            *)
(*   check   runOnce(), the test of should_run_                            *)
(*   reap    runOnce(), the wait4() loop                                   *)
(*   start   runOnce(), the loop over state_ and the assignment after it   *)
(*   unblock runOnce(), sigprocmask(SIG_UNBLOCK)                           *)
(*   exited  ~PluginMonitor() has returned                                 *)
(*   aborted an exception left DaZeus::run or a destructor                 *)
(***************************************************************************)
EXTENDS Integers, FiniteSets

CONSTANTS
  Plugin,         \* the keys of state_: "name" or "name!network"
  Pid,            \* process ids the kernel may hand out
  NoPid,          \* the pid 0 of a plugin without a process
  BaseWait,       \* seconds held after the first failure (5 in the code)
  MaxWait,        \* PLUGIN_RUNTIME_MAX_WAIT_TIME (300)
  ResetFailure,   \* PLUGIN_RUNTIME_RESET_FAILURE (3600)
  GraceSeconds,   \* the argument of sleep() in kill_plugins (2)
  IntBits,        \* the width of int
  Throwing,       \* plugins given "%s" while no <Socket> is configured
  DuplicateNames, \* TRUE: a reloaded configuration may name a plugin twice
  Observed,       \* plugins of which an observer writes down when they are started
  Quantum,        \* bound: how many seconds pass in one Tick
  MaxFailures     \* bound: a plugin does not fail again past this count

ASSUME PidAssumption  == NoPid \notin Pid
ASSUME TimeAssumption ==
  /\ BaseWait \in Nat /\ MaxWait \in Nat /\ ResetFailure \in Nat
  /\ GraceSeconds \in Nat /\ Quantum \in Nat \ {0} /\ MaxFailures \in Nat
  /\ MaxWait <= ResetFailure
ASSUME FlagAssumption == 
  /\ Throwing \subseteq Plugin /\ Observed \subseteq Plugin /\ DuplicateNames \in BOOLEAN

VARIABLES
  known,           \* the keys present in state_
  will_autostart,  \* PluginState::will_autostart
  pid,             \* PluginState::pid
  num_failures,    \* PluginState::num_failures
  since_start,     \* time(NULL) - PluginState::last_start, capped
  proc,            \* the kernel's process table
  should_run,      \* should_run_
  pending,         \* a SIGCHLD is pending
  blocked,         \* SIGCHLD is in the signal mask
  pc,              \* next statement of the thread
  caller,          \* the call of runOnce() being executed
  teardown,        \* kill_plugins() was called by ~PluginMonitor()
  initial,         \* initial_config of DaZeus::run
  victims,         \* the argument of kill_plugins()
  todo,            \* plugins the loop over state_ has still to visit
  waiting,         \* waiting_plugin
  sleeping,        \* seconds left of sleep(2)
  configured,      \* plugins named by the configuration that is in force
  history          \* of the present series of attempts to start a plugin: how many,
                   \* and how many seconds ago the first and the last one were made

plugins == <<known, will_autostart, pid, num_failures, since_start, configured, history>>
signals == <<should_run, pending, blocked>>
frames  == <<caller, teardown, initial, victims>>
locals  == <<todo, waiting>>
vars    == <<plugins, proc, signals, pc, frames, locals, sleeping>>

-----------------------------------------------------------------------------
(* Time and the hold between two starts.                                   *)

SinceCap == ResetFailure + 1

Smaller(a, b) == IF a < b THEN a ELSE b

\* The largest int, written so that no intermediate value exceeds it.
IntMax == 2^(IntBits - 2) - 1 + 2^(IntBits - 2)

\* 1 << n.
Shifted[n \in Nat] == IF n = 0 THEN 1 ELSE 2 * Shifted[n - 1]

\* 5 * (1 << (n - 1)) is not an int.
Overflows(n) == n - 1 > IntBits - 2 \/ BaseWait > IntMax \div Shifted[n - 1]

\* The values wait_seconds may have after n failures.  A signed overflow is
\* undefined: any int may result, and what exceeds the maximum is clamped.
WaitSeconds(n) ==
  IF n = 0 THEN {0}
  ELSE IF Overflows(n) THEN 0 .. MaxWait
  ELSE {Smaller(BaseWait * Shifted[n - 1], MaxWait)}

-----------------------------------------------------------------------------
(* What the observer writes down.  It sees attempts to start plugins,      *)
(* processes waited for, reloads and the clock, but neither num_failures   *)
(* nor last_start.                                                         *)

HistoryCap == MaxWait * MaxFailures

NoAttempts == [attempts |-> 0, first |-> 0, last |-> 0]

\* The configuration names the plugins S, which start afresh.
Forget(S) ==
  history' = [p \in Observed |-> IF p \in S THEN NoAttempts ELSE history[p]]

\* p is started, or starting it fails.
Attempt(p) ==
  history' = [q \in Observed |->
    IF q # p THEN history[q]
    ELSE [attempts |-> history[q].attempts + 1,
          first |-> IF history[q].attempts = 0 THEN 0 ELSE history[q].first,
          last |-> 0]]

\* Process c is waited for.  If it has run for so long that its end has nothing
\* to do with the failures before it, a new series begins with its start.
SeriesEnds(c) ==
  history' = [p \in Observed |->
    IF pid[p] = c /\ history[p].last > ResetFailure
    THEN [attempts |-> 1, first |-> Smaller(history[p].last, HistoryCap),
          last |-> history[p].last]
    ELSE history[p]]

Later(t) == Smaller(t + Quantum, SinceCap)

Elapse ==
  history' = [p \in Observed |->
    IF history[p].attempts = 0 THEN history[p]
    ELSE [attempts |-> history[p].attempts,
          first |-> Smaller(history[p].first + Quantum, HistoryCap),
          last |-> Later(history[p].last)]]

-----------------------------------------------------------------------------
ProcState == {"free", "running", "killed", "zombie"}

Init ==
  /\ known = {}
  /\ will_autostart = [p \in Plugin |-> FALSE]
  /\ pid = [p \in Plugin |-> NoPid]
  /\ num_failures = [p \in Plugin |-> 0]
  /\ since_start = [p \in Plugin |-> SinceCap]
  /\ proc = [c \in Pid |-> "free"]
  /\ should_run = TRUE
  /\ pending = FALSE
  /\ blocked = FALSE
  /\ pc = "idle"
  /\ caller = "run"
  /\ teardown = FALSE
  /\ initial = TRUE
  /\ victims = {}
  /\ todo = {}
  /\ waiting = FALSE
  /\ sleeping = 0
  /\ configured = {}
  /\ history = [p \in Observed |-> NoAttempts]

-----------------------------------------------------------------------------
(* DaZeus::run and what it calls.                                          *)

\* plugin_monitor_->runOnce() in the loop of DaZeus::run.
RunOnce ==
  /\ pc = "idle" /\ ~initial
  /\ pc' = "check"
  /\ UNCHANGED <<plugins, proc, signals, frames, locals, sleeping>>

\* What one entry of the configuration does to state_: its plugin is created,
\* or found and made to start again, with no failures.
Configure(S) ==
  /\ known' = known \union S
  /\ num_failures' = [p \in Plugin |-> IF p \in S THEN 0 ELSE num_failures[p]]
  /\ Forget(S)
  /\ UNCHANGED <<pid, since_start>>

\* Mutant: those that start automatically are left alone.
PluginsToKillManual(S) == {p \in known \ S : pid[p] # NoPid /\ ~will_autostart[p]}

\* The plugins configReloaded() has to stop when the configuration names S.
PluginsToKill(S) == {p \in known \ S : pid[p] # NoPid \/ will_autostart[p]}

\* configReloaded() up to its call of kill_plugins(), for a configuration that
\* names the plugins S once each.
ConfigReloaded(S) ==
  /\ pc = "idle"
  /\ Configure(S)
  /\ configured' = S
  /\ will_autostart' = [p \in Plugin |-> p \in S]
  /\ victims' = PluginsToKill(S)
  /\ pc' = "stop"
  /\ UNCHANGED <<proc, signals, caller, teardown, initial, locals, sleeping>>

\* Where an exception thrown below configReloaded() leads: loadConfig() catches
\* it and returns false, which ends DaZeus::run only for the first
\* configuration; main() then destroys everything, the plugins in state_ too.
LoadConfigFails(state) ==
  /\ pc' = IF initial THEN "stop" ELSE "idle"
  /\ teardown' = initial
  /\ victims' = IF initial THEN state ELSE {}
  /\ caller' = "run"
  /\ initial' = FALSE

\* configReloaded() for a configuration in which a name is repeated after the
\* plugins S: it throws when it meets the repetition.
ConfigRejected(S) ==
  /\ pc = "idle" /\ DuplicateNames /\ S # {}
  /\ Configure(S)
  /\ configured' = configured \union S
  /\ will_autostart' = [p \in Plugin |-> p \in S \/ will_autostart[p]]
  /\ LoadConfigFails(known \union S)
  /\ UNCHANGED <<proc, signals, locals, sleeping>>

\* DaZeus::stop() ends the loop and ~DaZeus destroys the monitor.
Shutdown ==
  /\ pc = "idle" /\ ~initial
  /\ pc' = "stop"
  /\ teardown' = TRUE
  /\ victims' = known
  /\ UNCHANGED <<plugins, proc, signals, caller, initial, locals, sleeping>>

-----------------------------------------------------------------------------
(* kill_plugins().                                                         *)

Remaining == {p \in victims : pid[p] # NoPid}

\* sleep(2), then runOnce() with the given continuation.
SleepThenRun(c) ==
  /\ pc' = "sleep"
  /\ sleeping' = GraceSeconds
  /\ caller' = c

\* SIGINT only asks: whether and when the process exits is its own choice.
StopGracefully ==
  /\ pc = "stop"
  /\ \/ Remaining # {} /\ SleepThenRun("grace")
     \/ Remaining = {} /\ pc' = "done" /\ UNCHANGED <<sleeping, caller>>
  /\ UNCHANGED <<plugins, proc, signals, teardown, initial, victims, locals>>

\* Mutant: kill_plugins() returns after the grace period.
StubbornNone == {}

\* The plugins the second round has to kill.
Stubborn == Remaining

\* SIGKILL cannot be refused, but the process dies some time later.
StopHard ==
  /\ pc = "kill"
  /\ \/ Stubborn # {} /\ SleepThenRun("kill")
     \/ Stubborn = {} /\ pc' = "done" /\ UNCHANGED <<sleeping, caller>>
  /\ proc' = [c \in Pid |->
       IF proc[c] = "running" /\ \E p \in Stubborn : pid[p] = c
       THEN "killed" ELSE proc[c]]
  /\ UNCHANGED <<plugins, signals, teardown, initial, victims, locals>>

Wake ==
  /\ pc = "sleep" /\ sleeping = 0
  /\ pc' = "check"
  /\ UNCHANGED <<plugins, proc, signals, frames, locals, sleeping>>

\* ~PluginMonitor() ends after kill_plugins().
Destroyed ==
  /\ pc = "done" /\ teardown
  /\ pc' = "exited"
  /\ victims' = {}
  /\ caller' = "run"
  /\ UNCHANGED <<plugins, proc, signals, teardown, initial, locals, sleeping>>

\* Mutant: should_run_ keeps its value.
ShouldRunKept == UNCHANGED should_run

\* should_run_ = 1.
SetShouldRun == should_run' = TRUE

\* The end of configReloaded(), which calls runOnce().
RunReloaded ==
  /\ pc = "done" /\ ~teardown
  /\ SetShouldRun
  /\ pc' = "check"
  /\ caller' = "reload"
  /\ victims' = {}
  /\ UNCHANGED <<plugins, proc, pending, blocked, teardown, initial, locals, sleeping>>

-----------------------------------------------------------------------------
(* runOnce().                                                              *)

\* The statement that follows the call of runOnce() being executed.
Return ==
  /\ pc' = CASE caller \in {"run", "reload"} -> "idle"
             [] caller = "grace" -> "kill"
             [] caller = "kill" -> "done"
  /\ initial' = (initial /\ caller # "reload")
  /\ caller' = "run"
  /\ UNCHANGED <<teardown, victims>>

ReturnEarly ==
  /\ pc = "check" /\ ~should_run
  /\ Return
  /\ UNCHANGED <<plugins, proc, signals, locals, sleeping>>

\* Mutant: SIGCHLD is not blocked.
BlockOmitted == UNCHANGED blocked

\* sigprocmask(SIG_BLOCK).
Block == blocked' = TRUE

Enter ==
  /\ pc = "check" /\ should_run
  /\ Block
  /\ pc' = "reap"
  /\ UNCHANGED <<plugins, proc, should_run, pending, frames, locals, sleeping>>

\* Mutant: the pid of a process that is gone is kept.
ReleasedNot(c) == pid

\* The pids after child c was waited for.
Released(c) == [p \in Plugin |-> IF pid[p] = c THEN NoPid ELSE pid[p]]

\* One round of the wait4() loop.  A plugin that has run for long enough has
\* its earlier failures forgotten.
Reap(c) ==
  /\ pc = "reap" /\ proc[c] = "zombie"
  /\ proc' = [proc EXCEPT ![c] = "free"]
  /\ pid' = Released(c)
  /\ num_failures' = [p \in Plugin |->
       IF pid[p] # c THEN num_failures[p]
       ELSE IF since_start[p] > ResetFailure THEN 1 ELSE num_failures[p] + 1]
  /\ SeriesEnds(c)
  /\ UNCHANGED <<known, will_autostart, since_start, configured,
                 signals, pc, frames, locals, sleeping>>

\* wait4() returns 0, or fails because there are no children.
ReapDone ==
  /\ pc = "reap" /\ \A c \in Pid : proc[c] # "zombie"
  /\ pc' = "start"
  /\ todo' = known
  /\ UNCHANGED <<plugins, proc, signals, frames, waiting, sleeping>>

Visit(p) ==
  /\ pc = "start" /\ p \in todo
  /\ todo' = todo \ {p}
  /\ UNCHANGED <<known, will_autostart, configured, signals, pc, frames, sleeping>>

Skip(p) ==
  /\ Visit(p)
  /\ ~will_autostart[p] \/ pid[p] # NoPid
  /\ UNCHANGED <<pid, num_failures, since_start, history, proc, waiting>>

Due(p) ==
  /\ will_autostart[p] /\ pid[p] = NoPid
  /\ \E w \in WaitSeconds(num_failures[p]) : since_start[p] >= w

\* Mutant: a plugin on hold is not remembered.
RememberNot == UNCHANGED waiting

\* waiting_plugin = true.
Remember == waiting' = TRUE

Hold(p) ==
  /\ Visit(p)
  /\ will_autostart[p] /\ pid[p] = NoPid
  /\ \E w \in WaitSeconds(num_failures[p]) : since_start[p] < w
  /\ Remember
  /\ UNCHANGED <<pid, num_failures, since_start, history, proc>>

\* start_plugin() forks a child.
Launch(p, c) ==
  /\ Visit(p) /\ Due(p) /\ p \notin Throwing
  /\ proc[c] = "free"
  /\ proc' = [proc EXCEPT ![c] = "running"]
  /\ pid' = [pid EXCEPT ![p] = c]
  /\ since_start' = [since_start EXCEPT ![p] = 0]
  /\ Attempt(p)
  /\ UNCHANGED <<num_failures, waiting>>

\* Mutant: the result of fork() is stored before it is tested.
LaunchFailsKeepsResult(p) ==
  /\ Visit(p) /\ Due(p) /\ p \notin Throwing
  /\ num_failures[p] < MaxFailures
  /\ pid' = [pid EXCEPT ![p] = -1]
  /\ since_start' = [since_start EXCEPT ![p] = 0]
  /\ num_failures' = [num_failures EXCEPT ![p] = @ + 1]
  /\ waiting' = TRUE
  /\ Attempt(p)
  /\ UNCHANGED proc

\* Mutant: last_start is assigned where the child was forked.
LaunchFailsUntimed(p) ==
  /\ Visit(p) /\ Due(p) /\ p \notin Throwing
  /\ num_failures[p] < MaxFailures
  /\ num_failures' = [num_failures EXCEPT ![p] = @ + 1]
  /\ waiting' = TRUE
  /\ Attempt(p)
  /\ UNCHANGED <<pid, since_start, proc>>

\* start_plugin() returns false: no directory, no executable, or no fork.
LaunchFails(p) ==
  /\ Visit(p) /\ Due(p) /\ p \notin Throwing
  /\ num_failures[p] < MaxFailures
  /\ since_start' = [since_start EXCEPT ![p] = 0]
  /\ num_failures' = [num_failures EXCEPT ![p] = @ + 1]
  /\ waiting' = TRUE
  /\ Attempt(p)
  /\ UNCHANGED <<pid, proc>>

\* getPluginSocket() throws out of start_plugin() and runOnce().  The exception
\* is caught only below loadConfig(); out of DaZeus::run or out of a destructor
\* it ends the program.
LaunchThrows(p) ==
  /\ pc = "start" /\ p \in todo /\ Due(p) /\ p \in Throwing
  /\ since_start' = [since_start EXCEPT ![p] = 0]
  /\ todo' = {} /\ waiting' = FALSE
  /\ IF teardown \/ caller = "run"
     THEN pc' = "aborted" /\ UNCHANGED frames
     ELSE LoadConfigFails(known)
  /\ UNCHANGED <<known, will_autostart, pid, num_failures, configured, history,
                 proc, signals, sleeping>>

\* should_run_ = waiting_plugin.
Assign ==
  /\ pc = "start" /\ todo = {}
  /\ should_run' = waiting
  /\ waiting' = FALSE
  /\ pc' = "unblock"
  /\ UNCHANGED <<plugins, proc, pending, blocked, frames, todo, sleeping>>

Unblock ==
  /\ pc = "unblock"
  /\ blocked' = FALSE
  /\ Return
  /\ UNCHANGED <<plugins, proc, should_run, pending, locals, sleeping>>

-----------------------------------------------------------------------------
(* The kernel, the plugins' processes and time.                            *)

Over == pc \in {"exited", "aborted"}

Owner(c) == {p \in Plugin : pid[p] = c}

\* A plugin's process exits, by itself or because of SIGINT.
Exit(c) ==
  /\ proc[c] = "running"
  /\ \A p \in Owner(c) : num_failures[p] < MaxFailures
  /\ proc' = [proc EXCEPT ![c] = "zombie"]
  /\ pending' = TRUE
  /\ UNCHANGED <<plugins, should_run, blocked, pc, frames, locals, sleeping>>

\* A process that was sent SIGKILL dies.
Die(c) ==
  /\ proc[c] = "killed"
  /\ proc' = [proc EXCEPT ![c] = "zombie"]
  /\ pending' = TRUE
  /\ UNCHANGED <<plugins, should_run, blocked, pc, frames, locals, sleeping>>

\* Mutant: the handler does not reach PluginMonitor::sigchild().
SigchildOmitted == UNCHANGED should_run

\* PluginMonitor::sigchild().
Sigchild == should_run' = TRUE

\* sigchild_handler(): one delivery stands for any number of children, sets
\* should_run_ and ends a sleep() in progress.
Deliver ==
  /\ pending /\ ~blocked /\ ~Over
  /\ pending' = FALSE
  /\ Sigchild
  /\ sleeping' = 0
  /\ UNCHANGED <<plugins, proc, blocked, pc, frames, locals>>

\* sighup_handler() ends a sleep() too.
Hangup ==
  /\ pc = "sleep" /\ sleeping > 0
  /\ sleeping' = 0
  /\ UNCHANGED <<plugins, proc, signals, pc, frames, locals>>

Tick ==
  /\ ~Over
  /\ sleeping > 0 \/ \E p \in Plugin : since_start[p] < SinceCap
  /\ since_start' = [p \in Plugin |-> Later(since_start[p])]
  /\ Elapse
  /\ sleeping' = IF sleeping > Quantum THEN sleeping - Quantum ELSE 0
  /\ UNCHANGED <<known, will_autostart, pid, num_failures, configured,
                 proc, signals, pc, frames, locals>>

Terminated == Over /\ UNCHANGED vars

-----------------------------------------------------------------------------
\* The steps the thread takes on its own.
Thread ==
  \/ RunOnce \/ StopGracefully \/ StopHard \/ Wake \/ Destroyed \/ RunReloaded
  \/ ReturnEarly \/ Enter \/ ReapDone \/ Assign \/ Unblock
  \/ \E c \in Pid : Reap(c)
  \/ \E p \in Plugin : \/ Skip(p) \/ Hold(p) \/ LaunchFails(p) \/ LaunchThrows(p)
                       \/ \E c \in Pid : Launch(p, c)

\* What the operator of the bot does.
Operator ==
  \/ Shutdown
  \/ \E S \in SUBSET Plugin : ConfigReloaded(S) \/ ConfigRejected(S)

Environment ==
  \/ Deliver \/ Hangup \/ Tick
  \/ \E c \in Pid : Exit(c) \/ Die(c)

Next == Thread \/ Operator \/ Environment \/ Terminated

Spec == Init /\ [][Next]_vars

\* The thread is never suspended for ever, signals are delivered, killed
\* processes die and time passes.  Nobody has to reload or shut down, and a
\* process may live for ever.
Fairness ==
  /\ WF_vars(Thread) /\ WF_vars(Deliver) /\ WF_vars(Tick)
  /\ \A c \in Pid : WF_vars(Die(c))

FairSpec == Spec /\ Fairness

-----------------------------------------------------------------------------
(* Properties.                                                             *)

PC == {"idle", "stop", "sleep", "kill", "done", "check", "reap", "start",
       "unblock", "exited", "aborted"}

\* The variables keep their types: in particular a failed fork() never leaves
\* its result -1 in PluginState::pid.
TypeOK ==
  /\ known \subseteq Plugin
  /\ will_autostart \in [Plugin -> BOOLEAN]
  /\ pid \in [Plugin -> Pid \union {NoPid}]
  /\ num_failures \in [Plugin -> Nat]
  /\ since_start \in [Plugin -> 0 .. SinceCap]
  /\ proc \in [Pid -> ProcState]
  /\ should_run \in BOOLEAN
  /\ pending \in BOOLEAN
  /\ blocked \in BOOLEAN
  /\ pc \in PC
  /\ caller \in {"run", "reload", "grace", "kill"}
  /\ teardown \in BOOLEAN
  /\ initial \in BOOLEAN
  /\ victims \subseteq known
  /\ todo \subseteq known
  /\ waiting \in BOOLEAN
  /\ sleeping \in Nat
  /\ configured \subseteq known
  /\ history \in [Observed -> [attempts : Nat, first : Nat, last : Nat]]

\* The monitor's pids and the kernel's process table agree: no two plugins have
\* the same pid, a pid is that of a child not yet waited for (so kill() in
\* stop_plugin never reaches a process that got a recycled pid), and every
\* child belongs to a plugin (so none is started twice and then forgotten).
PidTable ==
  /\ \A p \in Plugin : pid[p] # NoPid => proc[pid[p]] # "free"
  /\ \A p, q \in Plugin : pid[p] = pid[q] /\ pid[p] # NoPid => p = q
  /\ \A c \in Pid : proc[c] # "free" => \E p \in Plugin : pid[p] = c

\* A child that died is never overlooked: its signal is still pending, or
\* should_run_ makes the next runOnce() wait for it.  One step of the thread at
\* the wrong side of sigprocmask() would lose it.
NoLostChild ==
  (\E c \in Pid : proc[c] = "zombie") => pending \/ should_run

\* What makes NoLostChild inductive: SIGCHLD is blocked from the wait4() loop
\* to the last statement, and a child that dies after the loop leaves its
\* signal pending.
MaskedWhileProcessing ==
  /\ pc \in {"reap", "start"} => should_run /\ blocked
  /\ pc = "unblock" => blocked
  /\ pc \in {"start", "unblock"} =>
       \A c \in Pid : proc[c] = "zombie" => pending

Needy(p) == will_autostart[p] /\ pid[p] = NoPid

\* Between two calls a plugin that is to run and has no process keeps
\* should_run_ set, or runOnce() would return before it looks at state_.
NoForgottenPlugin ==
  pc = "idle" => \A p \in Plugin : Needy(p) => should_run

\* What makes NoForgottenPlugin inductive: the loop over state_ has such a
\* plugin still before it or has remembered it in waiting_plugin, which the
\* assignment moves to should_run_.
NeedyIsCovered ==
  /\ \A p \in Plugin : will_autostart[p] => p \in known
  /\ pc = "sleep" => caller \in {"grace", "kill"}
  /\ \A p \in Plugin : Needy(p) =>
       /\ pc = "start" => p \in todo \/ waiting
       /\ pc \in {"idle", "unblock"} => should_run
       /\ pc = "check" /\ caller \in {"run", "reload"} => should_run

\* Whatever kill_plugins() was given has been sent SIGKILL or is gone when it
\* is done; nothing it stopped is running again.
Stopped ==
  pc = "done" => \A p \in victims : pid[p] # NoPid => proc[pid[p]] # "running"

\* The same, for the calls configReloaded() makes.
ReloadStops == ~teardown => Stopped

\* After a reload, a process of a plugin the configuration no longer names can
\* only be one that is dying.
OnlyConfiguredRun ==
  pc = "idle" => \A p \in Plugin \ configured :
                   pid[p] # NoPid => proc[pid[p]] \in {"killed", "zombie"}

\* What makes OnlyConfiguredRun and ReloadStops inductive: as long as no plugin
\* makes start_plugin throw and no name is repeated, a running plugin that is
\* not configured is a victim the SIGKILL round has still to reach.
RemovedAreStopping ==
  /\ \A p \in Plugin : /\ will_autostart[p] => p \in configured
                       /\ pid[p] # NoPid => p \in known
  /\ ~teardown =>
       /\ victims \intersect configured = {}
       /\ \A p \in Plugin \ configured :
            pid[p] # NoPid /\ proc[pid[p]] = "running" =>
              /\ p \in victims
              /\ \/ pc \in {"stop", "kill"}
                 \/ /\ pc \in {"sleep", "check", "reap", "start", "unblock"}
                    /\ caller = "grace"
  /\ teardown =>
       /\ pc # "idle"
       /\ pc \in {"sleep", "check", "reap", "start", "unblock"} =>
            caller \in {"grace", "kill"}

\* The inductive invariant behind the safety properties.
IInv ==
  /\ TypeOK /\ PidTable
  /\ NoLostChild /\ MaskedWhileProcessing
  /\ ~DuplicateNames => NeedyIsCovered
  /\ ~DuplicateNames /\ Throwing = {} => RemovedAreStopping

\* The hold after the n-th failure in a row, as the class comment describes it:
\* each is longer than the one before, up to the limit.
IncrementalHold[n \in Nat] ==
  IF n = 0 THEN 0
  ELSE IF n = 1 THEN BaseWait
  ELSE Smaller(2 * IncrementalHold[n - 1], MaxWait)

\* The seconds n holds in a row come to.
TotalHold[n \in Nat] ==
  IF n = 0 THEN 0 ELSE TotalHold[n - 1] + IncrementalHold[n]

\* Restarts are spread over time: k failures in a row of a plugin that the
\* configuration leaves alone have taken at least the k holds that the class
\* comment of PluginMonitor promises, whatever mixture of failed starts and
\* early exits they were and however the signals and the clock fell between.
RestartsSpreadOut ==
  \A p \in Observed :
    history[p].attempts > 0 =>
      history[p].first >= TotalHold[history[p].attempts - 1]

\* A child that died is waited for.
ChildrenReaped ==
  \A c \in Pid : proc[c] = "zombie" ~> (proc[c] = "free" \/ Over)

\* A plugin that is to run and has no process gets one, or an attempt to start
\* it is made: the monitor "keeps them running".
PluginsRestarted ==
  \A p \in Plugin :
    (will_autostart[p] /\ pid[p] = NoPid)
      ~> (pid[p] # NoPid \/ since_start[p] = 0 \/ ~will_autostart[p] \/ Over)
=============================================================================
