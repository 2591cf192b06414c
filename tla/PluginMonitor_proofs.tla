------------------------- MODULE PluginMonitor_proofs -------------------------
(***************************************************************************)
(* Proofs about PluginMonitor, for any number of plugins and pids and any  *)
(* waiting times.                                                          *)
(***************************************************************************)
EXTENDS PluginMonitor, TLAPS

USE PidAssumption, TimeAssumption, FlagAssumption

-----------------------------------------------------------------------------
(* Type correctness.                                                       *)

HistoryType == history \in [Observed -> [attempts : Nat, first : Nat, last : Nat]]

\* What the observer writes down are numbers.
LEMMA HistoryCapType == HistoryCap \in Nat
BY DEF HistoryCap

LEMMA ForgetType ==
  ASSUME HistoryType, NEW S, Forget(S) PROVE HistoryType'
BY DEF HistoryType, Forget, NoAttempts

LEMMA AttemptType ==
  ASSUME HistoryType, NEW p, Attempt(p) PROVE HistoryType'
BY DEF HistoryType, Attempt

LEMMA SeriesEndsType ==
  ASSUME HistoryType, NEW c, SeriesEnds(c) PROVE HistoryType'
BY HistoryCapType DEF HistoryType, SeriesEnds, Smaller

LEMMA ElapseType ==
  ASSUME HistoryType, Elapse PROVE HistoryType'
BY HistoryCapType DEF HistoryType, Elapse, Later, Smaller, SinceCap

\* Every state the program starts in has the declared types.
LEMMA TypeInit == Init => TypeOK
<1> SUFFICES ASSUME Init PROVE TypeOK
  OBVIOUS
<1> USE DEF Init
<1>1. since_start \in [Plugin -> 0 .. SinceCap]
  BY DEF SinceCap
<1>2. /\ num_failures \in [Plugin -> Nat]
      /\ sleeping \in Nat
  OBVIOUS
<1>3. /\ pid \in [Plugin -> Pid \union {NoPid}]
      /\ proc \in [Pid -> ProcState]
  BY DEF ProcState
<1>4. HistoryType
  BY DEF HistoryType, NoAttempts
<1> QED
  BY <1>1, <1>2, <1>3, <1>4 DEF TypeOK, PC, HistoryType

\* What the operator does to the monitor keeps the types.
LEMMA TypeOperator == TypeOK /\ Operator => TypeOK'
<1> SUFFICES ASSUME TypeOK, Operator PROVE TypeOK'
  OBVIOUS
<1> USE DEF TypeOK, plugins, signals, frames, locals, PC, ProcState
<1>1. CASE Shutdown
  BY <1>1 DEF Shutdown
<1>2. ASSUME NEW S \in SUBSET Plugin, ConfigReloaded(S) PROVE TypeOK'
  <2>1. HistoryType'
    BY <1>2, ForgetType DEF ConfigReloaded, Configure, HistoryType
  <2> QED
    BY <1>2, <2>1 DEF ConfigReloaded, PluginsToKill, Configure, HistoryType
<1>3. ASSUME NEW S \in SUBSET Plugin, ConfigRejected(S) PROVE TypeOK'
  <2>1. HistoryType'
    BY <1>3, ForgetType DEF ConfigRejected, Configure, HistoryType
  <2> QED
    BY <1>3, <2>1 DEF ConfigRejected, Configure, LoadConfigFails, HistoryType
<1> QED
  BY <1>1, <1>2, <1>3 DEF Operator

\* So do the kernel, the plugins' processes and the clock.
LEMMA TypeEnvironment == TypeOK /\ Environment => TypeOK'
<1> SUFFICES ASSUME TypeOK, Environment PROVE TypeOK'
  OBVIOUS
<1> USE DEF TypeOK, plugins, signals, frames, locals, PC, ProcState
<1>1. CASE Deliver
  BY <1>1 DEF Deliver, Sigchild
<1>2. CASE Hangup
  BY <1>2 DEF Hangup
<1>3. CASE Tick
  <2>1. \A t \in 0 .. SinceCap : Later(t) \in 0 .. SinceCap
    BY DEF Later, Smaller, SinceCap
  <2>2. since_start' \in [Plugin -> 0 .. SinceCap]
    BY <1>3, <2>1 DEF Tick
  <2>3. sleeping' \in Nat
    BY <1>3 DEF Tick
  <2>4. HistoryType'
    BY <1>3, ElapseType DEF Tick, HistoryType
  <2> QED
    BY <1>3, <2>2, <2>3, <2>4 DEF Tick, HistoryType
<1>4. ASSUME NEW c \in Pid, Exit(c) PROVE TypeOK'
  BY <1>4 DEF Exit
<1>5. ASSUME NEW c \in Pid, Die(c) PROVE TypeOK'
  BY <1>5 DEF Die
<1> QED
  BY <1>1, <1>2, <1>3, <1>4, <1>5 DEF Environment

\* So does every step of the thread.
LEMMA TypeThread == TypeOK /\ Thread => TypeOK'
<1> SUFFICES ASSUME TypeOK, Thread PROVE TypeOK'
  OBVIOUS
<1> USE DEF TypeOK, plugins, signals, frames, locals, PC, ProcState
<1>1. CASE RunOnce
  BY <1>1 DEF RunOnce
<1>2. CASE StopGracefully
  BY <1>2 DEF StopGracefully, SleepThenRun
<1>3. CASE StopHard
  BY <1>3 DEF StopHard, Stubborn, Remaining, SleepThenRun
<1>4. CASE Wake
  BY <1>4 DEF Wake
<1>5. CASE Destroyed
  BY <1>5 DEF Destroyed
<1>6. CASE RunReloaded
  BY <1>6 DEF RunReloaded, SetShouldRun
<1>7. CASE ReturnEarly
  BY <1>7 DEF ReturnEarly, Return
<1>8. CASE Enter
  BY <1>8 DEF Enter, Block
<1>9. CASE ReapDone
  BY <1>9 DEF ReapDone
<1>10. CASE Assign
  BY <1>10 DEF Assign
<1>11. CASE Unblock
  BY <1>11 DEF Unblock, Return
<1>12. ASSUME NEW c \in Pid, Reap(c) PROVE TypeOK'
  <2>1. HistoryType'
    BY <1>12, SeriesEndsType DEF Reap, HistoryType
  <2> QED
    BY <1>12, <2>1 DEF Reap, Released, HistoryType
<1>13. ASSUME NEW p \in Plugin, Skip(p) PROVE TypeOK'
  BY <1>13 DEF Skip, Visit
<1>14. ASSUME NEW p \in Plugin, Hold(p) PROVE TypeOK'
  BY <1>14 DEF Hold, Remember, Visit
<1>15. ASSUME NEW p \in Plugin, LaunchFails(p) PROVE TypeOK'
  <2>1. HistoryType'
    BY <1>15, AttemptType DEF LaunchFails, HistoryType
  <2> QED
    BY <1>15, <2>1 DEF LaunchFails, Visit, SinceCap, HistoryType
<1>16. ASSUME NEW p \in Plugin, LaunchThrows(p) PROVE TypeOK'
  <2>1. since_start' \in [Plugin -> 0 .. SinceCap]
    BY <1>16 DEF LaunchThrows, SinceCap
  <2>2. CASE teardown \/ caller = "run"
    BY <1>16, <2>1, <2>2 DEF LaunchThrows
  <2>3. CASE ~(teardown \/ caller = "run")
    BY <1>16, <2>1, <2>3 DEF LaunchThrows, LoadConfigFails
  <2> QED
    BY <2>2, <2>3
<1>17. ASSUME NEW p \in Plugin, NEW c \in Pid, Launch(p, c) PROVE TypeOK'
  <2>1. HistoryType'
    BY <1>17, AttemptType DEF Launch, HistoryType
  <2> QED
    BY <1>17, <2>1 DEF Launch, Visit, SinceCap, HistoryType
<1> QED
  BY <1>1, <1>2, <1>3, <1>4, <1>5, <1>6, <1>7, <1>8, <1>9, <1>10, <1>11,
     <1>12, <1>13, <1>14, <1>15, <1>16, <1>17 DEF Thread

\* Every step keeps the types.
LEMMA TypeStep == TypeOK /\ [Next]_vars => TypeOK'
<1> SUFFICES ASSUME TypeOK, [Next]_vars PROVE TypeOK'
  OBVIOUS
<1>1. CASE UNCHANGED vars
  BY <1>1 DEF vars, TypeOK, plugins, signals, frames, locals
<1> QED
  BY <1>1, TypeThread, TypeOperator, TypeEnvironment DEF Next, Terminated

\* The monitor's variables keep their types, whatever the kernel, the plugins
\* and the operator do (PluginState and should_run_ of pluginmonitor.cpp).
THEOREM TypeCorrect == Spec => []TypeOK
<1> QED
  BY TypeInit, TypeStep, PTL DEF Spec

-----------------------------------------------------------------------------
(* Pids and the process table.                                             *)

\* Steps that touch neither the pids nor the processes.
LEMMA PidTableFrame ==
  TypeOK /\ PidTable /\ UNCHANGED <<pid, proc>> => PidTable'
BY DEF PidTable

\* A process that changes state without being waited for stays its plugin's.
LEMMA PidTableKept ==
  ASSUME TypeOK, PidTable, UNCHANGED pid,
         \A c \in Pid : proc[c] = "free" <=> proc'[c] = "free"
  PROVE  PidTable'
BY DEF PidTable, TypeOK

LEMMA PidTableStep == TypeOK /\ PidTable /\ [Next]_vars => PidTable'
<1> SUFFICES ASSUME TypeOK, PidTable, [Next]_vars PROVE PidTable'
  OBVIOUS
<1> USE DEF plugins, signals, frames, locals
<1>1. CASE UNCHANGED vars
  BY <1>1, PidTableFrame DEF vars
<1>2. CASE Operator
  BY <1>2, PidTableFrame
  DEF Operator, Shutdown, ConfigReloaded, PluginsToKill, ConfigRejected, Configure
<1>3. CASE Deliver \/ Hangup \/ Tick
  BY <1>3, PidTableFrame DEF Deliver, Sigchild, Hangup, Tick
<1>4. ASSUME NEW c \in Pid, Exit(c) \/ Die(c) PROVE PidTable'
  BY <1>4, PidTableKept DEF Exit, Die, TypeOK
<1>5. CASE StopHard
  BY <1>5, PidTableKept DEF StopHard, Stubborn, Remaining, TypeOK
<1>6. CASE \/ RunOnce \/ StopGracefully \/ Wake \/ Destroyed \/ RunReloaded
           \/ ReturnEarly \/ Enter \/ ReapDone \/ Assign \/ Unblock
  BY <1>6, PidTableFrame
  DEF RunOnce, StopGracefully, Wake, Destroyed, RunReloaded, SetShouldRun, ReturnEarly,
      Enter, Block, ReapDone, Assign, Unblock
<1>7. ASSUME NEW p \in Plugin, Skip(p) \/ Hold(p) \/ LaunchFails(p) \/ LaunchThrows(p)
      PROVE PidTable'
  BY <1>7, PidTableFrame DEF Skip, Hold, Remember, LaunchFails, LaunchThrows, Visit
<1>8. ASSUME NEW c \in Pid, Reap(c) PROVE PidTable'
  \* The one plugin that had the pid gives it up.
  <2>1. /\ pid' = [p \in Plugin |-> IF pid[p] = c THEN NoPid ELSE pid[p]]
        /\ proc' = [proc EXCEPT ![c] = "free"]
    BY <1>8 DEF Reap, Released
  <2> QED
    BY <2>1 DEF PidTable, TypeOK, ProcState
<1>9. ASSUME NEW p \in Plugin, NEW c \in Pid, Launch(p, c) PROVE PidTable'
  \* A free pid is nobody's, and the plugin that gets it had none.
  <2>1. /\ pid' = [pid EXCEPT ![p] = c]
        /\ proc' = [proc EXCEPT ![c] = "running"]
        /\ proc[c] = "free" /\ pid[p] = NoPid
    BY <1>9 DEF Launch, Due
  <2>2. \A q \in Plugin : pid[q] # c
    BY <2>1 DEF PidTable
  <2> QED
    BY <2>1, <2>2 DEF PidTable, TypeOK, ProcState
<1> QED
  BY <1>1, <1>2, <1>3, <1>4, <1>5, <1>6, <1>7, <1>8, <1>9
  DEF Next, Thread, Environment, Terminated

\* No pid is shared or stale, and no child is without a plugin (state_ of
\* pluginmonitor.cpp and the kernel's process table).
THEOREM PidTableCorrect == Spec => []PidTable
<1>1. Init => PidTable
  BY DEF Init, PidTable
<1> QED
  BY <1>1, TypeCorrect, PidTableStep, PTL DEF Spec

-----------------------------------------------------------------------------
(* Signals.                                                                *)

Signalled == NoLostChild /\ MaskedWhileProcessing

LEMMA SignalledStep == TypeOK /\ Signalled /\ [Next]_vars => Signalled'
<1> SUFFICES ASSUME TypeOK, Signalled, [Next]_vars PROVE Signalled'
  OBVIOUS
<1> USE DEF Signalled, NoLostChild, MaskedWhileProcessing,
            plugins, signals, frames, locals
<1>1. CASE UNCHANGED vars
  BY <1>1 DEF vars
<1>2. CASE Operator
  BY <1>2 DEF Operator, Shutdown, ConfigReloaded, PluginsToKill, ConfigRejected,
              LoadConfigFails
<1>3. CASE Deliver
  \* SIGCHLD is unblocked, so the thread is not between the loops.
  BY <1>3 DEF Deliver, Sigchild
<1>4. CASE Hangup \/ Tick
  BY <1>4 DEF Hangup, Tick
<1>5. ASSUME NEW c \in Pid, Exit(c) \/ Die(c) PROVE Signalled'
  BY <1>5 DEF Exit, Die
<1>6. CASE StopHard
  BY <1>6 DEF StopHard, Stubborn, Remaining, SleepThenRun
<1>7. CASE \/ RunOnce \/ StopGracefully \/ Wake \/ Destroyed \/ RunReloaded
           \/ ReturnEarly
  BY <1>7 DEF RunOnce, StopGracefully, SleepThenRun, Wake, Destroyed,
              RunReloaded, SetShouldRun, ReturnEarly, Return, TypeOK
<1>8. CASE Enter
  BY <1>8 DEF Enter, Block
<1>9. CASE ReapDone
  BY <1>9 DEF ReapDone
<1>10. CASE Assign
  \* A child that died since the wait4() loop left its signal pending.
  BY <1>10 DEF Assign
<1>11. CASE Unblock
  BY <1>11 DEF Unblock, Return, TypeOK
<1>12. ASSUME NEW c \in Pid, Reap(c) PROVE Signalled'
  BY <1>12 DEF Reap, Released, TypeOK
<1>13. ASSUME NEW p \in Plugin, Skip(p) \/ Hold(p) \/ LaunchFails(p) PROVE Signalled'
  BY <1>13 DEF Skip, Hold, Remember, LaunchFails, Visit
<1>14. ASSUME NEW p \in Plugin, LaunchThrows(p) PROVE Signalled'
  BY <1>14 DEF LaunchThrows, LoadConfigFails
<1>15. ASSUME NEW p \in Plugin, NEW c \in Pid, Launch(p, c) PROVE Signalled'
  BY <1>15 DEF Launch, Visit, TypeOK
<1> QED
  BY <1>1, <1>2, <1>3, <1>4, <1>5, <1>6, <1>7, <1>8, <1>9, <1>10, <1>11,
     <1>12, <1>13, <1>14, <1>15
  DEF Next, Thread, Environment, Terminated

\* No child's death is overlooked by runOnce() and sigchild_handler().
THEOREM NoLostChildCorrect == Spec => []NoLostChild
<1>1. Init => Signalled
  BY DEF Init, Signalled, NoLostChild, MaskedWhileProcessing
<1>2. Signalled => NoLostChild
  BY DEF Signalled
<1> QED
  BY <1>1, <1>2, TypeCorrect, SignalledStep, PTL DEF Spec

-----------------------------------------------------------------------------
(* Plugins that are to run.                                                *)

LEMMA CoveredStep ==
  ASSUME ~DuplicateNames
  PROVE  TypeOK /\ Signalled /\ NeedyIsCovered /\ [Next]_vars => NeedyIsCovered'
<1> SUFFICES ASSUME TypeOK, Signalled, NeedyIsCovered, [Next]_vars
             PROVE  NeedyIsCovered'
  OBVIOUS
<1> USE DEF NeedyIsCovered, Needy, plugins, signals, frames, locals
<1>1. CASE UNCHANGED vars
  BY <1>1 DEF vars
<1>2. CASE Operator
  BY <1>2 DEF Operator, Shutdown, ConfigReloaded, PluginsToKill, ConfigRejected, Configure
<1>3. CASE Deliver \/ Hangup \/ Tick
  BY <1>3 DEF Deliver, Sigchild, Hangup, Tick
<1>4. ASSUME NEW c \in Pid, Exit(c) \/ Die(c) PROVE NeedyIsCovered'
  BY <1>4 DEF Exit, Die
<1>5. CASE StopGracefully \/ StopHard \/ Destroyed
  BY <1>5 DEF StopGracefully, StopHard, Stubborn, Remaining, SleepThenRun, Destroyed
<1>6. CASE RunOnce \/ Wake \/ RunReloaded \/ Enter
  BY <1>6 DEF RunOnce, Wake, RunReloaded, SetShouldRun, Enter, Block
<1>7. CASE ReturnEarly
  BY <1>7 DEF ReturnEarly, Return, TypeOK
<1>8. CASE ReapDone
  BY <1>8 DEF ReapDone
<1>9. CASE Assign
  BY <1>9 DEF Assign
<1>10. CASE Unblock
  BY <1>10 DEF Unblock, Return, TypeOK
<1>11. ASSUME NEW c \in Pid, Reap(c) PROVE NeedyIsCovered'
  BY <1>11 DEF Reap, Released, TypeOK
<1>12. ASSUME NEW p \in Plugin, Skip(p) \/ Hold(p) \/ LaunchFails(p)
       PROVE  NeedyIsCovered'
  BY <1>12 DEF Skip, Hold, Remember, LaunchFails, Visit, TypeOK
<1>13. ASSUME NEW p \in Plugin, LaunchThrows(p) PROVE NeedyIsCovered'
  \* The exception skips the assignment: should_run_ is still set.
  BY <1>13 DEF LaunchThrows, LoadConfigFails, Signalled, MaskedWhileProcessing
<1>14. ASSUME NEW p \in Plugin, NEW c \in Pid, Launch(p, c) PROVE NeedyIsCovered'
  BY <1>14 DEF Launch, Visit, TypeOK
<1> QED
  BY <1>1, <1>2, <1>3, <1>4, <1>5, <1>6, <1>7, <1>8, <1>9, <1>10, <1>11,
     <1>12, <1>13, <1>14
  DEF Next, Thread, Environment, Terminated

\* As long as no configuration repeats a name, no plugin that is to run is
\* forgotten between two calls of runOnce().
THEOREM NoForgottenPluginCorrect ==
  ASSUME ~DuplicateNames
  PROVE  Spec => []NoForgottenPlugin
<1>1. Init => Signalled /\ NeedyIsCovered
  BY DEF Init, Signalled, NoLostChild, MaskedWhileProcessing, NeedyIsCovered, Needy
<1>2. NeedyIsCovered => NoForgottenPlugin
  BY DEF NeedyIsCovered, NoForgottenPlugin
<1>3. TypeOK /\ Signalled /\ NeedyIsCovered /\ [Next]_vars
        => (Signalled /\ NeedyIsCovered)'
  BY SignalledStep, CoveredStep
<1> QED
  BY <1>1, <1>2, <1>3, TypeCorrect, PTL DEF Spec

-----------------------------------------------------------------------------
(* Plugins that left the configuration.                                    *)

LEMMA StoppingStep ==
  ASSUME ~DuplicateNames, Throwing = {}
  PROVE  TypeOK /\ PidTable /\ RemovedAreStopping /\ [Next]_vars
           => RemovedAreStopping'
<1> SUFFICES ASSUME TypeOK, PidTable, RemovedAreStopping, [Next]_vars
             PROVE  RemovedAreStopping'
  OBVIOUS
<1> USE DEF RemovedAreStopping, plugins, signals, frames, locals
<1>1. CASE UNCHANGED vars
  BY <1>1 DEF vars
<1>2. CASE Shutdown
  BY <1>2 DEF Shutdown
<1>3. ASSUME NEW S \in SUBSET Plugin, ConfigReloaded(S) PROVE RemovedAreStopping'
  \* What runs and is not named again was known, and becomes a victim.
  BY <1>3 DEF ConfigReloaded, PluginsToKill, Configure, TypeOK
<1>4. ASSUME NEW S \in SUBSET Plugin, ConfigRejected(S) PROVE RemovedAreStopping'
  BY <1>4 DEF ConfigRejected
<1>5. CASE Deliver \/ Hangup \/ Tick
  BY <1>5 DEF Deliver, Sigchild, Hangup, Tick
<1>6. ASSUME NEW c \in Pid, Exit(c) \/ Die(c) PROVE RemovedAreStopping'
  BY <1>6 DEF Exit, Die, TypeOK
<1>7. CASE StopGracefully
  BY <1>7 DEF StopGracefully, SleepThenRun, Remaining
<1>8. CASE StopHard
  <2>1. \A p \in victims : pid[p] # NoPid => pid[p] \in Pid /\ proc'[pid[p]] # "running"
    BY <1>8 DEF StopHard, Stubborn, Remaining, TypeOK
  <2>2. \A p \in Plugin : pid[p] # NoPid /\ proc'[pid[p]] = "running"
                            => proc[pid[p]] = "running"
    BY <1>8 DEF StopHard, Stubborn, Remaining, TypeOK
  <2> QED
    BY <1>8, <2>1, <2>2 DEF StopHard, Stubborn, Remaining, SleepThenRun
<1>9. CASE RunOnce \/ Wake \/ Destroyed \/ RunReloaded \/ Enter \/ ReapDone \/ Assign
  BY <1>9 DEF RunOnce, Wake, Destroyed, RunReloaded, SetShouldRun, Enter, Block,
              ReapDone, Assign
<1>10. CASE ReturnEarly
  BY <1>10 DEF ReturnEarly, Return, TypeOK
<1>11. CASE Unblock
  BY <1>11 DEF Unblock, Return, TypeOK
<1>12. ASSUME NEW c \in Pid, Reap(c) PROVE RemovedAreStopping'
  BY <1>12 DEF Reap, Released, TypeOK
<1>13. ASSUME NEW p \in Plugin, Skip(p) \/ Hold(p) \/ LaunchFails(p)
       PROVE  RemovedAreStopping'
  BY <1>13 DEF Skip, Hold, Remember, LaunchFails, Visit
<1>14. ASSUME NEW p \in Plugin, LaunchThrows(p) PROVE RemovedAreStopping'
  BY <1>14 DEF LaunchThrows
<1>15. ASSUME NEW p \in Plugin, NEW c \in Pid, Launch(p, c) PROVE RemovedAreStopping'
  \* Only a configured plugin is started.
  <2>1. /\ pid' = [pid EXCEPT ![p] = c] /\ proc' = [proc EXCEPT ![c] = "running"]
        /\ p \in configured /\ p \in known /\ proc[c] = "free"
        /\ UNCHANGED <<known, configured, will_autostart, victims, pc, caller, teardown>>
    BY <1>15 DEF Launch, Visit, Due, TypeOK
  <2>2. \A q \in Plugin \ {p} : pid'[q] = pid[q]
    BY <2>1 DEF TypeOK
  <2>3. \A q \in Plugin \ {p} : pid'[q] # NoPid =>
          pid[q] \in Pid /\ proc'[pid'[q]] = proc[pid[q]]
    BY <2>1, <2>2 DEF PidTable, TypeOK
  <2>4. \A q \in Plugin : will_autostart'[q] => q \in configured'
    BY <2>1
  <2>5. \A q \in Plugin : pid'[q] # NoPid => q \in known'
    BY <2>1, <2>2
  <2>6. \A q \in Plugin \ configured' : q # p
    BY <2>1
  <2> QED
    BY <2>1, <2>2, <2>3, <2>4, <2>5, <2>6
<1> QED
  BY <1>1, <1>2, <1>3, <1>4, <1>5, <1>6, <1>7, <1>8, <1>9, <1>10, <1>11,
     <1>12, <1>13, <1>14, <1>15
  DEF Next, Thread, Operator, Environment, Terminated

-----------------------------------------------------------------------------
(* All of it.                                                              *)

\* The strengthened invariant, of which the properties above are parts.
THEOREM Inductive == Spec => []IInv
<1>1. Init => IInv
  <2> SUFFICES ASSUME Init PROVE IInv
    OBVIOUS
  <2> QED
    BY TypeInit DEF Init, IInv, PidTable, NoLostChild, MaskedWhileProcessing,
                    NeedyIsCovered, Needy, RemovedAreStopping
<1>2. IInv /\ [Next]_vars => IInv'
  <2> SUFFICES ASSUME IInv, [Next]_vars PROVE IInv'
    OBVIOUS
  <2> USE DEF IInv
  <2>1. TypeOK' /\ PidTable'
    BY TypeStep, PidTableStep
  <2>2. Signalled'
    BY SignalledStep DEF Signalled
  <2>3. ~DuplicateNames => NeedyIsCovered'
    BY CoveredStep DEF Signalled
  <2>4. ~DuplicateNames /\ Throwing = {} => RemovedAreStopping'
    BY StoppingStep
  <2> QED
    BY <2>1, <2>2, <2>3, <2>4 DEF Signalled
<1> QED
  BY <1>1, <1>2, PTL DEF Spec

\* After a reload that was accepted, nothing the configuration dropped keeps
\* running: configReloaded() returns only when the SIGKILL round reached it.
THEOREM OnlyConfiguredRunCorrect ==
  ASSUME ~DuplicateNames, Throwing = {}
  PROVE  Spec => []OnlyConfiguredRun
<1>1. IInv => OnlyConfiguredRun
  BY DEF IInv, TypeOK, PidTable, ProcState, RemovedAreStopping, OnlyConfiguredRun
<1> QED
  BY <1>1, Inductive, PTL

\* What configReloaded() asks kill_plugins() to stop is not running when
\* kill_plugins() returns.
THEOREM ReloadStopsCorrect ==
  ASSUME ~DuplicateNames, Throwing = {}
  PROVE  Spec => []ReloadStops
<1>1. IInv => ReloadStops
  BY DEF IInv, TypeOK, RemovedAreStopping, ReloadStops, Stopped
<1> QED
  BY <1>1, Inductive, PTL

=============================================================================
