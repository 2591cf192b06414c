--------------------------- MODULE MCPluginMonitor ---------------------------
(* Interchangeable pids.                                                   *)
EXTENDS PluginMonitor, TLC

Symmetry == Permutations(Pid)
=============================================================================
