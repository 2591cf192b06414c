---------------------------- MODULE MCPluginSocket ----------------------------
(* Interchangeable plugins.                                                *)
EXTENDS PluginSocket, TLC

Symmetry == Permutations(Plugin)
=============================================================================
