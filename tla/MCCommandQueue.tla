---------------------------- MODULE MCCommandQueue ----------------------------
(* The requirements the plugins of the instances use.                      *)
EXTENDS CommandQueue, TLC

OfKinds(kinds) == {r \in Requirement : r.kind \in kinds}

\* Commands of one network, or of one sender there.
NetworkRequirements == OfKinds({"network", "sender"})

\* Commands of anybody, or of one sender.
SenderRequirements == OfKinds({"any", "sender"})

Symmetry == Permutations(Plugin) \union Permutations(User)
=============================================================================
