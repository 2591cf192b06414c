------------------------------ MODULE MCArguments ------------------------------
(* The characters the loops and the documentation tell apart; s and n are  *)
(* letters unless they follow a %.                                         *)
EXTENDS Arguments

SaidCharacters == {"a", Space, Double, Backslash}
ConfiguredCharacters == {"s", "n", "%", Space, Single, Double, Backslash}
=============================================================================
