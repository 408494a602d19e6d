------------------------------- MODULE MCNDM --------------------------------
(***************************************************************************)
(* Instances of NDM for TLC.                                               *)
(***************************************************************************)
EXTENDS NDMInvariant, TLC

CONSTANTS b1, b2, c1, c2

AllFit == BDCs \X BDs
Sym == Permutations(BDs) \cup Permutations(BDCs)
=============================================================================
