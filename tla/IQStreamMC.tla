----------------------------- MODULE IQStreamMC -----------------------------
(* The instance of IQStream that TLC checks.                               *)
EXTENDS IQStream, TLC

Symmetry == Permutations(Demods)
=============================================================================
