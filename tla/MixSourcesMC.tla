---------------------------- MODULE MixSourcesMC ----------------------------
(* Model values for MixSources.                                            *)
EXTENDS MixSources, TLC

ThreadSymmetry == Permutations(Threads)
=============================================================================
