-------------------------- MODULE MCSpoolForward --------------------------
(* Instances of SpoolForward for TLC.                                      *)
EXTENDS SpoolForward, TLC

Symmetry == Permutations(Clients)
=============================================================================
