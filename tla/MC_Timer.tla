-------------------------------- MODULE MC_Timer -------------------------------
(* Instances of Timer for TLC. *)
EXTENDS Timer, TLC

ThreadSymmetry == Permutations(Threads)
================================================================================
