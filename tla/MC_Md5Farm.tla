------------------------------- MODULE MC_Md5Farm -------------------------------
(* Instances of the md5 farm for TLC. *)
EXTENDS Md5Farm, TLC

CONSTANTS v1, v2

ViewSymmetry == Permutations(Views)
================================================================================
