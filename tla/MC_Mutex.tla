------------------------------- MODULE MC_Mutex --------------------------------
(* Instances of Mutex for TLC: names are sequences of small numbers, and one
   name is the beginning of another, so that a reused slot can mix them. *)
EXTENDS Mutex, TLC

ThreadSymmetry == Permutations(Threads)
MCNames == {<<1>>, <<2, 1>>}
MCChars == {1, 2}
================================================================================
