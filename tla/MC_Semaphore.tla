------------------------------ MODULE MC_Semaphore -----------------------------
(* Instances of Semaphore for TLC: names are sequences of small numbers, and
   one name is the beginning of another. *)
EXTENDS Semaphore, TLC

ThreadSymmetry == Permutations(Threads)
MCNames == {<<1>>, <<1, 2>>}
MCChars == {1, 2}
================================================================================
