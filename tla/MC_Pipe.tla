--------------------------------- MODULE MC_Pipe -------------------------------
(* Instances of Pipe for TLC: a buffer of two bytes, and messages longer than
   the buffer. *)
EXTENDS Pipe, TLC

Symmetry == Permutations(Threads) \union Permutations(Names)
MCMessages == {<<1>>, <<1, 2, 3>>}
================================================================================
