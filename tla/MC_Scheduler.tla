------------------------------ MODULE MC_Scheduler -----------------------------
(* Instances of Scheduler for TLC. *)
EXTENDS Scheduler
================================================================================
