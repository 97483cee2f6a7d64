--------------------------- MODULE MC_BuddyAllocator ---------------------------
(* Instances of BuddyAllocator for TLC. *)
EXTENDS BuddyAllocator
================================================================================
