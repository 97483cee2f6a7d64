---------------------------------- MODULE Lock ---------------------------------
(* What one mutex promises its threads: it passes from nobody to a thread    *)
(* that did not have to wait, or straight to one of its waiters, and it is   *)
(* given up for nobody only when nobody waits for it.                        *)
CONSTANTS Threads, Nobody

VARIABLES holder, waiters

lockVars == <<holder, waiters>>

Init == holder = Nobody /\ waiters = {}

Acquire(t) == holder = Nobody /\ holder' = t /\ UNCHANGED waiters

Enqueue(t) ==
  /\ holder # Nobody /\ t \notin waiters
  /\ waiters' = waiters \union {t}
  /\ UNCHANGED holder

HandOver(t) ==
  /\ holder # Nobody /\ t \in waiters
  /\ holder' = t /\ waiters' = waiters \ {t}

Free == waiters = {} /\ holder' = Nobody /\ UNCHANGED waiters

Next ==
  \/ \E t \in Threads : Acquire(t) \/ Enqueue(t) \/ HandOver(t)
  \/ Free

Spec == Init /\ [][Next]_lockVars
================================================================================
