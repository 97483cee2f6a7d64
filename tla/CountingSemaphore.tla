---------------------------- MODULE CountingSemaphore ---------------------------
(* What one semaphore promises its threads: a permit that is given lets one  *)
(* thread pass, now or later; a thread waits only while there is no permit,  *)
(* and a permit is kept only while no thread waits.                          *)
EXTENDS Integers

CONSTANT Threads

VARIABLES permits, waiters

semaphoreVars == <<permits, waiters>>

Init == permits = 0 /\ waiters = {}

Pass == permits > 0 /\ permits' = permits - 1 /\ UNCHANGED waiters

Enqueue(t) ==
  /\ permits = 0 /\ t \notin waiters
  /\ waiters' = waiters \union {t}
  /\ UNCHANGED permits

\* A permit is given while threads wait: one of them takes it at once.
WakeUp(t) == t \in waiters /\ waiters' = waiters \ {t} /\ UNCHANGED permits

Give == waiters = {} /\ permits' = permits + 1 /\ UNCHANGED waiters

Next ==
  \/ Pass \/ Give
  \/ \E t \in Threads : Enqueue(t) \/ WakeUp(t)

Spec == Init /\ [][Next]_semaphoreVars
================================================================================
