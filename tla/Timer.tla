---------------------------------- MODULE Timer ---------------------------------
(***************************************************************************)
(* The sleeping threads of TP2 (Kernel/timer.c): a linked list in a table, *)
(* whose counters the timer interrupt brings down, and which a thread      *)
(* leaves when its counter is 0.                                           *)
(***************************************************************************)
EXTENDS Integers, FiniteSets, FiniteSetsExt

CONSTANTS
  Threads,      \* the (pid, thread) pairs that sleep
  NotUsed,      \* NOT_USED
  MaxSleeping,  \* MAX_SLEEPING_PROCESSES
  Word,         \* the number of values of tickQuantity (2^64)
  MaxTicks      \* bound: the ticks a thread asks for

Slots  == 0 .. MaxSleeping - 1
NoSlot == -1      \* NOT_USED as a link, SLEEPING_PROCESS_LIMIT_REACHED

VARIABLES
  list,    \* list: thread, ticks and next of each slot, first, firstAvailable, sleeping
  asleep,  \* the threads that are SLEEPING
  \* history
  due      \* due[t]: the ticks that t has still to sleep

vars == <<list, asleep, due>>

\* initializeTimer.
Init ==
  /\ list = [thread |-> [i \in Slots |-> NotUsed], ticks |-> [i \in Slots |-> 0],
             next |-> [i \in Slots |-> 0],
             first |-> NoSlot, firstAvailable |-> 0, sleeping |-> 0]
  /\ asleep = {}
  /\ due = [t \in Threads |-> 0]

getNextAvailableSpace(thread) ==
  LET free == {i \in Slots : thread[i] = NotUsed}
  IN IF free = {} THEN NoSlot ELSE Min(free)

\* addSleepingProcess.  The slot it takes is firstAvailable, whatever that is.
addSleepingProcess(z, t, ticks) ==
  LET i == z.firstAvailable
      thread == [z.thread EXCEPT ![i] = t]
  IN [thread |-> thread, ticks |-> [z.ticks EXCEPT ![i] = ticks],
      next |-> [z.next EXCEPT ![i] = z.first], first |-> i,
      firstAvailable |-> getNextAvailableSpace(thread), sleeping |-> z.sleeping + 1]

\* removeSleepingProcess for the thread in slot i, found after `previous`;
\* the first of the list is its own previous, and stays the first.
remove(z, previous, i) ==
  [z EXCEPT !.thread[i] = NotUsed,
            !.next[previous] = z.next[i],
            !.sleeping = @ - 1,
            !.firstAvailable = IF @ > i THEN i ELSE @]

\* removeSleepingProcess's walk of `left` steps.
RECURSIVE removeSleepingProcess(_, _, _, _, _)
removeSleepingProcess(z, t, previous, i, left) ==
  IF left = 0 \/ i \notin Slots THEN z
  ELSE IF z.thread[i] = t THEN remove(z, previous, i)
  ELSE removeSleepingProcess(z, t, i, z.next[i], left - 1)

\* decrementTicks's loop; `sleeping` may go down under way.
RECURSIVE decrementTicks(_, _, _)
decrementTicks(z, n, i) ==
  IF n >= z.sleeping \/ i \notin Slots THEN z
  ELSE LET z1 == [z EXCEPT !.ticks[i] = (@ - 1) % Word]
           z2 == IF z1.ticks[i] = 0
                 THEN removeSleepingProcess(z1, z1.thread[i], z1.first, z1.first, z1.sleeping)
                 ELSE z1
       IN decrementTicks(z2, n + 1, z2.next[i])

\* sysSleep.  Bound: there is room in the table.
sleep(t, ticks) ==
  /\ t \notin asleep /\ list.firstAvailable \in Slots /\ list.sleeping < MaxSleeping
  /\ list' = addSleepingProcess(list, t, ticks)
  /\ asleep' = asleep \union {t}
  /\ due' = [due EXCEPT ![t] = ticks]

\* tickHandler: who is no longer in the table is READY.
tickHandler ==
  /\ list' = decrementTicks(list, 0, list.first)
  /\ asleep' = {t \in asleep : \E i \in Slots : list'.thread[i] = t}
  /\ due' = [t \in Threads |-> IF t \in asleep THEN due[t] - 1 ELSE due[t]]

Next == tickHandler \/ \E t \in Threads, ticks \in 1 .. MaxTicks : sleep(t, ticks)

Spec == Init /\ [][Next]_vars

\* A thread sleeps the ticks it asked for, and no longer: `ticks every 55ms`
\* (timer.c:16) makes milliseconds / 55 of them the time it sleeps.
SleepsItsTicks == \A t \in asleep : due[t] > 0
================================================================================
