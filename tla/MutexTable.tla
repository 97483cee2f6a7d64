------------------------------- MODULE MutexTable -------------------------------
(***************************************************************************)
(* The table of kernel mutexes of TP2 and the functions of Kernel/mutex.c. *)
(* The table is a record, one function on slots per field of mutex_t, with *)
(* the two static counters and the state of the threads; each function of  *)
(* mutex.c is an operator from such a record to the next, so that what a   *)
(* system call does can be written as the calls it makes.                  *)
(***************************************************************************)
EXTENDS Integers, Sequences, FiniteSets, FiniteSetsExt

CONSTANTS
  Threads,      \* the (pid, thread) pairs that make system calls
  Kernel,       \* the pid 0 that creates the kernel's own mutexes
  NotUsed,      \* NOT_USED
  MaxMutexes,   \* MAX_MUTEXES
  MaxBlocked,   \* MAX_BLOCKED
  MaxName,      \* MAX_NAME
  Chars,        \* the characters of a name
  Names,        \* the names programs ask for
  IdleReady     \* some thread outside Threads is always ready to run

KernelMutexes == 3      \* admin (also the heap's), semaphores, channels
FullList      == -3     \* FULL_LIST

ASSUME MutexAssumption ==
  /\ Kernel \notin Threads /\ NotUsed \notin Threads /\ Kernel # NotUsed
  /\ MaxMutexes \in Nat /\ MaxMutexes > KernelMutexes
  /\ MaxBlocked \in Nat \ {0} /\ MaxName \in Nat
  /\ Names \subseteq Seq(Chars)
  /\ IdleReady \in BOOLEAN

Slots  == 0 .. MaxMutexes - 1
Places == 0 .. MaxBlocked - 1
Admin  == 0                          \* adminMutex; buddyMutex gets slot 0 too
Ids    == Threads \union {Kernel, NotUsed}

\* The table when main (kernel.c) has run setupMutexSystem and initializeHeap,
\* setupSemaphoreSystem and initializeChannels have made their mutexes.
KernelTable ==
  [creator         |-> [m \in Slots |->
                          IF m < KernelMutexes THEN Kernel ELSE NotUsed],
   lockProcess     |-> [m \in Slots |-> NotUsed],
   name            |-> [m \in Slots |-> <<>>],
   blocked         |-> [m \in Slots |-> [p \in Places |-> NotUsed]],
   blockedQuantity |-> [m \in Slots |-> 0],
   value           |-> [m \in Slots |-> "UNLOCKED"],
   first           |-> KernelMutexes,
   used            |-> KernelMutexes + 1,
   state           |-> [t \in Threads |-> "READY"]]

\* The fields keep their ranges; createMutex never counts past MAX_MUTEXES.
Tables ==
  [creator : [Slots -> Ids], lockProcess : [Slots -> Ids],
   name : [Slots -> Seq(Chars)],
   blocked : [Slots -> [Places -> Threads \union {NotUsed}]],
   blockedQuantity : [Slots -> Int],
   value : [Slots -> {"LOCKED", "UNLOCKED"}],
   first : Slots \union {FullList}, used : 0 .. MaxMutexes,
   state : [Threads -> {"READY", "BLOCKED"}]]

--------------------------------------------------------------------------------
(* The functions of mutex.c *)

isValidMutex(s, m) == m \in Slots /\ s.creator[m] # NotUsed

Waiting(s, m) == {p \in Places : s.blocked[m][p] # NotUsed}
Free(s, m)    == Places \ Waiting(s, m)

\* testAndSetLock swaps 64 bits at the 32-bit `value`, the last field of
\* mutex_t: the four zero bytes after it land in the next slot's creator.pid.
creatorAfterTestAndSet(s, m) ==
  IF m + 1 \in Slots THEN [s.creator EXCEPT ![m+1] = Kernel] ELSE s.creator

\* mutexDown(m) has to wait.
Waits(s, m) == isValidMutex(s, m) /\ s.value[m] = "LOCKED"

\* Slip: the lock is granted although it is taken.
mutexDownNoBlock(s, m, t) ==
  IF ~isValidMutex(s, m) THEN s
  ELSE [s EXCEPT !.creator = creatorAfterTestAndSet(s, m),
                 !.value[m] = "LOCKED",
                 !.lockProcess[m] = t]

mutexDown(s, m, t) ==
  IF ~isValidMutex(s, m) THEN s
  ELSE IF Waits(s, m)
  THEN [s EXCEPT !.creator = creatorAfterTestAndSet(s, m),
                 !.blocked[m][Min(Free(s, m))] = t,
                 !.blockedQuantity[m] = @ + 1,
                 !.state[t] = "BLOCKED"]
  ELSE [s EXCEPT !.creator = creatorAfterTestAndSet(s, m),
                 !.value[m] = "LOCKED",
                 !.lockProcess[m] = t]

\* Slip: the count of waiters is not brought down.
unlockProcessKeepsCount(s, m) ==
  LET p == Min(Waiting(s, m))
      w == s.blocked[m][p]
  IN [s EXCEPT !.lockProcess[m] = w, !.state[w] = "READY",
               !.blocked[m][p] = NotUsed]

\* unlockProcess when there is a waiter: the lock passes to the lowest place.
unlockProcess(s, m) ==
  LET p == Min(Waiting(s, m))
      w == s.blocked[m][p]
  IN [s EXCEPT !.lockProcess[m] = w, !.state[w] = "READY",
               !.blocked[m][p] = NotUsed, !.blockedQuantity[m] = @ - 1]

\* Slip: the value is set free whether or not a waiter got the lock.
mutexUpAlwaysFrees(s, m, t) ==
  IF ~(isValidMutex(s, m) /\ s.lockProcess[m] = t) THEN s
  ELSE IF s.blockedQuantity[m] = 0 THEN [s EXCEPT !.value[m] = "UNLOCKED"]
  ELSE [unlockProcess(s, m) EXCEPT !.value[m] = "UNLOCKED"]

\* Slip: anyone may unlock.
mutexUpAnyone(s, m, t) ==
  IF ~isValidMutex(s, m) THEN s
  ELSE IF s.blockedQuantity[m] = 0 THEN [s EXCEPT !.value[m] = "UNLOCKED"]
  ELSE unlockProcess(s, m)

mutexUp(s, m, t) ==
  IF ~(isValidMutex(s, m) /\ s.lockProcess[m] = t) THEN s
  ELSE IF s.blockedQuantity[m] = 0 THEN [s EXCEPT !.value[m] = "UNLOCKED"]
  ELSE unlockProcess(s, m)

getNextMutexAvailable(creator) ==
  LET free == {m \in Slots : creator[m] = NotUsed}
  IN IF free = {} THEN FullList ELSE Min(free)

\* memcpy copies the name without its NUL: the tail of a longer name that
\* the slot had before stays.
overlay(old, new) ==
  IF Len(new) >= Len(old) THEN new
  ELSE new \o SubSeq(old, Len(new) + 1, Len(old))

\* Slip: the bound is off by one.
canCreateOneMore(s, name) == s.used <= MaxMutexes /\ Len(name) < MaxName

canCreate(s, name) == s.used < MaxMutexes /\ Len(name) < MaxName

\* Slot `first` is written as it is: FULL_LIST lies outside the table.
createMutex(s, name, t) ==
  IF ~canCreate(s, name) THEN s
  ELSE IF s.first \notin Slots
  THEN [s EXCEPT !.used = @ + 1, !.first = getNextMutexAvailable(s.creator)]
  ELSE LET creator == [s.creator EXCEPT ![s.first] = t]
       IN [s EXCEPT !.name[s.first] = overlay(@, name),
                    !.creator = creator,
                    !.used = @ + 1,
                    !.first = getNextMutexAvailable(creator)]

found(s, name) == \E m \in Slots : s.name[m] = name /\ isValidMutex(s, m)

\* Slip: the table is not searched.
getMutexNoSearch(s, name, t) == mutexUp(createMutex(s, name, t), Admin, t)

\* getMutex once it has adminMutex.  A name that is found is returned at
\* once, and adminMutex stays locked.
getMutex(s, name, t) ==
  IF found(s, name) THEN s ELSE mutexUp(createMutex(s, name, t), Admin, t)

\* releaseMutex's loop of unlockProcess: every waiter is set ready and takes
\* its turn as lockProcess, the one in the highest place last.
unlockAll(s, m) ==
  LET woken == {s.blocked[m][p] : p \in Waiting(s, m)}
  IN [s EXCEPT !.lockProcess[m] = IF Waiting(s, m) = {} THEN NotUsed
                                  ELSE s.blocked[m][Max(Waiting(s, m))],
               !.state = [t \in Threads |-> IF t \in woken THEN "READY" ELSE @[t]],
               !.blocked[m] = [p \in Places |-> NotUsed],
               !.blockedQuantity[m] = 0]

mayRelease(s, m, t) == isValidMutex(s, m) /\ s.creator[m] = t

\* Slip: the waiters of a released mutex are forgotten.
releaseMutexKeepsWaiters(s, m, t) ==
  mutexUp(IF mayRelease(s, m, t)
          THEN [s EXCEPT !.creator[m] = NotUsed,
                         !.blocked[m] = [p \in Places |-> NotUsed],
                         !.blockedQuantity[m] = 0]
          ELSE s, Admin, t)

\* releaseMutex once it has adminMutex.
releaseMutex(s, m, t) ==
  mutexUp(IF mayRelease(s, m, t)
          THEN unlockAll([s EXCEPT !.creator[m] = NotUsed], m) ELSE s,
          Admin, t)

\* yield from a thread that has just been set BLOCKED: when nextProcess finds
\* no thread ready it marks the current one RUNNING and goes on with it.
nobodyReady(s) == ~IdleReady /\ \A t \in Threads : s.state[t] = "BLOCKED"

yield(s, t) == IF nobodyReady(s) THEN [s EXCEPT !.state[t] = "READY"] ELSE s
================================================================================
