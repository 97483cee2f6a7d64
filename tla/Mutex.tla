--------------------------------- MODULE Mutex ---------------------------------
(***************************************************************************)
(* The system calls on the kernel mutexes of TP2 (Kernel/sysCalls.c over   *)
(* Kernel/mutex.c).  A system call runs with interrupts off, so it is one  *)
(* step up to the point where mutexDown blocks its thread and yields; what *)
(* is left of the call is kept in `call` and runs when the thread is       *)
(* scheduled again (Resume).  The table is the record k of MutexTable.     *)
(***************************************************************************)
EXTENDS MutexTable

CONSTANT Handles      \* bound: the mutex numbers programs pass to system calls

ASSUME HandlesAssumption == Handles \subseteq Slots

Idle   == [op |-> "idle"]
Calls  == {Idle} \union [op : {"down", "release"}, m : Slots]
                 \union [op : {"get"}, name : Names]

VARIABLES
  k,          \* the mutex table and the states of the threads
  call,       \* what is left of each thread's system call
  \* history
  inside,     \* inside[m]: the threads back from mutexDown(m), before mutexUp
  released,   \* the slots releaseMutex has ever released
  owner,      \* owner[m]: for whom createMutex last made slot m
  forced      \* a blocked thread was run because nobody was ready

vars == <<k, call, inside, released, owner, forced>>

Init ==
  /\ k = KernelTable
  /\ call = [t \in Threads |-> Idle]
  /\ inside = [m \in Slots |-> {}]
  /\ released = {}
  /\ owner = [m \in Slots |-> IF m < KernelMutexes THEN Kernel ELSE NotUsed]
  /\ forced = FALSE

--------------------------------------------------------------------------------
(* The system calls *)

\* Thread t runs user code.
Runs(t) == call[t] = Idle /\ k.state[t] = "READY"

\* What call c of thread t does once its mutexDown has returned in state s.
Finish(s, t, c) ==
  /\ call' = [call EXCEPT ![t] = Idle]
  /\ \/ /\ c.op = "down"
        /\ k' = s
        /\ inside' = IF isValidMutex(s, c.m)
                     THEN [inside EXCEPT ![c.m] = @ \union {t}] ELSE inside
        /\ UNCHANGED <<released, owner>>
     \/ /\ c.op = "get"
        /\ k' = getMutex(s, c.name, t)
        /\ owner' = IF s.first \in Slots /\ k'.used # s.used
                    THEN [owner EXCEPT ![s.first] = t] ELSE owner
        /\ UNCHANGED <<inside, released>>
     \/ /\ c.op = "release"
        /\ k' = releaseMutex(s, c.m, t)
        /\ IF mayRelease(s, c.m, t)
           THEN /\ released' = released \union {c.m}
                /\ owner' = [owner EXCEPT ![c.m] = NotUsed]
           ELSE UNCHANGED <<released, owner>>
        /\ UNCHANGED inside

\* A call c whose first act is mutexDown(m).  Bound: there is room in m's list
\* of waiters (a full list kills the thread, which is not modelled here).
Begin(t, m, c) ==
  /\ Runs(t)
  /\ Waits(k, m) => Free(k, m) # {}
  /\ LET s == mutexDown(k, m, t)
     IN \/ /\ Waits(k, m)
           /\ k' = yield(s, t)
           /\ forced' = (forced \/ nobodyReady(s))
           /\ call' = [call EXCEPT ![t] = c]
           /\ UNCHANGED <<inside, released, owner>>
        \/ /\ ~Waits(k, m)
           /\ Finish(s, t, c)
           /\ UNCHANGED forced

sysCreateMutex(t, name) == Begin(t, Admin, [op |-> "get", name |-> name])

sysReleaseMutex(t, m) == Begin(t, Admin, [op |-> "release", m |-> m])

sysDownMutex(t, m) == Begin(t, m, [op |-> "down", m |-> m])

sysUpMutex(t, m) ==
  /\ Runs(t)
  /\ k' = mutexUp(k, m, t)
  /\ inside' = [inside EXCEPT ![m] = @ \ {t}]
  /\ UNCHANGED <<call, released, owner, forced>>

\* A thread that had to wait is scheduled again: it takes up its call after
\* mutexDown, which does not look at the mutex again.
Resume(t) ==
  /\ call[t] # Idle /\ k.state[t] = "READY"
  /\ Finish(k, t, call[t])
  /\ UNCHANGED forced

Next ==
  \E t \in Threads :
    \/ \E name \in Names : sysCreateMutex(t, name)
    \/ \E m \in Handles : sysReleaseMutex(t, m)
    \/ \E m \in Handles : sysDownMutex(t, m)
    \/ \E m \in Handles : sysUpMutex(t, m)
    \/ Resume(t)

Spec == Init /\ [][Next]_vars

--------------------------------------------------------------------------------
(* Properties *)

\* The table keeps the ranges of its fields, the history and the calls theirs.
TypeOK ==
  /\ k \in Tables /\ call \in [Threads -> Calls]
  /\ inside \in [Slots -> SUBSET Threads] /\ released \subseteq Slots
  /\ owner \in [Slots -> Ids] /\ forced \in BOOLEAN

\* blockedQuantity is the number of waiters in the list: releaseMutex's loop
\* `while(blockedQuantity > 0) unlockProcess(mutex)` ends, and mutexUp wakes
\* somebody whenever somebody waits (mutex.c:62, 184).
CountMatches ==
  \A m \in Slots : k.blockedQuantity[m] = Cardinality(Waiting(k, m))

\* Nobody waits for a mutex that is free, and a blocked thread is in the list
\* of some mutex, from where an unlock can still wake it (mutex.c:136-202).
NoLostWakeup ==
  /\ \A m \in Slots : k.value[m] = "UNLOCKED" => Waiting(k, m) = {}
  /\ \A t \in Threads : k.state[t] = "BLOCKED" =>
       \E m \in Slots : \E p \in Places : k.blocked[m][p] = t

\* Between its return from mutexDown and its mutexUp a thread is alone with
\* the mutex, and the kernel knows it as lockProcess; unless the mutex was
\* released meanwhile or the scheduler ran a blocked thread.
MutualExclusion ==
  ~forced => \A m \in Slots \ released : \A t \in inside[m] :
               /\ inside[m] = {t}
               /\ k.lockProcess[m] = t /\ k.value[m] = "LOCKED"

\* While some thread is always ready, the mutex of the table and of the heap
\* keeps the promise of Lock: a waiter gets it only from the holder, and a
\* waiter that runs again has it (mutex.c:24-33, 57-67, 136-202).
AdminLock == INSTANCE Lock WITH
  Nobody  <- NotUsed,
  holder  <- IF k.value[Admin] = "LOCKED" THEN k.lockProcess[Admin] ELSE NotUsed,
  waiters <- {k.blocked[Admin][p] : p \in Waiting(k, Admin)}

AdminIsALock == AdminLock!Spec

\* Two mutexes made for user threads do not share a name as long as no slot
\* is reused: getMutex's search and createMutex are one critical section.
UniqueNames ==
  \A m, n \in Slots \ released :
    owner[m] \in Threads /\ owner[n] \in Threads /\ k.name[m] = k.name[n]
      => m = n

\* The thread a mutex was made for stays its creator, the one that
\* releaseMutex lets release it.
CreatorKept ==
  \A m \in Slots : owner[m] \in Threads => k.creator[m] = owner[m]
================================================================================
