------------------------------- MODULE Semaphore --------------------------------
(***************************************************************************)
(* The kernel semaphores of TP2 (Kernel/semaphore.c) and the system calls  *)
(* on them, over the mutex table.  The table of semaphores is the record   *)
(* sem, one function on slots per field of semaphore_t.  A system call is  *)
(* one step up to a point where it blocks and yields: in mutexDown of the  *)
(* table's mutex, of adminMutex (inside getMutex and releaseMutex) or of   *)
(* the semaphore's own mutex, and in wait itself.  What is left of it is   *)
(* kept in `call` and done by Resume.                                      *)
(*                                                                         *)
(* init (MMU.c) is always ready, so a blocked thread stays blocked.        *)
(***************************************************************************)
EXTENDS MutexTable

CONSTANTS
  MaxSemaphores,   \* MAX_SEMAPHORES
  SemHandles,      \* bound: the semaphore numbers programs pass
  MutexHandles,    \* bound: the mutex numbers programs pass
  MaxSignals       \* bound: how often one semaphore is signalled

ASSUME SemaphoreAssumption ==
  /\ IsFiniteSet(Threads)
  /\ MaxSemaphores \in Nat \ {0} /\ MaxSignals \in Nat
  /\ SemHandles \subseteq 0 .. MaxSemaphores - 1 /\ MutexHandles \subseteq Slots
  /\ IdleReady

SemSlots  == 0 .. MaxSemaphores - 1
TableLock == 1           \* semaphoreMutex
NoMutex   == -2          \* MUTEX_CREATION_ERROR

Idle  == [op |-> "idle"]
Calls == {Idle} \union [op : {"down"}, m : Slots]
                \union [op : {"wait", "signal", "asleep", "release", "freed"}, q : SemSlots]
                \union [op : {"get"}, name : Names]
                \union [op : {"named"}, name : Names, q : SemSlots \union {FullList}]

VARIABLES
  k,          \* the mutex table and the states of the threads
  sem,        \* the table of semaphores
  call,       \* what is left of each thread's system call
  hung,       \* the kernel loops with interrupts off
  \* history
  signalled,  \* signalled[q]: calls of signal(q) done
  passed      \* passed[q]: calls of wait(q) that have come back

vars == <<k, sem, call, hung, signalled, passed>>

\* setupSemaphoreSystem; the table lies in memory that starts as zeros.
Init ==
  /\ k = KernelTable
  /\ sem = [creator         |-> [q \in SemSlots |-> NotUsed],
            name            |-> [q \in SemSlots |-> <<>>],
            blocked         |-> [q \in SemSlots |-> [p \in Places |-> NotUsed]],
            blockedQuantity |-> [q \in SemSlots |-> 0],
            value           |-> [q \in SemSlots |-> 0],
            mutex           |-> [q \in SemSlots |-> 0],
            first           |-> 0,
            used            |-> 0]
  /\ call = [t \in Threads |-> Idle]
  /\ hung = FALSE
  /\ signalled = [q \in SemSlots |-> 0]
  /\ passed = [q \in SemSlots |-> 0]

--------------------------------------------------------------------------------
(* The functions of semaphore.c, on the table *)

isValidSemaphore(q) == sem.creator[q] # NotUsed

foundSemaphore(name) == \E q \in SemSlots : sem.name[q] = name /\ isValidSemaphore(q)

SemWaiting(z, q) == {p \in Places : z.blocked[q][p] # NotUsed}

getNextSemaphoreAvailable(creator) ==
  LET free == {q \in SemSlots : creator[q] = NotUsed}
  IN IF free = {} THEN FullList ELSE Min(free)

canCreateSemaphore(name) == sem.used < MaxSemaphores /\ Len(name) < MaxName

\* createSemaphore before it calls getMutex: neither the value nor the list
\* of the slot is touched.
nameSlot(z, name, t) ==
  IF z.first \notin SemSlots THEN z
  ELSE [z EXCEPT !.name[z.first] = overlay(@, name), !.creator[z.first] = t]

\* What getMutex returns.
mutexNumber(s, name) ==
  IF found(s, name) THEN Min({m \in Slots : s.name[m] = name /\ isValidMutex(s, m)})
  ELSE IF canCreate(s, name) THEN s.first ELSE NoMutex

\* Slip: the failure of getMutex is not noticed.
setMutexUnchecked(z, q, m) ==
  [z EXCEPT !.mutex = IF q \in SemSlots THEN [@ EXCEPT ![q] = m] ELSE @,
            !.used = @ + 1,
            !.first = getNextSemaphoreAvailable(z.creator)]

\* createSemaphore with what getMutex returned.
setMutex(z, q, m) ==
  IF m = NoMutex THEN z
  ELSE [z EXCEPT !.mutex = IF q \in SemSlots THEN [@ EXCEPT ![q] = m] ELSE @,
                 !.used = @ + 1,
                 !.first = getNextSemaphoreAvailable(z.creator)]

addToSemaphoreBlocked(z, q, t) ==
  [z EXCEPT !.blocked[q][Min(Places \ SemWaiting(z, q))] = t,
            !.blockedQuantity[q] = @ + 1]

\* Slip: the place in the list is cleared, the count is not brought down.
takeFirstKeepsCount(z, q) ==
  IF z.blockedQuantity[q] = 0 THEN z
  ELSE [z EXCEPT !.blocked[q][Min(SemWaiting(z, q))] = NotUsed]

\* unlockSemaphoreProcess on the list: the waiter in the lowest place leaves.
takeFirst(z, q) ==
  IF z.blockedQuantity[q] = 0 THEN z
  ELSE [z EXCEPT !.blocked[q][Min(SemWaiting(z, q))] = NotUsed,
                 !.blockedQuantity[q] = @ - 1]

\* Slip: the waiter leaves the list and stays blocked.
wakeNobody(s, z, q) == s

\* unlockSemaphoreProcess on the threads: that waiter is set ready.
wakeFirst(s, z, q) ==
  IF z.blockedQuantity[q] = 0 THEN s
  ELSE [s EXCEPT !.state[z.blocked[q][Min(SemWaiting(z, q))]] = "READY"]

--------------------------------------------------------------------------------
(* What is left of a call when one of its mutexDown has come back; s is the  *)
(* mutex table at that point.                                                *)

Returns(t) == call' = [call EXCEPT ![t] = Idle]

\* mutexDown(m) blocks the call, c is left of it.  Bound: there is room in the
\* list of waiters (a full list kills the thread).
Blocks(t, s, m, c) ==
  /\ Waits(s, m) /\ Free(s, m) # {}
  /\ k' = mutexDown(s, m, t)
  /\ call' = [call EXCEPT ![t] = c]

\* createSemaphore from the mutexDown of getMutex on, end of getSemaphore.
Named(t, s, z, name, q) ==
  /\ k' = mutexUp(getMutex(s, name, t), TableLock, t)
  /\ sem' = setMutex(z, q, mutexNumber(s, name))
  /\ Returns(t)
  /\ UNCHANGED <<hung, signalled, passed>>

\* getSemaphore from its mutexDown on.  A name that is found is returned at
\* once, and semaphoreMutex stays locked.
Get(t, s, name) ==
  \/ /\ foundSemaphore(name)
     /\ k' = s /\ Returns(t)
     /\ UNCHANGED <<sem, hung, signalled, passed>>
  \/ /\ ~foundSemaphore(name) /\ ~canCreateSemaphore(name)
     /\ k' = mutexUp(s, TableLock, t) /\ Returns(t)
     /\ UNCHANGED <<sem, hung, signalled, passed>>
  \/ /\ ~foundSemaphore(name) /\ canCreateSemaphore(name)
     /\ LET z == nameSlot(sem, name, t)
        IN \/ /\ Blocks(t, s, Admin, [op |-> "named", name |-> name, q |-> sem.first])
              /\ sem' = z
              /\ UNCHANGED <<hung, signalled, passed>>
           \/ /\ ~Waits(s, Admin)
              /\ Named(t, mutexDown(s, Admin, t), z, name, sem.first)

\* releaseSemaphore from the mutexDown of releaseMutex on.  With a thread in
\* the list, `while(blockedQuantity > 0) unlockProcess(semaphore)` calls the
\* mutexes' function, which leaves this blockedQuantity alone, for ever.
Freed(t, s, q) ==
  LET r == releaseMutex(s, sem.mutex[q], t)
  IN /\ sem' = [sem EXCEPT !.creator[q] = NotUsed]
     /\ hung' = (sem.blockedQuantity[q] > 0)
     /\ k' = IF hung' THEN r ELSE mutexUp(r, TableLock, t)
     /\ Returns(t)
     /\ UNCHANGED <<signalled, passed>>

\* releaseSemaphore from its mutexDown on.
Release(t, s, q) ==
  \/ /\ sem.creator[q] # t
     /\ k' = mutexUp(s, TableLock, t) /\ Returns(t)
     /\ UNCHANGED <<sem, hung, signalled, passed>>
  \/ /\ sem.creator[q] = t
     /\ \/ /\ Blocks(t, s, Admin, [op |-> "freed", q |-> q])
           /\ UNCHANGED <<sem, hung, signalled, passed>>
        \/ ~Waits(s, Admin) /\ Freed(t, mutexDown(s, Admin, t), q)

\* Slip: the comparison is off by one.
mustWaitLate(value) == value <= 0

mustWait(value) == value < 0

\* wait from its mutexDown on.  Bound: there is room in the semaphore's list.
Wait(t, s, q) ==
  LET z == [sem EXCEPT !.value[q] = @ - 1]
  IN \/ /\ mustWait(z.value[q]) /\ Places \ SemWaiting(sem, q) # {}
        /\ sem' = addToSemaphoreBlocked(z, q, t)
        /\ k' = mutexUp([s EXCEPT !.state[t] = "BLOCKED"], sem.mutex[q], t)
        /\ call' = [call EXCEPT ![t] = [op |-> "asleep", q |-> q]]
        /\ UNCHANGED <<hung, signalled, passed>>
     \/ /\ ~mustWait(z.value[q])
        /\ sem' = z
        /\ k' = mutexUp(s, sem.mutex[q], t)
        /\ Returns(t)
        /\ passed' = [passed EXCEPT ![q] = @ + 1]
        /\ UNCHANGED <<hung, signalled>>

\* signal from its mutexDown on.
Signal(t, s, q) ==
  /\ sem' = [takeFirst(sem, q) EXCEPT !.value[q] = @ + 1]
  /\ k' = mutexUp(wakeFirst(s, sem, q), sem.mutex[q], t)
  /\ Returns(t)
  /\ signalled' = [signalled EXCEPT ![q] = @ + 1]
  /\ UNCHANGED <<hung, passed>>

\* Call c of thread t goes on in state s.
Continue(t, s, c) ==
  \/ c.op = "get" /\ Get(t, s, c.name)
  \/ c.op = "named" /\ Named(t, s, sem, c.name, c.q)
  \/ c.op = "release" /\ Release(t, s, c.q)
  \/ c.op = "freed" /\ Freed(t, s, c.q)
  \/ c.op = "wait" /\ Wait(t, s, c.q)
  \/ c.op = "signal" /\ Signal(t, s, c.q)
  \/ /\ c.op = "asleep"
     /\ k' = s /\ Returns(t)
     /\ passed' = [passed EXCEPT ![c.q] = @ + 1]
     /\ UNCHANGED <<sem, hung, signalled>>
  \/ /\ c.op = "down"
     /\ k' = s /\ Returns(t)
     /\ UNCHANGED <<sem, hung, signalled, passed>>

--------------------------------------------------------------------------------
(* The system calls *)

\* Thread t runs user code.
Runs(t) == ~hung /\ call[t] = Idle /\ k.state[t] = "READY"

\* A call whose first act is mutexDown(m).
Begin(t, m, c) ==
  /\ Runs(t)
  /\ \/ /\ Blocks(t, k, m, c)
        /\ UNCHANGED <<sem, hung, signalled, passed>>
     \/ ~Waits(k, m) /\ Continue(t, mutexDown(k, m, t), c)

sysCreateSemaphore(t, name) == Begin(t, TableLock, [op |-> "get", name |-> name])

sysReleaseSemphre(t, q) == Begin(t, TableLock, [op |-> "release", q |-> q])

sysWait(t, q) ==
  isValidSemaphore(q) /\ Begin(t, sem.mutex[q], [op |-> "wait", q |-> q])

sysSignal(t, q) ==
  /\ isValidSemaphore(q) /\ signalled[q] < MaxSignals
  /\ Begin(t, sem.mutex[q], [op |-> "signal", q |-> q])

sysDownMutex(t, m) == Begin(t, m, [op |-> "down", m |-> m])

sysUpMutex(t, m) ==
  /\ Runs(t)
  /\ k' = mutexUp(k, m, t)
  /\ UNCHANGED <<sem, call, hung, signalled, passed>>

\* A thread that was blocked is scheduled again and takes up its call.
Resume(t) ==
  /\ ~hung /\ call[t] # Idle /\ k.state[t] = "READY"
  /\ Continue(t, k, call[t])

Next ==
  \E t \in Threads :
    \/ \E name \in Names : sysCreateSemaphore(t, name)
    \/ \E q \in SemHandles : sysReleaseSemphre(t, q)
    \/ \E q \in SemHandles : sysWait(t, q)
    \/ \E q \in SemHandles : sysSignal(t, q)
    \/ \E m \in MutexHandles : sysDownMutex(t, m)
    \/ \E m \in MutexHandles : sysUpMutex(t, m)
    \/ Resume(t)

Spec == Init /\ [][Next]_vars

--------------------------------------------------------------------------------
(* Properties *)

\* Both tables keep the ranges of their fields, the rest its type.
SemTables ==
  [creator : [SemSlots -> Threads \union {NotUsed}],
   name : [SemSlots -> Seq(Chars)],
   blocked : [SemSlots -> [Places -> Threads \union {NotUsed}]],
   blockedQuantity : [SemSlots -> Int],
   value : [SemSlots -> Int],
   mutex : [SemSlots -> Slots \union {FullList}],
   first : SemSlots \union {FullList}, used : 0 .. MaxSemaphores]

TypeOK ==
  /\ k \in Tables /\ sem \in SemTables /\ call \in [Threads -> Calls]
  /\ hung \in BOOLEAN
  /\ signalled \in [SemSlots -> Nat] /\ passed \in [SemSlots -> Nat]

Positive(n) == IF n > 0 THEN n ELSE 0

\* A negative value is the number of threads in the list, and the list is
\* empty otherwise, whatever slots are reused and whoever waits for the
\* semaphore's mutex meanwhile: signal wakes somebody exactly when the value
\* says that somebody waits (semaphore.c:139-142, 187-196).
ValueCountsWaiters ==
  \A q \in SemSlots :
    /\ sem.blockedQuantity[q] = Cardinality(SemWaiting(sem, q))
    /\ sem.blockedQuantity[q] = Positive(-sem.value[q])

Asleep(q) == {t \in Threads : call[t] = [op |-> "asleep", q |-> q]}
Listed(q) == {sem.blocked[q][p] : p \in SemWaiting(sem, q)}

\* Every signal lets exactly one wait through: it is in a wait that has come
\* back, in a thread woken but not running yet, or in the value
\* (semaphore.c:132-170).
PermitsConserved ==
  \A q \in SemSlots :
    signalled[q] = passed[q] + Cardinality(Asleep(q) \ Listed(q))
                             + Positive(sem.value[q])

\* A thread waits in the list of a semaphore exactly while it is blocked in
\* wait on it, and any other blocked thread is in the list of a mutex:
\* nobody blocks where no signal or unlock finds it, and nobody in a list
\* runs (semaphore.c:142-146, 192-195).
SleepersListed ==
  /\ \A q \in SemSlots : Listed(q) = {t \in Asleep(q) : k.state[t] = "BLOCKED"}
  /\ \A t \in Threads : k.state[t] = "BLOCKED" =>
       \/ \E q \in SemSlots : t \in Listed(q)
       \/ \E m \in Slots : \E p \in Places : k.blocked[m][p] = t

\* Each semaphore keeps the promise of CountingSemaphore, through releases
\* and reuse of its slot (semaphore.c:36-57, 132-203).
Counting(q) == INSTANCE CountingSemaphore WITH
  permits <- Positive(sem.value[q]), waiters <- Listed(q)

CountingStep(q) == [Counting(q)!Next]_<<Positive(sem.value[q]), Listed(q)>>

SemaphoresCount ==
  /\ \A q \in SemSlots : Counting(q)!Init
  /\ [][\A q \in SemSlots : CountingStep(q)]_vars
================================================================================
