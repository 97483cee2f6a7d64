------------------------------ MODULE MutexProofs ------------------------------
(* Proofs about the kernel mutexes, for any number of threads, mutexes,      *)
(* places and names.                                                         *)
EXTENDS Mutex, MutexTableProofs

--------------------------------------------------------------------------------
(* The invariant of every behaviour. *)

OtherTypes ==
  /\ call \in [Threads -> Calls]
  /\ inside \in [Slots -> SUBSET Threads] /\ released \subseteq Slots
  /\ owner \in [Slots -> Ids] /\ forced \in BOOLEAN

\* What is left of a call, run from a sound table, leaves a sound one.
LEMMA FinishSound ==
  ASSUME OtherTypes, NEW s, Sound(s, {}), NEW t \in Threads, NEW c \in Calls,
         Finish(s, t, c), UNCHANGED forced
  PROVE  OtherTypes' /\ Sound(k', {})
<1>1. call' \in [Threads -> Calls]
  BY DEF Finish, OtherTypes, Calls
<1>2. CASE c.op = "down"
  <2>1. /\ k' = s /\ released' = released /\ owner' = owner
        /\ inside' = IF isValidMutex(s, c.m)
                     THEN [inside EXCEPT ![c.m] = @ \union {t}] ELSE inside
    BY <1>2 DEF Finish
  <2>2. inside' \in [Slots -> SUBSET Threads]
    BY <2>1 DEF OtherTypes
  <2> QED
    BY <1>1, <2>1, <2>2 DEF OtherTypes
<1>3. CASE c.op = "get"
  <2>1. c.name \in Names
    BY <1>3 DEF Calls, Idle
  <2>2. Sound(k', {})
    BY <1>3, <2>1, GetSound DEF Finish
  <2>3. owner' \in [Slots -> Ids] /\ inside' = inside /\ released' = released
    BY <1>3 DEF Finish, OtherTypes, Ids
  <2> QED
    BY <1>1, <2>2, <2>3 DEF OtherTypes
<1>4. CASE c.op = "release"
  <2>1. c.m \in Slots
    BY <1>4 DEF Calls, Idle
  <2>2. Sound(k', {})
    BY <1>4, <2>1, ReleaseSound DEF Finish
  <2>3. inside' = inside
    BY <1>4 DEF Finish
  <2>4. owner' \in [Slots -> Ids] /\ released' \subseteq Slots
    <3>1. CASE mayRelease(s, c.m, t)
      BY <1>4, <2>1, <3>1 DEF Finish, OtherTypes, Ids
    <3>2. CASE ~mayRelease(s, c.m, t)
      BY <1>4, <3>2 DEF Finish, OtherTypes
    <3> QED
      BY <3>1, <3>2
  <2> QED
    BY <1>1, <2>2, <2>3, <2>4 DEF OtherTypes
<1> QED
  BY <1>2, <1>3, <1>4 DEF Finish

LEMMA BeginSound ==
  ASSUME OtherTypes, Sound(k, {}), NEW t \in Threads, NEW m \in Slots,
         NEW c \in Calls, Begin(t, m, c)
  PROVE  OtherTypes' /\ Sound(k', {})
<1> DEFINE s == mutexDown(k, m, t)
<1>1. Sound(s, {})
  BY DownSound DEF Begin
<1>2. CASE Waits(k, m)
  <2>1. k' = yield(s, t) /\ UNCHANGED <<inside, released, owner>>
    BY <1>2 DEF Begin
  <2>2. Sound(k', {})
    BY <1>1, <2>1, YieldSound
  <2>3. call' \in [Threads -> Calls]
    BY <1>2 DEF Begin, OtherTypes
  <2>4. forced' \in BOOLEAN
    BY <1>2 DEF Begin, OtherTypes, nobodyReady
  <2> QED
    BY <2>1, <2>2, <2>3, <2>4 DEF OtherTypes
<1>3. CASE ~Waits(k, m)
  BY <1>1, <1>3, FinishSound DEF Begin
<1> QED
  BY <1>2, <1>3

\* In every reachable table the counts are those of the lists, nobody waits
\* for a free mutex, and every blocked thread is in a list.
THEOREM TablesSound == Spec => [](OtherTypes /\ Sound(k, {}))
<1>1. Init => OtherTypes /\ Sound(k, {})
  <2> SUFFICES ASSUME Init PROVE OtherTypes /\ Sound(k, {})
    OBVIOUS
  <2>1. OtherTypes
    BY DEF Init, KernelTable, OtherTypes, Calls, Ids
  <2>2. Sound(k, {})
    BY KernelSound DEF Init
  <2> QED
    BY <2>1, <2>2
<1>2. OtherTypes /\ Sound(k, {}) /\ [Next]_vars => OtherTypes' /\ Sound(k, {})'
  <2> SUFFICES ASSUME OtherTypes, Sound(k, {}), [Next]_vars
               PROVE  OtherTypes' /\ Sound(k', {})
    BY DEF Sound, Counts, Unwaited, Awaited, InList, Waiting
  <2>1. Admin \in Slots /\ Handles \subseteq Slots
    BY MutexAssumption, HandlesAssumption DEF Admin, Slots, KernelMutexes
  <2>2. ASSUME NEW t \in Threads, NEW name \in Names, sysCreateMutex(t, name)
        PROVE  OtherTypes' /\ Sound(k', {})
    BY <2>1, <2>2, BeginSound DEF sysCreateMutex, Calls
  <2>3. ASSUME NEW t \in Threads, NEW m \in Handles, sysReleaseMutex(t, m)
        PROVE  OtherTypes' /\ Sound(k', {})
    BY <2>1, <2>3, BeginSound DEF sysReleaseMutex, Calls
  <2>4. ASSUME NEW t \in Threads, NEW m \in Handles, sysDownMutex(t, m)
        PROVE  OtherTypes' /\ Sound(k', {})
    BY <2>1, <2>4, BeginSound DEF sysDownMutex, Calls
  <2>5. ASSUME NEW t \in Threads, NEW m \in Handles, sysUpMutex(t, m)
        PROVE  OtherTypes' /\ Sound(k', {})
    <3>1. Sound(k', {})
      BY <2>1, <2>5, UpSound DEF sysUpMutex
    <3>2. OtherTypes'
      BY <2>1, <2>5 DEF sysUpMutex, OtherTypes
    <3> QED
      BY <3>1, <3>2
  <2>6. ASSUME NEW t \in Threads, Resume(t)
        PROVE  OtherTypes' /\ Sound(k', {})
    <3>1. call[t] \in Calls
      BY DEF OtherTypes
    <3> QED
      BY <2>6, <3>1, FinishSound DEF Resume
  <2>7. CASE UNCHANGED vars
    BY <2>7 DEF vars, OtherTypes
  <2> QED
    BY <2>2, <2>3, <2>4, <2>5, <2>6, <2>7 DEF Next
<1> QED
  BY <1>1, <1>2, PTL DEF Spec

\* The type invariant.
THEOREM MutexTypes == Spec => []TypeOK
<1>1. OtherTypes /\ Sound(k, {}) => TypeOK
  BY DEF OtherTypes, Sound, TypeOK
<1> QED
  BY <1>1, TablesSound, PTL

\* releaseMutex's loop ends and mutexUp wakes somebody whenever somebody
\* waits: blockedQuantity is the number of waiters in the list.
THEOREM CountsMatch == Spec => []CountMatches
<1>1. OtherTypes /\ Sound(k, {}) => CountMatches
  BY DEF Sound, Counts, CountMatches
<1> QED
  BY <1>1, TablesSound, PTL

\* Nobody waits for a free mutex, and no thread is blocked outside the lists,
\* even when the scheduler runs blocked threads and slots are reused.
THEOREM WakeupsKept == Spec => []NoLostWakeup
<1>1. OtherTypes /\ Sound(k, {}) => NoLostWakeup
  BY DEF Sound, Unwaited, Awaited, InList, NoLostWakeup
<1> QED
  BY <1>1, TablesSound, PTL
================================================================================
