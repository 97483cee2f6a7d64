---------------------------- MODULE MutexTableProofs ---------------------------
(* Lemmas about the functions of mutex.c on a table, for any number of       *)
(* threads, mutexes, places and names.                                       *)
EXTENDS MutexTable, MinMax, FiniteSetTheorems, TLAPS

--------------------------------------------------------------------------------
(* The counts are those of the lists, nobody waits for a free mutex, and     *)
(* every blocked thread, except those in X, is in a list.                    *)

Counts(s)    == \A m \in Slots : s.blockedQuantity[m] = Cardinality(Waiting(s, m))
Unwaited(s)  == \A m \in Slots : s.value[m] = "UNLOCKED" => Waiting(s, m) = {}
InList(s, t) == \E m \in Slots : \E p \in Places : s.blocked[m][p] = t
Awaited(s, X) == \A t \in Threads \ X : s.state[t] = "BLOCKED" => InList(s, t)

Sound(s, X) == s \in Tables /\ Counts(s) /\ Unwaited(s) /\ Awaited(s, X)

LEMMA WaitingFinite ==
  ASSUME NEW s, NEW m
  PROVE  /\ Waiting(s, m) \subseteq Places /\ Places \subseteq Nat
         /\ IsFiniteSet(Waiting(s, m))
         /\ (Cardinality(Waiting(s, m)) = 0 <=> Waiting(s, m) = {})
         /\ Cardinality(Waiting(s, m)) \in Nat
<1>1. IsFiniteSet(Places)
  BY FS_Interval, MutexAssumption DEF Places
<1>2. Waiting(s, m) \subseteq Places /\ Places \subseteq Nat
  BY MutexAssumption DEF Waiting, Places
<1>3. IsFiniteSet(Waiting(s, m))
  BY <1>1, <1>2, FS_Subset
<1> QED
  BY <1>2, <1>3, FS_EmptySet, FS_CardinalityType

\* The table the kernel starts programs with.
LEMMA KernelSound ==
  /\ KernelTable \in Tables
  /\ \A X : Sound(KernelTable, X)
  /\ \A t \in Threads : ~InList(KernelTable, t)
<1>1. KernelTable \in Tables
  <2>1. \A m \in Slots : <<>> \in Seq(Chars)
    OBVIOUS
  <2>2. KernelMutexes \in Slots /\ KernelMutexes + 1 \in 0 .. MaxMutexes
    BY MutexAssumption DEF KernelMutexes, Slots
  <2> QED
    BY <2>1, <2>2 DEF KernelTable, Tables, Ids
<1>2. \A m \in Slots : Waiting(KernelTable, m) = {}
  BY DEF KernelTable, Waiting
<1>3. Counts(KernelTable) /\ Unwaited(KernelTable)
  BY <1>2, FS_EmptySet DEF KernelTable, Counts, Unwaited
<1>4. \A X : Awaited(KernelTable, X)
  BY DEF KernelTable, Awaited
<1>5. \A t \in Threads : ~InList(KernelTable, t)
  BY MutexAssumption DEF KernelTable, InList
<1> QED
  BY <1>1, <1>3, <1>4, <1>5 DEF Sound

\* The fields of a table after testAndSetLock.
LEMMA CreatorType ==
  ASSUME NEW s \in Tables, NEW m \in Slots
  PROVE  creatorAfterTestAndSet(s, m) \in [Slots -> Ids]
BY DEF Tables, creatorAfterTestAndSet, Ids

\* mutexDown that waits, mutexDown that does not.
LEMMA DownSound ==
  ASSUME NEW s, NEW X, Sound(s, X), NEW m, NEW t \in Threads,
         Waits(s, m) => Free(s, m) # {}
  PROVE  Sound(mutexDown(s, m, t), X)
<1> DEFINE r == mutexDown(s, m, t)
<1> USE DEF Sound
<1>1. CASE ~isValidMutex(s, m)
  BY <1>1 DEF mutexDown
<1>2. CASE isValidMutex(s, m) /\ Waits(s, m)
  <2> m \in Slots
    BY <1>2 DEF isValidMutex
  <2> DEFINE p == Min(Free(s, m))
  <2>1. p \in Places /\ s.blocked[m][p] = NotUsed
    <3>1. Free(s, m) \in SUBSET Nat /\ Free(s, m) # {}
      BY <1>2, WaitingFinite DEF Free
    <3> QED
      BY <3>1, MinIsLeast DEF Free, Waiting
  <2>2. p \notin Waiting(s, m)
    BY <2>1 DEF Waiting
  <2> HIDE DEF p
  <2>3. r = [s EXCEPT !.creator = creatorAfterTestAndSet(s, m),
                      !.blocked[m][p] = t,
                      !.blockedQuantity[m] = @ + 1,
                      !.state[t] = "BLOCKED"]
    BY <1>2 DEF mutexDown, p
  <2> HIDE DEF r
  <2>4. /\ r \in Tables
        /\ r.blocked = [s.blocked EXCEPT ![m] = [s.blocked[m] EXCEPT ![p] = t]]
        /\ r.blockedQuantity = [s.blockedQuantity EXCEPT ![m] = @ + 1]
        /\ r.value = s.value
        /\ r.state = [s.state EXCEPT ![t] = "BLOCKED"]
    <3>1. /\ r.blocked = [s.blocked EXCEPT ![m] = [s.blocked[m] EXCEPT ![p] = t]]
          /\ r.blockedQuantity = [s.blockedQuantity EXCEPT ![m] = @ + 1]
          /\ r.value = s.value /\ r.lockProcess = s.lockProcess
          /\ r.name = s.name /\ r.first = s.first /\ r.used = s.used
          /\ r.state = [s.state EXCEPT ![t] = "BLOCKED"]
          /\ r.creator = creatorAfterTestAndSet(s, m)
      BY <2>3 DEF Tables
    <3>2. r.blocked \in [Slots -> [Places -> Threads \union {NotUsed}]]
      BY <2>1, <3>1 DEF Tables
    <3>3. /\ r.blockedQuantity \in [Slots -> Int]
          /\ r.state \in [Threads -> {"READY", "BLOCKED"}]
      BY <3>1 DEF Tables
    <3>4. r \in Tables
      BY <2>3, <3>1, <3>2, <3>3, CreatorType DEF Tables
    <3> QED
      BY <3>1, <3>4
  <2>5. Waiting(r, m) = Waiting(s, m) \union {p}
    BY <2>1, <2>4, MutexAssumption DEF Waiting, Tables
  <2>6. \A n \in Slots : n # m => Waiting(r, n) = Waiting(s, n)
    BY <2>4 DEF Waiting, Tables
  <2>7. Counts(r)
    <3>1. Cardinality(Waiting(r, m)) = Cardinality(Waiting(s, m)) + 1
      BY <2>2, <2>5, WaitingFinite, FS_AddElement
    <3>2. r.blockedQuantity[m] = s.blockedQuantity[m] + 1
          /\ \A n \in Slots : n # m => r.blockedQuantity[n] = s.blockedQuantity[n]
      BY <2>4 DEF Tables
    <3>3. Counts(s)
      BY DEF Sound
    <3> QED
      BY <2>6, <3>1, <3>2, <3>3 DEF Counts
  <2>8. Unwaited(r)
    BY <1>2, <2>4, <2>6 DEF Unwaited, Waits
  <2>9. Awaited(r, X)
    <3>1. InList(r, t)
      BY <2>1, <2>4 DEF InList, Tables
    <3>2. ASSUME NEW u \in Threads, InList(s, u) PROVE InList(r, u)
      <4>1. PICK n \in Slots, q \in Places : s.blocked[n][q] = u
        BY <3>2 DEF InList
      <4>2. ~(n = m /\ q = p)
        BY <2>1, <4>1, MutexAssumption
      <4>3. r.blocked[n][q] = u
        BY <2>1, <2>4, <4>1, <4>2 DEF Tables
      <4> QED
        BY <4>3 DEF InList
    <3> QED
      BY <2>4, <3>1, <3>2 DEF Awaited, Tables
  <2> QED
    BY <2>4, <2>7, <2>8, <2>9 DEF r
<1>3. CASE isValidMutex(s, m) /\ ~Waits(s, m)
  <2> m \in Slots
    BY <1>3 DEF isValidMutex
  <2>1. r = [s EXCEPT !.creator = creatorAfterTestAndSet(s, m),
                      !.value[m] = "LOCKED",
                      !.lockProcess[m] = t]
    BY <1>3 DEF mutexDown
  <2> HIDE DEF r
  <2>2. /\ r \in Tables /\ r.blocked = s.blocked /\ r.state = s.state
        /\ r.blockedQuantity = s.blockedQuantity
        /\ r.value = [s.value EXCEPT ![m] = "LOCKED"]
    BY <2>1, CreatorType DEF Tables, Ids
  <2>3. \A n \in Slots : Waiting(r, n) = Waiting(s, n)
    BY <2>2 DEF Waiting
  <2>4. Counts(r) /\ Awaited(r, X)
    BY <2>2, <2>3 DEF Counts, Awaited, InList
  <2>5. Unwaited(r)
    BY <2>2, <2>3 DEF Unwaited, Tables
  <2> QED
    BY <2>2, <2>4, <2>5 DEF r
<1> QED
  BY <1>1, <1>2, <1>3

\* unlockProcess with a waiter: who it wakes, and what it leaves.
LEMMA UnlockFields ==
  ASSUME NEW s \in Tables, NEW m \in Slots, Waiting(s, m) # {}
  PROVE  LET r == unlockProcess(s, m)
             p == Min(Waiting(s, m))
             w == s.blocked[m][p]
         IN /\ p \in Waiting(s, m) /\ p \in Places /\ w \in Threads
            /\ r \in Tables
            /\ r.lockProcess = [s.lockProcess EXCEPT ![m] = w]
            /\ r.blocked = [s.blocked EXCEPT ![m] = [s.blocked[m] EXCEPT ![p] = NotUsed]]
            /\ r.blockedQuantity = [s.blockedQuantity EXCEPT ![m] = @ - 1]
            /\ r.state = [s.state EXCEPT ![w] = "READY"]
            /\ r.value = s.value /\ r.creator = s.creator /\ r.name = s.name
            /\ r.first = s.first /\ r.used = s.used
<1> DEFINE p == Min(Waiting(s, m))
           w == s.blocked[m][p]
           r == unlockProcess(s, m)
<1>1. p \in Waiting(s, m)
  BY WaitingFinite, MinIsLeast
<1>2. p \in Places /\ w \in Threads
  <2>1. p \in Places /\ w # NotUsed
    BY <1>1 DEF Waiting
  <2>2. s.blocked[m] \in [Places -> Threads \union {NotUsed}]
    BY DEF Tables
  <2> HIDE DEF p
  <2> QED
    BY <2>1, <2>2
<1>3. r = [s EXCEPT !.lockProcess[m] = w, !.state[w] = "READY",
                    !.blocked[m][p] = NotUsed, !.blockedQuantity[m] = @ - 1]
  BY DEF unlockProcess
<1> HIDE DEF p, w, r
<1>4. /\ r.lockProcess = [s.lockProcess EXCEPT ![m] = w]
      /\ r.blocked = [s.blocked EXCEPT ![m] = [s.blocked[m] EXCEPT ![p] = NotUsed]]
      /\ r.blockedQuantity = [s.blockedQuantity EXCEPT ![m] = @ - 1]
      /\ r.state = [s.state EXCEPT ![w] = "READY"]
      /\ r.value = s.value /\ r.creator = s.creator /\ r.name = s.name
      /\ r.first = s.first /\ r.used = s.used
  BY <1>3 DEF Tables
<1>5. /\ r.lockProcess \in [Slots -> Ids]
      /\ r.blockedQuantity \in [Slots -> Int]
      /\ r.state \in [Threads -> {"READY", "BLOCKED"}]
  BY <1>2, <1>4 DEF Tables, Ids
<1>6. r.blocked \in [Slots -> [Places -> Threads \union {NotUsed}]]
  BY <1>2, <1>4 DEF Tables
<1>7. r \in Tables
  BY <1>3, <1>4, <1>5, <1>6 DEF Tables
<1> QED
  BY <1>1, <1>2, <1>4, <1>7 DEF p, w, r

LEMMA UnlockSound ==
  ASSUME NEW s, NEW X, Sound(s, X), NEW m \in Slots, Waiting(s, m) # {}
  PROVE  Sound(unlockProcess(s, m), X)
<1> DEFINE p == Min(Waiting(s, m))
           w == s.blocked[m][p]
           r == unlockProcess(s, m)
<1>1. s \in Tables /\ Counts(s) /\ Unwaited(s) /\ Awaited(s, X)
  BY DEF Sound
<1>2. /\ p \in Waiting(s, m) /\ p \in Places /\ w \in Threads
      /\ r \in Tables
      /\ r.blocked = [s.blocked EXCEPT ![m] = [s.blocked[m] EXCEPT ![p] = NotUsed]]
      /\ r.blockedQuantity = [s.blockedQuantity EXCEPT ![m] = @ - 1]
      /\ r.state = [s.state EXCEPT ![w] = "READY"]
      /\ r.value = s.value
  BY <1>1, UnlockFields
<1>a. w = s.blocked[m][p]
  OBVIOUS
<1> HIDE DEF p, w, r
<1>b. /\ s.blocked \in [Slots -> [Places -> Threads \union {NotUsed}]]
      /\ s.blockedQuantity \in [Slots -> Int]
  BY <1>1 DEF Tables
<1>c. /\ r.blocked[m] = [s.blocked[m] EXCEPT ![p] = NotUsed]
      /\ \A n \in Slots : n # m => r.blocked[n] = s.blocked[n]
  BY <1>2, <1>b
<1>3. Waiting(r, m) = Waiting(s, m) \ {p}
  BY <1>2, <1>b, <1>c DEF Waiting
<1>4. \A n \in Slots : n # m => Waiting(r, n) = Waiting(s, n)
  BY <1>c DEF Waiting
<1>5. Counts(r)
  <2>1. Cardinality(Waiting(r, m)) = Cardinality(Waiting(s, m)) - 1
    <3>1. IsFiniteSet(Waiting(s, m)) /\ p \in Waiting(s, m)
      BY <1>2, WaitingFinite
    <3> QED
      BY <1>3, <3>1, FS_RemoveElement
  <2>2. r.blockedQuantity[m] = s.blockedQuantity[m] - 1
        /\ \A n \in Slots : n # m => r.blockedQuantity[n] = s.blockedQuantity[n]
    BY <1>2, <1>b
  <2> QED
    BY <1>1, <1>4, <2>1, <2>2 DEF Counts
<1>6. Unwaited(r)
  BY <1>1, <1>2, <1>4 DEF Unwaited
<1>7. Awaited(r, X)
  <2> SUFFICES ASSUME NEW u \in Threads \ X, r.state[u] = "BLOCKED"
               PROVE  InList(r, u)
    BY DEF Awaited
  <2>1. u # w /\ s.state[u] = "BLOCKED"
    BY <1>1, <1>2 DEF Tables
  <2>2. PICK n \in Slots, q \in Places : s.blocked[n][q] = u
    BY <1>1, <2>1 DEF Awaited, InList
  <2>3. r.blocked[n][q] = u
    BY <1>1, <1>2, <1>a, <2>1, <2>2 DEF Tables
  <2> QED
    BY <2>3 DEF InList
<1> QED
  BY <1>2, <1>5, <1>6, <1>7 DEF Sound, r

\* A change of a table that leaves the waiters, the values and the states.
LEMMA SameWaitersSound ==
  ASSUME NEW s, NEW X, Sound(s, X), NEW r \in Tables,
         r.blocked = s.blocked, r.blockedQuantity = s.blockedQuantity,
         r.value = s.value, r.state = s.state
  PROVE  Sound(r, X)
<1>1. \A n \in Slots : Waiting(r, n) = Waiting(s, n)
  BY DEF Waiting
<1> QED
  BY <1>1 DEF Sound, Counts, Unwaited, Awaited, InList

LEMMA UpSound ==
  ASSUME NEW s, NEW X, Sound(s, X), NEW m, NEW t
  PROVE  Sound(mutexUp(s, m, t), X)
<1> DEFINE r == [s EXCEPT !.value[m] = "UNLOCKED"]
<1>1. s \in Tables
  BY DEF Sound
<1>2. CASE m \notin Slots
  BY <1>2 DEF mutexUp, isValidMutex
<1>3. CASE m \in Slots /\ s.blockedQuantity[m] = 0
  <2>1. Waiting(s, m) = {}
    BY <1>3, WaitingFinite DEF Sound, Counts
  <2>2. /\ r \in Tables /\ r.blocked = s.blocked /\ r.state = s.state
        /\ r.blockedQuantity = s.blockedQuantity
        /\ r.value = [s.value EXCEPT ![m] = "UNLOCKED"]
    BY <1>1, <1>3 DEF Tables
  <2> HIDE DEF r
  <2>3. \A n \in Slots : Waiting(r, n) = Waiting(s, n)
    BY <2>2 DEF Waiting
  <2>4. Sound(r, X)
    BY <1>1, <2>1, <2>2, <2>3
       DEF Sound, Counts, Unwaited, Awaited, InList, Tables
  <2> QED
    BY <1>3, <2>4 DEF mutexUp, r
<1>4. CASE m \in Slots /\ s.blockedQuantity[m] # 0
  <2>1. Waiting(s, m) # {}
    BY <1>4, WaitingFinite DEF Sound, Counts
  <2> QED
    BY <1>4, <2>1, UnlockSound DEF mutexUp
<1> QED
  BY <1>2, <1>3, <1>4

\* The slot createMutex will use next lies in the table, or is FULL_LIST.
LEMMA NextAvailableType ==
  ASSUME NEW creator
  PROVE  getNextMutexAvailable(creator) \in Slots \union {FullList}
<1> DEFINE free == {m \in Slots : creator[m] = NotUsed}
<1>1. free \in SUBSET Nat /\ free \subseteq Slots
  BY MutexAssumption DEF Slots
<1>2. free # {} => Min(free) \in free
  BY <1>1, MinIsLeast
<1> QED
  BY <1>1, <1>2 DEF getNextMutexAvailable

LEMMA OverlayType ==
  ASSUME NEW old \in Seq(Chars), NEW new \in Seq(Chars)
  PROVE  overlay(old, new) \in Seq(Chars)
<1>1. CASE Len(new) >= Len(old)
  BY <1>1 DEF overlay
<1>2. CASE ~(Len(new) >= Len(old))
  <2>1. Len(new) \in Nat /\ Len(old) \in Nat
    OBVIOUS
  <2>2. SubSeq(old, Len(new) + 1, Len(old)) \in Seq(Chars)
    BY <1>2, <2>1
  <2> QED
    BY <1>2, <2>2 DEF overlay
<1> QED
  BY <1>1, <1>2

LEMMA CreateSound ==
  ASSUME NEW s, NEW X, Sound(s, X), NEW name \in Names, NEW t \in Threads
  PROVE  Sound(createMutex(s, name, t), X)
<1> DEFINE r == createMutex(s, name, t)
<1>1. s \in Tables /\ name \in Seq(Chars)
  BY MutexAssumption DEF Sound
<1>2. CASE ~canCreate(s, name)
  BY <1>2 DEF createMutex
<1>3. CASE canCreate(s, name) /\ s.first \notin Slots
  <2>1. r = [s EXCEPT !.used = @ + 1, !.first = getNextMutexAvailable(s.creator)]
    BY <1>3 DEF createMutex
  <2> HIDE DEF r
  <2>2. s.used + 1 \in 0 .. MaxMutexes
    BY <1>1, <1>3, MutexAssumption DEF canCreate, Tables
  <2>3. /\ r \in Tables /\ r.blocked = s.blocked /\ r.value = s.value
        /\ r.blockedQuantity = s.blockedQuantity /\ r.state = s.state
    BY <1>1, <2>1, <2>2, NextAvailableType DEF Tables
  <2> QED
    BY <2>3, SameWaitersSound DEF r
<1>4. CASE canCreate(s, name) /\ s.first \in Slots
  <2> DEFINE c == [s.creator EXCEPT ![s.first] = t]
             f == getNextMutexAvailable(c)
  <2>1. r = [s EXCEPT !.name[s.first] = overlay(@, name), !.creator = c,
                      !.used = @ + 1, !.first = f]
    BY <1>4 DEF createMutex
  <2>2. c \in [Slots -> Ids] /\ f \in Slots \union {FullList}
    BY <1>1, NextAvailableType DEF Tables, Ids
  <2> HIDE DEF r, c, f
  <2>3. s.used + 1 \in 0 .. MaxMutexes
    BY <1>1, <1>4, MutexAssumption DEF canCreate, Tables
  <2>4. overlay(s.name[s.first], name) \in Seq(Chars)
    BY <1>1, <1>4, OverlayType DEF Tables
  <2>5. /\ r.blocked = s.blocked /\ r.value = s.value
        /\ r.blockedQuantity = s.blockedQuantity /\ r.state = s.state
        /\ r.lockProcess = s.lockProcess /\ r.creator = c
        /\ r.used = s.used + 1 /\ r.first = f
        /\ r.name = [s.name EXCEPT ![s.first] = overlay(s.name[s.first], name)]
    BY <1>1, <2>1 DEF Tables
  <2>6. r.name \in [Slots -> Seq(Chars)]
    BY <1>1, <1>4, <2>4, <2>5 DEF Tables
  <2>7. r \in Tables
    BY <1>1, <2>1, <2>2, <2>3, <2>5, <2>6 DEF Tables
  <2> QED
    BY <2>5, <2>7, SameWaitersSound DEF r
<1> QED
  BY <1>2, <1>3, <1>4

LEMMA GetSound ==
  ASSUME NEW s, NEW X, Sound(s, X), NEW name \in Names, NEW t \in Threads
  PROVE  Sound(getMutex(s, name, t), X)
<1>1. Admin \in Slots
  BY MutexAssumption DEF Admin, Slots, KernelMutexes
<1>2. Sound(mutexUp(createMutex(s, name, t), Admin, t), X)
  BY <1>1, CreateSound, UpSound
<1> QED
  BY <1>2 DEF getMutex

\* The fields of a table after releaseMutex's loop.
LEMMA UnlockAllFields ==
  ASSUME NEW s \in Tables, NEW m \in Slots
  PROVE  LET r == unlockAll(s, m)
         IN /\ r \in Tables
            /\ r.blocked = [s.blocked EXCEPT ![m] = [p \in Places |-> NotUsed]]
            /\ r.blockedQuantity = [s.blockedQuantity EXCEPT ![m] = 0]
            /\ r.state = [t \in Threads |->
                            IF \E p \in Waiting(s, m) : s.blocked[m][p] = t
                            THEN "READY" ELSE s.state[t]]
            /\ r.value = s.value /\ r.creator = s.creator
            /\ \A n \in Slots : n # m => r.lockProcess[n] = s.lockProcess[n]
<1> DEFINE woken == {s.blocked[m][p] : p \in Waiting(s, m)}
           last == IF Waiting(s, m) = {} THEN NotUsed
                   ELSE s.blocked[m][Max(Waiting(s, m))]
           empty == [p \in Places |-> NotUsed]
           state == [t \in Threads |-> IF t \in woken THEN "READY" ELSE s.state[t]]
           r == unlockAll(s, m)
<1>1. last \in Ids
  <2>1. CASE Waiting(s, m) = {}
    BY <2>1 DEF Ids
  <2>2. CASE Waiting(s, m) # {}
    <3>1. MaxBlocked - 1 \in Nat /\ Waiting(s, m) \in SUBSET (0 .. MaxBlocked - 1)
      BY MutexAssumption DEF Waiting, Places
    <3>2. Max(Waiting(s, m)) \in Places
      BY <2>2, <3>1, MaxIsGreatest DEF Places
    <3>3. s.blocked[m] \in [Places -> Threads \union {NotUsed}]
      BY DEF Tables
    <3> QED
      BY <2>2, <3>2, <3>3 DEF Ids
  <2> QED
    BY <2>1, <2>2
<1>2. state \in [Threads -> {"READY", "BLOCKED"}]
  BY DEF Tables
<1>3. r = [s EXCEPT !.lockProcess[m] = last, !.state = state,
                    !.blocked[m] = empty, !.blockedQuantity[m] = 0]
  BY DEF unlockAll, Tables
<1>4. state = [t \in Threads |->
                 IF \E p \in Waiting(s, m) : s.blocked[m][p] = t
                 THEN "READY" ELSE s.state[t]]
  OBVIOUS
<1>5. empty \in [Places -> Threads \union {NotUsed}]
  OBVIOUS
<1> HIDE DEF r, last, state, woken
<1>6. /\ r.lockProcess = [s.lockProcess EXCEPT ![m] = last] /\ r.state = state
      /\ r.blocked = [s.blocked EXCEPT ![m] = empty]
      /\ r.blockedQuantity = [s.blockedQuantity EXCEPT ![m] = 0]
      /\ r.value = s.value /\ r.creator = s.creator /\ r.name = s.name
      /\ r.first = s.first /\ r.used = s.used
  BY <1>3 DEF Tables
<1>7. /\ r.lockProcess \in [Slots -> Ids] /\ r.blockedQuantity \in [Slots -> Int]
      /\ r.blocked \in [Slots -> [Places -> Threads \union {NotUsed}]]
  BY <1>1, <1>5, <1>6 DEF Tables
<1>8. r \in Tables
  BY <1>2, <1>3, <1>6, <1>7 DEF Tables
<1>9. \A n \in Slots : n # m => r.lockProcess[n] = s.lockProcess[n]
  BY <1>6 DEF Tables
<1> QED
  BY <1>4, <1>6, <1>8, <1>9 DEF r

LEMMA UnlockAllSound ==
  ASSUME NEW s, NEW X, Sound(s, X), NEW m \in Slots
  PROVE  Sound(unlockAll(s, m), X)
<1> DEFINE r == unlockAll(s, m)
<1>1. s \in Tables /\ Counts(s) /\ Unwaited(s) /\ Awaited(s, X)
  BY DEF Sound
<1>2. /\ r \in Tables
      /\ r.blocked = [s.blocked EXCEPT ![m] = [p \in Places |-> NotUsed]]
      /\ r.blockedQuantity = [s.blockedQuantity EXCEPT ![m] = 0]
      /\ r.state = [t \in Threads |->
                      IF \E p \in Waiting(s, m) : s.blocked[m][p] = t
                      THEN "READY" ELSE s.state[t]]
      /\ r.value = s.value
  BY <1>1, UnlockAllFields
<1> HIDE DEF r
<1>3. Waiting(r, m) = {}
  BY <1>1, <1>2 DEF Waiting, Tables
<1>4. \A n \in Slots : n # m => Waiting(r, n) = Waiting(s, n)
  BY <1>1, <1>2 DEF Waiting, Tables
<1>5. Counts(r)
  <2>1. r.blockedQuantity[m] = Cardinality(Waiting(r, m))
    BY <1>1, <1>2, <1>3, FS_EmptySet DEF Tables
  <2>2. \A n \in Slots : n # m => r.blockedQuantity[n] = s.blockedQuantity[n]
    BY <1>1, <1>2 DEF Tables
  <2> QED
    BY <1>1, <1>4, <2>1, <2>2 DEF Counts
<1>6. Unwaited(r)
  BY <1>1, <1>2, <1>3, <1>4 DEF Unwaited
<1>7. Awaited(r, X)
  <2> SUFFICES ASSUME NEW u \in Threads \ X, r.state[u] = "BLOCKED"
               PROVE  InList(r, u)
    BY DEF Awaited
  <2>1. s.state[u] = "BLOCKED" /\ ~\E p \in Waiting(s, m) : s.blocked[m][p] = u
    BY <1>2
  <2>2. PICK n \in Slots, q \in Places : s.blocked[n][q] = u
    BY <1>1, <2>1 DEF Awaited, InList
  <2>3. n # m
    BY <2>1, <2>2, MutexAssumption DEF Waiting
  <2>4. r.blocked[n][q] = u
    BY <1>1, <1>2, <2>2, <2>3 DEF Tables
  <2> QED
    BY <2>4 DEF InList
<1> QED
  BY <1>2, <1>5, <1>6, <1>7 DEF Sound, r

LEMMA ReleasedSound ==
  ASSUME NEW s, NEW X, Sound(s, X), NEW m \in Slots
  PROVE  Sound(unlockAll([s EXCEPT !.creator[m] = NotUsed], m), X)
<1> DEFINE r == [s EXCEPT !.creator[m] = NotUsed]
<1>1. /\ r \in Tables /\ r.blocked = s.blocked /\ r.value = s.value
      /\ r.blockedQuantity = s.blockedQuantity /\ r.state = s.state
  BY DEF Sound, Tables, Ids
<1> HIDE DEF r
<1>2. Sound(r, X)
  BY <1>1, SameWaitersSound
<1> QED
  BY <1>2, UnlockAllSound DEF r

LEMMA ReleaseSound ==
  ASSUME NEW s, NEW X, Sound(s, X), NEW m, NEW t
  PROVE  Sound(releaseMutex(s, m, t), X)
<1>1. CASE mayRelease(s, m, t)
  <2>1. m \in Slots
    BY <1>1 DEF mayRelease, isValidMutex
  <2> QED
    BY <1>1, <2>1, ReleasedSound, UpSound DEF releaseMutex
<1>2. CASE ~mayRelease(s, m, t)
  BY <1>2, UpSound DEF releaseMutex
<1> QED
  BY <1>1, <1>2

LEMMA YieldSound ==
  ASSUME NEW s, NEW X, Sound(s, X), NEW t \in Threads
  PROVE  Sound(yield(s, t), X)
<1> DEFINE r == [s EXCEPT !.state[t] = "READY"]
<1>1. /\ r \in Tables /\ r.blocked = s.blocked /\ r.value = s.value
      /\ r.blockedQuantity = s.blockedQuantity
      /\ r.state = [s.state EXCEPT ![t] = "READY"] /\ s \in Tables
  BY DEF Sound, Tables
<1> HIDE DEF r
<1>2. \A n \in Slots : Waiting(r, n) = Waiting(s, n)
  BY <1>1 DEF Waiting
<1>3. Counts(r) /\ Unwaited(r)
  BY <1>1, <1>2 DEF Sound, Counts, Unwaited
<1>4. Awaited(r, X)
  BY <1>1 DEF Sound, Awaited, InList, Tables
<1> QED
  BY <1>1, <1>3, <1>4 DEF Sound, yield, r

--------------------------------------------------------------------------------
(* Who is where: a thread is in at most one place of all lists, and blocked. *)

Orderly(s) ==
  /\ \A m, n \in Slots, p, q \in Places :
       s.blocked[m][p] = s.blocked[n][q] /\ s.blocked[m][p] # NotUsed => m = n /\ p = q
  /\ \A t \in Threads : InList(s, t) => s.state[t] = "BLOCKED"

\* From s to r nobody enters a list, and who is woken leaves the lists.
Settled(s, r) ==
  /\ \A m \in Slots, p \in Places :
       r.blocked[m][p] = s.blocked[m][p] \/ r.blocked[m][p] = NotUsed
  /\ \A t \in Threads : \/ r.state[t] = s.state[t]
                        \/ r.state[t] = "READY" /\ InList(s, t) /\ ~InList(r, t)

LEMMA NotUsedIsNoThread == \A t \in Threads : t # NotUsed
BY MutexAssumption

LEMMA SettledLists ==
  ASSUME NEW s, NEW r, Settled(s, r), NEW t \in Threads, InList(r, t)
  PROVE  InList(s, t)
BY NotUsedIsNoThread DEF Settled, InList

LEMMA SettledOrderly ==
  ASSUME NEW s, NEW r, Orderly(s), Settled(s, r)
  PROVE  Orderly(r)
<1>1. \A m, n \in Slots, p, q \in Places :
        r.blocked[m][p] = r.blocked[n][q] /\ r.blocked[m][p] # NotUsed => m = n /\ p = q
  BY DEF Orderly, Settled
<1>2. \A t \in Threads : InList(r, t) => r.state[t] = "BLOCKED"
  BY SettledLists DEF Orderly, Settled
<1> QED
  BY <1>1, <1>2 DEF Orderly

LEMMA SettledTwice ==
  ASSUME NEW s, NEW r, NEW u, Settled(s, r), Settled(r, u)
  PROVE  Settled(s, u)
<1>1. \A t \in Threads : InList(u, t) => InList(r, t)
  BY SettledLists
<1>2. \A t \in Threads : InList(r, t) => InList(s, t)
  BY SettledLists
<1>3. \A m \in Slots, p \in Places :
        u.blocked[m][p] = s.blocked[m][p] \/ u.blocked[m][p] = NotUsed
  BY DEF Settled
<1>4. \A t \in Threads : \/ u.state[t] = s.state[t]
                         \/ u.state[t] = "READY" /\ InList(s, t) /\ ~InList(u, t)
  BY <1>1, <1>2 DEF Settled
<1> QED
  BY <1>3, <1>4 DEF Settled

LEMMA SameSettles ==
  ASSUME NEW s, NEW r, r.blocked = s.blocked, r.state = s.state
  PROVE  Settled(s, r)
BY DEF Settled

LEMMA DownSettles ==
  ASSUME NEW s \in Tables, NEW m, NEW t, ~Waits(s, m)
  PROVE  Settled(s, mutexDown(s, m, t))
<1>1. /\ mutexDown(s, m, t).blocked = s.blocked
      /\ mutexDown(s, m, t).state = s.state
  BY DEF mutexDown, Tables
<1> QED
  BY <1>1, SameSettles

LEMMA UnlockSettles ==
  ASSUME NEW s \in Tables, Orderly(s), NEW m \in Slots, Waiting(s, m) # {}
  PROVE  Settled(s, unlockProcess(s, m))
<1> DEFINE p == Min(Waiting(s, m))
           w == s.blocked[m][p]
           r == unlockProcess(s, m)
<1>1. /\ p \in Places /\ w \in Threads
      /\ r.blocked = [s.blocked EXCEPT ![m] = [s.blocked[m] EXCEPT ![p] = NotUsed]]
      /\ r.state = [s.state EXCEPT ![w] = "READY"]
  BY UnlockFields
<1>2. w = s.blocked[m][p]
  OBVIOUS
<1> HIDE DEF p, w, r
<1>3. \A n \in Slots, q \in Places :
        \/ n = m /\ q = p /\ r.blocked[n][q] = NotUsed
        \/ ~(n = m /\ q = p) /\ r.blocked[n][q] = s.blocked[n][q]
  BY <1>1 DEF Tables
<1>4. InList(s, w)
  BY <1>1, <1>2 DEF InList
<1>5. ~InList(r, w)
  BY <1>1, <1>2, <1>3, NotUsedIsNoThread DEF InList, Orderly
<1>6. r.state[w] = "READY" /\ \A t \in Threads : t # w => r.state[t] = s.state[t]
  BY <1>1 DEF Tables
<1> QED
  BY <1>3, <1>4, <1>5, <1>6 DEF Settled, r

LEMMA UpSettles ==
  ASSUME NEW s, NEW X, Sound(s, X), Orderly(s), NEW m, NEW t
  PROVE  Settled(s, mutexUp(s, m, t))
<1>1. s \in Tables
  BY DEF Sound
<1>2. CASE mutexUp(s, m, t) = s
  BY <1>2, SameSettles
<1>3. CASE isValidMutex(s, m) /\ s.blockedQuantity[m] = 0 /\ mutexUp(s, m, t) # s
  <2> DEFINE r == [s EXCEPT !.value[m] = "UNLOCKED"]
  <2>1. mutexUp(s, m, t) = r
    BY <1>3 DEF mutexUp
  <2>2. r.blocked = s.blocked /\ r.state = s.state
    BY <1>1 DEF Tables
  <2> QED
    BY <2>1, <2>2, SameSettles
<1>4. CASE isValidMutex(s, m) /\ s.blockedQuantity[m] # 0 /\ mutexUp(s, m, t) # s
  <2>1. m \in Slots
    BY <1>4 DEF isValidMutex
  <2>2. Waiting(s, m) # {}
    BY <1>4, <2>1, WaitingFinite DEF Sound, Counts
  <2>3. mutexUp(s, m, t) = unlockProcess(s, m)
    BY <1>4 DEF mutexUp
  <2> QED
    BY <1>1, <2>1, <2>2, <2>3, UnlockSettles
<1>5. ~isValidMutex(s, m) => mutexUp(s, m, t) = s
  BY DEF mutexUp
<1> QED
  BY <1>2, <1>3, <1>4, <1>5

LEMMA GetSettles ==
  ASSUME NEW s, NEW X, Sound(s, X), Orderly(s), NEW name \in Names, NEW t \in Threads
  PROVE  Settled(s, getMutex(s, name, t))
<1> DEFINE r == createMutex(s, name, t)
<1>1. r.blocked = s.blocked /\ r.state = s.state
  BY DEF createMutex, Sound, Tables
<1>2. Sound(r, X)
  BY CreateSound
<1> HIDE DEF r
<1>3. Settled(s, r)
  BY <1>1, SameSettles
<1>4. Settled(r, mutexUp(r, Admin, t))
  BY <1>2, <1>3, SettledOrderly, UpSettles
<1>5. Settled(s, mutexUp(r, Admin, t))
  BY <1>3, <1>4, SettledTwice
<1>6. Settled(s, s)
  BY SameSettles
<1> QED
  BY <1>5, <1>6 DEF getMutex, r

LEMMA UnlockAllSettles ==
  ASSUME NEW s \in Tables, Orderly(s), NEW m \in Slots
  PROVE  Settled(s, unlockAll([s EXCEPT !.creator[m] = NotUsed], m))
<1> DEFINE e == [s EXCEPT !.creator[m] = NotUsed]
           r == unlockAll(e, m)
<1>1. e \in Tables /\ e.blocked = s.blocked /\ e.state = s.state
  BY DEF Tables, Ids
<1>2. Waiting(e, m) = Waiting(s, m)
  BY <1>1 DEF Waiting
<1> HIDE DEF e
<1>3. /\ r.blocked = [e.blocked EXCEPT ![m] = [p \in Places |-> NotUsed]]
      /\ r.state = [t \in Threads |->
                      IF \E p \in Waiting(e, m) : e.blocked[m][p] = t
                      THEN "READY" ELSE e.state[t]]
  BY <1>1, UnlockAllFields
<1> HIDE DEF r
<1>4. /\ r.blocked = [s.blocked EXCEPT ![m] = [p \in Places |-> NotUsed]]
      /\ r.state = [t \in Threads |->
                      IF \E p \in Waiting(s, m) : s.blocked[m][p] = t
                      THEN "READY" ELSE s.state[t]]
  BY <1>1, <1>2, <1>3
<1>5. \A n \in Slots, q \in Places :
        \/ n = m /\ r.blocked[n][q] = NotUsed
        \/ n # m /\ r.blocked[n][q] = s.blocked[n][q]
  BY <1>4 DEF Tables
<1>6. ASSUME NEW t \in Threads, NEW p \in Places, s.blocked[m][p] = t
      PROVE  InList(s, t) /\ ~InList(r, t)
  BY <1>5, <1>6, NotUsedIsNoThread DEF InList, Orderly
<1>7. \A t \in Threads : \/ r.state[t] = s.state[t]
                         \/ r.state[t] = "READY" /\ InList(s, t) /\ ~InList(r, t)
  BY <1>4, <1>6 DEF Waiting
<1> QED
  BY <1>5, <1>7 DEF Settled, r, e

LEMMA ReleaseSettles ==
  ASSUME NEW s, NEW X, Sound(s, X), Orderly(s), NEW m, NEW t
  PROVE  Settled(s, releaseMutex(s, m, t))
<1> DEFINE r == unlockAll([s EXCEPT !.creator[m] = NotUsed], m)
<1>1. CASE mayRelease(s, m, t)
  <2>1. m \in Slots
    BY <1>1 DEF mayRelease, isValidMutex
  <2>2. Settled(s, r)
    BY <2>1, UnlockAllSettles DEF Sound
  <2>3. Sound(r, X)
    BY <2>1, ReleasedSound
  <2>4. releaseMutex(s, m, t) = mutexUp(r, Admin, t)
    BY <1>1 DEF releaseMutex
  <2> HIDE DEF r
  <2>5. Settled(r, mutexUp(r, Admin, t))
    BY <2>2, <2>3, SettledOrderly, UpSettles
  <2> QED
    BY <2>2, <2>4, <2>5, SettledTwice
<1>2. CASE ~mayRelease(s, m, t)
  BY <1>2, UpSettles DEF releaseMutex
<1> QED
  BY <1>1, <1>2

\* mutexDown that waits puts its thread into one free place.
LEMMA DownBlocks ==
  ASSUME NEW s \in Tables, Orderly(s), NEW m, NEW t \in Threads,
         Waits(s, m), Free(s, m) # {}, s.state[t] = "READY"
  PROVE  LET r == mutexDown(s, m, t)
         IN /\ Orderly(r) /\ InList(r, t)
            /\ \A u \in Threads : u # t => (InList(r, u) <=> InList(s, u))
            /\ r.state = [s.state EXCEPT ![t] = "BLOCKED"]
<1> DEFINE p == Min(Free(s, m))
           r == mutexDown(s, m, t)
<1>1. m \in Slots /\ isValidMutex(s, m)
  BY DEF Waits, isValidMutex
<1>2. p \in Places /\ s.blocked[m][p] = NotUsed
  <2>1. Free(s, m) \in SUBSET Nat
    BY WaitingFinite DEF Free
  <2> QED
    BY <2>1, MinIsLeast DEF Free, Waiting
<1>3. r = [s EXCEPT !.creator = creatorAfterTestAndSet(s, m),
                    !.blocked[m][p] = t,
                    !.blockedQuantity[m] = @ + 1,
                    !.state[t] = "BLOCKED"]
  BY <1>1 DEF mutexDown
<1> HIDE DEF p, r
<1>4. /\ r.blocked = [s.blocked EXCEPT ![m] = [s.blocked[m] EXCEPT ![p] = t]]
      /\ r.state = [s.state EXCEPT ![t] = "BLOCKED"]
  BY <1>3 DEF Tables
<1>5. \A n \in Slots, q \in Places :
        \/ n = m /\ q = p /\ r.blocked[n][q] = t
        \/ ~(n = m /\ q = p) /\ r.blocked[n][q] = s.blocked[n][q]
  BY <1>1, <1>2, <1>4 DEF Tables
<1>6. ~InList(s, t)
  BY DEF Orderly
<1>7. InList(r, t)
  BY <1>1, <1>2, <1>5 DEF InList
<1>8. \A u \in Threads : u # t => (InList(r, u) <=> InList(s, u))
  BY <1>2, <1>5, NotUsedIsNoThread DEF InList
<1>9. \A n, o \in Slots, q, x \in Places :
        r.blocked[n][q] = r.blocked[o][x] /\ r.blocked[n][q] # NotUsed => n = o /\ q = x
  BY <1>5, <1>6 DEF InList, Orderly
<1>10. \A u \in Threads : InList(r, u) => r.state[u] = "BLOCKED"
  BY <1>4, <1>8 DEF Orderly, Tables
<1> QED
  BY <1>4, <1>7, <1>8, <1>9, <1>10 DEF Orderly, r
================================================================================
