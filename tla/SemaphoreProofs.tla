---------------------------- MODULE SemaphoreProofs ----------------------------
(* Proofs about the kernel semaphores, for any number of threads, mutexes,   *)
(* semaphores and places in the lists.                                       *)
(*                                                                           *)
(* The invariant is stated of a mutex table s, a table of semaphores z and   *)
(* calls c, so that it can be followed through the operators a system call   *)
(* is made of.                                                               *)
EXTENDS Semaphore, MutexTableProofs

SemShape ==
  [creator : [SemSlots -> Threads \union {NotUsed}],
   name : [SemSlots -> Seq(Chars)],
   blocked : [SemSlots -> [Places -> Threads \union {NotUsed}]],
   blockedQuantity : [SemSlots -> Int],
   value : [SemSlots -> Int],
   mutex : [SemSlots -> Int],
   first : SemSlots \union {FullList}, used : Nat]

AsleepIn(q)    == [op |-> "asleep", q |-> q]
Sleepers(c)    == {t \in Threads : c[t].op = "asleep"}
InSem(z, q, t) == \E p \in Places : z.blocked[q][p] = t

\* The mutexes: a blocked thread is in a mutex's list or asleep in wait, and
\* who is in a mutex's list is in a call that waits for a mutex.
MutexSide(s, c) ==
  /\ Sound(s, Sleepers(c)) /\ Orderly(s)
  /\ \A t \in Threads : InList(s, t) => c[t].op \notin {"idle", "asleep"}

\* A negative value counts the list.
ValueCounts(z) ==
  \A q \in SemSlots :
    /\ z.blockedQuantity[q] = Cardinality(SemWaiting(z, q))
    /\ z.blockedQuantity[q] = Positive(-z.value[q])

\* A thread has one place in a list.
OnePlace(z) ==
  \A q \in SemSlots, a, b \in Places :
    z.blocked[q][a] = z.blocked[q][b] /\ z.blocked[q][a] # NotUsed => a = b

\* The list of a semaphore holds the threads that are blocked in wait on it.
ListIsBlocked(z, s, c) ==
  \A q \in SemSlots, t \in Threads :
    InSem(z, q, t) <=> c[t] = AsleepIn(q) /\ s.state[t] = "BLOCKED"

SemSide(z, s, c) ==
  z \in SemShape /\ ValueCounts(z) /\ OnePlace(z) /\ ListIsBlocked(z, s, c)

Sides(z, s, c) == MutexSide(s, c) /\ SemSide(z, s, c)

\* The threads that were woken and have not run yet.
Woken(z, c, q) == {t \in Threads : c[t] = AsleepIn(q) /\ ~InSem(z, q, t)}

Balance(z, c, given, taken) ==
  /\ given \in [SemSlots -> Nat] /\ taken \in [SemSlots -> Nat]
  /\ \A q \in SemSlots :
       given[q] = taken[q] + Cardinality(Woken(z, c, q)) + Positive(z.value[q])

LEMMA CallsHaveOps ==
  ASSUME NEW c \in Calls
  PROVE  /\ c.op = "idle" <=> c = Idle
         /\ c.op = "asleep" => \E q \in SemSlots : c = AsleepIn(q)
         /\ \A q : c = AsleepIn(q) => c.op = "asleep" /\ c.q = q
BY DEF Calls, Idle, AsleepIn

LEMMA AsleepInOnce == \A q, x : AsleepIn(q) = AsleepIn(x) => q = x
BY DEF AsleepIn

\* Threads that run again, or are in a list of a mutex, need not be excepted.
LEMMA ResizeSound ==
  ASSUME NEW s, NEW X, NEW Y, Sound(s, X),
         \A t \in Threads : t \in X /\ t \notin Y => s.state[t] # "BLOCKED" \/ InList(s, t)
  PROVE  Sound(s, Y)
BY DEF Sound, Awaited

\* Mutexes are unlocked: the semaphores do not notice.
LEMMA SettledSides ==
  ASSUME NEW z, NEW s, NEW r, NEW c, Sides(z, s, c), Settled(s, r), Sound(r, Sleepers(c)),
         c \in [Threads -> Calls]
  PROVE  Sides(z, r, c)
<1>1. \A t \in Threads : ~InList(s, t) => r.state[t] = s.state[t]
  BY DEF Settled
<1>2. MutexSide(r, c)
  BY SettledOrderly, SettledLists DEF Sides, MutexSide
<1>3. \A t \in Threads, q \in SemSlots : c[t] = AsleepIn(q) => ~InList(s, t)
  BY CallsHaveOps DEF Sides, MutexSide
<1>4. ListIsBlocked(z, r, c)
  BY <1>1, <1>3 DEF Sides, SemSide, ListIsBlocked
<1> QED
  BY <1>1, <1>2, <1>4 DEF Sides, SemSide

\* A thread that runs comes back from its call.
LEMMA ReturnSides ==
  ASSUME NEW z, NEW s, NEW c \in [Threads -> Calls], Sides(z, s, c),
         NEW t \in Threads, s.state[t] = "READY"
  PROVE  Sides(z, s, [c EXCEPT ![t] = Idle])
<1> DEFINE d == [c EXCEPT ![t] = Idle]
<1>1. d[t] = Idle /\ \A u \in Threads : u # t => d[u] = c[u]
  OBVIOUS
<1> HIDE DEF d
<1>2. \A u \in Threads : u \in Sleepers(c) /\ u \notin Sleepers(d) => s.state[u] # "BLOCKED"
  BY <1>1 DEF Sleepers
<1>3. Sound(s, Sleepers(d))
  BY <1>2, ResizeSound DEF Sides, MutexSide
<1>4. MutexSide(s, d)
  BY <1>1, <1>3 DEF Sides, MutexSide, Orderly
<1>5. \A q : d[t] # AsleepIn(q)
  BY <1>1 DEF Idle, AsleepIn
<1>6. ListIsBlocked(z, s, d)
  BY <1>1, <1>5 DEF Sides, SemSide, ListIsBlocked
<1> QED
  BY <1>4, <1>6 DEF Sides, SemSide, d

\* mutexDown blocks a call of which e is left.
LEMMA BlockSides ==
  ASSUME NEW z, NEW s, NEW c \in [Threads -> Calls], Sides(z, s, c),
         NEW t \in Threads, s.state[t] = "READY", NEW m, Waits(s, m), Free(s, m) # {},
         NEW e \in Calls, e.op \notin {"idle", "asleep"}
  PROVE  Sides(z, mutexDown(s, m, t), [c EXCEPT ![t] = e])
<1> DEFINE d == [c EXCEPT ![t] = e]
           r == mutexDown(s, m, t)
<1>1. d[t] = e /\ \A u \in Threads : u # t => d[u] = c[u]
  OBVIOUS
<1>2. s \in Tables
  BY DEF Sides, MutexSide, Sound
<1>3. /\ Orderly(r) /\ InList(r, t)
      /\ \A u \in Threads : u # t => (InList(r, u) <=> InList(s, u))
      /\ r.state = [s.state EXCEPT ![t] = "BLOCKED"]
  BY <1>2, DownBlocks DEF Sides, MutexSide
<1>4. Sound(r, Sleepers(c))
  BY DownSound DEF Sides, MutexSide
<1> HIDE DEF d, r
<1>5. \A u \in Threads : u \in Sleepers(c) /\ u \notin Sleepers(d) => InList(r, u)
  BY <1>1, <1>3 DEF Sleepers
<1>6. Sound(r, Sleepers(d))
  BY <1>4, <1>5, ResizeSound
<1>7. MutexSide(r, d)
  BY <1>1, <1>3, <1>6 DEF Sides, MutexSide
<1>8. \A q : d[t] # AsleepIn(q)
  BY <1>1 DEF AsleepIn
<1>9. \A u \in Threads : u # t => r.state[u] = s.state[u]
  BY <1>2, <1>3 DEF Tables
<1>10. ListIsBlocked(z, r, d)
  BY <1>1, <1>8, <1>9 DEF Sides, SemSide, ListIsBlocked
<1> QED
  BY <1>7, <1>10 DEF Sides, SemSide, d, r

\* A change of the table of semaphores that leaves the lists and the values.
LEMMA SameListsSides ==
  ASSUME NEW z, NEW s, NEW c, Sides(z, s, c), NEW y \in SemShape,
         y.blocked = z.blocked, y.blockedQuantity = z.blockedQuantity, y.value = z.value
  PROVE  Sides(y, s, c)
<1>1. \A q \in SemSlots : SemWaiting(y, q) = SemWaiting(z, q)
  BY DEF SemWaiting
<1> QED
  BY <1>1 DEF Sides, SemSide, ValueCounts, OnePlace, ListIsBlocked, InSem

--------------------------------------------------------------------------------
(* wait and signal on the list *)

LEMMA SemWaitingFinite ==
  ASSUME NEW z, NEW q
  PROVE  /\ SemWaiting(z, q) \subseteq Places /\ Places \subseteq Nat
         /\ IsFiniteSet(SemWaiting(z, q))
         /\ (Cardinality(SemWaiting(z, q)) = 0 <=> SemWaiting(z, q) = {})
         /\ Cardinality(SemWaiting(z, q)) \in Nat
<1>1. IsFiniteSet(Places)
  BY FS_Interval, MutexAssumption DEF Places
<1>2. SemWaiting(z, q) \subseteq Places /\ Places \subseteq Nat
  BY MutexAssumption DEF SemWaiting, Places
<1>3. IsFiniteSet(SemWaiting(z, q))
  BY <1>1, <1>2, FS_Subset
<1> QED
  BY <1>2, <1>3, FS_EmptySet, FS_CardinalityType

\* What wait that sleeps makes of a table, and signal that wakes.
Enlisted(z, q, t) == addToSemaphoreBlocked([z EXCEPT !.value[q] = @ - 1], q, t)
Delisted(z, q)    == [takeFirst(z, q) EXCEPT !.value[q] = @ + 1]

SemFree(z, q)    == Places \ SemWaiting(z, q)
FreePlace(z, q)  == Min(SemFree(z, q))
FirstPlace(z, q) == Min(SemWaiting(z, q))

LEMMA DelistedFields ==
  ASSUME NEW z \in SemShape, NEW q \in SemSlots, z.blockedQuantity[q] # 0,
         SemWaiting(z, q) # {}
  PROVE  LET y == Delisted(z, q)
             p == FirstPlace(z, q)
         IN /\ y \in SemShape
            /\ p \in Places /\ z.blocked[q][p] \in Threads
            /\ y.blocked = [z.blocked EXCEPT ![q] = [z.blocked[q] EXCEPT ![p] = NotUsed]]
            /\ y.blockedQuantity = [z.blockedQuantity EXCEPT ![q] = z.blockedQuantity[q] - 1]
            /\ y.value = [z.value EXCEPT ![q] = z.value[q] + 1]
<1> DEFINE y == Delisted(z, q)
           p == FirstPlace(z, q)
           x == [z EXCEPT !.blocked[q][p] = NotUsed, !.blockedQuantity[q] = @ - 1]
<1>1. p \in Places /\ z.blocked[q][p] \in Threads
  <2>1. p \in Places /\ z.blocked[q][p] # NotUsed
    <3>1. SemWaiting(z, q) \in SUBSET Nat
      BY SemWaitingFinite
    <3> QED
      BY <3>1, MinIsLeast DEF SemWaiting, FirstPlace
  <2>2. z.blocked[q] \in [Places -> Threads \union {NotUsed}]
    BY DEF SemShape
  <2> HIDE DEF p
  <2> QED
    BY <2>1, <2>2
<1>2. y = [x EXCEPT !.value[q] = @ + 1]
  BY DEF Delisted, takeFirst, FirstPlace
<1> HIDE DEF y, p
<1>3. /\ x.blocked = [z.blocked EXCEPT ![q] = [z.blocked[q] EXCEPT ![p] = NotUsed]]
      /\ x.blockedQuantity = [z.blockedQuantity EXCEPT ![q] = z.blockedQuantity[q] - 1]
      /\ x.value = z.value
      /\ x.creator = z.creator /\ x.name = z.name /\ x.mutex = z.mutex
      /\ x.first = z.first /\ x.used = z.used
  BY DEF SemShape
<1>4. /\ x.blocked \in [SemSlots -> [Places -> Threads \union {NotUsed}]]
      /\ x.blockedQuantity \in [SemSlots -> Int]
  BY <1>1, <1>3 DEF SemShape
<1>5. x \in SemShape
  BY <1>3, <1>4 DEF SemShape
<1> HIDE DEF x
<1>6. /\ y.blocked = x.blocked /\ y.blockedQuantity = x.blockedQuantity
      /\ y.value = [x.value EXCEPT ![q] = x.value[q] + 1]
      /\ y.creator = x.creator /\ y.name = x.name /\ y.mutex = x.mutex
      /\ y.first = x.first /\ y.used = x.used
  BY <1>2, <1>5 DEF SemShape
<1>7. y.value \in [SemSlots -> Int]
  <2>1. x.value \in [SemSlots -> Int]
    BY <1>5 DEF SemShape
  <2> QED
    BY <1>6, <2>1
<1>8. y \in SemShape
  BY <1>2, <1>5, <1>6, <1>7 DEF SemShape
<1> QED
  BY <1>1, <1>3, <1>6, <1>8 DEF y, p

LEMMA EnlistedCounts ==
  ASSUME NEW z \in SemShape, NEW q \in SemSlots, NEW t \in Threads,
         SemFree(z, q) # {}, ValueCounts(z), OnePlace(z),
         z.value[q] - 1 < 0, ~InSem(z, q, t), NEW y, y = Enlisted(z, q, t)
  PROVE  /\ y \in SemShape /\ ValueCounts(y) /\ OnePlace(y)
         /\ y.value = [z.value EXCEPT ![q] = z.value[q] - 1]
         /\ \A x \in SemSlots, u \in Threads :
              InSem(y, x, u) <=> InSem(z, x, u) \/ (x = q /\ u = t)
<1>p. PICK p : p = FreePlace(z, q)
  OBVIOUS
<1>1. /\ p \in Places /\ z.blocked[q][p] = NotUsed
      /\ y.blocked = [z.blocked EXCEPT ![q] = [z.blocked[q] EXCEPT ![p] = t]]
      /\ y \in SemShape
      /\ y.blockedQuantity = [z.blockedQuantity EXCEPT ![q] = z.blockedQuantity[q] + 1]
      /\ y.value = [z.value EXCEPT ![q] = z.value[q] - 1]
  <2> DEFINE x == [z EXCEPT !.value[q] = @ - 1]
  <2>a. /\ x.blocked = z.blocked /\ x.blockedQuantity = z.blockedQuantity
        /\ x.value = [z.value EXCEPT ![q] = z.value[q] - 1]
        /\ x.creator = z.creator /\ x.name = z.name /\ x.mutex = z.mutex
        /\ x.first = z.first /\ x.used = z.used
    BY DEF SemShape
  <2>b. x.value \in [SemSlots -> Int]
    BY <2>a DEF SemShape
  <2>1. x \in SemShape
    BY <2>a, <2>b DEF SemShape
  <2>2. SemWaiting(x, q) = SemWaiting(z, q)
    BY <2>a DEF SemWaiting
  <2>3. p \in Places /\ z.blocked[q][p] = NotUsed
    <3>1. SemFree(z, q) \in SUBSET Nat
      BY SemWaitingFinite DEF SemFree
    <3> QED
      BY <1>p, <3>1, MinIsLeast DEF SemWaiting, FreePlace, SemFree
  <2>4. y = [x EXCEPT !.blocked[q][p] = t, !.blockedQuantity[q] = @ + 1]
    BY <1>p, <2>2 DEF Enlisted, addToSemaphoreBlocked, FreePlace, SemFree
  <2> HIDE DEF x
  <2>5. /\ y.blocked = [z.blocked EXCEPT ![q] = [z.blocked[q] EXCEPT ![p] = t]]
        /\ y.blockedQuantity = [z.blockedQuantity EXCEPT ![q] = z.blockedQuantity[q] + 1]
        /\ y.value = x.value
        /\ y.creator = z.creator /\ y.name = z.name /\ y.mutex = z.mutex
        /\ y.first = z.first /\ y.used = z.used
    BY <2>1, <2>4, <2>a DEF SemShape
  <2>6. /\ y.blocked \in [SemSlots -> [Places -> Threads \union {NotUsed}]]
        /\ y.blockedQuantity \in [SemSlots -> Int]
    BY <2>3, <2>5 DEF SemShape
  <2>7. y \in SemShape
    BY <2>1, <2>4, <2>5, <2>6 DEF SemShape
  <2> QED
    BY <2>3, <2>5, <2>7, <2>a
<1>2. /\ p \in Places /\ z.blocked[q][p] = NotUsed
      /\ y.blocked = [z.blocked EXCEPT ![q] = [z.blocked[q] EXCEPT ![p] = t]]
  BY <1>1
<1>3. \A x \in SemSlots, a \in Places :
        \/ x = q /\ a = p /\ y.blocked[x][a] = t /\ z.blocked[x][a] = NotUsed
        \/ ~(x = q /\ a = p) /\ y.blocked[x][a] = z.blocked[x][a]
  BY <1>2 DEF SemShape
<1>4. OnePlace(y)
  BY <1>3 DEF OnePlace, InSem
<1>5. \A x \in SemSlots, u \in Threads :
        InSem(y, x, u) <=> InSem(z, x, u) \/ (x = q /\ u = t)
  BY <1>1, <1>3, NotUsedIsNoThread DEF InSem
<1>6. SemWaiting(y, q) = SemWaiting(z, q) \union {p} /\ p \notin SemWaiting(z, q)
  BY <1>1, <1>3, NotUsedIsNoThread DEF SemWaiting
<1>7. \A x \in SemSlots : x # q => SemWaiting(y, x) = SemWaiting(z, x)
  BY <1>3 DEF SemWaiting
<1>8. Cardinality(SemWaiting(y, q)) = Cardinality(SemWaiting(z, q)) + 1
  BY <1>6, SemWaitingFinite, FS_AddElement
<1>9. \A x \in SemSlots : x # q => /\ y.blockedQuantity[x] = z.blockedQuantity[x]
                                   /\ y.value[x] = z.value[x]
  BY <1>1 DEF SemShape
<1>10. /\ y.blockedQuantity[q] = z.blockedQuantity[q] + 1
       /\ y.value[q] = z.value[q] - 1 /\ z.value[q] \in Int
  BY <1>1 DEF SemShape
<1>11. Positive(-(z.value[q] - 1)) = Positive(-z.value[q]) + 1
  BY <1>10 DEF Positive
<1>12. ValueCounts(y)
  <2>1. \A x \in SemSlots : x # q =>
          /\ y.blockedQuantity[x] = Cardinality(SemWaiting(y, x))
          /\ y.blockedQuantity[x] = Positive(-y.value[x])
    BY <1>7, <1>9 DEF ValueCounts
  <2>2. y.blockedQuantity[q] = Cardinality(SemWaiting(y, q))
    BY <1>8, <1>10 DEF ValueCounts
  <2>3. y.blockedQuantity[q] = Positive(-y.value[q])
    BY <1>10, <1>11 DEF ValueCounts
  <2> QED
    BY <2>1, <2>2, <2>3 DEF ValueCounts
<1> QED
  BY <1>1, <1>4, <1>5, <1>12

LEMMA DelistedCounts ==
  ASSUME NEW z \in SemShape, NEW q \in SemSlots, ValueCounts(z), OnePlace(z),
         z.blockedQuantity[q] # 0, NEW w, w = z.blocked[q][Min(SemWaiting(z, q))],
         NEW y, y = Delisted(z, q)
  PROVE  /\ y \in SemShape /\ ValueCounts(y) /\ OnePlace(y)
         /\ w \in Threads /\ InSem(z, q, w) /\ z.value[q] < 0
         /\ y.value = [z.value EXCEPT ![q] = z.value[q] + 1]
         /\ \A x \in SemSlots, u \in Threads :
              InSem(y, x, u) <=> InSem(z, x, u) /\ ~(x = q /\ u = w)
<1> DEFINE p == FirstPlace(z, q)
<1>1. SemWaiting(z, q) # {}
  BY SemWaitingFinite DEF ValueCounts
<1>p. w = z.blocked[q][p]
  BY DEF FirstPlace
<1>2. /\ p \in Places /\ z.blocked[q][p] \in Threads
      /\ y.blocked = [z.blocked EXCEPT ![q] = [z.blocked[q] EXCEPT ![p] = NotUsed]]
  BY <1>1, DelistedFields
<1>3. /\ y \in SemShape
      /\ y.blockedQuantity = [z.blockedQuantity EXCEPT ![q] = z.blockedQuantity[q] - 1]
      /\ y.value = [z.value EXCEPT ![q] = z.value[q] + 1]
  BY <1>1, DelistedFields
<1> HIDE DEF p
<1>4. \A x \in SemSlots, a \in Places :
        \/ x = q /\ a = p /\ y.blocked[x][a] = NotUsed
        \/ ~(x = q /\ a = p) /\ y.blocked[x][a] = z.blocked[x][a]
  BY <1>2 DEF SemShape
<1>5. OnePlace(y)
  BY <1>4 DEF OnePlace
<1>6. w = z.blocked[q][p] /\ w \in Threads /\ InSem(z, q, w)
  BY <1>2, <1>p DEF InSem
<1>a. \A a \in Places : z.blocked[q][a] = w => a = p
  BY <1>2, <1>6, NotUsedIsNoThread DEF OnePlace
<1>7. ASSUME NEW x \in SemSlots, NEW u \in Threads
      PROVE  InSem(y, x, u) <=> InSem(z, x, u) /\ ~(x = q /\ u = w)
  <2>1. \A a \in Places : y.blocked[x][a] = u <=> z.blocked[x][a] = u /\ ~(x = q /\ u = w)
    BY <1>4, <1>6, <1>a, NotUsedIsNoThread
  <2> QED
    BY <2>1 DEF InSem
<1>8. SemWaiting(y, q) = SemWaiting(z, q) \ {p} /\ p \in SemWaiting(z, q)
  BY <1>2, <1>4, NotUsedIsNoThread DEF SemWaiting
<1>9. \A x \in SemSlots : x # q => SemWaiting(y, x) = SemWaiting(z, x)
  BY <1>4 DEF SemWaiting
<1>10. Cardinality(SemWaiting(y, q)) = Cardinality(SemWaiting(z, q)) - 1
  <2>1. IsFiniteSet(SemWaiting(z, q))
    BY SemWaitingFinite
  <2> QED
    BY <1>8, <2>1, FS_RemoveElement
<1>11. \A x \in SemSlots : x # q => /\ y.blockedQuantity[x] = z.blockedQuantity[x]
                                    /\ y.value[x] = z.value[x]
  BY <1>3 DEF SemShape
<1>12. /\ y.blockedQuantity[q] = z.blockedQuantity[q] - 1
       /\ y.value[q] = z.value[q] + 1 /\ z.value[q] \in Int
  BY <1>3 DEF SemShape
<1>13. z.value[q] < 0
  <2>1. Positive(-z.value[q]) # 0
    BY DEF ValueCounts
  <2> QED
    BY <1>12, <2>1 DEF Positive
<1>14. Positive(-(z.value[q] + 1)) = Positive(-z.value[q]) - 1
  BY <1>12, <1>13 DEF Positive
<1>15. ValueCounts(y)
  <2>1. \A x \in SemSlots : x # q =>
          /\ y.blockedQuantity[x] = Cardinality(SemWaiting(y, x))
          /\ y.blockedQuantity[x] = Positive(-y.value[x])
    BY <1>9, <1>11 DEF ValueCounts
  <2>2. y.blockedQuantity[q] = Cardinality(SemWaiting(y, q))
    BY <1>10, <1>12 DEF ValueCounts
  <2>3. y.blockedQuantity[q] = Positive(-y.value[q])
    BY <1>12, <1>14 DEF ValueCounts
  <2> QED
    BY <2>1, <2>2, <2>3 DEF ValueCounts
<1> QED
  BY <1>3, <1>5, <1>6, <1>7, <1>13, <1>15

\* The value changes while nobody is in the list, before and after.
LEMMA ValueMoves ==
  ASSUME NEW z \in SemShape, NEW q \in SemSlots, NEW v \in Int, ValueCounts(z),
         z.blockedQuantity[q] = 0, v >= 0
  PROVE  LET y == [z EXCEPT !.value[q] = v]
         IN /\ y \in SemShape /\ ValueCounts(y) /\ y.blocked = z.blocked
            /\ y.value = [z.value EXCEPT ![q] = v]
<1> DEFINE y == [z EXCEPT !.value[q] = v]
<1>1. /\ y \in SemShape /\ y.blocked = z.blocked /\ y.blockedQuantity = z.blockedQuantity
      /\ y.value = [z.value EXCEPT ![q] = v]
  BY DEF SemShape
<1> HIDE DEF y
<1>2. \A x \in SemSlots : SemWaiting(y, x) = SemWaiting(z, x)
  BY <1>1 DEF SemWaiting
<1>3. y.value[q] = v /\ \A x \in SemSlots : x # q => y.value[x] = z.value[x]
  BY <1>1 DEF SemShape
<1>4. Positive(-v) = 0
  BY DEF Positive
<1> QED
  BY <1>1, <1>2, <1>3, <1>4 DEF ValueCounts, y

\* A thread that is in no list and runs is put to sleep in wait.
LEMMA SleepSides ==
  ASSUME NEW z, NEW s, NEW c \in [Threads -> Calls], Sides(z, s, c),
         NEW t \in Threads, s.state[t] = "READY", NEW q \in SemSlots,
         SemFree(z, q) # {}, z.value[q] - 1 < 0
  PROVE  /\ Sides(Enlisted(z, q, t), [s EXCEPT !.state[t] = "BLOCKED"],
                  [c EXCEPT ![t] = AsleepIn(q)])
         /\ \A x \in SemSlots : ~InSem(z, x, t)
         /\ Enlisted(z, q, t).value[q] = z.value[q] - 1
         /\ \A x \in SemSlots : x # q => Enlisted(z, q, t).value[x] = z.value[x]
         /\ \A x \in SemSlots, u \in Threads :
              InSem(Enlisted(z, q, t), x, u) <=> InSem(z, x, u) \/ (x = q /\ u = t)
<1> DEFINE d == [c EXCEPT ![t] = AsleepIn(q)]
           r == [s EXCEPT !.state[t] = "BLOCKED"]
<1>1. d[t] = AsleepIn(q) /\ \A u \in Threads : u # t => d[u] = c[u]
  BY DEF Calls, AsleepIn
<1>2. s \in Tables /\ z \in SemShape /\ ValueCounts(z) /\ OnePlace(z)
  BY DEF Sides, MutexSide, Sound, SemSide
<1>3. /\ r \in Tables /\ r.blocked = s.blocked /\ r.blockedQuantity = s.blockedQuantity
      /\ r.value = s.value /\ r.state[t] = "BLOCKED"
      /\ \A u \in Threads : u # t => r.state[u] = s.state[u]
  BY <1>2 DEF Tables
<1>4. ~InList(s, t)
  BY DEF Sides, MutexSide, Orderly
<1>5. \A x \in SemSlots : ~InSem(z, x, t)
  BY DEF Sides, SemSide, ListIsBlocked
<1>6. PICK y : y = Enlisted(z, q, t)
  OBVIOUS
<1>7. /\ y \in SemShape /\ ValueCounts(y) /\ OnePlace(y)
      /\ y.value = [z.value EXCEPT ![q] = z.value[q] - 1]
      /\ \A x \in SemSlots, u \in Threads :
           InSem(y, x, u) <=> InSem(z, x, u) \/ (x = q /\ u = t)
  BY <1>2, <1>5, <1>6, EnlistedCounts
<1> HIDE DEF d, r
<1>v. y.value[q] = z.value[q] - 1 /\ \A x \in SemSlots : x # q => y.value[x] = z.value[x]
  BY <1>2, <1>7 DEF SemShape
<1>8. \A u \in Threads : InList(r, u) <=> InList(s, u)
  BY <1>3 DEF InList
<1>9. \A m \in Slots : Waiting(r, m) = Waiting(s, m)
  BY <1>3 DEF Waiting
<1>10. Counts(r) /\ Unwaited(r)
  BY <1>3, <1>9 DEF Sides, MutexSide, Sound, Counts, Unwaited
<1>11. t \in Sleepers(d) /\ \A u \in Threads : u # t => (u \in Sleepers(d) <=> u \in Sleepers(c))
  BY <1>1 DEF Sleepers, AsleepIn
<1>12. Awaited(r, Sleepers(d))
  BY <1>3, <1>8, <1>11 DEF Sides, MutexSide, Sound, Awaited
<1>13. Orderly(r)
  BY <1>3, <1>4, <1>8 DEF Sides, MutexSide, Orderly
<1>14. \A u \in Threads : InList(r, u) => d[u].op \notin {"idle", "asleep"}
  BY <1>1, <1>4, <1>8 DEF Sides, MutexSide
<1>15. MutexSide(r, d)
  BY <1>3, <1>10, <1>12, <1>13, <1>14 DEF MutexSide, Sound
<1>16. ListIsBlocked(z, s, c)
  BY DEF Sides, SemSide
<1>17. ASSUME NEW x \in SemSlots, NEW u \in Threads
       PROVE  InSem(y, x, u) <=> d[u] = AsleepIn(x) /\ r.state[u] = "BLOCKED"
  <2>1. u # t => (InSem(y, x, u) <=> d[u] = AsleepIn(x) /\ r.state[u] = "BLOCKED")
    BY <1>1, <1>3, <1>7, <1>16 DEF ListIsBlocked
  <2>2. u = t => (InSem(y, x, u) <=> x = q)
    BY <1>5, <1>7
  <2>3. u = t => (d[u] = AsleepIn(x) <=> x = q)
    BY <1>1, AsleepInOnce
  <2> QED
    BY <1>3, <2>1, <2>2, <2>3
<1>18. SemSide(y, r, d)
  BY <1>7, <1>17 DEF SemSide, ListIsBlocked
<1> QED
  BY <1>5, <1>6, <1>7, <1>v, <1>15, <1>18 DEF Sides, d, r

\* The value moves where nobody is in the list.
LEMMA ValueSides ==
  ASSUME NEW z, NEW s, NEW c, Sides(z, s, c), NEW q \in SemSlots, NEW v \in Int,
         z.blockedQuantity[q] = 0, v >= 0
  PROVE  Sides([z EXCEPT !.value[q] = v], s, c)
<1>1. z \in SemShape /\ ValueCounts(z)
  BY DEF Sides, SemSide
<1>2. PICK y : y = [z EXCEPT !.value[q] = v]
  OBVIOUS
<1>3. y \in SemShape /\ ValueCounts(y) /\ y.blocked = z.blocked
  BY <1>1, <1>2, ValueMoves
<1>4. OnePlace(y) /\ ListIsBlocked(y, s, c)
  BY <1>3 DEF Sides, SemSide, OnePlace, ListIsBlocked, InSem
<1> QED
  BY <1>2, <1>3, <1>4 DEF Sides, SemSide

\* signal takes the first waiter out of the list and makes it ready.
LEMMA WakeSides ==
  ASSUME NEW z, NEW s, NEW c \in [Threads -> Calls], Sides(z, s, c), NEW q \in SemSlots,
         z.blockedQuantity[q] # 0
  PROVE  /\ Sides(Delisted(z, q), wakeFirst(s, z, q), c)
         /\ z.value[q] < 0
         /\ Delisted(z, q).value = [z.value EXCEPT ![q] = z.value[q] + 1]
         /\ \E w \in Threads :
              /\ c[w] = AsleepIn(q) /\ InSem(z, q, w)
              /\ \A x \in SemSlots, u \in Threads :
                   InSem(Delisted(z, q), x, u) <=> InSem(z, x, u) /\ ~(x = q /\ u = w)
<1>1. s \in Tables /\ z \in SemShape /\ ValueCounts(z) /\ OnePlace(z)
  BY DEF Sides, MutexSide, Sound, SemSide
<1>2. PICK y : y = Delisted(z, q)
  OBVIOUS
<1>3. PICK w : w = z.blocked[q][Min(SemWaiting(z, q))]
  OBVIOUS
<1>4. /\ y \in SemShape /\ ValueCounts(y) /\ OnePlace(y)
      /\ w \in Threads /\ InSem(z, q, w) /\ z.value[q] < 0
      /\ y.value = [z.value EXCEPT ![q] = z.value[q] + 1]
      /\ \A x \in SemSlots, u \in Threads :
           InSem(y, x, u) <=> InSem(z, x, u) /\ ~(x = q /\ u = w)
  BY <1>1, <1>2, <1>3, DelistedCounts
<1>5. PICK r : r = wakeFirst(s, z, q)
  OBVIOUS
<1>6. r = [s EXCEPT !.state[w] = "READY"]
  BY <1>3, <1>5 DEF wakeFirst
<1>7. /\ r \in Tables /\ r.blocked = s.blocked /\ r.blockedQuantity = s.blockedQuantity
      /\ r.value = s.value /\ r.state[w] = "READY"
      /\ \A u \in Threads : u # w => r.state[u] = s.state[u]
  BY <1>1, <1>4, <1>6 DEF Tables
<1>8. c[w] = AsleepIn(q)
  BY <1>4 DEF Sides, SemSide, ListIsBlocked
<1>9. ~InList(s, w)
  BY <1>4, <1>8, CallsHaveOps DEF Sides, MutexSide
<1>10. \A u \in Threads : InList(r, u) <=> InList(s, u)
  BY <1>7 DEF InList
<1>11. \A m \in Slots : Waiting(r, m) = Waiting(s, m)
  BY <1>7 DEF Waiting
<1>12. Counts(r) /\ Unwaited(r)
  BY <1>7, <1>11 DEF Sides, MutexSide, Sound, Counts, Unwaited
<1>13. Awaited(r, Sleepers(c))
  BY <1>7, <1>10 DEF Sides, MutexSide, Sound, Awaited
<1>14. Orderly(r)
  BY <1>7, <1>9, <1>10 DEF Sides, MutexSide, Orderly
<1>15. MutexSide(r, c)
  BY <1>7, <1>10, <1>12, <1>13, <1>14 DEF Sides, MutexSide, Sound
<1>16. ListIsBlocked(z, s, c)
  BY DEF Sides, SemSide
<1>17. ASSUME NEW x \in SemSlots, NEW u \in Threads
       PROVE  InSem(y, x, u) <=> c[u] = AsleepIn(x) /\ r.state[u] = "BLOCKED"
  <2>1. u # w => (InSem(y, x, u) <=> c[u] = AsleepIn(x) /\ r.state[u] = "BLOCKED")
    BY <1>4, <1>7, <1>16 DEF ListIsBlocked
  <2>2. InSem(y, x, w) => x = q /\ FALSE
    BY <1>4, <1>8, <1>16, AsleepInOnce DEF ListIsBlocked
  <2> QED
    BY <1>7, <2>1, <2>2
<1>18. SemSide(y, r, c)
  BY <1>4, <1>17 DEF SemSide, ListIsBlocked
<1> QED
  BY <1>2, <1>4, <1>5, <1>8, <1>15, <1>18 DEF Sides

--------------------------------------------------------------------------------
(* The invariant of a state, and what a step does to a semaphore *)

Good(z, s, c, given, taken) ==
  c \in [Threads -> Calls] /\ Sides(z, s, c) /\ Balance(z, c, given, taken)

Permits(z, q) == Positive(z.value[q])

\* A step of CountingSemaphore, or none, on the lists and values of two tables.
Keeps(z, y, q) ==
  \/ /\ Permits(y, q) = Permits(z, q)
     /\ \A u \in Threads : InSem(y, q, u) <=> InSem(z, q, u)
  \/ /\ Permits(z, q) > 0 /\ Permits(y, q) = Permits(z, q) - 1
     /\ \A u \in Threads : InSem(y, q, u) <=> InSem(z, q, u)
  \/ /\ Permits(y, q) = Permits(z, q) + 1
     /\ \A u \in Threads : ~InSem(z, q, u) /\ ~InSem(y, q, u)
  \/ /\ Permits(y, q) = Permits(z, q) /\ Permits(z, q) = 0
     /\ \E t \in Threads : /\ ~InSem(z, q, t)
                           /\ \A u \in Threads : InSem(y, q, u) <=> InSem(z, q, u) \/ u = t
  \/ /\ Permits(y, q) = Permits(z, q)
     /\ \E t \in Threads : /\ InSem(z, q, t)
                           /\ \A u \in Threads : InSem(y, q, u) <=> InSem(z, q, u) /\ u # t

AllKeep(z, y) == \A q \in SemSlots : Keeps(z, y, q)

LEMMA SameKeeps ==
  ASSUME NEW z, NEW y, y.blocked = z.blocked, y.value = z.value
  PROVE  AllKeep(z, y)
BY DEF AllKeep, Keeps, Permits, InSem

LEMMA WokenFinite ==
  ASSUME NEW z, NEW c, NEW q
  PROVE  IsFiniteSet(Woken(z, c, q)) /\ Cardinality(Woken(z, c, q)) \in Nat
<1>1. Woken(z, c, q) \subseteq Threads
  BY DEF Woken
<1>2. IsFiniteSet(Woken(z, c, q))
  BY <1>1, FS_Subset, SemaphoreAssumption
<1> QED
  BY <1>2, FS_CardinalityType

LEMMA PositiveIsNat == \A n \in Int : Positive(n) \in Nat
BY DEF Positive

\* Nobody falls asleep and nobody wakes up.
LEMMA SameBalance ==
  ASSUME NEW z, NEW c, NEW g, NEW p, Balance(z, c, g, p), NEW y, NEW d,
         y.value = z.value,
         \A q \in SemSlots, u \in Threads :
           (d[u] = AsleepIn(q) /\ ~InSem(y, q, u)) <=> (c[u] = AsleepIn(q) /\ ~InSem(z, q, u))
  PROVE  Balance(y, d, g, p)
<1>1. \A q \in SemSlots : Woken(y, d, q) = Woken(z, c, q)
  BY DEF Woken
<1> QED
  BY <1>1 DEF Balance

\* Mutexes are unlocked.
LEMMA SettledGood ==
  ASSUME NEW z, NEW s, NEW c, NEW g, NEW p, Good(z, s, c, g, p),
         NEW r, Settled(s, r), Sound(r, Sleepers(c))
  PROVE  Good(z, r, c, g, p)
BY SettledSides DEF Good

LEMMA UpGood ==
  ASSUME NEW z, NEW s, NEW c, NEW g, NEW p, Good(z, s, c, g, p), NEW m, NEW t
  PROVE  Good(z, mutexUp(s, m, t), c, g, p)
<1>1. Sound(s, Sleepers(c)) /\ Orderly(s)
  BY DEF Good, Sides, MutexSide
<1>2. Settled(s, mutexUp(s, m, t)) /\ Sound(mutexUp(s, m, t), Sleepers(c))
  BY <1>1, UpSound, UpSettles
<1> QED
  BY <1>2, SettledGood

LEMMA GetGood ==
  ASSUME NEW z, NEW s, NEW c, NEW g, NEW p, Good(z, s, c, g, p),
         NEW name \in Names, NEW t \in Threads
  PROVE  Good(z, getMutex(s, name, t), c, g, p)
<1>1. Sound(s, Sleepers(c)) /\ Orderly(s)
  BY DEF Good, Sides, MutexSide
<1>2. Settled(s, getMutex(s, name, t)) /\ Sound(getMutex(s, name, t), Sleepers(c))
  BY <1>1, GetSound, GetSettles
<1> QED
  BY <1>2, SettledGood

LEMMA ReleaseGood ==
  ASSUME NEW z, NEW s, NEW c, NEW g, NEW p, Good(z, s, c, g, p), NEW m, NEW t
  PROVE  Good(z, releaseMutex(s, m, t), c, g, p)
<1>1. Sound(s, Sleepers(c)) /\ Orderly(s)
  BY DEF Good, Sides, MutexSide
<1>2. Settled(s, releaseMutex(s, m, t)) /\ Sound(releaseMutex(s, m, t), Sleepers(c))
  BY <1>1, ReleaseSound, ReleaseSettles
<1> QED
  BY <1>2, SettledGood

\* mutexDown that does not wait.
LEMMA DownGood ==
  ASSUME NEW z, NEW s, NEW c, NEW g, NEW p, Good(z, s, c, g, p),
         NEW m, NEW t \in Threads, ~Waits(s, m)
  PROVE  /\ Good(z, mutexDown(s, m, t), c, g, p)
         /\ s.state[t] = "READY" => mutexDown(s, m, t).state[t] = "READY"
<1>1. Sound(s, Sleepers(c)) /\ Orderly(s) /\ s \in Tables
  BY DEF Good, Sides, MutexSide, Sound
<1>2. Settled(s, mutexDown(s, m, t)) /\ Sound(mutexDown(s, m, t), Sleepers(c))
  BY <1>1, DownSound, DownSettles
<1>3. mutexDown(s, m, t).state = s.state
  BY <1>1 DEF mutexDown, Tables
<1> QED
  BY <1>2, <1>3, SettledGood

\* mutexDown that waits, e is left of the call.
LEMMA BlockGood ==
  ASSUME NEW z, NEW s, NEW c, NEW g, NEW p, Good(z, s, c, g, p),
         NEW t \in Threads, s.state[t] = "READY", c[t].op # "asleep",
         NEW m, Waits(s, m), Free(s, m) # {}, NEW e \in Calls, e.op \notin {"idle", "asleep"}
  PROVE  Good(z, mutexDown(s, m, t), [c EXCEPT ![t] = e], g, p)
<1> DEFINE d == [c EXCEPT ![t] = e]
<1>1. Sides(z, mutexDown(s, m, t), d)
  BY BlockSides DEF Good
<1>2. d \in [Threads -> Calls] /\ d[t] = e /\ \A u \in Threads : u # t => d[u] = c[u]
  BY DEF Good
<1> HIDE DEF d
<1>3. \A q \in SemSlots, u \in Threads : d[u] = AsleepIn(q) <=> c[u] = AsleepIn(q)
  BY <1>2 DEF AsleepIn
<1>4. Balance(z, d, g, p)
  BY <1>3, SameBalance DEF Good
<1> QED
  BY <1>1, <1>2, <1>4 DEF Good, d

\* A call comes back that was not asleep.
LEMMA ReturnGood ==
  ASSUME NEW z, NEW s, NEW c, NEW g, NEW p, Good(z, s, c, g, p),
         NEW t \in Threads, s.state[t] = "READY", c[t].op # "asleep"
  PROVE  Good(z, s, [c EXCEPT ![t] = Idle], g, p)
<1> DEFINE d == [c EXCEPT ![t] = Idle]
<1>1. Sides(z, s, d)
  BY ReturnSides DEF Good
<1>2. d \in [Threads -> Calls] /\ d[t] = Idle /\ \A u \in Threads : u # t => d[u] = c[u]
  BY DEF Good, Calls
<1> HIDE DEF d
<1>3. \A q \in SemSlots, u \in Threads : d[u] = AsleepIn(q) <=> c[u] = AsleepIn(q)
  BY <1>2 DEF AsleepIn, Idle
<1>4. Balance(z, d, g, p)
  BY <1>3, SameBalance DEF Good
<1> QED
  BY <1>1, <1>2, <1>4 DEF Good, d

\* A woken thread comes back from wait.
LEMMA AwakeGood ==
  ASSUME NEW z, NEW s, NEW c, NEW g, NEW p, Good(z, s, c, g, p), NEW q \in SemSlots,
         NEW t \in Threads, s.state[t] = "READY", c[t] = AsleepIn(q)
  PROVE  Good(z, s, [c EXCEPT ![t] = Idle], g, [p EXCEPT ![q] = @ + 1])
<1> DEFINE d == [c EXCEPT ![t] = Idle]
           h == [p EXCEPT ![q] = @ + 1]
<1>1. Sides(z, s, d)
  BY ReturnSides DEF Good
<1>2. d \in [Threads -> Calls] /\ d[t] = Idle /\ \A u \in Threads : u # t => d[u] = c[u]
  BY DEF Good, Calls
<1>3. p \in [SemSlots -> Nat] /\ z.value \in [SemSlots -> Int]
  BY DEF Good, Balance, Sides, SemSide, SemShape
<1>4. /\ h \in [SemSlots -> Nat] /\ h[q] = p[q] + 1
      /\ \A x \in SemSlots : x # q => h[x] = p[x]
  BY <1>3
<1> HIDE DEF d, h
<1>5. \A x : d[t] # AsleepIn(x)
  BY <1>2 DEF Idle, AsleepIn
<1>6. t \in Woken(z, c, q)
  BY DEF Woken, Good, Sides, SemSide, ListIsBlocked
<1>7. Woken(z, d, q) = Woken(z, c, q) \ {t}
  BY <1>2, <1>5 DEF Woken
<1>8. \A x \in SemSlots : x # q => Woken(z, d, x) = Woken(z, c, x)
  BY <1>2, <1>5, AsleepInOnce DEF Woken
<1>9. Cardinality(Woken(z, d, q)) = Cardinality(Woken(z, c, q)) - 1
  BY <1>6, <1>7, WokenFinite, FS_RemoveElement
<1>10. g[q] = h[q] + Cardinality(Woken(z, d, q)) + Positive(z.value[q])
  <2>1. g[q] = p[q] + Cardinality(Woken(z, c, q)) + Positive(z.value[q])
    BY DEF Good, Balance
  <2>2. p[q] \in Nat /\ Cardinality(Woken(z, c, q)) \in Nat /\ Positive(z.value[q]) \in Nat
    BY <1>3, WokenFinite, PositiveIsNat
  <2> QED
    BY <1>4, <1>9, <2>1, <2>2
<1>11. Balance(z, d, g, h)
  BY <1>4, <1>8, <1>10 DEF Good, Balance
<1> QED
  BY <1>1, <1>2, <1>11 DEF Good, d, h

\* wait that sleeps.
LEMMA SleepGood ==
  ASSUME NEW z, NEW s, NEW c, NEW g, NEW p, Good(z, s, c, g, p),
         NEW t \in Threads, s.state[t] = "READY", c[t].op # "asleep", NEW q \in SemSlots,
         SemFree(z, q) # {}, z.value[q] - 1 < 0
  PROVE  /\ Good(Enlisted(z, q, t), [s EXCEPT !.state[t] = "BLOCKED"],
                 [c EXCEPT ![t] = AsleepIn(q)], g, p)
         /\ AllKeep(z, Enlisted(z, q, t))
<1> DEFINE d == [c EXCEPT ![t] = AsleepIn(q)]
           y == Enlisted(z, q, t)
           r == [s EXCEPT !.state[t] = "BLOCKED"]
<1>3. c \in [Threads -> Calls] /\ Sides(z, s, c) /\ Balance(z, c, g, p)
  BY DEF Good
<1>4. /\ Sides(y, r, d)
      /\ \A x \in SemSlots : ~InSem(z, x, t)
      /\ y.value[q] = z.value[q] - 1
      /\ \A x \in SemSlots : x # q => y.value[x] = z.value[x]
      /\ \A x \in SemSlots, u \in Threads :
           InSem(y, x, u) <=> InSem(z, x, u) \/ (x = q /\ u = t)
  BY <1>3, SleepSides
<1>5. /\ d \in [Threads -> Calls] /\ d[t] = AsleepIn(q)
      /\ \A u \in Threads : u # t => d[u] = c[u]
  BY <1>3 DEF Calls, AsleepIn
<1> HIDE DEF d, y, r
<1>6. z.value \in [SemSlots -> Int]
  BY <1>3 DEF Sides, SemSide, SemShape
<1>7. /\ y.value[q] = z.value[q] - 1
      /\ \A x \in SemSlots : x # q => y.value[x] = z.value[x]
  BY <1>4, <1>6
<1>8. Positive(y.value[q]) = 0 /\ Positive(z.value[q]) = 0
  BY <1>6, <1>7 DEF Positive
<1>9. \A u \in Threads, x \in SemSlots :
        d[u] = AsleepIn(x) /\ ~InSem(y, x, u) <=> c[u] = AsleepIn(x) /\ ~InSem(z, x, u)
  <2>1. \A x \in SemSlots : c[t] # AsleepIn(x)
    BY DEF AsleepIn
  <2> QED
    BY <1>4, <1>5, <2>1, AsleepInOnce
<1>10. \A x \in SemSlots : Woken(y, d, x) = Woken(z, c, x)
  BY <1>9 DEF Woken
<1>11. \A x \in SemSlots : Positive(y.value[x]) = Positive(z.value[x])
  BY <1>7, <1>8
<1>12. Balance(y, d, g, p)
  BY <1>3, <1>10, <1>11 DEF Balance
<1>13. ASSUME NEW x \in SemSlots PROVE Keeps(z, y, x)
  <2>1. x # q => \A u \in Threads : InSem(y, x, u) <=> InSem(z, x, u)
    BY <1>4
  <2>2. x = q => \A u \in Threads : InSem(y, x, u) <=> InSem(z, x, u) \/ u = t
    BY <1>4
  <2> QED
    BY <1>4, <1>8, <1>11, <2>1, <2>2 DEF Keeps, Permits
<1> QED
  BY <1>4, <1>5, <1>12, <1>13 DEF Good, AllKeep, d, y, r

\* wait that passes at once.
LEMMA PassGood ==
  ASSUME NEW z, NEW s, NEW c, NEW g, NEW p, Good(z, s, c, g, p),
         NEW q \in SemSlots, z.value[q] - 1 >= 0
  PROVE  /\ Good([z EXCEPT !.value[q] = @ - 1], s, c, g, [p EXCEPT ![q] = @ + 1])
         /\ AllKeep(z, [z EXCEPT !.value[q] = @ - 1])
<1> DEFINE h == [p EXCEPT ![q] = @ + 1]
<1>1. PICK y : y = [z EXCEPT !.value[q] = @ - 1]
  OBVIOUS
<1>2. z \in SemShape /\ ValueCounts(z) /\ z.value \in [SemSlots -> Int] /\ z.value[q] \in Int
  BY DEF Good, Sides, SemSide, SemShape
<1>3. z.blockedQuantity[q] = 0
  BY <1>2 DEF ValueCounts, Positive
<1>4. PICK v \in Int : v = z.value[q] - 1
  BY <1>2
<1>5. y = [z EXCEPT !.value[q] = v]
  BY <1>1, <1>4
<1>6. Sides(y, s, c)
  BY <1>3, <1>4, <1>5, ValueSides DEF Good
<1>7. /\ y.blocked = z.blocked /\ y.value[q] = z.value[q] - 1
      /\ \A x \in SemSlots : x # q => y.value[x] = z.value[x]
  BY <1>1, <1>2 DEF SemShape
<1>8. \A x \in SemSlots, u \in Threads : InSem(y, x, u) <=> InSem(z, x, u)
  BY <1>7 DEF InSem
<1>9. \A x \in SemSlots : Woken(y, c, x) = Woken(z, c, x)
  BY <1>8 DEF Woken
<1>10. /\ h \in [SemSlots -> Nat] /\ h[q] = p[q] + 1 /\ p[q] \in Nat
       /\ \A x \in SemSlots : x # q => h[x] = p[x]
  BY DEF Good, Balance
<1> HIDE DEF h
<1>11. /\ Positive(z.value[q]) = Positive(y.value[q]) + 1
       /\ Positive(y.value[q]) \in Nat /\ Positive(z.value[q]) > 0
  BY <1>2, <1>7 DEF Positive
<1>12. g[q] = h[q] + Cardinality(Woken(y, c, q)) + Positive(y.value[q])
  <2>1. g[q] = p[q] + Cardinality(Woken(z, c, q)) + Positive(z.value[q])
    BY DEF Good, Balance
  <2>2. Cardinality(Woken(z, c, q)) \in Nat
    BY WokenFinite
  <2> QED
    BY <1>9, <1>10, <1>11, <2>1, <2>2
<1>13. Balance(y, c, g, h)
  BY <1>7, <1>9, <1>10, <1>12 DEF Good, Balance
<1>14. Positive(y.value[q]) = Positive(z.value[q]) - 1
  BY <1>11, <1>2 DEF Positive
<1>15. AllKeep(z, y)
  BY <1>7, <1>8, <1>11, <1>14 DEF AllKeep, Keeps, Permits
<1> QED
  BY <1>1, <1>6, <1>13, <1>15 DEF Good, h

\* signal.
LEMMA SignalGood ==
  ASSUME NEW z, NEW s, NEW c, NEW g, NEW p, Good(z, s, c, g, p), NEW q \in SemSlots
  PROVE  /\ Good(Delisted(z, q), wakeFirst(s, z, q), c, [g EXCEPT ![q] = @ + 1], p)
         /\ AllKeep(z, Delisted(z, q))
<1> DEFINE h == [g EXCEPT ![q] = @ + 1]
<1>1. PICK y : y = Delisted(z, q)
  OBVIOUS
<1>2. z \in SemShape /\ ValueCounts(z) /\ z.value \in [SemSlots -> Int] /\ z.value[q] \in Int
  BY DEF Good, Sides, SemSide, SemShape
<1>3. c \in [Threads -> Calls] /\ Sides(z, s, c) /\ Balance(z, c, g, p)
  BY DEF Good
<1>4. /\ h \in [SemSlots -> Nat] /\ h[q] = g[q] + 1 /\ p[q] \in Nat
      /\ \A x \in SemSlots : x # q => h[x] = g[x]
  BY DEF Good, Balance
<1>5. /\ g[q] = p[q] + Cardinality(Woken(z, c, q)) + Positive(z.value[q])
      /\ Cardinality(Woken(z, c, q)) \in Nat
  BY <1>3, WokenFinite DEF Balance
<1> HIDE DEF h
<1>6. ASSUME z.blockedQuantity[q] = 0
      PROVE  Good(y, wakeFirst(s, z, q), c, h, p) /\ AllKeep(z, y)
  <2>1. wakeFirst(s, z, q) = s /\ y = [z EXCEPT !.value[q] = @ + 1]
    BY <1>1, <1>6 DEF wakeFirst, Delisted, takeFirst
  <2>2. PICK v \in Int : v = z.value[q] + 1
    BY <1>2
  <2>3. y = [z EXCEPT !.value[q] = v]
    BY <2>1, <2>2
  <2>4. z.value[q] >= 0 /\ v >= 0
    BY <1>2, <1>6, <2>2 DEF ValueCounts, Positive
  <2>5. Sides(y, s, c)
    BY <1>3, <1>6, <2>2, <2>3, <2>4, ValueSides
  <2>6. /\ y.blocked = z.blocked /\ y.value[q] = z.value[q] + 1
        /\ \A x \in SemSlots : x # q => y.value[x] = z.value[x]
    BY <1>2, <2>1 DEF SemShape
  <2>7. \A x \in SemSlots, u \in Threads : InSem(y, x, u) <=> InSem(z, x, u)
    BY <2>6 DEF InSem
  <2>8. \A x \in SemSlots : Woken(y, c, x) = Woken(z, c, x)
    BY <2>7 DEF Woken
  <2>9. Positive(y.value[q]) = Positive(z.value[q]) + 1 /\ Positive(z.value[q]) \in Nat
    BY <1>2, <2>4, <2>6 DEF Positive
  <2>10. h[q] = p[q] + Cardinality(Woken(y, c, q)) + Positive(y.value[q])
    BY <1>4, <1>5, <2>8, <2>9
  <2>11. Balance(y, c, h, p)
    BY <1>3, <1>4, <2>6, <2>8, <2>10 DEF Balance
  <2>12. \A u \in Threads : ~InSem(z, q, u)
    <3>1. SemWaiting(z, q) = {}
      BY <1>2, <1>6, SemWaitingFinite DEF ValueCounts
    <3> QED
      BY <3>1, NotUsedIsNoThread DEF InSem, SemWaiting
  <2>13. AllKeep(z, y)
    BY <2>6, <2>7, <2>9, <2>12 DEF AllKeep, Keeps, Permits
  <2> QED
    BY <1>3, <2>1, <2>5, <2>11, <2>13 DEF Good
<1>7. ASSUME z.blockedQuantity[q] # 0
      PROVE  Good(y, wakeFirst(s, z, q), c, h, p) /\ AllKeep(z, y)
  <2>1. /\ Sides(y, wakeFirst(s, z, q), c)
        /\ z.value[q] < 0
        /\ y.value = [z.value EXCEPT ![q] = z.value[q] + 1]
        /\ \E w \in Threads :
             /\ c[w] = AsleepIn(q) /\ InSem(z, q, w)
             /\ \A x \in SemSlots, u \in Threads :
                  InSem(y, x, u) <=> InSem(z, x, u) /\ ~(x = q /\ u = w)
    BY <1>1, <1>3, <1>7, WakeSides
  <2>2. PICK w \in Threads :
          /\ c[w] = AsleepIn(q) /\ InSem(z, q, w)
          /\ \A x \in SemSlots, u \in Threads :
               InSem(y, x, u) <=> InSem(z, x, u) /\ ~(x = q /\ u = w)
    BY <2>1
  <2>3. /\ y.value[q] = z.value[q] + 1
        /\ \A x \in SemSlots : x # q => y.value[x] = z.value[x]
    BY <1>2, <2>1
  <2>4. Positive(y.value[q]) = 0 /\ Positive(z.value[q]) = 0
    BY <1>2, <2>1, <2>3 DEF Positive
  <2>5. Woken(y, c, q) = Woken(z, c, q) \union {w} /\ w \notin Woken(z, c, q)
    BY <2>2 DEF Woken
  <2>6. \A x \in SemSlots : x # q => Woken(y, c, x) = Woken(z, c, x)
    BY <2>2 DEF Woken
  <2>7. Cardinality(Woken(y, c, q)) = Cardinality(Woken(z, c, q)) + 1
    BY <2>5, WokenFinite, FS_AddElement
  <2>8. h[q] = p[q] + Cardinality(Woken(y, c, q)) + Positive(y.value[q])
    BY <1>4, <1>5, <2>4, <2>7
  <2>9. Balance(y, c, h, p)
    BY <1>3, <1>4, <2>3, <2>6, <2>8 DEF Balance
  <2>10. ASSUME NEW x \in SemSlots PROVE Keeps(z, y, x)
    <3>1. x # q => \A u \in Threads : InSem(y, x, u) <=> InSem(z, x, u)
      BY <2>2
    <3>2. x = q => \A u \in Threads : InSem(y, x, u) <=> InSem(z, x, u) /\ u # w
      BY <2>2
    <3> QED
      BY <2>2, <2>3, <2>4, <3>1, <3>2 DEF Keeps, Permits
  <2> QED
    BY <1>3, <2>1, <2>9, <2>10 DEF Good, AllKeep
<1> QED
  BY <1>1, <1>6, <1>7 DEF h

--------------------------------------------------------------------------------
(* Semaphores are made and released *)

LEMMA SameListsGood ==
  ASSUME NEW z, NEW s, NEW c, NEW g, NEW p, Good(z, s, c, g, p), NEW y \in SemShape,
         y.blocked = z.blocked, y.blockedQuantity = z.blockedQuantity, y.value = z.value
  PROVE  Good(y, s, c, g, p)
<1>1. Sides(y, s, c)
  BY SameListsSides DEF Good
<1>2. \A q \in SemSlots, u \in Threads : InSem(y, q, u) <=> InSem(z, q, u)
  BY DEF InSem
<1>3. Balance(y, c, g, p)
  BY <1>2, SameBalance DEF Good
<1> QED
  BY <1>1, <1>3 DEF Good

LEMMA NextSemaphoreType ==
  ASSUME NEW creator
  PROVE  getNextSemaphoreAvailable(creator) \in SemSlots \union {FullList}
<1> DEFINE free == {q \in SemSlots : creator[q] = NotUsed}
<1>1. free \in SUBSET Nat /\ free \subseteq SemSlots
  BY SemaphoreAssumption DEF SemSlots
<1>2. free # {} => Min(free) \in free
  BY <1>1, MinIsLeast
<1> QED
  BY <1>1, <1>2 DEF getNextSemaphoreAvailable

LEMMA MutexNumberType ==
  ASSUME NEW s \in Tables, NEW name
  PROVE  mutexNumber(s, name) \in Int
<1> DEFINE named == {m \in Slots : s.name[m] = name /\ isValidMutex(s, m)}
<1>1. named \in SUBSET Nat
  BY MutexAssumption DEF Slots
<1>2. found(s, name) => Min(named) \in Nat
  <2>1. found(s, name) => named # {}
    BY DEF found
  <2> QED
    BY <1>1, <2>1, MinIsLeast
<1>3. s.first \in Int
  <2>1. s.first \in Slots \union {FullList}
    BY DEF Tables
  <2> QED
    BY <2>1, MutexAssumption DEF Slots, FullList
<1> HIDE DEF named
<1>4. NoMutex \in Int
  BY DEF NoMutex
<1>5. mutexNumber(s, name) = IF found(s, name) THEN Min(named)
                             ELSE IF canCreate(s, name) THEN s.first ELSE NoMutex
  BY DEF mutexNumber, named
<1> QED
  BY <1>2, <1>3, <1>4, <1>5

LEMMA NameSlotFields ==
  ASSUME NEW z \in SemShape, NEW name \in Names, NEW t \in Threads
  PROVE  /\ nameSlot(z, name, t) \in SemShape
         /\ nameSlot(z, name, t).blocked = z.blocked
         /\ nameSlot(z, name, t).blockedQuantity = z.blockedQuantity
         /\ nameSlot(z, name, t).value = z.value
<1> DEFINE f == z.first
           y == [z EXCEPT !.name[f] = overlay(@, name), !.creator[f] = t]
<1>1. CASE f \notin SemSlots
  BY <1>1 DEF nameSlot
<1>2. CASE f \in SemSlots
  <2>1. nameSlot(z, name, t) = y
    BY <1>2 DEF nameSlot
  <2>2. z.name \in [SemSlots -> Seq(Chars)] /\ name \in Seq(Chars)
    BY MutexAssumption DEF SemShape
  <2>3. overlay(z.name[f], name) \in Seq(Chars)
    BY <1>2, <2>2, OverlayType
  <2> HIDE DEF f
  <2>4. /\ y.name = [z.name EXCEPT ![f] = overlay(z.name[f], name)]
        /\ y.creator = [z.creator EXCEPT ![f] = t]
        /\ y.blocked = z.blocked /\ y.blockedQuantity = z.blockedQuantity
        /\ y.value = z.value /\ y.mutex = z.mutex /\ y.first = z.first /\ y.used = z.used
    BY DEF SemShape
  <2>o. PICK o : o = overlay(z.name[f], name)
    OBVIOUS
  <2>n. y.name = [z.name EXCEPT ![f] = o] /\ o \in Seq(Chars)
    BY <2>3, <2>4, <2>o
  <2> HIDE DEF y
  <2>5. y.name \in [SemSlots -> Seq(Chars)]
    BY <2>2, <2>n
  <2>6. y.creator \in [SemSlots -> Threads \union {NotUsed}]
    BY <2>4 DEF SemShape
  <2>7. y \in SemShape
    BY <2>4, <2>5, <2>6 DEF SemShape, y
  <2> QED
    BY <2>1, <2>4, <2>7
<1> QED
  BY <1>1, <1>2

LEMMA SetMutexFields ==
  ASSUME NEW z \in SemShape, NEW q, NEW m \in Int
  PROVE  /\ setMutex(z, q, m) \in SemShape
         /\ setMutex(z, q, m).blocked = z.blocked
         /\ setMutex(z, q, m).blockedQuantity = z.blockedQuantity
         /\ setMutex(z, q, m).value = z.value
<1> DEFINE next == getNextSemaphoreAvailable(z.creator)
           lock == IF q \in SemSlots THEN [z.mutex EXCEPT ![q] = m] ELSE z.mutex
           y == [z EXCEPT !.mutex = lock, !.used = @ + 1, !.first = next]
<1>1. next \in SemSlots \union {FullList}
  BY NextSemaphoreType
<1>2. lock \in [SemSlots -> Int]
  BY DEF SemShape
<1>3. setMutex(z, q, m) = z \/ setMutex(z, q, m) = y
  BY DEF setMutex
<1> HIDE DEF next, lock
<1>4. /\ y.mutex = lock /\ y.used = z.used + 1 /\ y.first = next
      /\ y.blocked = z.blocked /\ y.blockedQuantity = z.blockedQuantity
      /\ y.value = z.value /\ y.creator = z.creator /\ y.name = z.name
  BY DEF SemShape
<1>5. y.used \in Nat
  BY <1>4 DEF SemShape
<1>6. y \in SemShape
  BY <1>1, <1>2, <1>4, <1>5 DEF SemShape
<1> QED
  BY <1>3, <1>4, <1>6

LEMMA CallFields ==
  ASSUME NEW c \in Calls
  PROVE  /\ c.op = "get" => c.name \in Names
         /\ c.op = "named" => c.name \in Names
         /\ c.op \in {"wait", "signal", "asleep", "release", "freed"} => c.q \in SemSlots
         /\ c.op = "asleep" => c = AsleepIn(c.q)
BY DEF Calls, Idle, AsleepIn

\* The end of createSemaphore, from a table z with the lists and values of sem.
LEMMA NamedGood ==
  ASSUME NEW s, NEW z, NEW t \in Threads, NEW name \in Names, NEW q,
         Good(z, s, call, signalled, passed), s.state[t] = "READY", call[t].op # "asleep",
         Named(t, s, z, name, q)
  PROVE  /\ Good(sem', k', call', signalled', passed')
         /\ sem'.blocked = z.blocked /\ sem'.value = z.value
<1> DEFINE r == mutexUp(getMutex(s, name, t), TableLock, t)
           d == [call EXCEPT ![t] = Idle]
           n == mutexNumber(s, name)
<1>1. /\ k' = r /\ sem' = setMutex(z, q, n) /\ call' = d
      /\ signalled' = signalled /\ passed' = passed
  BY DEF Named, Returns
<1>2. Good(z, s, d, signalled, passed)
  BY ReturnGood
<1>3. Good(z, r, d, signalled, passed)
  BY <1>2, GetGood, UpGood
<1>4. z \in SemShape /\ s \in Tables
  BY DEF Good, Sides, MutexSide, Sound, SemSide
<1>5. n \in Int
  BY <1>4, MutexNumberType
<1> HIDE DEF r, d, n
<1>6. /\ setMutex(z, q, n) \in SemShape
      /\ setMutex(z, q, n).blocked = z.blocked
      /\ setMutex(z, q, n).blockedQuantity = z.blockedQuantity
      /\ setMutex(z, q, n).value = z.value
  BY <1>4, <1>5, SetMutexFields
<1>7. Good(setMutex(z, q, n), r, d, signalled, passed)
  BY <1>3, <1>6, SameListsGood
<1> QED
  BY <1>1, <1>6, <1>7

--------------------------------------------------------------------------------
(* What is left of a call is done *)

IInv == Good(sem, k, call, signalled, passed)

\* A step keeps the invariant and the promise of every semaphore.
Kept == IInv' /\ AllKeep(sem, sem')

\* Thread t goes on with its call, c is left of it, s is the mutex table.
Running(s, t) ==
  /\ Good(sem, s, call, signalled, passed)
  /\ t \in Threads /\ s.state[t] = "READY" /\ call[t].op # "asleep"

LEMMA GetKept ==
  ASSUME NEW s, NEW t, NEW name \in Names, Running(s, t), Get(t, s, name)
  PROVE  Kept
<1> USE DEF Running
<1> DEFINE d == [call EXCEPT ![t] = Idle]
           z == nameSlot(sem, name, t)
<1>1. Good(sem, s, d, signalled, passed)
  BY ReturnGood
<1>2. CASE foundSemaphore(name)
  <2>1. k' = s /\ sem' = sem /\ call' = d /\ UNCHANGED <<signalled, passed>>
    BY <1>2 DEF Get, Returns
  <2> QED
    BY <1>1, <2>1, SameKeeps DEF Kept, IInv
<1>3. CASE ~foundSemaphore(name) /\ ~canCreateSemaphore(name)
  <2>1. /\ k' = mutexUp(s, TableLock, t) /\ sem' = sem /\ call' = d
        /\ UNCHANGED <<signalled, passed>>
    BY <1>3 DEF Get, Returns
  <2>2. Good(sem, mutexUp(s, TableLock, t), d, signalled, passed)
    BY <1>1, UpGood
  <2> QED
    BY <2>1, <2>2, SameKeeps DEF Kept, IInv
<1>4. CASE ~foundSemaphore(name) /\ canCreateSemaphore(name)
  <2> HIDE DEF d
  <2>1. sem \in SemShape /\ s \in Tables
    BY DEF Good, Sides, MutexSide, Sound, SemSide
  <2>2. /\ z \in SemShape /\ z.blocked = sem.blocked
        /\ z.blockedQuantity = sem.blockedQuantity /\ z.value = sem.value
    BY <2>1, NameSlotFields
  <2>3. sem.first \in SemSlots \union {FullList}
    BY <2>1 DEF SemShape
  <2> HIDE DEF z
  <2>4. Good(z, s, call, signalled, passed)
    BY <2>2, SameListsGood
  <2>5. ASSUME Blocks(t, s, Admin, [op |-> "named", name |-> name, q |-> sem.first]),
               sem' = z, UNCHANGED <<hung, signalled, passed>>
        PROVE  Kept
    <3> DEFINE e == [op |-> "named", name |-> name, q |-> sem.first]
    <3>1. e \in Calls /\ e.op = "named"
      BY <2>3 DEF Calls
    <3> HIDE DEF e
    <3>2. /\ Waits(s, Admin) /\ Free(s, Admin) # {} /\ k' = mutexDown(s, Admin, t)
          /\ call' = [call EXCEPT ![t] = e]
      BY <2>5 DEF Blocks, e
    <3>3. Good(z, mutexDown(s, Admin, t), [call EXCEPT ![t] = e], signalled, passed)
      BY <2>4, <3>1, <3>2, BlockGood
    <3>4. AllKeep(sem, sem')
      BY <2>2, <2>5, SameKeeps
    <3> QED
      BY <2>5, <3>2, <3>3, <3>4 DEF Kept, IInv
  <2>6. ASSUME ~Waits(s, Admin),
               Named(t, mutexDown(s, Admin, t), z, name, sem.first)
        PROVE  Kept
    <3>1. /\ Good(z, mutexDown(s, Admin, t), call, signalled, passed)
          /\ mutexDown(s, Admin, t).state[t] = "READY"
      BY <2>4, <2>6, DownGood
    <3>2. /\ Good(sem', k', call', signalled', passed')
          /\ sem'.blocked = z.blocked /\ sem'.value = z.value
      BY <2>6, <3>1, NamedGood
    <3>3. AllKeep(sem, sem')
      BY <2>2, <3>2, SameKeeps
    <3> QED
      BY <3>2, <3>3 DEF Kept, IInv
  <2> QED
    BY <1>4, <2>5, <2>6 DEF Get, z
<1> QED
  BY <1>2, <1>3, <1>4

LEMMA NamedKept ==
  ASSUME NEW s, NEW t, NEW name \in Names, NEW q, Running(s, t), Named(t, s, sem, name, q)
  PROVE  Kept
<1>1. /\ Good(sem', k', call', signalled', passed')
      /\ sem'.blocked = sem.blocked /\ sem'.value = sem.value
  BY NamedGood DEF Running
<1> QED
  BY <1>1, SameKeeps DEF Kept, IInv

LEMMA FreedKept ==
  ASSUME NEW s, NEW t, NEW q \in SemSlots, Running(s, t), Freed(t, s, q)
  PROVE  Kept
<1> USE DEF Running
<1> DEFINE d == [call EXCEPT ![t] = Idle]
           r == releaseMutex(s, sem.mutex[q], t)
           y == [sem EXCEPT !.creator[q] = NotUsed]
<1>1. /\ k' = r \/ k' = mutexUp(r, TableLock, t)
      /\ sem' = y /\ call' = d /\ UNCHANGED <<signalled, passed>>
  BY DEF Freed, Returns
<1>2. Good(sem, s, d, signalled, passed)
  BY ReturnGood
<1>3. Good(sem, r, d, signalled, passed)
  BY <1>2, ReleaseGood
<1> HIDE DEF d, r
<1>4. Good(sem, mutexUp(r, TableLock, t), d, signalled, passed)
  BY <1>3, UpGood
<1>5. sem \in SemShape
  BY DEF Good, Sides, SemSide
<1>6. /\ y.creator = [sem.creator EXCEPT ![q] = NotUsed]
      /\ y.blocked = sem.blocked /\ y.blockedQuantity = sem.blockedQuantity
      /\ y.value = sem.value /\ y.name = sem.name /\ y.mutex = sem.mutex
      /\ y.first = sem.first /\ y.used = sem.used
  BY <1>5 DEF SemShape
<1>7. y.creator \in [SemSlots -> Threads \union {NotUsed}]
  BY <1>5, <1>6 DEF SemShape
<1>8. y \in SemShape
  BY <1>5, <1>6, <1>7 DEF SemShape
<1> HIDE DEF y
<1>9. Good(y, k', d, signalled, passed)
  BY <1>1, <1>3, <1>4, <1>6, <1>8, SameListsGood
<1> QED
  BY <1>1, <1>6, <1>9, SameKeeps DEF Kept, IInv

LEMMA ReleaseKept ==
  ASSUME NEW s, NEW t, NEW q \in SemSlots, Running(s, t), Release(t, s, q)
  PROVE  Kept
<1> USE DEF Running
<1>1. ASSUME sem.creator[q] # t PROVE Kept
  <2> DEFINE d == [call EXCEPT ![t] = Idle]
  <2>1. /\ k' = mutexUp(s, TableLock, t) /\ sem' = sem /\ call' = d
        /\ UNCHANGED <<signalled, passed>>
    BY <1>1 DEF Release, Returns
  <2>2. Good(sem, s, d, signalled, passed)
    BY ReturnGood
  <2>3. Good(sem, mutexUp(s, TableLock, t), d, signalled, passed)
    BY <2>2, UpGood
  <2> QED
    BY <2>1, <2>3, SameKeeps DEF Kept, IInv
<1>2. ASSUME Blocks(t, s, Admin, [op |-> "freed", q |-> q]),
             UNCHANGED <<sem, hung, signalled, passed>>
      PROVE  Kept
  <2> DEFINE e == [op |-> "freed", q |-> q]
  <2>1. e \in Calls /\ e.op = "freed"
    BY DEF Calls
  <2> HIDE DEF e
  <2>2. /\ Waits(s, Admin) /\ Free(s, Admin) # {} /\ k' = mutexDown(s, Admin, t)
        /\ call' = [call EXCEPT ![t] = e]
    BY <1>2 DEF Blocks, e
  <2>3. Good(sem, mutexDown(s, Admin, t), [call EXCEPT ![t] = e], signalled, passed)
    BY <2>1, <2>2, BlockGood
  <2> QED
    BY <1>2, <2>2, <2>3, SameKeeps DEF Kept, IInv
<1>3. ASSUME ~Waits(s, Admin), Freed(t, mutexDown(s, Admin, t), q) PROVE Kept
  <2>1. Running(mutexDown(s, Admin, t), t)
    BY <1>3, DownGood
  <2> HIDE DEF Running
  <2> QED
    BY <1>3, <2>1, FreedKept
<1> QED
  BY <1>1, <1>2, <1>3 DEF Release

LEMMA WaitKept ==
  ASSUME NEW s, NEW t, NEW q \in SemSlots, Running(s, t), Wait(t, s, q)
  PROVE  Kept
<1> USE DEF Running
<1>1. sem \in SemShape
  BY DEF Good, Sides, SemSide
<1>2. [sem EXCEPT !.value[q] = @ - 1].value[q] = sem.value[q] - 1
  BY <1>1 DEF SemShape
<1>v. sem.value[q] \in Int
  BY <1>1 DEF SemShape
<1>3. ASSUME sem.value[q] - 1 < 0 PROVE Kept
  <2> DEFINE d == [call EXCEPT ![t] = AsleepIn(q)]
             r == [s EXCEPT !.state[t] = "BLOCKED"]
             y == Enlisted(sem, q, t)
             m == sem.mutex[q]
  <2>1. /\ SemFree(sem, q) # {} /\ sem' = y /\ k' = mutexUp(r, m, t)
        /\ call' = d /\ UNCHANGED <<signalled, passed>>
    BY <1>2, <1>3 DEF Wait, mustWait, Enlisted, SemFree, AsleepIn
  <2>2. Good(y, r, d, signalled, passed) /\ AllKeep(sem, y)
    BY <1>3, <2>1, SleepGood
  <2> HIDE DEF d, r, y, m
  <2>3. Good(y, mutexUp(r, m, t), d, signalled, passed)
    BY <2>2, UpGood
  <2> QED
    BY <2>1, <2>2, <2>3 DEF Kept, IInv
<1>4. ASSUME ~(sem.value[q] - 1 < 0) PROVE Kept
  <2> DEFINE d == [call EXCEPT ![t] = Idle]
             y == [sem EXCEPT !.value[q] = @ - 1]
             m == sem.mutex[q]
             h == [passed EXCEPT ![q] = @ + 1]
  <2>1. /\ sem' = y /\ k' = mutexUp(s, m, t)
        /\ call' = d /\ signalled' = signalled /\ passed' = h
    BY <1>2, <1>4 DEF Wait, mustWait, Returns
  <2>2. Good(sem, s, d, signalled, passed)
    BY ReturnGood
  <2> HIDE DEF d
  <2>3. sem.value[q] - 1 >= 0
    BY <1>4, <1>v
  <2>4. Good(y, s, d, signalled, h) /\ AllKeep(sem, y)
    BY <2>2, <2>3, PassGood
  <2> HIDE DEF y, m, h
  <2>5. Good(y, mutexUp(s, m, t), d, signalled, h)
    BY <2>4, UpGood
  <2> QED
    BY <2>1, <2>4, <2>5 DEF Kept, IInv
<1> QED
  BY <1>3, <1>4

LEMMA SignalKept ==
  ASSUME NEW s, NEW t, NEW q \in SemSlots, Running(s, t), Signal(t, s, q)
  PROVE  Kept
<1> USE DEF Running
<1> DEFINE d == [call EXCEPT ![t] = Idle]
           y == Delisted(sem, q)
           r == wakeFirst(s, sem, q)
           m == sem.mutex[q]
           h == [signalled EXCEPT ![q] = @ + 1]
<1>1. /\ sem' = y /\ k' = mutexUp(r, m, t)
      /\ call' = d /\ passed' = passed /\ signalled' = h
  BY DEF Signal, Returns, Delisted
<1>2. Good(sem, s, d, signalled, passed)
  BY ReturnGood
<1> HIDE DEF d
<1>3. Good(y, r, d, h, passed) /\ AllKeep(sem, y)
  BY <1>2, SignalGood
<1> HIDE DEF y, r, m, h
<1>4. Good(y, mutexUp(r, m, t), d, h, passed)
  BY <1>3, UpGood
<1> QED
  BY <1>1, <1>3, <1>4 DEF Kept, IInv

LEMMA ContinueKept ==
  ASSUME NEW s, NEW t \in Threads, NEW c \in Calls,
         Good(sem, s, call, signalled, passed), s.state[t] = "READY",
         call[t] = c \/ (call[t].op # "asleep" /\ c.op # "asleep"), Continue(t, s, c)
  PROVE  Kept
<1>1. c.op # "asleep" => Running(s, t)
  BY DEF Running
<1>2. ASSUME c.op = "get", Get(t, s, c.name) PROVE Kept
  BY <1>1, <1>2, CallFields, GetKept
<1>3. ASSUME c.op = "named", Named(t, s, sem, c.name, c.q) PROVE Kept
  BY <1>1, <1>3, CallFields, NamedKept
<1>4. ASSUME c.op = "release", Release(t, s, c.q) PROVE Kept
  BY <1>1, <1>4, CallFields, ReleaseKept
<1>5. ASSUME c.op = "freed", Freed(t, s, c.q) PROVE Kept
  BY <1>1, <1>5, CallFields, FreedKept
<1>6. ASSUME c.op = "wait", Wait(t, s, c.q) PROVE Kept
  BY <1>1, <1>6, CallFields, WaitKept
<1>7. ASSUME c.op = "signal", Signal(t, s, c.q) PROVE Kept
  BY <1>1, <1>7, CallFields, SignalKept
<1>8. ASSUME c.op = "asleep", k' = s, Returns(t),
             passed' = [passed EXCEPT ![c.q] = @ + 1], UNCHANGED <<sem, hung, signalled>>
      PROVE  Kept
  <2>1. PICK q \in SemSlots : q = c.q
    BY <1>8, CallFields
  <2>2. call[t] = AsleepIn(q)
    BY <1>8, <2>1, CallFields
  <2>3. Good(sem, s, [call EXCEPT ![t] = Idle], signalled, [passed EXCEPT ![q] = @ + 1])
    BY <2>2, AwakeGood
  <2> QED
    BY <1>8, <2>1, <2>3, SameKeeps DEF Kept, IInv, Returns
<1>9. ASSUME c.op = "down", k' = s, Returns(t), UNCHANGED <<sem, hung, signalled, passed>>
      PROVE  Kept
  <2>1. Good(sem, s, [call EXCEPT ![t] = Idle], signalled, passed)
    BY <1>1, <1>9, ReturnGood DEF Running
  <2> QED
    BY <1>9, <2>1, SameKeeps DEF Kept, IInv, Returns
<1> QED
  BY <1>2, <1>3, <1>4, <1>5, <1>6, <1>7, <1>8, <1>9 DEF Continue

LEMMA BeginKept ==
  ASSUME IInv, NEW t \in Threads, NEW m, NEW c \in Calls,
         c.op \notin {"idle", "asleep"}, Begin(t, m, c)
  PROVE  Kept
<1> USE DEF IInv
<1>1. k.state[t] = "READY" /\ call[t] = Idle
  BY DEF Begin, Runs
<1>2. call[t].op # "asleep"
  BY <1>1 DEF Idle
<1>3. ASSUME Blocks(t, k, m, c), UNCHANGED <<sem, hung, signalled, passed>> PROVE Kept
  <2>1. /\ Waits(k, m) /\ Free(k, m) # {} /\ k' = mutexDown(k, m, t)
        /\ call' = [call EXCEPT ![t] = c]
    BY <1>3 DEF Blocks
  <2>2. Good(sem, mutexDown(k, m, t), [call EXCEPT ![t] = c], signalled, passed)
    BY <1>1, <1>2, <2>1, BlockGood
  <2> QED
    BY <1>3, <2>1, <2>2, SameKeeps DEF Kept
<1>4. ASSUME ~Waits(k, m), Continue(t, mutexDown(k, m, t), c) PROVE Kept
  <2>1. PICK s : s = mutexDown(k, m, t)
    OBVIOUS
  <2>2. Good(sem, s, call, signalled, passed) /\ s.state[t] = "READY"
    BY <1>1, <1>4, <2>1, DownGood
  <2> QED
    BY <1>2, <1>4, <2>1, <2>2, ContinueKept
<1> QED
  BY <1>3, <1>4 DEF Begin

LEMMA InitGood == Init => IInv
<1> SUFFICES ASSUME Init PROVE IInv
  OBVIOUS
<1>1. \A q \in SemSlots, t \in Threads : ~InSem(sem, q, t)
  BY NotUsedIsNoThread DEF Init, InSem
<1>2. \A q \in SemSlots : SemWaiting(sem, q) = {}
  BY DEF Init, SemWaiting
<1>3. sem \in SemShape
  <2>1. 0 \in SemSlots /\ <<>> \in Seq(Chars)
    BY SemaphoreAssumption DEF SemSlots
  <2> QED
    BY <2>1 DEF Init, SemShape
<1>4. \A t \in Threads : call[t] = Idle /\ call[t].op = "idle"
  BY DEF Init, Idle
<1>5. ValueCounts(sem)
  <2>1. Cardinality({}) = 0
    BY FS_EmptySet
  <2>2. ASSUME NEW q \in SemSlots
        PROVE  sem.blockedQuantity[q] = 0 /\ sem.value[q] = 0 /\ Positive(-sem.value[q]) = 0
    <3>1. sem.blockedQuantity[q] = 0 /\ sem.value[q] = 0
      BY DEF Init
    <3> QED
      BY <3>1 DEF Positive
  <2> QED
    BY <1>2, <2>1, <2>2 DEF ValueCounts
<1>6. OnePlace(sem)
  BY DEF Init, OnePlace
<1>7. \A q : \A t \in Threads : call[t] # AsleepIn(q)
  BY <1>4 DEF AsleepIn
<1>8. ListIsBlocked(sem, k, call)
  BY <1>1, <1>7 DEF ListIsBlocked
<1>9. Orderly(k)
  BY KernelSound DEF Init, KernelTable, Orderly
<1>10. MutexSide(k, call)
  BY <1>9, KernelSound DEF Init, MutexSide
<1>11. \A q \in SemSlots : Woken(sem, call, q) = {}
  BY <1>7 DEF Woken
<1>12. \A q \in SemSlots : Positive(sem.value[q]) = 0
  BY DEF Init, Positive
<1>13. Balance(sem, call, signalled, passed)
  <2>1. Cardinality({}) = 0
    BY FS_EmptySet
  <2>2. /\ signalled \in [SemSlots -> Nat] /\ passed \in [SemSlots -> Nat]
        /\ \A q \in SemSlots : signalled[q] = 0 /\ passed[q] = 0
    BY DEF Init
  <2>3. \A q \in SemSlots : Cardinality(Woken(sem, call, q)) = 0
    BY <1>11, <2>1
  <2>4. \A q \in SemSlots :
          signalled[q] = passed[q] + Cardinality(Woken(sem, call, q)) + Positive(sem.value[q])
    BY <1>12, <2>2, <2>3
  <2> QED
    BY <2>2, <2>4 DEF Balance
<1>14. call \in [Threads -> Calls]
  BY DEF Init, Calls
<1> QED
  BY <1>3, <1>5, <1>6, <1>8, <1>10, <1>13, <1>14 DEF IInv, Good, Sides, SemSide

LEMMA StepKept ==
  ASSUME IInv, [Next]_vars
  PROVE  Kept
<1>1. \A q \in SemHandles : q \in SemSlots
  BY SemaphoreAssumption DEF SemSlots
<1>2. ASSUME NEW t \in Threads, NEW name \in Names, sysCreateSemaphore(t, name)
      PROVE  Kept
  <2> DEFINE c == [op |-> "get", name |-> name]
  <2>1. c \in Calls /\ c.op = "get"
    BY DEF Calls
  <2> HIDE DEF c
  <2> QED
    BY <1>2, <2>1, BeginKept DEF sysCreateSemaphore, c
<1>3. ASSUME NEW t \in Threads, NEW q \in SemHandles, sysReleaseSemphre(t, q)
      PROVE  Kept
  <2> DEFINE c == [op |-> "release", q |-> q]
  <2>1. c \in Calls /\ c.op = "release"
    BY <1>1 DEF Calls
  <2> HIDE DEF c
  <2> QED
    BY <1>3, <2>1, BeginKept DEF sysReleaseSemphre, c
<1>4. ASSUME NEW t \in Threads, NEW q \in SemHandles, sysWait(t, q)
      PROVE  Kept
  <2> DEFINE c == [op |-> "wait", q |-> q]
  <2>1. c \in Calls /\ c.op = "wait"
    BY <1>1 DEF Calls
  <2> HIDE DEF c
  <2> QED
    BY <1>4, <2>1, BeginKept DEF sysWait, c
<1>5. ASSUME NEW t \in Threads, NEW q \in SemHandles, sysSignal(t, q)
      PROVE  Kept
  <2> DEFINE c == [op |-> "signal", q |-> q]
  <2>1. c \in Calls /\ c.op = "signal"
    BY <1>1 DEF Calls
  <2> HIDE DEF c
  <2> QED
    BY <1>5, <2>1, BeginKept DEF sysSignal, c
<1>6. ASSUME NEW t \in Threads, NEW m \in MutexHandles, sysDownMutex(t, m)
      PROVE  Kept
  <2> DEFINE c == [op |-> "down", m |-> m]
  <2>1. c \in Calls /\ c.op = "down"
    BY SemaphoreAssumption DEF Calls
  <2> HIDE DEF c
  <2> QED
    BY <1>6, <2>1, BeginKept DEF sysDownMutex, c
<1>7. ASSUME NEW t \in Threads, NEW m \in MutexHandles, sysUpMutex(t, m)
      PROVE  Kept
  <2>1. /\ k' = mutexUp(k, m, t)
        /\ sem' = sem /\ call' = call /\ signalled' = signalled /\ passed' = passed
    BY <1>7 DEF sysUpMutex
  <2>2. Good(sem, mutexUp(k, m, t), call, signalled, passed)
    BY UpGood DEF IInv
  <2> QED
    BY <2>1, <2>2, SameKeeps DEF Kept, IInv
<1>8. ASSUME NEW t \in Threads, Resume(t)
      PROVE  Kept
  <2>1. call[t] \in Calls
    BY DEF IInv, Good
  <2> QED
    BY <1>8, <2>1, ContinueKept DEF Resume, IInv
<1>9. CASE UNCHANGED vars
  BY <1>9, SameKeeps DEF vars, Kept, IInv
<1> QED
  BY <1>2, <1>3, <1>4, <1>5, <1>6, <1>7, <1>8, <1>9 DEF Next

--------------------------------------------------------------------------------
(* Theorems *)

\* The values, the lists, the threads asleep and the permits fit together.
THEOREM SemaphoresSound == Spec => []IInv
<1>1. Init => IInv
  BY InitGood
<1>2. IInv /\ [Next]_vars => IInv'
  BY StepKept DEF Kept
<1> QED
  BY <1>1, <1>2, PTL DEF Spec

\* A negative value is the number of threads in the list (semaphore.c:139-142,
\* 187-196).
THEOREM ValuesCount == Spec => []ValueCountsWaiters
<1>1. IInv => ValueCountsWaiters
  BY DEF IInv, Good, Sides, SemSide, ValueCounts, ValueCountsWaiters
<1> QED
  BY <1>1, SemaphoresSound, PTL

LEMMA ListedInSem ==
  ASSUME sem \in SemShape, NEW q \in SemSlots
  PROVE  Listed(q) = {t \in Threads : InSem(sem, q, t)}
<1>1. sem.blocked[q] \in [Places -> Threads \union {NotUsed}]
  BY DEF SemShape
<1> QED
  BY <1>1, NotUsedIsNoThread DEF Listed, InSem, SemWaiting

\* Every signal lets exactly one wait through (semaphore.c:132-170).
THEOREM SignalsKept == Spec => []PermitsConserved
<1>1. ASSUME IInv, NEW q \in SemSlots
      PROVE  Asleep(q) \ Listed(q) = Woken(sem, call, q)
  <2>1. Listed(q) = {t \in Threads : InSem(sem, q, t)}
    BY <1>1, ListedInSem DEF IInv, Good, Sides, SemSide
  <2> QED
    BY <2>1 DEF Asleep, Woken, AsleepIn
<1>2. IInv => PermitsConserved
  BY <1>1 DEF IInv, Good, Balance, PermitsConserved
<1> QED
  BY <1>2, SemaphoresSound, PTL

\* The list of a semaphore holds the threads blocked in wait on it, and any
\* other blocked thread is in a mutex's list (semaphore.c:142-146, 192-195).
THEOREM SleepersFound == Spec => []SleepersListed
<1>1. ASSUME IInv, NEW q \in SemSlots
      PROVE  /\ Listed(q) = {t \in Threads : InSem(sem, q, t)}
             /\ Listed(q) = {t \in Asleep(q) : k.state[t] = "BLOCKED"}
  <2>1. Listed(q) = {t \in Threads : InSem(sem, q, t)}
    BY <1>1, ListedInSem DEF IInv, Good, Sides, SemSide
  <2>2. \A t \in Threads : InSem(sem, q, t) <=> call[t] = AsleepIn(q) /\ k.state[t] = "BLOCKED"
    BY <1>1 DEF IInv, Good, Sides, SemSide, ListIsBlocked
  <2> QED
    BY <2>1, <2>2 DEF Asleep, AsleepIn
<1>2. ASSUME IInv, NEW t \in Threads, k.state[t] = "BLOCKED"
      PROVE  \/ \E q \in SemSlots : t \in Listed(q)
             \/ \E m \in Slots : \E p \in Places : k.blocked[m][p] = t
  <2>1. t \in Sleepers(call) \/ InList(k, t)
    BY <1>2 DEF IInv, Good, Sides, MutexSide, Sound, Awaited
  <2>2. ASSUME t \in Sleepers(call) PROVE \E q \in SemSlots : t \in Listed(q)
    <3>1. call[t] \in Calls
      BY <1>2 DEF IInv, Good
    <3>2. PICK q \in SemSlots : call[t] = AsleepIn(q)
      BY <2>2, <3>1, CallsHaveOps DEF Sleepers
    <3>3. t \in Asleep(q)
      BY <3>2 DEF Asleep, AsleepIn
    <3>4. t \in Listed(q)
      BY <1>1, <1>2, <3>3
    <3> QED
      BY <3>4
  <2> QED
    BY <2>1, <2>2 DEF InList
<1>3. IInv => SleepersListed
  BY <1>1, <1>2 DEF SleepersListed
<1> QED
  BY <1>3, SemaphoresSound, PTL

\* Every semaphore implements CountingSemaphore (semaphore.c:36-57, 132-203).
THEOREM SemaphoresImplement == Spec => SemaphoresCount
<1>1. ASSUME Init, NEW q \in SemSlots PROVE Counting(q)!Init
  <2>1. sem.value[q] = 0 /\ Listed(q) = {}
    BY <1>1 DEF Init, Listed, SemWaiting
  <2> QED
    BY <2>1 DEF Counting!Init, Positive
<1>2. ASSUME IInv, IInv', NEW q \in SemSlots, Keeps(sem, sem', q)
      PROVE  CountingStep(q)
  <2> DEFINE L == {t \in Threads : InSem(sem, q, t)}
             M == {t \in Threads : InSem(sem', q, t)}
  <2>1. Listed(q) = L /\ Listed(q)' = M
    <3>1. Listed(q) = L
      BY <1>2, ListedInSem DEF IInv, Good, Sides, SemSide
    <3>2. sem' \in SemShape
      BY <1>2 DEF IInv, Good, Sides, SemSide
    <3>3. sem'.blocked[q] \in [Places -> Threads \union {NotUsed}]
      BY <3>2 DEF SemShape
    <3>4. Listed(q)' = M
      BY <3>3, NotUsedIsNoThread DEF Listed, InSem, SemWaiting
    <3> QED
      BY <3>1, <3>4
  <2>2. \/ Permits(sem', q) = Permits(sem, q) /\ M = L
        \/ Permits(sem, q) > 0 /\ Permits(sem', q) = Permits(sem, q) - 1 /\ M = L
        \/ L = {} /\ Permits(sem', q) = Permits(sem, q) + 1 /\ M = L
        \/ /\ Permits(sem', q) = Permits(sem, q) /\ Permits(sem, q) = 0
           /\ \E t \in Threads : t \notin L /\ M = L \union {t}
        \/ /\ Permits(sem', q) = Permits(sem, q)
           /\ \E t \in Threads : t \in L /\ M = L \ {t}
    BY <1>2 DEF Keeps
  <2> HIDE DEF L, M
  <2> QED
    BY <2>1, <2>2
    DEF CountingStep, Permits, Counting!Next, Counting!Pass, Counting!Give,
        Counting!Enqueue, Counting!WakeUp
<1>3. IInv /\ IInv' /\ [Next]_vars => \A q \in SemSlots : CountingStep(q)
  BY <1>2, StepKept DEF Kept, AllKeep
<1>4. IInv /\ IInv' /\ [Next]_vars => [\A q \in SemSlots : CountingStep(q)]_vars
  BY <1>3
<1>5. Init => \A q \in SemSlots : Counting(q)!Init
  BY <1>1
<1> QED
  BY <1>4, <1>5, SemaphoresSound, PTL DEF Spec, SemaphoresCount
================================================================================
