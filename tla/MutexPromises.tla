------------------------------ MODULE MutexPromises ----------------------------
(* What the kernel mutexes promise those who build on them, for any number   *)
(* of threads and mutexes: one mutex per name, and a mutex of the table and  *)
(* of the heap that is a lock.                                               *)
EXTENDS MutexExclusion

--------------------------------------------------------------------------------
(* Names *)

\* Of a table s, the owners o and the released slots R: a mutex that somebody
\* owns is valid, nobody else has its name, and a slot that was never used
\* has none; the next mutex is made in a slot that nobody owns.
OwnedValid(s, o, R) == \A m \in Slots \ R : o[m] \in Threads => s.creator[m] # NotUsed
UnownedBlank(s, o, R) == \A m \in Slots \ R : o[m] \notin Threads => s.name[m] = <<>>
NextUnowned(s, o, R) == s.first \in Slots \ R => o[s.first] \notin Threads
OneEach(s, o, R) ==
  \A m, n \in Slots \ R :
    o[m] \in Threads /\ o[n] \in Threads /\ s.name[m] = s.name[n] => m = n

Named(s, o, R) ==
  OwnedValid(s, o, R) /\ UnownedBlank(s, o, R) /\ NextUnowned(s, o, R) /\ OneEach(s, o, R)

\* What names depend on is the same in r; a valid mutex stays valid.
SameNames(s, r) ==
  /\ r.name = s.name /\ r.first = s.first
  /\ \A m \in Slots : s.creator[m] # NotUsed => r.creator[m] # NotUsed

LEMMA SameNamed ==
  ASSUME NEW s, NEW r, NEW o, NEW R, Named(s, o, R), SameNames(s, r)
  PROVE  Named(r, o, R)
BY DEF Named, OwnedValid, UnownedBlank, NextUnowned, OneEach, SameNames

LEMMA DownNames ==
  ASSUME NEW s \in Tables, NEW m, NEW t
  PROVE  SameNames(s, mutexDown(s, m, t))
<1> DEFINE r == mutexDown(s, m, t)
<1>1. r.name = s.name /\ r.first = s.first
  BY DEF mutexDown, Tables
<1>2. r.creator = s.creator \/ r.creator = creatorAfterTestAndSet(s, m)
  BY DEF mutexDown, Tables
<1>3. \A n \in Slots : s.creator[n] # NotUsed => r.creator[n] # NotUsed
  BY <1>2, MutexAssumption DEF creatorAfterTestAndSet, Tables
<1> QED
  BY <1>1, <1>3 DEF SameNames

LEMMA UpNames ==
  ASSUME NEW s \in Tables, NEW m, NEW t
  PROVE  SameNames(s, mutexUp(s, m, t))
<1> DEFINE r == mutexUp(s, m, t)
<1>1. r.name = s.name /\ r.first = s.first /\ r.creator = s.creator
  BY DEF mutexUp, unlockProcess, Tables
<1> QED
  BY <1>1 DEF SameNames

\* createMutex of a name that no valid mutex has.
LEMMA CreateNamed ==
  ASSUME NEW s \in Tables, NEW o \in [Slots -> Ids], NEW R, Named(s, o, R),
         NEW name \in Names, ~found(s, name), NEW t \in Threads,
         NEW r, r = createMutex(s, name, t),
         NEW q, q = IF s.first \in Slots /\ r.used # s.used
                    THEN [o EXCEPT ![s.first] = t] ELSE o
  PROVE  Named(r, q, R)
<1> DEFINE f == s.first
           d == [s.creator EXCEPT ![f] = t]
<1>1. s.used \in Nat /\ s.used + 1 # s.used /\ t # NotUsed
  BY MutexAssumption DEF Tables
<1>2. CASE ~canCreate(s, name)
  <2>1. r = s /\ q = o
    BY <1>2 DEF createMutex
  <2> QED
    BY <2>1
<1>3. ASSUME NEW creator, creator \in [Slots -> Ids],
             \A m \in Slots \ R : q[m] \in Threads => creator[m] # NotUsed
      PROVE  getNextMutexAvailable(creator) \in Slots \ R =>
               q[getNextMutexAvailable(creator)] \notin Threads
  <2> DEFINE free == {m \in Slots : creator[m] = NotUsed}
  <2>1. free \in SUBSET Nat /\ FullList \notin Slots
    BY MutexAssumption DEF Slots, FullList
  <2>2. free # {} => Min(free) \in free
    BY <2>1, MinIsLeast
  <2> QED
    BY <1>3, <2>1, <2>2 DEF getNextMutexAvailable
<1>4. CASE canCreate(s, name) /\ f \notin Slots
  <2>1. /\ r.name = s.name /\ r.creator = s.creator
        /\ r.first = getNextMutexAvailable(s.creator)
    BY <1>4 DEF createMutex, Tables
  <2>2. q = o
    BY <1>4
  <2>3. OwnedValid(r, q, R) /\ UnownedBlank(r, q, R) /\ OneEach(r, q, R)
    BY <2>1, <2>2 DEF Named, OwnedValid, UnownedBlank, OneEach
  <2>4. NextUnowned(r, q, R)
    BY <1>3, <2>1, <2>3 DEF NextUnowned, OwnedValid, Tables
  <2> QED
    BY <2>3, <2>4 DEF Named
<1>5. CASE canCreate(s, name) /\ f \in Slots
  <2>1. /\ r.name = [s.name EXCEPT ![f] = overlay(s.name[f], name)]
        /\ r.creator = d /\ r.used = s.used + 1
        /\ r.first = getNextMutexAvailable(d)
    BY <1>5 DEF createMutex, Tables
  <2>2. q = [o EXCEPT ![f] = t]
    BY <1>1, <1>5, <2>1
  <2>3. d \in [Slots -> Ids]
    BY <1>5 DEF Tables, Ids
  <2>4. f \notin R => r.name[f] = name
    <3> SUFFICES ASSUME f \notin R PROVE overlay(<<>>, name) = name
      BY <1>5, <2>1 DEF Named, UnownedBlank, NextUnowned, Tables
    <3>1. Len(name) \in Nat /\ Len(<<>>) = 0
      BY MutexAssumption
    <3> QED
      BY <3>1 DEF overlay
  <2>5. OwnedValid(r, q, R)
    BY <1>1, <1>5, <2>1, <2>2 DEF Named, OwnedValid, Tables
  <2>6. UnownedBlank(r, q, R)
    BY <1>5, <2>1, <2>2 DEF Named, UnownedBlank, Tables
  <2>7. \A n \in Slots \ R : o[n] \in Threads => s.name[n] # name
    BY DEF Named, OwnedValid, found, isValidMutex
  <2>8. OneEach(r, q, R)
    <3> SUFFICES ASSUME NEW m \in Slots \ R, NEW n \in Slots \ R,
                        q[m] \in Threads, q[n] \in Threads, r.name[m] = r.name[n]
                 PROVE  m = n
      BY DEF OneEach
    <3>1. \A n1 \in Slots : n1 # f => q[n1] = o[n1] /\ r.name[n1] = s.name[n1]
      BY <1>5, <2>1, <2>2 DEF Tables
    <3> QED
      BY <2>4, <2>7, <3>1 DEF Named, OneEach
  <2>9. NextUnowned(r, q, R)
    BY <1>3, <2>1, <2>3, <2>5 DEF NextUnowned, OwnedValid
  <2> QED
    BY <2>5, <2>6, <2>8, <2>9 DEF Named
<1> QED
  BY <1>2, <1>4, <1>5

\* releaseMutex: the slot counts as released, and nobody owns it.
LEMMA ReleaseNamed ==
  ASSUME NEW s, Sound(s, {}), NEW o \in [Slots -> Ids], NEW R, Named(s, o, R),
         NEW m \in Slots
  PROVE  LET r == unlockAll([s EXCEPT !.creator[m] = NotUsed], m)
         IN Named(r, [o EXCEPT ![m] = NotUsed], R \union {m})
<1> DEFINE e == [s EXCEPT !.creator[m] = NotUsed]
           r == unlockAll(e, m)
           q == [o EXCEPT ![m] = NotUsed]
<1>1. s \in Tables
  BY DEF Sound
<1>2. /\ e \in Tables /\ e.name = s.name /\ e.first = s.first
      /\ \A n \in Slots : n # m => e.creator[n] = s.creator[n]
  BY <1>1 DEF Tables, Ids
<1> HIDE DEF e
<1>3. r.name = e.name /\ r.first = e.first /\ r.creator = e.creator
  BY <1>2 DEF unlockAll, Tables
<1> HIDE DEF r
<1>4. \A n \in Slots : n # m => q[n] = o[n]
  OBVIOUS
<1> HIDE DEF q
<1>5. OwnedValid(r, q, R \union {m}) /\ UnownedBlank(r, q, R \union {m})
  BY <1>2, <1>3, <1>4 DEF Named, OwnedValid, UnownedBlank
<1>6. NextUnowned(r, q, R \union {m}) /\ OneEach(r, q, R \union {m})
  BY <1>2, <1>3, <1>4 DEF Named, NextUnowned, OneEach
<1> QED
  BY <1>5, <1>6 DEF Named, r, e, q

\* What is left of a call keeps the names.
LEMMA FinishNamed ==
  ASSUME OtherTypes, NEW s, Sound(s, {}), Named(s, owner, released),
         NEW t \in Threads, NEW c \in Calls, Finish(s, t, c)
  PROVE  Named(k', owner', released')
<1>1. s \in Tables /\ owner \in [Slots -> Ids] /\ s.used \in Nat
  BY MutexAssumption DEF Sound, OtherTypes, Tables
<1>2. CASE c.op = "down"
  <2>1. k' = s /\ owner' = owner /\ released' = released
    BY <1>2 DEF Finish
  <2> QED
    BY <2>1
<1>3. CASE c.op = "get"
  <2> DEFINE r == createMutex(s, c.name, t)
             u == mutexUp(r, Admin, t)
  <2>1. /\ k' = getMutex(s, c.name, t) /\ released' = released /\ c.name \in Names
        /\ owner' = IF s.first \in Slots /\ k'.used # s.used
                    THEN [owner EXCEPT ![s.first] = t] ELSE owner
    BY <1>3 DEF Finish, Calls, Idle
  <2>2. CASE found(s, c.name)
    <3>1. k' = s
      BY <2>1, <2>2 DEF getMutex
    <3>2. owner' = owner
      BY <2>1, <3>1
    <3> QED
      BY <2>1, <3>1, <3>2
  <2>3. CASE ~found(s, c.name)
    <3>1. k' = u
      BY <2>1, <2>3 DEF getMutex
    <3>2. r \in Tables
      BY <2>1, CreateSound DEF Sound
    <3> HIDE DEF r
    <3>3. SameNames(r, u) /\ u.used = r.used
      BY <3>2, UpNames DEF mutexUp, unlockProcess, Tables
    <3>4. owner' = IF s.first \in Slots /\ r.used # s.used
                   THEN [owner EXCEPT ![s.first] = t] ELSE owner
      BY <2>1, <3>1, <3>3
    <3>5. Named(r, owner', released)
      BY <1>1, <2>1, <2>3, <3>4, CreateNamed DEF r
    <3> QED
      BY <2>1, <3>1, <3>3, <3>5, SameNamed
  <2> QED
    BY <2>2, <2>3
<1>4. CASE c.op = "release"
  <2>1. k' = releaseMutex(s, c.m, t) /\ c.m \in Slots
    BY <1>4 DEF Finish, Calls, Idle
  <2>2. CASE ~mayRelease(s, c.m, t)
    <3>1. k' = mutexUp(s, Admin, t) /\ owner' = owner /\ released' = released
      BY <1>4, <2>1, <2>2 DEF Finish, releaseMutex
    <3> QED
      BY <1>1, <3>1, UpNames, SameNamed
  <2>3. CASE mayRelease(s, c.m, t)
    <3> DEFINE r == unlockAll([s EXCEPT !.creator[c.m] = NotUsed], c.m)
    <3>1. /\ k' = mutexUp(r, Admin, t) /\ released' = released \union {c.m}
          /\ owner' = [owner EXCEPT ![c.m] = NotUsed]
      BY <1>4, <2>1, <2>3 DEF Finish, releaseMutex
    <3>2. r \in Tables
      BY <2>1, ReleasedSound DEF Sound
    <3>3. Named(r, owner', released')
      BY <1>1, <2>1, <3>1, ReleaseNamed
    <3> HIDE DEF r
    <3> QED
      BY <3>1, <3>2, <3>3, UpNames, SameNamed
  <2> QED
    BY <2>2, <2>3
<1> QED
  BY <1>2, <1>3, <1>4 DEF Finish

LEMMA BeginNamed ==
  ASSUME OtherTypes, Sound(k, {}), Named(k, owner, released), NEW t \in Threads,
         NEW m \in Slots, NEW c \in Calls, Begin(t, m, c)
  PROVE  Named(k', owner', released')
<1> DEFINE s == mutexDown(k, m, t)
<1>1. k \in Tables
  BY DEF Sound
<1>2. Sound(s, {})
  BY DownSound DEF Begin
<1>3. Named(s, owner, released)
  BY <1>1, DownNames, SameNamed
<1>4. CASE Waits(k, m)
  <2>1. k' = yield(s, t) /\ owner' = owner /\ released' = released
    BY <1>4 DEF Begin
  <2>2. SameNames(s, yield(s, t))
    BY <1>2 DEF SameNames, yield, Sound, Tables
  <2> HIDE DEF s
  <2> QED
    BY <1>3, <2>1, <2>2, SameNamed
<1>5. CASE ~Waits(k, m)
  BY <1>2, <1>3, <1>5, FinishNamed DEF Begin
<1> QED
  BY <1>4, <1>5

\* Two threads that ask for the same name get the same mutex, even when the
\* second of them had to wait for the table: no two mutexes share a name as
\* long as their slots were never released.
THEOREM NamesUnique == Spec => []UniqueNames
<1>1. Init => Named(k, owner, released)
  <2> SUFFICES ASSUME Init PROVE Named(k, owner, released)
    OBVIOUS
  <2>1. \A m \in Slots : owner[m] \notin Threads /\ k.name[m] = <<>>
    BY MutexAssumption DEF Init, KernelTable
  <2> QED
    BY <2>1 DEF Named, OwnedValid, UnownedBlank, NextUnowned, OneEach
<1>2. OtherTypes /\ Sound(k, {}) /\ Named(k, owner, released) /\ [Next]_vars
        => Named(k, owner, released)'
  <2> SUFFICES ASSUME OtherTypes, Sound(k, {}), Named(k, owner, released), [Next]_vars
               PROVE  Named(k', owner', released')
    BY DEF Named, OwnedValid, UnownedBlank, NextUnowned, OneEach
  <2>1. Admin \in Slots /\ Handles \subseteq Slots /\ k \in Tables
    BY AdminSlot, HandlesAssumption DEF Sound
  <2>2. ASSUME NEW t \in Threads, NEW name \in Names, sysCreateMutex(t, name)
        PROVE  Named(k', owner', released')
    BY <2>1, <2>2, BeginNamed DEF sysCreateMutex, Calls
  <2>3. ASSUME NEW t \in Threads, NEW m \in Handles, sysReleaseMutex(t, m)
        PROVE  Named(k', owner', released')
    BY <2>1, <2>3, BeginNamed DEF sysReleaseMutex, Calls
  <2>4. ASSUME NEW t \in Threads, NEW m \in Handles, sysDownMutex(t, m)
        PROVE  Named(k', owner', released')
    BY <2>1, <2>4, BeginNamed DEF sysDownMutex, Calls
  <2>5. ASSUME NEW t \in Threads, NEW m \in Handles, sysUpMutex(t, m)
        PROVE  Named(k', owner', released')
    BY <2>1, <2>5, UpNames, SameNamed DEF sysUpMutex
  <2>6. ASSUME NEW t \in Threads, Resume(t)
        PROVE  Named(k', owner', released')
    <3>1. call[t] \in Calls
      BY DEF OtherTypes
    <3> QED
      BY <2>6, <3>1, FinishNamed DEF Resume
  <2>7. CASE UNCHANGED vars
    BY <2>7 DEF vars
  <2> QED
    BY <2>2, <2>3, <2>4, <2>5, <2>6, <2>7 DEF Next
<1>3. Named(k, owner, released) => UniqueNames
  BY DEF Named, OneEach, UniqueNames
<1> QED
  BY <1>1, <1>2, <1>3, TablesSound, PTL DEF Spec

--------------------------------------------------------------------------------
(* The mutex of the table and of the heap *)

Holder(s)  == IF s.value[Admin] = "LOCKED" THEN s.lockProcess[Admin] ELSE NotUsed
Waiters(s) == {s.blocked[Admin][p] : p \in Waiting(s, Admin)}

\* A locked adminMutex has a thread that holds it.
HasHolder(s) == s.value[Admin] = "LOCKED" => s.lockProcess[Admin] \in Threads

SameLock(s, r) == Holder(r) = Holder(s) /\ Waiters(r) = Waiters(s)

\* From s to r the lock takes a step of Lock, or none.
LockStep(s, r) ==
  \/ SameLock(s, r)
  \/ \E t \in Threads :
       \/ Holder(s) = NotUsed /\ Holder(r) = t /\ Waiters(r) = Waiters(s)
       \/ /\ Holder(s) # NotUsed /\ t \notin Waiters(s)
          /\ Waiters(r) = Waiters(s) \union {t} /\ Holder(r) = Holder(s)
       \/ /\ Holder(s) # NotUsed /\ t \in Waiters(s)
          /\ Holder(r) = t /\ Waiters(r) = Waiters(s) \ {t}
  \/ Waiters(s) = {} /\ Holder(r) = NotUsed /\ Waiters(r) = Waiters(s)

\* The fields of slot Admin are the same in r.
SameAdmin(s, r) ==
  /\ r.value[Admin] = s.value[Admin] /\ r.lockProcess[Admin] = s.lockProcess[Admin]
  /\ r.blocked[Admin] = s.blocked[Admin]

LEMMA SameAdminLock ==
  ASSUME NEW s, NEW r, SameAdmin(s, r), HasHolder(s)
  PROVE  SameLock(s, r) /\ HasHolder(r)
BY DEF SameAdmin, SameLock, HasHolder, Holder, Waiters, Waiting

\* mutexDown of a free adminMutex: nobody waits for it.
LEMMA DownAdmin ==
  ASSUME NEW s, Sound(s, {}), NEW m \in Slots, NEW t \in Threads, ~Waits(s, m),
         HasHolder(s), isValidMutex(s, Admin)
  PROVE  LET r == mutexDown(s, m, t)
         IN /\ HasHolder(r)
            /\ m # Admin => SameLock(s, r)
            /\ m = Admin => /\ Holder(s) = NotUsed /\ Waiters(s) = {}
                            /\ Holder(r) = t /\ Waiters(r) = {}
<1> DEFINE r == mutexDown(s, m, t)
<1>1. s \in Tables
  BY DEF Sound
<1>2. CASE m # Admin
  <2>1. SameAdmin(s, r)
    BY <1>1, <1>2 DEF mutexDown, SameAdmin, Tables
  <2> HIDE DEF r
  <2>2. SameLock(s, r) /\ HasHolder(r)
    BY <2>1, SameAdminLock
  <2> QED
    BY <1>2, <2>2 DEF r
<1>3. CASE m = Admin
  <2>1. r.value[Admin] = "LOCKED" /\ r.lockProcess[Admin] = t /\ r.blocked = s.blocked
    BY <1>1, <1>3, AdminSlot DEF mutexDown, Waits, Tables
  <2>2. s.value[Admin] = "UNLOCKED" /\ Waiting(s, Admin) = {}
    BY <1>1, <1>3, AdminSlot DEF Waits, Sound, Unwaited, Tables
  <2>3. Waiting(r, Admin) = {}
    BY <2>1, <2>2 DEF Waiting
  <2> HIDE DEF r
  <2>4. HasHolder(r) /\ Holder(r) = t /\ Waiters(r) = {}
    BY <2>1, <2>3 DEF HasHolder, Holder, Waiters
  <2>5. Holder(s) = NotUsed /\ Waiters(s) = {}
    BY <2>2 DEF Holder, Waiters
  <2> QED
    BY <1>3, <2>4, <2>5 DEF r
<1> QED
  BY <1>2, <1>3

\* mutexUp: the lock goes to a waiter, or to nobody when nobody waits.
LEMMA UpAdmin ==
  ASSUME NEW s, Sound(s, {}), ListedOnce(s), HasHolder(s), NEW m, NEW t
  PROVE  LET r == mutexUp(s, m, t)
         IN /\ LockStep(s, r) /\ HasHolder(r)
            /\ Waiters(s) = {} =>
                 Waiters(r) = {} /\ Holder(r) \in {Holder(s), NotUsed}
<1> DEFINE r == mutexUp(s, m, t)
<1>1. s \in Tables /\ Admin \in Slots
  BY AdminSlot DEF Sound
<1>2. ASSUME SameAdmin(s, r)
      PROVE  /\ LockStep(s, r) /\ HasHolder(r)
             /\ Waiters(s) = {} => Waiters(r) = {} /\ Holder(r) \in {Holder(s), NotUsed}
  <2> HIDE DEF r
  <2>1. SameLock(s, r) /\ HasHolder(r)
    BY <1>2, SameAdminLock
  <2> QED
    BY <2>1 DEF LockStep, SameLock
<1>3. CASE ~(isValidMutex(s, m) /\ s.lockProcess[m] = t)
  BY <1>2, <1>3 DEF mutexUp, SameAdmin
<1>4. CASE isValidMutex(s, m) /\ s.lockProcess[m] = t /\ s.blockedQuantity[m] = 0
  <2>1. m \in Slots /\ Waiting(s, m) = {}
    BY <1>4, WaitingFinite DEF isValidMutex, Sound, Counts
  <2>2. /\ r.value = [s.value EXCEPT ![m] = "UNLOCKED"] /\ r.blocked = s.blocked
        /\ r.lockProcess = s.lockProcess
    BY <1>1, <1>4 DEF mutexUp, Tables
  <2>3. CASE m # Admin
    BY <1>1, <1>2, <2>1, <2>2, <2>3 DEF SameAdmin, Tables
  <2>4. CASE m = Admin
    <3>1. r.value[Admin] = "UNLOCKED" /\ Waiting(r, Admin) = {}
      BY <1>1, <2>1, <2>2, <2>4 DEF Tables, Waiting
    <3> HIDE DEF r
    <3>2. Holder(r) = NotUsed /\ Waiters(r) = {} /\ Waiters(s) = {} /\ HasHolder(r)
      BY <2>1, <2>4, <3>1 DEF Holder, Waiters, HasHolder
    <3> QED
      BY <3>2 DEF LockStep, r
  <2> QED
    BY <2>3, <2>4
<1>5. CASE isValidMutex(s, m) /\ s.lockProcess[m] = t /\ s.blockedQuantity[m] # 0
  <2>1. m \in Slots /\ Waiting(s, m) # {}
    BY <1>5, WaitingFinite DEF isValidMutex, Sound, Counts
  <2> DEFINE p == Min(Waiting(s, m))
             w == s.blocked[m][p]
  <2>2. /\ p \in Waiting(s, m) /\ p \in Places /\ w \in Threads
        /\ unlockProcess(s, m).lockProcess = [s.lockProcess EXCEPT ![m] = w]
        /\ unlockProcess(s, m).blocked =
             [s.blocked EXCEPT ![m] = [s.blocked[m] EXCEPT ![p] = NotUsed]]
        /\ unlockProcess(s, m).value = s.value
    BY <1>1, <2>1, UnlockFields
  <2>3. r = unlockProcess(s, m)
    BY <1>5 DEF mutexUp
  <2>4. w = s.blocked[m][p]
    OBVIOUS
  <2> HIDE DEF r, p, w
  <2>5. /\ r.lockProcess = [s.lockProcess EXCEPT ![m] = w]
        /\ r.blocked = [s.blocked EXCEPT ![m] = [s.blocked[m] EXCEPT ![p] = NotUsed]]
        /\ r.value = s.value
    BY <2>2, <2>3
  <2>6. CASE m # Admin
    <3>1. SameAdmin(s, r)
      BY <1>1, <2>1, <2>5, <2>6 DEF SameAdmin, Tables
    <3> QED
      BY <1>2, <3>1 DEF r
  <2>7. CASE m = Admin
    <3>1. s.value[Admin] = "LOCKED"
      BY <1>1, <2>1, <2>7 DEF Sound, Unwaited, Tables
    <3>2. r.value[Admin] = "LOCKED" /\ r.lockProcess[Admin] = w
      BY <1>1, <2>5, <2>7, <3>1 DEF Tables
    <3>3. Holder(s) = s.lockProcess[Admin] /\ Holder(s) # NotUsed
      BY <3>1, MutexAssumption DEF Holder, HasHolder
    <3>4. \A q \in Places : r.blocked[Admin][q] =
                              IF q = p THEN NotUsed ELSE s.blocked[Admin][q]
      BY <1>1, <2>2, <2>5, <2>7 DEF Tables
    <3>5. \A q \in Places : q # p => s.blocked[Admin][q] # w
      BY <2>2, <2>4, <2>7, AdminSlot, MutexAssumption DEF ListedOnce
    <3>6. w \in Waiters(s)
      BY <2>2, <2>4, <2>7 DEF Waiters
    <3>7. Waiters(r) = Waiters(s) \ {w}
      <4>1. Waiting(r, Admin) = Waiting(s, Admin) \ {p}
        BY <3>4 DEF Waiting
      <4>2. \A q \in Waiting(r, Admin) : r.blocked[Admin][q] = s.blocked[Admin][q]
        BY <3>4, <4>1 DEF Waiting
      <4>3. ASSUME NEW x \in Waiters(r) PROVE x \in Waiters(s) \ {w}
        <5>1. PICK q \in Waiting(r, Admin) : x = r.blocked[Admin][q]
          BY <4>3 DEF Waiters
        <5> QED
          BY <3>5, <4>1, <4>2, <5>1 DEF Waiters, Waiting
      <4>4. ASSUME NEW x \in Waiters(s) \ {w} PROVE x \in Waiters(r)
        <5>1. PICK q \in Waiting(s, Admin) : x = s.blocked[Admin][q]
          BY <4>4 DEF Waiters
        <5>2. q # p
          BY <2>4, <2>7, <4>4, <5>1
        <5> QED
          BY <4>1, <4>2, <5>1, <5>2 DEF Waiters
      <4> QED
        BY <4>3, <4>4
    <3>8. Holder(r) = w /\ HasHolder(r)
      BY <2>2, <3>2 DEF Holder, HasHolder
    <3> QED
      BY <2>2, <3>3, <3>6, <3>7, <3>8 DEF LockStep, r
  <2> QED
    BY <2>6, <2>7
<1> QED
  BY <1>3, <1>4, <1>5

\* What is left of a call of thread t, which holds adminMutex if it asked for it.
LEMMA FinishAdmin ==
  ASSUME NEW s, Sound(s, {}), Excl(s, call, inside, released), HasHolder(s),
         NEW t \in Threads, NEW c \in Calls, Finish(s, t, c)
  PROVE  /\ LockStep(s, k') /\ HasHolder(k')
         /\ c.op = "down" => k' = s
         /\ Waiters(s) = {} => Waiters(k') = {} /\ Holder(k') \in {Holder(s), NotUsed}
<1>1. s \in Tables /\ ListedOnce(s)
  BY DEF Sound, Excl
<1>2. ASSUME k' = s
      PROVE  /\ LockStep(s, k') /\ HasHolder(k')
             /\ Waiters(s) = {} => Waiters(k') = {} /\ Holder(k') \in {Holder(s), NotUsed}
  BY <1>2 DEF LockStep, SameLock
\* createMutex or the release of another slot first, then mutexUp.
<1>3. ASSUME NEW r, Sound(r, {}), ListedOnce(r), SameAdmin(s, r), k' = mutexUp(r, Admin, t)
      PROVE  /\ LockStep(s, k') /\ HasHolder(k')
             /\ Waiters(s) = {} => Waiters(k') = {} /\ Holder(k') \in {Holder(s), NotUsed}
  <2>1. SameLock(s, r) /\ HasHolder(r)
    BY <1>3, SameAdminLock
  <2>2. /\ LockStep(r, k') /\ HasHolder(k')
        /\ Waiters(r) = {} => Waiters(k') = {} /\ Holder(k') \in {Holder(r), NotUsed}
    BY <1>3, <2>1, UpAdmin
  <2> QED
    BY <2>1, <2>2 DEF LockStep, SameLock
<1>4. CASE c.op = "down"
  <2>1. k' = s
    BY <1>4 DEF Finish
  <2> QED
    BY <1>2, <2>1
<1>5. CASE c.op = "get"
  <2> DEFINE r == createMutex(s, c.name, t)
  <2>1. k' = getMutex(s, c.name, t) /\ c.name \in Names
    BY <1>5 DEF Finish, Calls, Idle
  <2>2. CASE found(s, c.name)
    BY <1>2, <1>5, <2>1, <2>2 DEF getMutex
  <2>3. CASE ~found(s, c.name)
    <3>1. Sound(r, {}) /\ k' = mutexUp(r, Admin, t)
      BY <2>1, <2>3, CreateSound DEF getMutex
    <3>2. r.blocked = s.blocked /\ r.value = s.value /\ r.lockProcess = s.lockProcess
      BY <1>1 DEF createMutex, Tables
    <3> HIDE DEF r
    <3>3. ListedOnce(r) /\ SameAdmin(s, r)
      BY <1>1, <3>2 DEF ListedOnce, SameAdmin
    <3> QED
      BY <1>3, <1>5, <3>1, <3>3
  <2> QED
    BY <2>2, <2>3
<1>6. CASE c.op = "release"
  <2>1. k' = releaseMutex(s, c.m, t) /\ c.m \in Slots
    BY <1>6 DEF Finish, Calls, Idle
  <2>2. CASE ~mayRelease(s, c.m, t)
    <3>1. k' = mutexUp(s, Admin, t) /\ SameAdmin(s, s)
      BY <2>1, <2>2 DEF releaseMutex, SameAdmin
    <3> QED
      BY <1>1, <1>3, <1>6, <3>1
  <2>3. CASE mayRelease(s, c.m, t)
    <3> DEFINE e == [s EXCEPT !.creator[c.m] = NotUsed]
               r == unlockAll(e, c.m)
    <3>1. c.m # Admin
      BY <2>3, MutexAssumption DEF Excl, AdminKept, mayRelease
    <3>2. k' = mutexUp(r, Admin, t) /\ Sound(r, {})
      BY <2>1, <2>3, ReleasedSound DEF releaseMutex
    <3>3. /\ e \in Tables /\ e.blocked = s.blocked /\ e.value = s.value
          /\ e.lockProcess = s.lockProcess
      BY <1>1 DEF Tables, Ids
    <3> HIDE DEF e
    <3>4. /\ r.blocked = [e.blocked EXCEPT ![c.m] = [p \in Places |-> NotUsed]]
          /\ r.value = e.value
          /\ \A n \in Slots : n # c.m => r.lockProcess[n] = e.lockProcess[n]
      BY <2>1, <3>3, UnlockAllFields
    <3> HIDE DEF r
    <3>5. \A n \in Slots, q \in Places :
            r.blocked[n][q] = NotUsed \/ r.blocked[n][q] = s.blocked[n][q]
      BY <1>1, <3>3, <3>4 DEF Tables
    <3>6. ListedOnce(r)
      BY <1>1, <3>5 DEF ListedOnce
    <3>7. SameAdmin(s, r)
      BY <1>1, <3>1, <3>3, <3>4, AdminSlot DEF SameAdmin, Tables
    <3> QED
      BY <1>3, <1>6, <3>2, <3>6, <3>7
  <2> QED
    BY <2>2, <2>3
<1> QED
  BY <1>4, <1>5, <1>6 DEF Finish

LEMMA BeginAdmin ==
  ASSUME OtherTypes, Sound(k, {}), Excl(k, call, inside, released), HasHolder(k),
         IdleReady, NEW t \in Threads, NEW c \in Calls, c # Idle, Begin(t, Target(c), c)
  PROVE  LockStep(k, k') /\ HasHolder(k')
<1> DEFINE m == Target(c)
           s == mutexDown(k, m, t)
<1>1. m \in Slots /\ call[t] = Idle /\ k \in Tables /\ call \in [Threads -> Calls]
  BY TargetType DEF Begin, Runs, Sound, OtherTypes
<1>2. isValidMutex(k, Admin)
  BY AdminSlot, MutexAssumption DEF Excl, AdminKept, isValidMutex
<1>3. CASE ~Waits(k, m)
  <2>1. Finish(s, t, c)
    BY <1>3 DEF Begin
  <2>2. Excl(s, call, inside, released) /\ Sound(s, {})
    BY <1>1, <1>3, DownExcl, DownSound
  <2>3. /\ HasHolder(s)
        /\ m # Admin => SameLock(k, s)
        /\ m = Admin => /\ Holder(k) = NotUsed /\ Waiters(k) = {}
                        /\ Holder(s) = t /\ Waiters(s) = {}
    BY <1>1, <1>2, <1>3, DownAdmin
  <2> HIDE DEF s
  <2>4. /\ LockStep(s, k') /\ HasHolder(k')
        /\ Waiters(s) = {} => Waiters(k') = {} /\ Holder(k') \in {Holder(s), NotUsed}
    BY <2>1, <2>2, <2>3, FinishAdmin
  <2>5. CASE m # Admin
    BY <2>3, <2>4, <2>5 DEF LockStep, SameLock
  <2>6. CASE m = Admin
    <3>1. Waiters(k') = {} /\ Waiters(k) = {} /\ Holder(k) = NotUsed
      BY <2>3, <2>4, <2>6
    <3>2. Holder(k') = t \/ Holder(k') = NotUsed
      BY <2>3, <2>4, <2>6
    <3> QED
      BY <2>4, <3>1, <3>2 DEF LockStep, SameLock
  <2> QED
    BY <2>5, <2>6
<1>4. CASE Waits(k, m)
  <2>1. k' = s /\ Free(k, m) # {}
    BY <1>4 DEF Begin, yield, nobodyReady
  <2> DEFINE p == Min(Free(k, m))
  <2>2. p \in Places /\ k.blocked[m][p] = NotUsed
    <3>1. Free(k, m) \in SUBSET Nat
      BY WaitingFinite DEF Free
    <3> QED
      BY <2>1, <3>1, MinIsLeast DEF Free, Waiting
  <2>3. s = [k EXCEPT !.creator = creatorAfterTestAndSet(k, m),
                      !.blocked[m][p] = t,
                      !.blockedQuantity[m] = @ + 1,
                      !.state[t] = "BLOCKED"]
    BY <1>4 DEF mutexDown, Waits
  <2> HIDE DEF s, p
  <2>4. /\ s.blocked = [k.blocked EXCEPT ![m] = [k.blocked[m] EXCEPT ![p] = t]]
        /\ s.value = k.value /\ s.lockProcess = k.lockProcess
    BY <1>1, <2>3 DEF Tables
  <2> HIDE DEF m
  <2>5. CASE m # Admin
    <3>1. SameAdmin(k, s)
      BY <1>1, <2>4, <2>5, AdminSlot DEF SameAdmin, Tables
    <3> QED
      BY <2>1, <3>1, SameAdminLock DEF LockStep
  <2>6. CASE m = Admin
    <3>1. k.value[Admin] = "LOCKED" /\ Holder(k) # NotUsed
      BY <1>4, <2>6, MutexAssumption DEF Waits, HasHolder, Holder
    <3>2. Holder(s) = Holder(k) /\ HasHolder(s)
      BY <2>4 DEF Holder, HasHolder
    <3>3. \A q \in Places : k.blocked[Admin][q] # t
      BY <1>1, AdminSlot, MutexAssumption DEF Excl, ListedBlocked
    <3>4. t \notin Waiters(k)
      BY <3>3 DEF Waiters, Waiting
    <3>5. \A q \in Places : s.blocked[Admin][q] =
                              IF q = p THEN t ELSE k.blocked[Admin][q]
      BY <1>1, <2>2, <2>4, <2>6 DEF Tables
    <3>6. Waiting(s, Admin) = Waiting(k, Admin) \union {p} /\ p \notin Waiting(k, Admin)
      BY <2>2, <2>6, <3>5, MutexAssumption DEF Waiting
    <3>7. Waiters(s) = Waiters(k) \union {t}
      BY <2>2, <3>5, <3>6 DEF Waiters, Waiting
    <3> QED
      BY <2>1, <3>1, <3>2, <3>4, <3>7 DEF LockStep
  <2> QED
    BY <2>5, <2>6
<1> QED
  BY <1>3, <1>4

\* While some thread is always ready, adminMutex, which is also the heap's
\* mutex, implements Lock: it passes from nobody to a thread that need not
\* wait or from its holder to a waiter, and is free only when nobody waits.
THEOREM AdminImplementsLock ==
  ASSUME IdleReady PROVE Spec => AdminIsALock
<1>1. Init => ~forced /\ HasHolder(k) /\ AdminLock!Init
  <2> SUFFICES ASSUME Init PROVE ~forced /\ HasHolder(k) /\ AdminLock!Init
    OBVIOUS
  <2>1. k.value[Admin] = "UNLOCKED" /\ \A p \in Places : k.blocked[Admin][p] = NotUsed
    BY AdminSlot DEF Init, KernelTable
  <2> QED
    BY <2>1 DEF Init, HasHolder, AdminLock!Init, Waiting
<1>2. OtherTypes /\ Sound(k, {}) /\ Exclusive /\ ~forced /\ HasHolder(k) /\ [Next]_vars
        => ~forced' /\ HasHolder(k)' /\ LockStep(k, k')
  <2> SUFFICES ASSUME OtherTypes, Sound(k, {}), Exclusive, ~forced, HasHolder(k), [Next]_vars
               PROVE  ~forced' /\ HasHolder(k') /\ LockStep(k, k')
    BY DEF HasHolder
  <2>1. Excl(k, call, inside, released) /\ Handles \subseteq Slots
    BY HandlesAssumption DEF Exclusive
  <2>2. ASSUME NEW t \in Threads, NEW c \in Calls, c # Idle, Begin(t, Target(c), c)
        PROVE  ~forced' /\ HasHolder(k') /\ LockStep(k, k')
    <3>1. ~forced'
      BY <2>2 DEF Begin, nobodyReady
    <3> QED
      BY <2>1, <2>2, <3>1, BeginAdmin
  <2>3. ASSUME NEW t \in Threads, NEW name \in Names, sysCreateMutex(t, name)
        PROVE  ~forced' /\ HasHolder(k') /\ LockStep(k, k')
    <3> DEFINE c == [op |-> "get", name |-> name]
    <3>1. c \in Calls /\ c # Idle /\ Target(c) = Admin
      BY DEF Calls, Idle, Target
    <3> QED
      BY <2>2, <2>3, <3>1 DEF sysCreateMutex
  <2>4. ASSUME NEW t \in Threads, NEW m \in Handles, sysReleaseMutex(t, m)
        PROVE  ~forced' /\ HasHolder(k') /\ LockStep(k, k')
    <3> DEFINE c == [op |-> "release", m |-> m]
    <3>1. c \in Calls /\ c # Idle /\ Target(c) = Admin
      BY <2>1 DEF Calls, Idle, Target
    <3> QED
      BY <2>2, <2>4, <3>1 DEF sysReleaseMutex
  <2>5. ASSUME NEW t \in Threads, NEW m \in Handles, sysDownMutex(t, m)
        PROVE  ~forced' /\ HasHolder(k') /\ LockStep(k, k')
    <3> DEFINE c == [op |-> "down", m |-> m]
    <3>1. c \in Calls /\ c # Idle /\ Target(c) = m
      BY <2>1 DEF Calls, Idle, Target
    <3> QED
      BY <2>2, <2>5, <3>1 DEF sysDownMutex
  <2>6. ASSUME NEW t \in Threads, NEW m \in Handles, sysUpMutex(t, m)
        PROVE  ~forced' /\ HasHolder(k') /\ LockStep(k, k')
    <3>1. k' = mutexUp(k, m, t) /\ forced' = forced
      BY <2>6 DEF sysUpMutex
    <3> QED
      BY <2>1, <3>1, UpAdmin DEF Excl
  <2>7. ASSUME NEW t \in Threads, Resume(t)
        PROVE  ~forced' /\ HasHolder(k') /\ LockStep(k, k')
    <3>1. Finish(k, t, call[t]) /\ call[t] \in Calls /\ forced' = forced
      BY <2>7 DEF Resume, OtherTypes
    <3> QED
      BY <2>1, <3>1, FinishAdmin
  <2>8. CASE UNCHANGED vars
    BY <2>8 DEF vars, LockStep, SameLock
  <2> QED
    BY <2>3, <2>4, <2>5, <2>6, <2>7, <2>8 DEF Next
<1>3. LockStep(k, k') => [AdminLock!Next]_(AdminLock!lockVars)
  BY DEF LockStep, SameLock, Holder, Waiters, AdminLock!Next, AdminLock!lockVars,
         AdminLock!Acquire, AdminLock!Enqueue, AdminLock!HandOver, AdminLock!Free,
         Waiting
<1> QED
  BY <1>1, <1>2, <1>3, AlwaysExclusive, PTL DEF Spec, AdminIsALock, AdminLock!Spec
================================================================================
