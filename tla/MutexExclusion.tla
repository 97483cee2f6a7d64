---------------------------- MODULE MutexExclusion -----------------------------
(* The kernel mutexes exclude: the proof that a thread between mutexDown and *)
(* mutexUp is alone, for any number of threads and mutexes, as long as the   *)
(* scheduler runs no blocked thread and the mutex is not released.           *)
(*                                                                           *)
(* Exclusion needs more than itself: a waiter that was woken and has not run *)
(* yet already owns the mutex, a thread waits in at most one place, and only *)
(* for the mutex its call is about.  Excl says so of a table s, calls c,     *)
(* insiders i and released slots R, so that it can be followed through the   *)
(* operators a system call is made of.                                       *)
EXTENDS MutexProofs

Target(c)     == IF c.op = "down" THEN c.m ELSE Admin
Held(s, m, t) == s.lockProcess[m] = t /\ s.value[m] = "LOCKED"

\* Who is listed is blocked, in one place, on account of its call.
ListedBlocked(s, c) ==
  \A m \in Slots, p \in Places : s.blocked[m][p] # NotUsed =>
    LET t == s.blocked[m][p]
    IN s.state[t] = "BLOCKED" /\ c[t] # Idle /\ Target(c[t]) = m
ListedOnce(s) ==
  \A m \in Slots, p, q \in Places :
    s.blocked[m][p] = s.blocked[m][q] /\ s.blocked[m][p] # NotUsed => p = q
\* Who is inside holds the mutex.
InsideHolds(s, i, R) ==
  \A m \in Slots \ R : \A t \in i[m] : Held(s, m, t)
\* Who was woken holds it as well, and is not yet inside.
WokenHolds(s, c, i, R) ==
  \A t \in Threads :
    c[t] # Idle /\ s.state[t] = "READY" /\ Target(c[t]) \notin R =>
      Held(s, Target(c[t]), t) /\ t \notin i[Target(c[t])]
\* adminMutex belongs to the kernel and is never released.
AdminKept(s, R) ==
  s.creator[Admin] = Kernel /\ s.first # Admin /\ Admin \notin R

Excl(s, c, i, R) ==
  /\ ListedBlocked(s, c) /\ ListedOnce(s)
  /\ InsideHolds(s, i, R) /\ WokenHolds(s, c, i, R) /\ AdminKept(s, R)

LEMMA AdminSlot == Admin \in Slots
BY MutexAssumption DEF Admin, Slots, KernelMutexes

LEMMA TargetType ==
  ASSUME NEW c \in Calls, c # Idle
  PROVE  Target(c) \in Slots
BY AdminSlot DEF Calls, Target

\* mutexDown of a mutex that is free: the caller holds it afterwards.
LEMMA DownExcl ==
  ASSUME NEW s, Sound(s, {}), NEW c \in [Threads -> Calls], NEW i, NEW R,
         Excl(s, c, i, R), NEW m \in Slots, NEW t \in Threads, ~Waits(s, m)
  PROVE  LET r == mutexDown(s, m, t)
         IN /\ Excl(r, c, i, R)
            /\ r.state = s.state /\ r.blocked = s.blocked
            /\ isValidMutex(s, m) =>
                 /\ s.value[m] = "UNLOCKED" /\ Held(r, m, t) /\ isValidMutex(r, m)
            /\ ~isValidMutex(s, m) => ~isValidMutex(r, m)
<1> DEFINE r == mutexDown(s, m, t)
<1>1. s \in Tables
  BY DEF Sound
<1>2. CASE ~isValidMutex(s, m)
  BY <1>2 DEF mutexDown
<1>3. CASE isValidMutex(s, m)
  <2>1. r = [s EXCEPT !.creator = creatorAfterTestAndSet(s, m),
                      !.value[m] = "LOCKED",
                      !.lockProcess[m] = t]
    BY <1>3 DEF mutexDown
  <2> HIDE DEF r
  <2>2. /\ r.blocked = s.blocked /\ r.state = s.state /\ r.first = s.first
        /\ r.value = [s.value EXCEPT ![m] = "LOCKED"]
        /\ r.lockProcess = [s.lockProcess EXCEPT ![m] = t]
        /\ r.creator = creatorAfterTestAndSet(s, m)
    BY <1>1, <2>1 DEF Tables
  <2>3. s.value[m] = "UNLOCKED"
    BY <1>1, <1>3 DEF Waits, Tables
  <2>4. Held(r, m, t)
    BY <1>1, <2>2 DEF Held, Tables
  <2>5. \A n \in Slots, u \in Threads : Held(s, n, u) => Held(r, n, u)
    BY <1>1, <2>2, <2>3 DEF Held, Tables
  <2>6. ListedBlocked(r, c) /\ ListedOnce(r)
    BY <2>2 DEF Excl, ListedBlocked, ListedOnce
  <2>7. InsideHolds(r, i, R)
    BY <1>1, <2>2, <2>3 DEF Excl, InsideHolds, Held, Tables
  <2>8. WokenHolds(r, c, i, R)
    BY <2>2, <2>5, TargetType DEF Excl, WokenHolds
  <2>9. AdminKept(r, R) /\ isValidMutex(r, m)
    BY <1>1, <1>3, <2>2, AdminSlot, MutexAssumption
       DEF Excl, AdminKept, creatorAfterTestAndSet, Tables, isValidMutex, Slots
  <2> QED
    BY <1>3, <2>2, <2>3, <2>4, <2>6, <2>7, <2>8, <2>9 DEF Excl, r
<1> QED
  BY <1>2, <1>3

\* mutexUp by a thread that runs: the mutex becomes free or the waiter's.
LEMMA UpExcl ==
  ASSUME NEW s, Sound(s, {}), NEW c \in [Threads -> Calls],
         NEW i \in [Slots -> SUBSET Threads], NEW R,
         Excl(s, c, i, R), NEW m \in Slots, NEW t \in Threads, c[t] = Idle
  PROVE  Excl(mutexUp(s, m, t), c, [i EXCEPT ![m] = @ \ {t}], R)
<1> DEFINE r == mutexUp(s, m, t)
           j == [i EXCEPT ![m] = @ \ {t}]
<1>1. s \in Tables
  BY DEF Sound
<1>2. \A n \in Slots : j[n] \subseteq i[n]
  OBVIOUS
<1>3. CASE ~(isValidMutex(s, m) /\ s.lockProcess[m] = t)
  <2>1. r = s
    BY <1>3 DEF mutexUp
  <2>2. InsideHolds(s, j, R) /\ WokenHolds(s, c, j, R)
    BY <1>2, TargetType DEF Excl, InsideHolds, WokenHolds
  <2> QED
    BY <2>1, <2>2 DEF Excl
<1>4. ASSUME s.lockProcess[m] = t, m \notin R
      PROVE  j[m] = {} /\ \A u \in Threads :
                            ~(c[u] # Idle /\ s.state[u] = "READY" /\ Target(c[u]) = m)
  <2>1. i[m] \subseteq {t}
    BY <1>4 DEF Excl, InsideHolds, Held
  <2>2. j[m] = {}
    BY <2>1
  <2> QED
    BY <1>4, <2>2 DEF Excl, WokenHolds, Held
<1>5. CASE isValidMutex(s, m) /\ s.lockProcess[m] = t /\ s.blockedQuantity[m] = 0
  <2>1. r = [s EXCEPT !.value[m] = "UNLOCKED"]
    BY <1>5 DEF mutexUp
  <2> HIDE DEF r, j
  <2>2. /\ r.blocked = s.blocked /\ r.state = s.state /\ r.first = s.first
        /\ r.value = [s.value EXCEPT ![m] = "UNLOCKED"]
        /\ r.lockProcess = s.lockProcess /\ r.creator = s.creator
    BY <1>1, <2>1 DEF Tables
  <2>3. \A n \in Slots, u \in Threads : n # m /\ Held(s, n, u) => Held(r, n, u)
    BY <1>1, <2>2 DEF Held, Tables
  <2>4. InsideHolds(r, j, R)
    <3> SUFFICES ASSUME NEW n \in Slots \ R, NEW u \in j[n] PROVE Held(r, n, u)
      BY DEF InsideHolds
    <3>1. n # m /\ u \in i[n] /\ u \in Threads
      BY <1>2, <1>4, <1>5
    <3> QED
      BY <2>3, <3>1 DEF Excl, InsideHolds
  <2>5. WokenHolds(r, c, j, R)
    <3> SUFFICES ASSUME NEW u \in Threads, c[u] # Idle, r.state[u] = "READY",
                        Target(c[u]) \notin R
                 PROVE  Held(r, Target(c[u]), u) /\ u \notin j[Target(c[u])]
      BY DEF WokenHolds
    <3>1. Target(c[u]) \in Slots /\ Target(c[u]) # m
      BY <1>4, <1>5, <2>2, TargetType
    <3>2. Held(s, Target(c[u]), u) /\ u \notin i[Target(c[u])]
      BY <2>2 DEF Excl, WokenHolds
    <3> QED
      BY <1>2, <2>3, <3>1, <3>2
  <2> QED
    BY <2>2, <2>4, <2>5 DEF Excl, ListedBlocked, ListedOnce, AdminKept, r, j
<1>6. CASE isValidMutex(s, m) /\ s.lockProcess[m] = t /\ s.blockedQuantity[m] # 0
  <2>1. Waiting(s, m) # {}
    BY <1>6, WaitingFinite DEF Sound, Counts
  <2> DEFINE p == Min(Waiting(s, m))
             w == s.blocked[m][p]
  <2>2. /\ p \in Waiting(s, m) /\ p \in Places /\ w \in Threads
        /\ unlockProcess(s, m).lockProcess = [s.lockProcess EXCEPT ![m] = w]
        /\ unlockProcess(s, m).blocked =
             [s.blocked EXCEPT ![m] = [s.blocked[m] EXCEPT ![p] = NotUsed]]
        /\ unlockProcess(s, m).state = [s.state EXCEPT ![w] = "READY"]
        /\ unlockProcess(s, m).value = s.value
        /\ unlockProcess(s, m).creator = s.creator
        /\ unlockProcess(s, m).first = s.first
    BY <1>1, <2>1, UnlockFields
  <2>3. r = unlockProcess(s, m)
    BY <1>6 DEF mutexUp
  <2>4. w = s.blocked[m][p]
    OBVIOUS
  <2> HIDE DEF r, j, p, w
  <2>5. /\ r.lockProcess = [s.lockProcess EXCEPT ![m] = w]
        /\ r.blocked = [s.blocked EXCEPT ![m] = [s.blocked[m] EXCEPT ![p] = NotUsed]]
        /\ r.state = [s.state EXCEPT ![w] = "READY"]
        /\ r.value = s.value /\ r.creator = s.creator /\ r.first = s.first
    BY <2>2, <2>3
  <2>6. /\ s.state[w] = "BLOCKED" /\ c[w] # Idle /\ Target(c[w]) = m
        /\ w # NotUsed /\ w # t
    BY <2>2, <2>4, MutexAssumption DEF Excl, ListedBlocked
  <2>7. s.value[m] = "LOCKED"
    BY <1>1, <2>1 DEF Sound, Unwaited, Tables
  <2>8. \A n \in Slots, q \in Places : r.blocked[n][q] # NotUsed =>
          r.blocked[n][q] = s.blocked[n][q] /\ ~(n = m /\ q = p)
    BY <1>1, <2>2, <2>5 DEF Tables
  <2>9. ListedOnce(r)
    BY <2>8 DEF Excl, ListedOnce
  <2>10. ListedBlocked(r, c)
    <3> SUFFICES ASSUME NEW n \in Slots, NEW q \in Places,
                        r.blocked[n][q] # NotUsed
                 PROVE  LET u == r.blocked[n][q]
                        IN r.state[u] = "BLOCKED" /\ c[u] # Idle /\ Target(c[u]) = n
      BY DEF ListedBlocked
    <3> DEFINE u == s.blocked[n][q]
    <3>1. r.blocked[n][q] = u /\ ~(n = m /\ q = p) /\ u # NotUsed
      BY <2>8
    <3>2. s.state[u] = "BLOCKED" /\ c[u] # Idle /\ Target(c[u]) = n
      BY <3>1 DEF Excl, ListedBlocked
    <3>3. u # w
      BY <2>2, <2>4, <2>6, <3>1, <3>2 DEF Excl, ListedOnce
    <3>4. r.state[u] = "BLOCKED"
      BY <1>1, <2>5, <3>2, <3>3 DEF Tables
    <3> QED
      BY <3>1, <3>2, <3>4
  <2>11. \A n \in Slots, u \in Threads : n # m /\ Held(s, n, u) => Held(r, n, u)
    BY <1>1, <2>5 DEF Held, Tables
  <2>12. InsideHolds(r, j, R)
    <3> SUFFICES ASSUME NEW n \in Slots \ R, NEW u \in j[n] PROVE Held(r, n, u)
      BY DEF InsideHolds
    <3>1. n # m /\ u \in i[n] /\ u \in Threads
      BY <1>2, <1>4, <1>6
    <3> QED
      BY <2>11, <3>1 DEF Excl, InsideHolds
  <2>13. WokenHolds(r, c, j, R)
    <3> SUFFICES ASSUME NEW u \in Threads, c[u] # Idle, r.state[u] = "READY",
                        Target(c[u]) \notin R
                 PROVE  Held(r, Target(c[u]), u) /\ u \notin j[Target(c[u])]
      BY DEF WokenHolds
    <3>1. CASE u = w
      BY <1>1, <1>4, <1>6, <2>5, <2>6, <2>7, <3>1 DEF Held, Tables
    <3>2. CASE u # w
      <4>1. s.state[u] = "READY"
        BY <1>1, <2>2, <2>5, <3>2 DEF Tables
      <4>2. Target(c[u]) \in Slots /\ Target(c[u]) # m
        BY <1>4, <1>6, <4>1, TargetType
      <4>3. Held(s, Target(c[u]), u) /\ u \notin i[Target(c[u])]
        BY <4>1 DEF Excl, WokenHolds
      <4> QED
        BY <1>2, <2>11, <4>2, <4>3
    <3> QED
      BY <3>1, <3>2
  <2> QED
    BY <2>5, <2>9, <2>10, <2>12, <2>13 DEF Excl, AdminKept, r, j
<1> QED
  BY <1>3, <1>5, <1>6

\* The next slot for createMutex is never the one of adminMutex.
LEMMA NextNotAdmin ==
  ASSUME NEW creator, creator[Admin] # NotUsed
  PROVE  getNextMutexAvailable(creator) # Admin
<1> DEFINE free == {m \in Slots : creator[m] = NotUsed}
<1>1. free \in SUBSET Nat /\ Admin \notin free
  BY MutexAssumption DEF Slots
<1>2. free # {} => Min(free) \in free
  BY <1>1, MinIsLeast
<1>3. FullList # Admin
  BY DEF FullList, Admin
<1> HIDE DEF free
<1>4. getNextMutexAvailable(creator) = IF free = {} THEN FullList ELSE Min(free)
  BY DEF getNextMutexAvailable, free
<1> QED
  BY <1>1, <1>2, <1>3, <1>4

LEMMA CreateExcl ==
  ASSUME NEW s, Sound(s, {}), NEW c, NEW i, NEW R, Excl(s, c, i, R),
         NEW name, NEW t \in Threads
  PROVE  Excl(createMutex(s, name, t), c, i, R)
<1> DEFINE r == createMutex(s, name, t)
<1>1. s \in Tables
  BY DEF Sound
<1>2. s.creator[Admin] = Kernel /\ s.first # Admin /\ Kernel # NotUsed
  BY MutexAssumption DEF Excl, AdminKept
<1>3. /\ r.blocked = s.blocked /\ r.state = s.state
      /\ r.value = s.value /\ r.lockProcess = s.lockProcess
  BY <1>1 DEF createMutex, Tables
<1>4. r.creator[Admin] = Kernel /\ r.first # Admin
  <2>1. CASE ~canCreate(s, name)
    BY <1>2, <2>1 DEF createMutex
  <2>2. CASE canCreate(s, name) /\ s.first \notin Slots
    <3>1. r.creator = s.creator /\ r.first = getNextMutexAvailable(s.creator)
      BY <1>1, <2>2 DEF createMutex, Tables
    <3> QED
      BY <1>2, <3>1, NextNotAdmin
  <2>3. CASE canCreate(s, name) /\ s.first \in Slots
    <3> DEFINE d == [s.creator EXCEPT ![s.first] = t]
    <3>1. r.creator = d /\ r.first = getNextMutexAvailable(d)
      BY <1>1, <2>3 DEF createMutex, Tables
    <3>2. d[Admin] = Kernel
      BY <1>1, <1>2, AdminSlot DEF Tables
    <3> QED
      BY <1>2, <3>1, <3>2, NextNotAdmin
  <2> QED
    BY <2>1, <2>2, <2>3
<1> HIDE DEF r
<1> QED
  BY <1>3, <1>4 DEF Excl, ListedBlocked, ListedOnce, InsideHolds, WokenHolds,
                    AdminKept, Held, r

\* The loop of releaseMutex on slot m, which from then on counts as released.
LEMMA UnlockAllExcl ==
  ASSUME NEW s, s \in Tables, NEW c \in [Threads -> Calls], NEW i, NEW R,
         Excl(s, c, i, R), NEW m \in Slots, m # Admin
  PROVE  Excl(unlockAll([s EXCEPT !.creator[m] = NotUsed], m), c, i, R \union {m})
<1> DEFINE e == [s EXCEPT !.creator[m] = NotUsed]
           r == unlockAll(e, m)
<1>1. /\ e \in Tables /\ e.blocked = s.blocked /\ e.value = s.value
      /\ e.state = s.state /\ e.lockProcess = s.lockProcess /\ e.first = s.first
      /\ e.creator[Admin] = s.creator[Admin]
  BY AdminSlot DEF Tables, Ids
<1>2. Waiting(e, m) = Waiting(s, m)
  BY <1>1 DEF Waiting
<1> HIDE DEF e
<1>3. /\ r.blocked = [s.blocked EXCEPT ![m] = [p \in Places |-> NotUsed]]
      /\ r.state = [t \in Threads |->
                      IF \E p \in Waiting(s, m) : s.blocked[m][p] = t
                      THEN "READY" ELSE s.state[t]]
      /\ r.value = s.value /\ r.creator = e.creator
      /\ \A n \in Slots : n # m => r.lockProcess[n] = s.lockProcess[n]
  <2>1. /\ r.blocked = [e.blocked EXCEPT ![m] = [p \in Places |-> NotUsed]]
        /\ r.state = [t \in Threads |->
                        IF \E p \in Waiting(e, m) : e.blocked[m][p] = t
                        THEN "READY" ELSE e.state[t]]
        /\ r.value = e.value /\ r.creator = e.creator
        /\ \A n \in Slots : n # m => r.lockProcess[n] = e.lockProcess[n]
    BY <1>1, UnlockAllFields
  <2> HIDE DEF r
  <2> QED
    BY <1>1, <1>2, <2>1
<1>4. r.first = s.first
  BY <1>1 DEF unlockAll, Tables
<1> HIDE DEF r
<1>5. \A n \in Slots, q \in Places : r.blocked[n][q] # NotUsed =>
        n # m /\ r.blocked[n][q] = s.blocked[n][q]
  BY <1>3 DEF Tables
<1>6. ListedOnce(r)
  BY <1>5 DEF Excl, ListedOnce
<1>7. ListedBlocked(r, c)
  <2> SUFFICES ASSUME NEW n \in Slots, NEW q \in Places, r.blocked[n][q] # NotUsed
               PROVE  LET u == r.blocked[n][q]
                      IN r.state[u] = "BLOCKED" /\ c[u] # Idle /\ Target(c[u]) = n
    BY DEF ListedBlocked
  <2> DEFINE u == s.blocked[n][q]
  <2>1. n # m /\ r.blocked[n][q] = u /\ u # NotUsed
    BY <1>5
  <2>2. s.state[u] = "BLOCKED" /\ c[u] # Idle /\ Target(c[u]) = n
    BY <2>1 DEF Excl, ListedBlocked
  <2>3. u \in Threads
    BY <2>1 DEF Tables
  <2>4. ~\E p \in Waiting(s, m) : s.blocked[m][p] = u
    BY <2>1, <2>2 DEF Excl, ListedBlocked, Waiting
  <2> HIDE DEF u
  <2>5. r.state[u] = "BLOCKED"
    BY <1>3, <2>2, <2>3, <2>4
  <2> QED
    BY <2>1, <2>2, <2>5
<1>8. \A u : \A n \in Slots : n # m /\ Held(s, n, u) => Held(r, n, u)
  BY <1>3 DEF Held
<1>9. InsideHolds(r, i, R \union {m})
  BY <1>8 DEF Excl, InsideHolds
<1>10. WokenHolds(r, c, i, R \union {m})
  <2> SUFFICES ASSUME NEW u \in Threads, c[u] # Idle, r.state[u] = "READY",
                      Target(c[u]) \notin R \union {m}
               PROVE  Held(r, Target(c[u]), u) /\ u \notin i[Target(c[u])]
    BY DEF WokenHolds
  <2>1. ~\E p \in Waiting(s, m) : s.blocked[m][p] = u
    BY DEF Excl, ListedBlocked, Waiting
  <2>2. s.state[u] = "READY"
    BY <1>3, <2>1
  <2>3. Held(s, Target(c[u]), u) /\ u \notin i[Target(c[u])]
    BY <2>2 DEF Excl, WokenHolds
  <2> QED
    BY <1>8, <2>3, TargetType
<1>11. AdminKept(r, R \union {m})
  BY <1>1, <1>3, <1>4 DEF Excl, AdminKept
<1> QED
  BY <1>6, <1>7, <1>9, <1>10, <1>11 DEF Excl, r, e

--------------------------------------------------------------------------------
Exclusive == ~forced => Excl(k, call, inside, released)

\* A thread that is not blocked and whose call ends.
LEMMA CallEnds ==
  ASSUME NEW s, NEW c \in [Threads -> Calls], NEW i, NEW R, Excl(s, c, i, R),
         NEW t \in Threads, s.state[t] = "READY"
  PROVE  Excl(s, [c EXCEPT ![t] = Idle], i, R)
<1> DEFINE d == [c EXCEPT ![t] = Idle]
<1>1. \A u \in Threads : u # t => d[u] = c[u]
  OBVIOUS
<1>2. d[t] = Idle
  OBVIOUS
<1> HIDE DEF d
<1>3. ListedBlocked(s, d)
  <2> SUFFICES ASSUME NEW n \in Slots, NEW q \in Places, s.blocked[n][q] # NotUsed
               PROVE  LET u == s.blocked[n][q]
                      IN s.state[u] = "BLOCKED" /\ d[u] # Idle /\ Target(d[u]) = n
    BY DEF ListedBlocked
  <2> QED
    BY <1>1 DEF Excl, ListedBlocked, d
<1>4. WokenHolds(s, d, i, R)
  BY <1>1, <1>2 DEF Excl, WokenHolds
<1> QED
  BY <1>3, <1>4 DEF Excl, d

\* What is left of a call of a thread that has the mutex it asked for.
LEMMA FinishExcl ==
  ASSUME OtherTypes, NEW s, Sound(s, {}), Excl(s, call, inside, released),
         NEW t \in Threads, s.state[t] = "READY",
         NEW c \in Calls, c # Idle,
         isValidMutex(s, Target(c)) /\ Target(c) \notin released =>
           Held(s, Target(c), t) /\ t \notin inside[Target(c)],
         Finish(s, t, c)
  PROVE  Excl(k', call', inside', released')
<1> DEFINE d == [call EXCEPT ![t] = Idle]
<1>1. call' = d /\ call \in [Threads -> Calls] /\ d \in [Threads -> Calls]
  BY DEF Finish, OtherTypes, Calls
<1>2. Excl(s, d, inside, released)
  BY <1>1, CallEnds
<1>3. d[t] = Idle
  BY <1>1
<1> HIDE DEF d
<1>4. isValidMutex(s, Admin) /\ Admin \notin released
  BY AdminSlot, MutexAssumption DEF Excl, AdminKept, isValidMutex
<1>5. inside \in [Slots -> SUBSET Threads]
  BY DEF OtherTypes
<1>6. ASSUME c.op # "down", NEW r, NEW R, Sound(r, {}), Excl(r, d, inside, R)
      PROVE  Excl(mutexUp(r, Admin, t), d, inside, R)
  <2>1. t \notin inside[Admin]
    BY <1>4, <1>6 DEF Target
  <2>2. [inside EXCEPT ![Admin] = @ \ {t}] = inside
    BY <1>5, <2>1
  <2>3. Excl(mutexUp(r, Admin, t), d, [inside EXCEPT ![Admin] = @ \ {t}], R)
    BY <1>1, <1>3, <1>5, <1>6, AdminSlot, UpExcl
  <2> QED
    BY <2>2, <2>3
<1>7. CASE c.op = "down"
  <2>1. /\ k' = s /\ released' = released /\ Target(c) = c.m
        /\ inside' = IF isValidMutex(s, c.m)
                     THEN [inside EXCEPT ![c.m] = @ \union {t}] ELSE inside
    BY <1>7 DEF Finish, Target
  <2>2. CASE ~isValidMutex(s, c.m)
    BY <1>1, <1>2, <2>1, <2>2
  <2>3. CASE isValidMutex(s, c.m)
    <3>1. c.m \in Slots
      BY <2>1, TargetType
    <3>2. /\ inside'[c.m] = inside[c.m] \union {t}
          /\ \A n \in Slots : n # c.m => inside'[n] = inside[n]
      BY <1>5, <2>1, <2>3, <3>1
    <3>3. InsideHolds(s, inside', released)
      BY <1>2, <2>1, <2>3, <3>2 DEF Excl, InsideHolds
    <3>4. WokenHolds(s, d, inside', released)
      <4> SUFFICES ASSUME NEW u \in Threads, d[u] # Idle, s.state[u] = "READY",
                          Target(d[u]) \notin released
                   PROVE  Held(s, Target(d[u]), u) /\ u \notin inside'[Target(d[u])]
        BY DEF WokenHolds
      <4>1. Held(s, Target(d[u]), u) /\ u \notin inside[Target(d[u])] /\ u # t
        BY <1>2, <1>3 DEF Excl, WokenHolds
      <4>2. Target(d[u]) \in Slots
        BY <1>1, TargetType
      <4> QED
        BY <3>2, <4>1, <4>2
    <3> QED
      BY <1>1, <1>2, <2>1, <3>3, <3>4 DEF Excl
  <2> QED
    BY <2>2, <2>3
<1>8. CASE c.op = "get"
  <2>1. /\ k' = getMutex(s, c.name, t) /\ inside' = inside /\ released' = released
    BY <1>8 DEF Finish
  <2>2. c.name \in Names
    BY <1>8 DEF Calls, Idle
  <2>3. CASE found(s, c.name)
    BY <1>1, <1>2, <2>1, <2>3 DEF getMutex
  <2>4. CASE ~found(s, c.name)
    <3>1. /\ Sound(createMutex(s, c.name, t), {})
          /\ Excl(createMutex(s, c.name, t), d, inside, released)
      BY <1>2, <2>2, CreateSound, CreateExcl
    <3>2. Excl(mutexUp(createMutex(s, c.name, t), Admin, t), d, inside, released)
      BY <1>6, <1>8, <3>1
    <3> QED
      BY <1>1, <2>1, <2>4, <3>2 DEF getMutex
  <2> QED
    BY <2>3, <2>4
<1>9. CASE c.op = "release"
  <2>1. k' = releaseMutex(s, c.m, t) /\ inside' = inside
    BY <1>9 DEF Finish
  <2>2. c.m \in Slots
    BY <1>9 DEF Calls, Idle
  <2>3. CASE ~mayRelease(s, c.m, t)
    <3>1. released' = released
      BY <1>9, <2>3 DEF Finish
    <3>2. Excl(mutexUp(s, Admin, t), d, inside, released)
      BY <1>2, <1>6, <1>9
    <3> QED
      BY <1>1, <2>1, <2>3, <3>1, <3>2 DEF releaseMutex
  <2>4. CASE mayRelease(s, c.m, t)
    <3> DEFINE e == [s EXCEPT !.creator[c.m] = NotUsed]
    <3>1. released' = released \union {c.m}
      BY <1>9, <2>4 DEF Finish
    <3>2. c.m # Admin
      BY <2>4, MutexAssumption DEF Excl, AdminKept, mayRelease
    <3>3. Excl(unlockAll(e, c.m), d, inside, released \union {c.m})
      <4>1. s \in Tables
        BY DEF Sound
      <4> QED
        BY <1>1, <1>2, <2>2, <3>2, <4>1, UnlockAllExcl
    <3>4. Sound(unlockAll(e, c.m), {})
      BY <2>2, ReleasedSound
    <3>5. Excl(mutexUp(unlockAll(e, c.m), Admin, t), d, inside, released \union {c.m})
      BY <1>6, <1>9, <3>3, <3>4
    <3> QED
      BY <1>1, <2>1, <2>4, <3>1, <3>5 DEF releaseMutex
  <2> QED
    BY <2>3, <2>4
<1> QED
  BY <1>7, <1>8, <1>9 DEF Finish

LEMMA BeginExcl ==
  ASSUME OtherTypes, Sound(k, {}), Exclusive, NEW t \in Threads,
         NEW c \in Calls, c # Idle, Begin(t, Target(c), c)
  PROVE  Exclusive'
<1> DEFINE m == Target(c)
           s == mutexDown(k, m, t)
<1>1. m \in Slots /\ k.state[t] = "READY" /\ call[t] = Idle
  BY TargetType DEF Begin, Runs
<1>2. call \in [Threads -> Calls] /\ k \in Tables
  BY DEF OtherTypes, Sound
<1> HIDE DEF m, s
<1> SUFFICES ASSUME ~forced' PROVE Excl(k', call', inside', released')
  BY DEF Exclusive, Excl, ListedBlocked, ListedOnce, InsideHolds, WokenHolds,
         AdminKept, Held
<1>3. CASE ~Waits(k, m)
  <2>1. Finish(s, t, c) /\ forced' = forced
    BY <1>3 DEF Begin, s, m
  <2>2. Excl(k, call, inside, released)
    BY <2>1 DEF Exclusive
  <2>3. /\ Excl(s, call, inside, released) /\ s.state = k.state
        /\ isValidMutex(k, m) =>
             k.value[m] = "UNLOCKED" /\ Held(s, m, t) /\ isValidMutex(s, m)
        /\ ~isValidMutex(k, m) => ~isValidMutex(s, m)
    BY <1>1, <1>2, <1>3, <2>2, DownExcl DEF s
  <2>4. Sound(s, {})
    BY <1>1, <1>3, DownSound DEF s
  <2>5. isValidMutex(s, m) /\ m \notin released => Held(s, m, t) /\ t \notin inside[m]
    BY <1>1, <2>2, <2>3 DEF Excl, InsideHolds, Held
  <2> QED
    BY <1>1, <2>1, <2>3, <2>4, <2>5, FinishExcl DEF m
<1>4. CASE Waits(k, m)
  <2>1. /\ ~forced /\ ~nobodyReady(s) /\ k' = yield(s, t)
        /\ call' = [call EXCEPT ![t] = c]
        /\ inside' = inside /\ released' = released /\ Free(k, m) # {}
    BY <1>4 DEF Begin, s, m
  <2>2. k' = s /\ Excl(k, call, inside, released)
    BY <2>1 DEF yield, Exclusive
  <2> DEFINE p == Min(Free(k, m))
  <2>3. p \in Places /\ k.blocked[m][p] = NotUsed
    <3>1. Free(k, m) \in SUBSET Nat
      BY WaitingFinite DEF Free
    <3> QED
      BY <2>1, <3>1, MinIsLeast DEF Free, Waiting
  <2>4. s = [k EXCEPT !.creator = creatorAfterTestAndSet(k, m),
                      !.blocked[m][p] = t,
                      !.blockedQuantity[m] = @ + 1,
                      !.state[t] = "BLOCKED"]
    BY <1>4 DEF mutexDown, Waits, s
  <2> HIDE DEF p
  <2>5. /\ s.blocked = [k.blocked EXCEPT ![m] = [k.blocked[m] EXCEPT ![p] = t]]
        /\ s.state = [k.state EXCEPT ![t] = "BLOCKED"]
        /\ s.value = k.value /\ s.lockProcess = k.lockProcess
        /\ s.first = k.first /\ s.creator = creatorAfterTestAndSet(k, m)
    BY <1>2, <2>4 DEF Tables
  <2>6. \A n \in Slots, q \in Places :
          \/ n = m /\ q = p /\ s.blocked[n][q] = t
          \/ ~(n = m /\ q = p) /\ s.blocked[n][q] = k.blocked[n][q]
    BY <1>1, <1>2, <2>3, <2>5 DEF Tables
  <2>7. \A n \in Slots, q \in Places : k.blocked[n][q] # t
    BY <1>1, <2>2, MutexAssumption DEF Excl, ListedBlocked
  <2>8. ListedOnce(s)
    BY <2>2, <2>6, <2>7 DEF Excl, ListedOnce
  <2>9. ListedBlocked(s, call')
    <3> SUFFICES ASSUME NEW n \in Slots, NEW q \in Places, s.blocked[n][q] # NotUsed
                 PROVE  LET u == s.blocked[n][q]
                        IN s.state[u] = "BLOCKED" /\ call'[u] # Idle
                             /\ Target(call'[u]) = n
      BY DEF ListedBlocked
    <3>1. CASE n = m /\ q = p
      BY <1>2, <2>1, <2>5, <2>6, <3>1 DEF Tables, m
    <3>2. CASE ~(n = m /\ q = p)
      <4> DEFINE u == k.blocked[n][q]
      <4>1. s.blocked[n][q] = u /\ u # t /\ u # NotUsed
        BY <2>6, <2>7, <3>2
      <4>2. k.state[u] = "BLOCKED" /\ call[u] # Idle /\ Target(call[u]) = n
        BY <2>2, <4>1 DEF Excl, ListedBlocked
      <4>3. u \in Threads
        BY <1>2, <4>1 DEF Tables
      <4> HIDE DEF u
      <4>4. s.state[u] = "BLOCKED" /\ call'[u] = call[u]
        BY <1>2, <2>1, <2>5, <4>1, <4>2, <4>3 DEF Tables
      <4> QED
        BY <4>1, <4>2, <4>4
    <3> QED
      BY <3>1, <3>2
  <2>10. InsideHolds(s, inside, released)
    BY <2>2, <2>5 DEF Excl, InsideHolds, Held
  <2>11. WokenHolds(s, call', inside, released)
    <3> SUFFICES ASSUME NEW u \in Threads, call'[u] # Idle, s.state[u] = "READY",
                        Target(call'[u]) \notin released
                 PROVE  Held(s, Target(call'[u]), u) /\ u \notin inside[Target(call'[u])]
      BY DEF WokenHolds
    <3>1. u # t
      BY <1>2, <2>5 DEF Tables
    <3>2. k.state[u] = "READY" /\ call'[u] = call[u]
      BY <1>2, <2>1, <2>5, <3>1 DEF Tables
    <3> QED
      BY <2>2, <2>5, <3>2 DEF Excl, WokenHolds, Held
  <2>12. AdminKept(s, released)
    BY <1>1, <1>2, <2>2, <2>5, AdminSlot, MutexAssumption
       DEF Excl, AdminKept, creatorAfterTestAndSet, Tables, Slots
  <2> QED
    BY <2>1, <2>2, <2>8, <2>9, <2>10, <2>11, <2>12 DEF Excl
<1> QED
  BY <1>3, <1>4

\* In every reachable state the table, the calls and those inside agree.
LEMMA AlwaysExclusive == Spec => [](OtherTypes /\ Sound(k, {}) /\ Exclusive)
<1>1. Init => Exclusive
  <2> SUFFICES ASSUME Init PROVE Excl(k, call, inside, released)
    BY DEF Exclusive
  <2>1. KernelMutexes # Admin /\ 0 < KernelMutexes
    BY DEF KernelMutexes, Admin
  <2>2. AdminKept(k, released)
    BY <2>1, AdminSlot DEF Init, KernelTable, AdminKept, Admin
  <2> QED
    BY <2>2 DEF Init, KernelTable, Excl, ListedBlocked, ListedOnce, InsideHolds, WokenHolds
<1>2. OtherTypes /\ Sound(k, {}) /\ Exclusive /\ [Next]_vars => Exclusive'
  <2> SUFFICES ASSUME OtherTypes, Sound(k, {}), Exclusive, [Next]_vars
               PROVE  Exclusive'
    OBVIOUS
  <2>1. Handles \subseteq Slots
    BY HandlesAssumption
  <2>2. ASSUME NEW t \in Threads, NEW name \in Names, sysCreateMutex(t, name)
        PROVE  Exclusive'
    <3> DEFINE c == [op |-> "get", name |-> name]
    <3>1. c \in Calls /\ c # Idle /\ Target(c) = Admin
      BY DEF Calls, Idle, Target
    <3> QED
      BY <2>2, <3>1, BeginExcl DEF sysCreateMutex
  <2>3. ASSUME NEW t \in Threads, NEW m \in Handles, sysReleaseMutex(t, m)
        PROVE  Exclusive'
    <3> DEFINE c == [op |-> "release", m |-> m]
    <3>1. c \in Calls /\ c # Idle /\ Target(c) = Admin
      BY <2>1 DEF Calls, Idle, Target
    <3> QED
      BY <2>3, <3>1, BeginExcl DEF sysReleaseMutex
  <2>4. ASSUME NEW t \in Threads, NEW m \in Handles, sysDownMutex(t, m)
        PROVE  Exclusive'
    <3> DEFINE c == [op |-> "down", m |-> m]
    <3>1. c \in Calls /\ c # Idle /\ Target(c) = m
      BY <2>1 DEF Calls, Idle, Target
    <3> QED
      BY <2>4, <3>1, BeginExcl DEF sysDownMutex
  <2>5. ASSUME NEW t \in Threads, NEW m \in Handles, sysUpMutex(t, m)
        PROVE  Exclusive'
    <3>1. /\ call[t] = Idle /\ k' = mutexUp(k, m, t) /\ call' = call
          /\ inside' = [inside EXCEPT ![m] = @ \ {t}] /\ released' = released
          /\ forced' = forced
      BY <2>5 DEF sysUpMutex, Runs
    <3>2. ASSUME ~forced PROVE Excl(k', call', inside', released')
      <4>1. m \in Slots
        BY <2>1
      <4>2. Excl(k, call, inside, released)
        BY <3>2 DEF Exclusive
      <4> QED
        BY <3>1, <4>1, <4>2, UpExcl DEF OtherTypes
    <3> QED
      BY <3>1, <3>2 DEF Exclusive, Excl, ListedBlocked, ListedOnce, InsideHolds,
                        WokenHolds, AdminKept, Held
  <2>6. ASSUME NEW t \in Threads, Resume(t)
        PROVE  Exclusive'
    <3>1. /\ call[t] # Idle /\ k.state[t] = "READY" /\ Finish(k, t, call[t])
          /\ forced' = forced /\ call[t] \in Calls
      BY <2>6 DEF Resume, OtherTypes
    <3>2. ASSUME ~forced PROVE Excl(k', call', inside', released')
      <4>1. Excl(k, call, inside, released)
        BY <3>2 DEF Exclusive
      <4>2. Target(call[t]) \notin released =>
              Held(k, Target(call[t]), t) /\ t \notin inside[Target(call[t])]
        BY <3>1, <4>1 DEF Excl, WokenHolds
      <4> QED
        BY <3>1, <4>1, <4>2, FinishExcl
    <3> QED
      BY <3>1, <3>2 DEF Exclusive, Excl, ListedBlocked, ListedOnce, InsideHolds,
                        WokenHolds, AdminKept, Held
  <2>7. CASE UNCHANGED vars
    BY <2>7 DEF vars, Exclusive, Excl, ListedBlocked, ListedOnce, InsideHolds,
                WokenHolds, AdminKept, Held
  <2> QED
    BY <2>2, <2>3, <2>4, <2>5, <2>6, <2>7 DEF Next
<1> QED
  BY <1>1, <1>2, TablesSound, PTL DEF Spec

\* A thread back from mutexDown is alone with the mutex until its mutexUp.
THEOREM Exclusion == Spec => []MutualExclusion
<1>1. OtherTypes /\ Exclusive => MutualExclusion
  BY DEF OtherTypes, Exclusive, Excl, InsideHolds, Held, MutualExclusion
<1> QED
  BY <1>1, AlwaysExclusive, PTL
================================================================================
