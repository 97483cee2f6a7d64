-------------------------------- MODULE Scheduler -------------------------------
(***************************************************************************)
(* The scheduler of TP2 with its processes and threads (Kernel/scheduler.c,*)
(* process.c, threads.c) and the system calls on them.  The kernel's state *)
(* is the record s: the ring of process slots, in each slot a process with *)
(* its ring of threads, and the statics of scheduler.c.  As in MutexTable, *)
(* a function of the kernel is an operator from one record to the next.    *)
(*                                                                         *)
(* There is one processor: only the current thread acts, or an interrupt.  *)
(* System calls and interrupts run with interrupts off and are one step.   *)
(* A thread whose function comes back ends in callProcess, with interrupts *)
(* on: its end is many steps (`end`), and the timer or a key may come      *)
(* between any two of them; only a walk of getProcessIndex is one step.    *)
(***************************************************************************)
EXTENDS Integers, FiniteSets, FiniteSetsExt

CONSTANTS
  NULL,          \* an empty slot
  MaxProcesses,  \* MAX_PROCESSES
  MaxThreads,    \* MAX_THREADS
  QUANTUM,       \* QUANTUM
  MaxMade,       \* bound: the processes and threads made after start-up
  MaxOvertaken   \* bound: nothing is modelled once more ends were overtaken

ASSUME SchedulerAssumption ==
  /\ MaxProcesses \in Nat /\ MaxProcesses >= 2
  /\ MaxThreads \in Nat \ {0} /\ QUANTUM \in Nat
  /\ MaxMade \in Nat /\ MaxOvertaken \in Nat

Slots       == 0 .. MaxProcesses - 1
ThreadSlots == 0 .. MaxThreads - 1
NoSlot      == -1      \* PROCESS_LIMIT_REACHED, PID_NOT_FOUND
NotWaiting  == -1      \* NOT_WAITING
NoThread    == -1      \* what nextThread returns if no thread is ready
Endless     == -2      \* it does not return, or reads a thread that is NULL
Init0       == 1       \* the pid of init, which halts for ever
Shell       == 2       \* the pid of the shell

\* Where a thread is: "user" in its own code, "read" in a read from the
\* background that waits for the keyboard, otherwise at a stage of its end.
User == [at |-> "user"]

Stages ==
  [at : {"user", "read", "foreground", "wake", "clean", "delete", "empty", "unlock", "yield"}]
  \union [at : {"orphans"}, hops : 0 .. MaxProcesses, here : Slots]
  \union [at : {"search"}, previous : Slots \union ThreadSlots,
          here : Slots \union ThreadSlots, first : Slots \union ThreadSlots]
  \union [at : {"cut"}, previous : Slots \union ThreadSlots]

\* createProcess: one thread, in slot 0.
NewProcess(pid, ppid) ==
  [pid |-> pid, ppid |-> ppid, currentThread |-> 0,
   next    |-> [i \in ThreadSlots |-> 0],
   state   |-> [i \in ThreadSlots |-> IF i = 0 THEN "READY" ELSE "NULL"],
   waiting |-> [i \in ThreadSlots |-> NotWaiting],
   end     |-> [i \in ThreadSlots |-> User]]

VARIABLES
  s,          \* the kernel's state
  made,       \* the processes and threads made so far
  \* history
  overtaken,  \* how often a thread lost the processor in the middle of its end
  disturbed   \* a sleeper may be woken by another than it waits for: a child was
              \* started in the foreground by a process that was not there or had
              \* other threads, or a read from the background met a sleeper

vars == <<s, made, overtaken, disturbed>>

\* startSystem: init runs first, without having been marked RUNNING.
Init ==
  /\ s = [next       |-> [i \in Slots |-> IF i = 0 THEN 1 ELSE 0],
          process    |-> [i \in Slots |->
                            CASE i = 0 -> NewProcess(Init0, -1)
                              [] i = 1 -> NewProcess(Shell, -1)
                              [] OTHER -> NULL],
          current    |-> 0,
          first      |-> IF MaxProcesses > 2 THEN 2 ELSE NoSlot,
          quantity   |-> 2,
          quantum    |-> QUANTUM,
          foreground |-> Shell,
          nextPid    |-> 3,
          last       |-> "none",   \* the end of the current process, its slot emptied
          down       |-> FALSE]    \* see nextProcess and astray
  /\ made = 0
  /\ overtaken = 0 /\ disturbed = FALSE

--------------------------------------------------------------------------------
(* The rings *)

\* Walk(f, i)[n] is where n steps along the links f lead from i.
Walk(f, i) ==
  LET w[n \in 0 .. Cardinality(DOMAIN f)] == IF n = 0 THEN i ELSE f[w[n-1]]
  IN w

Steps(f) == 1 .. Cardinality(DOMAIN f)

Used(z)   == {i \in Slots : z.process[i] # NULL}
Alive(p)  == {i \in ThreadSlots : p.state[i] # "NULL"}

\* The slots that a loop of processQuantity turns from the current one meets.
Met(z) == LET w == Walk(z.next, z.current) IN {w[n] : n \in 0 .. z.quantity - 1} \intersect Used(z)

\* getProcessIndex.
getProcessIndex(z, pid) ==
  LET at == {i \in Met(z) : z.process[i].pid = pid}
  IN IF at = {} THEN NoSlot ELSE Min(at)

\* A pointer from outside of the tables is followed (processes[-1]): what the
\* kernel does from then on is not modelled.
astray(z) == [z EXCEPT !.down = TRUE]

\* changeThreadState; of a thread that is gone nothing is changed.
changeThreadState(z, pid, i, state) ==
  LET slot == getProcessIndex(z, pid)
  IN IF slot = NoSlot THEN z
     ELSE IF z.process[slot].state[i] = "NULL" THEN z
     ELSE [z EXCEPT !.process[slot].state[i] = state]

currentOf(z) == z.process[z.current].currentThread

\* foreground->currentThread is READY or SLEEPING or BLOCKED now.
changeForeground(z, state) ==
  LET slot == getProcessIndex(z, z.foreground)
  IN IF slot = NoSlot THEN z
     ELSE changeThreadState(z, z.foreground, z.process[slot].currentThread, state)

--------------------------------------------------------------------------------
(* Whose turn it is *)

\* Slip: the lowest ready slot is taken.
nextThreadLowest(p) ==
  LET ready == {i \in ThreadSlots : p.state[i] = "READY"}
  IN IF ready = {} THEN NoThread ELSE Min(ready)

\* nextThread: the next READY thread behind the current one, itself last.
\* When the current thread has left the ring and none is READY the walk never
\* comes to its end.
nextThread(p) ==
  LET w == Walk(p.next, p.currentThread)
      stops == {n \in Steps(p.next) : p.state[w[n]] \in {"READY", "NULL"} \/ w[n] = p.currentThread}
      i == w[Min(stops)]
  IN IF stops = {} THEN Endless
     ELSE CASE p.state[i] = "READY" -> i
            [] p.state[i] = "NULL"  -> Endless
            [] OTHER                -> NoThread

\* Slip: the thread that loses the processor stays RUNNING.
demotedNot(z) == z

\* nextProcess, first part: the running thread is READY again.
demoted(z) ==
  IF z.process[z.current] = NULL THEN z
  ELSE IF z.process[z.current].state[currentOf(z)] # "RUNNING" THEN z
  ELSE [z EXCEPT !.process[z.current].state[currentOf(z)] = "READY"]

\* nextProcess: the first process behind the current one with a READY thread,
\* the current one last.  A dead slot on the way, or a ring that does not come
\* back, is the end of the kernel.
nextProcess(z0) ==
  LET z == demoted(z0)
      w == Walk(z.next, z.current)
      turn(n) == IF z.process[w[n]] = NULL THEN Endless ELSE nextThread(z.process[w[n]])
      stops == {n \in Steps(z.next) : turn(n) # NoThread \/ w[n] = z.current}
      slot == w[Min(stops)]
      i == turn(Min(stops))
      runs == IF i = NoThread THEN z.process[slot].currentThread ELSE i
  IN IF z.down \/ stops = {} \/ i = Endless THEN [z EXCEPT !.down = TRUE]
     ELSE [z EXCEPT !.current = slot,
                    !.quantum = QUANTUM,
                    !.last = "none",
                    !.process[slot].currentThread = runs,
                    !.process[slot].state[runs] = "RUNNING"]

--------------------------------------------------------------------------------
(* Processes come and go *)

\* Slip: the search goes one slot too far.
findFirstAvailableSpaceBeyond(process) ==
  Min({i \in Slots : process[i] = NULL} \union {MaxProcesses})

findFirstAvailableSpace(process) ==
  LET free == {i \in Slots : process[i] = NULL}
  IN IF free = {} THEN NoSlot ELSE Min(free)

\* createProcess and addProcess: behind the current process.  A table that was
\* full once has no first free slot any more, and is written below its start.
addProcess(z) ==
  LET p == NewProcess(z.nextPid, z.process[z.current].pid)
      z1 == [z EXCEPT !.nextPid = @ + 1]
      process == [z.process EXCEPT ![z.first] = p]
  IN IF z.quantity = MaxProcesses THEN z1
     ELSE IF z.first = NoSlot THEN astray(z1)
     ELSE [z1 EXCEPT !.process = process,
                     !.next[z.first] = z.next[z.current],
                     !.next[z.current] = z.first,
                     !.first = findFirstAvailableSpace(process),
                     !.quantity = @ + 1]

\* setForeground.
setForeground(z, pid) ==
  IF getProcessIndex(z, pid) = NoSlot THEN astray(z) ELSE [z EXCEPT !.foreground = pid]

\* Slip: the orphan is left with its dead parent.
orphanedNot(z, child, p) == z

\* One turn of changeChildrenToOrphan's loop, at slot child, for parent p.
orphaned(z, child, p) ==
  IF z.process[child] # NULL /\ z.process[child].ppid = p.pid
  THEN [z EXCEPT !.process[child].ppid = p.ppid] ELSE z

changeChildrenToOrphan(z, slot) ==
  LET p == z.process[slot]
  IN [z EXCEPT !.process =
        [i \in Slots |-> IF i \in Met(z) THEN orphaned(z, i, p).process[i] ELSE @[i]]]

\* killProcess: the foreground goes back to the parent ...
handedOver(z, p) == IF z.foreground = p.pid THEN setForeground(z, p.ppid) ELSE z

\* ... whose current thread is woken.
killing(z, slot) ==
  LET z1 == changeChildrenToOrphan(z, slot)
      p == z1.process[slot]
      z2 == handedOver(z1, p)
  IN IF z.foreground = p.pid /\ ~z2.down THEN changeForeground(z2, "READY") ELSE z2

\* removeProcess's and terminateThread's search behind `from`.
previousOf(next, from, to) ==
  LET w == Walk(next, from)
      at == {n \in Steps(next) : w[n] = to}
  IN IF at = {} THEN NoSlot ELSE w[Min(at) - 1]

\* Slip: the slot that is left stays in the ring.
linkedAroundNot(next, previous, i) == next

linkedAround(next, previous, i) == [next EXCEPT ![previous] = next[i]]

\* removeProcess behind deleteProcess.
emptied(z, slot)  == [z EXCEPT !.process[slot] = NULL]
counted(z)        == [z EXCEPT !.quantity = @ - 1]
freeFirst(z, slot) == [z EXCEPT !.first = IF @ > slot THEN slot ELSE @]

removed(z, slot) == freeFirst(counted(emptied(z, slot)), slot)

--------------------------------------------------------------------------------
(* Threads come and go *)

addThread(p) ==
  LET free == ThreadSlots \ Alive(p)
      i == Min(free)
  IN IF free = {} THEN p
     ELSE [p EXCEPT !.state[i] = "READY", !.waiting[i] = NotWaiting, !.end[i] = User,
                    !.next[i] = p.next[p.currentThread],
                    !.next[p.currentThread] = i]

\* Who is to be woken by unlockWaitingThreads.
Joined(p, i) == {j \in ThreadSlots : p.state[j] = "SLEEPING" /\ p.waiting[j] = i}

\* Slip: nobody who joined the thread is woken.
wokenNot(z, slot, joined) == z

\* unlockWaitingThreads.
woken(z, slot, joined) ==
  LET found == getProcessIndex(z, z.process[slot].pid) = slot
  IN [z EXCEPT
        !.process[slot].waiting = [j \in ThreadSlots |-> IF j \in joined THEN NotWaiting ELSE @[j]],
        !.process[slot].state =
          [j \in ThreadSlots |-> IF j \in joined /\ found THEN "READY" ELSE @[j]]]

\* The slot of thread i is empty, with the thread_t and the stack it had.
threadEmptied(z, i) ==
  [z EXCEPT !.process[z.current].state[i] = "NULL",
            !.process[z.current].waiting[i] = NotWaiting]

\* terminateThread behind deleteThread.
threadRemoved(z, i) ==
  LET z1 == [threadEmptied(z, i) EXCEPT !.process[z.current].end[i] = User]
  IN woken(z1, z.current, Joined(z1.process[z.current], i))

--------------------------------------------------------------------------------
(* The processor *)

\* Bound: nothing is modelled of a kernel that stands still or went astray.
Works == ~s.down /\ overtaken <= MaxOvertaken

me == s.process[s.current]
self == me.currentThread

\* The stage of the thread on the processor, whose process may be gone.
stage == IF me = NULL THEN [at |-> s.last] ELSE me.end[self]

At(at) == Works /\ stage.at = at

\* User code runs: a process that makes system calls.
Runs == At("user") /\ me.pid # Init0

\* The thread on the processor goes on with stage e.
goesOn(z, e) == [z EXCEPT !.process[z.current].end[currentOf(z)] = e]

becomes(z, state) == [z EXCEPT !.process[z.current].state[currentOf(z)] = state]

\* The thread on the processor is in the middle of its end.
Midway ==
  stage.at \in {"orphans", "foreground", "wake", "clean", "search", "cut", "delete",
                "empty", "quantity", "first", "unlock"}

Keeps(z) == s' = z /\ UNCHANGED <<made, overtaken, disturbed>>

\* nextProcess, called by yield or by the timer.
Switches(z) ==
  /\ s' = nextProcess(z)
  /\ overtaken' = IF Midway THEN overtaken + 1 ELSE overtaken
  /\ UNCHANGED <<made, disturbed>>

\* The timer: schedule, which compares quantum before it brings it down.
Tick ==
  /\ Works
  /\ IF s.quantum < 0 THEN Switches(s) ELSE Keeps([s EXCEPT !.quantum = @ - 1])

--------------------------------------------------------------------------------
(* System calls and interrupts *)

CanMake == made < MaxMade /\ made' = made + 1

\* The foreground process, whoever it is, sleeps, and pid takes its place.
steppedBack(z, pid) ==
  IF getProcessIndex(z, z.foreground) = NoSlot THEN astray(z)
  ELSE setForeground(changeForeground(z, "SLEEPING"), pid)

\* sysRunProcess.
sysRunProcess(background) ==
  /\ Runs /\ CanMake
  /\ s' = LET z == addProcess(s)
          IN nextProcess(IF background \/ z.down THEN z ELSE steppedBack(z, s.nextPid))
  /\ disturbed' = (disturbed \/ (~background /\ (s.foreground # me.pid \/ Alive(me) # {0})))
  /\ UNCHANGED overtaken

\* killProcess up to deleteProcess: what is left of it is `removed`.
cutOff(z, slot) ==
  [z EXCEPT !.next = linkedAround(@, previousOf(@, z.current, slot), slot)]

\* killProcess and its caller's yield.  Of a process that is not in the ring
\* there is nothing to kill, or nothing to remove.  The removal of the last
\* process of the ring is left out, as init is not killed.
Kills(pid) ==
  LET slot == getProcessIndex(s, pid)
      z == killing(s, slot)
  IN Switches(CASE slot = NoSlot -> s
                [] slot # NoSlot /\ z.down -> z
                [] OTHER ->
                     IF previousOf(z.next, z.current, slot) = NoSlot THEN z
                     ELSE removed(cutOff(z, slot), slot))

\* sysKill.  Bound: init is not killed, so that a thread is always ready.
sysKill(pid) == Runs /\ pid # Init0 /\ Kills(pid)

\* Ctrl-c: keyboardHandler calls killForeground.
killForeground == Works /\ Kills(s.foreground)

sysAddThread ==
  /\ Runs /\ CanMake
  /\ s' = [s EXCEPT !.process[s.current] = addThread(me)]
  /\ UNCHANGED <<overtaken, disturbed>>

threadCutOff(z, i) ==
  [z EXCEPT !.process[z.current].next = linkedAround(@, previousOf(@, currentOf(z), i), i)]

\* sysKillThread; the main thread takes its process with it.
sysKillThread(i) ==
  /\ Runs /\ i \in Alive(me)
  /\ IF i = 0 THEN Kills(me.pid)
     ELSE IF previousOf(me.next, self, i) = NoSlot THEN Switches(s)
     ELSE Switches(threadRemoved(threadCutOff(s, i), i))

sysJoinThread(i) ==
  /\ Runs /\ i \in Alive(me)
  /\ Switches([becomes(s, "SLEEPING") EXCEPT !.process[s.current].waiting[self] = i])

--------------------------------------------------------------------------------
(* Waiting *)

\* A thread waits in a mutex, a semaphore or a pipe: in user code, or for the
\* heap or the tables of semaphores in the middle of its end.  Bound: a removal
\* in a system call or an interrupt finds the heap's mutex free.
MayBlock == Runs \/ At("clean") \/ At("delete")

Block == MayBlock /\ Switches(becomes(s, "BLOCKED"))

\* It is let through by the thread on the processor, if the ring leads to it.
Unblock(slot, i) ==
  /\ MayBlock
  /\ s.process[slot] # NULL /\ s.process[slot].state[i] = "BLOCKED"
  /\ Keeps(changeThreadState(s, s.process[slot].pid, i, "READY"))

\* The state of foreground->currentThread, if that process is in the ring.
foregroundState ==
  {s.process[slot].state[s.process[slot].currentThread] :
     slot \in {i \in Met(s) : s.process[i].pid = s.foreground}}

\* sysRead of the keyboard with nothing to read: blockRead, or from the
\* background a wait for whoever wakes the thread.
sysRead ==
  /\ Runs
  /\ Switches(IF s.foreground = me.pid THEN becomes(s, "BLOCKED")
              ELSE becomes(goesOn(s, [at |-> "read"]), "BLOCKED"))

\* A reader from the background runs again: there is something to read now, or
\* it calls blockRead, which blocks the foreground's current thread.
ReadOn ==
  /\ At("read")
  /\ \/ Keeps(goesOn(s, User))
     \/ \E state \in foregroundState \ {"BLOCKED"} :
          /\ s' = nextProcess(changeForeground(s, "BLOCKED"))
          /\ disturbed' = (disturbed \/ state = "SLEEPING")
          /\ UNCHANGED <<made, overtaken>>

\* Enter: writeBuffer calls unblockRead.
unblockRead ==
  Works /\ "BLOCKED" \in foregroundState /\ Keeps(changeForeground(s, "READY"))

--------------------------------------------------------------------------------
(* callProcess: the end of a thread whose function has come back *)

\* The ring that the ending thread leaves: the processes' if it is the main
\* thread, its process's otherwise.
ring == IF self = 0 THEN s.next ELSE me.next
place == IF self = 0 THEN s.current ELSE self

Search == [at |-> "search", previous |-> place, here |-> ring[place], first |-> ring[place]]

\* The arguments and the stacks have been freed: a wait for the heap in one of
\* these frees is a Block before this step.
Return ==
  /\ Runs
  /\ Keeps(goesOn(s, IF self = 0 THEN [at |-> "orphans", hops |-> 0, here |-> s.current]
                     ELSE Search))

\* killProcess: changeChildrenToOrphan, one turn of its loop.
Orphans ==
  /\ At("orphans")
  /\ Keeps(IF stage.hops < s.quantity
           THEN goesOn(orphaned(s, stage.here, me),
                       [stage EXCEPT !.hops = @ + 1, !.here = s.next[stage.here]])
           ELSE goesOn(s, [at |-> "foreground"]))

HandOver ==
  /\ At("foreground")
  /\ Keeps(goesOn(handedOver(s, me),
                  [at |-> IF s.foreground = me.pid THEN "wake" ELSE "clean"]))

Wake == At("wake") /\ Keeps(goesOn(changeForeground(s, "READY"), [at |-> "clean"]))

\* removePidFromMutexes and removePidFromSemaphores: whoever of the process
\* waits in a list is READY.  Bound: it has made no mutex and no semaphore.
Clean ==
  /\ At("clean")
  /\ \E listed \in SUBSET {i \in ThreadSlots : me.state[i] = "BLOCKED"} :
       Keeps(goesOn([s EXCEPT !.process[s.current].state =
                       [i \in ThreadSlots |-> IF i \in listed THEN "READY" ELSE @[i]]],
                    Search))

\* removeProcess, terminateThread: one turn of the search.
SearchOn ==
  LET next == ring[stage.here]
      found == IF self = 0 THEN s.process[stage.here] # NULL /\ s.process[stage.here].pid = me.pid
               ELSE stage.here = self
  IN /\ At("search")
     /\ Keeps(goesOn(s, IF found THEN [at |-> "cut", previous |-> stage.previous]
                        ELSE IF next = stage.first THEN [at |-> "yield"]
                        ELSE [stage EXCEPT !.previous = stage.here, !.here = next]))

Cut ==
  /\ At("cut")
  /\ LET z == goesOn(s, [at |-> "delete"])
     IN Keeps(IF self = 0 THEN [z EXCEPT !.next = linkedAround(@, stage.previous, place)]
              ELSE [z EXCEPT !.process[s.current].next = linkedAround(@, stage.previous, place)])

\* deleteProcess, deleteThread: the heap lets it through.
Delete == At("delete") /\ Keeps(goesOn(s, [at |-> "empty"]))

Empty ==
  /\ At("empty")
  /\ Keeps(IF self = 0 THEN [emptied(s, s.current) EXCEPT !.last = "quantity"]
           ELSE threadEmptied(goesOn(s, [at |-> "unlock"]), self))

Count == At("quantity") /\ Keeps([counted(s) EXCEPT !.last = "first"])

First == At("first") /\ Keeps([freeFirst(s, s.current) EXCEPT !.last = "yield"])

\* unlockWaitingThreads, one thread after the other.
Unlock ==
  /\ At("unlock")
  /\ LET joined == Joined(me, self)
     IN Keeps(IF joined = {} THEN goesOn(s, [at |-> "yield"])
              ELSE woken(s, s.current, {Min(joined)}))

\* A thread that did not find itself in its ring, and therefore comes back
\* here, returns from callProcess to nowhere and may do anything.
Yield ==
  /\ At("yield")
  /\ Switches(IF me = NULL THEN s ELSE goesOn(s, User))

Next ==
  \/ Tick \/ killForeground \/ sysAddThread
  \/ Block \/ sysRead \/ ReadOn \/ unblockRead
  \/ Return \/ Orphans \/ HandOver \/ Wake \/ Clean \/ SearchOn \/ Cut
  \/ Delete \/ Empty \/ Count \/ First \/ Unlock \/ Yield
  \/ \E background \in BOOLEAN : sysRunProcess(background)
  \/ \E slot \in Used(s) : sysKill(s.process[slot].pid)
  \/ \E i \in ThreadSlots : sysKillThread(i) \/ sysJoinThread(i)
  \/ \E slot \in Slots, i \in ThreadSlots : Unblock(slot, i)

Spec == Init /\ [][Next]_vars

\* The timer interrupts as long as the kernel works: WF_vars(Tick), written
\* out because Tick can be taken in exactly the states in which it works.
FairSpec == Spec /\ ([]<>~Works \/ []<><<Tick>>_vars)

--------------------------------------------------------------------------------
(* Properties *)

Processes ==
  [pid : Nat, ppid : Int, currentThread : ThreadSlots,
   next : [ThreadSlots -> ThreadSlots],
   state : [ThreadSlots -> {"NULL", "READY", "RUNNING", "BLOCKED", "SLEEPING"}],
   waiting : [ThreadSlots -> ThreadSlots \union {NotWaiting}],
   end : [ThreadSlots -> Stages]]

TypeOK ==
  /\ s \in [next : [Slots -> Slots], process : [Slots -> Processes \union {NULL}],
            current : Slots, first : Slots \union {NoSlot}, quantity : 0 .. MaxProcesses,
            quantum : -1 .. QUANTUM, foreground : Nat, nextPid : Nat,
            last : {"none", "quantity", "first", "yield"}, down : BOOLEAN]
  /\ made \in 0 .. MaxMade /\ overtaken \in 0 .. MaxOvertaken + 1 /\ disturbed \in BOOLEAN

IsRing(next, members, from, size) ==
  LET w == Walk(next, from)
  IN /\ {w[n] : n \in 0 .. size - 1} = members
     /\ w[size] = from /\ Cardinality(members) = size

\* As long as no thread lost the processor in the middle of its end: whenever
\* user code runs, the links of the processes run once through all of them and
\* back, as many as processQuantity says, and each process's links through its
\* threads, over any sequence of arrivals, kills and ends; the slot for the
\* next arrival is empty (scheduler.c:75-128, process.c:87-101, threads.c:20-42).
RingsSound ==
  (~s.down /\ overtaken = 0 /\ stage.at = "user") =>
    /\ IsRing(s.next, Used(s), s.current, s.quantity)
    /\ s.first \in Slots => s.process[s.first] = NULL
    /\ \A slot \in Used(s) :
         LET p == s.process[slot] IN IsRing(p.next, Alive(p), 0, Cardinality(Alive(p)))

\* Two threads never run at once: the thread that is RUNNING is the current
\* one of the current process, although states are changed from everywhere
\* and an end may be overtaken anywhere (scheduler.c:36-51, 179,
\* threads.c:91-97).
OneRunning ==
  \A slot \in Slots, i \in ThreadSlots :
    (s.process[slot] # NULL /\ s.process[slot].state[i] = "RUNNING") =>
      slot = s.current /\ i = s.process[slot].currentThread

SlotOf(pid) == {slot \in Used(s) : s.process[slot].pid = pid}
Parents(pids) == {s.process[slot].ppid : slot \in UNION {SlotOf(pid) : pid \in pids}}

\* The foreground process, its parent, the parent of that one, ...
Line ==
  LET up[n \in 0 .. MaxProcesses] ==
        IF n = 0 THEN {s.foreground} ELSE up[n-1] \union Parents(up[n-1])
  IN up[MaxProcesses]

\* Asleep until a child gives the foreground back.
AsleepForChild(p) == \E i \in Alive(p) : p.state[i] = "SLEEPING" /\ p.waiting[i] = NotWaiting

\* The way back to the shell is not lost, whoever is killed in the middle: as
\* long as no thread lost the processor in the middle of its end, the
\* foreground process is alive, and its line of parents leads to the shell
\* while that lives; and as long as nobody else's sleeper was disturbed, every
\* process that sleeps for a child is on that line, above the foreground
\* (scheduler.c:171-197, sysCalls.c:166-178).
ForegroundReturns ==
  (~s.down /\ overtaken = 0 /\ stage.at = "user") =>
    /\ SlotOf(s.foreground) # {}
    /\ SlotOf(Shell) # {} => Shell \in Line
    /\ ~disturbed => \A slot \in Used(s) : AsleepForChild(s.process[slot]) =>
         s.process[slot].pid \in Line \ {s.foreground}

\* Whoever has joined a thread waits for one that is still there, and will be
\* woken by its end: by its stage "unlock" at the latest, if the thread does
\* not lose the processor in the middle of its end (threads.c:41, 72-89).
JoinedIsAlive ==
  (overtaken = 0 /\ ~disturbed) =>
    \A slot \in Used(s) : LET p == s.process[slot] IN
      \A i \in Alive(p) :
        (p.state[i] = "SLEEPING" /\ p.waiting[i] # NotWaiting) =>
          \/ p.waiting[i] \in Alive(p)
          \/ slot = s.current /\ self = p.waiting[i] /\ stage.at = "unlock"

\* The threads to which the rings lead from where the processor is, and which
\* are ready.
InTurn(slot, i) ==
  LET p == s.process[slot]
      w == Walk(s.next, s.current)
      v == Walk(p.next, p.currentThread)
  IN /\ p # NULL
     /\ p.state[i] = "READY"
     /\ \E n \in Steps(s.next) : w[n] = slot
     /\ \E n \in Steps(p.next) : v[n] = i

\* No thread is ready, with the rings leading to it, for ever: it gets the
\* processor, also after the processor was taken from another in the middle of
\* its end, unless it is killed or cut off from the rings before, the kernel
\* goes down or the bound on such losses is reached (scheduler.c:44-51,
\* threads.c:57-70).
ReadyRuns == \A slot \in Slots, i \in ThreadSlots : []<>(~InTurn(slot, i) \/ ~Works)
================================================================================
