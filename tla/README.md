# TLA+ for Complex-OS

Complex-OS is three pieces of course work on operating systems: an md5 farm of
Unix processes (TP1), a small 64-bit kernel with its programs (TP2) and a
client and server over sockets (TP4).  This directory holds TLA+ models of the
parts where processes and threads meet, what TLC checks of them on small
instances, and what TLAPS proves of them for instances of any size.

## Inventory

### TP1, the md5 farm

| part | state | operations | meets the others through |
|---|---|---|---|
| application (`application.c`, `applicationLib.c`) | counters of distributed and finished files, per slave `pid` and `remainingFiles`, index into the segment | create slaves, distribute a batch, select and collect lines, publish, set the end flag, stop the slaves, remove the IPC objects | two pipes per slave, the segment, the semaphores |
| slave (`slave.c`) | the message it is reading | read a name, run md5sum, end at `STOP_CODE` | its two pipes |
| view (`view.c`) | index into the segment | attach, wait for a line, print it, end at the flag, remove the semaphores | segment and semaphores |
| shared memory and semaphores (`sharedMemory.c`) | a System V segment, a set of two semaphores | create, change, remove | used by application and views |
| file list (`fileListParser.c`) | the names | keep the arguments that are files | called once by the application |

Hard: three kinds of processes, each of which may be anywhere when another ends;
failures of `fork`, `exec` and `md5sum`; semaphores that a view removes under
the application's feet, with `semop` errors ignored; a segment that fills up.
Correct means: each file hashed and reported once, slaves stopped once and
behind their work, no reading during a write, views that print complete lines
in order, and everybody ends.

### TP2, the kernel

| part | state | operations | meets the others through |
|---|---|---|---|
| mutexes (`mutex.c`, `testAndSetLock` in `libasm.asm`) | a table of named mutexes with creator, holder, list and number of waiters | get, create, release, down, up, clean-up after a kill | `changeThreadState`, `yield`; used by all below |
| heap (`buddyMemoryAllocator.c`) | a binary tree of marks over the pages | allocate, free, reallocate (never called) | mutex 0, which it shares with the mutex table |
| semaphores (`semaphore.c`) | a table like the mutexes', a value each | get, create, release, wait, signal, set value, clean-up | one mutex per semaphore |
| pipes (`pipes.c`) | ring buffers of one page | create, write, read, delete | two semaphores and a mutex each, the heap |
| channels (`channels.c`) | list of channels, two message lists each | create, send, receive, delete | four semaphores each, the heap |
| scheduler (`scheduler.c`) | ring of processes, current, quantum, foreground | add, remove, next, kill, block and unblock a reader | interrupts, threads |
| processes and threads (`process.c`, `threads.c`) | ring of threads per process, who waits for whom | create, end, wait for a thread | scheduler, heap |
| timer (`timer.c`) | list of sleepers | sleep, tick | timer interrupt |
| keyboard, terminal | read buffers | key, read, write | interrupts, `blockRead` |
| video, console, clock, interrupts, memory map, module loader, library | hardware and layout | | |
| userland: C library, shell, ProdCons, PipeProdCons, Snek, small programs | | clients of the system calls | `int 80h` |

Hard: a system call runs with interrupts off until it blocks, and continues
later in a world that has changed; the lock is handed over to a thread that is
not running yet; early returns that keep a mutex; tables whose slots are
reused; the end of a thread, which runs in many steps with interrupts on; the
allocator's marks, which are right or wrong only many calls later.
Correct means: mutual exclusion, no lost wakeup, counters that agree with
their lists; semaphores that neither lose a permit nor use one twice; pipes that
keep the order of their bytes; rings that stay whole, one thread running, every
ready thread scheduled; no page given out twice, no free page lost.

### TP4

A server in front of sqlite, a client and a socket library.  Not modelled.
sqlite, Pure64 and BMFS are third-party code.

`PROJECT.json` lists every part with its status, and the hazards, each at its
line of source.

## The modules

| module | models |
|---|---|
| `Md5Farm` | the whole of TP1's farm; `MC_Md5Farm` for TLC, `Md5FarmProofs` for TLAPS |
| `Lock` | abstract: what one mutex promises |
| `MutexTable` | the table of kernel mutexes and the functions of `mutex.c`, as operators; `MutexTableProofs` says what each of them keeps |
| `Mutex` | the system calls on the mutexes, over `MutexTable`; `MC_Mutex` for TLC, `MutexProofs`, `MutexExclusion` and `MutexPromises` for TLAPS |
| `CountingSemaphore` | abstract: what one semaphore promises |
| `Semaphore` | the kernel's semaphores and the system calls on them, over `MutexTable`; `MC_Semaphore`, `SemaphoreProofs` |
| `Fifo` | abstract: a bounded queue of bytes |
| `Pipe` | the kernel's pipes, over semaphores that keep `CountingSemaphore`'s promise; `MC_Pipe`, `PipeProofs` |
| `Scheduler` | scheduler, processes and threads with the system calls and interrupts that move them; `MC_Scheduler` |
| `Timer` | the list of sleeping threads; `MC_Timer` |
| `BuddyAllocator` | the kernel's heap over a mutex that keeps `Lock`'s promise; `MC_BuddyAllocator` |
| `MinMax` | two lemmas on the least and the greatest element of a set, for the proofs |

*Composition.*  `Mutex` and `Semaphore` extend `MutexTable`: a semaphore takes
its own mutex, the table's (`semaphoreMutex`) and `adminMutex` as the code
does, and threads of both kinds block in the same table.  From there upwards the
layers meet at promises: `Pipe` uses of a semaphore what `Semaphore` is shown to
keep (`SemaphoresCount`), `BuddyAllocator` uses of mutex 0 what `Mutex` is shown
to keep (`AdminIsALock`).  `Scheduler` has the blocking of a thread as one action
(`Block`) and its wakeup as another (`Unblock`), whoever causes them; `Mutex` and
`Semaphore` have in turn of the scheduler the two facts they depend on, that a
READY thread goes on where it stopped and that a BLOCKED one does not, unless
nobody is ready (`IdleReady`, `forced`).

### Md5Farm

One action per stretch of code between two points where another process can
see or change shared state.  `pc` is the place in `main` of the application,
`slavePc` and `viewPc` those of the others.  A file is its index; the line of
file k is `MsgLen` cells holding k, then a NUL.  Pipes are sequences: a line and
a name fit into a pipe's atomic write.  The two writes of `stopSlave` are one
message, because the slave only acts on the NUL.

- *Semaphores.* `SemWait` and `SemPost` are `changeSemaphore`.  On a set that
  was removed `semop` fails and the error is ignored, so both become steps
  without effect that do not wait.
- *Faults* names the failures of the environment that may happen: `fork` (the
  application interrupts its slaves and exits, the IPC objects stay), `exec`
  (the slave exits, its pipe breaks), `md5sum` (no line is printed).
- *Late views.* `IPC_CREAT` makes a new segment or a new set when the farm's is
  gone; then the view is on a `"fresh"` object.  A semaphore of a fresh set is
  0, so the first wait never returns.
- *The end of the segment.* `MapSize` is what is mapped (whole pages), `ShmSize`
  what the application writes.  A view that finds no NUL in what is mapped
  dies, inside its critical section.

### MutexTable and Mutex

The table is one record `k`, with a function on slots for each field of
`mutex_t`; each function of `mutex.c` is an operator from such a record to the
next, so that the order of calls inside a system call stays visible.  The
kernel runs on one processor, with interrupts off inside `int 80h`: a system
call is a single step, until `mutexDown` blocks and yields.  What is left of it
waits in `call[t]` and is done by `Resume(t)`.

Details of the code that the model keeps:

- after `setupMutexSystem` the first free slot is 0, so the heap's mutex is
  created in the slot of `adminMutex`: they are one mutex;
- `usedMutexes` starts at 1 and is never brought down, so it is one more than
  the slots in use once the kernel has made its three;
- `getMutex` returns a mutex it found without unlocking `adminMutex`;
- `testAndSetLock` exchanges 64 bits at a 32-bit field and clears `creator.pid`
  of the next slot;
- `createMutex` copies a name without its NUL: `overlay` keeps the old tail;
- `releaseMutex` leaves the value and the name of the slot as they are;
- `nextProcess` goes on with the current thread, blocked or not, when no other
  is ready.

`(pid, thread)` is one member of `Threads`; pid 0 is `Kernel` (the kernel
numbers processes from 1).  The kernel's own mutexes have names that the
programs' names do not contain; in the model they have the empty name, and
`Names` has no empty one.  When `firstAvailableMutex` is `FULL_LIST`, the code
writes below the table; the model lets that write leave the table alone.

### Semaphore

The table of semaphores is a second record, `sem`.  A call blocks in up to three
places, and what is left of it is kept by name: `"get"` and `"release"` wait for
`semaphoreMutex`, `"named"` and `"freed"` for `adminMutex` inside `getMutex` and
`releaseMutex`, `"wait"` and `"signal"` for the semaphore's own mutex, and
`"asleep"` is a thread blocked by `wait` itself.  `Continue` does what is left, in
the table as it is by then.  The model keeps that `wait` marks its thread BLOCKED
before it gives the mutex back, that a slot is reused with the value and the
list it had, that a failing `getMutex` leaves a valid and uncounted slot with its
last owner's mutex, that `getSemaphore` returns a semaphore it found without
`mutexUp(semaphoreMutex)`, and that `releaseSemaphore` with a thread in the list
never ends (`hung`).  `signalled` and `passed` are history: the calls of `signal`
and the calls of `wait` that came back.

### Pipe

A call moves one byte per turn of its loop: a wait, the byte, a signal.  `busy` is
the thread inside a system call; only the waits let another in.  An address is
a page and an offset, and `memory` holds the bytes that pipes can reach.  Both
indices run over one cell more than the buffer has (`nextRead`, `nextWrite`), as the
code compares with the length before the increment: that cell (`Cell`) is the
first byte of the next page, which can be the buffer of the next pipe, or
anybody's (`OthersWrite`).  `sysOpenPipe` ignores what fails, as `createPipe` does:

- `createSemaphore` may fail; then the semaphore is not valid and its waits and
  signals do nothing;
- a semaphore that is made keeps the value of its slot's last owner; `semWrite`
  is then set to the length, `semRead` is not (`stale`);
- `allocatePages` may fail; then the buffer is at NULL (`LowMemory`), where all
  such pipes meet.

`sysClosePipe` passes its handle as pipe number, as `deletePipe` is called, and the
calls on the closed pipe go on with what they have.  `sent` and `received` are
history: the bytes written and read while the pipe was open; `owner` is who wrote
last at an address.

### Scheduler

The record `s` has the ring of process slots, in each slot a process with its
own ring of threads, and the statics of `scheduler.c`.  `nextProcess`,
`nextThread`, `addProcess`, `killing`, `removed` and the rest are operators on
it; the walks along rings are the functions `Walk`.  `nextThread` returns `Endless`
where the code's loop never meets its first thread again.

System calls and interrupts run with interrupts off and are one step.  The end
of a thread (`callProcess`) runs with interrupts on, and is as many steps as it
has reads and writes of what is shared, with `Tick`, a key and every other thread
in between.  Each thread carries the stage of its end (`end`), with what the code
has in its locals there:

| stage | action | code |
|---|---|---|
| `user` | `Return` | the function comes back, `process.c:44-53` |
| `orphans` | `Orphans`, a turn of the loop each | `scheduler.c:187-197` |
| `foreground`, `wake` | `HandOver`, `Wake` | `scheduler.c:176-179` |
| `clean` | `Clean`: whoever is in a list of the process is READY | `scheduler.c:181-182` |
| `search` | `SearchOn`, a turn of the loop each | `scheduler.c:97-117`, `threads.c:22-37` |
| `cut` | `Cut`, with the `previous` found | `scheduler.c:119`, `threads.c:38` |
| `delete` | `Delete`, or a `Block` on the heap's mutex first | `scheduler.c:120`, `threads.c:39` |
| `empty` | `Empty` | `scheduler.c:121`, `threads.c:40` |
| `quantity`, `first` | `Count`, `First` (a process) | `scheduler.c:122-123` |
| `unlock` | `Unlock`, a waiter each (a thread) | `threads.c:72-81` |
| `yield` | `Yield` | `scheduler.c:125-127`, `process.c:54` |

When the slot of the ending process is empty already, the stage is `s.last`.
A thread that lost the processor between `cut` and its `yield` is out of its ring
and is never run again, with a slot that stays used and joiners that are not
woken: the code does that, and the model too.  `overtaken` counts how often the
processor was taken from a thread in the middle of its end.

`sysRunProcess` puts to sleep whoever is the foreground, not the caller;
`disturbed` is history and marks where this, or a background reader's `blockRead`,
meets a sleeper that waits for something else.  Where the code indexes
`processes[-1]` (`setForeground` for a process that is gone, `addProcess` in a table
that was full once) the model stops (`astray`).

### Timer

`list` is the table of sleepers with its links; `decrementTicks` and
`removeSleepingProcess` are recursive operators that walk as the loops do, with
`sleeping` going down under the walk.  `due` is history: the ticks a thread has
still to sleep.

### BuddyAllocator

A pointer is a page number.  `memoryBase` is a function of the node: the code
fills its table on the way down, each entry before it is first used and always
with the same value.  `getPagesRecursive` is stated as what it finds (the
leftmost unused node on the level, with no full or allocated node above) and
what it does on the way back up (`markParent`, folded along the path);
`freeMemoryRecursive` is `refresh` folded along the path.  The mutex is taken by
its promise, `Lock`, which module `Mutex` is shown to keep for slot 0; `Others`
stands for all threads that hold it for other purposes (`getMutex`,
`releaseMutex`).  `freeMemory` asks `isAllocatedPage` before it has the mutex and
nothing afterwards, whoever owns the page.

The code's `log2` rounds an odd number up and an even one down, so that a
request for 6, 10, 12, ... pages gets too small a block.  The model keeps this,
the run `buddy_tree` makes such a request, and `NoOverlap` claims a large enough
block only where `log2` rounds up.

## The runs

| run | instance | shows |
|---|---|---|
| `farm_safety` | 2 slaves, up to 4 files, batches of 2, 2 views, all faults, a segment of two lines and a half | `TypeOK`, `EachFileOnce`, `NoReadDuringWrite`, `ViewFollowsOutput` |
| `farm_live` | 2 slaves, up to 5 files, batches of 2, 1 view, `fork` may fail | `StopsCleanly`, `NoBrokenPipe`, `RemainingIsInFlight`; under fairness `FarmEnds`, `SlavesEnd`, `ViewEnds` |
| `farm_view` | 2 slaves, 2 files, 1 view, no fault | violated: `ViewShowsAll` |
| `mutex_exclusion` | 3 threads, 3 kernel mutexes and room for 2 more, 2 names, another thread always ready | `MutualExclusion`, `UniqueNames`, `AdminIsALock` (refinement of `Lock`) |
| `mutex_wakeup` | 2 threads, nobody else ready | `TypeOK`, `CountMatches`, `NoLostWakeup` |
| `mutex_creator` | 2 threads | violated: `CreatorKept` |
| `semaphore_table` | 3 threads, 7 mutex and 4 semaphore slots, 2 names, semaphore 0, mutex 3 | `TypeOK`, `ValueCountsWaiters`, `PermitsConserved`, `SleepersListed`, `SemaphoresCount` (refinement of `CountingSemaphore`) |
| `pipe_fifo` | 3 threads, 1 pipe, a buffer of 2 bytes, messages of up to 3, semaphores that fail or keep a permit, a page that may be NULL | `TypeOK`, `PermitsAreBytes`, `PipesAreFifos` (refinement of `Fifo`) |
| `pipe_pages` | 2 threads, 2 pipes with data on pages 1 and 2 | `SpoiltOnlyAtEnds`, `PipesAreFifos` |
| `scheduler_turns` | 4 process slots, 3 thread slots, 2 arrivals, one end overtaken | `TypeOK`, `RingsSound`, `OneRunning`, `ForegroundReturns`, `JoinedIsAlive`; under fairness `ReadyRuns` |
| `timer_late` | 2 sleepers | violated: `SleepsItsTicks` |
| `buddy_tree` | 1 thread, 8 pages of 2 bytes, requests of 0 to 9 pages | `TypeOK`, `NoOverlap`, `MarksTrue`, `Coalesced` |

*Bounds.*

- *Farm.*  Two slaves and four or five files are enough for a slave to be
  refilled, for one to be stopped by `distributeFiles` while the other still
  works, and for one to be stopped by `stopSlaves`; more slaves only add copies.
  Two views are enough for one to remove the semaphores that the other uses.
- *Mutexes.*  `Handles` are the mutex numbers that programs pass: 0 (kernel and
  heap) and 3 (the first of the users').  `MaxBlocked` is 2 and guards keep
  threads away from a full list, where the code would kill them.  Two names,
  one of them longer than the other, make a reused slot mix them.
- *Semaphores.*  Programs wait for and signal semaphore 0 while others are made
  around it, and lock mutex 3, which is the mutex of semaphore 0: the two kinds
  of waiting meet in one mutex.  Each semaphore is signalled once; three
  threads then still wait, are woken, release, and reuse the slot.
- *Pipes.*  Messages are longer than the buffer, so that a writer sleeps in the
  middle of one; at most `MaxSent` bytes go through a pipe, twice the buffer, so
  that both indices come round.  In `pipe_fifo` handle 3 carries the data of pipe
  0 and handle 0 closes it, one reader and two writers or the reverse meet in it,
  and a semaphore may have failed or have one permit too many.  In `pipe_pages`
  handles 3 and 4 carry data, and either pipe may lie on the page before the
  other.  A pipe is opened once: a second owner would find the old mutex name,
  with which `getMutex` keeps `adminMutex`, and the next allocation waits for
  itself.  So no pipe is opened after a close, and the semaphores of a closed
  pipe are not made anew while calls on it are left.  What goes through a pipe
  after its close is not recorded, and nothing is claimed of it.
- *Scheduler.*  `QUANTUM` 0 puts the timer between any two steps.  Two slots are
  free at start-up, so the table fills up, and the next process after that is
  written below it (`astray`).  `MaxOvertaken` 1: every state is reached that one
  loss of the processor in the middle of an end leaves behind, and everything that
  follows up to a second one, behind which nothing is modelled.  `RingsSound`,
  `ForegroundReturns` and `JoinedIsAlive` are claimed while there was none
  (`overtaken = 0`), `OneRunning` and `ReadyRuns` throughout.  `ReadyRuns` speaks of the
  threads that the rings reach: those a lost end has stranded are READY for ever.
  `sysKill` is not called for init, so a thread is always ready and the ring never
  has one process only (`scheduler.c:104-110`); the shell may be killed, by a call
  or by ctrl-c.  A thread that ends has made no mutex and no semaphore.  A removal inside a system call or an interrupt finds
  the heap's mutex free; one in `callProcess` may wait for it.  A walk of
  `getProcessIndex` in `callProcess` is one step.  Contents of stacks that were
  freed under a running thread are not modelled.
- *Heap.*  Eight pages give a tree of four levels: every mark on a node with
  marks above and below it.

*Deadlock.*  The farm ends, or waits for a file that md5sum could not read; a
thread that calls `getMutex` or `getSemaphore` for a name it knows keeps a mutex
and may wait for itself; a kernel that is `hung`, bytes at their bound, and a
read of an empty pipe that nobody will write have no next step.  So the runs of
`Md5Farm`, `Mutex`, `Semaphore`, `Pipe` and `Scheduler` do not check for deadlock.
The run of
`BuddyAllocator` does.

*Fairness.*  `FairSpec` of the farm: weak fairness for the application, each
slave and each view once it is attached, as a Unix scheduler gives every
runnable process the processor.  None for the user's `y` and the start of a
view.  A waiting process needs no strong fairness: a view takes the mutex of
the segment only after a line was published, so the others cannot take it for
ever.  `FairSpec` of the scheduler: only the timer is fair, because hardware
interrupts a working kernel for ever; nothing is assumed of the programs.  It
is written as `[]<>~Works \/ []<><<Tick>>_vars`, which is `WF_vars(Tick)` since
`Tick` is enabled exactly in the states in which the kernel works.

*Mutants.*  Each property has a plausible slip of the code (operators with a
comment `Slip`) under which TLC finds it violated.

### What disagrees

- `farm_view`: the report (`TP1/informe.pdf`, page 3) says that the counting
  semaphore holds the view only when there are no more files to show.  The
  application sets the flag as soon as it has published its last line, and the
  view looks at the flag first: a slow view ends with lines unprinted.
- `mutex_creator`: `testAndSetLock(int *)` is declared on one `int`; it
  exchanges eight bytes, the last four of which are the next mutex's creator.
  The thread that made that mutex cannot release it any more.
- `timer_late`: `removeSleepingProcess` never moves `first`, and every new sleeper
  becomes the first.  When the thread that came last wakes before an older one,
  `first` names its empty slot, the loop over the list is one turn too short,
  and the older thread's counter stands still.

## The proofs

All theorems hold for every value of the constants under the named assumptions
of the modules (`FarmAssumption`, `MutexAssumption`, `HandlesAssumption`,
`SemaphoreAssumption`, `PipeAssumption`).

*Farm* (`Md5FarmProofs`)

- `TypeCorrect`: `Spec => []TypeOK`.  `TypeOK` is inductive; it includes that `i`
  is a slave outside `create` and that `distributedFiles <= numOfFiles`, which
  the batch size preserves.
- `SegmentExclusion`: `Spec => []NoReadDuringWrite`.  As long as the set lives, the
  mutex plus the number of processes inside is one (`OneInside`); once it is
  gone waits return at once, so exclusion needs the other half: the set is
  removed only by the application at its end or by a view that has seen the
  flag, and when the flag is set the application has done its last write
  (`FlagLast`).
- `PipesHold` and `SlavesStopOnce`: `Spec => []NoBrokenPipe` and
  `Spec => []StopsCleanly`.  As long as files are left nobody is stopped; every slave
  is `Served` (it runs, its pipe holds files only) or `Told` (one `STOP_CODE` lies
  last in its pipe, or it took it and went, leaving nothing); and the slaves that the
  loop of `distributeFiles` has still to reach are `Served` (`StopInv`).
- `FilesOnce` and `RemainingCounts`: `Spec => []EachFileOnce` and
  `Spec => []RemainingIsInFlight`.  A file is in at most one place (`OnePlace`), the
  files that are somewhere are those handed out (`AllGiven`), and the line that
  `slaveListener` works on is in `md5Hash.txt` already (`Written`).  A step moves one
  file from a place to another (`OneMoved`) or hands out a batch of new ones to a
  slave that has none left (`FilesGiven`).
- `ViewsFollow`: `Spec => []ViewFollowsOutput`.  Line n lies in its cells and a NUL
  ends it, as far as the segment goes (`Layout`); a view stands behind the last line
  it printed, and what it printed or may take with semaphore 1 never exceeds
  `finishedFiles` (`Follows`).  As long as the flag is down the set of semaphores lives
  (`FlagLast`), so the line it looks for has been published, and the NUL at which it
  stops is the one of that line (`LineRead`).

*Mutexes* (`MutexTableProofs`, `MutexProofs`, `MutexExclusion`, `MutexPromises`)

- `MutexTableProofs` follows one predicate through every function of `mutex.c`:
  `Sound(s, X)`, that the table `s` has its types, counts agree with lists, nobody
  waits for a free mutex, and every blocked thread but those of `X` is in a list.
  `X` is empty for `Mutex`; for `Semaphore` it is the threads asleep in `wait`.
- `MutexProofs!TablesSound`, from which `MutexTypes` (`[]TypeOK`), `CountsMatch`
  (`[]CountMatches`) and `WakeupsKept` (`[]NoLostWakeup`).
- `MutexExclusion!Exclusion`: `Spec => []MutualExclusion`.  A thread is in the
  list of at most one mutex, at one place, and only while it is blocked; a woken
  thread is `lockProcess` of what it waited for; so is a thread inside.
- `MutexPromises!NamesUnique`: `Spec => []UniqueNames`.  A mutex that a thread made
  and that was not released is valid, a slot never used has no name, and the next
  slot is nobody's (`Named`): so a name that `getMutex` does not find is nobody's,
  and the slot it goes to keeps nothing of an older one.
- `MutexPromises!AdminImplementsLock`: if another thread is always ready
  (`IdleReady`), `Spec => AdminIsALock`.  Then no thread is ever `forced`, which makes
  the exclusion of `MutexExclusion` hold without condition; a locked `adminMutex` has
  a holder, and every function of `mutex.c` takes a step of `Lock` or none
  (`LockStep`).

*Semaphores* (`SemaphoreProofs`)

- `SemaphoresSound`: the inductive invariant `Good(sem, k, call, signalled, passed)`.
  It says three things.  *Mutexes*: the table is `Sound` but for the sleepers of
  semaphores, and the list of a mutex holds only threads whose call waits for a
  mutex.  *Semaphores*: values count waiters, a thread is in one place of one
  list, and whoever is in a list is blocked.  *Balance*: what was signalled is what
  was passed, what is under way to woken threads, and what is left in the value.
  There is one lemma per piece of a call (`Get`, `Named`, `Release`, `Freed`, `Wait`,
  `Signal`, ...), each from a good state to a good state, whatever happened while
  the call was blocked.
- From it `ValuesCount`, `SignalsKept`, `SleepersFound`, and `SemaphoresImplement`:
  every step of the table is, for each slot, a step of `CountingSemaphore` or a
  stutter.

*Pipes* (`PipeProofs`)

- `PipesSound`: the inductive invariant, in three parts.  *Placed*: types; who waits
  for a semaphore of a pipe is asleep in a call on that pipe; a pipe never opened
  is untouched; a pipe with a semaphore is in use.  *Laid*: pipes lie on pages of
  their own, but for those at NULL; the lowest free slot is taken, so none is
  opened after a close.  *Filled(p)*: first the permits, each semaphore for itself
  (`Counted`): if it was made, the bytes inside and the stale permits are the permits
  of `bytes` and the readers already let through, the room left those of `space` and
  the writers already let through.  Then the bytes, if both semaphores were made
  and nothing was stale (`Sound`): the writer is as many cells ahead of the reader,
  on the ring of `LENGTH + 1` cells, as bytes are inside, and each cell between
  holds the byte sent in its place, or another wrote there last (`InOrder`); if p
  has a page of its own, that other can only have been at cell 0 or behind the
  buffer (`EndsOnly`).  `Sound` is needed because a failing or stale semaphore lets a
  reader ahead of the bytes, and then nothing can be said of their order.
- From it `PipeTypes` (`[]TypeOK`), `PermitsKept` (`[]PermitsAreBytes`), `SpoiltAtEnds`
  (`[]SpoiltOnlyAtEnds`) and `PipesFifo` (`Spec => PipesAreFifos`): every step is, for
  each sound pipe, a step of `Fifo`, a stutter, or a read of a spoilt byte.

## Only model-checked

Liveness (`FarmEnds`, `SlavesEnd`, `ViewEnds`, `ReadyRuns`), which is out of the
prover's reach; `TypeOK` of `Semaphore`, because
`used <= MaxSemaphores` needs that a thread between `"get"` and `"named"` is alone
with `semaphoreMutex`; the scheduler's rings and turns (`RingsSound`,
`OneRunning`, `ForegroundReturns`, `JoinedIsAlive` and its `TypeOK`), because every step walks a
ring along its links, a function defined by recursion (induction over data);
everything about the heap, whose operators
are folds along a path (induction over data); the timer, whose walks are
recursive operators.

## Not modelled

- *Channels* (`channels.c`).  After its first message a channel does what the heap
  makes of freed memory: `getNextMessageForPid` pops from a copy of the head, so
  the message received is freed and stays in the list, and the next send
  follows its links.  `deleteChannel` and `removeChannelFromList` call each other
  without end.  No document says what should hold, and a model would be one of
  the heap's contents.
- *The clean-up after a kill* (`removePidFromMutexes`, `removeThreadFromMutexes`,
  and their twins in `semaphore.c`).  `removeThreadFromMutexes` passes a pid where
  `mutexUp` wants a thread, and `releaseMutex` called from the clean-up waits for the
  `adminMutex` its caller holds: what they do is to stop.  With it the full list
  of waiters, which kills the thread that wants the lock.
- *Reuse of memory*: what other owners of a page see after a free or behind a
  pipe's buffer, a second free of an address (the heap is checked with one owner
  of its blocks); `reallocatePages`, which is never called and marked
  `//NOT TESTED`.
- *What a lost end leaves behind*: after the timer took the processor from a
  thread that is out of its ring, rings, joiners and foreground are no longer
  claimed to be sound, only that one thread runs and that every ready thread
  which the rings reach gets its turn.  If that thread had the heap's mutex, it
  has it for ever; `Scheduler` does not say who has it.
- *Terminal and keyboard* beyond what keys do to processes, video, console, clock,
  memory map, module loader, the library: hardware, layout, copying.
- *TP1*: names of files and hashes, messages on the screen, `malloc` and `pipe`
  failing, a `getchar` at end of file.
- *Userland*: programs are whatever makes system calls.
- *TP4*: one process per client in front of sqlite, with no shared state but the
  data base.
- *Third-party code*: sqlite (over nine tenths of the repository's lines), Pure64
  and BMFS.

`PROJECT.json` gives the reason for every part with status `not_modelled`.
