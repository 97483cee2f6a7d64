---------------------------------- MODULE Pipe ---------------------------------
(***************************************************************************)
(* The kernel pipes of TP2 (Kernel/pipes.c) and the system calls on them.  *)
(* Of the two semaphores of a pipe only what CountingSemaphore promises is *)
(* used: permits, and a set of waiters of which a signal wakes any one.    *)
(* A system call runs with interrupts off until it blocks in wait, so      *)
(* `busy` holds the thread inside one and nobody else takes a step; the    *)
(* pipe's mutex is taken and given back between two waits and is never     *)
(* found locked.                                                           *)
(*                                                                         *)
(* An address is a page of the heap and an offset in it.  The cell behind  *)
(* a pipe's buffer, which both indices reach, is the first byte of the     *)
(* next page, and that can be the buffer of another pipe or anybody's.     *)
(***************************************************************************)
EXTENDS Integers, Sequences, FiniteSets, FiniteSetsExt

CONSTANTS
  Threads,     \* the (pid, thread) pairs that use pipes
  Nobody,      \* no thread
  MaxPipes,    \* MAX_PIPES
  LENGTH,      \* PIPE_BUFFER_LENGTH
  Names,       \* the names of pipes
  NoName,      \* the name of a pipe never opened
  Bytes,       \* the values of a byte
  Garbage,     \* what others leave in a page
  Pages,       \* the pages allocatePages gives to pipes; 0 if it may fail
  Messages,    \* bound: what is written in one call (a call without bytes
  Sizes,       \* bound: how much is read in one call     changes nothing)
  MaxSent,     \* bound: the bytes that go through a pipe
  Creations,   \* bound: whether createSemaphore succeeds
  StaleValues, \* bound: what the last owner left in a semaphore
  DataHandles, \* bound: the handles that are read and written
  CloseHandles \* bound: the handles that are closed

ASSUME PipeAssumption ==
  /\ IsFiniteSet(Threads) /\ Nobody \notin Threads
  /\ Garbage \notin Bytes /\ NoName \notin Names
  /\ MaxPipes \in Nat \ {0} /\ LENGTH \in Nat \ {0} /\ MaxSent \in Nat
  /\ Pages \subseteq Nat /\ Creations \subseteq BOOLEAN /\ StaleValues \subseteq Nat
  /\ Messages \subseteq Seq(Bytes) \ {<<>>} /\ Sizes \subseteq Nat \ {0}
  /\ DataHandles \subseteq Int /\ CloseHandles \subseteq Int

Pipes == 0 .. MaxPipes - 1
Cells == 0 .. LENGTH     \* one more than the buffer has: see nextWrite
FirstHandle == 3         \* the handle of pipe 0
LowMemory == 0           \* the page at NULL, where a failing allocatePages puts the buffer
Others == -1             \* in place of a pipe: everybody else

\* Cell i of a buffer in a page.
Cell(page, i) == IF i < LENGTH THEN <<page, i>> ELSE <<page + 1, i - LENGTH>>

Reached == {Cell(page, i) : page \in Pages \union {LowMemory}, i \in Cells}

Idle  == [op |-> "idle"]
Calls == {Idle}
  \union [op : {"write"}, p : Pipes, at : {"wait", "asleep", "granted"}, left : Seq(Bytes)]
  \union [op : {"read"}, p : Pipes, at : {"wait", "asleep", "granted"}, left : Nat]

VARIABLES
  pipe,      \* pipe[p]: name, creator, used, page, readIndex, writeIndex
  memory,    \* the heap's bytes, at the addresses that pipes reach
  space,     \* space[p]: the semaphore semWrite
  bytes,     \* bytes[p]: the semaphore semRead
  call,      \* what is left of each thread's readPipe or writePipe
  busy,      \* the thread inside a system call
  hung,      \* releaseSemaphore loops for ever
  \* history
  opened,    \* the pipes ever opened
  stale,     \* stale[p]: the permits to read that semRead had at its creation
  owner,     \* owner[a]: the pipe that wrote last at a, or Others
  sent,      \* sent[p]: the bytes written while the pipe was open
  received   \* received[p]: the bytes read while the pipe was open

vars == <<pipe, memory, space, bytes, call, busy, hung, opened, stale, owner, sent, received>>

NoSemaphore == [valid |-> FALSE, permits |-> 0, waiters |-> {}]

\* initializePipes.
Init ==
  /\ pipe = [p \in Pipes |-> [name |-> NoName, creator |-> Nobody, used |-> FALSE,
                              page |-> LowMemory, readIndex |-> 0, writeIndex |-> 0]]
  /\ memory = [a \in Reached |-> Garbage]
  /\ space = [p \in Pipes |-> NoSemaphore]
  /\ bytes = [p \in Pipes |-> NoSemaphore]
  /\ call = [t \in Threads |-> Idle]
  /\ busy = Nobody
  /\ hung = FALSE
  /\ opened = {}
  /\ stale = [p \in Pipes |-> 0]
  /\ owner = [a \in Reached |-> Others]
  /\ sent = [p \in Pipes |-> <<>>]
  /\ received = [p \in Pipes |-> <<>>]

--------------------------------------------------------------------------------
isValidPipe(p) == p \in Pipes /\ pipe[p].used

Place(p, i) == Cell(pipe[p].page, i)

\* Both indices move on over LENGTH + 1 cells, the last of them one byte
\* behind the buffer.
\* Slip: the reader stays inside the buffer.
nextReadInside(i) == IF i = LENGTH - 1 THEN 0 ELSE i + 1

nextRead(i)  == IF i = LENGTH THEN 0 ELSE i + 1

\* Slip: the comparison is off by one.
nextWriteBeyond(i) == IF i = LENGTH + 1 THEN 0 ELSE i + 1

nextWrite(i) == IF i = LENGTH THEN 0 ELSE i + 1

\* Slip: a waiter is woken and the permit kept as well.
signalTwice(q) ==
  {[q EXCEPT !.permits = @ + 1, !.waiters = @ \ {t}] : t \in Threads}

\* What signal can make of semaphore q: one waiter leaves, or a permit is kept.
signal(q) ==
  CASE ~q.valid -> {q}
    [] q.valid /\ q.waiters = {} -> {[q EXCEPT !.permits = @ + 1]}
    [] q.valid /\ q.waiters # {} -> {[q EXCEPT !.waiters = @ \ {t}] : t \in q.waiters}

\* Thread t has done one more byte of its call; r of the call is left.
Moves(t, r, done) ==
  /\ call' = [call EXCEPT ![t] = IF done THEN Idle
                                 ELSE [@ EXCEPT !.at = "wait", !.left = r]]
  /\ busy' = IF done THEN Nobody ELSE t

--------------------------------------------------------------------------------
(* The system calls *)

\* Thread t runs user code.
Runs(t) == ~hung /\ busy = Nobody /\ call[t] = Idle

Unused == {p \in Pipes : ~pipe[p].used}

\* createSemaphore: it may fail, and it leaves the value of the last owner.
\* No thread is in the list, since a release with waiters does not end.
Created == [valid : Creations, permits : StaleValues, waiters : {{}}]

\* setValue(semWrite, PIPE_BUFFER_LENGTH).
setValue(q) == IF q.valid THEN [q EXCEPT !.permits = LENGTH] ELSE q

\* The pages of the buffers of the pipes in use.
Taken == {pipe[p].page : p \in {q \in Pipes : pipe[q].used}}

\* getPipe and createPipe.  Bounds: a pipe is opened once; the semaphores of
\* a pipe that was closed are not made anew while calls on it are left.
sysOpenPipe(t, name) ==
  LET p == Min(Unused)
  IN /\ Runs(t)
     /\ \A q \in Pipes : ~(pipe[q].used /\ pipe[q].name = name)
     /\ Unused # {} /\ p \notin opened
     /\ \E page \in Pages \ (Taken \ {LowMemory}) :
          pipe' = [pipe EXCEPT ![p] = [name |-> name, creator |-> t, used |-> TRUE, page |-> page,
                                       readIndex |-> 0, writeIndex |-> 0]]
     /\ \E q \in Created : space' = [space EXCEPT ![p] = setValue(q)]
     /\ \E q \in Created :
          /\ bytes' = [bytes EXCEPT ![p] = q]
          /\ stale' = [stale EXCEPT ![p] = q.permits]
     /\ opened' = opened \union {p}
     /\ UNCHANGED <<memory, call, busy, hung, owner, sent, received>>

Enter(t, c) ==
  /\ Runs(t) /\ isValidPipe(c.p)
  /\ call' = [call EXCEPT ![t] = c]
  /\ busy' = t
  /\ UNCHANGED <<pipe, memory, space, bytes, hung, opened, stale, owner, sent, received>>

sysWrite(t, handle, message) ==
  LET p == handle - FirstHandle
  IN /\ p \in Pipes => Len(sent[p]) + Len(message) <= MaxSent
     /\ Enter(t, [op |-> "write", p |-> p, at |-> "wait", left |-> message])

\* Bound: nothing more is read once MaxSent bytes came out.
sysRead(t, handle, size) ==
  LET p == handle - FirstHandle
  IN /\ p \in Pipes => Len(received[p]) < MaxSent
     /\ Enter(t, [op |-> "read", p |-> p, at |-> "wait", left |-> size])

\* deletePipe takes the handle for the number of the pipe.  A thread in the
\* list of one of the semaphores makes releaseSemaphore loop for ever.
sysClosePipe(t, handle) ==
  /\ Runs(t) /\ isValidPipe(handle) /\ pipe[handle].creator = t
  /\ hung' = (space[handle].waiters # {} \/ bytes[handle].waiters # {})
  /\ pipe' = [pipe EXCEPT ![handle].used = hung']
  /\ space' = [space EXCEPT ![handle].valid = @ /\ hung']
  /\ bytes' = [bytes EXCEPT ![handle].valid = @ /\ hung']
  /\ UNCHANGED <<memory, call, busy, opened, stale, owner, sent, received>>

\* The owners of the other pages write what they like.  What is at NULL is
\* nobody's, and everybody's.
OthersWrite(a) ==
  /\ ~hung /\ busy = Nobody
  /\ a[1] \notin Taken \ {LowMemory}
  /\ memory' = [memory EXCEPT ![a] = Garbage]
  /\ owner' = [owner EXCEPT ![a] = Others]
  /\ UNCHANGED <<pipe, space, bytes, call, busy, hung, opened, stale, sent, received>>

--------------------------------------------------------------------------------
(* The loops of writePipe and readPipe, from one wait to the next *)

At(t, op, at) == call[t] # Idle /\ call[t].op = op /\ call[t].at = at

\* What wait makes of semaphore q and of the place of t in its call.
Waited(q, t) ==
  IF q.valid /\ q.permits = 0
  THEN [sem |-> [q EXCEPT !.waiters = @ \union {t}], at |-> "asleep"]
  ELSE [sem |-> IF q.valid THEN [q EXCEPT !.permits = @ - 1] ELSE q, at |-> "granted"]

Waits(t, w) ==
  /\ busy = t
  /\ call' = [call EXCEPT ![t].at = w.at]
  /\ busy' = IF w.at = "asleep" THEN Nobody ELSE t
  /\ UNCHANGED <<pipe, memory, hung, opened, stale, owner, sent, received>>

WriteWait(t) ==
  /\ At(t, "write", "wait")
  /\ LET p == call[t].p
         w == Waited(space[p], t)
     IN Waits(t, w) /\ space' = [space EXCEPT ![p] = w.sem]
  /\ UNCHANGED bytes

ReadWait(t) ==
  /\ At(t, "read", "wait")
  /\ LET p == call[t].p
         w == Waited(bytes[p], t)
     IN Waits(t, w) /\ bytes' = [bytes EXCEPT ![p] = w.sem]
  /\ UNCHANGED space

WriteByte(t) ==
  /\ busy = t /\ At(t, "write", "granted")
  /\ LET p == call[t].p
         a == Place(p, pipe[p].writeIndex)
         rest == Tail(call[t].left)
         b == Head(call[t].left)
     IN /\ memory' = [memory EXCEPT ![a] = b]
        /\ owner' = [owner EXCEPT ![a] = p]
        /\ pipe' = [pipe EXCEPT ![p].writeIndex = nextWrite(@)]
        /\ \E q \in signal(bytes[p]) : bytes' = [bytes EXCEPT ![p] = q]
        /\ sent' = IF pipe[p].used THEN [sent EXCEPT ![p] = Append(@, b)] ELSE sent
        /\ Moves(t, rest, rest = <<>>)
  /\ UNCHANGED <<space, hung, opened, stale, received>>

ReadByte(t) ==
  /\ busy = t /\ At(t, "read", "granted")
  /\ LET p == call[t].p
         b == memory[Place(p, pipe[p].readIndex)]
         rest == call[t].left - 1
     IN /\ pipe' = [pipe EXCEPT ![p].readIndex = nextRead(@)]
        /\ \E q \in signal(space[p]) : space' = [space EXCEPT ![p] = q]
        /\ received' = IF pipe[p].used THEN [received EXCEPT ![p] = Append(@, b)] ELSE received
        /\ Moves(t, rest, rest = 0)
  /\ UNCHANGED <<memory, bytes, hung, opened, stale, owner, sent>>

\* A thread that a signal took out of the list runs again.
Resume(t) ==
  /\ ~hung /\ busy = Nobody
  /\ call[t] # Idle /\ call[t].at = "asleep"
  /\ t \notin space[call[t].p].waiters /\ t \notin bytes[call[t].p].waiters
  /\ call' = [call EXCEPT ![t].at = "granted"]
  /\ busy' = t
  /\ UNCHANGED <<pipe, memory, space, bytes, hung, opened, stale, owner, sent, received>>

Next ==
  \/ \E t \in Threads :
       \/ \E name \in Names : sysOpenPipe(t, name)
       \/ \E h \in DataHandles, m \in Messages : sysWrite(t, h, m)
       \/ \E h \in DataHandles, n \in Sizes : sysRead(t, h, n)
       \/ \E h \in CloseHandles : sysClosePipe(t, h)
       \/ WriteWait(t) \/ ReadWait(t) \/ WriteByte(t) \/ ReadByte(t) \/ Resume(t)
  \/ \E a \in Reached : OthersWrite(a)

Spec == Init /\ [][Next]_vars

--------------------------------------------------------------------------------
(* Properties *)

Semaphores == [valid : BOOLEAN, permits : Nat, waiters : SUBSET Threads]

TypeOK ==
  /\ pipe \in [Pipes -> [name : Names \union {NoName}, creator : Threads \union {Nobody},
                         used : BOOLEAN, page : Pages \union {LowMemory},
                         readIndex : Cells, writeIndex : Cells]]
  /\ memory \in [Reached -> Bytes \union {Garbage}]
  /\ space \in [Pipes -> Semaphores] /\ bytes \in [Pipes -> Semaphores]
  /\ call \in [Threads -> Calls] /\ busy \in Threads \union {Nobody}
  /\ hung \in BOOLEAN /\ opened \subseteq Pipes
  /\ stale \in [Pipes -> Nat] /\ owner \in [Reached -> Pipes \union {Others}]
  /\ sent \in [Pipes -> Seq(Bytes)]
  /\ received \in [Pipes -> Seq(Bytes \union {Garbage})]

\* The threads that were let through a semaphore and have yet to use it.
Reserved(op, p, q) ==
  {t \in Threads : /\ call[t] # Idle /\ call[t].op = op /\ call[t].p = p
                   /\ \/ call[t].at = "granted"
                      \/ call[t].at = "asleep" /\ t \notin q.waiters}

\* Whatever a semaphore's last owner left in it, whichever of the two was not
\* made, and whoever is between being let through and moving its byte: every
\* byte in the pipe and every stale permit is a permit to read or reserved by
\* a reader that was let through, and every free cell likewise for the
\* writers.  No reader sleeps over a byte that nobody will take, and with
\* semaphores that start at 0 and LENGTH the buffer is neither overrun nor
\* read ahead of its bytes (pipes.c:83-96, 111-127, semaphore.c:41-53).
PermitsAreBytes ==
  \A p \in Pipes :
    LET inside == Len(sent[p]) - Len(received[p])
    IN /\ bytes[p].valid =>
            inside + stale[p] = bytes[p].permits + Cardinality(Reserved("read", p, bytes[p]))
       /\ space[p].valid =>
            LENGTH - inside = space[p].permits + Cardinality(Reserved("write", p, space[p]))

\* Both semaphores were made and started as they should, and are not released.
Sound(p) == space[p].valid /\ bytes[p].valid /\ stale[p] = 0

Order(p) == INSTANCE Fifo WITH
  Capacity <- LENGTH, sent <- sent[p], received <- received[p]

\* The next byte is read from a cell where somebody else wrote last.
ReadsSpoilt(p) ==
  /\ owner[Place(p, pipe[p].readIndex)] # p
  /\ \E b \in Bytes \union {Garbage} : received'[p] = Append(received[p], b)
  /\ sent'[p] = sent[p]

\* A pipe whose semaphores are sound keeps the promise of Fifo, whatever its
\* readers and writers do: a byte comes out in its place, unless somebody else
\* wrote over it meanwhile (pipes.c:73-129).
PipesAreFifos ==
  /\ \A p \in Pipes : Order(p)!Init
  /\ [][\A p \in Pipes : Sound(p) =>
          [Order(p)!Next]_<<sent[p], received[p]>> \/ ReadsSpoilt(p)]_vars

\* The cell n places behind cell i.
Ahead(i, n) == IF i + n <= LENGTH THEN i + n ELSE i + n - (LENGTH + 1)

\* Of the bytes inside a pipe that has a page of its own, others can spoil
\* only the one in cell 0, which the pipe on the page before reaches behind
\* its own buffer, and the one behind the buffer: also after closes, with
\* calls left on a closed pipe (pipes.c:85-94, 111-122, 135-146).
SpoiltOnlyAtEnds ==
  \A p \in Pipes : (Sound(p) /\ pipe[p].page # LowMemory) =>
    \A n \in 0 .. Len(sent[p]) - Len(received[p]) - 1 :
      LET i == Ahead(pipe[p].readIndex, n)
      IN owner[Place(p, i)] = p \/ i \in {0, LENGTH}
================================================================================
