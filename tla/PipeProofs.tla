------------------------------- MODULE PipeProofs ------------------------------
(* Proofs about the kernel pipes, for any number of threads and pipes and a  *)
(* buffer of any length.                                                     *)
EXTENDS Pipe, MinMax, FiniteSetTheorems, TLAPS

Ats        == {"wait", "asleep", "granted"}
WriteCalls == [op : {"write"}, p : Pipes, at : Ats, left : Seq(Bytes)]
ReadCalls  == [op : {"read"}, p : Pipes, at : Ats, left : Nat]

Records    == [name : Names \union {NoName}, creator : Threads \union {Nobody},
               used : BOOLEAN, page : Pages \union {LowMemory},
               readIndex : Cells, writeIndex : Cells]

\* A call that is not finished has something left to do.
CallsGoOn ==
  \A t \in Threads : call[t] # Idle =>
    /\ call[t].op = "write" => call[t].left # <<>>
    /\ call[t].op = "read" => call[t].left # 0

LEMMA CallIs ==
  ASSUME TypeOK, NEW t \in Threads
  PROVE  /\ call[t] # Idle => call[t] \in WriteCalls \union ReadCalls
         /\ (call[t] # Idle /\ call[t].op = "write") => call[t] \in WriteCalls
         /\ (call[t] # Idle /\ call[t].op = "read") => call[t] \in ReadCalls
         /\ call[t] # Idle => call[t].p \in Pipes
BY DEF TypeOK, Calls, WriteCalls, ReadCalls, Ats, Idle

LEMMA NextIndex ==
  ASSUME NEW i \in Cells
  PROVE  nextRead(i) \in Cells /\ nextWrite(i) \in Cells
BY PipeAssumption DEF nextRead, nextWrite, Cells

LEMMA SignalType ==
  ASSUME NEW q \in Semaphores
  PROVE  signal(q) \subseteq Semaphores
<1>1. CASE ~q.valid
  BY <1>1 DEF signal
<1>2. CASE q.valid /\ q.waiters = {}
  BY <1>2 DEF signal, Semaphores
<1>3. CASE q.valid /\ q.waiters # {}
  BY <1>3 DEF signal, Semaphores
<1> QED
  BY <1>1, <1>2, <1>3

LEMMA SignalWaiters ==
  ASSUME NEW q \in Semaphores, NEW z \in signal(q)
  PROVE  z.waiters \subseteq q.waiters /\ z.valid = q.valid
<1>1. CASE ~q.valid
  BY <1>1 DEF signal, Semaphores
<1>2. CASE q.valid /\ q.waiters = {}
  BY <1>2 DEF signal, Semaphores
<1>3. CASE q.valid /\ q.waiters # {}
  BY <1>3 DEF signal, Semaphores
<1> QED
  BY <1>1, <1>2, <1>3

\* What createSemaphore and setValue leave.
LEMMA CreatedType ==
  ASSUME NEW q \in Created
  PROVE  /\ q \in Semaphores /\ q.waiters = {}
         /\ setValue(q) \in Semaphores /\ setValue(q).waiters = {}
         /\ setValue(q).valid = q.valid
         /\ q.valid => setValue(q).permits = LENGTH
BY PipeAssumption DEF Created, Semaphores, setValue

\* The cells of a pipe are in the part of memory that is modelled.
LEMMA PlaceReached ==
  ASSUME TypeOK, NEW p \in Pipes, NEW i \in Cells
  PROVE  Place(p, i) \in Reached
<1>1. pipe[p].page \in Pages \union {LowMemory}
  BY DEF TypeOK
<1> QED
  BY <1>1 DEF Place, Reached

LEMMA WaitedType ==
  ASSUME NEW q \in Semaphores, NEW t \in Threads
  PROVE  Waited(q, t) \in [sem : Semaphores, at : Ats]
BY DEF Waited, Semaphores, Ats

--------------------------------------------------------------------------------
(* Types *)

Typed == TypeOK /\ CallsGoOn

\* A call that moves on keeps its type.
LEMMA CallType ==
  ASSUME TypeOK, NEW t \in Threads, call[t] # Idle, NEW a \in Ats
  PROVE  [call EXCEPT ![t].at = a] \in [Threads -> Calls]
<1>1. [call[t] EXCEPT !.at = a] \in WriteCalls \union ReadCalls
  BY CallIs DEF WriteCalls, ReadCalls
<1> QED
  BY <1>1 DEF TypeOK, Calls, WriteCalls, ReadCalls, Ats

LEMMA EnterTyped ==
  ASSUME Typed, NEW t \in Threads, NEW c \in WriteCalls \union ReadCalls,
         c.op = "write" => c.left # <<>>, c.op = "read" => c.left # 0,
         Enter(t, c)
  PROVE  Typed'
<1>1. c \in Calls /\ c # Idle
  BY DEF Calls, WriteCalls, ReadCalls, Ats, Idle
<1>2. call' = [call EXCEPT ![t] = c] /\ busy' = t
  BY DEF Enter
<1>3. TypeOK'
  BY <1>1, <1>2 DEF Typed, TypeOK, Enter
<1>4. CallsGoOn'
  BY <1>1, <1>2 DEF Typed, TypeOK, CallsGoOn
<1> QED
  BY <1>3, <1>4 DEF Typed

LEMMA WaitsTyped ==
  ASSUME Typed, NEW t \in Threads, call[t] # Idle, NEW q \in Semaphores, Waits(t, Waited(q, t)),
         space' \in [Pipes -> Semaphores], bytes' \in [Pipes -> Semaphores]
  PROVE  Typed'
<1> DEFINE a == Waited(q, t).at
<1>1. a \in Ats
  BY WaitedType
<1>2. call' = [call EXCEPT ![t].at = a] /\ busy' \in Threads \union {Nobody}
  BY DEF Waits
<1> HIDE DEF a
<1>3. call' \in [Threads -> Calls]
  BY <1>1, <1>2, CallType DEF Typed
<1>4. TypeOK'
  BY <1>2, <1>3 DEF Typed, TypeOK, Waits
<1>5. CallsGoOn'
  <2>1. \A u \in Threads : u # t => call'[u] = call[u]
    BY <1>2 DEF Typed, TypeOK
  <2>2. call[t] \in WriteCalls \union ReadCalls
    BY CallIs DEF Typed
  <2>3. call'[t] = [call[t] EXCEPT !.at = a]
    BY <1>2 DEF Typed, TypeOK
  <2>4. call'[t].op = call[t].op /\ call'[t].left = call[t].left
    BY <2>2, <2>3 DEF WriteCalls, ReadCalls
  <2> QED
    BY <2>1, <2>4 DEF CallsGoOn, Typed
<1> QED
  BY <1>4, <1>5 DEF Typed

\* What opening a pipe does.
LEMMA OpenDoes ==
  ASSUME NEW t \in Threads, NEW name \in Names, sysOpenPipe(t, name)
  PROVE  \E p \in Pipes \ opened, page \in Pages \ (Taken \ {LowMemory}),
            qs \in Created, qb \in Created :
           /\ p \in Unused /\ \A q \in Unused : p <= q
           /\ pipe' = [pipe EXCEPT ![p] = [name |-> name, creator |-> t, used |-> TRUE, page |-> page,
                                           readIndex |-> 0, writeIndex |-> 0]]
           /\ space' = [space EXCEPT ![p] = setValue(qs)]
           /\ bytes' = [bytes EXCEPT ![p] = qb]
           /\ stale' = [stale EXCEPT ![p] = qb.permits]
           /\ opened' = opened \union {p}
           /\ UNCHANGED <<memory, call, busy, hung, owner, sent, received>>
<1> DEFINE p == Min(Unused)
<1>1. p \in Unused /\ p \in Pipes /\ \A q \in Unused : p <= q
  <2>1. Unused \in SUBSET Nat /\ Unused # {} /\ Unused \subseteq Pipes
    BY PipeAssumption DEF sysOpenPipe, Unused, Pipes
  <2> QED
    BY <2>1, MinIsLeast
<1>2. p \notin opened /\ opened' = opened \union {p}
      /\ UNCHANGED <<memory, call, busy, hung, owner, sent, received>>
  BY DEF sysOpenPipe
<1>3. PICK page \in Pages \ (Taken \ {LowMemory}) :
        pipe' = [pipe EXCEPT ![p] = [name |-> name, creator |-> t, used |-> TRUE, page |-> page,
                                     readIndex |-> 0, writeIndex |-> 0]]
  BY DEF sysOpenPipe
<1>4. PICK qs \in Created : space' = [space EXCEPT ![p] = setValue(qs)]
  BY DEF sysOpenPipe
<1>5. PICK qb \in Created : /\ bytes' = [bytes EXCEPT ![p] = qb]
                            /\ stale' = [stale EXCEPT ![p] = qb.permits]
  BY DEF sysOpenPipe
<1> HIDE DEF p
<1> QED
  BY <1>1, <1>2, <1>3, <1>4, <1>5

LEMMA OpenTyped ==
  ASSUME Typed, NEW t \in Threads, NEW name \in Names, sysOpenPipe(t, name)
  PROVE  Typed'
<1>1. PICK p \in Pipes \ opened, page \in Pages \ (Taken \ {LowMemory}),
           qs \in Created, qb \in Created :
        /\ pipe' = [pipe EXCEPT ![p] = [name |-> name, creator |-> t, used |-> TRUE, page |-> page,
                                        readIndex |-> 0, writeIndex |-> 0]]
        /\ space' = [space EXCEPT ![p] = setValue(qs)]
        /\ bytes' = [bytes EXCEPT ![p] = qb]
        /\ stale' = [stale EXCEPT ![p] = qb.permits]
        /\ opened' = opened \union {p}
        /\ UNCHANGED <<memory, call, busy, hung, owner, sent, received>>
  BY OpenDoes
<1>2. 0 \in Cells
  BY PipeAssumption DEF Cells
<1>3. setValue(qs) \in Semaphores /\ qb \in Semaphores /\ qb.permits \in Nat
  BY CreatedType DEF Semaphores
<1>4. TypeOK'
  <2>1. pipe' \in [Pipes -> Records]
    BY <1>1, <1>2 DEF Typed, TypeOK, Records
  <2>2. /\ space' \in [Pipes -> Semaphores] /\ bytes' \in [Pipes -> Semaphores]
        /\ opened' \subseteq Pipes /\ stale' \in [Pipes -> Nat]
    BY <1>1, <1>3 DEF Typed, TypeOK
  <2> QED
    BY <1>1, <2>1, <2>2 DEF Typed, TypeOK, Records
<1>5. CallsGoOn'
  BY <1>1 DEF Typed, CallsGoOn
<1> QED
  BY <1>4, <1>5 DEF Typed

\* What closing a pipe does.
LEMMA CloseDoes ==
  ASSUME TypeOK, NEW t \in Threads, NEW h \in CloseHandles, sysClosePipe(t, h)
  PROVE  /\ h \in Pipes /\ pipe[h].used /\ hung' \in BOOLEAN
         /\ pipe' = [pipe EXCEPT ![h].used = hung']
         /\ space' \in [Pipes -> Semaphores] /\ bytes' \in [Pipes -> Semaphores]
         /\ \A q \in Pipes :
              /\ space'[q].permits = space[q].permits /\ space'[q].waiters = space[q].waiters
              /\ bytes'[q].permits = bytes[q].permits /\ bytes'[q].waiters = bytes[q].waiters
              /\ space'[q].valid <=> (space[q].valid /\ (q = h => hung'))
              /\ bytes'[q].valid <=> (bytes[q].valid /\ (q = h => hung'))
         /\ UNCHANGED <<memory, call, busy, opened, stale, owner, sent, received>>
<1>1. /\ h \in Pipes /\ pipe[h].used /\ hung' \in BOOLEAN
      /\ pipe' = [pipe EXCEPT ![h].used = hung']
      /\ space' = [space EXCEPT ![h].valid = @ /\ hung']
      /\ bytes' = [bytes EXCEPT ![h].valid = @ /\ hung']
      /\ UNCHANGED <<memory, call, busy, opened, stale, owner, sent, received>>
  BY DEF sysClosePipe, isValidPipe
<1>2. /\ space[h] \in Semaphores /\ bytes[h] \in Semaphores
      /\ space \in [Pipes -> Semaphores] /\ bytes \in [Pipes -> Semaphores]
  BY <1>1 DEF TypeOK
<1>3. /\ [space[h] EXCEPT !.valid = @ /\ hung'] \in Semaphores
      /\ [bytes[h] EXCEPT !.valid = @ /\ hung'] \in Semaphores
  BY <1>1, <1>2 DEF Semaphores
<1>4. space' \in [Pipes -> Semaphores] /\ bytes' \in [Pipes -> Semaphores]
  BY <1>1, <1>2, <1>3
<1>5. ASSUME NEW q \in Pipes, q # h
      PROVE  space'[q] = space[q] /\ bytes'[q] = bytes[q]
  BY <1>1, <1>2, <1>5
<1>6. /\ space'[h] = [space[h] EXCEPT !.valid = @ /\ hung']
      /\ bytes'[h] = [bytes[h] EXCEPT !.valid = @ /\ hung']
  BY <1>1, <1>2
<1>7. ASSUME NEW q \in Pipes
      PROVE  /\ space'[q].permits = space[q].permits /\ space'[q].waiters = space[q].waiters
             /\ bytes'[q].permits = bytes[q].permits /\ bytes'[q].waiters = bytes[q].waiters
             /\ space'[q].valid <=> (space[q].valid /\ (q = h => hung'))
             /\ bytes'[q].valid <=> (bytes[q].valid /\ (q = h => hung'))
  <2>1. CASE q = h
    BY <1>2, <1>6, <2>1 DEF Semaphores
  <2>2. CASE q # h
    BY <1>5, <2>2
  <2> QED
    BY <2>1, <2>2
<1> QED
  BY <1>1, <1>4, <1>7

LEMMA CloseTyped ==
  ASSUME Typed, NEW t \in Threads, NEW h \in CloseHandles, sysClosePipe(t, h)
  PROVE  Typed'
<1>1. /\ h \in Pipes /\ hung' \in BOOLEAN /\ pipe' = [pipe EXCEPT ![h].used = hung']
      /\ space' \in [Pipes -> Semaphores] /\ bytes' \in [Pipes -> Semaphores]
      /\ UNCHANGED <<memory, call, busy, opened, stale, owner, sent, received>>
  BY CloseDoes DEF Typed
<1>2. pipe' \in [Pipes -> Records]
  BY <1>1 DEF Typed, TypeOK, Records
<1>3. TypeOK'
  BY <1>1, <1>2 DEF Typed, TypeOK, Records
<1>4. CallsGoOn'
  BY <1>1 DEF Typed, CallsGoOn
<1> QED
  BY <1>3, <1>4 DEF Typed

\* Others write in memory only.
LEMMA OthersTyped ==
  ASSUME Typed, NEW a \in Reached, OthersWrite(a)
  PROVE  Typed'
<1>1. TypeOK'
  BY DEF Typed, TypeOK, OthersWrite
<1>2. CallsGoOn'
  BY DEF Typed, CallsGoOn, OthersWrite
<1> QED
  BY <1>1, <1>2 DEF Typed

\* What Moves makes of a call.
LEMMA MovesTyped ==
  ASSUME Typed, NEW t \in Threads, call[t] # Idle, NEW r, NEW done \in BOOLEAN,
         Moves(t, r, done),
         ~done => \/ call[t].op = "write" /\ r \in Seq(Bytes) /\ r # <<>>
                  \/ call[t].op = "read" /\ r \in Nat \ {0}
  PROVE  call' \in [Threads -> Calls] /\ busy' \in Threads \union {Nobody} /\ CallsGoOn'
<1> DEFINE c == [call[t] EXCEPT !.at = "wait", !.left = r]
<1>1. CASE done
  BY <1>1 DEF Moves, Typed, TypeOK, CallsGoOn, Calls
<1>2. CASE ~done
  <2>1. call' = [call EXCEPT ![t] = c] /\ busy' = t
    BY <1>2 DEF Moves, Typed, TypeOK
  <2>2. call[t] \in WriteCalls \union ReadCalls
    BY CallIs DEF Typed
  <2>3. /\ c \in WriteCalls \union ReadCalls
        /\ c.op = "write" => c.left # <<>>
        /\ c.op = "read" => c.left # 0
    BY <1>2, <2>2 DEF WriteCalls, ReadCalls, Ats
  <2> HIDE DEF c
  <2>4. c \in Calls
    BY <2>3 DEF Calls, WriteCalls, ReadCalls, Ats
  <2> QED
    BY <2>1, <2>3, <2>4 DEF Typed, TypeOK, CallsGoOn
<1> QED
  BY <1>1, <1>2

\* What a byte of a write does.
LEMMA WriteByteDoes ==
  ASSUME Typed, NEW t \in Threads, WriteByte(t)
  PROVE  \E p \in Pipes, b \in Bytes, q \in Semaphores :
           /\ call[t] # Idle /\ call[t].op = "write" /\ call[t].at = "granted"
           /\ call[t].p = p
           /\ memory' = [memory EXCEPT ![Place(p, pipe[p].writeIndex)] = b]
           /\ owner' = [owner EXCEPT ![Place(p, pipe[p].writeIndex)] = p]
           /\ pipe' = [pipe EXCEPT ![p].writeIndex = nextWrite(@)]
           /\ q \in signal(bytes[p]) /\ bytes' = [bytes EXCEPT ![p] = q]
           /\ sent' = IF pipe[p].used THEN [sent EXCEPT ![p] = Append(@, b)] ELSE sent
           /\ (\E rest \in Seq(Bytes) : Moves(t, rest, rest = <<>>))
           /\ UNCHANGED <<space, hung, opened, stale, received>>
<1>1. call[t] # Idle /\ call[t].op = "write" /\ call[t].at = "granted"
  BY DEF WriteByte, At
<1>2. call[t] \in WriteCalls /\ call[t].p \in Pipes
  BY <1>1, CallIs DEF Typed
<1>3. call[t].left \in Seq(Bytes) /\ call[t].left # <<>>
  BY <1>1, <1>2 DEF WriteCalls, Typed, CallsGoOn
<1>4. Head(call[t].left) \in Bytes /\ Tail(call[t].left) \in Seq(Bytes)
  BY <1>3
<1>5. PICK p \in Pipes, b \in Bytes : p = call[t].p /\ b = Head(call[t].left)
  BY <1>2, <1>4
<1>6. /\ memory' = [memory EXCEPT ![Place(p, pipe[p].writeIndex)] = b]
      /\ owner' = [owner EXCEPT ![Place(p, pipe[p].writeIndex)] = p]
      /\ pipe' = [pipe EXCEPT ![p].writeIndex = nextWrite(@)]
      /\ sent' = IF pipe[p].used THEN [sent EXCEPT ![p] = Append(@, b)] ELSE sent
      /\ UNCHANGED <<space, hung, opened, stale, received>>
  BY <1>5 DEF WriteByte
<1>7. \E rest \in Seq(Bytes) : Moves(t, rest, rest = <<>>)
  <2>1. Moves(t, Tail(call[t].left), Tail(call[t].left) = <<>>)
    BY DEF WriteByte
  <2> QED
    BY <1>4, <2>1
<1>8. PICK q \in signal(bytes[p]) : bytes' = [bytes EXCEPT ![p] = q]
  BY <1>5 DEF WriteByte
<1> q \in Semaphores
  BY SignalType DEF Typed, TypeOK
<1> WITNESS p \in Pipes, b \in Bytes, q \in Semaphores
<1> QED
  BY <1>1, <1>5, <1>6, <1>7, <1>8

\* What a byte of a read does.
LEMMA ReadByteDoes ==
  ASSUME Typed, NEW t \in Threads, ReadByte(t)
  PROVE  \E p \in Pipes, q \in Semaphores :
           /\ call[t] # Idle /\ call[t].op = "read" /\ call[t].at = "granted"
           /\ call[t].p = p
           /\ pipe' = [pipe EXCEPT ![p].readIndex = nextRead(@)]
           /\ q \in signal(space[p]) /\ space' = [space EXCEPT ![p] = q]
           /\ received' = IF pipe[p].used
                          THEN [received EXCEPT
                                  ![p] = Append(@, memory[Place(p, pipe[p].readIndex)])]
                          ELSE received
           /\ (\E rest \in Nat : Moves(t, rest, rest = 0))
           /\ UNCHANGED <<memory, bytes, hung, opened, stale, owner, sent>>
<1>1. call[t] # Idle /\ call[t].op = "read" /\ call[t].at = "granted"
  BY DEF ReadByte, At
<1>2. call[t] \in ReadCalls /\ call[t].p \in Pipes
  BY <1>1, CallIs DEF Typed
<1>3. call[t].left \in Nat /\ call[t].left # 0
  BY <1>1, <1>2 DEF ReadCalls, Typed, CallsGoOn
<1>4. call[t].left - 1 \in Nat
  BY <1>3
<1>5. PICK p \in Pipes : p = call[t].p
  BY <1>2
<1>6. /\ pipe' = [pipe EXCEPT ![p].readIndex = nextRead(@)]
      /\ received' = IF pipe[p].used
                     THEN [received EXCEPT
                             ![p] = Append(@, memory[Place(p, pipe[p].readIndex)])]
                     ELSE received
      /\ UNCHANGED <<memory, bytes, hung, opened, stale, owner, sent>>
  BY <1>5 DEF ReadByte
<1>7. \E rest \in Nat : Moves(t, rest, rest = 0)
  BY <1>4 DEF ReadByte
<1>8. PICK q \in signal(space[p]) : space' = [space EXCEPT ![p] = q]
  BY <1>5 DEF ReadByte
<1> q \in Semaphores
  BY SignalType DEF Typed, TypeOK
<1> WITNESS p \in Pipes, q \in Semaphores
<1> QED
  BY <1>1, <1>5, <1>6, <1>7, <1>8

LEMMA IndexMoves ==
  ASSUME TypeOK, NEW p \in Pipes, NEW i \in Cells
  PROVE  /\ [pipe EXCEPT ![p].writeIndex = i] \in [Pipes -> Records]
         /\ [pipe EXCEPT ![p].readIndex = i] \in [Pipes -> Records]
<1>1. pipe \in [Pipes -> Records]
  BY DEF TypeOK, Records
<1>2. pipe[p] \in Records
  BY <1>1
<1>3. /\ [pipe[p] EXCEPT !.writeIndex = i] \in Records
      /\ [pipe[p] EXCEPT !.readIndex = i] \in Records
  BY <1>2 DEF Records
<1> QED
  BY <1>1, <1>3

LEMMA WriteByteTyped ==
  ASSUME Typed, NEW t \in Threads, WriteByte(t)
  PROVE  Typed'
<1>1. PICK p \in Pipes, b \in Bytes, q \in Semaphores :
        /\ call[t] # Idle /\ call[t].op = "write" /\ call[t].at = "granted"
        /\ call[t].p = p
        /\ memory' = [memory EXCEPT ![Place(p, pipe[p].writeIndex)] = b]
        /\ owner' = [owner EXCEPT ![Place(p, pipe[p].writeIndex)] = p]
        /\ pipe' = [pipe EXCEPT ![p].writeIndex = nextWrite(@)]
        /\ q \in signal(bytes[p]) /\ bytes' = [bytes EXCEPT ![p] = q]
        /\ sent' = IF pipe[p].used THEN [sent EXCEPT ![p] = Append(@, b)] ELSE sent
        /\ (\E rest \in Seq(Bytes) : Moves(t, rest, rest = <<>>))
        /\ UNCHANGED <<space, hung, opened, stale, received>>
  BY WriteByteDoes
<1>2. call' \in [Threads -> Calls] /\ busy' \in Threads \union {Nobody} /\ CallsGoOn'
  BY <1>1, MovesTyped
<1>3. bytes' \in [Pipes -> Semaphores]
  BY <1>1 DEF Typed, TypeOK
<1>4. sent' \in [Pipes -> Seq(Bytes)]
  <2>1. Append(sent[p], b) \in Seq(Bytes)
    BY DEF Typed, TypeOK
  <2> QED
    BY <1>1, <2>1 DEF Typed, TypeOK
<1>5. nextWrite(pipe[p].writeIndex) \in Cells
  BY NextIndex DEF Typed, TypeOK
<1>6. pipe' \in [Pipes -> Records]
  BY <1>1, <1>5, IndexMoves DEF Typed
<1>7. memory' \in [Reached -> Bytes \union {Garbage}] /\ owner' \in [Reached -> Pipes \union {Others}]
  BY <1>1 DEF Typed, TypeOK
<1> QED
  BY <1>1, <1>2, <1>3, <1>4, <1>6, <1>7 DEF Typed, TypeOK, Records

LEMMA ReadByteTyped ==
  ASSUME Typed, NEW t \in Threads, ReadByte(t)
  PROVE  Typed'
<1>1. PICK p \in Pipes, q \in Semaphores :
        /\ call[t] # Idle /\ call[t].op = "read" /\ call[t].at = "granted"
        /\ call[t].p = p
        /\ pipe' = [pipe EXCEPT ![p].readIndex = nextRead(@)]
        /\ q \in signal(space[p]) /\ space' = [space EXCEPT ![p] = q]
        /\ received' = IF pipe[p].used
                       THEN [received EXCEPT
                               ![p] = Append(@, memory[Place(p, pipe[p].readIndex)])]
                       ELSE received
        /\ (\E rest \in Nat : Moves(t, rest, rest = 0))
        /\ UNCHANGED <<memory, bytes, hung, opened, stale, owner, sent>>
  BY ReadByteDoes
<1>2. call' \in [Threads -> Calls] /\ busy' \in Threads \union {Nobody} /\ CallsGoOn'
  BY <1>1, MovesTyped
<1>3. space' \in [Pipes -> Semaphores]
  BY <1>1 DEF Typed, TypeOK
<1>4. received' \in [Pipes -> Seq(Bytes \union {Garbage})]
  <2>1. pipe[p].readIndex \in Cells
    BY DEF Typed, TypeOK
  <2>2. memory[Place(p, pipe[p].readIndex)] \in Bytes \union {Garbage}
    BY <2>1, PlaceReached DEF Typed, TypeOK
  <2>3. Append(received[p], memory[Place(p, pipe[p].readIndex)]) \in Seq(Bytes \union {Garbage})
    BY <2>2 DEF Typed, TypeOK
  <2> QED
    BY <1>1, <2>3 DEF Typed, TypeOK
<1>5. nextRead(pipe[p].readIndex) \in Cells
  BY NextIndex DEF Typed, TypeOK
<1>6. pipe' \in [Pipes -> Records]
  BY <1>1, <1>5, IndexMoves DEF Typed
<1> QED
  BY <1>1, <1>2, <1>3, <1>4, <1>6 DEF Typed, TypeOK, Records

LEMMA StepTyped ==
  ASSUME Typed, [Next]_vars
  PROVE  Typed'
<1>1. CASE UNCHANGED vars
  BY <1>1 DEF vars, Typed, TypeOK, CallsGoOn
<1>2. ASSUME NEW t \in Threads, NEW name \in Names, sysOpenPipe(t, name)
      PROVE  Typed'
  BY <1>2, OpenTyped
<1>3. ASSUME NEW t \in Threads, NEW h \in DataHandles, NEW m \in Messages, sysWrite(t, h, m)
      PROVE  Typed'
  <2> DEFINE c == [op |-> "write", p |-> h - FirstHandle, at |-> "wait", left |-> m]
  <2>1. Enter(t, c)
    BY <1>3 DEF sysWrite
  <2>2. h - FirstHandle \in Pipes
    BY <2>1 DEF Enter, isValidPipe
  <2>3. c \in WriteCalls /\ c.op = "write" /\ c.left # <<>>
    BY <2>2, PipeAssumption DEF WriteCalls, Ats
  <2> HIDE DEF c
  <2> QED
    BY <2>1, <2>3, EnterTyped
<1>4. ASSUME NEW t \in Threads, NEW h \in DataHandles, NEW n \in Sizes, sysRead(t, h, n)
      PROVE  Typed'
  <2> DEFINE c == [op |-> "read", p |-> h - FirstHandle, at |-> "wait", left |-> n]
  <2>1. Enter(t, c)
    BY <1>4 DEF sysRead
  <2>2. h - FirstHandle \in Pipes
    BY <2>1 DEF Enter, isValidPipe
  <2>3. c \in ReadCalls /\ c.op = "read" /\ c.left # 0
    BY <2>2, PipeAssumption DEF ReadCalls, Ats
  <2> HIDE DEF c
  <2> QED
    BY <2>1, <2>3, EnterTyped
<1>5. ASSUME NEW t \in Threads, NEW h \in CloseHandles, sysClosePipe(t, h)
      PROVE  Typed'
  BY <1>5, CloseTyped
<1>6. ASSUME NEW t \in Threads, WriteWait(t) \/ ReadWait(t)
      PROVE  Typed'
  <2> DEFINE p == call[t].p
  <2>1. call[t] # Idle /\ p \in Pipes
    BY <1>6, CallIs DEF WriteWait, ReadWait, At, Typed
  <2>2. space[p] \in Semaphores /\ bytes[p] \in Semaphores
    BY <2>1 DEF Typed, TypeOK
  <2>3. /\ Waited(space[p], t).sem \in Semaphores
        /\ Waited(bytes[p], t).sem \in Semaphores
    BY <2>2, WaitedType
  <2>4. space' \in [Pipes -> Semaphores] /\ bytes' \in [Pipes -> Semaphores]
    BY <1>6, <2>1, <2>3 DEF WriteWait, ReadWait, Typed, TypeOK
  <2>5. Waits(t, Waited(space[p], t)) \/ Waits(t, Waited(bytes[p], t))
    BY <1>6 DEF WriteWait, ReadWait
  <2> QED
    BY <2>1, <2>2, <2>4, <2>5, WaitsTyped
<1>7. ASSUME NEW t \in Threads, WriteByte(t)
      PROVE  Typed'
  BY <1>7, WriteByteTyped
<1>8. ASSUME NEW t \in Threads, ReadByte(t)
      PROVE  Typed'
  BY <1>8, ReadByteTyped
<1>9. ASSUME NEW t \in Threads, Resume(t)
      PROVE  Typed'
  <2>1. call[t] # Idle /\ call' = [call EXCEPT ![t].at = "granted"]
    BY <1>9 DEF Resume
  <2>2. call' \in [Threads -> Calls]
    BY <2>1, CallType DEF Typed, Ats
  <2>3. TypeOK'
    BY <1>9, <2>2 DEF Typed, TypeOK, Resume
  <2>4. call[t] \in WriteCalls \union ReadCalls
    BY <2>1, CallIs DEF Typed
  <2>5. CallsGoOn'
    BY <2>1, <2>4 DEF Typed, TypeOK, CallsGoOn, WriteCalls, ReadCalls
  <2> QED
    BY <2>3, <2>5 DEF Typed
<1>10. ASSUME NEW a \in Reached, OthersWrite(a)
       PROVE  Typed'
  BY <1>10, OthersTyped
<1> QED
  BY <1>1, <1>2, <1>3, <1>4, <1>5, <1>6, <1>7, <1>8, <1>9, <1>10 DEF Next

--------------------------------------------------------------------------------
(* Permits *)

Writers(p) == Reserved("write", p, space[p])
Readers(p) == Reserved("read", p, bytes[p])

\* A thread is in the list of a semaphore only while it sleeps in a call on it.
SleepsIn(t, op, p) ==
  call[t] # Idle /\ call[t].op = op /\ call[t].p = p /\ call[t].at = "asleep"

WaitersAsleep ==
  \A p \in Pipes, t \in Threads :
    /\ t \in space[p].waiters => SleepsIn(t, "write", p)
    /\ t \in bytes[p].waiters => SleepsIn(t, "read", p)

\* Nothing has happened yet on a pipe that was never opened.
Fresh ==
  \A p \in Pipes \ opened :
    /\ ~pipe[p].used /\ ~space[p].valid /\ ~bytes[p].valid
    /\ sent[p] = <<>> /\ received[p] = <<>>
    /\ \A t \in Threads : call[t] # Idle => call[t].p # p

\* A pipe with a semaphore is in use, so that what goes through it is recorded.
InUse == \A p \in Pipes : space[p].valid \/ bytes[p].valid => pipe[p].used

Placed == Typed /\ WaitersAsleep /\ Fresh /\ InUse

Inside(p) == Len(sent[p]) - Len(received[p])

\* The permits of one pipe.
ReadsCounted(p) ==
  bytes[p].valid => Inside(p) + stale[p] = bytes[p].permits + Cardinality(Readers(p))

WritesCounted(p) ==
  space[p].valid => LENGTH - Inside(p) = space[p].permits + Cardinality(Writers(p))

Counted(p) == ReadsCounted(p) /\ WritesCounted(p)

\* What every step does for the permits.
Balanced ==
  WaitersAsleep' /\ Fresh' /\ InUse' /\ \A p \in Pipes : Counted(p) => Counted(p)'

LEMMA ReservedFinite ==
  ASSUME NEW op, NEW p, NEW q
  PROVE  /\ IsFiniteSet(Reserved(op, p, q))
         /\ Cardinality(Reserved(op, p, q)) \in Nat
<1>1. Reserved(op, p, q) \subseteq Threads
  BY DEF Reserved
<1> QED
  BY <1>1, PipeAssumption, FS_Subset, FS_CardinalityType

LEMMA Numbers ==
  ASSUME Typed, NEW p \in Pipes
  PROVE  /\ Inside(p) \in Int /\ LENGTH \in Nat
         /\ space[p].permits \in Nat /\ bytes[p].permits \in Nat /\ stale[p] \in Nat
         /\ Cardinality(Writers(p)) \in Nat /\ Cardinality(Readers(p)) \in Nat
<1>1. Cardinality(Writers(p)) \in Nat /\ Cardinality(Readers(p)) \in Nat
  BY ReservedFinite DEF Writers, Readers
<1>2. /\ sent[p] \in Seq(Bytes) /\ received[p] \in Seq(Bytes \union {Garbage})
      /\ space[p] \in Semaphores /\ bytes[p] \in Semaphores /\ stale[p] \in Nat
  BY DEF Typed, TypeOK
<1> QED
  BY <1>1, <1>2, PipeAssumption DEF Semaphores, Inside

LEMMA SameInside ==
  ASSUME NEW p \in Pipes, UNCHANGED <<sent, received>>
  PROVE  Inside(p)' = Inside(p)
BY DEF Inside

\* What has to stay for a pipe's permits to stay counted.
LEMMA SameReads ==
  ASSUME NEW p \in Pipes, ReadsCounted(p), Inside(p)' = Inside(p), stale'[p] = stale[p],
         Readers(p)' = Readers(p), bytes'[p].valid => bytes[p].valid,
         bytes'[p].permits = bytes[p].permits
  PROVE  ReadsCounted(p)'
BY DEF ReadsCounted

LEMMA SameWrites ==
  ASSUME NEW p \in Pipes, WritesCounted(p), Inside(p)' = Inside(p),
         Writers(p)' = Writers(p), space'[p].valid => space[p].valid,
         space'[p].permits = space[p].permits
  PROVE  WritesCounted(p)'
BY DEF WritesCounted

\* Taking one element out of a reserve, or putting one in.
LEMMA ReserveMoves ==
  ASSUME NEW op, NEW p, NEW q, NEW t
  PROVE  LET R == Reserved(op, p, q) IN
         /\ t \in R => /\ Cardinality(R \ {t}) = Cardinality(R) - 1
                       /\ Cardinality(R) > 0
         /\ t \notin R => Cardinality(R \union {t}) = Cardinality(R) + 1
<1> DEFINE R == Reserved(op, p, q)
<1>1. IsFiniteSet(R) /\ Cardinality(R) \in Nat
  BY ReservedFinite
<1> HIDE DEF R
<1>2. t \in R => Cardinality(R) # 0
  BY <1>1, FS_EmptySet
<1>3. /\ t \in R => Cardinality(R \ {t}) = Cardinality(R) - 1
      /\ t \notin R => Cardinality(R \union {t}) = Cardinality(R) + 1
  BY <1>1, FS_AddElement, FS_RemoveElement
<1> QED
  BY <1>1, <1>2, <1>3 DEF R

\* The state after thread t has moved on inside its call.
MovedOn(t, a) ==
  /\ \A u \in Threads : u # t => call'[u] = call[u]
  /\ call'[t] # Idle /\ call'[t].op = call[t].op /\ call'[t].p = call[t].p
  /\ call'[t].at = a

LEMMA AtMovesOn ==
  ASSUME Typed, NEW t \in Threads, call[t] # Idle, NEW a,
         call' = [call EXCEPT ![t].at = a]
  PROVE  MovedOn(t, a)
<1>1. call[t] \in WriteCalls \union ReadCalls
  BY CallIs DEF Typed
<1>2. call'[t] = [call[t] EXCEPT !.at = a] /\ \A u \in Threads : u # t => call'[u] = call[u]
  BY DEF Typed, TypeOK
<1>3. call'[t].op = call[t].op /\ call'[t].p = call[t].p /\ call'[t].at = a
  BY <1>1, <1>2 DEF WriteCalls, ReadCalls
<1>4. call'[t] # Idle
  BY <1>1, <1>3 DEF WriteCalls, ReadCalls, Idle
<1> QED
  BY <1>2, <1>3, <1>4 DEF MovedOn

LEMMA WriteWaitPlaced ==
  ASSUME Placed, NEW t \in Threads, WriteWait(t)
  PROVE  Balanced
<1> DEFINE p == call[t].p
           w == Waited(space[p], t)
<1>1. /\ call[t] # Idle /\ call[t].op = "write" /\ call[t].at = "wait" /\ p \in Pipes
      /\ p \in opened
  <2>1. call[t] # Idle /\ call[t].op = "write" /\ call[t].at = "wait"
    BY DEF WriteWait, At
  <2>2. p \in Pipes
    BY <2>1, CallIs DEF Placed, Typed
  <2> QED
    BY <2>1, <2>2 DEF Placed, Fresh
<1>2. /\ call' = [call EXCEPT ![t].at = w.at]
      /\ space' = [space EXCEPT ![p] = w.sem]
      /\ UNCHANGED <<pipe, opened, stale, sent, received, bytes>>
  BY DEF WriteWait, Waits
<1>3. MovedOn(t, w.at)
  BY <1>1, <1>2, AtMovesOn DEF Placed
<1>4. /\ space[p] \in Semaphores /\ space \in [Pipes -> Semaphores]
      /\ space' \in [Pipes -> Semaphores]
      /\ space'[p] = w.sem /\ \A q \in Pipes : q # p => space'[q] = space[q]
  BY <1>1, <1>2, WaitedType DEF Placed, Typed, TypeOK
<1>5. \/ space[p].valid /\ space[p].permits = 0 /\ w.at = "asleep"
         /\ w.sem = [space[p] EXCEPT !.waiters = @ \union {t}]
      \/ ~space[p].valid /\ w.at = "granted" /\ w.sem = space[p]
      \/ space[p].valid /\ space[p].permits # 0 /\ w.at = "granted"
         /\ w.sem = [space[p] EXCEPT !.permits = @ - 1]
  BY DEF Waited
<1> HIDE DEF p, w
<1>6. /\ w.sem.waiters = space[p].waiters \/ w.sem.waiters = space[p].waiters \union {t}
      /\ w.sem.waiters # space[p].waiters => w.at = "asleep"
      /\ w.sem.valid = space[p].valid
  BY <1>4, <1>5 DEF Semaphores
<1>7. t \notin space[p].waiters /\ \A q \in Pipes : t \notin bytes[q].waiters
  BY <1>1 DEF Placed, WaitersAsleep, SleepsIn
<1>8. WaitersAsleep'
  BY <1>1, <1>2, <1>3, <1>4, <1>6, <1>7 DEF Placed, WaitersAsleep, SleepsIn, MovedOn, p
<1>9. Fresh'
  BY <1>1, <1>2, <1>3, <1>4 DEF Placed, Fresh, MovedOn, p
<1>10. InUse'
  BY <1>2, <1>4, <1>6 DEF Placed, InUse
<1>11. ASSUME NEW q \in Pipes, Counted(q) PROVE Counted(q)'
  <2>1. Inside(q)' = Inside(q) /\ Readers(q)' = Readers(q)
    BY <1>1, <1>2, <1>3, SameInside DEF Readers, Reserved, MovedOn
  <2>2. ReadsCounted(q)'
    BY <2>1, <1>2, <1>11, SameReads DEF Counted
  <2>3. CASE q # p
    <3>1. Writers(q)' = Writers(q)
      BY <2>3, <1>1, <1>2, <1>3, <1>4 DEF Writers, Reserved, MovedOn, p
    <3> QED
      BY <2>1, <2>2, <2>3, <3>1, <1>2, <1>4, <1>11, SameWrites DEF Counted
  <2>4. CASE q = p /\ ~space[p].valid
    <3>1. ~space'[p].valid
      BY <2>4, <1>4, <1>6
    <3> QED
      BY <2>2, <2>4, <3>1 DEF Counted, WritesCounted
  <2>5. CASE q = p /\ space[p].valid /\ w.at = "asleep"
    <3>1. Writers(q)' = Writers(q)
      BY <2>5, <1>1, <1>3, <1>4, <1>5 DEF Writers, Reserved, MovedOn, p, Semaphores
    <3>2. space'[p].permits = space[p].permits
      BY <2>5, <1>4, <1>5 DEF Semaphores
    <3> QED
      BY <2>1, <2>2, <2>5, <3>1, <3>2, <1>2, <1>11, SameWrites DEF Counted
  <2>6. CASE q = p /\ space[p].valid /\ w.at = "granted"
    <3>1. Writers(q)' = Writers(q) \union {t} /\ t \notin Writers(q)
      BY <2>6, <1>1, <1>3, <1>4, <1>5 DEF Writers, Reserved, MovedOn, p, Semaphores
    <3>2. Cardinality(Writers(q)') = Cardinality(Writers(q)) + 1
      BY <3>1, ReserveMoves DEF Writers
    <3>3. space'[q].permits = space[q].permits - 1
      BY <2>6, <1>4, <1>5 DEF Semaphores
    <3>4. WritesCounted(q)'
      BY <2>1, <2>6, <3>2, <3>3, <1>2, <1>11, Numbers DEF Counted, WritesCounted, Placed
    <3> QED
      BY <2>2, <3>4 DEF Counted
  <2> QED
    BY <2>3, <2>4, <2>5, <2>6, <1>5
<1> QED
  BY <1>8, <1>9, <1>10, <1>11 DEF Balanced

LEMMA ReadWaitPlaced ==
  ASSUME Placed, NEW t \in Threads, ReadWait(t)
  PROVE  Balanced
<1> DEFINE p == call[t].p
           w == Waited(bytes[p], t)
<1>1. /\ call[t] # Idle /\ call[t].op = "read" /\ call[t].at = "wait" /\ p \in Pipes
      /\ p \in opened
  <2>1. call[t] # Idle /\ call[t].op = "read" /\ call[t].at = "wait"
    BY DEF ReadWait, At
  <2>2. p \in Pipes
    BY <2>1, CallIs DEF Placed, Typed
  <2> QED
    BY <2>1, <2>2 DEF Placed, Fresh
<1>2. /\ call' = [call EXCEPT ![t].at = w.at]
      /\ bytes' = [bytes EXCEPT ![p] = w.sem]
      /\ UNCHANGED <<pipe, opened, stale, sent, received, space>>
  BY DEF ReadWait, Waits
<1>3. MovedOn(t, w.at)
  BY <1>1, <1>2, AtMovesOn DEF Placed
<1>4. /\ bytes[p] \in Semaphores /\ bytes \in [Pipes -> Semaphores]
      /\ bytes' \in [Pipes -> Semaphores]
      /\ bytes'[p] = w.sem /\ \A q \in Pipes : q # p => bytes'[q] = bytes[q]
  BY <1>1, <1>2, WaitedType DEF Placed, Typed, TypeOK
<1>5. \/ bytes[p].valid /\ bytes[p].permits = 0 /\ w.at = "asleep"
         /\ w.sem = [bytes[p] EXCEPT !.waiters = @ \union {t}]
      \/ ~bytes[p].valid /\ w.at = "granted" /\ w.sem = bytes[p]
      \/ bytes[p].valid /\ bytes[p].permits # 0 /\ w.at = "granted"
         /\ w.sem = [bytes[p] EXCEPT !.permits = @ - 1]
  BY DEF Waited
<1> HIDE DEF p, w
<1>6. /\ w.sem.waiters = bytes[p].waiters \/ w.sem.waiters = bytes[p].waiters \union {t}
      /\ w.sem.waiters # bytes[p].waiters => w.at = "asleep"
      /\ w.sem.valid = bytes[p].valid
  BY <1>4, <1>5 DEF Semaphores
<1>7. t \notin bytes[p].waiters /\ \A q \in Pipes : t \notin space[q].waiters
  BY <1>1 DEF Placed, WaitersAsleep, SleepsIn
<1>8. WaitersAsleep'
  BY <1>1, <1>2, <1>3, <1>4, <1>6, <1>7 DEF Placed, WaitersAsleep, SleepsIn, MovedOn, p
<1>9. Fresh'
  BY <1>1, <1>2, <1>3, <1>4 DEF Placed, Fresh, MovedOn, p
<1>10. InUse'
  BY <1>2, <1>4, <1>6 DEF Placed, InUse
<1>11. ASSUME NEW q \in Pipes, Counted(q) PROVE Counted(q)'
  <2>1. Inside(q)' = Inside(q) /\ Writers(q)' = Writers(q)
    BY <1>1, <1>2, <1>3, SameInside DEF Writers, Reserved, MovedOn
  <2>2. WritesCounted(q)'
    BY <2>1, <1>2, <1>11, SameWrites DEF Counted
  <2>3. CASE q # p
    <3>1. Readers(q)' = Readers(q)
      BY <2>3, <1>1, <1>2, <1>3, <1>4 DEF Readers, Reserved, MovedOn, p
    <3> QED
      BY <2>1, <2>2, <2>3, <3>1, <1>2, <1>4, <1>11, SameReads DEF Counted
  <2>4. CASE q = p /\ ~bytes[p].valid
    <3>1. ~bytes'[p].valid
      BY <2>4, <1>4, <1>6
    <3> QED
      BY <2>2, <2>4, <3>1 DEF Counted, ReadsCounted
  <2>5. CASE q = p /\ bytes[p].valid /\ w.at = "asleep"
    <3>1. Readers(q)' = Readers(q)
      BY <2>5, <1>1, <1>3, <1>4, <1>5 DEF Readers, Reserved, MovedOn, p, Semaphores
    <3>2. bytes'[p].permits = bytes[p].permits
      BY <2>5, <1>4, <1>5 DEF Semaphores
    <3> QED
      BY <2>1, <2>2, <2>5, <3>1, <3>2, <1>2, <1>11, SameReads DEF Counted
  <2>6. CASE q = p /\ bytes[p].valid /\ w.at = "granted"
    <3>1. Readers(q)' = Readers(q) \union {t} /\ t \notin Readers(q)
      BY <2>6, <1>1, <1>3, <1>4, <1>5 DEF Readers, Reserved, MovedOn, p, Semaphores
    <3>2. Cardinality(Readers(q)') = Cardinality(Readers(q)) + 1
      BY <3>1, ReserveMoves DEF Readers
    <3>3. bytes'[q].permits = bytes[q].permits - 1
      BY <2>6, <1>4, <1>5 DEF Semaphores
    <3>4. ReadsCounted(q)'
      BY <2>1, <2>6, <3>2, <3>3, <1>2, <1>11, Numbers DEF Counted, ReadsCounted, Placed
    <3> QED
      BY <2>2, <3>4 DEF Counted
  <2> QED
    BY <2>3, <2>4, <2>5, <2>6, <1>5
<1> QED
  BY <1>8, <1>9, <1>10, <1>11 DEF Balanced

LEMMA OpenPlaced ==
  ASSUME Placed, NEW t \in Threads, NEW name \in Names, sysOpenPipe(t, name)
  PROVE  Balanced
<1>1. PICK p \in Pipes \ opened, page \in Pages \ (Taken \ {LowMemory}),
           qs \in Created, qb \in Created :
        /\ p \in Unused /\ \A q \in Unused : p <= q
        /\ pipe' = [pipe EXCEPT ![p] = [name |-> name, creator |-> t, used |-> TRUE, page |-> page,
                                        readIndex |-> 0, writeIndex |-> 0]]
        /\ space' = [space EXCEPT ![p] = setValue(qs)]
        /\ bytes' = [bytes EXCEPT ![p] = qb]
        /\ stale' = [stale EXCEPT ![p] = qb.permits]
        /\ opened' = opened \union {p}
        /\ UNCHANGED <<memory, call, busy, hung, owner, sent, received>>
  BY OpenDoes
<1>2. /\ qb \in Semaphores /\ qb.waiters = {} /\ setValue(qs).waiters = {}
      /\ setValue(qs).valid => setValue(qs).permits = LENGTH
  BY CreatedType
<1>3. /\ space'[p] = setValue(qs) /\ bytes'[p] = qb /\ stale'[p] = qb.permits
      /\ pipe'[p].used
      /\ \A q \in Pipes : q # p => /\ space'[q] = space[q] /\ bytes'[q] = bytes[q]
                                  /\ pipe'[q] = pipe[q] /\ stale'[q] = stale[q]
  BY <1>1 DEF Placed, Typed, TypeOK
<1>4. /\ sent[p] = <<>> /\ received[p] = <<>>
      /\ \A u \in Threads : call[u] # Idle => call[u].p # p
  BY DEF Placed, Fresh
<1>5. WaitersAsleep'
  BY <1>1, <1>2, <1>3 DEF Placed, WaitersAsleep, SleepsIn
<1>6. Fresh' /\ InUse'
  BY <1>1, <1>3 DEF Placed, Fresh, InUse
<1>7. ASSUME NEW q \in Pipes, Counted(q) PROVE Counted(q)'
  <2>1. Inside(q)' = Inside(q)
    BY <1>1, SameInside
  <2>2. CASE q # p
    <3>1. Writers(q)' = Writers(q) /\ Readers(q)' = Readers(q)
      BY <2>2, <1>1, <1>3 DEF Writers, Readers, Reserved
    <3> QED
      BY <2>1, <2>2, <3>1, <1>3, <1>7, SameReads, SameWrites DEF Counted
  <2>3. CASE q = p
    <3>1. Writers(q)' = {} /\ Readers(q)' = {}
      BY <2>3, <1>1, <1>4 DEF Writers, Readers, Reserved
    <3>2. Cardinality(Writers(q)') = 0 /\ Cardinality(Readers(q)') = 0
      BY <3>1, FS_EmptySet
    <3>3. Inside(q)' = 0
      BY <2>1, <2>3, <1>4 DEF Inside
    <3>4. ReadsCounted(q)'
      BY <2>3, <3>2, <3>3, <1>2, <1>3 DEF ReadsCounted, Semaphores
    <3>5. WritesCounted(q)'
      BY <2>3, <3>2, <3>3, <1>2, <1>3, PipeAssumption DEF WritesCounted
    <3> QED
      BY <3>4, <3>5 DEF Counted
  <2> QED
    BY <2>2, <2>3
<1> QED
  BY <1>5, <1>6, <1>7 DEF Balanced

LEMMA EnterPlaced ==
  ASSUME Placed, NEW t \in Threads, NEW c \in WriteCalls \union ReadCalls,
         c.at = "wait", Enter(t, c)
  PROVE  Balanced
<1>1. call[t] = Idle /\ c.p \in Pipes /\ pipe[c.p].used
  BY DEF Enter, Runs, isValidPipe
<1>2. /\ call'[t] = c /\ \A u \in Threads : u # t => call'[u] = call[u]
      /\ UNCHANGED <<pipe, space, bytes, opened, stale, sent, received>>
  BY DEF Enter, Placed, Typed, TypeOK
<1>3. WaitersAsleep'
  BY <1>1, <1>2 DEF Placed, WaitersAsleep, SleepsIn
<1>4. Fresh' /\ InUse'
  BY <1>1, <1>2 DEF Placed, Fresh, InUse
<1>5. ASSUME NEW q \in Pipes, Counted(q) PROVE Counted(q)'
  <2>1. Readers(q)' = Readers(q) /\ Writers(q)' = Writers(q)
    BY <1>1, <1>2 DEF Readers, Writers, Reserved
  <2> QED
    BY <2>1, <1>2, <1>5, SameInside, SameReads, SameWrites DEF Counted
<1> QED
  BY <1>3, <1>4, <1>5 DEF Balanced

LEMMA ClosePlaced ==
  ASSUME Placed, NEW t \in Threads, NEW h \in CloseHandles, sysClosePipe(t, h)
  PROVE  Balanced
<1>1. /\ h \in Pipes /\ pipe[h].used /\ hung' \in BOOLEAN
      /\ pipe' = [pipe EXCEPT ![h].used = hung']
      /\ \A q \in Pipes :
           /\ space'[q].permits = space[q].permits /\ space'[q].waiters = space[q].waiters
           /\ bytes'[q].permits = bytes[q].permits /\ bytes'[q].waiters = bytes[q].waiters
           /\ space'[q].valid <=> (space[q].valid /\ (q = h => hung'))
           /\ bytes'[q].valid <=> (bytes[q].valid /\ (q = h => hung'))
      /\ UNCHANGED <<memory, call, busy, opened, stale, owner, sent, received>>
  BY CloseDoes DEF Placed, Typed
<1>2. pipe'[h].used = hung' /\ \A q \in Pipes : q # h => pipe'[q] = pipe[q]
  BY <1>1 DEF Placed, Typed, TypeOK
<1>3. WaitersAsleep'
  BY <1>1 DEF Placed, WaitersAsleep, SleepsIn
<1>4. Fresh' /\ InUse'
  BY <1>1, <1>2 DEF Placed, Fresh, InUse
<1>5. ASSUME NEW q \in Pipes, Counted(q) PROVE Counted(q)'
  <2>1. Readers(q)' = Readers(q) /\ Writers(q)' = Writers(q)
    BY <1>1 DEF Readers, Writers, Reserved
  <2> QED
    BY <2>1, <1>1, <1>5, SameInside, SameReads, SameWrites DEF Counted
<1> QED
  BY <1>3, <1>4, <1>5 DEF Balanced

LEMMA OthersPlaced ==
  ASSUME Placed, NEW a \in Reached, OthersWrite(a)
  PROVE  Balanced
<1>1. UNCHANGED <<pipe, space, bytes, call, opened, stale, sent, received>>
  BY DEF OthersWrite
<1>2. WaitersAsleep' /\ Fresh' /\ InUse'
  BY <1>1 DEF Placed, WaitersAsleep, SleepsIn, Fresh, InUse
<1>3. ASSUME NEW q \in Pipes, Counted(q) PROVE Counted(q)'
  <2>1. Readers(q)' = Readers(q) /\ Writers(q)' = Writers(q)
    BY <1>1 DEF Readers, Writers, Reserved
  <2> QED
    BY <2>1, <1>1, <1>3, SameInside, SameReads, SameWrites DEF Counted
<1> QED
  BY <1>2, <1>3 DEF Balanced

LEMMA ResumePlaced ==
  ASSUME Placed, NEW t \in Threads, Resume(t)
  PROVE  Balanced
<1>1. /\ call[t] # Idle /\ call[t].at = "asleep"
      /\ t \notin space[call[t].p].waiters /\ t \notin bytes[call[t].p].waiters
      /\ call' = [call EXCEPT ![t].at = "granted"]
      /\ UNCHANGED <<pipe, space, bytes, opened, stale, sent, received>>
  BY DEF Resume
<1>2. MovedOn(t, "granted")
  BY <1>1, AtMovesOn DEF Placed
<1>3. WaitersAsleep'
  BY <1>1, <1>2 DEF Placed, WaitersAsleep, SleepsIn, MovedOn
<1>4. Fresh' /\ InUse'
  BY <1>1, <1>2 DEF Placed, Fresh, InUse, MovedOn
<1>5. ASSUME NEW q \in Pipes, Counted(q) PROVE Counted(q)'
  <2>1. Readers(q)' = Readers(q)
    BY <1>1, <1>2 DEF Readers, Reserved, MovedOn
  <2>2. Writers(q)' = Writers(q)
    BY <1>1, <1>2 DEF Writers, Reserved, MovedOn
  <2> QED
    BY <2>1, <2>2, <1>1, <1>5, SameInside, SameReads, SameWrites DEF Counted
<1> QED
  BY <1>3, <1>4, <1>5 DEF Balanced

\* The state after a byte of thread t's call is done.
ByteDone(t) ==
  /\ \A u \in Threads : u # t => call'[u] = call[u]
  /\ \/ call'[t] = Idle
     \/ call'[t] # Idle /\ call'[t].at = "wait" /\ call'[t].p = call[t].p

LEMMA MovesDone ==
  ASSUME Typed, NEW t \in Threads, call[t] # Idle, NEW r, NEW done \in BOOLEAN,
         Moves(t, r, done)
  PROVE  ByteDone(t)
<1>1. call[t] \in WriteCalls \union ReadCalls
  BY CallIs DEF Typed
<1>2. CASE done
  <2>1. call' = [call EXCEPT ![t] = Idle]
    BY <1>2 DEF Moves
  <2> QED
    BY <2>1 DEF ByteDone, Typed, TypeOK
<1>3. CASE ~done
  <2> DEFINE c == [call[t] EXCEPT !.at = "wait", !.left = r]
  <2>1. call' = [call EXCEPT ![t] = c]
    BY <1>3 DEF Moves, Typed, TypeOK
  <2>2. c.at = "wait" /\ c.p = call[t].p /\ c.op \in {"write", "read"}
    BY <1>1 DEF WriteCalls, ReadCalls
  <2>3. c # Idle
    BY <2>2 DEF Idle
  <2> HIDE DEF c
  <2> QED
    BY <2>1, <2>2, <2>3 DEF ByteDone, Typed, TypeOK
<1> QED
  BY <1>2, <1>3

LEMMA WriteBytePlaced ==
  ASSUME Placed, NEW t \in Threads, WriteByte(t)
  PROVE  Balanced
<1>1. PICK p \in Pipes, b \in Bytes, z \in Semaphores :
        /\ call[t] # Idle /\ call[t].op = "write" /\ call[t].at = "granted"
        /\ call[t].p = p
        /\ memory' = [memory EXCEPT ![Place(p, pipe[p].writeIndex)] = b]
        /\ owner' = [owner EXCEPT ![Place(p, pipe[p].writeIndex)] = p]
        /\ pipe' = [pipe EXCEPT ![p].writeIndex = nextWrite(@)]
        /\ z \in signal(bytes[p]) /\ bytes' = [bytes EXCEPT ![p] = z]
        /\ sent' = IF pipe[p].used THEN [sent EXCEPT ![p] = Append(@, b)] ELSE sent
        /\ (\E rest \in Seq(Bytes) : Moves(t, rest, rest = <<>>))
        /\ UNCHANGED <<space, hung, opened, stale, received>>
  BY WriteByteDoes DEF Placed
<1>2. ByteDone(t) /\ p \in opened
  BY <1>1, MovesDone DEF Placed, Fresh
<1>3. bytes[p] \in Semaphores /\ bytes \in [Pipes -> Semaphores]
  BY DEF Placed, Typed, TypeOK
<1>4. bytes'[p] = z /\ z.waiters \subseteq bytes[p].waiters /\ z.valid = bytes[p].valid
  BY <1>1, <1>3, SignalWaiters
<1>5. \A q \in Pipes : pipe'[q].used = pipe[q].used
  BY <1>1 DEF Placed, Typed, TypeOK
<1>6. \A q \in Pipes : q # p => bytes'[q] = bytes[q] /\ sent'[q] = sent[q]
  BY <1>1, <1>3 DEF Placed, Typed, TypeOK
<1>7. WaitersAsleep'
  BY <1>1, <1>2, <1>4, <1>6 DEF Placed, WaitersAsleep, SleepsIn, ByteDone
<1>8. Fresh' /\ InUse'
  BY <1>1, <1>2, <1>4, <1>5, <1>6 DEF Placed, Fresh, InUse, ByteDone
<1>9. ASSUME NEW q \in Pipes, Counted(q) PROVE Counted(q)'
  <2>1. CASE q # p
    <3>1. Readers(q)' = Readers(q) /\ Writers(q)' = Writers(q)
      BY <2>1, <1>1, <1>2, <1>6 DEF Readers, Writers, Reserved, ByteDone
    <3>2. Inside(q)' = Inside(q)
      BY <2>1, <1>1, <1>6 DEF Inside
    <3> QED
      BY <2>1, <3>1, <3>2, <1>1, <1>6, <1>9, SameReads, SameWrites DEF Counted
  <2>2. CASE q = p /\ ~pipe[p].used
    <3>1. ~space'[p].valid /\ ~bytes'[p].valid
      BY <2>2, <1>5, <1>8 DEF InUse
    <3> QED
      BY <2>2, <3>1 DEF Counted, ReadsCounted, WritesCounted
  <2>3. CASE q = p /\ pipe[p].used
    <3>1. t \in Writers(p) /\ Writers(p)' = Writers(p) \ {t}
      BY <1>1, <1>2 DEF Writers, Reserved, ByteDone
    <3>2. Cardinality(Writers(p)') = Cardinality(Writers(p)) - 1
      BY <3>1, ReserveMoves DEF Writers
    <3>3. Inside(p)' = Inside(p) + 1
      <4>1. sent'[p] = Append(sent[p], b) /\ received'[p] = received[p]
        BY <2>3, <1>1 DEF Placed, Typed, TypeOK
      <4>2. Len(sent[p]) \in Nat /\ Len(received[p]) \in Nat /\ Len(sent'[p]) = Len(sent[p]) + 1
        BY <4>1 DEF Placed, Typed, TypeOK
      <4> QED
        BY <4>1, <4>2 DEF Inside
    <3>4. /\ Inside(p) \in Int /\ LENGTH \in Nat /\ stale[p] \in Nat
          /\ bytes[p].permits \in Nat /\ Cardinality(Readers(p)) \in Nat
          /\ space[p].permits \in Nat /\ Cardinality(Writers(p)) \in Nat
      BY Numbers DEF Placed
    <3>5. WritesCounted(p)'
      <4>1. WritesCounted(p)
        BY <2>3, <1>9 DEF Counted
      <4>2. UNCHANGED <<stale, space>>
        BY <1>1
      <4>3. space[p].valid => LENGTH - (Inside(p) + 1) = space[p].permits + (Cardinality(Writers(p)) - 1)
        BY <3>4, <4>1 DEF WritesCounted
      <4> QED
        BY <3>2, <3>3, <4>2, <4>3 DEF WritesCounted
    <3>6. CASE ~bytes[p].valid
      BY <2>3, <3>5, <3>6, <1>4 DEF Counted, ReadsCounted
    <3>7. CASE bytes[p].valid /\ bytes[p].waiters = {}
      <4>1. z.permits = bytes[p].permits + 1 /\ z.waiters = {}
        BY <3>7, <1>1, <1>3 DEF signal, Semaphores
      <4>2. Readers(p)' = Readers(p)
        BY <3>7, <4>1, <1>1, <1>2, <1>4 DEF Readers, Reserved, ByteDone
      <4>3. ReadsCounted(p)
        BY <2>3, <1>9 DEF Counted
      <4>4. bytes'[p].permits = bytes[p].permits + 1 /\ UNCHANGED stale
        BY <4>1, <1>1, <1>4
      <4>5. (Inside(p) + 1) + stale[p] = (bytes[p].permits + 1) + Cardinality(Readers(p))
        BY <3>4, <3>7, <4>3 DEF ReadsCounted
      <4>6. ReadsCounted(p)'
        BY <3>3, <4>2, <4>4, <4>5 DEF ReadsCounted
      <4> QED
        BY <2>3, <3>5, <4>6 DEF Counted
    <3>8. CASE bytes[p].valid /\ bytes[p].waiters # {}
      <4>1. PICK u \in bytes[p].waiters : z = [bytes[p] EXCEPT !.waiters = @ \ {u}]
        BY <3>8, <1>1 DEF signal
      <4>2. /\ z.permits = bytes[p].permits /\ z.waiters = bytes[p].waiters \ {u}
            /\ u \in Threads
        BY <4>1, <1>3 DEF Semaphores
      <4>3. SleepsIn(u, "read", p) /\ u # t
        BY <4>2, <1>1 DEF Placed, WaitersAsleep, SleepsIn
      <4>4. Readers(p)' = Readers(p) \union {u} /\ u \notin Readers(p)
        BY <4>2, <4>3, <1>1, <1>2, <1>4 DEF Readers, Reserved, ByteDone, SleepsIn
      <4>5. Cardinality(Readers(p)') = Cardinality(Readers(p)) + 1
        BY <4>4, ReserveMoves DEF Readers
      <4>6. ReadsCounted(p)
        BY <2>3, <1>9 DEF Counted
      <4>7. bytes'[p].permits = bytes[p].permits /\ UNCHANGED stale
        BY <4>2, <1>1, <1>4
      <4>8. (Inside(p) + 1) + stale[p] = bytes[p].permits + (Cardinality(Readers(p)) + 1)
        BY <3>4, <3>8, <4>6 DEF ReadsCounted
      <4>9. ReadsCounted(p)'
        BY <3>3, <4>5, <4>7, <4>8 DEF ReadsCounted
      <4> QED
        BY <2>3, <3>5, <4>9 DEF Counted
    <3> QED
      BY <3>6, <3>7, <3>8
  <2> QED
    BY <2>1, <2>2, <2>3
<1> QED
  BY <1>7, <1>8, <1>9 DEF Balanced

LEMMA ReadBytePlaced ==
  ASSUME Placed, NEW t \in Threads, ReadByte(t)
  PROVE  Balanced
<1>1. PICK p \in Pipes, z \in Semaphores :
        /\ call[t] # Idle /\ call[t].op = "read" /\ call[t].at = "granted"
        /\ call[t].p = p
        /\ pipe' = [pipe EXCEPT ![p].readIndex = nextRead(@)]
        /\ z \in signal(space[p]) /\ space' = [space EXCEPT ![p] = z]
        /\ received' = IF pipe[p].used
                       THEN [received EXCEPT
                               ![p] = Append(@, memory[Place(p, pipe[p].readIndex)])]
                       ELSE received
        /\ (\E rest \in Nat : Moves(t, rest, rest = 0))
        /\ UNCHANGED <<memory, bytes, hung, opened, stale, owner, sent>>
  BY ReadByteDoes DEF Placed
<1>2. ByteDone(t) /\ p \in opened
  BY <1>1, MovesDone DEF Placed, Fresh
<1>3. space[p] \in Semaphores /\ space \in [Pipes -> Semaphores]
  BY DEF Placed, Typed, TypeOK
<1>4. space'[p] = z /\ z.waiters \subseteq space[p].waiters /\ z.valid = space[p].valid
  BY <1>1, <1>3, SignalWaiters
<1>5. \A q \in Pipes : pipe'[q].used = pipe[q].used
  BY <1>1 DEF Placed, Typed, TypeOK
<1>6. \A q \in Pipes : q # p => space'[q] = space[q] /\ received'[q] = received[q]
  BY <1>1, <1>3 DEF Placed, Typed, TypeOK
<1>7. WaitersAsleep'
  BY <1>1, <1>2, <1>4, <1>6 DEF Placed, WaitersAsleep, SleepsIn, ByteDone
<1>8. Fresh' /\ InUse'
  BY <1>1, <1>2, <1>4, <1>5, <1>6 DEF Placed, Fresh, InUse, ByteDone
<1>9. ASSUME NEW q \in Pipes, Counted(q) PROVE Counted(q)'
  <2>1. CASE q # p
    <3>1. Readers(q)' = Readers(q) /\ Writers(q)' = Writers(q)
      BY <2>1, <1>1, <1>2, <1>6 DEF Readers, Writers, Reserved, ByteDone
    <3>2. Inside(q)' = Inside(q)
      BY <2>1, <1>1, <1>6 DEF Inside
    <3> QED
      BY <2>1, <3>1, <3>2, <1>1, <1>6, <1>9, SameReads, SameWrites DEF Counted
  <2>2. CASE q = p /\ ~pipe[p].used
    <3>1. ~space'[p].valid /\ ~bytes'[p].valid
      BY <2>2, <1>5, <1>8 DEF InUse
    <3> QED
      BY <2>2, <3>1 DEF Counted, ReadsCounted, WritesCounted
  <2>3. CASE q = p /\ pipe[p].used
    <3>1. t \in Readers(p) /\ Readers(p)' = Readers(p) \ {t}
      BY <1>1, <1>2 DEF Readers, Reserved, ByteDone
    <3>2. Cardinality(Readers(p)') = Cardinality(Readers(p)) - 1
      BY <3>1, ReserveMoves DEF Readers
    <3>3. Inside(p)' = Inside(p) - 1
      <4>1. received'[p] = Append(received[p], memory[Place(p, pipe[p].readIndex)]) /\ sent'[p] = sent[p]
        BY <2>3, <1>1 DEF Placed, Typed, TypeOK
      <4>2. Len(received[p]) \in Nat /\ Len(sent[p]) \in Nat /\ Len(received'[p]) = Len(received[p]) + 1
        BY <4>1 DEF Placed, Typed, TypeOK
      <4> QED
        BY <4>1, <4>2 DEF Inside
    <3>4. /\ Inside(p) \in Int /\ LENGTH \in Nat /\ stale[p] \in Nat
          /\ bytes[p].permits \in Nat /\ Cardinality(Readers(p)) \in Nat
          /\ space[p].permits \in Nat /\ Cardinality(Writers(p)) \in Nat
      BY Numbers DEF Placed
    <3>5. ReadsCounted(p)'
      <4>1. ReadsCounted(p)
        BY <2>3, <1>9 DEF Counted
      <4>2. UNCHANGED <<stale, bytes>>
        BY <1>1
      <4>3. bytes[p].valid => (Inside(p) - 1) + stale[p] = bytes[p].permits + (Cardinality(Readers(p)) - 1)
        BY <3>4, <4>1 DEF ReadsCounted
      <4> QED
        BY <3>2, <3>3, <4>2, <4>3 DEF ReadsCounted
    <3>6. CASE ~space[p].valid
      BY <2>3, <3>5, <3>6, <1>4 DEF Counted, WritesCounted
    <3>7. CASE space[p].valid /\ space[p].waiters = {}
      <4>1. z.permits = space[p].permits + 1 /\ z.waiters = {}
        BY <3>7, <1>1, <1>3 DEF signal, Semaphores
      <4>2. Writers(p)' = Writers(p)
        BY <3>7, <4>1, <1>1, <1>2, <1>4 DEF Writers, Reserved, ByteDone
      <4>3. WritesCounted(p)
        BY <2>3, <1>9 DEF Counted
      <4>4. space'[p].permits = space[p].permits + 1 /\ UNCHANGED stale
        BY <4>1, <1>1, <1>4
      <4>5. LENGTH - (Inside(p) - 1) = (space[p].permits + 1) + Cardinality(Writers(p))
        BY <3>4, <3>7, <4>3 DEF WritesCounted
      <4>6. WritesCounted(p)'
        BY <3>3, <4>2, <4>4, <4>5 DEF WritesCounted
      <4> QED
        BY <2>3, <3>5, <4>6 DEF Counted
    <3>8. CASE space[p].valid /\ space[p].waiters # {}
      <4>1. PICK u \in space[p].waiters : z = [space[p] EXCEPT !.waiters = @ \ {u}]
        BY <3>8, <1>1 DEF signal
      <4>2. /\ z.permits = space[p].permits /\ z.waiters = space[p].waiters \ {u}
            /\ u \in Threads
        BY <4>1, <1>3 DEF Semaphores
      <4>3. SleepsIn(u, "write", p) /\ u # t
        BY <4>2, <1>1 DEF Placed, WaitersAsleep, SleepsIn
      <4>4. Writers(p)' = Writers(p) \union {u} /\ u \notin Writers(p)
        BY <4>2, <4>3, <1>1, <1>2, <1>4 DEF Writers, Reserved, ByteDone, SleepsIn
      <4>5. Cardinality(Writers(p)') = Cardinality(Writers(p)) + 1
        BY <4>4, ReserveMoves DEF Writers
      <4>6. WritesCounted(p)
        BY <2>3, <1>9 DEF Counted
      <4>7. space'[p].permits = space[p].permits /\ UNCHANGED stale
        BY <4>2, <1>1, <1>4
      <4>8. LENGTH - (Inside(p) - 1) = space[p].permits + (Cardinality(Writers(p)) + 1)
        BY <3>4, <3>8, <4>6 DEF WritesCounted
      <4>9. WritesCounted(p)'
        BY <3>3, <4>5, <4>7, <4>8 DEF WritesCounted
      <4> QED
        BY <2>3, <3>5, <4>9 DEF Counted
    <3> QED
      BY <3>6, <3>7, <3>8
  <2> QED
    BY <2>1, <2>2, <2>3
<1> QED
  BY <1>7, <1>8, <1>9 DEF Balanced

--------------------------------------------------------------------------------
(* The pages *)

\* Pipes are opened from the lowest slot up, so that none is opened once one
\* was closed, and two buffers share no page unless neither has one.
LowestFirst == \A p \in opened, q \in Pipes : q < p => q \in opened

PagesApart ==
  \A p, q \in opened : p # q /\ pipe[p].page # LowMemory => pipe[p].page # pipe[q].page

Laid == LowestFirst /\ PagesApart

LEMMA OpenLaid ==
  ASSUME Placed, Laid, NEW t \in Threads, NEW name \in Names, sysOpenPipe(t, name)
  PROVE  Laid'
<1>1. PICK p \in Pipes \ opened, page \in Pages \ (Taken \ {LowMemory}),
           qs \in Created, qb \in Created :
        /\ p \in Unused /\ \A q \in Unused : p <= q
        /\ pipe' = [pipe EXCEPT ![p] = [name |-> name, creator |-> t, used |-> TRUE, page |-> page,
                                        readIndex |-> 0, writeIndex |-> 0]]
        /\ space' = [space EXCEPT ![p] = setValue(qs)]
        /\ bytes' = [bytes EXCEPT ![p] = qb]
        /\ stale' = [stale EXCEPT ![p] = qb.permits]
        /\ opened' = opened \union {p}
        /\ UNCHANGED <<memory, call, busy, hung, owner, sent, received>>
  BY OpenDoes
<1>2. opened \subseteq Pipes /\ Pipes \subseteq Int
  BY PipeAssumption DEF Placed, Typed, TypeOK, Pipes
<1>3. /\ pipe'[p].page = page
      /\ \A q \in Pipes : q # p => pipe'[q] = pipe[q]
  BY <1>1 DEF Placed, Typed, TypeOK
<1>4. ASSUME NEW q \in Pipes, q < p PROVE q \in opened
  <2>1. pipe[q].used
    BY <1>1, <1>2, <1>4 DEF Unused
  <2> QED
    BY <2>1 DEF Placed, Fresh
<1>5. LowestFirst'
  BY <1>1, <1>2, <1>4 DEF Laid, LowestFirst
<1>6. ASSUME NEW q \in opened PROVE pipe[q].page \in Taken
  <2>1. ~(q < p)  => p < q
    BY <1>2
  <2>2. pipe[q].used
    <3>1. CASE q < p
      BY <3>1, <1>1, <1>2 DEF Unused
    <3>2. CASE p < q
      BY <3>2, <1>2 DEF Laid, LowestFirst
    <3> QED
      BY <2>1, <3>1, <3>2
  <2> QED
    BY <2>2, <1>2 DEF Taken
<1>7. PagesApart'
  <2>1. ASSUME NEW q \in opened, page # LowMemory PROVE pipe[q].page # page
    BY <2>1, <1>6
  <2>2. ASSUME NEW q \in opened, pipe[q].page # LowMemory PROVE pipe[q].page # page
    BY <2>2, <1>6
  <2> QED
    BY <2>1, <2>2, <1>1, <1>2, <1>3 DEF Laid, PagesApart
<1> QED
  BY <1>5, <1>7 DEF Laid

\* A step that opens no pipe.
LEMMA StillLaid ==
  ASSUME Laid, opened' = opened, \A p \in opened : pipe'[p].page = pipe[p].page
  PROVE  Laid'
BY DEF Laid, LowestFirst, PagesApart

LEMMA CellsApart ==
  ASSUME NEW page \in Nat, NEW i \in Cells
  PROVE  /\ \A j \in Cells : i # j => Cell(page, i) # Cell(page, j)
         /\ i # LENGTH => Cell(page, i)[1] = page
         /\ i \notin {0, LENGTH} =>
              \A other \in Nat, j \in Cells : Cell(other, j) = Cell(page, i) => other = page
<1> LENGTH \in Nat /\ LENGTH > 0 /\ i \in 0 .. LENGTH
  BY PipeAssumption DEF Cells
<1>1. \A j \in Cells : i # j => Cell(page, i) # Cell(page, j)
  BY DEF Cell, Cells
<1>2. i # LENGTH => Cell(page, i)[1] = page
  BY DEF Cell
<1>3. i \notin {0, LENGTH} =>
        \A other \in Nat, j \in Cells : Cell(other, j) = Cell(page, i) => other = page
  BY DEF Cell, Cells
<1> QED
  BY <1>1, <1>2, <1>3

LEMMA PageType ==
  ASSUME TypeOK, NEW p \in Pipes
  PROVE  pipe[p].page \in Nat
<1>1. pipe[p] \in Records
  BY DEF TypeOK, Records
<1>2. pipe[p].page \in Pages \union {LowMemory}
  BY <1>1 DEF Records
<1>3. Pages \subseteq Nat
  BY PipeAssumption
<1>4. CASE pipe[p].page \in Pages
  BY <1>3, <1>4
<1>5. CASE pipe[p].page = LowMemory
  BY <1>5 DEF LowMemory
<1> QED
  BY <1>2, <1>4, <1>5

\* Nobody else writes in the cells between the first and the one behind the last.
LEMMA InnerCells ==
  ASSUME Placed, Laid, NEW p \in Pipes, pipe[p].used, pipe[p].page # LowMemory,
         NEW i \in Cells \ {0, LENGTH}
  PROVE  /\ Place(p, i)[1] \in Taken \ {LowMemory}
         /\ \A q \in opened, j \in Cells : q # p => Place(q, j) # Place(p, i)
<1>1. p \in opened
  BY DEF Placed, Fresh
<1>2. Place(p, i)[1] = pipe[p].page
  BY PageType, CellsApart DEF Place, Placed, Typed
<1>3. pipe[p].page \in Taken
  BY DEF Taken
<1>4. ASSUME NEW q \in opened, NEW j \in Cells, q # p, Place(q, j) = Place(p, i)
      PROVE  FALSE
  <2>1. q \in Pipes
    BY DEF Placed, Typed, TypeOK
  <2>2. pipe[q].page \in Nat /\ pipe[p].page \in Nat
    BY <2>1, PageType DEF Placed, Typed
  <2>3. pipe[q].page = pipe[p].page
    BY <1>4, <2>2, CellsApart DEF Place
  <2> QED
    BY <1>1, <1>4, <2>3 DEF Laid, PagesApart
<1> QED
  BY <1>2, <1>3, <1>4

--------------------------------------------------------------------------------
(* The bytes in the buffer *)

LEMMA AheadFacts ==
  ASSUME NEW i \in Cells
  PROVE  /\ Ahead(i, 0) = i
         /\ \A n \in 0 .. LENGTH : Ahead(i, n) \in Cells
         /\ \A n \in 0 .. LENGTH - 1 : /\ nextWrite(Ahead(i, n)) = Ahead(i, n + 1)
                                       /\ Ahead(nextRead(i), n) = Ahead(i, n + 1)
         /\ \A m, n \in 0 .. LENGTH : m # n => Ahead(i, m) # Ahead(i, n)
<1> LENGTH \in Nat /\ LENGTH > 0 /\ i \in 0 .. LENGTH
  BY PipeAssumption DEF Cells
<1>1. Ahead(i, 0) = i
  BY DEF Ahead
<1>2. \A n \in 0 .. LENGTH : Ahead(i, n) \in Cells
  BY DEF Ahead, Cells
<1>3. \A n \in 0 .. LENGTH - 1 : nextWrite(Ahead(i, n)) = Ahead(i, n + 1)
  BY DEF Ahead, nextWrite
<1>4. \A n \in 0 .. LENGTH - 1 : Ahead(nextRead(i), n) = Ahead(i, n + 1)
  BY DEF Ahead, nextRead
<1>5. \A m, n \in 0 .. LENGTH : m # n => Ahead(i, m) # Ahead(i, n)
  BY DEF Ahead
<1> QED
  BY <1>1, <1>2, <1>3, <1>4, <1>5

\* Where byte n of those inside pipe p lies, and whether it is still p's.
Lies(p, n) == Place(p, Ahead(pipe[p].readIndex, n))

\* The bytes that were sent and not received lie in the buffer in their order,
\* from the reader's index to the writer's, but for those that others spoilt.
InOrder(p) ==
  Sound(p) =>
    /\ pipe[p].writeIndex = Ahead(pipe[p].readIndex, Inside(p))
    /\ \A n \in 0 .. Inside(p) - 1 :
         owner[Lies(p, n)] = p => memory[Lies(p, n)] = sent[p][Len(received[p]) + 1 + n]

\* SpoiltOnlyAtEnds for one pipe.
EndsOnly(p) ==
  Sound(p) /\ pipe[p].page # LowMemory =>
    \A n \in 0 .. Inside(p) - 1 :
      owner[Lies(p, n)] = p \/ Ahead(pipe[p].readIndex, n) \in {0, LENGTH}

Filled(p) == Counted(p) /\ InOrder(p) /\ EndsOnly(p)

\* A step of the pipe as its abstract queue sees it.
Queues(p) == Sound(p) => [Order(p)!Next]_<<sent[p], received[p]>> \/ ReadsSpoilt(p)

\* A sound pipe is in use, and never has more bytes inside than it has cells.
LEMMA SoundFacts ==
  ASSUME Placed, NEW p \in Pipes, Sound(p), Counted(p)
  PROVE  /\ pipe[p].used /\ p \in opened
         /\ Inside(p) \in 0 .. LENGTH
<1>1. pipe[p].used /\ p \in opened
  BY DEF Sound, Placed, InUse, Fresh
<1>2. /\ Inside(p) \in Int /\ LENGTH \in Nat
      /\ space[p].permits \in Nat /\ bytes[p].permits \in Nat
      /\ Cardinality(Writers(p)) \in Nat /\ Cardinality(Readers(p)) \in Nat
  BY Numbers DEF Placed
<1>3. Inside(p) + 0 = bytes[p].permits + Cardinality(Readers(p))
  BY DEF Counted, ReadsCounted, Sound
<1>4. LENGTH - Inside(p) = space[p].permits + Cardinality(Writers(p))
  BY DEF Counted, WritesCounted, Sound
<1>5. Inside(p) \in 0 .. LENGTH
  BY <1>2, <1>3, <1>4
<1> QED
  BY <1>1, <1>5

\* A writer that was let through finds a free cell, a reader a byte.
LEMMA RoomForOne ==
  ASSUME Placed, NEW t \in Threads, NEW p \in Pipes, Sound(p), Counted(p),
         call[t] # Idle, call[t].p = p, call[t].at = "granted"
  PROVE  /\ call[t].op = "write" => Inside(p) \in 0 .. LENGTH - 1
         /\ call[t].op = "read" => Inside(p) \in 1 .. LENGTH
<1>1. /\ call[t].op = "write" => t \in Writers(p)
      /\ call[t].op = "read" => t \in Readers(p)
  BY DEF Writers, Readers, Reserved
<1>2. /\ call[t].op = "write" => Cardinality(Writers(p)) > 0
      /\ call[t].op = "read" => Cardinality(Readers(p)) > 0
  BY <1>1, ReserveMoves DEF Writers, Readers
<1>3. /\ Inside(p) \in Int /\ LENGTH \in Nat /\ Inside(p) \in 0 .. LENGTH
      /\ space[p].permits \in Nat /\ bytes[p].permits \in Nat
      /\ Cardinality(Writers(p)) \in Nat /\ Cardinality(Readers(p)) \in Nat
  BY Numbers, SoundFacts DEF Placed
<1>4. Inside(p) + 0 = bytes[p].permits + Cardinality(Readers(p))
  BY DEF Counted, ReadsCounted, Sound
<1>5. LENGTH - Inside(p) = space[p].permits + Cardinality(Writers(p))
  BY DEF Counted, WritesCounted, Sound
<1>6. call[t].op = "write" => Inside(p) \in 0 .. LENGTH - 1
  BY <1>2, <1>3, <1>5
<1>7. call[t].op = "read" => Inside(p) \in 1 .. LENGTH
  BY <1>2, <1>3, <1>4
<1> QED
  BY <1>6, <1>7

\* The places of the bytes inside are different cells of the memory.
LEMMA LiesApart ==
  ASSUME Placed, NEW p \in Pipes
  PROVE  /\ \A n \in 0 .. LENGTH : Lies(p, n) \in Reached
         /\ \A m, n \in 0 .. LENGTH : m # n => Lies(p, m) # Lies(p, n)
<1>1. pipe[p].readIndex \in Cells /\ pipe[p].page \in Nat /\ TypeOK
  BY PageType DEF Placed, Typed, TypeOK
<1>2. \A n \in 0 .. LENGTH : Ahead(pipe[p].readIndex, n) \in Cells
  BY <1>1, AheadFacts
<1>3. \A m, n \in 0 .. LENGTH :
        m # n => Ahead(pipe[p].readIndex, m) # Ahead(pipe[p].readIndex, n)
  BY <1>1, AheadFacts
<1>4. \A n \in 0 .. LENGTH : Lies(p, n) \in Reached
  BY <1>1, <1>2, PlaceReached DEF Lies
<1>5. ASSUME NEW m \in 0 .. LENGTH, NEW n \in 0 .. LENGTH, m # n
      PROVE  Lies(p, m) # Lies(p, n)
  BY <1>1, <1>2, <1>3, <1>5, CellsApart DEF Lies, Place
<1> QED
  BY <1>4, <1>5

\* What has to stay for the bytes of a pipe to stay as they are: what others
\* write may fall on a cell of p, but on no inner cell of it.
Stays(p) ==
  /\ Sound(p)' => Sound(p)
  /\ sent'[p] = sent[p] /\ received'[p] = received[p]
  /\ pipe'[p].page = pipe[p].page
  /\ pipe'[p].readIndex = pipe[p].readIndex /\ pipe'[p].writeIndex = pipe[p].writeIndex
  /\ \A a \in Reached :
       \/ owner'[a] = owner[a] /\ memory'[a] = memory[a]
       \/ owner'[a] # p /\ \A i \in Cells \ {0, LENGTH} :
                             pipe[p].used /\ pipe[p].page # LowMemory => a # Place(p, i)

LEMMA StaysFilled ==
  ASSUME Placed, NEW p \in Pipes, Filled(p), Counted(p)', Stays(p)
  PROVE  Filled(p)' /\ Queues(p)
<1>1. Queues(p)
  BY DEF Stays, Queues
<1> SUFFICES ASSUME Sound(p)' PROVE InOrder(p)' /\ EndsOnly(p)'
  BY <1>1 DEF Filled, InOrder, EndsOnly
<1>2. Sound(p) /\ Inside(p)' = Inside(p)
  BY DEF Stays, Inside
<1>3. pipe[p].used /\ Inside(p) \in 0 .. LENGTH
  BY <1>2, SoundFacts DEF Filled
<1> DEFINE r == pipe[p].readIndex
<1>4. r \in Cells /\ LENGTH \in Nat
  BY PipeAssumption DEF Placed, Typed, TypeOK
<1>5. \A n \in 0 .. Inside(p) - 1 : n \in 0 .. LENGTH
  BY <1>3, <1>4
<1>6. ASSUME NEW n \in 0 .. Inside(p) - 1
      PROVE  Lies(p, n)' = Lies(p, n) /\ Lies(p, n) \in Reached
  <2>1. Lies(p, n)' = Lies(p, n)
    BY DEF Stays, Lies, Place, Cell, Ahead
  <2> QED
    BY <2>1, <1>5, LiesApart
<1>7. InOrder(p)'
  <2>1. pipe'[p].writeIndex = Ahead(r, Inside(p))
    BY <1>2 DEF Filled, InOrder, Stays
  <2>2. ASSUME NEW n \in 0 .. Inside(p) - 1, owner'[Lies(p, n)] = p
        PROVE  memory'[Lies(p, n)] = sent[p][Len(received[p]) + 1 + n]
    <3>1. owner[Lies(p, n)] = p /\ memory'[Lies(p, n)] = memory[Lies(p, n)]
      BY <1>6, <2>2 DEF Stays
    <3> QED
      BY <3>1, <1>2, <2>2 DEF Filled, InOrder
  <2>3. (pipe[p].writeIndex)' = Ahead(pipe[p].readIndex, Inside(p))'
    BY <2>1, <1>2 DEF Stays, Ahead
  <2> HIDE DEF r
  <2>4. ASSUME NEW n \in 0 .. Inside(p)' - 1, owner'[Lies(p, n)'] = p
        PROVE  memory'[Lies(p, n)'] = sent'[p][Len(received'[p]) + 1 + n]
    BY <1>2, <1>6, <2>2, <2>4 DEF Stays
  <2> QED
    BY <2>3, <2>4 DEF InOrder
<1>8. EndsOnly(p)'
  <2>1. ASSUME pipe'[p].page # LowMemory, NEW n \in 0 .. Inside(p)' - 1
        PROVE  owner'[Lies(p, n)'] = p \/ Ahead(pipe[p].readIndex, n)' \in {0, LENGTH}
    <3>1. n \in 0 .. Inside(p) - 1 /\ pipe[p].page # LowMemory
      BY <2>1, <1>2 DEF Stays
    <3>2. owner[Lies(p, n)] = p \/ Ahead(r, n) \in {0, LENGTH}
      BY <3>1, <1>2 DEF Filled, EndsOnly
    <3>3. Ahead(pipe[p].readIndex, n)' = Ahead(r, n)
      BY DEF Stays, Ahead
    <3>4. Ahead(r, n) \in Cells
      BY <3>1, <1>4, <1>5, AheadFacts
    <3>5. CASE Ahead(r, n) \in {0, LENGTH}
      BY <3>3, <3>5
    <3>6. CASE Ahead(r, n) \notin {0, LENGTH}
      <4>1. Lies(p, n) = Place(p, Ahead(r, n)) /\ owner[Lies(p, n)] = p
        BY <3>2, <3>6 DEF Lies
      <4>2. owner'[Lies(p, n)] = p
        BY <4>1, <3>1, <3>4, <3>6, <1>3, <1>6 DEF Stays
      <4> QED
        BY <4>2, <3>1, <1>6
    <3> QED
      BY <3>5, <3>6
  <2> QED
    BY <2>1 DEF EndsOnly
<1> QED
  BY <1>7, <1>8

\* The step of one byte leaves the other pipes' bytes alone.
LEMMA WriteByteStays ==
  ASSUME Placed, Laid, NEW t \in Threads, NEW p \in Pipes, NEW b \in Bytes, NEW q \in Pipes,
         call[t] # Idle, call[t].p = p,
         memory' = [memory EXCEPT ![Place(p, pipe[p].writeIndex)] = b],
         owner' = [owner EXCEPT ![Place(p, pipe[p].writeIndex)] = p],
         pipe' = [pipe EXCEPT ![p].writeIndex = nextWrite(@)],
         sent' = IF pipe[p].used THEN [sent EXCEPT ![p] = Append(@, b)] ELSE sent,
         received' = received, Sound(q)' => Sound(q),
         q # p
  PROVE  Stays(q)
<1> DEFINE x == Place(p, pipe[p].writeIndex)
<1>1. /\ sent'[q] = sent[q] /\ received'[q] = received[q] /\ pipe'[q] = pipe[q]
  BY DEF Placed, Typed, TypeOK
<1>2. pipe[p].writeIndex \in Cells
  BY DEF Placed, Typed, TypeOK
<1>3. x \in Reached
  BY <1>2, PlaceReached DEF Placed, Typed
<1>4. /\ owner'[x] = p
      /\ \A a \in Reached : a # x => owner'[a] = owner[a] /\ memory'[a] = memory[a]
  BY <1>3 DEF Placed, Typed, TypeOK
<1>5. p \in opened
  BY DEF Placed, Fresh
<1>6. ASSUME NEW i \in Cells \ {0, LENGTH}, pipe[q].used, pipe[q].page # LowMemory
      PROVE  x # Place(q, i)
  BY <1>2, <1>5, <1>6, InnerCells
<1> HIDE DEF x
<1> QED
  BY <1>1, <1>4, <1>6 DEF Stays

LEMMA WriteByteFilled ==
  ASSUME Placed, Laid, NEW t \in Threads, WriteByte(t), NEW q \in Pipes,
         Filled(q), Counted(q)'
  PROVE  Filled(q)' /\ Queues(q)
<1>1. PICK p \in Pipes, b \in Bytes, z \in Semaphores :
        /\ call[t] # Idle /\ call[t].op = "write" /\ call[t].at = "granted"
        /\ call[t].p = p
        /\ memory' = [memory EXCEPT ![Place(p, pipe[p].writeIndex)] = b]
        /\ owner' = [owner EXCEPT ![Place(p, pipe[p].writeIndex)] = p]
        /\ pipe' = [pipe EXCEPT ![p].writeIndex = nextWrite(@)]
        /\ z \in signal(bytes[p]) /\ bytes' = [bytes EXCEPT ![p] = z]
        /\ sent' = IF pipe[p].used THEN [sent EXCEPT ![p] = Append(@, b)] ELSE sent
        /\ (\E rest \in Seq(Bytes) : Moves(t, rest, rest = <<>>))
        /\ UNCHANGED <<space, hung, opened, stale, received>>
  BY WriteByteDoes DEF Placed
<1>2. Sound(q)' <=> Sound(q)
  <2>1. bytes[p] \in Semaphores /\ bytes \in [Pipes -> Semaphores]
    BY DEF Placed, Typed, TypeOK
  <2>2. bytes'[q].valid = bytes[q].valid
    BY <1>1, <2>1, SignalWaiters
  <2> QED
    BY <1>1, <2>2 DEF Sound
<1>3. CASE q # p
  BY <1>1, <1>2, <1>3, WriteByteStays, StaysFilled
<1>4. CASE q = p /\ ~Sound(p)
  BY <1>2, <1>4 DEF Filled, InOrder, EndsOnly, Queues
<1>5. CASE q = p /\ Sound(p)
  <2> DEFINE r == pipe[p].readIndex
             k == Inside(p)
             s == Len(sent[p])
             m == Len(received[p])
  <2>1. /\ r \in Cells /\ LENGTH \in Nat /\ pipe[p].used
        /\ k \in 0 .. LENGTH - 1
    BY <1>1, <1>5, PipeAssumption, RoomForOne, SoundFacts DEF Filled, Placed, Typed, TypeOK
  <2>2. s \in Nat /\ m \in Nat /\ k = s - m
    BY DEF Placed, Typed, TypeOK, Inside
  <2>3. /\ pipe[p].writeIndex = Ahead(r, k)
        /\ \A n \in 0 .. k - 1 :
             owner[Lies(p, n)] = p => memory[Lies(p, n)] = sent[p][m + 1 + n]
    BY <1>5 DEF Filled, InOrder
  <2>4. /\ pipe'[p].readIndex = r /\ pipe'[p].page = pipe[p].page
        /\ pipe'[p].writeIndex = nextWrite(Ahead(r, k))
    BY <1>1, <2>3 DEF Placed, Typed, TypeOK
  <2>5. sent'[p] = Append(sent[p], b) /\ received'[p] = received[p]
    BY <1>1, <2>1 DEF Placed, Typed, TypeOK
  <2>6. /\ memory' = [memory EXCEPT ![Lies(p, k)] = b]
        /\ owner' = [owner EXCEPT ![Lies(p, k)] = p]
    BY <1>1, <2>3 DEF Lies
  <2>7. /\ Len(sent'[p]) = s + 1 /\ sent'[p][s + 1] = b
        /\ \A j \in 1 .. s : sent'[p][j] = sent[p][j]
    BY <2>5 DEF Placed, Typed, TypeOK
  <2>8. Inside(p)' = k + 1
    <3>1. Len(received'[p]) = m
      BY <2>5
    <3> HIDE DEF s, m, k
    <3> QED
      BY <2>2, <2>7, <3>1 DEF Inside
  <2>9. Lies(p, k) \in Reached /\ \A n \in 0 .. k - 1 : /\ Lies(p, n) \in Reached
                                                      /\ Lies(p, n) # Lies(p, k)
    <3> HIDE DEF k
    <3> QED
      BY <2>1, LiesApart
  <2>10. \A n \in 0 .. k : Lies(p, n)' = Lies(p, n)
    BY <2>4 DEF Lies, Place, Cell, Ahead
  <2> HIDE DEF r, k, s, m
  <2>11. /\ owner'[Lies(p, k)] = p /\ memory'[Lies(p, k)] = b
         /\ \A n \in 0 .. k - 1 : /\ owner'[Lies(p, n)] = owner[Lies(p, n)]
                                  /\ memory'[Lies(p, n)] = memory[Lies(p, n)]
    BY <2>6, <2>9 DEF Placed, Typed, TypeOK
  <2>12. \A n \in 0 .. k : n = k \/ n \in 0 .. k - 1
    BY <2>1
  <2>13. InOrder(p)'
    <3>1. nextWrite(Ahead(r, k)) = Ahead(r, k + 1)
      BY <2>1, AheadFacts
    <3>2. (pipe[p].writeIndex)' = Ahead(pipe[p].readIndex, Inside(p))'
      BY <2>4, <2>8, <3>1 DEF Ahead
    <3>3. ASSUME NEW n \in 0 .. Inside(p)' - 1, owner'[Lies(p, n)'] = p
          PROVE  memory'[Lies(p, n)'] = sent'[p][Len(received'[p]) + 1 + n]
      <4>1. n \in 0 .. k /\ Lies(p, n)' = Lies(p, n) /\ Len(received'[p]) = m
        BY <2>1, <2>5, <2>8, <2>10 DEF m
      <4>2. CASE n = k
        <5>1. m + 1 + n = s + 1
          BY <2>2, <4>2
        <5> QED
          BY <4>1, <4>2, <5>1, <2>7, <2>11
      <4>3. CASE n \in 0 .. k - 1
        <5>1. m + 1 + n \in 1 .. s
          BY <2>1, <2>2, <4>3
        <5>2. memory'[Lies(p, n)] = sent[p][m + 1 + n]
          BY <3>3, <4>1, <4>3, <2>3, <2>11
        <5> QED
          BY <4>1, <5>1, <5>2, <2>7
      <4> QED
        BY <4>1, <4>2, <4>3, <2>12
    <3> QED
      BY <3>2, <3>3 DEF InOrder
  <2>14. EndsOnly(p)'
    <3>1. ASSUME pipe'[p].page # LowMemory, NEW n \in 0 .. Inside(p)' - 1
          PROVE  owner'[Lies(p, n)'] = p \/ Ahead(pipe[p].readIndex, n)' \in {0, LENGTH}
      <4>1. n \in 0 .. k /\ Lies(p, n)' = Lies(p, n) /\ pipe[p].page # LowMemory
        BY <3>1, <2>1, <2>4, <2>8, <2>10
      <4>2. CASE n = k
        BY <4>1, <4>2, <2>11
      <4>3. CASE n \in 0 .. k - 1
        <5>1. owner[Lies(p, n)] = p \/ Ahead(r, n) \in {0, LENGTH}
          BY <1>5, <4>1, <4>3 DEF Filled, EndsOnly, k, r
        <5>2. Ahead(pipe[p].readIndex, n)' = Ahead(r, n)
          BY <2>4 DEF Ahead
        <5> QED
          BY <4>1, <4>3, <5>1, <5>2, <2>11
      <4> QED
        BY <4>1, <4>2, <4>3, <2>12
    <3> QED
      BY <3>1 DEF EndsOnly
  <2>15. Queues(p)
    <3>1. s - m < LENGTH
      BY <2>1, <2>2
    <3> QED
      BY <3>1, <2>5 DEF Queues, Order!Next, Order!Put, s, m
  <2> QED
    BY <1>5, <2>13, <2>14, <2>15 DEF Filled
<1> QED
  BY <1>3, <1>4, <1>5

LEMMA ReadByteFilled ==
  ASSUME Placed, NEW t \in Threads, ReadByte(t), NEW q \in Pipes,
         Filled(q), Counted(q)'
  PROVE  Filled(q)' /\ Queues(q)
<1>1. PICK p \in Pipes, z \in Semaphores :
        /\ call[t] # Idle /\ call[t].op = "read" /\ call[t].at = "granted"
        /\ call[t].p = p
        /\ pipe' = [pipe EXCEPT ![p].readIndex = nextRead(@)]
        /\ z \in signal(space[p]) /\ space' = [space EXCEPT ![p] = z]
        /\ received' = IF pipe[p].used
                       THEN [received EXCEPT
                               ![p] = Append(@, memory[Place(p, pipe[p].readIndex)])]
                       ELSE received
        /\ (\E rest \in Nat : Moves(t, rest, rest = 0))
        /\ UNCHANGED <<memory, bytes, hung, opened, stale, owner, sent>>
  BY ReadByteDoes DEF Placed
<1>2. Sound(q)' <=> Sound(q)
  <2>1. space[p] \in Semaphores /\ space \in [Pipes -> Semaphores]
    BY DEF Placed, Typed, TypeOK
  <2>2. space'[q].valid = space[q].valid
    BY <1>1, <2>1, SignalWaiters
  <2> QED
    BY <1>1, <2>2 DEF Sound
<1>3. CASE q # p
  <2>1. sent'[q] = sent[q] /\ received'[q] = received[q] /\ pipe'[q] = pipe[q]
    BY <1>1, <1>3 DEF Placed, Typed, TypeOK
  <2>2. Stays(q)
    BY <1>1, <1>2, <2>1 DEF Stays
  <2> QED
    BY <2>2, StaysFilled
<1>4. CASE q = p /\ ~Sound(p)
  BY <1>2, <1>4 DEF Filled, InOrder, EndsOnly, Queues
<1>5. CASE q = p /\ Sound(p)
  <2> DEFINE r == pipe[p].readIndex
             k == Inside(p)
             s == Len(sent[p])
             m == Len(received[p])
             c == memory[Place(p, r)]
  <2>1. /\ r \in Cells /\ LENGTH \in Nat /\ pipe[p].used
        /\ k \in 1 .. LENGTH
    BY <1>1, <1>5, PipeAssumption, RoomForOne, SoundFacts DEF Filled, Placed, Typed, TypeOK
  <2>2. s \in Nat /\ m \in Nat /\ k = s - m
    BY DEF Placed, Typed, TypeOK, Inside
  <2>3. /\ pipe[p].writeIndex = Ahead(r, k)
        /\ \A n \in 0 .. k - 1 :
             owner[Lies(p, n)] = p => memory[Lies(p, n)] = sent[p][m + 1 + n]
    BY <1>5 DEF Filled, InOrder
  <2>4. /\ pipe'[p].readIndex = nextRead(r) /\ pipe'[p].page = pipe[p].page
        /\ pipe'[p].writeIndex = Ahead(r, k)
    BY <1>1, <2>3 DEF Placed, Typed, TypeOK
  <2>5. /\ received'[p] = Append(received[p], c) /\ sent'[p] = sent[p]
        /\ memory' = memory /\ owner' = owner
    BY <1>1, <2>1 DEF Placed, Typed, TypeOK
  <2>6. Len(received'[p]) = m + 1
    BY <2>5 DEF Placed, Typed, TypeOK
  <2>7. c \in Bytes \union {Garbage}
    BY <2>1, PlaceReached DEF Placed, Typed, TypeOK
  <2>8. Lies(p, 0) = Place(p, r)
    BY <2>1, AheadFacts DEF Lies
  <2> HIDE DEF r, k, s, m, c
  <2>9. Inside(p)' = k - 1
    BY <2>2, <2>5, <2>6 DEF Inside, s
  <2>10. /\ \A n \in 0 .. k - 1 : Ahead(nextRead(r), n) = Ahead(r, n + 1)
         /\ \A n \in 0 .. k - 2 : n \in 0 .. k - 1 /\ n + 1 \in 0 .. k - 1
    BY <2>1, AheadFacts
  <2>11. ASSUME NEW n \in 0 .. k - 2
         PROVE  /\ Ahead(pipe[p].readIndex, n)' = Ahead(r, n + 1)
                /\ Lies(p, n)' = Lies(p, n + 1)
    <3>1. Ahead(pipe[p].readIndex, n)' = Ahead(nextRead(r), n)
      BY <2>4 DEF Ahead
    <3>2. Ahead(pipe[p].readIndex, n)' = Ahead(r, n + 1)
      BY <3>1, <2>10
    <3>3. Lies(p, n)' = Cell(pipe[p].page, Ahead(pipe[p].readIndex, n)')
      BY <2>4 DEF Lies, Place, Cell
    <3> QED
      BY <3>2, <3>3 DEF Lies, Place, r
  <2>12. InOrder(p)'
    <3>1. Ahead(nextRead(r), k - 1) = Ahead(r, k)
      <4>1. k - 1 \in 0 .. k - 1 /\ (k - 1) + 1 = k
        BY <2>1
      <4> QED
        BY <4>1, <2>10
    <3>2. (pipe[p].writeIndex)' = Ahead(pipe[p].readIndex, Inside(p))'
      BY <3>1, <2>4, <2>9 DEF Ahead
    <3>3. ASSUME NEW n \in 0 .. Inside(p)' - 1, owner'[Lies(p, n)'] = p
          PROVE  memory'[Lies(p, n)'] = sent'[p][Len(received'[p]) + 1 + n]
      <4>1. n \in 0 .. k - 2
        BY <2>1, <2>9
      <4>2. n + 1 \in 0 .. k - 1 /\ m + 1 + (n + 1) = (m + 1) + 1 + n
        BY <4>1, <2>1, <2>2
      <4>3. owner[Lies(p, n + 1)] = p
        BY <3>3, <4>1, <2>5, <2>11
      <4>4. memory[Lies(p, n + 1)] = sent[p][m + 1 + (n + 1)]
        BY <4>2, <4>3, <2>3
      <4> QED
        BY <4>1, <4>2, <4>4, <2>5, <2>6, <2>11
    <3> QED
      BY <3>2, <3>3 DEF InOrder
  <2>13. EndsOnly(p)'
    <3>1. ASSUME pipe'[p].page # LowMemory, NEW n \in 0 .. Inside(p)' - 1
          PROVE  owner'[Lies(p, n)'] = p \/ Ahead(pipe[p].readIndex, n)' \in {0, LENGTH}
      <4>1. n \in 0 .. k - 2 /\ pipe[p].page # LowMemory
        BY <3>1, <2>1, <2>4, <2>9
      <4>2. n + 1 \in 0 .. k - 1
        BY <4>1, <2>10
      <4>3. owner[Lies(p, n + 1)] = p \/ Ahead(r, n + 1) \in {0, LENGTH}
        BY <1>5, <4>1, <4>2 DEF Filled, EndsOnly, k, r
      <4> QED
        BY <4>1, <4>3, <2>5, <2>11
    <3> QED
      BY <3>1 DEF EndsOnly
  <2>14. Queues(p)
    <3>1. CASE owner[Lies(p, 0)] = p
      <4>1. m < s /\ 0 \in 0 .. k - 1 /\ m + 1 + 0 = m + 1
        BY <2>1, <2>2
      <4>2. c = sent[p][m + 1]
        BY <3>1, <4>1, <2>3, <2>8 DEF c
      <4> QED
        BY <4>1, <4>2, <2>5 DEF Queues, Order!Next, Order!Take, m, s
    <3>2. CASE owner[Lies(p, 0)] # p
      BY <3>2, <2>5, <2>7, <2>8 DEF Queues, ReadsSpoilt, r
    <3> QED
      BY <3>1, <3>2
  <2> QED
    BY <1>5, <2>12, <2>13, <2>14 DEF Filled
<1> QED
  BY <1>3, <1>4, <1>5

LEMMA OpenFilled ==
  ASSUME Placed, NEW t \in Threads, NEW name \in Names, sysOpenPipe(t, name),
         NEW q \in Pipes, Filled(q), Counted(q)'
  PROVE  Filled(q)' /\ Queues(q)
<1>1. PICK p \in Pipes \ opened, page \in Pages \ (Taken \ {LowMemory}),
           qs \in Created, qb \in Created :
        /\ p \in Unused /\ \A u \in Unused : p <= u
        /\ pipe' = [pipe EXCEPT ![p] = [name |-> name, creator |-> t, used |-> TRUE, page |-> page,
                                        readIndex |-> 0, writeIndex |-> 0]]
        /\ space' = [space EXCEPT ![p] = setValue(qs)]
        /\ bytes' = [bytes EXCEPT ![p] = qb]
        /\ stale' = [stale EXCEPT ![p] = qb.permits]
        /\ opened' = opened \union {p}
        /\ UNCHANGED <<memory, call, busy, hung, owner, sent, received>>
  BY OpenDoes
<1>2. CASE q # p
  <2>1. /\ pipe'[q] = pipe[q] /\ space'[q] = space[q] /\ bytes'[q] = bytes[q]
        /\ stale'[q] = stale[q]
    BY <1>1, <1>2 DEF Placed, Typed, TypeOK
  <2>2. Stays(q)
    BY <1>1, <2>1 DEF Stays, Sound
  <2> QED
    BY <2>2, StaysFilled
<1>3. CASE q = p
  <2>1. pipe'[q].readIndex = 0 /\ pipe'[q].writeIndex = 0
    BY <1>1, <1>3 DEF Placed, Typed, TypeOK
  <2>2. Inside(q) = 0
    BY <1>3 DEF Placed, Fresh, Inside
  <2>3. Inside(q)' = 0
    BY <2>2, <1>1, SameInside
  <2>4. Ahead(0, 0) = 0
    BY AheadFacts, PipeAssumption DEF Cells
  <2>5. 0 .. Inside(q)' - 1 = {}
    BY <2>3
  <2>6. (pipe[q].writeIndex)' = Ahead(pipe[q].readIndex, Inside(q))'
    BY <2>1, <2>3, <2>4 DEF Ahead
  <2>7. Queues(q)
    BY <1>1 DEF Queues
  <2> QED
    BY <2>5, <2>6, <2>7 DEF Filled, InOrder, EndsOnly
<1> QED
  BY <1>2, <1>3

LEMMA CloseFilled ==
  ASSUME Placed, NEW t \in Threads, NEW h \in CloseHandles, sysClosePipe(t, h),
         NEW q \in Pipes, Filled(q), Counted(q)'
  PROVE  Filled(q)' /\ Queues(q)
<1>1. /\ h \in Pipes /\ pipe' = [pipe EXCEPT ![h].used = hung']
      /\ space'[q].valid => space[q].valid
      /\ bytes'[q].valid => bytes[q].valid
      /\ UNCHANGED <<memory, call, busy, opened, stale, owner, sent, received>>
  BY CloseDoes DEF Placed, Typed
<1>2. /\ pipe'[q].page = pipe[q].page
      /\ pipe'[q].readIndex = pipe[q].readIndex /\ pipe'[q].writeIndex = pipe[q].writeIndex
  BY <1>1 DEF Placed, Typed, TypeOK
<1>3. Stays(q)
  BY <1>1, <1>2 DEF Stays, Sound
<1> QED
  BY <1>3, StaysFilled

LEMMA OthersFilled ==
  ASSUME Placed, Laid, NEW a \in Reached, OthersWrite(a),
         NEW q \in Pipes, Filled(q), Counted(q)'
  PROVE  Filled(q)' /\ Queues(q)
<1>1. /\ a[1] \notin Taken \ {LowMemory}
      /\ memory' = [memory EXCEPT ![a] = Garbage] /\ owner' = [owner EXCEPT ![a] = Others]
      /\ UNCHANGED <<pipe, space, bytes, call, busy, hung, opened, stale, sent, received>>
  BY DEF OthersWrite
<1>2. Others # q
  BY DEF Others, Pipes
<1>3. \A x \in Reached : \/ owner'[x] = owner[x] /\ memory'[x] = memory[x]
                         \/ x = a /\ owner'[x] = Others
  BY <1>1 DEF Placed, Typed, TypeOK
<1>4. ASSUME NEW i \in Cells \ {0, LENGTH}, pipe[q].used, pipe[q].page # LowMemory
      PROVE  a # Place(q, i)
  BY <1>1, <1>4, InnerCells
<1>5. Stays(q)
  BY <1>1, <1>2, <1>3, <1>4 DEF Stays, Sound
<1> QED
  BY <1>5, StaysFilled

\* The other steps touch neither the memory nor the indices.
LEMMA QuietFilled ==
  ASSUME Placed, NEW q \in Pipes, Filled(q), Counted(q)',
         UNCHANGED <<pipe, memory, owner, stale, sent, received>>,
         space'[q].valid <=> space[q].valid, bytes'[q].valid <=> bytes[q].valid
  PROVE  Filled(q)' /\ Queues(q)
<1>1. Stays(q)
  BY DEF Stays, Sound
<1> QED
  BY <1>1, StaysFilled

LEMMA WaitFilled ==
  ASSUME Placed, NEW t \in Threads, WriteWait(t) \/ ReadWait(t),
         NEW q \in Pipes, Filled(q), Counted(q)'
  PROVE  Filled(q)' /\ Queues(q)
<1> DEFINE p == call[t].p
<1>1. call[t] # Idle /\ p \in Pipes
  BY CallIs DEF WriteWait, ReadWait, At, Placed, Typed
<1>2. UNCHANGED <<pipe, memory, owner, stale, sent, received>>
  BY DEF WriteWait, ReadWait, Waits
<1>3. /\ space \in [Pipes -> Semaphores] /\ bytes \in [Pipes -> Semaphores]
      /\ space[p] \in Semaphores /\ bytes[p] \in Semaphores
  BY <1>1 DEF Placed, Typed, TypeOK
<1>4. ASSUME NEW x \in Semaphores PROVE Waited(x, t).sem.valid = x.valid
  BY DEF Waited, Semaphores
<1>5. \/ space' = [space EXCEPT ![p] = Waited(space[p], t).sem] /\ bytes' = bytes
      \/ bytes' = [bytes EXCEPT ![p] = Waited(bytes[p], t).sem] /\ space' = space
  BY DEF WriteWait, ReadWait
<1> HIDE DEF p
<1>6. space'[q].valid = space[q].valid /\ bytes'[q].valid = bytes[q].valid
  <2>1. /\ Waited(space[p], t).sem.valid = space[p].valid
        /\ Waited(bytes[p], t).sem.valid = bytes[p].valid
    BY <1>3, <1>4
  <2> QED
    BY <2>1, <1>3, <1>5
<1> QED
  BY <1>2, <1>6, QuietFilled

--------------------------------------------------------------------------------
(* The inductive invariant and the theorems *)

IInv == Placed /\ Laid /\ \A p \in Pipes : Filled(p)

LEMMA InitHolds == ASSUME Init PROVE IInv
<1>1. 0 \in Cells /\ <<>> \in Seq(Bytes) /\ <<>> \in Seq(Bytes \union {Garbage})
  BY PipeAssumption DEF Cells
<1>2. NoSemaphore \in Semaphores
  BY DEF NoSemaphore, Semaphores
<1>3. TypeOK
  BY <1>1, <1>2 DEF Init, TypeOK, Calls
<1>4. Typed
  BY <1>3 DEF Init, Typed, CallsGoOn
<1>5. \A p \in Pipes : ~space[p].valid /\ ~bytes[p].valid
  BY DEF Init, NoSemaphore
<1>6. WaitersAsleep /\ Fresh /\ InUse /\ Laid
  BY <1>5 DEF Init, NoSemaphore, WaitersAsleep, Fresh, InUse, Laid, LowestFirst, PagesApart
<1>7. \A p \in Pipes : Filled(p)
  BY <1>5 DEF Filled, Counted, ReadsCounted, WritesCounted, InOrder, EndsOnly, Sound
<1> QED
  BY <1>4, <1>6, <1>7 DEF IInv, Placed

\* What every step keeps, and what it does to the queues.
Kept == IInv' /\ \A p \in Pipes : Queues(p)

\* The parts of it together.
LEMMA PartsKept ==
  ASSUME IInv, [Next]_vars, Balanced, Laid',
         \A q \in Pipes : Counted(q)' => Filled(q)' /\ Queues(q)
  PROVE  Kept
<1>1. Placed'
  BY StepTyped DEF IInv, Placed, Balanced
<1>2. \A q \in Pipes : Counted(q)'
  BY DEF IInv, Filled, Balanced
<1> QED
  BY <1>1, <1>2 DEF IInv, Kept

LEMMA StepKept == ASSUME IInv, [Next]_vars PROVE Kept
<1> Placed /\ Laid /\ \A q \in Pipes : Filled(q)
  BY DEF IInv
<1>1. CASE UNCHANGED vars
  <2>1. WaitersAsleep' /\ Fresh' /\ InUse'
    BY <1>1 DEF vars, Placed, WaitersAsleep, Fresh, InUse, SleepsIn
  <2>2. ASSUME NEW p \in Pipes, Counted(p) PROVE Counted(p)'
    <3>1. Readers(p)' = Readers(p) /\ Writers(p)' = Writers(p)
      BY <1>1 DEF vars, Readers, Writers, Reserved
    <3> QED
      BY <3>1, <1>1, <2>2, SameInside, SameReads, SameWrites DEF vars, Counted
  <2>3. Balanced
    BY <2>1, <2>2 DEF Balanced
  <2>4. Laid'
    BY <1>1, StillLaid DEF vars
  <2> QED
    BY <1>1, <2>3, <2>4, QuietFilled, PartsKept DEF vars
<1>2. ASSUME NEW t \in Threads, NEW name \in Names, sysOpenPipe(t, name)
      PROVE  Kept
  BY <1>2, OpenPlaced, OpenLaid, OpenFilled, PartsKept
<1>3. ASSUME NEW t \in Threads, NEW c \in WriteCalls \union ReadCalls, c.at = "wait",
             Enter(t, c)
      PROVE  Kept
  <2>1. UNCHANGED <<pipe, memory, owner, space, bytes, opened, stale, sent, received>>
    BY <1>3 DEF Enter
  <2> QED
    BY <2>1, <1>3, EnterPlaced, StillLaid, QuietFilled, PartsKept
<1>4. ASSUME NEW t \in Threads, NEW h \in DataHandles, NEW m \in Messages, sysWrite(t, h, m)
      PROVE  Kept
  <2> DEFINE c == [op |-> "write", p |-> h - FirstHandle, at |-> "wait", left |-> m]
  <2>1. Enter(t, c)
    BY <1>4 DEF sysWrite
  <2>2. c \in WriteCalls /\ c.at = "wait"
    BY <2>1, PipeAssumption DEF WriteCalls, Ats, Enter, isValidPipe
  <2> HIDE DEF c
  <2> QED
    BY <2>1, <2>2, <1>3
<1>5. ASSUME NEW t \in Threads, NEW h \in DataHandles, NEW n \in Sizes, sysRead(t, h, n)
      PROVE  Kept
  <2> DEFINE c == [op |-> "read", p |-> h - FirstHandle, at |-> "wait", left |-> n]
  <2>1. Enter(t, c)
    BY <1>5 DEF sysRead
  <2>2. c \in ReadCalls /\ c.at = "wait"
    BY <2>1, PipeAssumption DEF ReadCalls, Ats, Enter, isValidPipe
  <2> HIDE DEF c
  <2> QED
    BY <2>1, <2>2, <1>3
<1>6. ASSUME NEW t \in Threads, NEW h \in CloseHandles, sysClosePipe(t, h)
      PROVE  Kept
  <2>1. /\ h \in Pipes /\ pipe' = [pipe EXCEPT ![h].used = hung'] /\ opened' = opened
    BY <1>6 DEF sysClosePipe, isValidPipe
  <2>2. Laid'
    BY <2>1, StillLaid DEF Placed, Typed, TypeOK
  <2> QED
    BY <2>2, <1>6, ClosePlaced, CloseFilled, PartsKept
<1>7. ASSUME NEW t \in Threads, WriteWait(t)
      PROVE  Kept
  <2>1. Laid'
    BY <1>7, StillLaid DEF WriteWait, Waits
  <2> QED
    BY <2>1, <1>7, WriteWaitPlaced, WaitFilled, PartsKept
<1>8. ASSUME NEW t \in Threads, ReadWait(t)
      PROVE  Kept
  <2>1. Laid'
    BY <1>8, StillLaid DEF ReadWait, Waits
  <2> QED
    BY <2>1, <1>8, ReadWaitPlaced, WaitFilled, PartsKept
<1>9. ASSUME NEW t \in Threads, Resume(t)
      PROVE  Kept
  <2>1. UNCHANGED <<pipe, memory, owner, space, bytes, opened, stale, sent, received>>
    BY <1>9 DEF Resume
  <2> QED
    BY <2>1, <1>9, ResumePlaced, StillLaid, QuietFilled, PartsKept
<1>10. ASSUME NEW t \in Threads, WriteByte(t)
       PROVE  Kept
  <2>1. Laid'
    <3>1. opened' = opened /\ pipe' = [pipe EXCEPT ![call[t].p].writeIndex = nextWrite(@)]
      BY <1>10 DEF WriteByte
    <3> QED
      BY <3>1, StillLaid DEF Placed, Typed, TypeOK
  <2> QED
    BY <2>1, <1>10, WriteBytePlaced, WriteByteFilled, PartsKept
<1>11. ASSUME NEW t \in Threads, ReadByte(t)
       PROVE  Kept
  <2>1. Laid'
    <3>1. opened' = opened /\ pipe' = [pipe EXCEPT ![call[t].p].readIndex = nextRead(@)]
      BY <1>11 DEF ReadByte
    <3> QED
      BY <3>1, StillLaid DEF Placed, Typed, TypeOK
  <2> QED
    BY <2>1, <1>11, ReadBytePlaced, ReadByteFilled, PartsKept
<1>12. ASSUME NEW a \in Reached, OthersWrite(a)
       PROVE  Kept
  <2>1. Laid'
    BY <1>12, StillLaid DEF OthersWrite
  <2> QED
    BY <2>1, <1>12, OthersPlaced, OthersFilled, PartsKept
<1> QED
  BY <1>1, <1>2, <1>4, <1>5, <1>6, <1>7, <1>8, <1>9, <1>10, <1>11, <1>12 DEF Next

\* Permits, bytes and cells agree in every reachable state, and no two buffers
\* share a page: the invariant that the theorems below rest on (pipes.c:28-146).
THEOREM PipesSound == Spec => []IInv
<1>1. Init => IInv
  BY InitHolds
<1>2. IInv /\ [Next]_vars => IInv'
  BY StepKept DEF Kept
<1> QED
  BY <1>1, <1>2, PTL DEF Spec

\* Every value has its type: the two indices stay on the cells of the pipe, and
\* every unfinished call is of a pipe (pipes.c:73-129).
THEOREM PipeTypes == Spec => []TypeOK
<1>1. IInv => TypeOK
  BY DEF IInv, Placed, Typed
<1> QED
  BY <1>1, PipesSound, PTL

\* Whatever createSemaphore left in the two semaphores of a pipe, and whichever
\* of them it did not make: the permits to read count the bytes inside and the
\* stale permits, those to write the free cells, less the threads that were let
\* through (pipes.c:28-38, 83-96, 111-127, semaphore.c:41-53).
THEOREM PermitsKept == Spec => []PermitsAreBytes
<1>1. IInv => PermitsAreBytes
  BY DEF IInv, Filled, Counted, ReadsCounted, WritesCounted, PermitsAreBytes, Inside,
         Readers, Writers
<1> QED
  BY <1>1, PipesSound, PTL

\* Of the bytes inside a sound pipe with a page of its own, others spoil only
\* those in its first cell and in the one behind its buffer, whatever the other
\* pipes and the owners of the other pages write (pipes.c:85-94, 111-122).
THEOREM SpoiltAtEnds == Spec => []SpoiltOnlyAtEnds
<1>1. IInv => SpoiltOnlyAtEnds
  BY DEF IInv, Filled, EndsOnly, SpoiltOnlyAtEnds, Inside, Lies
<1> QED
  BY <1>1, PipesSound, PTL

\* A pipe whose semaphores are sound implements a bounded queue: a byte comes
\* out in its place, none is lost or read twice, unless the byte to be read was
\* spoilt by somebody who wrote in its cell (pipes.c:73-129).
THEOREM PipesFifo == Spec => PipesAreFifos
<1>1. Init => \A p \in Pipes : Order(p)!Init
  BY DEF Init, Order!Init
<1>2. IInv /\ [Next]_vars => \A p \in Pipes : Sound(p) =>
        [Order(p)!Next]_<<sent[p], received[p]>> \/ ReadsSpoilt(p)
  BY StepKept DEF Kept, Queues
<1>3. IInv /\ [Next]_vars => [\A p \in Pipes : Sound(p) =>
        [Order(p)!Next]_<<sent[p], received[p]>> \/ ReadsSpoilt(p)]_vars
  BY <1>2
<1> QED
  BY <1>1, <1>3, PipesSound, PTL DEF Spec, PipesAreFifos
================================================================================
