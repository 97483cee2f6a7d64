----------------------------- MODULE Md5FarmProofs -----------------------------
(***************************************************************************)
(* Machine-checked facts about the md5 farm, for any number of slaves,     *)
(* files and views, any sizes and any set of failures.                     *)
(***************************************************************************)
EXTENDS Md5Farm, SequenceTheorems, FiniteSetTheorems, TLAPS

--------------------------------------------------------------------------------
(* Type correctness *)

LEMMA BatchBound ==
  ASSUME AppType, NEW s \in Slaves
  PROVE  BatchFor(s) \in 0 .. numOfFiles - distributedFiles
BY FarmAssumption DEF AppType, BatchFor

\* A function on 1 .. n is a sequence.
LEMMA FunctionIsSeq ==
  ASSUME NEW S, NEW n \in Nat, NEW f \in [1 .. n -> S]
  PROVE  f \in Seq(S)
OBVIOUS

\* A sequence of no length is the empty one.
LEMMA NoLength ==
  ASSUME NEW S, NEW q \in Seq(S), Len(q) = 0
  PROVE  q = <<>>
OBVIOUS

\* What is written to a slave is a sequence of files, or STOP_CODE.
LEMMA OutgoingType ==
  ASSUME AppType, i \in Slaves
  PROVE  Outgoing \in Seq(Files \cup {Stop})
<1> DEFINE n == BatchFor(i)
           S == Files \cup {Stop}
           batch == [j \in 1 .. n |-> distributedFiles + j]
<1>1. n \in 0 .. numOfFiles - distributedFiles
  BY BatchBound
<1>2. batch \in Seq(S)
  <2>1. n \in Nat /\ \A j \in 1 .. n : distributedFiles + j \in S
    BY <1>1, FarmAssumption DEF AppType, Files
  <2> HIDE DEF n, S
  <2>2. batch \in [1 .. n -> S]
    BY <2>1, Zenon
  <2> HIDE DEF batch
  <2> QED  BY <2>1, <2>2, FunctionIsSeq
<1>3. <<Stop>> \in Seq(S)
  <2>1. Stop \in S
    OBVIOUS
  <2> HIDE DEF S
  <2> QED  BY <2>1
<1>4. <<>> \in Seq(S)
  OBVIOUS
<1>5. Outgoing = batch \/ Outgoing = <<Stop>> \/ Outgoing = <<>>
  BY DEF Outgoing
<1> HIDE DEF S, batch
<1> QED  BY <1>2, <1>3, <1>4, <1>5 DEF S

\* The sequence operations the pipes are made of.
LEMMA PipeWrite ==
  ASSUME NEW S, NEW D, NEW d \in D, NEW q \in [D -> Seq(S)], NEW m \in Seq(S)
  PROVE  [q EXCEPT ![d] = @ \o m] \in [D -> Seq(S)]
<1>1. q[d] \o m \in Seq(S)
  BY ConcatProperties
<1> QED  BY <1>1

LEMMA PipeAppend ==
  ASSUME NEW S, NEW D, NEW d \in D, NEW q \in [D -> Seq(S)], NEW x \in S
  PROVE  [q EXCEPT ![d] = Append(@, x)] \in [D -> Seq(S)]
<1>1. Append(q[d], x) \in Seq(S)
  BY AppendProperties
<1> QED  BY <1>1

LEMMA PipeRead ==
  ASSUME NEW S, NEW D, NEW d \in D, NEW q \in [D -> Seq(S)], q[d] # <<>>
  PROVE  /\ [q EXCEPT ![d] = Tail(@)] \in [D -> Seq(S)]
         /\ Head(q[d]) \in S
<1>1. Tail(q[d]) \in Seq(S) /\ Head(q[d]) \in S
  BY HeadTailProperties
<1> QED  BY <1>1

LEMMA TypeInit == Init => TypeOK
<1> SUFFICES ASSUME Init PROVE TypeOK
  OBVIOUS
<1>1. AppType
  BY FarmAssumption DEF Init, AppType, Slaves, Files, Nul
<1>2. SlaveType  BY DEF Init, SlaveType, Nul
<1>3. IpcType  BY FarmAssumption DEF Init, IpcType, Nul
<1>4. ViewType  BY DEF Init, ViewType
<1> QED  BY <1>1, <1>2, <1>3, <1>4 DEF TypeOK

LEMMA AppTypeApp ==
  ASSUME TypeOK, App PROVE AppType'
<1> USE FarmAssumption DEF Slaves, AppType
<1>0. AppType /\ SlaveType /\ IpcType
  BY DEF TypeOK
<1>1. CASE CreateSlave
  <2>1. i \in Slaves /\ distributedFiles = 0
    BY <1>0, <1>1 DEF CreateSlave, abortProgram
  <2>2. pid' \in [Slaves -> {0, 1}]
    BY <1>0, <1>1, <2>1 DEF CreateSlave, abortProgram
  <2>3. pc' \in {"create", "aborted"} /\ i' \in 0 .. NumSlaves
        /\ (pc' # "create" => i' \in Slaves)
    BY <1>0, <1>1, <2>1 DEF CreateSlave, abortProgram
  <2> QED  BY <1>0, <1>1, <2>2, <2>3 DEF CreateSlave, abortProgram
<1>2. CASE ParseFileList  BY <1>0, <1>2 DEF ParseFileList
<1>3. CASE Distribute
  <2>1. BatchFor(i) \in 0 .. numOfFiles - distributedFiles
    BY <1>0, <1>3, BatchBound DEF Distribute
  <2>2. pc' \in {"distribute", "select"} /\ i' \in Slaves
    BY <1>0, <1>3 DEF Distribute, WriteToSlave
  <2>3. i \in Slaves
    BY <1>0, <1>3 DEF Distribute
  <2>4. distributedFiles' \in 0 .. numOfFiles
    BY <1>0, <1>3, <2>1 DEF Distribute
  <2>5. remainingFiles' \in [Slaves -> Int]
    BY <1>0, <1>3, <2>1, <2>3 DEF Distribute
  <2>6. pid' \in [Slaves -> {0, 1}]
    BY <1>0, <1>3, <2>3 DEF Distribute
  <2> QED  BY <1>0, <1>3, <2>2, <2>4, <2>5, <2>6 DEF Distribute
<1>4. CASE BrokenPipe  BY <1>0, <1>4 DEF BrokenPipe
<1>5. CASE Select  BY <1>0, <1>5 DEF Select
<1>6. CASE Listen
  <2>1. CASE i \in ready /\ results[i] # <<>>
    <3>1. Head(results[i]) \in Files
      BY <1>0, <2>1, PipeRead DEF SlaveType
    <3>2. Append(output, Head(results[i])) \in Seq(Files)
      BY <1>0, <3>1, AppendProperties
    <3> QED  BY <1>0, <1>6, <2>1, <3>1, <3>2 DEF Listen, readLine
  <2>2. CASE ~(i \in ready /\ results[i] # <<>>)
    BY <1>0, <1>6, <2>2 DEF Listen, readLine, NextSlave, LoopHead
  <2> QED  BY <2>1, <2>2
<1>7. CASE AppLock  BY <1>0, <1>7 DEF AppLock
<1>8. CASE Publish  BY <1>0, <1>8 DEF Publish
<1>9. CASE SetFlag  BY <1>0, <1>9 DEF SetFlag
<1>10. CASE AppUnlock  BY <1>0, <1>10 DEF AppUnlock
<1>11. CASE Count  BY <1>0, <1>11 DEF Count, NextSlave, LoopHead
<1>12. CASE StopSlave  BY <1>0, <1>12 DEF StopSlave, WriteToSlave
<1>13. CASE DestroyMemory  BY <1>0, <1>13 DEF DestroyMemory
<1>14. CASE DestroySemaphore  BY <1>0, <1>14 DEF DestroySemaphore
<1> QED
  BY <1>1, <1>2, <1>3, <1>4, <1>5, <1>6, <1>7, <1>8, <1>9, <1>10, <1>11, <1>12,
     <1>13, <1>14 DEF App

LEMMA SlaveTypeApp ==
  ASSUME TypeOK, App PROVE SlaveType'
<1> USE DEF SlaveType
<1>0. AppType /\ SlaveType
  BY DEF TypeOK
<1>1. CASE UNCHANGED slaveVars  BY <1>0, <1>1 DEF slaveVars
<1>2. CASE CreateSlave  BY <1>0, <1>2 DEF CreateSlave, abortProgram, AppType
<1>3. CASE Distribute \/ StopSlave
  <2>1. i \in Slaves
    BY <1>0, <1>3 DEF Distribute, StopSlave, AppType
  <2>2. Outgoing \in Seq(Files \cup {Stop})
    BY <1>0, <2>1, OutgoingType
  <2>3. tasks' \in [Slaves -> Seq(Files \cup {Stop})]
    <3>1. tasks' = [tasks EXCEPT ![i] = @ \o Outgoing]
      BY <1>3 DEF Distribute, StopSlave, WriteToSlave
    <3>2. tasks \in [Slaves -> Seq(Files \cup {Stop})]
      BY <1>0
    <3> QED  BY <2>1, <2>2, <3>1, <3>2, PipeWrite
  <2> QED  BY <1>0, <1>3, <2>3 DEF Distribute, StopSlave
<1>4. CASE Listen
  <2>1. i \in Slaves
    BY <1>0, <1>4 DEF Listen, readLine, AppType
  <2>2. results' \in [Slaves -> Seq(Files)]
    <3>1. \/ results' = results
          \/ results[i] # <<>> /\ results' = [results EXCEPT ![i] = Tail(@)]
      BY <1>4 DEF Listen, readLine
    <3>2. results \in [Slaves -> Seq(Files)]
      BY <1>0
    <3>3. results[i] # <<>> =>
            [results EXCEPT ![i] = Tail(@)] \in [Slaves -> Seq(Files)]
      BY <2>1, <3>2, PipeRead
    <3> QED  BY <3>1, <3>2, <3>3
  <2> QED  BY <1>0, <1>4, <2>2 DEF Listen, readLine
<1> QED
  BY <1>1, <1>2, <1>3, <1>4
  DEF App, ParseFileList, BrokenPipe, Select, AppLock, Publish, SetFlag,
      AppUnlock, Count, DestroyMemory, DestroySemaphore

LEMMA IpcTypeApp ==
  ASSUME TypeOK, App PROVE IpcType'
<1> USE DEF IpcType
<1>0. AppType /\ IpcType
  BY DEF TypeOK
<1>1. CASE UNCHANGED ipcVars  BY <1>0, <1>1 DEF ipcVars
<1>2. CASE AppLock  BY <1>0, <1>2 DEF AppLock, SemWait
<1>3. CASE Publish
  <2>1. mem' \in [Cells -> Files \cup {Nul}]
    BY <1>0, <1>3 DEF Publish, AppType
  <2>2. shmIndex' \in 1 .. ShmSize
    BY <1>0, <1>3, FarmAssumption DEF Publish, IndexAfter
  <2> QED  BY <1>0, <1>3, <2>1, <2>2 DEF Publish
<1>4. CASE SetFlag  BY <1>0, <1>4 DEF SetFlag
<1>5. CASE AppUnlock  BY <1>0, <1>5 DEF AppUnlock, SemPost
<1>6. CASE Count  BY <1>0, <1>6 DEF Count, SemPost
<1>7. CASE DestroyMemory  BY <1>0, <1>7 DEF DestroyMemory
<1>8. CASE DestroySemaphore  BY <1>0, <1>8 DEF DestroySemaphore
<1> QED
  BY <1>1, <1>2, <1>3, <1>4, <1>5, <1>6, <1>7, <1>8
  DEF App, CreateSlave, ParseFileList, Distribute, BrokenPipe, Select, Listen,
      StopSlave

LEMMA TypeApp ==
  ASSUME TypeOK, App PROVE TypeOK'
<1>1. UNCHANGED viewVars
  BY DEF App, CreateSlave, ParseFileList, Distribute, BrokenPipe, Select, Listen,
         AppLock, Publish, SetFlag, AppUnlock, Count, StopSlave, DestroyMemory,
         DestroySemaphore
<1>2. ViewType'
  BY <1>1 DEF TypeOK, ViewType, viewVars
<1> QED  BY <1>2, AppTypeApp, SlaveTypeApp, IpcTypeApp DEF TypeOK

LEMMA TypeSlave ==
  ASSUME TypeOK, NEW s \in Slaves, Slave(s) PROVE TypeOK'
<1>0. AppType /\ SlaveType /\ IpcType /\ ViewType
  BY DEF TypeOK
<1>1. UNCHANGED <<appVars, ipcVars, viewVars>>
  BY DEF Slave, Exec, ReadTask, Hash
<1>2. AppType' /\ IpcType' /\ ViewType'
  BY <1>0, <1>1 DEF appVars, ipcVars, viewVars, AppType, IpcType, ViewType
<1>3. SlaveType'
  <2> USE DEF SlaveType
  <2>1. CASE Exec(s)  BY <1>0, <2>1 DEF Exec
  <2>2. CASE ReadTask(s)
    <3>1. /\ tasks' \in [Slaves -> Seq(Files \cup {Stop})]
          /\ Head(tasks[s]) \in Files \cup {Stop}
      BY <1>0, <2>2, PipeRead DEF ReadTask
    <3> QED  BY <1>0, <2>2, <3>1 DEF ReadTask, Stop, Nul
  <2>3. CASE Hash(s)
    <3>1. hashing[s] \in Files
      BY <1>0, <2>3 DEF Hash
    <3>2. results' \in [Slaves -> Seq(Files)]
      <4>1. \/ results' = results
            \/ results' = [results EXCEPT ![s] = Append(@, hashing[s])]
        BY <2>3 DEF Hash
      <4>2. results \in [Slaves -> Seq(Files)]
        BY <1>0
      <4>3. [results EXCEPT ![s] = Append(@, hashing[s])] \in [Slaves -> Seq(Files)]
        BY <3>1, <4>2, PipeAppend
      <4> QED  BY <4>1, <4>2, <4>3
    <3> QED  BY <1>0, <2>3, <3>1, <3>2 DEF Hash
  <2> QED  BY <2>1, <2>2, <2>3 DEF Slave
<1> QED  BY <1>2, <1>3 DEF TypeOK

\* The cells up to the next NUL are a line of files.
LEMMA LineIsSeq ==
  ASSUME TypeOK, NEW v \in Views, NEW c \in Cells, EndsAt(v, c)
  PROVE  [b \in 1 .. c - viewIndex[v] |-> Cell(v, viewIndex[v] + b - 1)] \in Seq(Files)
<1> DEFINE line == [b \in 1 .. c - viewIndex[v] |-> Cell(v, viewIndex[v] + b - 1)]
<1>1. c \in Nat \ {0} /\ viewIndex[v] \in Nat \ {0} /\ viewIndex[v] <= c
  BY FarmAssumption DEF Cells, EndsAt, TypeOK, ViewType
<1>2. \A b \in 1 .. c - viewIndex[v] : Cell(v, viewIndex[v] + b - 1) \in Files
  <2> TAKE b \in 1 .. c - viewIndex[v]
  <2>1. viewIndex[v] + b - 1 \in viewIndex[v] .. c - 1
    BY <1>1
  <2>2. Cell(v, viewIndex[v] + b - 1) # Nul
    BY <2>1 DEF EndsAt
  <2>3. viewIndex[v] + b - 1 \in Cells
    BY <1>1, <2>1, FarmAssumption DEF Cells
  <2>4. mem \in [Cells -> Files \cup {Nul}]
    BY DEF TypeOK, IpcType
  <2> QED  BY <2>2, <2>3, <2>4 DEF Cell
<1>3. c - viewIndex[v] \in Nat
  BY <1>1
<1>4. line \in [1 .. c - viewIndex[v] -> Files]
  BY <1>2, Zenon
<1> HIDE DEF line
<1>5. line \in Seq(Files)
  BY <1>3, <1>4, FunctionIsSeq
<1> QED  BY <1>5 DEF line

LEMMA TypeView ==
  ASSUME TypeOK, NEW v \in Views, AttachMemory(v) \/ ViewRun(v) PROVE TypeOK'
<1>0. AppType /\ SlaveType /\ IpcType /\ ViewType
  BY DEF TypeOK
<1>1. UNCHANGED <<appVars, slaveVars, mem, flag, shmIndex, memLive>>
  BY DEF ViewRun, AttachMemory, AttachSemaphore, ViewWait, ViewLock, ViewRead,
         ViewUnlock, ViewDestroy, ipcVars
<1>2. AppType' /\ SlaveType'
  BY <1>0, <1>1 DEF appVars, slaveVars, AppType, SlaveType
<1>3. IpcType'
  <2>1. sem' \in [1 .. 2 -> Nat] /\ semLive' \in BOOLEAN
    <3>1. \/ UNCHANGED <<sem, semLive>>
          \/ UNCHANGED semLive /\ (SemWait(0) \/ SemWait(1) \/ SemPost(0))
          \/ UNCHANGED sem /\ semLive' = FALSE
      BY DEF ViewRun, AttachMemory, AttachSemaphore, ViewWait, ViewLock, ViewRead,
             ViewUnlock, ViewDestroy, ipcVars
    <3>2. sem \in [1 .. 2 -> Nat] /\ semLive \in BOOLEAN
      BY <1>0 DEF IpcType
    <3>3. SemWait(0) => sem' \in [1 .. 2 -> Nat]
      BY <3>2 DEF SemWait
    <3>4. SemWait(1) => sem' \in [1 .. 2 -> Nat]
      BY <3>2 DEF SemWait
    <3>5. SemPost(0) => sem' \in [1 .. 2 -> Nat]
      BY <3>2 DEF SemPost
    <3> QED  BY <3>1, <3>2, <3>3, <3>4, <3>5
  <2> QED  BY <1>0, <1>1, <2>1 DEF IpcType
<1>4. ViewType'
  <2> USE DEF ViewType
  <2>1. CASE AttachMemory(v)  BY <1>0, <2>1 DEF AttachMemory
  <2>2. CASE AttachSemaphore(v)  BY <1>0, <2>2 DEF AttachSemaphore
  <2>3. CASE ViewWait(v)  BY <1>0, <2>3 DEF ViewWait
  <2>4. CASE ViewLock(v)  BY <1>0, <2>4 DEF ViewLock
  <2>5. CASE ViewRead(v)
    <3>1. CASE UNCHANGED <<viewIndex, printed>>
      BY <1>0, <2>5, <3>1 DEF ViewRead
    <3>2. ASSUME NEW c \in Cells, EndsAt(v, c),
                 viewIndex' = [viewIndex EXCEPT ![v] = c + 1],
                 printed' = [printed EXCEPT ![v] = Append(@,
                              [b \in 1 .. c - viewIndex[v] |->
                                 Cell(v, viewIndex[v] + b - 1)])]
          PROVE  ViewType'
      <4> DEFINE line == [b \in 1 .. c - viewIndex[v] |->
                            Cell(v, viewIndex[v] + b - 1)]
      <4>1. c \in Nat \ {0} /\ viewIndex[v] \in Nat \ {0}
        BY <1>0, FarmAssumption DEF Cells
      <4>3. line \in Seq(Files)
        BY <3>2, LineIsSeq
      <4> HIDE DEF line
      <4>4. printed' \in [Views -> Seq(Seq(Files))]
        BY <1>0, <3>2, <4>3, PipeAppend DEF line
      <4>5. viewPc' \in [Views -> {"off", "attaching", "wait", "lock", "read",
                           "unlock", "leave", "destroy", "ended", "crashed"}]
        BY <1>0, <2>5 DEF ViewRead
      <4>6. viewIndex' \in [Views -> Nat \ {0}]
        BY <1>0, <3>2, <4>1
      <4>7. UNCHANGED <<viewMem, viewSem>>
        BY <2>5 DEF ViewRead
      <4> QED  BY <1>0, <4>4, <4>5, <4>6, <4>7
    <3> QED  BY <2>5, <3>1, <3>2 DEF ViewRead
  <2>6. CASE ViewUnlock(v)  BY <1>0, <2>6 DEF ViewUnlock
  <2>7. CASE ViewDestroy(v)  BY <1>0, <2>7 DEF ViewDestroy
  <2> QED  BY <2>1, <2>2, <2>3, <2>4, <2>5, <2>6, <2>7 DEF ViewRun
<1> QED  BY <1>2, <1>3, <1>4 DEF TypeOK

LEMMA TypeNext == TypeOK /\ [Next]_vars => TypeOK'
<1> SUFFICES ASSUME TypeOK, [Next]_vars PROVE TypeOK'
  OBVIOUS
<1>1. CASE TypeY
  BY <1>1, FarmAssumption DEF TypeY, TypeOK, AppType, SlaveType, IpcType, ViewType,
                              slaveVars, ipcVars, viewVars, Slaves
<1>2. CASE App  BY <1>2, TypeApp
<1>3. CASE \E s \in Slaves : Slave(s)  BY <1>3, TypeSlave
<1>4. CASE \E v \in Views : AttachMemory(v) \/ ViewRun(v)
  BY <1>4, TypeView
<1>5. CASE UNCHANGED vars
  BY <1>5 DEF vars, appVars, slaveVars, ipcVars, viewVars, TypeOK, AppType,
              SlaveType, IpcType, ViewType
<1> QED  BY <1>1, <1>2, <1>3, <1>4, <1>5 DEF Next

\* In every state of the farm all variables have their types: among other
\* things the application never hands out more files than it was given, and
\* sharedMemoryIndex never leaves the segment.
THEOREM TypeCorrect == Spec => []TypeOK
BY TypeInit, TypeNext, PTL DEF Spec

--------------------------------------------------------------------------------
(* The shared segment.  Semaphore 0 alone does not give mutual exclusion:  *)
(* once its set is removed, semops fail and are ignored.  The argument is   *)
(* that the set is only removed when the application has set the flag and   *)
(* left its last critical section, and that a view ends only after that.    *)

Past == {"stop", "rmMem", "rmSem", "done", "killed"}

\* While the set exists, semaphore 0 is 0 exactly when one process is inside.
OneInside ==
  semLive =>
    /\ sem[1] \in {0, 1}
    /\ AppIn => sem[1] = 0 /\ \A v \in Views : ~ViewIn(v)
    /\ \A v \in Views : ViewIn(v) => sem[1] = 0
    /\ \A v, w \in Views : ViewIn(v) /\ ViewIn(w) => v = w

\* The flag goes up in the application's last critical section; a view that
\* saw it, and the removal of the set, come after that section.
FlagLast ==
  /\ flag = -1 => pc \in Past \cup {"flagUnlock"}
  /\ \A v \in Views :
       viewPc[v] \in {"leave", "destroy", "ended"} => flag = -1 /\ pc \in Past
  /\ ~semLive => flag = -1 /\ pc \in Past
  /\ pc \in {"rmMem", "rmSem", "done"} => flag = -1
  /\ pc \in {"flagUnlock", "stop"} => flag = -1

SectionInv == OneInside /\ FlagLast

LEMMA SectionInit == Init => SectionInv
BY DEF Init, SectionInv, OneInside, FlagLast, ViewIn, AppIn, Past

LEMMA SectionApp ==
  ASSUME TypeOK, SectionInv, App PROVE SectionInv'
<1> USE DEF SectionInv, OneInside, FlagLast, ViewIn, AppIn, Past
<1>0. /\ sem \in [1 .. 2 -> Nat] /\ semLive \in BOOLEAN
      /\ UNCHANGED <<viewPc>>
  BY DEF TypeOK, IpcType, viewVars, App, CreateSlave, ParseFileList, Distribute,
         BrokenPipe, Select, Listen, AppLock, Publish, SetFlag, AppUnlock, Count,
         StopSlave, DestroyMemory, DestroySemaphore
<1> HIDE DEF TypeOK
<1>1. CASE CreateSlave  BY <1>0, <1>1 DEF CreateSlave, ipcVars
<1>2. CASE ParseFileList  BY <1>0, <1>2 DEF ParseFileList, ipcVars
<1>3. CASE Distribute  BY <1>0, <1>3 DEF Distribute, WriteToSlave, ipcVars
<1>4. CASE BrokenPipe  BY <1>0, <1>4 DEF BrokenPipe, ipcVars
<1>5. CASE Select  BY <1>0, <1>5 DEF Select, ipcVars
<1>6. CASE Listen  BY <1>0, <1>6 DEF Listen, NextSlave, LoopHead, ipcVars
<1>7. CASE AppLock  BY <1>0, <1>7 DEF AppLock, SemWait
<1>8. CASE Publish  BY <1>0, <1>8 DEF Publish
<1>9. CASE SetFlag  BY <1>0, <1>9 DEF SetFlag
<1>10. CASE AppUnlock  BY <1>0, <1>10 DEF AppUnlock, SemPost
<1>11. CASE Count  BY <1>0, <1>11 DEF Count, NextSlave, LoopHead, SemPost
<1>12. CASE StopSlave  BY <1>0, <1>12 DEF StopSlave, WriteToSlave, ipcVars
<1>13. CASE DestroyMemory  BY <1>0, <1>13 DEF DestroyMemory
<1>14. CASE DestroySemaphore  BY <1>0, <1>14 DEF DestroySemaphore
<1> QED
  BY <1>1, <1>2, <1>3, <1>4, <1>5, <1>6, <1>7, <1>8, <1>9, <1>10, <1>11, <1>12,
     <1>13, <1>14 DEF App

LEMMA SectionView ==
  ASSUME TypeOK, SectionInv, NEW v \in Views, AttachMemory(v) \/ ViewRun(v)
  PROVE  SectionInv'
<1> USE DEF SectionInv, OneInside, FlagLast, ViewIn, AppIn, Past
<1>0. /\ sem \in [1 .. 2 -> Nat] /\ semLive \in BOOLEAN
      /\ viewPc \in [Views -> {"off", "attaching", "wait", "lock", "read",
                       "unlock", "leave", "destroy", "ended", "crashed"}]
      /\ UNCHANGED <<pc, flag>>
  BY DEF TypeOK, IpcType, ViewType, ViewRun, AttachMemory, AttachSemaphore,
         ViewWait, ViewLock, ViewRead, ViewUnlock, ViewDestroy, appVars, ipcVars
<1>1. CASE AttachMemory(v)  BY <1>0, <1>1 DEF AttachMemory, ipcVars
<1>2. CASE AttachSemaphore(v)  BY <1>0, <1>2 DEF AttachSemaphore, ipcVars
<1>3. CASE ViewWait(v)  BY <1>0, <1>3 DEF ViewWait, SemWait
<1>4. CASE ViewLock(v)  BY <1>0, <1>4 DEF ViewLock, SemWait
<1>5. CASE ViewRead(v)
  <2>1. /\ viewPc[v] = "read" /\ UNCHANGED <<sem, semLive>>
        /\ \/ flag = -1 /\ viewPc' = [viewPc EXCEPT ![v] = "leave"]
           \/ viewPc' = [viewPc EXCEPT ![v] = "unlock"]
           \/ viewPc' = [viewPc EXCEPT ![v] = "crashed"]
    BY <1>5 DEF ViewRead, ipcVars
  <2> QED  BY <1>0, <2>1
<1>6. CASE ViewUnlock(v)  BY <1>0, <1>6 DEF ViewUnlock, SemPost
<1>7. CASE ViewDestroy(v)  BY <1>0, <1>7 DEF ViewDestroy
<1> QED  BY <1>1, <1>2, <1>3, <1>4, <1>5, <1>6, <1>7 DEF ViewRun

LEMMA SectionNext == TypeOK /\ SectionInv /\ [Next]_vars => SectionInv'
<1> SUFFICES ASSUME TypeOK, SectionInv, [Next]_vars PROVE SectionInv'
  OBVIOUS
<1>1. CASE App  BY <1>1, SectionApp
<1>2. CASE \E v \in Views : AttachMemory(v) \/ ViewRun(v)
  BY <1>2, SectionView
<1>3. CASE TypeY
  BY <1>3 DEF TypeY, ipcVars, viewVars, SectionInv, OneInside, FlagLast, ViewIn,
              AppIn, Past
<1>4. CASE (\E s \in Slaves : Slave(s)) \/ UNCHANGED vars
  <2>1. UNCHANGED <<pc, flag, sem, semLive, viewPc>>
    BY <1>4 DEF Slave, Exec, ReadTask, Hash, vars, appVars, ipcVars, viewVars
  <2> QED  BY <2>1 DEF SectionInv, OneInside, FlagLast, ViewIn, AppIn
<1> QED  BY <1>1, <1>2, <1>3, <1>4 DEF Next

\* No view reads the segment while the application writes a line or the flag
\* into it, whatever the number of views and whoever removes the semaphores.
THEOREM SegmentExclusion == Spec => []NoReadDuringWrite
<1>1. SectionInv => NoReadDuringWrite
  BY DEF SectionInv, OneInside, FlagLast, ViewIn, AppIn, Past, NoReadDuringWrite
<1> QED
  BY <1>1, TypeInit, TypeNext, SectionInit, SectionNext, PTL DEF Spec

--------------------------------------------------------------------------------
(* Stopping the slaves *)

\* A pipe to a slave that was not stopped holds files; one to a slave that was
\* stopped holds files and one STOP_CODE behind them.
Open(q)   == \A n \in 1 .. Len(q) : q[n] # Stop
Closed(q) == /\ q # <<>> /\ q[Len(q)] = Stop
             /\ \A n \in 1 .. Len(q) - 1 : q[n] # Stop

Messages == Files \cup {Stop}

LEMMA OpenJoined ==
  ASSUME NEW q \in Seq(Messages), NEW m \in Seq(Messages), Open(q), Open(m)
  PROVE  Open(q \o m)
<1>1. /\ Len(q \o m) = Len(q) + Len(m)
      /\ \A n \in 1 .. Len(q) + Len(m) :
           (q \o m)[n] = IF n <= Len(q) THEN q[n] ELSE m[n - Len(q)]
  BY ConcatProperties
<1>2. Len(q) \in Nat /\ Len(m) \in Nat
  OBVIOUS
<1> QED  BY <1>1, <1>2 DEF Open

LEMMA OpenStopped ==
  ASSUME NEW q \in Seq(Messages), Open(q)
  PROVE  Closed(q \o <<Stop>>)
<1> DEFINE r == q \o <<Stop>>
<1>0. <<Stop>> \in Seq(Messages) /\ Len(<<Stop>>) = 1 /\ <<Stop>>[1] = Stop
  BY DEF Messages
<1>1. /\ Len(r) = Len(q) + 1
      /\ \A n \in 1 .. Len(q) + 1 :
           r[n] = IF n <= Len(q) THEN q[n] ELSE <<Stop>>[n - Len(q)]
  BY <1>0, ConcatProperties
<1>2. Len(q) \in Nat
  OBVIOUS
<1> HIDE DEF r
<1>3. r[Len(r)] = Stop
  BY <1>0, <1>1, <1>2
<1>4. \A n \in 1 .. Len(r) - 1 : r[n] # Stop
  BY <1>1, <1>2 DEF Open
<1>5. r # <<>>
  BY <1>1, <1>2
<1> QED  BY <1>3, <1>4, <1>5 DEF Closed, r

LEMMA OpenRead ==
  ASSUME NEW q \in Seq(Messages), q # <<>>
  PROVE  /\ Open(q) => Head(q) # Stop /\ Open(Tail(q))
         /\ Closed(q) /\ Head(q) = Stop => Tail(q) = <<>>
         /\ Closed(q) /\ Head(q) # Stop => Closed(Tail(q))
<1>1. /\ Len(Tail(q)) = Len(q) - 1 /\ Head(q) = q[1] /\ Len(q) \in Nat \ {0}
      /\ \A n \in 1 .. Len(q) - 1 : Tail(q)[n] = q[n + 1]
  BY HeadTailProperties
<1>2. Tail(q) \in Seq(Messages)
  BY HeadTailProperties
<1>3. Open(q) => Head(q) # Stop /\ Open(Tail(q))
  BY <1>1 DEF Open
<1>4. ASSUME Closed(q), Head(q) = Stop PROVE Tail(q) = <<>>
  <2>1. Len(q) = 1
    BY <1>1, <1>4 DEF Closed
  <2>2. Len(Tail(q)) = 0
    BY <1>1, <2>1
  <2> QED  BY <1>2, <2>2, NoLength
<1>5. ASSUME Closed(q), Head(q) # Stop PROVE Closed(Tail(q))
  <2>1. Len(q) > 1
    BY <1>1, <1>5 DEF Closed
  <2>2. Tail(q)[Len(Tail(q))] = Stop /\ Len(Tail(q)) # 0
    <3>1. Len(q) - 1 \in 1 .. Len(q) - 1 /\ (Len(q) - 1) + 1 = Len(q)
      BY <1>1, <2>1
    <3>2. Tail(q)[Len(q) - 1] = q[Len(q)]
      BY <1>1, <3>1
    <3> QED  BY <1>1, <1>5, <3>1, <3>2 DEF Closed
  <2>3. \A n \in 1 .. Len(Tail(q)) - 1 : Tail(q)[n] # Stop
    BY <1>1, <1>5, <2>1 DEF Closed
  <2>4. Tail(q) # <<>>
    <3>1. Len(<<>>) = 0
      OBVIOUS
    <3> QED  BY <2>2, <3>1, Zenon
  <2> QED  BY <2>2, <2>3, <2>4 DEF Closed
<1> QED  BY <1>3, <1>4, <1>5

\* Slave s between its creation and its end.
Served(s) == /\ slavePc[s] \in {"forked", "running"} /\ pid[s] = 1 /\ Open(tasks[s])
Told(s)   == /\ pid[s] = 0
             /\ \/ slavePc[s] \in {"forked", "running"} /\ Closed(tasks[s])
                \/ slavePc[s] = "exited" /\ tasks[s] = <<>>

Making  == {"prompt", "create"}
Ending  == {"flagLock", "setFlag", "flagUnlock", "stop"}

\* Slaves are created in their order.  As long as files are left nobody is
\* stopped; a round of distributeFiles stops each slave once, and stopSlaves
\* those that no round has stopped.
StopInv ==
  "exec" \notin Faults /\ pc # "aborted" =>
    /\ pc = "prompt" => i = 0
    /\ pc \in Making =>
         /\ \A s \in Slaves : s < i => Served(s)
         /\ \A s \in Slaves : s >= i => pid[s] = 0 /\ slavePc[s] = "none" /\ tasks[s] = <<>>
    /\ pc \notin Making =>
         /\ \A s \in Slaves : Served(s) \/ Told(s)
         /\ pc = "distribute" => \A s \in Slaves : s >= i => Served(s)
         /\ pc \notin Ending \cup Past /\ distributedFiles < numOfFiles =>
              \A s \in Slaves : Served(s)
    /\ pc # "killed"

LEMMA StopInit == Init => StopInv
<1> SUFFICES ASSUME Init PROVE StopInv
  OBVIOUS
<1>1. \A s \in Slaves : pid[s] = 0 /\ slavePc[s] = "none" /\ tasks[s] = <<>> /\ ~(s < 0)
  BY FarmAssumption DEF Init, Slaves
<1> QED  BY <1>1 DEF Init, StopInv, Making

\* What distributeFiles and stopSlaves write to a slave.
LEMMA OutgoingIs ==
  ASSUME AppType, i \in Slaves
  PROVE  /\ pc = "distribute" /\ distributedFiles < numOfFiles => Open(Outgoing)
         /\ pc = "distribute" /\ ~(distributedFiles < numOfFiles) => Outgoing = <<Stop>>
         /\ pc = "stop" => Outgoing = IF pid[i] # 0 THEN <<Stop>> ELSE <<>>
<1>1. ASSUME pc = "distribute", distributedFiles < numOfFiles PROVE Open(Outgoing)
  <2> DEFINE n == BatchFor(i)
             batch == [j \in 1 .. n |-> distributedFiles + j]
  <2>1. n \in Nat /\ distributedFiles \in Nat
    BY BatchBound, FarmAssumption DEF AppType
  <2>2. Outgoing = batch
    BY <1>1 DEF Outgoing
  <2> HIDE DEF n
  <2>3. Len(batch) = n /\ \A j \in 1 .. n : batch[j] = distributedFiles + j
    BY <2>1
  <2> HIDE DEF batch
  <2> QED  BY <2>1, <2>2, <2>3 DEF Open, Stop
<1> QED  BY <1>1 DEF Outgoing

LEMMA StopApp ==
  ASSUME TypeOK, StopInv, App PROVE StopInv'
<1> SUFFICES ASSUME "exec" \notin Faults, pc' # "aborted"
             PROVE  StopInv'
  BY DEF StopInv
<1>0. /\ AppType /\ pc # "aborted" /\ Messages = Files \cup {Stop}
      /\ \A s \in Slaves : tasks[s] \in Seq(Messages)
      /\ pid \in [Slaves -> {0, 1}] /\ i \in 0 .. NumSlaves
      /\ slavePc \in [Slaves -> {"none", "forked", "running", "exited"}]
      /\ tasks \in [Slaves -> Seq(Messages)]
      /\ Slaves \subseteq Int
  <2>1. pc # "aborted"
    BY DEF App, CreateSlave, ParseFileList, Distribute, BrokenPipe, Select, Listen,
           AppLock, Publish, SetFlag, AppUnlock, Count, StopSlave, DestroyMemory,
           DestroySemaphore
  <2>2. Slaves \subseteq Int
    BY FarmAssumption DEF Slaves
  <2> QED  BY <2>1, <2>2 DEF TypeOK, AppType, SlaveType, Messages
<1> USE DEF Making, Ending, Past
<1>1. CASE CreateSlave
  <2>1. PICK t \in Slaves : t = i
    BY <1>0, <1>1, FarmAssumption DEF CreateSlave, Slaves
  <2>2. i' = t + 1 /\ pc' = "create" /\ pc = "create" /\ tasks' = tasks
        /\ slavePc' = [slavePc EXCEPT ![t] = "forked"]
        /\ pid' = [pid EXCEPT ![t] = 1]
    BY <1>0, <1>1, <2>1 DEF CreateSlave
  <2>3. \A s \in Slaves : s # t => slavePc'[s] = slavePc[s] /\ pid'[s] = pid[s]
    BY <1>0, <2>2
  <2>4. /\ \A s \in Slaves : s < t => Served(s)
        /\ \A s \in Slaves : s >= t => pid[s] = 0 /\ slavePc[s] = "none" /\ tasks[s] = <<>>
    BY <1>0, <2>1, <2>2 DEF StopInv
  <2>5. Served(t)'
    BY <1>0, <2>1, <2>2, <2>4 DEF Served, Open
  <2>6. ASSUME NEW s \in Slaves, s < i' PROVE Served(s)'
    <3>1. s = t \/ (s # t /\ s < t)
      BY <1>0, <2>2, <2>6
    <3> QED  BY <2>2, <2>3, <2>4, <2>5, <3>1 DEF Served
  <2>7. ASSUME NEW s \in Slaves, s >= i'
        PROVE  pid'[s] = 0 /\ slavePc'[s] = "none" /\ tasks'[s] = <<>>
    <3>1. s # t /\ s >= t
      BY <1>0, <2>2, <2>7
    <3> QED  BY <2>2, <2>3, <2>4, <3>1
  <2> QED  BY <2>2, <2>6, <2>7 DEF StopInv
<1>2. CASE ParseFileList
  <2>1. \A s \in Slaves : s < i
    BY <1>0, <1>2, FarmAssumption DEF ParseFileList, Slaves
  <2>2. \A s \in Slaves : Served(s)'
    BY <1>0, <1>2, <2>1 DEF ParseFileList, Served, slaveVars, StopInv
  <2> QED  BY <1>2, <2>2 DEF ParseFileList, StopInv
<1>3. CASE Distribute \/ StopSlave
  <2>1. PICK t \in Slaves : t = i
    BY <1>0, <1>3 DEF Distribute, StopSlave, AppType
  <2>2. /\ pc \in {"distribute", "stop"} /\ slavePc' = slavePc
        /\ tasks' = [tasks EXCEPT ![t] = @ \o Outgoing]
        /\ numOfFiles' = numOfFiles
        /\ pc' \in {"distribute", "stop", "select", "rmMem"}
        /\ pc' \in {"distribute", "stop"} => pc' = pc /\ i' = t + 1
        /\ pc' = "select" => pc = "distribute"
    BY <1>0, <1>3, <2>1 DEF Distribute, StopSlave, WriteToSlave
  <2>3. (\A s \in Slaves : s # t => tasks'[s] = tasks[s]) /\ tasks'[t] = tasks[t] \o Outgoing
    BY <1>0, <2>2
  <2>4. /\ \A s \in Slaves : Served(s) \/ Told(s)
        /\ pc = "distribute" => \A s \in Slaves : s >= t => Served(s)
        /\ pc = "distribute" /\ distributedFiles < numOfFiles => \A s \in Slaves : Served(s)
    BY <1>0, <2>1, <2>2 DEF StopInv
  <2>5. Outgoing \in Seq(Messages)
    BY <1>0, <2>1, OutgoingType
  <2>6. CASE pc = "distribute" /\ distributedFiles < numOfFiles
    <3>1. pid' = pid /\ pc' \in {"distribute", "select"}
      BY <1>3, <2>6 DEF Distribute, StopSlave, WriteToSlave
    <3>2. Open(tasks[t] \o Outgoing)
      <4>1. Open(tasks[t]) /\ Open(Outgoing) /\ tasks[t] \in Seq(Messages)
        BY <1>0, <2>1, <2>4, <2>6, OutgoingIs DEF Served
      <4> QED  BY <2>5, <4>1, OpenJoined
    <3>3. \A s \in Slaves : Served(s)'
      BY <2>2, <2>3, <2>4, <2>6, <3>1, <3>2 DEF Served
    <3> QED  BY <2>2, <3>1, <3>3 DEF StopInv
  <2>7. CASE ~(pc = "distribute" /\ distributedFiles < numOfFiles)
    <3>1. /\ pid' = [pid EXCEPT ![t] = 0]
          /\ pc = "distribute" => /\ distributedFiles' = distributedFiles
                                  /\ ~(distributedFiles < numOfFiles)
      BY <1>3, <2>1, <2>7 DEF Distribute, StopSlave
    <3>2. pid'[t] = 0 /\ \A s \in Slaves : s # t => pid'[s] = pid[s]
      BY <1>0, <3>1
    <3>3. \A s \in Slaves : s # t => /\ Served(s) => Served(s)'
                                     /\ Told(s) => Told(s)'
      BY <2>2, <2>3, <3>2 DEF Served, Told
    <3>4. Told(t)'
      <4>1. CASE Served(t)
        <5>1. Outgoing = <<Stop>> /\ tasks[t] \in Seq(Messages) /\ Open(tasks[t])
          BY <1>0, <2>1, <2>2, <3>1, <4>1, OutgoingIs DEF Served
        <5>2. Closed(tasks'[t])
          BY <2>3, <5>1, OpenStopped
        <5> QED  BY <2>2, <3>2, <4>1, <5>2 DEF Served, Told
      <4>2. CASE Told(t) /\ ~Served(t)
        <5>1. pc = "stop" /\ pid[t] = 0
          BY <1>0, <2>2, <2>4, <4>2 DEF Told
        <5>2. Outgoing = <<>> /\ tasks[t] \in Seq(Messages)
          BY <1>0, <2>1, <5>1, OutgoingIs
        <5>3. tasks'[t] = tasks[t]
          BY <2>3, <5>2
        <5> QED  BY <2>2, <3>2, <4>2, <5>3 DEF Told
      <4> QED  BY <2>4, <4>1, <4>2
    <3>5. \A s \in Slaves : Served(s)' \/ Told(s)'
      BY <2>4, <3>3, <3>4
    <3>6. ASSUME pc' = "distribute", NEW s \in Slaves, s >= i' PROVE Served(s)'
      <4>1. s # t /\ s >= t /\ pc = "distribute"
        BY <1>0, <2>2, <3>6
      <4> QED  BY <2>4, <3>3, <4>1
    <3>7. pc' \notin Ending \cup Past => ~(distributedFiles' < numOfFiles')
      BY <2>2, <3>1
    <3> QED  BY <2>2, <3>5, <3>6, <3>7 DEF StopInv
  <2> QED  BY <2>6, <2>7
<1>4. CASE BrokenPipe
  <2>1. i \in Slaves /\ Outgoing # <<>> /\ slavePc[i] = "exited"
        /\ pc \in {"distribute", "stop"}
    BY <1>0, <1>4 DEF BrokenPipe, AppType
  <2>2. Served(i) \/ Told(i)
    BY <1>0, <2>1 DEF StopInv
  <2>3. pid[i] = 0 => pc = "stop" /\ Outgoing = <<>>
    BY <1>0, <2>1, OutgoingIs DEF StopInv, Served
  <2> QED  BY <2>1, <2>2, <2>3 DEF Served, Told
<1>5. CASE \/ Select \/ Listen \/ AppLock \/ Publish \/ SetFlag \/ AppUnlock
           \/ Count \/ DestroyMemory \/ DestroySemaphore
  <2>1. /\ UNCHANGED <<pid, slavePc, tasks, distributedFiles, numOfFiles>>
        /\ pc \notin Making /\ pc' \notin Making /\ pc' # "killed"
        /\ pc' \notin Ending \cup Past => pc \notin Ending \cup Past
        /\ pc' = "distribute" => distributedFiles # numOfFiles
    BY <1>5
       DEF Select, Listen, AppLock, Publish, SetFlag, AppUnlock, Count,
           DestroyMemory, DestroySemaphore, NextSlave, LoopHead, slaveVars
  <2>2. \A s \in Slaves : (Served(s)' <=> Served(s)) /\ (Told(s)' <=> Told(s))
    BY <2>1 DEF Served, Told
  <2>3. distributedFiles # numOfFiles => distributedFiles < numOfFiles
    BY <1>0, FarmAssumption DEF AppType
  <2> QED  BY <1>0, <2>1, <2>2, <2>3 DEF StopInv
<1> QED  BY <1>1, <1>2, <1>3, <1>4, <1>5 DEF App

LEMMA StopSlaves ==
  ASSUME TypeOK, StopInv, NEW s \in Slaves, Slave(s) PROVE StopInv'
<1> SUFFICES ASSUME "exec" \notin Faults, pc # "aborted"
             PROVE  StopInv'
  BY DEF StopInv, Slave, Exec, ReadTask, Hash, appVars
<1>0. /\ UNCHANGED <<pc, i, pid, distributedFiles, numOfFiles>>
      /\ tasks[s] \in Seq(Messages)
      /\ slavePc \in [Slaves -> {"none", "forked", "running", "exited"}]
      /\ tasks \in [Slaves -> Seq(Messages)]
  BY DEF TypeOK, SlaveType, Messages, Slave, Exec, ReadTask, Hash, appVars
<1>1. slavePc[s] # "none" => Served(s) \/ Told(s)
  <2> SUFFICES ASSUME slavePc[s] # "none", pc \in Making
               PROVE  Served(s)
    BY DEF StopInv
  <2> QED  BY FarmAssumption DEF StopInv, TypeOK, AppType, Slaves
<1>2. \A r \in Slaves : r # s => slavePc'[r] = slavePc[r] /\ tasks'[r] = tasks[r]
  BY <1>0 DEF Slave, Exec, ReadTask, Hash
<1>3. /\ Served(s) => Served(s)'
      /\ Told(s) => Told(s)'
      /\ slavePc[s] = "none" => slavePc'[s] = "none" /\ tasks'[s] = tasks[s]
  <2>1. CASE Exec(s)
    <3>1. slavePc[s] = "forked" /\ slavePc'[s] = "running" /\ tasks' = tasks
      BY <1>0, <2>1 DEF Exec
    <3> QED  BY <1>0, <3>1 DEF Served, Told
  <2>2. CASE ReadTask(s)
    <3>1. /\ slavePc[s] = "running" /\ tasks[s] # <<>> /\ tasks'[s] = Tail(tasks[s])
          /\ slavePc'[s] = IF Head(tasks[s]) = Stop THEN "exited" ELSE "running"
      BY <1>0, <2>2 DEF ReadTask
    <3>2. /\ Open(tasks[s]) => Head(tasks[s]) # Stop /\ Open(Tail(tasks[s]))
          /\ Closed(tasks[s]) /\ Head(tasks[s]) = Stop => Tail(tasks[s]) = <<>>
          /\ Closed(tasks[s]) /\ Head(tasks[s]) # Stop => Closed(Tail(tasks[s]))
      BY <1>0, <3>1, OpenRead
    <3> QED  BY <1>0, <3>1, <3>2 DEF Served, Told
  <2>3. CASE Hash(s)
    BY <1>0, <2>3 DEF Hash, Served, Told
  <2> QED  BY <2>1, <2>2, <2>3 DEF Slave
<1>4. \A r \in Slaves : (Served(r) => Served(r)') /\ (Told(r) => Told(r)')
  BY <1>0, <1>2, <1>3 DEF Served, Told
<1>5. \A r \in Slaves :
        slavePc[r] = "none" /\ tasks[r] = <<>> => slavePc'[r] = "none" /\ tasks'[r] = <<>>
  BY <1>2, <1>3
<1> QED  BY <1>0, <1>4, <1>5 DEF StopInv

LEMMA StopNext == TypeOK /\ StopInv /\ [Next]_vars => StopInv'
<1> SUFFICES ASSUME TypeOK, StopInv, [Next]_vars PROVE StopInv'
  OBVIOUS
<1>1. CASE App  BY <1>1, StopApp
<1>2. CASE \E s \in Slaves : Slave(s)  BY <1>2, StopSlaves
<1>3. CASE (\E v \in Views : AttachMemory(v) \/ ViewRun(v)) \/ UNCHANGED vars
  <2>1. UNCHANGED <<pc, i, pid, distributedFiles, numOfFiles, slavePc, tasks>>
    BY <1>3 DEF ViewRun, AttachMemory, AttachSemaphore, ViewWait, ViewLock, ViewRead,
                ViewUnlock, ViewDestroy, vars, appVars, slaveVars
  <2> QED  BY <2>1 DEF StopInv, Served, Told
<1>4. CASE TypeY
  <2>1. UNCHANGED <<i, pid, distributedFiles, numOfFiles, slavePc, tasks>>
        /\ pc = "prompt" /\ pc' = "create"
    BY <1>4 DEF TypeY, slaveVars
  <2> QED  BY <2>1 DEF StopInv, Served, Making
<1> QED  BY <1>1, <1>2, <1>3, <1>4 DEF Next

\* The application is never killed by SIGPIPE unless an execlp failed: whatever
\* it writes to a slave, the slave is still there to read.
THEOREM PipesHold == Spec => []NoBrokenPipe
<1>1. StopInv => NoBrokenPipe
  BY DEF StopInv, NoBrokenPipe
<1> QED
  BY <1>1, TypeInit, TypeNext, StopInit, StopNext, PTL DEF Spec

\* Each slave is told to stop once, behind all files written to it, and has
\* read them all when it exits.
THEOREM SlavesStopOnce == Spec => []StopsCleanly
<1>1. TypeOK /\ StopInv => StopsCleanly
  <2> SUFFICES ASSUME TypeOK, StopInv, "exec" \notin Faults, pc # "aborted",
                      NEW s \in Slaves
               PROVE  /\ StopsAt(s) \subseteq {Len(tasks[s])}
                      /\ slavePc[s] = "exited" => tasks[s] = <<>> /\ pid[s] = 0
                      /\ slavePc[s] = "running" =>
                           (pid[s] = 0 <=> StopsAt(s) # {})
    BY DEF StopsCleanly
  <2>1. Served(s) \/ Told(s) \/ (slavePc[s] = "none" /\ tasks[s] = <<>>)
    <3>1. s < i \/ s >= i
      BY FarmAssumption DEF TypeOK, AppType, Slaves
    <3> QED  BY <3>1 DEF StopInv
  <2>2. tasks[s] \in Seq(Messages)
    BY DEF TypeOK, SlaveType, Messages
  <2>3. Len(tasks[s]) \in Nat /\ (tasks[s] # <<>> => Len(tasks[s]) > 0)
    BY <2>2
  <2>4. Open(tasks[s]) => StopsAt(s) = {}
    BY DEF Open, StopsAt
  <2>5. Closed(tasks[s]) => StopsAt(s) = {Len(tasks[s])}
    BY <2>3 DEF Closed, StopsAt
  <2>6. tasks[s] = <<>> => StopsAt(s) = {}
    BY DEF StopsAt
  <2> QED  BY <2>1, <2>4, <2>5, <2>6 DEF Served, Told
<1> QED
  BY <1>1, TypeInit, TypeNext, StopInit, StopNext, PTL DEF Spec

--------------------------------------------------------------------------------
(* Where the files are *)

\* What is in a sequence of messages after one is written or read.
LEMMA ElementsJoined ==
  ASSUME NEW q \in Seq(Messages), NEW m \in Seq(Messages)
  PROVE  /\ Elements(q \o m) = Elements(q) \cup Elements(m)
         /\ Distinct(q) /\ Distinct(m) /\ Elements(q) \cap Elements(m) = {}
              => Distinct(q \o m)
<1> DEFINE r == q \o m
<1>1. /\ Len(r) = Len(q) + Len(m)
      /\ \A n \in 1 .. Len(q) + Len(m) :
           r[n] = IF n <= Len(q) THEN q[n] ELSE m[n - Len(q)]
  BY ConcatProperties
<1>2. Len(q) \in Nat /\ Len(m) \in Nat
  OBVIOUS
<1> HIDE DEF r
<1>3. \A n \in 1 .. Len(q) : n \in 1 .. Len(r) /\ r[n] = q[n]
  BY <1>1, <1>2
<1>4. \A n \in 1 .. Len(m) : Len(q) + n \in 1 .. Len(r) /\ r[Len(q) + n] = m[n]
  <2>1. ASSUME NEW n \in 1 .. Len(m)
        PROVE  Len(q) + n \in 1 .. Len(r) /\ r[Len(q) + n] = m[n]
    <3>1. PICK d \in Nat : d = Len(q) + n
      BY <1>2
    <3>2. d \in 1 .. Len(q) + Len(m) /\ ~(d <= Len(q)) /\ d - Len(q) = n
      BY <1>2, <3>1
    <3>3. r[d] = m[n]
      BY <1>1, <3>2
    <3> QED  BY <1>1, <3>1, <3>2, <3>3
  <2> QED  BY <2>1
<1>5. \A n \in 1 .. Len(r) :
        \/ n \in 1 .. Len(q) /\ r[n] = q[n]
        \/ n - Len(q) \in 1 .. Len(m) /\ r[n] = m[n - Len(q)]
  BY <1>1, <1>2
<1>6. Elements(r) = Elements(q) \cup Elements(m)
  <2>1. Elements(q) \subseteq Elements(r)
    BY <1>3 DEF Elements
  <2>2. Elements(m) \subseteq Elements(r)
    BY <1>4 DEF Elements
  <2>3. Elements(r) \subseteq Elements(q) \cup Elements(m)
    BY <1>5 DEF Elements
  <2> QED  BY <2>1, <2>2, <2>3
<1>7. ASSUME Distinct(q), Distinct(m), Elements(q) \cap Elements(m) = {},
             NEW a \in 1 .. Len(r), NEW b \in 1 .. Len(r), r[a] = r[b], r[a] \in Files
      PROVE  a = b
  <2>1. CASE a \in 1 .. Len(q) /\ r[a] = q[a] /\ b \in 1 .. Len(q) /\ r[b] = q[b]
    BY <1>7, <2>1 DEF Distinct
  <2>2. CASE /\ a - Len(q) \in 1 .. Len(m) /\ r[a] = m[a - Len(q)]
             /\ b - Len(q) \in 1 .. Len(m) /\ r[b] = m[b - Len(q)]
    <3>1. a - Len(q) = b - Len(q)
      BY <1>7, <2>2 DEF Distinct
    <3> QED  BY <1>2, <3>1
  <2>3. CASE /\ a \in 1 .. Len(q) /\ r[a] = q[a]
             /\ b - Len(q) \in 1 .. Len(m) /\ r[b] = m[b - Len(q)]
    BY <1>7, <2>3 DEF Elements
  <2>4. CASE /\ b \in 1 .. Len(q) /\ r[b] = q[b]
             /\ a - Len(q) \in 1 .. Len(m) /\ r[a] = m[a - Len(q)]
    BY <1>7, <2>4 DEF Elements
  <2> QED  BY <1>5, <2>1, <2>2, <2>3, <2>4
<1> QED  BY <1>6, <1>7 DEF Distinct, r

LEMMA ElementsAppended ==
  ASSUME NEW q \in Seq(Messages), NEW x \in Messages
  PROVE  /\ Elements(Append(q, x)) = Elements(q) \cup ({x} \cap Files)
         /\ Distinct(q) /\ x \notin Elements(q) => Distinct(Append(q, x))
<1> DEFINE r == Append(q, x)
<1>1. /\ Len(r) = Len(q) + 1 /\ r[Len(q) + 1] = x
      /\ \A n \in 1 .. Len(q) : r[n] = q[n]
  BY AppendProperties
<1>2. Len(q) \in Nat
  OBVIOUS
<1> HIDE DEF r
<1>3. \A n \in 1 .. Len(r) : n \in 1 .. Len(q) \/ n = Len(q) + 1
  BY <1>1, <1>2
<1>4. Len(q) + 1 \in 1 .. Len(r) /\ \A n \in 1 .. Len(q) : n \in 1 .. Len(r)
  BY <1>1, <1>2
<1>5. Elements(r) = Elements(q) \cup ({x} \cap Files)
  BY <1>1, <1>3, <1>4 DEF Elements
<1>6. ASSUME Distinct(q), x \notin Elements(q),
             NEW a \in 1 .. Len(r), NEW b \in 1 .. Len(r), r[a] = r[b], r[a] \in Files
      PROVE  a = b
  BY <1>1, <1>3, <1>6 DEF Distinct, Elements
<1> QED  BY <1>5, <1>6 DEF Distinct, r

LEMMA ElementsRead ==
  ASSUME NEW q \in Seq(Messages), q # <<>>, Distinct(q)
  PROVE  /\ Elements(Tail(q)) = Elements(q) \ {Head(q)}
         /\ Head(q) \in Files => Head(q) \in Elements(q)
         /\ Distinct(Tail(q))
<1> DEFINE r == Tail(q)
<1>1. /\ Len(r) = Len(q) - 1 /\ Head(q) = q[1] /\ Len(q) \in Nat \ {0}
      /\ \A n \in 1 .. Len(q) - 1 : r[n] = q[n + 1]
  BY HeadTailProperties
<1> HIDE DEF r
<1>2. \A n \in 1 .. Len(r) : n + 1 \in 1 .. Len(q) /\ r[n] = q[n + 1] /\ n + 1 # 1
  BY <1>1
<1>3. \A n \in 1 .. Len(q) : n = 1 \/ (n - 1 \in 1 .. Len(r) /\ r[n - 1] = q[n])
  BY <1>1
<1>4. 1 \in 1 .. Len(q)
  BY <1>1
<1>5. Head(q) \in Files => Head(q) \in Elements(q)
  BY <1>1, <1>4 DEF Elements
<1>6. Elements(r) = Elements(q) \ {Head(q)}
  <2>1. ASSUME NEW k \in Elements(r) PROVE k \in Elements(q) /\ k # Head(q)
    <3>1. PICK n \in 1 .. Len(r) : r[n] = k /\ k \in Files
      BY DEF Elements
    <3>2. n + 1 \in 1 .. Len(q) /\ k = q[n + 1] /\ n + 1 # 1
      BY <1>2, <3>1
    <3> QED  BY <1>1, <1>4, <3>1, <3>2 DEF Elements, Distinct
  <2>2. ASSUME NEW k \in Elements(q), k # Head(q) PROVE k \in Elements(r)
    <3>1. PICK n \in 1 .. Len(q) : q[n] = k /\ k \in Files
      BY DEF Elements
    <3> QED  BY <1>1, <1>3, <2>2, <3>1 DEF Elements
  <2> QED  BY <2>1, <2>2
<1>7. ASSUME NEW a \in 1 .. Len(r), NEW b \in 1 .. Len(r), r[a] = r[b], r[a] \in Files
      PROVE  a = b
  <2>1. a + 1 = b + 1
    BY <1>2, <1>7 DEF Distinct
  <2> QED  BY <2>1
<1> QED  BY <1>5, <1>6, <1>7 DEF Distinct, r

\* A file in one place each, and the files not handed out in none: what is
\* there after one file moved.
OnePlace(C) ==
  \A k \in Files : \A p, q \in Places : k \in C[p] /\ k \in C[q] => p = q
AllGiven(C, d) ==
  \A k \in Files : k <= d <=> \E p \in Places : k \in C[p]

Moved(C, D, x, a, b) ==
  /\ a # b /\ x \in C[a] /\ D[a] = C[a] \ {x} /\ D[b] = C[b] \cup {x}
  /\ \A p \in Places : p # a /\ p # b => D[p] = C[p]

LEMMA OneMoved ==
  ASSUME NEW C, NEW D, NEW a \in Places, NEW b \in Places, NEW x, NEW d,
         OnePlace(C), AllGiven(C, d), Moved(C, D, x, a, b)
  PROVE  OnePlace(D) /\ AllGiven(D, d)
<1> USE DEF Moved
<1>1. OnePlace(D)
  <2> SUFFICES ASSUME NEW k \in Files, NEW p \in Places, NEW q \in Places,
                      k \in D[p], k \in D[q]
               PROVE  p = q
    BY DEF OnePlace
  <2>1. CASE k = x
    <3>1. \A r \in Places : k \in D[r] => r = b
      BY <2>1 DEF OnePlace
    <3> QED  BY <3>1
  <2>2. CASE k # x
    <3>1. \A r \in Places : k \in D[r] => k \in C[r]
      BY <2>2
    <3> QED  BY <3>1 DEF OnePlace
  <2> QED  BY <2>1, <2>2
<1>2. ASSUME NEW k \in Files
      PROVE  (\E p \in Places : k \in C[p]) <=> (\E p \in Places : k \in D[p])
  <2>1. CASE k = x
    BY <2>1
  <2>2. CASE k # x
    <3>1. \A r \in Places : k \in D[r] <=> k \in C[r]
      BY <2>2
    <3> QED  BY <3>1
  <2> QED  BY <2>1, <2>2
<1>3. AllGiven(D, d)
  BY <1>2 DEF AllGiven
<1> QED  BY <1>1, <1>3

\* The next n files appear in a.
Given(C, D, a, d, n) ==
  D[a] = C[a] \cup (d + 1 .. d + n) /\ \A p \in Places : p # a => D[p] = C[p]

LEMMA FilesGiven ==
  ASSUME NEW C, NEW D, NEW a \in Places, NEW d \in Nat, NEW n \in Nat,
         OnePlace(C), AllGiven(C, d), d + n <= MaxFiles, Given(C, D, a, d, n)
  PROVE  /\ OnePlace(D) /\ AllGiven(D, d + n)
         /\ \A p \in Places : C[p] \cap (d + 1 .. d + n) = {}
<1> USE DEF Given
<1>0. Files \subseteq Nat /\ \A k \in d + 1 .. d + n : k \in Files /\ ~(k <= d) /\ k <= d + n
  BY FarmAssumption DEF Files
<1>1. \A p \in Places : C[p] \cap (d + 1 .. d + n) = {}
  BY <1>0 DEF AllGiven
<1>2. \A p \in Places, k \in Files :
        k \in D[p] <=> k \in C[p] \/ (p = a /\ k \in d + 1 .. d + n)
  OBVIOUS
<1>3. OnePlace(D)
  BY <1>1, <1>2 DEF OnePlace
<1>4. ASSUME NEW k \in Files
      PROVE  k <= d + n <=> \E p \in Places : k \in D[p]
  <2>1. k <= d + n <=> k <= d \/ k \in d + 1 .. d + n
    BY <1>0
  <2>2. CASE k <= d
    BY <1>2, <2>1, <2>2 DEF AllGiven
  <2>3. CASE ~(k <= d)
    BY <1>2, <2>1, <2>3 DEF AllGiven
  <2> QED  BY <2>2, <2>3
<1> QED  BY <1>1, <1>3, <1>4 DEF AllGiven

LEMMA ContentIs ==
  ASSUME NEW s \in Slaves
  PROVE  /\ content[<<"tasks", s>>] = Elements(tasks[s])
         /\ content[<<"hashing", s>>] = {hashing[s]} \cap Files
         /\ content[<<"results", s>>] = Elements(results[s])
         /\ content[<<"failed", s>>] = failed[s]
         /\ content[<<"output", 0>>] = Elements(output)
BY DEF content, Places

LEMMA NextContentIs ==
  ASSUME NEW s \in Slaves
  PROVE  /\ content'[<<"tasks", s>>] = Elements(tasks'[s])
         /\ content'[<<"hashing", s>>] = {hashing'[s]} \cap Files
         /\ content'[<<"results", s>>] = Elements(results'[s])
         /\ content'[<<"failed", s>>] = failed'[s]
         /\ content'[<<"output", 0>>] = Elements(output')
BY DEF content, Places, Elements

LEMMA PlaceIs ==
  ASSUME NEW p \in Places
  PROVE  \/ p = <<"output", 0>>
         \/ \E s \in Slaves : \/ p = <<"tasks", s>> \/ p = <<"hashing", s>>
                              \/ p = <<"results", s>> \/ p = <<"failed", s>>
BY DEF Places

LEMMA ArePlaces ==
  /\ <<"output", 0>> \in Places
  /\ \A s \in Slaves : /\ <<"tasks", s>> \in Places /\ <<"hashing", s>> \in Places
                       /\ <<"results", s>> \in Places /\ <<"failed", s>> \in Places
BY DEF Places

\* Places other than x and y of slave s.
SameBut(C, D, s, x, y) ==
  /\ D[<<"output", 0>>] = C[<<"output", 0>>]
  /\ \A r \in Slaves : \A c \in {"tasks", "hashing", "results", "failed"} :
       r # s \/ (c # x /\ c # y) => D[<<c, r>>] = C[<<c, r>>]

LEMMA SamePlaces ==
  ASSUME NEW C, NEW D, NEW s \in Slaves, NEW x, NEW y, SameBut(C, D, s, x, y)
  PROVE  \A p \in Places : p # <<x, s>> /\ p # <<y, s>> => D[p] = C[p]
<1> SUFFICES ASSUME NEW p \in Places, p # <<x, s>>, p # <<y, s>> PROVE D[p] = C[p]
  OBVIOUS
<1>1. ASSUME NEW r \in Slaves, NEW c \in {"tasks", "hashing", "results", "failed"},
             p = <<c, r>>
      PROVE  D[p] = C[p]
  <2>1. r # s \/ (c # x /\ c # y)
    BY <1>1
  <2> QED  BY <1>1, <2>1 DEF SameBut
<1> QED  BY <1>1, PlaceIs DEF SameBut

SameAll(C, D) ==
  /\ D[<<"output", 0>>] = C[<<"output", 0>>]
  /\ \A r \in Slaves : \A c \in {"tasks", "hashing", "results", "failed"} :
       D[<<c, r>>] = C[<<c, r>>]

LEMMA AllPlaces ==
  ASSUME NEW C, NEW D, SameAll(C, D) PROVE \A p \in Places : D[p] = C[p]
BY PlaceIs DEF SameAll

fileVars == <<tasks, hashing, results, failed, output>>

LEMMA SameContent ==
  ASSUME UNCHANGED fileVars PROVE content' = content
BY DEF fileVars, content, Elements

FilesInv ==
  /\ OnePlace(content) /\ AllGiven(content, distributedFiles)
  /\ \A s \in Slaves : Distinct(tasks[s]) /\ Distinct(results[s])
  /\ Distinct(output)

\* The line that slaveListener works on has just been written to md5Hash.txt.
Written == pc \in {"lock", "publish", "unlock", "count"} => message \in Elements(output)

LEMMA OutgoingFiles ==
  ASSUME AppType, i \in Slaves
  PROVE  /\ pc = "distribute" /\ distributedFiles < numOfFiles =>
              /\ Elements(Outgoing) = distributedFiles + 1 .. distributedFiles + BatchFor(i)
              /\ Distinct(Outgoing)
         /\ ~(pc = "distribute" /\ distributedFiles < numOfFiles) =>
              Elements(Outgoing) = {} /\ Distinct(Outgoing)
<1>1. ASSUME pc = "distribute", distributedFiles < numOfFiles
      PROVE  /\ Elements(Outgoing) = distributedFiles + 1 .. distributedFiles + BatchFor(i)
             /\ Distinct(Outgoing)
  <2> DEFINE n == BatchFor(i)
             d == distributedFiles
             batch == [j \in 1 .. n |-> d + j]
  <2>1. n \in Nat /\ d \in Nat /\ d + n <= MaxFiles
    BY BatchBound, FarmAssumption DEF AppType
  <2>2. Outgoing = batch
    BY <1>1 DEF Outgoing
  <2> HIDE DEF n, d
  <2>3. Len(batch) = n /\ \A j \in 1 .. n : batch[j] = d + j
    BY <2>1
  <2> HIDE DEF batch
  <2>4. Elements(batch) \subseteq d + 1 .. d + n
    BY <2>1, <2>3 DEF Elements
  <2>5. ASSUME NEW k \in d + 1 .. d + n PROVE k \in Elements(batch)
    <3>1. k - d \in 1 .. n /\ d + (k - d) = k /\ k \in Files
      BY <2>1, FarmAssumption DEF Files
    <3> QED  BY <2>3, <3>1 DEF Elements
  <2>6. Distinct(batch)
    BY <2>1, <2>3 DEF Distinct
  <2> QED  BY <2>2, <2>4, <2>5, <2>6 DEF n, d
<1>2. CASE ~(pc = "distribute" /\ distributedFiles < numOfFiles)
  <2>1. Outgoing = <<Stop>> \/ Outgoing = <<>>
    BY <1>2 DEF Outgoing
  <2>2. Elements(<<Stop>>) = {} /\ Distinct(<<Stop>>)
    <3>1. Stop \notin Files /\ Len(<<Stop>>) = 1 /\ <<Stop>>[1] = Stop
      BY FarmAssumption DEF Files, Stop
    <3>2. \A n \in 1 .. Len(<<Stop>>) : <<Stop>>[n] = Stop
      BY <3>1
    <3> HIDE DEF Stop
    <3> QED  BY <3>1, <3>2 DEF Elements, Distinct
  <2>3. Elements(<<>>) = {} /\ Distinct(<<>>)
    BY DEF Elements, Distinct
  <2> QED  BY <1>2, <2>1, <2>2, <2>3
<1> QED  BY <1>1, <1>2

LEMMA FilesInit == Init => FilesInv /\ Written
<1> SUFFICES ASSUME Init PROVE FilesInv /\ Written
  OBVIOUS
<1>1. Elements(<<>>) = {} /\ Distinct(<<>>) /\ Nul \notin Files
  BY DEF Elements, Distinct, Nul, Files
<1>2. \A p \in Places : content[p] = {}
  <2> SUFFICES ASSUME NEW p \in Places PROVE content[p] = {}
    OBVIOUS
  <2>1. CASE p = <<"output", 0>>
    BY <1>1, <2>1 DEF Init, content
  <2>2. ASSUME NEW s \in Slaves,
               \/ p = <<"tasks", s>> \/ p = <<"hashing", s>>
               \/ p = <<"results", s>> \/ p = <<"failed", s>>
        PROVE  content[p] = {}
    BY <1>1, <2>2, ContentIs DEF Init
  <2> QED  BY <2>1, <2>2, PlaceIs
<1>3. AllGiven(content, distributedFiles)
  BY <1>2, FarmAssumption DEF Init, AllGiven, Files
<1> QED  BY <1>1, <1>2, <1>3 DEF Init, FilesInv, OnePlace, Written

LEMMA FilesWrite ==
  ASSUME TypeOK, FilesInv, Distribute \/ StopSlave
  PROVE  /\ FilesInv'
         /\ \A s \in Slaves : s # i =>
              content'[<<"tasks", s>>] = content[<<"tasks", s>>]
         /\ content'[<<"tasks", i>>] = content[<<"tasks", i>>] \cup Elements(Outgoing)
         /\ \A p \in Places : content[p] \cap Elements(Outgoing) = {}
         /\ \A s \in Slaves : /\ content'[<<"hashing", s>>] = content[<<"hashing", s>>]
                              /\ content'[<<"results", s>>] = content[<<"results", s>>]
                              /\ content'[<<"failed", s>>] = content[<<"failed", s>>]
<1>1. PICK t \in Slaves : t = i
  BY DEF Distribute, StopSlave, TypeOK, AppType
<1>2. /\ tasks \in [Slaves -> Seq(Messages)]
      /\ tasks' = [tasks EXCEPT ![t] = @ \o Outgoing]
      /\ UNCHANGED <<hashing, results, failed, output>>
  BY <1>1 DEF Distribute, StopSlave, WriteToSlave, TypeOK, SlaveType, Messages
<1>3. tasks[t] \in Seq(Messages) /\ Outgoing \in Seq(Messages)
      /\ tasks'[t] = tasks[t] \o Outgoing /\ \A s \in Slaves : s # t => tasks'[s] = tasks[s]
  BY <1>1, <1>2, OutgoingType DEF TypeOK, Messages
<1>4. /\ content'[<<"tasks", t>>] = content[<<"tasks", t>>] \cup Elements(Outgoing)
      /\ \A s \in Slaves : s # t => content'[<<"tasks", s>>] = content[<<"tasks", s>>]
  <2>1. Elements(tasks[t] \o Outgoing) = Elements(tasks[t]) \cup Elements(Outgoing)
    BY <1>3, ElementsJoined
  <2>2. \A s \in Slaves : /\ content[<<"tasks", s>>] = Elements(tasks[s])
                         /\ content'[<<"tasks", s>>] = Elements(tasks'[s])
    BY ContentIs, NextContentIs
  <2> QED  BY <1>3, <2>1, <2>2
<1>5. /\ \A s \in Slaves : /\ content'[<<"hashing", s>>] = content[<<"hashing", s>>]
                           /\ content'[<<"results", s>>] = content[<<"results", s>>]
                           /\ content'[<<"failed", s>>] = content[<<"failed", s>>]
      /\ content'[<<"output", 0>>] = content[<<"output", 0>>]
  BY <1>1, <1>2, ContentIs, NextContentIs
<1>6. \A p \in Places : p # <<"tasks", t>> => content'[p] = content[p]
  BY <1>4, <1>5, PlaceIs
<1>7. /\ \A p \in Places : content[p] \cap Elements(Outgoing) = {}
      /\ Distinct(Outgoing)
      /\ OnePlace(content') /\ AllGiven(content', distributedFiles')
  <2> DEFINE n == BatchFor(t)
  <2>1. CASE pc = "distribute" /\ distributedFiles < numOfFiles
    <3>1. distributedFiles' = distributedFiles + n
      BY <1>1, <2>1 DEF Distribute, StopSlave
    <3>2. n \in Nat /\ distributedFiles \in Nat /\ distributedFiles + n <= MaxFiles
      BY <1>1, BatchBound, FarmAssumption DEF TypeOK, AppType
    <3>3. Elements(Outgoing) = distributedFiles + 1 .. distributedFiles + n
          /\ Distinct(Outgoing)
      BY <1>1, <2>1, OutgoingFiles DEF TypeOK
    <3>4. <<"tasks", t>> \in Places
      BY ArePlaces
    <3>5. OnePlace(content) /\ AllGiven(content, distributedFiles)
      BY DEF FilesInv
    <3> HIDE DEF n
    <3>6. Given(content, content', <<"tasks", t>>, distributedFiles, n)
      BY <1>4, <1>6, <3>3 DEF Given
    <3> QED  BY <3>1, <3>2, <3>3, <3>4, <3>5, <3>6, FilesGiven
  <2>2. CASE ~(pc = "distribute" /\ distributedFiles < numOfFiles)
    <3>1. distributedFiles' = distributedFiles
      BY <2>2 DEF Distribute, StopSlave
    <3>2. Elements(Outgoing) = {} /\ Distinct(Outgoing)
      BY <1>1, <2>2, OutgoingFiles DEF TypeOK
    <3>3. \A p \in Places : content'[p] = content[p]
      BY <1>4, <1>6, <3>2
    <3> QED  BY <3>1, <3>2, <3>3 DEF FilesInv, OnePlace, AllGiven
  <2> QED  BY <2>1, <2>2
<1>8. \A s \in Slaves : Distinct(tasks'[s]) /\ Distinct(results'[s])
  <2>1. Distinct(tasks'[t])
    <3>1. Elements(tasks[t]) \cap Elements(Outgoing) = {}
      BY <1>7, ContentIs, ArePlaces
    <3> QED  BY <1>3, <1>7, <3>1, ElementsJoined DEF FilesInv
  <2> QED  BY <1>2, <1>3, <2>1 DEF FilesInv
<1>9. FilesInv'
  BY <1>2, <1>7, <1>8 DEF FilesInv, OnePlace, AllGiven, Distinct
<1> QED  BY <1>1, <1>4, <1>5, <1>7, <1>9

\* slaveListener reads a line.
LEMMA FilesListen ==
  ASSUME TypeOK, FilesInv, Listen
  PROVE  /\ FilesInv' /\ Written'
         /\ \A s \in Slaves : /\ content'[<<"tasks", s>>] = content[<<"tasks", s>>]
                              /\ content'[<<"hashing", s>>] = content[<<"hashing", s>>]
                              /\ content'[<<"failed", s>>] = content[<<"failed", s>>]
         /\ \A s \in Slaves :
              content'[<<"results", s>>] \cup (IF Publishing(s)' THEN {message'} ELSE {})
                = content[<<"results", s>>]
<1>1. PICK t \in Slaves : t = i
  BY DEF Listen, TypeOK, AppType
<1>2. /\ results \in [Slaves -> Seq(Messages)] /\ output \in Seq(Messages)
      /\ results \in [Slaves -> Seq(Files)]
  BY DEF TypeOK, AppType, SlaveType, Messages
<1>3. UNCHANGED <<tasks, hashing, failed, distributedFiles>> /\ pc = "listen"
  BY DEF Listen
<1>4. \A s \in Slaves : /\ content'[<<"tasks", s>>] = content[<<"tasks", s>>]
                        /\ content'[<<"hashing", s>>] = content[<<"hashing", s>>]
                        /\ content'[<<"failed", s>>] = content[<<"failed", s>>]
  BY <1>3, ContentIs, NextContentIs
<1>5. CASE t \in ready /\ results[t] # <<>>
  <2> DEFINE x == Head(results[t])
  <2>1. /\ message' = x /\ results' = [results EXCEPT ![t] = Tail(@)]
        /\ output' = Append(output, x) /\ pc' = "lock" /\ i' = t
    BY <1>1, <1>5 DEF Listen, readLine
  <2>2. x \in Files /\ results[t] \in Seq(Messages) /\ Distinct(results[t]) /\ Distinct(output)
    BY <1>2, <1>5, PipeRead DEF FilesInv
  <2>3. /\ results'[t] = Tail(results[t]) /\ \A s \in Slaves : s # t => results'[s] = results[s]
    BY <1>2, <2>1
  <2>4. /\ Elements(results'[t]) = Elements(results[t]) \ {x} /\ x \in Elements(results[t])
        /\ Distinct(results'[t])
    BY <1>5, <2>2, <2>3, ElementsRead
  <2>5. x \notin Elements(output)
    <3>1. /\ content[<<"output", 0>>] = Elements(output)
          /\ content[<<"results", t>>] = Elements(results[t])
      BY ContentIs
    <3>2. <<"output", 0>> \in Places /\ <<"results", t>> \in Places
          /\ <<"output", 0>> # <<"results", t>>
      BY ArePlaces
    <3>3. OnePlace(content)
      BY DEF FilesInv
    <3> HIDE DEF x
    <3> QED  BY <2>2, <2>4, <3>1, <3>2, <3>3 DEF OnePlace
  <2>6. Elements(output') = Elements(output) \cup {x} /\ Distinct(output')
    <3>1. x \in Messages
      BY <2>2 DEF Messages
    <3> QED  BY <1>2, <2>1, <2>2, <2>5, <3>1, ElementsAppended
  <2> HIDE DEF x
  <2>7. /\ content'[<<"results", t>>] = content[<<"results", t>>] \ {x}
        /\ content'[<<"output", 0>>] = content[<<"output", 0>>] \cup {x}
        /\ x \in content[<<"results", t>>]
        /\ \A s \in Slaves : s # t => content'[<<"results", s>>] = content[<<"results", s>>]
    <3>1. \A s \in Slaves : /\ content[<<"results", s>>] = Elements(results[s])
                           /\ content'[<<"results", s>>] = Elements(results'[s])
      BY ContentIs, NextContentIs
    <3>2. /\ content[<<"output", 0>>] = Elements(output)
          /\ content'[<<"output", 0>>] = Elements(output')
      BY ContentIs, NextContentIs
    <3>3. /\ content'[<<"results", t>>] = content[<<"results", t>>] \ {x}
          /\ x \in content[<<"results", t>>]
      BY <2>4, <3>1
    <3>4. content'[<<"output", 0>>] = content[<<"output", 0>>] \cup {x}
      BY <2>6, <3>2
    <3>5. \A s \in Slaves : s # t => content'[<<"results", s>>] = content[<<"results", s>>]
      BY <2>3, <3>1
    <3> QED  BY <3>3, <3>4, <3>5
  <2>8. \A p \in Places : p # <<"results", t>> /\ p # <<"output", 0>> => content'[p] = content[p]
    BY <1>4, <2>7, PlaceIs
  <2>9. OnePlace(content') /\ AllGiven(content', distributedFiles)
    <3>1. PICK a \in Places : a = <<"results", t>>
      BY ArePlaces
    <3>2. PICK b \in Places : b = <<"output", 0>>
      BY ArePlaces
    <3>3. /\ a # b /\ x \in content[a]
          /\ content'[a] = content[a] \ {x} /\ content'[b] = content[b] \cup {x}
          /\ \A p \in Places : p # a /\ p # b => content'[p] = content[p]
      BY <2>7, <2>8, <3>1, <3>2
    <3>4. OnePlace(content) /\ AllGiven(content, distributedFiles)
      BY DEF FilesInv
    <3>5. Moved(content, content', x, a, b)
      BY <3>3 DEF Moved
    <3> QED  BY <3>4, <3>5, OneMoved
  <2>10. \A s \in Slaves : Distinct(tasks'[s]) /\ Distinct(results'[s])
    BY <1>3, <2>3, <2>4 DEF FilesInv
  <2>11. FilesInv'
    BY <1>3, <2>6, <2>9, <2>10 DEF FilesInv, OnePlace, AllGiven, Distinct
  <2>12. Written'
    BY <2>1, <2>6 DEF Written, Elements
  <2>13. \A s \in Slaves : Publishing(s)' <=> s = t
    BY <2>1 DEF Publishing
  <2> QED  BY <1>4, <2>1, <2>7, <2>11, <2>12, <2>13
<1>6. CASE ~(t \in ready /\ results[t] # <<>>)
  <2>1. UNCHANGED <<results, output>> /\ pc' \notin {"lock", "publish", "unlock", "count"}
    BY <1>1, <1>6 DEF Listen, readLine, NextSlave, LoopHead
  <2>2. content' = content
    BY <1>3, <2>1, SameContent DEF fileVars
  <2> QED  BY <1>3, <2>1, <2>2 DEF FilesInv, Written, Publishing, OnePlace, AllGiven, Distinct
<1> QED  BY <1>5, <1>6

LEMMA FilesSlave ==
  ASSUME TypeOK, FilesInv, NEW s \in Slaves, Slave(s)
  PROVE  /\ FilesInv' /\ content'[<<"output", 0>>] = content[<<"output", 0>>]
         /\ \A r \in Slaves :
              InHands(content', r) = InHands(content, r)
<1>0. /\ tasks \in [Slaves -> Seq(Messages)] /\ results \in [Slaves -> Seq(Messages)]
      /\ hashing \in [Slaves -> Messages] /\ failed \in [Slaves -> SUBSET Files]
      /\ Nul \notin Files /\ Stop \notin Files /\ Nul = Stop
  <2>1. Nul \notin Files /\ Stop \notin Files /\ Nul = Stop
    BY FarmAssumption DEF Nul, Stop, Files
  <2>2. tasks \in [Slaves -> Seq(Messages)] /\ hashing \in [Slaves -> Messages]
        /\ failed \in [Slaves -> SUBSET Files] /\ results \in [Slaves -> Seq(Files)]
    BY <2>1 DEF TypeOK, SlaveType, Messages
  <2>3. \A q \in Seq(Files) : q \in Seq(Messages)
    BY DEF Messages
  <2>4. results \in [Slaves -> Seq(Messages)]
    BY <2>2, <2>3
  <2> QED  BY <2>1, <2>2, <2>4
<1>1. UNCHANGED <<distributedFiles, output>>
  BY DEF Slave, Exec, ReadTask, Hash, appVars
\* x moves from place a to place b of slave s.
<1>2. ASSUME NEW a \in {"tasks", "hashing"}, NEW b \in {"hashing", "results", "failed"},
             NEW x, a # b, x \in content[<<a, s>>],
             content'[<<a, s>>] = content[<<a, s>>] \ {x},
             content'[<<b, s>>] = content[<<b, s>>] \cup {x},
             \A p \in Places : p # <<a, s>> /\ p # <<b, s>> => content'[p] = content[p]
      PROVE  /\ OnePlace(content') /\ AllGiven(content', distributedFiles)
             /\ content'[<<"output", 0>>] = content[<<"output", 0>>]
             /\ \A r \in Slaves : InHands(content', r) = InHands(content, r)
  <2>1. PICK p \in Places : p = <<a, s>>
    BY ArePlaces
  <2>2. PICK q \in Places : q = <<b, s>>
    BY ArePlaces
  <2>3. /\ p # q /\ x \in content[p]
        /\ content'[p] = content[p] \ {x} /\ content'[q] = content[q] \cup {x}
        /\ \A o \in Places : o # p /\ o # q => content'[o] = content[o]
    BY <1>2, <2>1, <2>2
  <2>4. OnePlace(content) /\ AllGiven(content, distributedFiles)
    BY DEF FilesInv
  <2>5. OnePlace(content') /\ AllGiven(content', distributedFiles)
    <3>1. Moved(content, content', x, p, q)
      BY <2>3 DEF Moved
    <3> QED  BY <2>4, <3>1, OneMoved
  <2>6. content'[<<"output", 0>>] = content[<<"output", 0>>]
    BY <2>1, <2>2, <2>3, ArePlaces
  <2>7. ASSUME NEW r \in Slaves PROVE InHands(content', r) = InHands(content, r)
    <3>1. \A c \in {"tasks", "hashing", "results", "failed"} :
            <<c, r>> \in Places /\ (r # s => content'[<<c, r>>] = content[<<c, r>>])
      BY <2>1, <2>2, <2>3, ArePlaces
    <3>2. CASE r # s
      BY <3>1, <3>2 DEF InHands
    <3>3. CASE r = s
      <4>1. \A c \in {"tasks", "hashing", "results", "failed"} :
              \/ c = a /\ content'[<<c, s>>] = content[<<c, s>>] \ {x}
              \/ c = b /\ content'[<<c, s>>] = content[<<c, s>>] \cup {x}
              \/ content'[<<c, s>>] = content[<<c, s>>]
        BY <1>2, <3>1, <3>3
      <4>2. InHands(content', s) \subseteq InHands(content, s)
        BY <1>2, <4>1 DEF InHands
      <4>3. ASSUME NEW k \in InHands(content, s) PROVE k \in InHands(content', s)
        <5>1. CASE k = x
          BY <1>2, <5>1 DEF InHands
        <5>2. CASE k # x
          BY <4>1, <5>2 DEF InHands
        <5> QED  BY <5>1, <5>2
      <4> QED  BY <3>3, <4>2, <4>3
    <3> QED  BY <3>2, <3>3
  <2> QED  BY <2>5, <2>6, <2>7
<1>3. CASE UNCHANGED fileVars
  <2>1. content' = content
    BY <1>3, SameContent
  <2> QED  BY <1>1, <1>3, <2>1 DEF FilesInv, fileVars, OnePlace, AllGiven, Distinct
<1>4. CASE ReadTask(s)
  <2> DEFINE x == Head(tasks[s])
  <2>1. /\ tasks[s] # <<>> /\ tasks[s] \in Seq(Messages) /\ hashing[s] = Nul
        /\ tasks' = [tasks EXCEPT ![s] = Tail(@)] /\ UNCHANGED <<results, failed>>
        /\ x = Stop => hashing' = hashing
        /\ x # Stop => hashing' = [hashing EXCEPT ![s] = x]
    BY <1>0, <1>4 DEF ReadTask
  <2>2. x \in Messages /\ Distinct(tasks[s])
    BY <1>0, <2>1, PipeRead DEF FilesInv
  <2>3. /\ Elements(Tail(tasks[s])) = Elements(tasks[s]) \ {x}
        /\ x \in Files => x \in Elements(tasks[s])
        /\ Distinct(Tail(tasks[s]))
    BY <2>1, <2>2, ElementsRead
  <2> HIDE DEF x
  <2>4. tasks'[s] = Tail(tasks[s]) /\ \A r \in Slaves : r # s => tasks'[r] = tasks[r]
    BY <1>0, <2>1
  <2>5. \A r \in Slaves : Distinct(tasks'[r]) /\ Distinct(results'[r])
    BY <2>1, <2>3, <2>4 DEF FilesInv
  <2>6. \A r \in Slaves : /\ content[<<"tasks", r>>] = Elements(tasks[r])
                          /\ content'[<<"tasks", r>>] = Elements(tasks'[r])
                          /\ content[<<"hashing", r>>] = {hashing[r]} \cap Files
                          /\ content'[<<"hashing", r>>] = {hashing'[r]} \cap Files
                          /\ content'[<<"results", r>>] = content[<<"results", r>>]
                          /\ content'[<<"failed", r>>] = content[<<"failed", r>>]
                          /\ content'[<<"output", 0>>] = content[<<"output", 0>>]
    BY <1>1, <2>1, ContentIs, NextContentIs
  <2>7. CASE x = Stop
    <3>1. Elements(tasks[s]) \ {x} = Elements(tasks[s])
      BY <1>0, <2>7 DEF Elements
    <3>2. \A p \in Places : content'[p] = content[p]
      <4>1. ASSUME NEW r \in Slaves
            PROVE  content'[<<"tasks", r>>] = content[<<"tasks", r>>]
        <5>1. Elements(tasks'[r]) = Elements(tasks[r])
          BY <2>3, <2>4, <3>1
        <5>2. /\ content[<<"tasks", r>>] = Elements(tasks[r])
              /\ content'[<<"tasks", r>>] = Elements(tasks'[r])
          BY ContentIs, NextContentIs
        <5> QED  BY <5>1, <5>2
      <4>2. \A r \in Slaves : content'[<<"hashing", r>>] = content[<<"hashing", r>>]
        BY <2>1, <2>6, <2>7
      <4>3. SameAll(content, content')
        BY <2>6, <4>1, <4>2 DEF SameAll
      <4> QED  BY <4>3, AllPlaces
    <3>3. OnePlace(content') /\ AllGiven(content', distributedFiles)
      BY <3>2 DEF FilesInv, OnePlace, AllGiven
    <3>4. FilesInv'
      BY <1>1, <2>5, <3>3 DEF FilesInv, OnePlace, AllGiven, Distinct
    <3>5. \A r \in Slaves : InHands(content', r) = InHands(content, r)
      BY <3>2, ArePlaces DEF InHands
    <3> QED  BY <2>6, <3>4, <3>5 DEF InHands
  <2>8. CASE x # Stop
    <3>1. x \in Files
      BY <2>2, <2>8 DEF Messages
    <3>2. hashing'[s] = x /\ \A r \in Slaves : r # s => hashing'[r] = hashing[r]
      BY <1>0, <2>1, <2>8
    <3>3. /\ x \in content[<<"tasks", s>>]
          /\ content'[<<"tasks", s>>] = content[<<"tasks", s>>] \ {x}
      BY <2>3, <2>4, <2>6, <3>1
    <3>4. content'[<<"hashing", s>>] = content[<<"hashing", s>>] \cup {x}
      <4>1. content[<<"hashing", s>>] = {Nul} \cap Files
        BY <2>1, <2>6
      <4>2. content'[<<"hashing", s>>] = {x}
        BY <2>6, <3>1, <3>2
      <4>3. Nul \notin Files
        BY <1>0
      <4> QED  BY <4>1, <4>2, <4>3
    <3>5. \A p \in Places : p # <<"tasks", s>> /\ p # <<"hashing", s>> => content'[p] = content[p]
      <4>1. \A r \in Slaves : r # s => /\ content'[<<"tasks", r>>] = content[<<"tasks", r>>]
                                       /\ content'[<<"hashing", r>>] = content[<<"hashing", r>>]
        BY <2>4, <2>6, <3>2
      <4>2. \A r \in Slaves : \A c \in {"tasks", "hashing", "results", "failed"} :
              r # s \/ (c # "tasks" /\ c # "hashing") => content'[<<c, r>>] = content[<<c, r>>]
        BY <2>6, <4>1
      <4>3. SameBut(content, content', s, "tasks", "hashing")
        BY <2>6, <4>2 DEF SameBut
      <4> QED  BY <4>3, SamePlaces
    <3>6. /\ OnePlace(content') /\ AllGiven(content', distributedFiles)
          /\ \A r \in Slaves : InHands(content', r) = InHands(content, r)
      BY <1>2, <3>3, <3>4, <3>5
    <3>7. FilesInv'
      BY <1>1, <2>5, <3>6 DEF FilesInv, OnePlace, AllGiven, Distinct
    <3> QED  BY <2>6, <3>6, <3>7 
  <2> QED  BY <2>7, <2>8
<1>5. CASE Hash(s)
  <2> DEFINE x == hashing[s]
  <2>1. /\ x \in Files /\ hashing' = [hashing EXCEPT ![s] = Nul] /\ UNCHANGED tasks
        /\ \/ results' = [results EXCEPT ![s] = Append(@, x)] /\ failed' = failed
           \/ failed' = [failed EXCEPT ![s] = @ \cup {x}] /\ results' = results
    BY <1>0, <1>5 DEF Hash, Messages
  <2> HIDE DEF x
  <2>2. hashing'[s] = Nul /\ \A r \in Slaves : r # s => hashing'[r] = hashing[r]
    BY <1>0, <2>1
  <2>3. \A r \in Slaves : /\ content[<<"results", r>>] = Elements(results[r])
                          /\ content'[<<"results", r>>] = Elements(results'[r])
                          /\ content[<<"hashing", r>>] = {hashing[r]} \cap Files
                          /\ content'[<<"hashing", r>>] = {hashing'[r]} \cap Files
                          /\ content[<<"failed", r>>] = failed[r]
                          /\ content'[<<"failed", r>>] = failed'[r]
                          /\ content'[<<"tasks", r>>] = content[<<"tasks", r>>]
                          /\ content'[<<"output", 0>>] = content[<<"output", 0>>]
    BY <1>1, <2>1, ContentIs, NextContentIs
  <2>4. /\ x \in content[<<"hashing", s>>]
        /\ content'[<<"hashing", s>>] = content[<<"hashing", s>>] \ {x}
    <3>1. content[<<"hashing", s>>] = {x} \cap Files
      BY <2>3 DEF x
    <3>2. content'[<<"hashing", s>>] = {}
      <4>1. content'[<<"hashing", s>>] = {Nul} \cap Files
        BY <2>2, <2>3
      <4>2. Nul \notin Files
        BY <1>0
      <4> QED  BY <4>1, <4>2
    <3> QED  BY <2>1, <3>1, <3>2
  <2>5. CASE results' = [results EXCEPT ![s] = Append(@, x)] /\ failed' = failed
    <3>1. results'[s] = Append(results[s], x) /\ \A r \in Slaves : r # s => results'[r] = results[r]
      BY <1>0, <2>5
    <3>2. results[s] \in Seq(Messages) /\ x \in Messages /\ Distinct(results[s])
      BY <1>0, <2>1 DEF Messages, FilesInv
    <3>3. x \notin Elements(results[s])
      <4>1. <<"hashing", s>> \in Places /\ <<"results", s>> \in Places
            /\ <<"hashing", s>> # <<"results", s>> /\ OnePlace(content)
        BY ArePlaces DEF FilesInv
      <4>2. content[<<"results", s>>] = Elements(results[s])
        BY <2>3
      <4> QED  BY <2>1, <2>4, <4>1, <4>2 DEF OnePlace
    <3>4. Elements(results'[s]) = Elements(results[s]) \cup {x} /\ Distinct(results'[s])
      BY <2>1, <3>1, <3>2, <3>3, ElementsAppended
    <3>5. content'[<<"results", s>>] = content[<<"results", s>>] \cup {x}
      BY <2>3, <3>4
    <3>6. \A p \in Places : p # <<"hashing", s>> /\ p # <<"results", s>> => content'[p] = content[p]
      <4>1. \A r \in Slaves : r # s => content'[<<"hashing", r>>] = content[<<"hashing", r>>]
        BY <2>2, <2>3
      <4>2. ASSUME NEW r \in Slaves, r # s
            PROVE  content'[<<"results", r>>] = content[<<"results", r>>]
        <5>1. results'[r] = results[r]
          BY <3>1, <4>2
        <5>2. /\ content[<<"results", r>>] = Elements(results[r])
              /\ content'[<<"results", r>>] = Elements(results'[r])
          BY ContentIs, NextContentIs
        <5> QED  BY <5>1, <5>2
      <4>3. \A r \in Slaves : content'[<<"failed", r>>] = content[<<"failed", r>>]
        BY <2>3, <2>5
      <4>4. \A r \in Slaves : \A c \in {"tasks", "hashing", "results", "failed"} :
              r # s \/ (c # "hashing" /\ c # "results") => content'[<<c, r>>] = content[<<c, r>>]
        BY <2>3, <4>1, <4>2, <4>3
      <4>5. SameBut(content, content', s, "hashing", "results")
        BY <2>3, <4>4 DEF SameBut
      <4> QED  BY <4>5, SamePlaces
    <3>7. /\ OnePlace(content') /\ AllGiven(content', distributedFiles)
          /\ \A r \in Slaves : InHands(content', r) = InHands(content, r)
      BY <1>2, <2>4, <3>5, <3>6
    <3>8. FilesInv'
      <4>1. \A r \in Slaves : Distinct(tasks'[r]) /\ Distinct(results'[r])
        BY <2>1, <3>1, <3>4 DEF FilesInv
      <4> QED  BY <1>1, <3>7, <4>1 DEF FilesInv, OnePlace, AllGiven, Distinct
    <3> QED  BY <2>3, <3>7, <3>8 DEF InHands
  <2>6. CASE failed' = [failed EXCEPT ![s] = @ \cup {x}] /\ results' = results
    <3>1. failed'[s] = failed[s] \cup {x} /\ \A r \in Slaves : r # s => failed'[r] = failed[r]
      BY <1>0, <2>6
    <3>2. content'[<<"failed", s>>] = content[<<"failed", s>>] \cup {x}
      BY <2>3, <3>1
    <3>3. \A p \in Places : p # <<"hashing", s>> /\ p # <<"failed", s>> => content'[p] = content[p]
      <4>1. \A r \in Slaves : r # s => content'[<<"hashing", r>>] = content[<<"hashing", r>>]
        BY <2>2, <2>3
      <4>2. \A r \in Slaves : r # s => content'[<<"failed", r>>] = content[<<"failed", r>>]
        BY <2>3, <3>1
      <4>3. \A r \in Slaves : content'[<<"results", r>>] = content[<<"results", r>>]
        BY <2>3, <2>6
      <4>4. \A r \in Slaves : \A c \in {"tasks", "hashing", "results", "failed"} :
              r # s \/ (c # "hashing" /\ c # "failed") => content'[<<c, r>>] = content[<<c, r>>]
        BY <2>3, <4>1, <4>2, <4>3
      <4>5. SameBut(content, content', s, "hashing", "failed")
        BY <2>3, <4>4 DEF SameBut
      <4> QED  BY <4>5, SamePlaces
    <3>4. /\ OnePlace(content') /\ AllGiven(content', distributedFiles)
          /\ \A r \in Slaves : InHands(content', r) = InHands(content, r)
      BY <1>2, <2>4, <3>2, <3>3
    <3>5. FilesInv'
      BY <1>1, <2>1, <2>6, <3>4 DEF FilesInv, OnePlace, AllGiven, Distinct
    <3> QED  BY <2>3, <3>4, <3>5 DEF InHands
  <2> QED  BY <2>1, <2>5, <2>6
<1> QED  BY <1>3, <1>4, <1>5 DEF Slave, Exec, fileVars, appVars, InHands

FilesGo == TypeOK /\ FilesInv /\ Written /\ RemainingIsInFlight

\* The steps that move no file.
Still == ParseFileList \/ CreateSlave \/ BrokenPipe \/ Select \/ AppLock \/ Publish \/ SetFlag
         \/ AppUnlock \/ DestroyMemory \/ DestroySemaphore \/ TypeY
         \/ (\E v \in Views : AttachMemory(v) \/ ViewRun(v)) \/ UNCHANGED vars

LEMMA StillIs ==
  ASSUME TypeOK, Still
  PROVE  /\ UNCHANGED <<fileVars, distributedFiles, message, remainingFiles>>
         /\ \A s \in Slaves : Publishing(s)' <=> Publishing(s)
         /\ pc' \in {"lock", "publish", "unlock", "count"} =>
              pc \in {"lock", "publish", "unlock", "count"}
<1>1. UNCHANGED <<fileVars, distributedFiles, message, remainingFiles>>
  BY DEF Still, ParseFileList, CreateSlave, BrokenPipe, Select, AppLock, Publish, SetFlag,
         AppUnlock, DestroyMemory, DestroySemaphore, TypeY, AttachMemory, ViewRun,
         AttachSemaphore, ViewWait, ViewLock, ViewRead, ViewUnlock, ViewDestroy,
         vars, appVars, slaveVars, fileVars
<1>2. /\ \A s \in Slaves : Publishing(s)' <=> Publishing(s)
      /\ pc' \in {"lock", "publish", "unlock", "count"} =>
           pc \in {"lock", "publish", "unlock", "count"}
  BY DEF Still, ParseFileList, CreateSlave, BrokenPipe, Select, AppLock, Publish, SetFlag,
         AppUnlock, DestroyMemory, DestroySemaphore, TypeY, AttachMemory, ViewRun,
         AttachSemaphore, ViewWait, ViewLock, ViewRead, ViewUnlock, ViewDestroy,
         vars, appVars, Publishing
<1> QED  BY <1>1, <1>2

LEMMA InFlightIs ==
  ASSUME NEW s \in Slaves
  PROVE  /\ InFlight(s) = InHands(content, s) \cup (IF Publishing(s) THEN {message} ELSE {})
         /\ InFlight(s)' = InHands(content', s)
                             \cup (IF Publishing(s)' THEN {message'} ELSE {})
BY DEF InFlight, InHands, Publishing

LEMMA HandsFinite ==
  ASSUME TypeOK, NEW s \in Slaves
  PROVE  IsFiniteSet(InHands(content, s)) /\ Cardinality(InHands(content, s)) \in Nat
<1>1. \A c \in {"tasks", "hashing", "results", "failed"} : content[<<c, s>>] \subseteq Files
  BY ContentIs DEF Elements, TypeOK, SlaveType
<1>2. InHands(content, s) \subseteq Files
  BY <1>1 DEF InHands
<1>3. IsFiniteSet(Files)
  BY FS_Interval, FarmAssumption DEF Files
<1>4. IsFiniteSet(InHands(content, s))
  BY <1>2, <1>3, FS_Subset
<1> QED  BY <1>4, FS_CardinalityType

LEMMA FilesStay ==
  ASSUME FilesGo, Still PROVE FilesInv' /\ Written' /\ RemainingIsInFlight'
<1>1. /\ UNCHANGED <<fileVars, distributedFiles, message, remainingFiles>>
      /\ \A s \in Slaves : Publishing(s)' <=> Publishing(s)
      /\ pc' \in {"lock", "publish", "unlock", "count"} =>
           pc \in {"lock", "publish", "unlock", "count"}
  BY StillIs DEF FilesGo
<1>2. content' = content
  BY <1>1, SameContent
<1>3. FilesInv'
  BY <1>1, <1>2 DEF FilesGo, FilesInv, fileVars, OnePlace, AllGiven, Distinct
<1>4. Written'
  BY <1>1 DEF FilesGo, Written, fileVars, Elements
<1>5. \A s \in Slaves : InFlight(s)' = InFlight(s)
  BY <1>1, <1>2, InFlightIs
<1> QED  BY <1>1, <1>3, <1>4, <1>5 DEF FilesGo, RemainingIsInFlight

LEMMA FilesHandOut ==
  ASSUME FilesGo, Distribute \/ StopSlave PROVE RemainingIsInFlight' /\ Written'
<1>1. PICK t \in Slaves : t = i
  BY DEF FilesGo, TypeOK, AppType, Distribute, StopSlave
<1>2. /\ TypeOK /\ remainingFiles \in [Slaves -> Int]
      /\ pc \notin {"lock", "publish", "unlock", "count"}
      /\ pc' \notin {"lock", "publish", "unlock", "count"}
  BY DEF FilesGo, TypeOK, AppType, Distribute, StopSlave, WriteToSlave
<1>3. \A s \in Slaves : InFlight(s) = InHands(content, s)
                        /\ InFlight(s)' = InHands(content', s)
  BY <1>2, InFlightIs DEF Publishing
<1>4. /\ \A s \in Slaves : s # t => content'[<<"tasks", s>>] = content[<<"tasks", s>>]
      /\ content'[<<"tasks", t>>] = content[<<"tasks", t>>] \cup Elements(Outgoing)
      /\ \A p \in Places : content[p] \cap Elements(Outgoing) = {}
      /\ \A s \in Slaves : /\ content'[<<"hashing", s>>] = content[<<"hashing", s>>]
                           /\ content'[<<"results", s>>] = content[<<"results", s>>]
                           /\ content'[<<"failed", s>>] = content[<<"failed", s>>]
  BY <1>1, FilesWrite DEF FilesGo
<1>5. \A s \in Slaves : s # t => InHands(content', s) = InHands(content, s)
  BY <1>4 DEF InHands
<1>6. /\ InHands(content', t) = InHands(content, t) \cup Elements(Outgoing)
      /\ InHands(content, t) \cap Elements(Outgoing) = {}
  <2>1. InHands(content', t) = InHands(content, t) \cup Elements(Outgoing)
    BY <1>4 DEF InHands
  <2>2. \A c \in {"tasks", "hashing", "results", "failed"} :
          content[<<c, t>>] \cap Elements(Outgoing) = {}
    BY <1>4, ArePlaces
  <2> QED  BY <2>1, <2>2 DEF InHands
<1>7. /\ IsFiniteSet(Elements(Outgoing))
      /\ remainingFiles' = [remainingFiles EXCEPT ![t] = @ + Cardinality(Elements(Outgoing))]
  <2>1. CASE pc = "distribute" /\ distributedFiles < numOfFiles
    <3>1. Elements(Outgoing) = distributedFiles + 1 .. distributedFiles + BatchFor(t)
      BY <1>1, <2>1, OutgoingFiles DEF FilesGo, TypeOK
    <3>2. BatchFor(t) \in Nat /\ distributedFiles \in Nat
      BY <1>1, BatchBound, FarmAssumption DEF FilesGo, TypeOK, AppType
    <3>3. /\ IsFiniteSet(Elements(Outgoing))
          /\ Cardinality(Elements(Outgoing)) = BatchFor(t)
      <4> DEFINE n == BatchFor(t)
      <4> HIDE DEF n
      <4>1. n \in Nat
        BY <3>2 DEF n
      <4>2. PICK a \in Int, b \in Int : a = distributedFiles + 1 /\ b = distributedFiles + n
        BY <3>2, <4>1
      <4>3. IsFiniteSet(a .. b) /\ Cardinality(a .. b) = IF a > b THEN 0 ELSE b - a + 1
        BY FS_Interval
      <4>4. IF a > b THEN n = 0 ELSE b - a + 1 = n
        BY <3>2, <4>1, <4>2
      <4>5. Elements(Outgoing) = a .. b
        BY <3>1, <4>2 DEF n
      <4>6. Cardinality(a .. b) = n
        BY <4>3, <4>4
      <4> QED  BY <4>3, <4>5, <4>6 DEF n
    <3>4. remainingFiles' = [remainingFiles EXCEPT ![t] = @ + BatchFor(t)]
      BY <1>1, <2>1 DEF Distribute, StopSlave
    <3> QED  BY <3>3, <3>4
  <2>2. CASE ~(pc = "distribute" /\ distributedFiles < numOfFiles)
    <3>1. Elements(Outgoing) = {}
      BY <1>1, <2>2, OutgoingFiles DEF FilesGo, TypeOK
    <3>2. remainingFiles' = remainingFiles
      BY <2>2 DEF Distribute, StopSlave
    <3>3. IsFiniteSet({}) /\ Cardinality({}) = 0
      BY FS_EmptySet
    <3>4. remainingFiles[t] + 0 = remainingFiles[t]
      BY <1>2
    <3> QED  BY <1>2, <3>1, <3>2, <3>3, <3>4
  <2> QED  BY <2>1, <2>2
<1>8. ASSUME NEW s \in Slaves PROVE remainingFiles'[s] = Cardinality(InHands(content', s))
  <2>1. remainingFiles[s] = Cardinality(InHands(content, s))
    BY <1>3 DEF FilesGo, RemainingIsInFlight
  <2>2. CASE s # t
    BY <1>2, <1>5, <1>7, <2>1, <2>2
  <2>3. CASE s = t
    <3>1. IsFiniteSet(InHands(content, t))
      BY <1>2, HandsFinite
    <3>2. Cardinality(InHands(content', t))
            = Cardinality(InHands(content, t)) + Cardinality(Elements(Outgoing))
              - Cardinality(InHands(content, t) \cap Elements(Outgoing))
      BY <1>6, <1>7, <3>1, FS_Union
    <3>3. Cardinality(InHands(content, t) \cap Elements(Outgoing)) = 0
      BY <1>6, FS_EmptySet
    <3>4. Cardinality(InHands(content, t)) \in Nat /\ Cardinality(Elements(Outgoing)) \in Nat
      BY <1>7, <3>1, FS_CardinalityType
    <3>5. remainingFiles'[t] = remainingFiles[t] + Cardinality(Elements(Outgoing))
      BY <1>2, <1>7
    <3> QED  BY <2>1, <2>3, <3>2, <3>3, <3>4, <3>5
  <2> QED  BY <2>2, <2>3
<1>9. Written'
  BY <1>2 DEF Written
<1> QED  BY <1>3, <1>8, <1>9 DEF RemainingIsInFlight

LEMMA FilesCount ==
  ASSUME FilesGo, Count PROVE FilesInv' /\ Written' /\ RemainingIsInFlight'
<1>1. PICK t \in Slaves : t = i
  BY DEF FilesGo, TypeOK, AppType, Count
<1>2. /\ pc = "count" /\ pc' \notin {"lock", "publish", "unlock", "count"}
      /\ UNCHANGED <<fileVars, distributedFiles, message>>
      /\ remainingFiles \in [Slaves -> Int]
      /\ remainingFiles' = [remainingFiles EXCEPT ![t] = @ - 1]
  BY <1>1 DEF FilesGo, TypeOK, AppType, Count, NextSlave, LoopHead, fileVars, slaveVars
<1>3. content' = content
  BY <1>2, SameContent
<1>4. FilesInv'
  BY <1>2, <1>3 DEF FilesGo, FilesInv, fileVars, OnePlace, AllGiven, Distinct
<1>5. Written'
  BY <1>2 DEF Written
<1>6. ASSUME NEW s \in Slaves PROVE remainingFiles'[s] = Cardinality(InFlight(s)')
  <2>1. InFlight(s)' = InHands(content, s) /\ remainingFiles[s] = Cardinality(InFlight(s))
    BY <1>2, <1>3, InFlightIs DEF Publishing, FilesGo, RemainingIsInFlight
  <2>2. CASE s # t
    <3>1. InFlight(s) = InHands(content, s)
      BY <1>1, <2>2, InFlightIs DEF Publishing
    <3> QED  BY <1>2, <2>1, <2>2, <3>1
  <2>3. CASE s = t
    <3>1. InFlight(t) = InHands(content, t) \cup {message}
      BY <1>1, <1>2, InFlightIs DEF Publishing
    <3>2. message \in content[<<"output", 0>>] /\ message \in Files
      <4>1. message \in Elements(output)
        BY <1>2 DEF FilesGo, Written
      <4> QED  BY <1>1, <4>1, ContentIs DEF Elements
    <3>3. message \notin InHands(content, t)
      <4>1. OnePlace(content)
        BY DEF FilesGo, FilesInv
      <4>2. \A c \in {"tasks", "hashing", "results", "failed"} : message \notin content[<<c, t>>]
        <5>1. \A c \in {"tasks", "hashing", "results", "failed"} :
                <<c, t>> \in Places /\ <<c, t>> # <<"output", 0>>
          BY ArePlaces
        <5> QED  BY <3>2, <4>1, <5>1, ArePlaces DEF OnePlace
      <4> QED  BY <4>2 DEF InHands
    <3>4. IsFiniteSet(InHands(content, t)) /\ Cardinality(InHands(content, t)) \in Nat
      BY HandsFinite DEF FilesGo
    <3>5. Cardinality(InFlight(t)) = Cardinality(InHands(content, t)) + 1
      BY <3>1, <3>3, <3>4, FS_AddElement
    <3>6. remainingFiles'[t] = remainingFiles[t] - 1
      BY <1>2
    <3> QED  BY <2>1, <2>3, <3>4, <3>5, <3>6
  <2> QED  BY <2>2, <2>3
<1> QED  BY <1>4, <1>5, <1>6 DEF RemainingIsInFlight

LEMMA FilesNext == FilesGo /\ [Next]_vars => FilesInv' /\ Written' /\ RemainingIsInFlight'
<1> SUFFICES ASSUME FilesGo, [Next]_vars
             PROVE  FilesInv' /\ Written' /\ RemainingIsInFlight'
  OBVIOUS
<1>0. TypeOK /\ FilesInv
  BY DEF FilesGo
<1>1. CASE Distribute \/ StopSlave
  BY <1>0, <1>1, FilesHandOut, FilesWrite
<1>2. CASE Listen
  <2>1. /\ FilesInv' /\ Written'
        /\ \A s \in Slaves : /\ content'[<<"tasks", s>>] = content[<<"tasks", s>>]
                             /\ content'[<<"hashing", s>>] = content[<<"hashing", s>>]
                             /\ content'[<<"failed", s>>] = content[<<"failed", s>>]
        /\ \A s \in Slaves :
             content'[<<"results", s>>] \cup (IF Publishing(s)' THEN {message'} ELSE {})
               = content[<<"results", s>>]
    BY <1>0, <1>2, FilesListen
  <2>2. remainingFiles' = remainingFiles /\ pc = "listen"
    BY <1>2 DEF Listen
  <2>3. ASSUME NEW s \in Slaves PROVE InFlight(s)' = InFlight(s)
    <3>1. InFlight(s) = InHands(content, s)
      BY <2>2, InFlightIs DEF Publishing
    <3>2. InHands(content', s) \cup (IF Publishing(s)' THEN {message'} ELSE {})
            = InHands(content, s)
      <4> DEFINE M == IF Publishing(s)' THEN {message'} ELSE {}
      <4>1. content'[<<"results", s>>] \cup M = content[<<"results", s>>]
        BY <2>1
      <4> HIDE DEF M
      <4>2. InHands(content', s) \cup M = InHands(content, s)
        BY <2>1, <4>1 DEF InHands
      <4> QED  BY <4>2 DEF M
    <3> QED  BY <3>1, <3>2, InFlightIs
  <2> QED  BY <2>1, <2>2, <2>3 DEF FilesGo, RemainingIsInFlight
<1>3. CASE Count
  BY <1>3, FilesCount
<1>4. CASE Still
  BY <1>4, FilesStay
<1>5. ASSUME NEW s \in Slaves, Slave(s)
      PROVE  FilesInv' /\ Written' /\ RemainingIsInFlight'
  <2>1. /\ FilesInv' /\ \A r \in Slaves : InHands(content', r) = InHands(content, r)
    BY <1>0, <1>5, FilesSlave
  <2>2. UNCHANGED <<i, pc, message, output, remainingFiles>>
    BY <1>5 DEF Slave, Exec, ReadTask, Hash, appVars
  <2>3. Written'
    BY <2>2 DEF FilesGo, Written, Elements
  <2>4. \A r \in Slaves : InFlight(r)' = InFlight(r)
    BY <2>1, <2>2, InFlightIs DEF Publishing
  <2> QED  BY <2>1, <2>2, <2>3, <2>4 DEF FilesGo, RemainingIsInFlight
<1> QED  BY <1>1, <1>2, <1>3, <1>4, <1>5 DEF Next, App, Still

LEMMA FarmFiles == Spec => []FilesGo
<1>1. Init => FilesInv /\ Written /\ RemainingIsInFlight
  <2> SUFFICES ASSUME Init PROVE RemainingIsInFlight
    BY FilesInit
  <2>1. ASSUME NEW s \in Slaves PROVE InFlight(s) = {}
    <3>1. Elements(<<>>) = {} /\ {Nul} \cap Files = {}
      BY DEF Elements, Nul, Files
    <3>2. /\ tasks[s] = <<>> /\ results[s] = <<>> /\ hashing[s] = Nul /\ failed[s] = {}
          /\ pc = "prompt"
      BY DEF Init
    <3>3. /\ content[<<"tasks", s>>] = {} /\ content[<<"hashing", s>>] = {}
          /\ content[<<"results", s>>] = {} /\ content[<<"failed", s>>] = {}
      BY <3>1, <3>2, ContentIs
    <3>4. InHands(content, s) = {}
      BY <3>3 DEF InHands
    <3>5. InFlight(s) = InHands(content, s)
      BY <3>2, InFlightIs DEF Publishing
    <3> QED  BY <3>4, <3>5
  <2> QED  BY <2>1, FS_EmptySet DEF Init, RemainingIsInFlight
<1> QED
  BY <1>1, TypeInit, TypeNext, FilesNext, PTL DEF Spec, FilesGo

\* No file is lost and none is hashed or reported twice, for any number of
\* slaves, whichever of them fail: every file handed out is in one place, once.
THEOREM FilesOnce == Spec => []EachFileOnce
<1>1. FilesGo => EachFileOnce
  <2> SUFFICES ASSUME FilesGo PROVE EachFileOnce
    OBVIOUS
  <2>1. ASSUME NEW k \in Files
        PROVE  Cardinality({p \in Places : k \in content[p]})
                 = IF k <= distributedFiles THEN 1 ELSE 0
    <3>1. CASE k <= distributedFiles
      <4>1. PICK p \in Places : k \in content[p]
        BY <3>1 DEF FilesGo, FilesInv, AllGiven
      <4>2. {q \in Places : k \in content[q]} = {p}
        BY <4>1 DEF FilesGo, FilesInv, OnePlace
      <4> QED  BY <3>1, <4>2, FS_Singleton
    <3>2. CASE ~(k <= distributedFiles)
      <4>1. {q \in Places : k \in content[q]} = {}
        BY <3>2 DEF FilesGo, FilesInv, AllGiven
      <4> QED  BY <3>2, <4>1, FS_EmptySet
    <3> QED  BY <3>1, <3>2
  <2> QED  BY <2>1 DEF EachFileOnce, FilesGo, FilesInv
<1> QED  BY <1>1, FarmFiles, PTL

\* remainingFiles counts exactly the files of a slave that have not come back.
THEOREM RemainingCounts == Spec => []RemainingIsInFlight
BY FarmFiles, PTL DEF FilesGo

--------------------------------------------------------------------------------
(* What the views print *)

\* The cell line n starts at.
First(n) == 1 + (n - 1) * (MsgLen + 1)

LEMMA FirstIs ==
  /\ First(1) = 1
  /\ \A n \in Nat \ {0} : First(n) \in Nat \ {0} /\ First(n + 1) = First(n) + MsgLen + 1
<1> DEFINE L == MsgLen + 1
<1>0. L \in Nat \ {0} /\ \A n : First(n) = 1 + (n - 1) * L
  BY FarmAssumption DEF First
<1> HIDE DEF L
<1>1. First(1) = 1
  <2>1. (1 - 1) * L = 0
    BY <1>0
  <2> QED  BY <1>0, <2>1
<1>2. ASSUME NEW n \in Nat \ {0}
      PROVE  First(n) \in Nat \ {0} /\ First(n + 1) = First(n) + MsgLen + 1
  <2>1. (n - 1) * L \in Nat
    BY <1>0
  <2>2. ((n + 1) - 1) * L = (n - 1) * L + L
    BY <1>0
  <2>3. First(n) = 1 + (n - 1) * L /\ First(n + 1) = 1 + ((n + 1) - 1) * L
    BY <1>0
  <2>4. First(n + 1) = First(n) + L /\ First(n) \in Nat \ {0}
    BY <1>0, <2>1, <2>2, <2>3
  <2> QED  BY <2>4, FarmAssumption DEF L
<1> QED  BY <1>1, <1>2

LEMMA FirstGrows ==
  ASSUME NEW n \in Nat \ {0}, NEW m \in Nat \ {0}, n < m
  PROVE  First(n) + MsgLen + 1 <= First(m)
<1> DEFINE L == MsgLen + 1
<1>0. L \in Nat \ {0} /\ MsgLen \in Nat
  BY FarmAssumption
<1>1. m - n \in Nat \ {0} /\ m - 1 = (n - 1) + (m - n)
  OBVIOUS
<1> HIDE DEF L
<1>2. PICK d \in Nat, e \in Nat : d + 1 = m - n /\ e = n - 1
  BY <1>1
<1>3. (m - 1) * L = e * L + d * L + L
  <2>1. m - 1 = e + d + 1
    BY <1>1, <1>2
  <2>2. (e + d + 1) * L = e * L + d * L + L
    BY <1>0
  <2> QED  BY <2>1, <2>2
<1>4. d * L \in Nat /\ e * L \in Nat
  BY <1>0
<1>5. First(m) = 1 + (m - 1) * L /\ First(n) = 1 + e * L
  BY <1>2 DEF First, L
<1>6. 1 + e * L + L <= First(m)
  BY <1>0, <1>3, <1>4, <1>5
<1> QED  BY <1>0, <1>4, <1>5, <1>6 DEF L

\* The lines written to the segment, and those a view has waited for.
Lines == IF pc \in {"lock", "publish"} THEN Len(output) - 1 ELSE Len(output)
Taken(v) == Len(printed[v]) + (IF viewPc[v] \in {"lock", "read"} THEN 1 ELSE 0)

Counting ==
  /\ pc \in {"lock", "publish", "unlock", "count"} =>
       /\ output # <<>> /\ message = output[Len(output)]
       /\ finishedFiles = Len(output) - 1
  /\ pc \notin {"lock", "publish", "unlock", "count"} => finishedFiles = Len(output)

\* Each line lies in its cells, as far as the segment goes, and ends with a NUL;
\* the rest is empty.
Layout(w) ==
  /\ shmIndex = IF First(w + 1) < ShmSize THEN First(w + 1) ELSE ShmSize
  /\ \A c \in Cells : c >= First(w + 1) \/ c >= ShmSize => mem[c] = Nul
  /\ \A n \in 1 .. w : \A c \in Cells :
       /\ First(n) <= c /\ c < First(n) + MsgLen /\ c < ShmSize => mem[c] = output[n]
       /\ c = First(n) + MsgLen => mem[c] = Nul

\* A view that has not started has nothing; one that reads the farm's segment
\* stands behind the last line it printed.
Follows(v) ==
  /\ viewPc[v] = "off" => printed[v] = <<>> /\ viewIndex[v] = 1
  /\ semLive => Taken(v) + sem[2] <= finishedFiles
  /\ viewPc[v] # "off" /\ viewMem[v] = "farm" =>
       /\ Len(printed[v]) <= Lines
       /\ \A n \in 1 .. Len(printed[v]) : printed[v][n] = PublishedLine(n)
       /\ IF First(Len(printed[v]) + 1) <= ShmSize
          THEN viewIndex[v] = First(Len(printed[v]) + 1) ELSE viewIndex[v] > ShmSize

ViewsInv == Counting /\ Layout(Lines) /\ \A v \in Views : Follows(v)

LEMMA LinesIs ==
  ASSUME TypeOK, Counting
  PROVE  Lines \in Nat /\ finishedFiles <= Lines /\ Lines <= Len(output) /\ Len(output) \in Nat
<1>1. output \in Seq(Files) /\ finishedFiles \in Nat
  BY DEF TypeOK, AppType
<1>2. Len(output) \in Nat
  BY <1>1
<1>3. output # <<>> => Len(output) > 0
  BY <1>1
<1> QED  BY <1>1, <1>2, <1>3 DEF Lines, Counting

LEMMA TakenNat ==
  ASSUME TypeOK, NEW v \in Views PROVE Taken(v) \in Nat /\ Len(printed[v]) \in Nat
<1>1. PICK n \in Nat : n = Len(printed[v])
  BY DEF TypeOK, ViewType
<1>2. Taken(v) = n + 1 \/ Taken(v) = n + 0
  BY <1>1 DEF Taken
<1> QED  BY <1>1, <1>2

LEMMA ViewsInit == Init => ViewsInv
<1> SUFFICES ASSUME Init PROVE ViewsInv
  OBVIOUS
<1>1. Len(output) = 0 /\ Lines = 0 /\ pc = "prompt" /\ finishedFiles = 0
  BY DEF Init, Lines
<1>2. Counting
  BY <1>1 DEF Counting
<1>3. Layout(0)
  <2>1. First(0 + 1) = 1 /\ ShmSize \in Nat \ {0}
    BY FirstIs, FarmAssumption
  <2>2. shmIndex = IF First(0 + 1) < ShmSize THEN First(0 + 1) ELSE ShmSize
    BY <2>1 DEF Init
  <2> QED  BY <2>2 DEF Init, Layout
<1>4. ASSUME NEW v \in Views PROVE Follows(v)
  <2>1. Taken(v) + sem[2] <= finishedFiles
    BY <1>1 DEF Init, Taken
  <2> QED  BY <2>1 DEF Init, Follows
<1> QED  BY <1>1, <1>2, <1>3, <1>4 DEF ViewsInv

\* The steps that neither move a line nor a view.
Quiet ==
  /\ UNCHANGED <<output, message, finishedFiles, mem, shmIndex, viewVars>>
  /\ sem'[2] = sem[2] /\ (semLive' => semLive)
  /\ pc' \in {"lock", "publish"} <=> pc \in {"lock", "publish"}
  /\ pc' \in {"unlock", "count"} <=> pc \in {"unlock", "count"}

LEMMA QuietKeeps ==
  ASSUME ViewsInv, Quiet PROVE ViewsInv'
<1>1. Lines' = Lines
  BY DEF Quiet, Lines
<1>2. Counting'
  BY DEF Quiet, ViewsInv, Counting
<1>3. Layout(Lines)'
  BY <1>1 DEF Quiet, ViewsInv, Layout
<1>4. ASSUME NEW v \in Views PROVE Follows(v)'
  <2>1. Taken(v)' = Taken(v)
    BY DEF Quiet, Taken, viewVars
  <2>2. \A n : PublishedLine(n)' = PublishedLine(n)
    BY DEF Quiet, PublishedLine
  <2> QED  BY <1>1, <2>1, <2>2 DEF Quiet, ViewsInv, Follows, viewVars
<1> QED  BY <1>2, <1>3, <1>4 DEF ViewsInv

LEMMA QuietSteps ==
  ASSUME TypeOK,
         \/ CreateSlave \/ ParseFileList \/ Distribute \/ StopSlave \/ BrokenPipe \/ Select
         \/ AppLock \/ SetFlag \/ AppUnlock \/ DestroyMemory \/ DestroySemaphore \/ TypeY
         \/ (\E s \in Slaves : Slave(s)) \/ UNCHANGED vars
  PROVE  Quiet
<1>0. sem \in [1 .. 2 -> Nat]
  BY DEF TypeOK, IpcType
<1>1. CASE CreateSlave  BY <1>1 DEF Quiet, CreateSlave, ipcVars
<1>2. CASE ParseFileList  BY <1>2 DEF Quiet, ParseFileList, ipcVars
<1>3. CASE Distribute \/ StopSlave
  BY <1>3 DEF Quiet, Distribute, StopSlave, WriteToSlave, ipcVars
<1>4. CASE BrokenPipe \/ Select  BY <1>4 DEF Quiet, BrokenPipe, Select, ipcVars
<1>5. CASE AppLock  BY <1>0, <1>5 DEF Quiet, AppLock, SemWait
<1>6. CASE SetFlag \/ DestroyMemory \/ DestroySemaphore
  BY <1>6 DEF Quiet, SetFlag, DestroyMemory, DestroySemaphore
<1>7. CASE AppUnlock  BY <1>0, <1>7 DEF Quiet, AppUnlock, SemPost
<1>8. CASE TypeY \/ (\E s \in Slaves : Slave(s)) \/ UNCHANGED vars
  BY <1>8 DEF Quiet, TypeY, Slave, Exec, ReadTask, Hash, vars, appVars, ipcVars
<1> QED  BY <1>1, <1>2, <1>3, <1>4, <1>5, <1>6, <1>7, <1>8

\* slaveListener writes a line to md5Hash.txt.
LEMMA ViewsListen ==
  ASSUME TypeOK, ViewsInv, Listen PROVE ViewsInv'
<1>0. output \in Seq(Files) /\ pc = "listen"
      /\ UNCHANGED <<finishedFiles, mem, shmIndex, sem, semLive, viewVars>>
  BY DEF TypeOK, AppType, Listen, ipcVars
<1>1. CASE i \in ready /\ results[i] # <<>>
  <2> DEFINE x == Head(results[i])
  <2>1. message' = x /\ output' = Append(output, x) /\ pc' = "lock"
    BY <1>1 DEF Listen, readLine
  <2>2. x \in Files
    BY <1>1, PipeRead DEF Listen, TypeOK, AppType, SlaveType
  <2> HIDE DEF x
  <2>3. /\ output' \in Seq(Files) /\ Len(output') = Len(output) + 1
        /\ output'[Len(output) + 1] = x
        /\ \A n \in 1 .. Len(output) : output'[n] = output[n]
    BY <1>0, <2>1, <2>2, AppendProperties
  <2>4. Len(output) \in Nat
    BY <1>0
  <2>5. Lines' = Lines /\ Lines = Len(output)
    BY <1>0, <2>1, <2>3, <2>4 DEF Lines
  <2>6. Counting'
    <3>1. output' # <<>>
      BY <2>3, <2>4
    <3>2. finishedFiles = Len(output)
      BY <1>0 DEF ViewsInv, Counting
    <3> QED  BY <1>0, <2>1, <2>3, <2>4, <3>1, <3>2 DEF Counting
  <2>7. Layout(Lines)'
    <3>1. \A n \in 1 .. Lines : output'[n] = output[n]
      BY <2>3, <2>5
    <3> QED  BY <1>0, <2>5, <3>1 DEF ViewsInv, Layout
  <2>8. ASSUME NEW v \in Views PROVE Follows(v)'
    <3>1. Taken(v)' = Taken(v)
      BY <1>0 DEF Taken, viewVars
    <3>2. \A n \in 1 .. Lines : PublishedLine(n)' = PublishedLine(n)
      <4>1. ASSUME NEW n \in 1 .. Lines PROVE PublishedLine(n)' = PublishedLine(n)
        <5>1. output'[n] = output[n]
          BY <2>3, <2>5
        <5> QED  BY <5>1 DEF PublishedLine
      <4> QED  BY <4>1
    <3>3. printed[v] \in Seq(Seq(Files)) /\ Len(printed[v]) \in Nat
      BY DEF TypeOK, ViewType
    <3>4. Len(printed[v]) <= Lines =>
            \A n \in 1 .. Len(printed[v]) : PublishedLine(n)' = PublishedLine(n)
      BY <2>4, <2>5, <3>2, <3>3
    <3> QED  BY <1>0, <2>5, <3>1, <3>4 DEF ViewsInv, Follows, viewVars
  <2> QED  BY <2>6, <2>7, <2>8 DEF ViewsInv
<1>2. CASE ~(i \in ready /\ results[i] # <<>>)
  <2>1. Quiet
    BY <1>0, <1>2 DEF Quiet, Listen, readLine, NextSlave, LoopHead
  <2> QED  BY <2>1, QuietKeeps
<1> QED  BY <1>1, <1>2

LEMMA ViewsCount ==
  ASSUME TypeOK, ViewsInv, Count PROVE ViewsInv'
<1>0. /\ pc = "count" /\ finishedFiles' = finishedFiles + 1 /\ finishedFiles \in Nat
      /\ pc' \notin {"lock", "publish", "unlock", "count"} /\ output \in Seq(Files)
      /\ UNCHANGED <<output, mem, shmIndex, semLive, viewVars>>
      /\ sem \in [1 .. 2 -> Nat] /\ (semLive => sem'[2] = sem[2] + 1)
  BY DEF TypeOK, AppType, IpcType, Count, NextSlave, LoopHead, SemPost
<1>1. Lines' = Lines
  BY <1>0 DEF Lines
<1>2. Counting'
  <2>1. finishedFiles = Len(output) - 1 /\ Len(output) \in Nat
    BY <1>0 DEF ViewsInv, Counting
  <2>2. finishedFiles' = Len(output)
    BY <1>0, <2>1
  <2> QED  BY <1>0, <2>2 DEF Counting
<1>3. Layout(Lines)'
  BY <1>0, <1>1 DEF ViewsInv, Layout
<1>4. ASSUME NEW v \in Views PROVE Follows(v)'
  <2>1. Taken(v)' = Taken(v) /\ Taken(v) \in Nat
    <3>1. Taken(v)' = Taken(v)
      BY <1>0 DEF Taken, viewVars
    <3> QED  BY <3>1, TakenNat
  <2>2. \A n : PublishedLine(n)' = PublishedLine(n)
    BY <1>0 DEF PublishedLine
  <2>3. semLive' => Taken(v)' + sem'[2] <= finishedFiles'
    <3>1. sem[2] \in Nat
      BY <1>0
    <3>2. semLive => Taken(v) + sem[2] <= finishedFiles
      BY DEF ViewsInv, Follows
    <3> QED  BY <1>0, <2>1, <3>1, <3>2
  <2> QED  BY <1>0, <1>1, <2>2, <2>3 DEF ViewsInv, Follows, viewVars
<1> QED  BY <1>2, <1>3, <1>4 DEF ViewsInv

\* The application writes a line behind the others.
LEMMA ViewsPublish ==
  ASSUME TypeOK, ViewsInv, Publish PROVE ViewsInv'
<1> DEFINE w == Lines
<1>0. /\ pc = "publish" /\ pc' = "unlock" /\ output \in Seq(Files)
      /\ UNCHANGED <<output, message, finishedFiles, sem, semLive, viewVars>>
      /\ Counting /\ Layout(w) /\ message = output[Len(output)]
  BY DEF TypeOK, AppType, Publish, ViewsInv, Counting
<1>1. w \in Nat /\ Lines' = w + 1 /\ Len(output) = w + 1
  BY <1>0, LinesIs DEF Lines
<1>2. PICK f \in Nat \ {0} : f = First(w + 1) /\ First((w + 1) + 1) = f + MsgLen + 1
  BY <1>1, FirstIs
<1>3. /\ MsgLen \in Nat \ {0} /\ ShmSize \in Nat \ {0} /\ Cells \subseteq Nat
  BY FarmAssumption DEF Cells
<1>4. /\ shmIndex = IF f < ShmSize THEN f ELSE ShmSize
      /\ \A c \in Cells : c >= f \/ c >= ShmSize => mem[c] = Nul
      /\ \A n \in 1 .. w : \A c \in Cells :
           /\ First(n) <= c /\ c < First(n) + MsgLen /\ c < ShmSize => mem[c] = output[n]
           /\ c = First(n) + MsgLen => mem[c] = Nul
  BY <1>0, <1>2 DEF Layout
<1>5. /\ \A c \in Cells :
           mem'[c] = IF c >= shmIndex /\ c < ShmSize /\ c < shmIndex + MsgLen THEN message
                     ELSE IF c = shmIndex + MsgLen /\ c < ShmSize THEN Nul ELSE mem[c]
      /\ shmIndex' = IndexAfter(shmIndex + MsgLen)
  BY DEF Publish
<1>6. \A n \in 1 .. w : First(n) \in Nat \ {0} /\ First(n) + MsgLen + 1 <= f
  <2> HIDE DEF w
  <2>1. ASSUME NEW n \in 1 .. w
        PROVE  First(n) \in Nat \ {0} /\ First(n) + MsgLen + 1 <= f
    <3>1. PICK m \in Nat \ {0} : m = w + 1
      BY <1>1
    <3>2. n \in Nat \ {0} /\ n < m
      BY <1>1, <3>1
    <3>3. First(n) + MsgLen + 1 <= First(m)
      BY <3>2, FirstGrows
    <3> QED  BY <1>2, <3>1, <3>2, <3>3, FirstIs
  <2> QED  BY <2>1
<1> HIDE DEF w
<1>7. shmIndex' = IF f + MsgLen + 1 < ShmSize THEN f + MsgLen + 1 ELSE ShmSize
  BY <1>2, <1>3, <1>4, <1>5 DEF IndexAfter
<1>8. ASSUME NEW c \in Cells, c >= f + MsgLen + 1 \/ c >= ShmSize PROVE mem'[c] = Nul
  <2>1. c >= f \/ c >= ShmSize
    BY <1>2, <1>3, <1>8
  <2>2. mem[c] = Nul
    BY <1>4, <2>1
  <2>3. ~(c >= shmIndex /\ c < ShmSize /\ c < shmIndex + MsgLen)
    BY <1>2, <1>3, <1>4, <1>8
  <2> QED  BY <1>5, <2>2, <2>3
<1>9. ASSUME NEW n \in 1 .. w, NEW c \in Cells
      PROVE  /\ First(n) <= c /\ c < First(n) + MsgLen /\ c < ShmSize => mem'[c] = output[n]
             /\ c = First(n) + MsgLen => mem'[c] = Nul
  <2>1. First(n) \in Nat /\ First(n) + MsgLen + 1 <= f
    BY <1>6
  <2>2. CASE First(n) <= c /\ c < First(n) + MsgLen /\ c < ShmSize
    <3>1. ~(c >= shmIndex) /\ c # shmIndex + MsgLen
      BY <1>2, <1>3, <1>4, <2>1, <2>2
    <3> QED  BY <1>3, <1>4, <1>5, <2>1, <2>2, <3>1
  <2>3. CASE c = First(n) + MsgLen
    <3>1. mem[c] = Nul
      BY <1>4, <2>3
    <3>2. ~(c >= shmIndex /\ c < ShmSize)
      BY <1>2, <1>3, <1>4, <2>1, <2>3
    <3>3. ~(First(n) <= c /\ c < First(n) + MsgLen /\ c < ShmSize)
      BY <1>3, <2>1, <2>3
    <3> QED  BY <1>5, <3>1, <3>2, <3>3
  <2> QED  BY <2>2, <2>3
<1>10. ASSUME NEW c \in Cells
       PROVE  /\ f <= c /\ c < f + MsgLen /\ c < ShmSize => mem'[c] = output[w + 1]
              /\ c = f + MsgLen => mem'[c] = Nul
  <2>1. message = output[w + 1]
    BY <1>0, <1>1
  <2>2. CASE f <= c /\ c < f + MsgLen /\ c < ShmSize
    <3>1. c >= shmIndex /\ c < shmIndex + MsgLen
      BY <1>2, <1>3, <1>4, <2>2
    <3>2. c # f + MsgLen
      BY <1>2, <1>3, <2>2
    <3> QED  BY <1>5, <2>1, <2>2, <3>1, <3>2
  <2>3. CASE c = f + MsgLen
    <3>1. mem[c] = Nul
      BY <1>2, <1>3, <1>4, <2>3
    <3>2. ~(c >= shmIndex /\ c < ShmSize /\ c < shmIndex + MsgLen)
      BY <1>2, <1>3, <1>4, <2>3
    <3>3. ~(c < f + MsgLen)
      BY <1>2, <1>3, <2>3
    <3> QED  BY <1>5, <3>1, <3>2, <3>3
  <2> QED  BY <2>2, <2>3
<1>11. Layout(Lines)'
  <2>1. \A n \in 1 .. w + 1 : n \in 1 .. w \/ n = w + 1
    BY <1>1
  <2>2. \A n \in 1 .. w + 1 : \A c \in Cells :
          /\ First(n) <= c /\ c < First(n) + MsgLen /\ c < ShmSize => mem'[c] = output[n]
          /\ c = First(n) + MsgLen => mem'[c] = Nul
    BY <1>2, <1>9, <1>10, <2>1
  <2> QED  BY <1>0, <1>1, <1>2, <1>7, <1>8, <2>2 DEF Layout
<1>12. ASSUME NEW v \in Views PROVE Follows(v)'
  <2>1. Taken(v)' = Taken(v)
    BY <1>0 DEF Taken, viewVars
  <2>2. \A n : PublishedLine(n)' = PublishedLine(n)
    BY <1>0 DEF PublishedLine
  <2>3. Len(printed[v]) <= w => Len(printed[v]) <= w + 1
    <3>1. Len(printed[v]) \in Nat
      BY DEF TypeOK, ViewType
    <3> QED  BY <1>1, <3>1
  <2> QED  BY <1>0, <1>1, <2>1, <2>2, <2>3 DEF ViewsInv, Follows, viewVars, w
<1>13. Counting'
  BY <1>0 DEF Counting
<1> QED  BY <1>11, <1>12, <1>13 DEF ViewsInv

\* The steps of view v leave the others where they are.
LEMMA OtherViews ==
  ASSUME TypeOK, ViewsInv, NEW v \in Views, AttachMemory(v) \/ ViewRun(v)
  PROVE  /\ Counting' /\ Layout(Lines)' /\ Lines' = Lines
         /\ \A n : PublishedLine(n)' = PublishedLine(n)
         /\ finishedFiles' = finishedFiles /\ (semLive' => semLive)
         /\ sem'[2] \in Nat /\ sem[2] \in Nat /\ sem'[2] <= sem[2]
         /\ \A r \in Views : r # v => Follows(r)'
<1>1. /\ UNCHANGED <<appVars, mem, shmIndex>> /\ (semLive' => semLive)
      /\ \A r \in Views : r # v => /\ viewPc'[r] = viewPc[r] /\ viewMem'[r] = viewMem[r]
                                   /\ viewIndex'[r] = viewIndex[r] /\ printed'[r] = printed[r]
  <2>1. DOMAIN viewPc = Views /\ viewPc = [r \in Views |-> viewPc[r]]
        /\ DOMAIN viewMem = Views /\ viewMem = [r \in Views |-> viewMem[r]]
    BY DEF TypeOK, ViewType
  <2>2. DOMAIN viewIndex = Views /\ viewIndex = [r \in Views |-> viewIndex[r]]
        /\ DOMAIN printed = Views /\ printed = [r \in Views |-> printed[r]]
    BY DEF TypeOK, ViewType
  <2>3. UNCHANGED <<appVars, mem, shmIndex>> /\ (semLive' => semLive)
    BY DEF ViewRun, AttachMemory, AttachSemaphore, ViewWait, ViewLock, ViewRead,
           ViewUnlock, ViewDestroy, ipcVars
  <2>4. CASE AttachMemory(v)
    BY <2>1, <2>2, <2>3, <2>4 DEF AttachMemory
  <2>5. CASE AttachSemaphore(v) \/ ViewWait(v) \/ ViewLock(v)
    BY <2>1, <2>2, <2>3, <2>5 DEF AttachSemaphore, ViewWait, ViewLock
  <2>6. CASE ViewUnlock(v) \/ ViewDestroy(v)
    BY <2>1, <2>2, <2>3, <2>6 DEF ViewUnlock, ViewDestroy
  <2>7. CASE ViewRead(v)
    <3>1. viewMem' = viewMem
      BY <2>7 DEF ViewRead
    <3>2. \A r \in Views : r # v => viewPc'[r] = viewPc[r]
      BY <2>1, <2>7 DEF ViewRead
    <3>3. \A r \in Views : r # v => viewIndex'[r] = viewIndex[r] /\ printed'[r] = printed[r]
      BY <2>2, <2>7 DEF ViewRead
    <3> QED  BY <2>3, <3>1, <3>2, <3>3
  <2> QED  BY <2>4, <2>5, <2>6, <2>7 DEF ViewRun
<1>2. sem'[2] \in Nat /\ sem[2] \in Nat /\ sem'[2] <= sem[2]
  <2>1. sem \in [1 .. 2 -> Nat]
    BY DEF TypeOK, IpcType
  <2>2. sem' = sem \/ SemWait(0) \/ SemWait(1) \/ SemPost(0)
    BY DEF ViewRun, AttachMemory, AttachSemaphore, ViewWait, ViewLock, ViewRead,
           ViewUnlock, ViewDestroy, ipcVars
  <2>3. SemWait(1) => sem'[2] = sem[2] \/ (sem[2] > 0 /\ sem'[2] = sem[2] - 1)
    BY <2>1 DEF SemWait
  <2>4. SemWait(0) \/ SemPost(0) => sem'[2] = sem[2]
    BY <2>1 DEF SemWait, SemPost
  <2> QED  BY <2>1, <2>2, <2>3, <2>4
<1>3. UNCHANGED <<pc, output, message, finishedFiles>>
  BY <1>1 DEF appVars
<1>4. Lines' = Lines /\ \A n : PublishedLine(n)' = PublishedLine(n)
  BY <1>3 DEF Lines, PublishedLine
<1>5. Counting' /\ Layout(Lines)'
  BY <1>1, <1>3, <1>4 DEF ViewsInv, Counting, Layout
<1>6. ASSUME NEW r \in Views, r # v PROVE Follows(r)'
  <2>1. Taken(r)' = Taken(r) /\ Taken(r) \in Nat /\ finishedFiles \in Nat
    <3>1. finishedFiles \in Nat
      BY DEF TypeOK, AppType
    <3>2. Taken(r)' = Taken(r)
      BY <1>1, <1>6 DEF Taken
    <3> QED  BY <3>1, <3>2, TakenNat
  <2>2. semLive' => Taken(r)' + sem'[2] <= finishedFiles'
    <3>1. semLive => Taken(r) + sem[2] <= finishedFiles
      BY DEF ViewsInv, Follows
    <3> QED  BY <1>1, <1>2, <1>3, <2>1, <3>1
  <2>3. /\ viewPc'[r] = viewPc[r] /\ viewMem'[r] = viewMem[r]
        /\ viewIndex'[r] = viewIndex[r] /\ printed'[r] = printed[r] /\ Follows(r)
    BY <1>1, <1>6 DEF ViewsInv
  <2> QED  BY <1>4, <2>2, <2>3 DEF Follows
<1> QED  BY <1>1, <1>2, <1>3, <1>4, <1>5, <1>6

\* Where a line ends in the segment: a view that stands at line n finds that
\* line, as far as it fits, and then stands at the next one.
LEMMA LineRead ==
  ASSUME TypeOK, Counting, Layout(Lines), NEW v \in Views, viewMem[v] = "farm",
         NEW n \in 1 .. Lines, NEW c \in Cells, EndsAt(v, c),
         IF First(n) <= ShmSize THEN viewIndex[v] = First(n) ELSE viewIndex[v] > ShmSize
  PROVE  /\ [b \in 1 .. c - viewIndex[v] |-> Cell(v, viewIndex[v] + b - 1)] = PublishedLine(n)
         /\ IF First(n + 1) <= ShmSize THEN c + 1 = First(n + 1) ELSE c + 1 > ShmSize
<1>1. Lines \in Nat /\ Lines <= Len(output) /\ Len(output) \in Nat /\ output \in Seq(Files)
  BY LinesIs DEF TypeOK, AppType
<1>2. PICK x \in Files : x = output[n]
  BY <1>1
<1>3. x # Nul
  BY <1>2 DEF Files, Nul
<1>4. n \in Nat \ {0}
  BY <1>1
<1>5. PICK f \in Nat \ {0} : f = First(n) /\ First(n + 1) = f + MsgLen + 1
  BY <1>4, FirstIs
<1>6. PICK j \in Nat \ {0} : j = viewIndex[v]
  BY DEF TypeOK, ViewType
<1>7. /\ MsgLen \in Nat \ {0} /\ ShmSize \in Nat \ {0} /\ MapSize \in Nat
      /\ Cells = 1 .. MapSize - 1 /\ c \in Nat \ {0}
  BY FarmAssumption DEF Cells
<1>8. \A d \in Cells : /\ d >= ShmSize => mem[d] = Nul
                       /\ f <= d /\ d < f + MsgLen /\ d < ShmSize => mem[d] = x
                       /\ d = f + MsgLen => mem[d] = Nul
  BY <1>2, <1>5 DEF Layout
<1>9. j <= c /\ mem[c] = Nul /\ \A b \in j .. c - 1 : mem[b] # Nul
  BY <1>6 DEF EndsAt, Cell
<1>10. IF f <= ShmSize THEN j = f ELSE j > ShmSize
  BY <1>5, <1>6
<1>11. PublishedLine(n) = [b \in 1 .. (IF f >= ShmSize THEN 0
                                       ELSE IF f + MsgLen <= ShmSize THEN MsgLen
                                       ELSE ShmSize - f) |-> x]
  BY <1>2, <1>5 DEF PublishedLine, First
<1>12. [b \in 1 .. c - viewIndex[v] |-> Cell(v, viewIndex[v] + b - 1)]
         = [b \in 1 .. c - j |-> mem[j + b - 1]]
  BY <1>6 DEF Cell
<1>13. CASE f > ShmSize
  <2>1. j \in Cells /\ mem[j] = Nul
    BY <1>7, <1>8, <1>9, <1>10, <1>13
  <2>2. c = j
    BY <1>7, <1>9, <2>1
  <2>3. [b \in 1 .. c - j |-> mem[j + b - 1]] = PublishedLine(n)
    <3>1. 1 .. c - j = {} /\ 1 .. 0 = {}
      BY <2>2, <1>7
    <3>2. f >= ShmSize
      BY <1>7, <1>13
    <3> QED  BY <1>11, <3>1, <3>2
  <2>4. f + MsgLen + 1 > ShmSize /\ c + 1 > ShmSize
    BY <1>7, <1>10, <1>13, <2>2
  <2>5. ~(First(n + 1) <= ShmSize)
    BY <1>5, <1>7, <2>4
  <2> QED  BY <1>12, <2>3, <2>4, <2>5
<1>14. CASE f <= ShmSize
  <2>1. PICK e \in Nat \ {0} : e = IF f + MsgLen <= ShmSize THEN f + MsgLen ELSE ShmSize
    BY <1>7
  <2>2. j = f /\ f <= e /\ e <= ShmSize /\ e <= f + MsgLen
    BY <1>7, <1>10, <1>14, <2>1
  <2>3. e <= c
    <3>1. CASE c < f + MsgLen /\ c < ShmSize
      BY <1>3, <1>7, <1>8, <1>9, <2>2, <3>1
    <3>2. CASE ~(c < f + MsgLen /\ c < ShmSize)
      BY <1>7, <2>1, <3>2
    <3> QED  BY <3>1, <3>2
  <2>4. e \in Cells /\ mem[e] = Nul
    BY <1>7, <1>8, <2>1, <2>3
  <2>5. c = e
    BY <1>7, <1>9, <2>2, <2>3, <2>4
  <2>6. \A b \in 1 .. e - f : mem[f + b - 1] = x
    <3>1. ASSUME NEW b \in 1 .. e - f PROVE mem[f + b - 1] = x
      <4>1. PICK d \in Int : d = f + b - 1
        OBVIOUS
      <4>2. d \in Cells /\ f <= d /\ d < f + MsgLen /\ d < ShmSize
        BY <1>7, <2>2, <2>3, <4>1
      <4> QED  BY <1>8, <4>1, <4>2
    <3> QED  BY <3>1
  <2>7. e - f = IF f >= ShmSize THEN 0 ELSE IF f + MsgLen <= ShmSize THEN MsgLen ELSE ShmSize - f
    BY <1>7, <1>14, <2>1
  <2>8. [b \in 1 .. c - j |-> mem[j + b - 1]] = [b \in 1 .. e - f |-> x]
    BY <2>2, <2>5, <2>6
  <2>9. [b \in 1 .. e - f |-> x] = PublishedLine(n)
    BY <1>11, <2>7
  <2>10. IF f + MsgLen + 1 <= ShmSize THEN c + 1 = f + MsgLen + 1 ELSE c + 1 > ShmSize
    BY <1>7, <2>1, <2>5
  <2>11. [b \in 1 .. c - viewIndex[v] |-> Cell(v, viewIndex[v] + b - 1)] = PublishedLine(n)
    BY <1>12, <2>8, <2>9
  <2>12. IF First(n + 1) <= ShmSize THEN c + 1 = First(n + 1) ELSE c + 1 > ShmSize
    BY <1>5, <2>10
  <2> QED  BY <2>11, <2>12
<1> QED  BY <1>5, <1>7, <1>13, <1>14

\* What Follows says of view v, without the semaphore.
Shows(v) ==
  viewPc[v] # "off" /\ viewMem[v] = "farm" =>
    /\ Len(printed[v]) <= Lines
    /\ \A n \in 1 .. Len(printed[v]) : printed[v][n] = PublishedLine(n)
    /\ IF First(Len(printed[v]) + 1) <= ShmSize
       THEN viewIndex[v] = First(Len(printed[v]) + 1) ELSE viewIndex[v] > ShmSize

\* The steps of view v that print nothing.
LEMMA ViewMoves ==
  ASSUME TypeOK, ViewsInv, NEW v \in Views,
         \/ AttachMemory(v) \/ AttachSemaphore(v) \/ ViewWait(v) \/ ViewLock(v)
         \/ ViewUnlock(v) \/ ViewDestroy(v)
  PROVE  Follows(v)'
<1>0. /\ DOMAIN viewPc = Views /\ DOMAIN viewMem = Views
      /\ sem \in [1 .. 2 -> Nat] /\ semLive \in BOOLEAN /\ finishedFiles \in Nat
  BY DEF TypeOK, ViewType, IpcType, AppType
<1>1. /\ AttachMemory(v) \/ ViewRun(v)
      /\ UNCHANGED <<viewIndex, printed>> /\ viewPc'[v] # "off"
  BY <1>0 DEF ViewRun, AttachMemory, AttachSemaphore, ViewWait, ViewLock, ViewUnlock,
              ViewDestroy
<1>2. /\ Lines' = Lines /\ \A n : PublishedLine(n)' = PublishedLine(n)
      /\ finishedFiles' = finishedFiles /\ (semLive' => semLive)
      /\ sem'[2] \in Nat /\ sem[2] \in Nat /\ sem'[2] <= sem[2]
  BY <1>1, OtherViews
<1>3. Follows(v)
  BY DEF ViewsInv
<1>4. PICK k \in Nat : k = Taken(v)
  BY TakenNat
<1>5. semLive' => Taken(v)' + sem'[2] <= finishedFiles'
  <2>1. semLive => k + sem[2] <= finishedFiles
    BY <1>3, <1>4 DEF Follows
  <2>2. CASE ViewWait(v)
    <3>1. PICK p \in Nat : p = Len(printed[v])
      BY TakenNat
    <3>2. Taken(v) = p + 0 /\ Taken(v)' = p + 1
      BY <1>0, <1>1, <2>2, <3>1 DEF Taken, ViewWait
    <3>3. semLive => sem'[2] = sem[2] - 1 /\ sem[2] > 0
      BY <1>0, <2>2 DEF ViewWait, SemWait
    <3> QED  BY <1>0, <1>2, <1>4, <2>1, <3>1, <3>2, <3>3
  <2>3. CASE ~ViewWait(v)
    <3>1. Taken(v)' = Taken(v)
      BY <1>0, <1>1, <2>3 DEF Taken, AttachMemory, AttachSemaphore, ViewLock, ViewUnlock,
                              ViewDestroy
    <3> QED  BY <1>0, <1>2, <1>4, <2>1, <3>1
  <2> QED  BY <2>2, <2>3
<1>6. Shows(v)'
  <2>1. CASE AttachMemory(v)
    <3>1. printed'[v] = <<>> /\ viewIndex'[v] = 1
      BY <1>1, <1>3, <2>1 DEF Follows, AttachMemory
    <3>2. Len(printed'[v]) = 0 /\ 0 + 1 = 1
      BY <3>1
    <3>3. Lines \in Nat /\ ShmSize \in Nat \ {0}
      BY LinesIs, FarmAssumption DEF ViewsInv
    <3> QED  BY <1>2, <3>1, <3>2, <3>3, FirstIs DEF Shows
  <2>2. CASE ~AttachMemory(v)
    <3>1. viewPc[v] # "off" /\ viewMem'[v] = viewMem[v]
      BY <2>2 DEF AttachSemaphore, ViewWait, ViewLock, ViewUnlock, ViewDestroy
    <3>2. Shows(v)
      BY <1>3 DEF Follows, Shows
    <3> QED  BY <1>1, <1>2, <3>1, <3>2 DEF Shows
  <2> QED  BY <2>1, <2>2
<1> QED  BY <1>1, <1>5, <1>6 DEF Follows, Shows

LEMMA ViewReads ==
  ASSUME TypeOK, SectionInv, ViewsInv, NEW v \in Views, ViewRead(v)
  PROVE  Follows(v)'
<1>0. /\ DOMAIN viewPc = Views /\ viewPc[v] = "read"
      /\ sem' = sem /\ semLive' = semLive /\ viewMem' = viewMem
      /\ printed \in [Views -> Seq(Seq(Files))] /\ DOMAIN viewIndex = Views
      /\ finishedFiles \in Nat
  BY DEF TypeOK, ViewType, AppType, ViewRead, ipcVars
<1>1. AttachMemory(v) \/ ViewRun(v)
  BY DEF ViewRun
<1>2. /\ Lines' = Lines /\ \A n : PublishedLine(n)' = PublishedLine(n)
      /\ finishedFiles' = finishedFiles /\ sem[2] \in Nat
  BY <1>1, OtherViews
<1>3. Follows(v) /\ Counting /\ Layout(Lines)
  BY DEF ViewsInv
<1>4. PICK p \in Nat : p = Len(printed[v])
  BY TakenNat
<1>5. Taken(v) = p + 1
  BY <1>0, <1>4 DEF Taken
<1>6. semLive => p + 1 + sem[2] <= finishedFiles
  BY <1>3, <1>5 DEF Follows
<1>7. CASE UNCHANGED <<viewIndex, printed>> /\ viewPc'[v] \in {"leave", "crashed"}
  <2>1. Taken(v)' = p + 0
    BY <1>4, <1>7 DEF Taken
  <2>2. semLive => p + 0 + sem[2] <= finishedFiles
    BY <1>0, <1>2, <1>6
  <2> QED  BY <1>0, <1>2, <1>3, <1>7, <2>1, <2>2 DEF Follows
<1>8. CASE /\ viewPc'[v] = "unlock" /\ ~(viewMem[v] = "farm" /\ flag = -1)
           /\ \E c \in Cells :
                /\ EndsAt(v, c) /\ viewIndex'[v] = c + 1
                /\ printed' = [printed EXCEPT ![v] = Append(@,
                                 [b \in 1 .. c - viewIndex[v] |->
                                    Cell(v, viewIndex[v] + b - 1)])]
  <2>1. PICK c \in Cells :
          /\ EndsAt(v, c) /\ viewIndex'[v] = c + 1
          /\ printed' = [printed EXCEPT ![v] = Append(@,
                           [b \in 1 .. c - viewIndex[v] |->
                              Cell(v, viewIndex[v] + b - 1)])]
    BY <1>8
  <2> DEFINE line == [b \in 1 .. c - viewIndex[v] |-> Cell(v, viewIndex[v] + b - 1)]
  <2>2. printed'[v] = Append(printed[v], line)
    BY <1>0, <2>1
  <2>3. line \in Seq(Files)
    BY <2>1, LineIsSeq
  <2> HIDE DEF line
  <2>4. /\ Len(printed'[v]) = p + 1 /\ printed'[v][p + 1] = line
        /\ \A n \in 1 .. p : printed'[v][n] = printed[v][n]
    BY <1>0, <1>4, <2>2, <2>3, AppendProperties
  <2>5. Taken(v)' = p + 1 + 0
    BY <1>8, <2>4 DEF Taken
  <2>6. semLive' => Taken(v)' + sem'[2] <= finishedFiles'
    BY <1>0, <1>2, <1>6, <2>5
  <2>7. ASSUME viewMem[v] = "farm"
        PROVE  /\ p + 1 <= Lines
               /\ \A n \in 1 .. p + 1 : printed'[v][n] = PublishedLine(n)
               /\ IF First(p + 1 + 1) <= ShmSize
                  THEN viewIndex'[v] = First(p + 1 + 1) ELSE viewIndex'[v] > ShmSize
    <3>1. semLive
      BY <1>8, <2>7 DEF SectionInv, FlagLast
    <3>2. finishedFiles <= Lines /\ Lines \in Nat
      BY <1>3, LinesIs
    <3>3. PICK m \in 1 .. Lines : m = p + 1
      BY <1>0, <1>2, <1>6, <3>1, <3>2
    <3>4. IF First(m) <= ShmSize THEN viewIndex[v] = First(m) ELSE viewIndex[v] > ShmSize
      BY <1>0, <1>3, <1>4, <2>7, <3>3 DEF Follows
    <3>5. /\ line = PublishedLine(m)
          /\ IF First(m + 1) <= ShmSize THEN c + 1 = First(m + 1) ELSE c + 1 > ShmSize
      BY <1>3, <2>1, <2>7, <3>4, LineRead DEF line
    <3>6. \A n \in 1 .. p : printed'[v][n] = PublishedLine(n)
      BY <1>0, <1>3, <1>4, <2>4, <2>7 DEF Follows
    <3>7. \A n \in 1 .. p + 1 : n \in 1 .. p \/ n = p + 1
      OBVIOUS
    <3>8. \A n \in 1 .. p + 1 : printed'[v][n] = PublishedLine(n)
      BY <2>4, <3>3, <3>5, <3>6, <3>7
    <3>9. p + 1 <= Lines
      BY <3>2, <3>3
    <3> QED  BY <2>1, <3>3, <3>5, <3>8, <3>9
  <2>8. PICK q \in Nat : q = p + 1
    OBVIOUS
  <2> QED  BY <1>0, <1>2, <1>8, <2>4, <2>6, <2>7, <2>8 DEF Follows
<1> QED  BY <1>0, <1>7, <1>8 DEF ViewRead

LEMMA ViewsNext ==
  TypeOK /\ SectionInv /\ ViewsInv /\ [Next]_vars => ViewsInv'
<1> SUFFICES ASSUME TypeOK, SectionInv, ViewsInv, [Next]_vars PROVE ViewsInv'
  OBVIOUS
<1>1. CASE Listen  BY <1>1, ViewsListen
<1>2. CASE Publish  BY <1>2, ViewsPublish
<1>3. CASE Count  BY <1>3, ViewsCount
<1>4. CASE \E v \in Views : AttachMemory(v) \/ ViewRun(v)
  <2>1. PICK v \in Views : AttachMemory(v) \/ ViewRun(v)
    BY <1>4
  <2>2. Follows(v)'
    BY <2>1, ViewMoves, ViewReads DEF ViewRun
  <2>3. Counting' /\ Layout(Lines)' /\ \A r \in Views : r # v => Follows(r)'
    BY <2>1, OtherViews
  <2> QED  BY <2>2, <2>3 DEF ViewsInv
<1>5. CASE \/ CreateSlave \/ ParseFileList \/ Distribute \/ StopSlave \/ BrokenPipe \/ Select
           \/ AppLock \/ SetFlag \/ AppUnlock \/ DestroyMemory \/ DestroySemaphore \/ TypeY
           \/ (\E s \in Slaves : Slave(s)) \/ UNCHANGED vars
  BY <1>5, QuietSteps, QuietKeeps
<1> QED  BY <1>1, <1>2, <1>3, <1>4, <1>5 DEF Next, App

\* A view attached to the farm prints the lines of md5Hash.txt in their order,
\* each complete and once: readSharedMemory stands behind the last line it
\* printed, and never goes for a line that semaphore 1 has not announced.
THEOREM ViewsFollow == Spec => []ViewFollowsOutput
<1>1. TypeOK /\ ViewsInv => ViewFollowsOutput
  <2> SUFFICES ASSUME TypeOK, ViewsInv, NEW v \in Views, viewMem[v] = "farm"
               PROVE  /\ Len(printed[v]) <= Len(output)
                      /\ \A n \in 1 .. Len(printed[v]) : printed[v][n] = PublishedLine(n)
    BY DEF ViewFollowsOutput
  <2>1. Follows(v) /\ Lines \in Nat /\ Lines <= Len(output) /\ Len(output) \in Nat
    BY LinesIs DEF ViewsInv
  <2>2. PICK p \in Nat : p = Len(printed[v])
    BY TakenNat
  <2>3. CASE viewPc[v] = "off"
    <3>1. printed[v] = <<>>
      BY <2>1, <2>3 DEF Follows
    <3>2. Len(printed[v]) = 0
      BY <3>1
    <3> QED  BY <2>1, <3>2
  <2>4. CASE viewPc[v] # "off"
    <3>1. p <= Lines /\ \A n \in 1 .. p : printed[v][n] = PublishedLine(n)
      BY <2>1, <2>2, <2>4 DEF Follows
    <3> QED  BY <2>1, <2>2, <3>1
  <2> QED  BY <2>3, <2>4
<1> QED
  BY <1>1, TypeInit, TypeNext, SectionInit, SectionNext, ViewsInit, ViewsNext, PTL DEF Spec

================================================================================
