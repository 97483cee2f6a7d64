-------------------------------- MODULE Md5Farm --------------------------------
(***************************************************************************)
(* The md5 farm of TP1: the application (application.c, applicationLib.c)  *)
(* forks NumSlaves slaves (slave.c), hands them file names through pipes,  *)
(* collects one md5sum line per file, and publishes each line in a shared  *)
(* memory segment that a view (view.c) prints.  Application and views      *)
(* synchronise with a System V semaphore set (sharedMemory.c): semaphore 0 *)
(* is a mutex on the segment, semaphore 1 counts the published lines.      *)
(*                                                                         *)
(* Pipes are FIFO sequences.  A file is its index in `filenames`; the line *)
(* md5sum prints for it is MsgLen cells of shared memory holding that      *)
(* index, followed by a NUL cell.  Each step is the code between two       *)
(* points where another process can see or change shared state.            *)
(***************************************************************************)
EXTENDS Integers, Sequences, FiniteSets

CONSTANTS
  NumSlaves,   \* NUM_OF_SLAVES
  BatchSize,   \* BATCH_SIZE
  MaxFiles,    \* bound on the number of files given on the command line
  MsgLen,      \* cells of one published line, the NUL not included
  ShmSize,     \* SHMSIZE: the application writes cells 1 .. ShmSize-1
  MapSize,     \* cells really mapped: SHMSIZE rounded up to whole pages
  Views,       \* the view processes a user may start
  Faults       \* the failures of the environment that may happen

FaultKinds == {"fork", "exec", "md5sum"}

ASSUME FarmAssumption ==
  /\ NumSlaves \in Nat \ {0} /\ BatchSize \in Nat \ {0}
  /\ MaxFiles \in Nat /\ MsgLen \in Nat \ {0}
  /\ ShmSize \in Nat \ {0} /\ MapSize \in Nat /\ ShmSize <= MapSize
  /\ Faults \subseteq FaultKinds

Slaves == 0 .. NumSlaves - 1
Files  == 1 .. MaxFiles
Stop   == 0                     \* the STOP_CODE message
Nul    == 0                     \* an empty cell: the segment is zero filled
Cells  == 1 .. MapSize - 1      \* cell 0 is the variable `flag`

VARIABLES
  \* the application
  pc, i, ready, numOfFiles, distributedFiles, finishedFiles, message, output,
  \* slaves[s].pid and slaves[s].remainingFiles
  pid, remainingFiles,
  \* the slave processes: control, file md5sum works on, their two pipes
  slavePc, hashing, tasks, results,
  failed,      \* history: the files for which md5sum printed nothing
  \* System V objects made by the application; *Live: not yet IPC_RMID-ed
  mem, flag, shmIndex, memLive, sem, semLive,
  \* the views: control, objects they attached to, next cell, lines printed
  viewPc, viewMem, viewSem, viewIndex, printed

appVars   == <<pc, i, ready, numOfFiles, distributedFiles, finishedFiles,
               message, output, pid, remainingFiles>>
slaveVars == <<slavePc, hashing, tasks, results, failed>>
ipcVars   == <<mem, flag, shmIndex, memLive, sem, semLive>>
viewVars  == <<viewPc, viewMem, viewSem, viewIndex, printed>>
vars      == <<appVars, slaveVars, ipcVars, viewVars>>

\* The application has made the segment and the semaphores (values 1 and
\* 1 - 1 = 0) and waits for the user to type 'y'.
Init ==
  /\ pc = "prompt" /\ i = 0 /\ ready = {} /\ message = Nul /\ output = <<>>
  /\ numOfFiles = 0 /\ distributedFiles = 0 /\ finishedFiles = 0
  /\ pid = [s \in Slaves |-> 0] /\ remainingFiles = [s \in Slaves |-> 0]
  /\ slavePc = [s \in Slaves |-> "none"] /\ hashing = [s \in Slaves |-> Nul]
  /\ tasks = [s \in Slaves |-> <<>>] /\ results = [s \in Slaves |-> <<>>]
  /\ failed = [s \in Slaves |-> {}]
  /\ mem = [c \in Cells |-> Nul] /\ flag = 0 /\ shmIndex = 1 /\ memLive = TRUE
  /\ sem = <<1, 0>> /\ semLive = TRUE          \* sem[k+1] is semaphore k
  /\ viewPc = [v \in Views |-> "off"] /\ viewIndex = [v \in Views |-> 1]
  /\ viewMem = [v \in Views |-> "none"] /\ viewSem = [v \in Views |-> "none"]
  /\ printed = [v \in Views |-> <<>>]

--------------------------------------------------------------------------------
(* Semaphore k of the farm's set.  A semop on a removed set fails at once   *)
(* with EIDRM or EINVAL; changeSemaphore ignores the error.                 *)

\* Slip: the value is tested and not taken.
SemWaitNotTaken(k) == (semLive => sem[k+1] > 0) /\ sem' = sem

SemWait(k) ==
  /\ semLive => sem[k+1] > 0
  /\ sem' = IF semLive THEN [sem EXCEPT ![k+1] = @ - 1] ELSE sem

\* Slip: the mutex is not given back.
SemPostNoMutex(k) ==
  sem' = IF semLive /\ k = 1 THEN [sem EXCEPT ![2] = @ + 1] ELSE sem

SemPost(k) ==
  sem' = IF semLive THEN [sem EXCEPT ![k+1] = @ + 1] ELSE sem

--------------------------------------------------------------------------------
(* The application *)

\* Slip: distributeFiles is called in every turn.
LoopHeadAlwaysDistributes(distributed, finished) ==
  IF finished = numOfFiles THEN "flagLock" ELSE "distribute"

\* The test at the head of main's loop, and of its inner `if`.
LoopHead(distributed, finished) ==
  IF finished = numOfFiles THEN "flagLock"
  ELSE IF distributed # numOfFiles THEN "distribute" ELSE "select"

TypeY ==
  /\ pc = "prompt" /\ pc' = "create"
  /\ UNCHANGED <<i, ready, numOfFiles, distributedFiles, finishedFiles, message,
                 output, pid, remainingFiles, slaveVars, ipcVars, viewVars>>

\* abortProgram: SIGINT for every slave with a pid.
abortProgram == [s \in Slaves |-> IF pid[s] # 0 THEN "exited" ELSE slavePc[s]]

\* createSlaves: one turn of the loop.  When fork fails the application
\* interrupts the slaves it has and exits; the System V objects stay.
CreateSlave ==
  /\ pc = "create" /\ i < NumSlaves
  /\ \/ /\ pid' = [pid EXCEPT ![i] = 1]
        /\ slavePc' = [slavePc EXCEPT ![i] = "forked"]
        /\ i' = i + 1 /\ pc' = pc
     \/ /\ "fork" \in Faults
        /\ slavePc' = abortProgram
        /\ pc' = "aborted" /\ UNCHANGED <<i, pid>>
  /\ UNCHANGED <<ready, numOfFiles, distributedFiles, finishedFiles, message,
                 output, remainingFiles, hashing, tasks, results, failed,
                 ipcVars, viewVars>>

\* parseFileList keeps the arguments that stat finds and that are no
\* directories: any number of them.
ParseFileList ==
  /\ pc = "create" /\ i = NumSlaves
  /\ numOfFiles' \in 0 .. MaxFiles
  /\ i' = 0
  /\ pc' = IF numOfFiles' = 0 THEN "flagLock" ELSE "distribute"
  /\ UNCHANGED <<ready, distributedFiles, finishedFiles, message, output, pid,
                 remainingFiles, slaveVars, ipcVars, viewVars>>

\* Slip: the inner loop forgets that the files may run out.
BatchForUnbounded(s) == IF remainingFiles[s] # 0 THEN 0 ELSE BatchSize

\* How many files distributeFiles writes to slave s in one turn of its loop.
BatchFor(s) ==
  IF remainingFiles[s] # 0 THEN 0
  ELSE IF BatchSize < numOfFiles - distributedFiles
       THEN BatchSize ELSE numOfFiles - distributedFiles

\* Slips: the file index does not advance within a batch; only the first file
\* of a batch is written; stopSlaves does not look at the pid, or looks for the
\* wrong one.
OutgoingSameFile ==
  IF pc = "distribute" /\ distributedFiles < numOfFiles
  THEN [j \in 1 .. BatchFor(i) |-> distributedFiles + 1]
  ELSE IF pc = "distribute" \/ pid[i] # 0 THEN <<Stop>> ELSE <<>>
OutgoingFirstOnly ==
  IF pc = "distribute" /\ distributedFiles < numOfFiles
  THEN IF BatchFor(i) > 0 THEN <<distributedFiles + 1>> ELSE <<>>
  ELSE IF pc = "distribute" \/ pid[i] # 0 THEN <<Stop>> ELSE <<>>
OutgoingStopAgain ==
  IF pc = "distribute" /\ distributedFiles < numOfFiles
  THEN [j \in 1 .. BatchFor(i) |-> distributedFiles + j] ELSE <<Stop>>
OutgoingStopForgotten ==
  IF pc = "distribute" /\ distributedFiles < numOfFiles
  THEN [j \in 1 .. BatchFor(i) |-> distributedFiles + j]
  ELSE IF pc = "distribute" THEN <<Stop>> ELSE <<>>

\* What the turn of distributeFiles' or stopSlaves' loop writes to slave i: a
\* batch, or STOP_CODE behind whatever the slave still has in its pipe.
Outgoing ==
  IF pc = "distribute" /\ distributedFiles < numOfFiles
  THEN [j \in 1 .. BatchFor(i) |-> distributedFiles + j]
  ELSE IF pc = "distribute" \/ pid[i] # 0 THEN <<Stop>> ELSE <<>>

WriteToSlave ==
  /\ Outgoing # <<>> => slavePc[i] # "exited"
  /\ tasks' = [tasks EXCEPT ![i] = @ \o Outgoing]
  /\ \/ i + 1 < NumSlaves /\ i' = i + 1 /\ pc' = pc
     \/ i + 1 = NumSlaves /\ i' = 0
        /\ pc' = IF pc = "distribute" THEN "select" ELSE "rmMem"

\* A write to the pipe of a slave that is gone raises SIGPIPE.
BrokenPipe ==
  /\ pc \in {"distribute", "stop"}
  /\ Outgoing # <<>> /\ slavePc[i] = "exited"
  /\ pc' = "killed"
  /\ UNCHANGED <<i, ready, numOfFiles, distributedFiles, finishedFiles, message,
                 output, pid, remainingFiles, slaveVars, ipcVars, viewVars>>

\* distributeFiles: one turn of its loop, for slave i
Distribute ==
  /\ pc = "distribute"
  /\ WriteToSlave
  /\ IF distributedFiles < numOfFiles
     THEN /\ distributedFiles' = distributedFiles + BatchFor(i)
          /\ remainingFiles' = [remainingFiles EXCEPT ![i] = @ + BatchFor(i)]
          /\ pid' = pid
     ELSE /\ pid' = [pid EXCEPT ![i] = 0]
          /\ UNCHANGED <<distributedFiles, remainingFiles>>
  /\ UNCHANGED <<ready, numOfFiles, finishedFiles, message, output, slavePc,
                 hashing, results, failed, ipcVars, viewVars>>

\* A pipe select reports: a line is in it, or its writer is gone (EOF).
Readable(s) == results[s] # <<>> \/ slavePc[s] = "exited"

Select ==
  /\ pc = "select" /\ \E s \in Slaves : Readable(s)
  /\ ready' = {s \in Slaves : Readable(s)}
  /\ i' = 0 /\ pc' = "listen"
  /\ UNCHANGED <<numOfFiles, distributedFiles, finishedFiles, message, output,
                 pid, remainingFiles, slaveVars, ipcVars, viewVars>>

\* The turn of slaveListener's loop for slave i ends.
NextSlave(finished) ==
  IF i + 1 < NumSlaves
  THEN i' = i + 1 /\ pc' = "listen"
  ELSE i' = 0 /\ pc' = LoopHead(distributedFiles, finished)

\* What readLine returns for slave s: at EOF it is 0 and nothing is counted.
readLine(s) == results[s] # <<>>

\* slaveListener: a line's way from the pipe to md5Hash.txt, where name and
\* hash change places (reformatMd5Output), a matter of layout.
Listen ==
  /\ pc = "listen"
  /\ IF i \in ready /\ readLine(i)
     THEN /\ message' = Head(results[i])
          /\ results' = [results EXCEPT ![i] = Tail(@)]
          /\ output' = Append(output, Head(results[i]))
          /\ pc' = "lock" /\ i' = i
     ELSE NextSlave(finishedFiles) /\ UNCHANGED <<message, results, output>>
  /\ UNCHANGED <<ready, numOfFiles, distributedFiles, finishedFiles, pid,
                 remainingFiles, slavePc, hashing, tasks, failed, ipcVars,
                 viewVars>>

\* changeSemaphore(0, -1), before a line is published or the flag is set
AppLock ==
  /\ \/ pc = "lock" /\ pc' = "publish"
     \/ pc = "flagLock" /\ pc' = "setFlag"
  /\ SemWait(0)
  /\ UNCHANGED <<i, ready, numOfFiles, distributedFiles, finishedFiles, message,
                 output, pid, remainingFiles, slaveVars, mem, flag, shmIndex,
                 memLive, semLive, viewVars>>

\* Slip: the next line overwrites the NUL.
IndexAfterNoNul(end) == IF end < ShmSize THEN end ELSE ShmSize

\* sharedMemoryIndex behind a line whose NUL belongs at `end`.
IndexAfter(end) == IF end + 1 < ShmSize THEN end + 1 ELSE ShmSize

\* The line and its NUL, as far as verifySharedMemoryIndexBounds lets them.
Publish ==
  /\ pc = "publish" /\ pc' = "unlock"
  /\ LET end == shmIndex + MsgLen IN
     /\ mem' = [c \in Cells |->
                  IF c >= shmIndex /\ c < ShmSize /\ c < end THEN message
                  ELSE IF c = end /\ c < ShmSize THEN Nul ELSE mem[c]]
     /\ shmIndex' = IndexAfter(end)
  /\ UNCHANGED <<i, ready, numOfFiles, distributedFiles, finishedFiles, message,
                 output, pid, remainingFiles, slaveVars, flag, memLive, sem,
                 semLive, viewVars>>

\* sharedMemory[0] = -1
SetFlag ==
  /\ pc = "setFlag" /\ pc' = "flagUnlock" /\ flag' = -1
  /\ UNCHANGED <<i, ready, numOfFiles, distributedFiles, finishedFiles, message,
                 output, pid, remainingFiles, slaveVars, mem, shmIndex, memLive,
                 sem, semLive, viewVars>>

\* changeSemaphore(0, 1)
AppUnlock ==
  /\ \/ pc = "unlock" /\ pc' = "count" /\ i' = i
     \/ pc = "flagUnlock" /\ pc' = "stop" /\ i' = 0
  /\ SemPost(0)
  /\ UNCHANGED <<ready, numOfFiles, distributedFiles, finishedFiles, message,
                 output, pid, remainingFiles, slaveVars, mem, flag, shmIndex,
                 memLive, semLive, viewVars>>

\* changeSemaphore(1, 1) and the two counters
Count ==
  /\ pc = "count"
  /\ SemPost(1)
  /\ remainingFiles' = [remainingFiles EXCEPT ![i] = @ - 1]
  /\ finishedFiles' = finishedFiles + 1
  /\ NextSlave(finishedFiles + 1)
  /\ UNCHANGED <<ready, numOfFiles, distributedFiles, message, output, pid,
                 slaveVars, mem, flag, shmIndex, memLive, semLive, viewVars>>

\* stopSlaves: one turn of its loop
StopSlave ==
  /\ pc = "stop"
  /\ WriteToSlave
  /\ pid' = [pid EXCEPT ![i] = 0]
  /\ UNCHANGED <<ready, numOfFiles, distributedFiles, finishedFiles, message,
                 output, remainingFiles, slavePc, hashing, results, failed,
                 ipcVars, viewVars>>

\* destroyMemory, then destroySemaphore.  A process attached to the segment
\* keeps it; whoever waits on the set is woken with EIDRM.
DestroyMemory ==
  /\ pc = "rmMem" /\ pc' = "rmSem" /\ memLive' = FALSE
  /\ UNCHANGED <<i, ready, numOfFiles, distributedFiles, finishedFiles, message,
                 output, pid, remainingFiles, slaveVars, mem, flag, shmIndex,
                 sem, semLive, viewVars>>

\* Slip: the set is left behind.
DestroySemaphoreNot ==
  pc = "rmSem" /\ pc' = "done"
  /\ UNCHANGED <<i, ready, numOfFiles, distributedFiles, finishedFiles, message,
                 output, pid, remainingFiles, slaveVars, ipcVars, viewVars>>

DestroySemaphore ==
  /\ pc = "rmSem" /\ pc' = "done" /\ semLive' = FALSE
  /\ UNCHANGED <<i, ready, numOfFiles, distributedFiles, finishedFiles, message,
                 output, pid, remainingFiles, slaveVars, mem, flag, shmIndex,
                 memLive, sem, viewVars>>

App ==
  \/ CreateSlave \/ ParseFileList \/ Distribute \/ BrokenPipe \/ Select
  \/ Listen \/ AppLock \/ Publish \/ SetFlag \/ AppUnlock \/ Count
  \/ StopSlave \/ DestroyMemory \/ DestroySemaphore

--------------------------------------------------------------------------------
(* Slave s *)

Exec(s) ==
  /\ slavePc[s] = "forked"
  /\ \/ slavePc' = [slavePc EXCEPT ![s] = "running"]
     \/ "exec" \in Faults /\ slavePc' = [slavePc EXCEPT ![s] = "exited"]
  /\ UNCHANGED <<appVars, hashing, tasks, results, failed, ipcVars, viewVars>>

\* main's loop reads one NUL-terminated message and tests it for STOP_CODE.
ReadTask(s) ==
  /\ slavePc[s] = "running" /\ hashing[s] = Nul /\ tasks[s] # <<>>
  /\ tasks' = [tasks EXCEPT ![s] = Tail(@)]
  /\ LET msg == Head(tasks[s]) IN
     IF msg = Stop
     THEN slavePc' = [slavePc EXCEPT ![s] = "exited"] /\ hashing' = hashing
     ELSE slavePc' = slavePc /\ hashing' = [hashing EXCEPT ![s] = msg]
  /\ UNCHANGED <<appVars, results, failed, ipcVars, viewVars>>

\* startSlaveListener: md5sum writes its line to the slave's standard output;
\* when it cannot read the file it prints nothing there.
Hash(s) ==
  /\ hashing[s] # Nul
  /\ \/ results' = [results EXCEPT ![s] = Append(@, hashing[s])]
        /\ failed' = failed
     \/ /\ "md5sum" \in Faults
        /\ failed' = [failed EXCEPT ![s] = @ \cup {hashing[s]}]
        /\ results' = results
  /\ hashing' = [hashing EXCEPT ![s] = Nul]
  /\ UNCHANGED <<appVars, slavePc, tasks, ipcVars, viewVars>>

Slave(s) == Exec(s) \/ ReadTask(s) \/ Hash(s)

--------------------------------------------------------------------------------
(* View v *)

\* generateSharedMemory, then generateSemaphore: IPC_CREAT makes a new object
\* when the application has already removed its own.
AttachMemory(v) ==
  /\ viewPc[v] = "off"
  /\ viewPc' = [viewPc EXCEPT ![v] = "attaching"]
  /\ viewMem' = [viewMem EXCEPT ![v] = IF memLive THEN "farm" ELSE "fresh"]
  /\ UNCHANGED <<appVars, slaveVars, ipcVars, viewSem, viewIndex, printed>>

AttachSemaphore(v) ==
  /\ viewPc[v] = "attaching"
  /\ viewPc' = [viewPc EXCEPT ![v] = "wait"]
  /\ viewSem' = [viewSem EXCEPT ![v] = IF semLive THEN "farm" ELSE "fresh"]
  /\ UNCHANGED <<appVars, slaveVars, ipcVars, viewMem, viewIndex, printed>>

\* changeSemaphore(1, -1); nobody ever posts to a set the view made itself.
ViewWait(v) ==
  /\ viewPc[v] = "wait" /\ viewSem[v] = "farm"
  /\ SemWait(1)
  /\ viewPc' = [viewPc EXCEPT ![v] = "lock"]
  /\ UNCHANGED <<appVars, slaveVars, mem, flag, shmIndex, memLive, semLive,
                 viewMem, viewSem, viewIndex, printed>>

\* changeSemaphore(0, -1)
ViewLock(v) ==
  /\ viewPc[v] = "lock"
  /\ SemWait(0)
  /\ viewPc' = [viewPc EXCEPT ![v] = "read"]
  /\ UNCHANGED <<appVars, slaveVars, mem, flag, shmIndex, memLive, semLive,
                 viewMem, viewSem, viewIndex, printed>>

\* What view v finds in its segment: the farm's cells, or zeros.
Cell(v, c) == IF viewMem[v] = "farm" THEN mem[c] ELSE Nul
EndsAt(v, c) == /\ viewIndex[v] <= c /\ Cell(v, c) = Nul
                /\ \A b \in viewIndex[v] .. c - 1 : Cell(v, b) # Nul

\* Print up to the next NUL, or stop at flag -1.  A line without a NUL in the
\* mapped cells makes the view read past the segment: it dies, in its
\* critical section.
ViewRead(v) ==
  /\ viewPc[v] = "read"
  /\ \/ /\ viewMem[v] = "farm" /\ flag = -1
        /\ viewPc' = [viewPc EXCEPT ![v] = "leave"]
        /\ UNCHANGED <<viewIndex, printed>>
     \/ /\ ~(viewMem[v] = "farm" /\ flag = -1)
        /\ \E c \in Cells :
             /\ EndsAt(v, c)
             /\ printed' = [printed EXCEPT ![v] = Append(@,
                              [b \in 1 .. c - viewIndex[v] |->
                                 Cell(v, viewIndex[v] + b - 1)])]
             /\ viewIndex' = [viewIndex EXCEPT ![v] = c + 1]
        /\ viewPc' = [viewPc EXCEPT ![v] = "unlock"]
     \/ /\ ~(viewMem[v] = "farm" /\ flag = -1)
        /\ \A c \in Cells : ~EndsAt(v, c)
        /\ viewPc' = [viewPc EXCEPT ![v] = "crashed"]
        /\ UNCHANGED <<viewIndex, printed>>
  /\ UNCHANGED <<appVars, slaveVars, ipcVars, viewMem, viewSem>>

\* changeSemaphore(0, 1)
ViewUnlock(v) ==
  /\ \/ viewPc[v] = "unlock" /\ viewPc' = [viewPc EXCEPT ![v] = "wait"]
     \/ viewPc[v] = "leave" /\ viewPc' = [viewPc EXCEPT ![v] = "destroy"]
  /\ SemPost(0)
  /\ UNCHANGED <<appVars, slaveVars, mem, flag, shmIndex, memLive, semLive,
                 viewMem, viewSem, viewIndex, printed>>

\* The view removes the semaphore set too, whoever made it.
ViewDestroy(v) ==
  /\ viewPc[v] = "destroy"
  /\ viewPc' = [viewPc EXCEPT ![v] = "ended"]
  /\ semLive' = FALSE
  /\ UNCHANGED <<appVars, slaveVars, mem, flag, shmIndex, memLive, sem,
                 viewMem, viewSem, viewIndex, printed>>

ViewRun(v) ==
  \/ AttachSemaphore(v) \/ ViewWait(v) \/ ViewLock(v) \/ ViewRead(v)
  \/ ViewUnlock(v) \/ ViewDestroy(v)

--------------------------------------------------------------------------------
Next ==
  \/ TypeY \/ App
  \/ \E s \in Slaves : Slave(s)
  \/ \E v \in Views : AttachMemory(v) \/ ViewRun(v)

Spec == Init /\ [][Next]_vars

\* Every process runs as long as it can take a step; only the user's 'y' and
\* the start of a view may never come.  A semaphore that is free stays free
\* often enough for weak fairness: the others only take it a bounded number of
\* times before they wait for a line themselves.
FairSpec ==
  /\ Spec
  /\ WF_vars(App)
  /\ \A s \in Slaves : WF_vars(Slave(s))
  /\ \A v \in Views : WF_vars(ViewRun(v))

--------------------------------------------------------------------------------
(* Properties *)

AppType ==
  /\ pc \in {"prompt", "create", "distribute", "select", "listen", "lock",
             "publish", "unlock", "count", "flagLock", "setFlag", "flagUnlock",
             "stop", "rmMem", "rmSem", "done", "aborted", "killed"}
  /\ i \in 0 .. NumSlaves /\ (pc # "create" => i \in Slaves)
  /\ ready \subseteq Slaves
  /\ numOfFiles \in 0 .. MaxFiles /\ distributedFiles \in 0 .. numOfFiles
  /\ pc \in {"prompt", "create"} => distributedFiles = 0
  /\ finishedFiles \in Nat
  /\ message \in Files \cup {Nul} /\ output \in Seq(Files)
  /\ pid \in [Slaves -> {0, 1}] /\ remainingFiles \in [Slaves -> Int]

SlaveType ==
  /\ slavePc \in [Slaves -> {"none", "forked", "running", "exited"}]
  /\ hashing \in [Slaves -> Files \cup {Nul}]
  /\ tasks \in [Slaves -> Seq(Files \cup {Stop})]
  /\ results \in [Slaves -> Seq(Files)]
  /\ failed \in [Slaves -> SUBSET Files]

IpcType ==
  /\ mem \in [Cells -> Files \cup {Nul}] /\ flag \in {0, -1}
  /\ shmIndex \in 1 .. ShmSize /\ memLive \in BOOLEAN
  /\ sem \in [1 .. 2 -> Nat] /\ semLive \in BOOLEAN

ViewType ==
  /\ viewPc \in [Views -> {"off", "attaching", "wait", "lock", "read", "unlock",
                           "leave", "destroy", "ended", "crashed"}]
  /\ viewMem \in [Views -> {"none", "farm", "fresh"}]
  /\ viewSem \in [Views -> {"none", "farm", "fresh"}]
  /\ viewIndex \in [Views -> Nat \ {0}]
  /\ printed \in [Views -> Seq(Seq(Files))]

\* Type invariant: among other things the application never hands out more
\* files than it was given, and sharedMemoryIndex stays in the segment.
TypeOK == AppType /\ SlaveType /\ IpcType /\ ViewType

\* The files in a pipe or in md5Hash.txt; a file is in a sequence once.
Elements(q) == {q[n] : n \in 1 .. Len(q)} \cap Files
Distinct(q) ==
  \A m, n \in 1 .. Len(q) : q[m] = q[n] /\ q[m] \in Files => m = n

\* The places a file can be in, and what is there.
Places == ({"tasks", "hashing", "results", "failed"} \X Slaves) \cup {<<"output", 0>>}
content ==
  [p \in Places |->
     CASE p[1] = "tasks"   -> Elements(tasks[p[2]])
       [] p[1] = "hashing" -> {hashing[p[2]]} \cap Files
       [] p[1] = "results" -> Elements(results[p[2]])
       [] p[1] = "failed"  -> failed[p[2]]
       [] p[1] = "output"  -> Elements(output)]

\* Every file handed out is in exactly one place - a slave's pipe, its md5sum,
\* its result pipe, md5Hash.txt, or it failed - and there once; no other file is
\* anywhere: a batch never overlaps the next one, and no line is read twice or
\* dropped between select, readLine and the output file.
EachFileOnce ==
  /\ \A k \in Files :
       Cardinality({p \in Places : k \in content[p]})
         = IF k <= distributedFiles THEN 1 ELSE 0
  /\ \A s \in Slaves : Distinct(tasks[s]) /\ Distinct(results[s])
  /\ Distinct(output)

\* The files that are with slave s, and the line of s that slaveListener has
\* read and not yet counted: together, those that have not come back.
InHands(C, s) == UNION {C[<<c, s>>] : c \in {"tasks", "hashing", "results", "failed"}}
Publishing(s) == i = s /\ pc \in {"lock", "publish", "unlock", "count"}
InFlight(s) == InHands(content, s) \cup (IF Publishing(s) THEN {message} ELSE {})

\* remainingFiles of a slave is the number of its files that have not come
\* back: what makes "remainingFiles == 0" a correct test for a free slave.
RemainingIsInFlight ==
  \A s \in Slaves : remainingFiles[s] = Cardinality(InFlight(s))

StopsAt(s) == {n \in 1 .. Len(tasks[s]) : tasks[s][n] = Stop}

\* STOP_CODE is sent once, behind all files of the slave, so a slave leaves
\* nothing unread when it exits; a slave marked stopped is told so or gone.
StopsCleanly ==
  "exec" \notin Faults /\ pc # "aborted" =>
    \A s \in Slaves :
      /\ StopsAt(s) \subseteq {Len(tasks[s])}
      /\ slavePc[s] = "exited" => tasks[s] = <<>> /\ pid[s] = 0
      /\ slavePc[s] = "running" =>
           (pid[s] = 0 <=> StopsAt(s) # {})

\* The application is never killed by SIGPIPE as long as execlp works: it
\* writes neither files nor a second STOP_CODE to a slave that has exited.
NoBrokenPipe == "exec" \notin Faults => pc # "killed"

\* Who is between changeSemaphore(0, -1) and changeSemaphore(0, 1).
AppIn     == pc \in {"publish", "unlock", "setFlag", "flagUnlock"}
ViewIn(v) == viewPc[v] \in {"read", "unlock", "leave", "crashed"}

\* No view reads the segment while the application writes to it, even though
\* failing semops are ignored and a view may remove the semaphores that the
\* application has made.
NoReadDuringWrite ==
  AppIn => \A v \in Views : viewMem[v] = "farm" => ~ViewIn(v)

\* The line a view should show at position n: the n-th line of md5Hash.txt,
\* as much of it as the segment has room for.
PublishedLine(n) ==
  LET first == 1 + (n - 1) * (MsgLen + 1)
      room  == IF first >= ShmSize THEN 0
               ELSE IF first + MsgLen <= ShmSize THEN MsgLen ELSE ShmSize - first
  IN  [b \in 1 .. room |-> output[n]]

\* A view attached to the farm prints the lines of md5Hash.txt in their order,
\* none twice, none skipped, none before it is complete; when the segment is
\* full it prints a truncated line and then empty ones.
ViewFollowsOutput ==
  \A v \in Views : viewMem[v] = "farm" =>
    /\ Len(printed[v]) <= Len(output)
    /\ \A n \in 1 .. Len(printed[v]) : printed[v][n] = PublishedLine(n)

\* What TP1/informe.pdf says of the counting semaphore: it holds the view until
\* there are lines to show, so that a view that has ended has shown them all.
ViewShowsAll ==
  \A v \in Views : viewPc[v] = "ended" /\ viewMem[v] = "farm" =>
    Len(printed[v]) = Len(output)

\* Once the user has typed 'y' the application ends: every line is collected,
\* the slaves are told to stop and the System V objects are removed (or the
\* program was aborted because fork failed).
FarmEnds == pc = "create" ~> pc \in {"done", "aborted"}

\* Every slave that was forked exits.
SlavesEnd == \A s \in Slaves : slavePc[s] = "forked" ~> slavePc[s] = "exited"

\* A view that found both objects of the farm ends once the farm runs, though
\* nothing posts semaphore 1 after the flag is set: removing the set wakes it.
ViewEnds ==
  \A v \in Views :
    viewPc[v] = "wait" /\ viewMem[v] = "farm" /\ viewSem[v] = "farm"
      ~> viewPc[v] = "ended" \/ pc \in {"prompt", "aborted"}

================================================================================
