------------------------ MODULE RunLifecycleProofs -------------------------
(***************************************************************************)
(* Theorems about RunLifecycle, for every set of runs and of sockets, and  *)
(* every bound on chunks and restarts.                                     *)
(*                                                                         *)
(* The inductive invariant is the conjunction of the four invariants the   *)
(* runs check and of Progress, which ties a run's announcements and its    *)
(* drained output to the state of its task.  Each conjunct has a step      *)
(* lemma; TypeOK needs ExecutorExclusive (EndExecution drops the guard it  *)
(* holds, so the lock is not empty), and the refinement needs Progress.    *)
(***************************************************************************)
EXTENDS RunLifecycle, SequenceTheorems, TLAPS

(***************************************************************************)
(* Joining and leaving keep the lock a sequence over the same set.         *)
(***************************************************************************)
LEMMA LockTypes ==
  ASSUME NEW S, NEW q \in Seq(S)
  PROVE  /\ \A x \in S : Append(q, x) \in Seq(S)
         /\ q # <<>> => Tail(q) \in Seq(S)
BY HeadTailProperties, AppendProperties

(***************************************************************************)
(* A counter below its bound stays within it when it is incremented.       *)
(***************************************************************************)
LEMMA Increment ==
  ASSUME NEW n \in Nat, NEW i \in 0 .. n, i < n
  PROVE  i + 1 \in 0 .. n /\ i + 1 \in 1 .. n
OBVIOUS

(***************************************************************************)
(* The indices of a sequence that grew by one element.                     *)
(***************************************************************************)
LEMMA UpToNext ==
  ASSUME NEW n \in Nat, NEW i \in 1 .. n + 1
  PROVE  i = n + 1 \/ i \in 1 .. n
OBVIOUS

(***************************************************************************)
(* A chunk taken out of output_rx keeps the counters and the buffer typed: *)
(* the number appended is that of a chunk R produced.                      *)
(***************************************************************************)
LEMMA TakeChunkTypes ==
  ASSUME TypeOK, NEW r \in Runs, TakeChunk(r)
  PROVE  /\ received' \in [Runs -> 0 .. MaxChunks]
         /\ buffer' \in [Runs -> Seq(1 .. MaxChunks)]
<1> USE RunsAssumption
<1>1. received[r] + 1 \in 1 .. MaxChunks
  <2>1. /\ received[r] \in 0 .. MaxChunks
        /\ produced[r] \in 0 .. MaxChunks
        /\ received[r] < produced[r]
    BY DEF TypeOK, TakeChunk
  <2> QED
    BY <2>1
<1>2. Append(buffer[r], received[r] + 1) \in Seq(1 .. MaxChunks)
  <2>1. buffer[r] \in Seq(1 .. MaxChunks)
    BY DEF TypeOK
  <2> QED
    BY <1>1, <2>1, AppendProperties
<1>3. /\ received' = [received EXCEPT ![r] = received[r] + 1]
      /\ buffer' = [buffer EXCEPT ![r] = Append(buffer[r], received[r] + 1)]
  BY DEF TakeChunk
<1>4. received \in [Runs -> 0 .. MaxChunks] /\ buffer \in [Runs -> Seq(1 .. MaxChunks)]
  BY DEF TypeOK
<1>5. received' \in [Runs -> 0 .. MaxChunks]
  BY <1>1, <1>3, <1>4
<1>6. buffer' \in [Runs -> Seq(1 .. MaxChunks)]
  BY <1>2, <1>3, <1>4
<1> QED
  BY <1>5, <1>6

(***************************************************************************)
(* Every step of a socket loop and of a task keeps every variable's type.  *)
(***************************************************************************)
LEMMA TypeStep ==
  ASSUME TypeOK, ExecutorExclusive, [Next]_vars
  PROVE  TypeOK'
<1> USE RunsAssumption DEF TypeOK, ConnStates, TaskStates, Statuses, runVars, connVars,
        NoRun, NoFile, Handle, Advance, Join, Leave, Holds, ReadRecords, WriteRecords
<1>1. ASSUME NEW c \in Conns, Open(c) PROVE TypeOK'
  BY <1>1 DEF Open
<1>2. ASSUME NEW c \in Conns, Close(c) PROVE TypeOK'
  BY <1>2 DEF Close
<1>3. ASSUME NEW c \in Conns, Call(c) PROVE TypeOK'
  BY <1>3, LockTypes DEF Call
<1>4. ASSUME NEW c \in Conns, Restart(c) PROVE TypeOK'
  <2>1. lock' \in Seq(Conns \cup Runs)
    BY <1>4, LockTypes DEF Restart
  <2>2. restarts \in 0 .. MaxRestarts /\ restarts < MaxRestarts /\ restarts' = restarts + 1
    BY <1>4 DEF Restart
  <2>3. restarts' \in 0 .. MaxRestarts
    BY <2>2, Increment
  <2> QED
    BY <1>4, <2>1, <2>3 DEF Restart
<1>5. ASSUME NEW c \in Conns, EnvironmentSnapshot(c) PROVE TypeOK'
  BY <1>5, LockTypes DEF EnvironmentSnapshot
<1>6. ASSUME NEW c \in Conns, CreateRun(c) PROVE TypeOK'
  BY <1>6 DEF CreateRun
<1>7. ASSUME NEW c \in Conns, CreateRunFails(c) PROVE TypeOK'
  BY <1>7 DEF CreateRunFails
<1>8. ASSUME NEW c \in Conns, Accept(c) PROVE TypeOK'
  BY <1>8 DEF Accept
<1>9. ASSUME NEW c \in Conns, AcceptFails(c) PROVE TypeOK'
  BY <1>9 DEF AcceptFails
<1>10. ASSUME NEW c \in Conns, CallReturns(c) PROVE TypeOK'
  BY <1>10, LockTypes DEF CallReturns
<1>11. ASSUME NEW c \in Conns, ResetSession(c) PROVE TypeOK'
  BY <1>11, LockTypes DEF ResetSession
<1>12. ASSUME NEW c \in Conns, ClearBuffer(c) PROVE TypeOK'
  <2>1. <<>> \in Seq(1 .. MaxChunks)
    BY EmptySeq
  <2>2. buffer' \in [Runs -> Seq(1 .. MaxChunks)]
    BY <1>12, <2>1 DEF ClearBuffer
  <2> QED
    BY <1>12, <2>2 DEF ClearBuffer
<1>13. ASSUME NEW c \in Conns, ResetTimeline(c) PROVE TypeOK'
  BY <1>13 DEF ResetTimeline
<1>14. ASSUME NEW c \in Conns, NEW r \in Runs, Execute(c, r) PROVE TypeOK'
  BY <1>14, LockTypes DEF Execute
<1>15. ASSUME NEW r \in Runs, UpdateRunning(r) PROVE TypeOK'
  BY <1>15 DEF UpdateRunning
<1>16. ASSUME NEW r \in Runs, RecordRunning(r) PROVE TypeOK'
  BY <1>16 DEF RecordRunning
<1>17. ASSUME NEW r \in Runs, AnnounceRunning(r) PROVE TypeOK'
  BY <1>17, LockTypes DEF AnnounceRunning
<1>18. ASSUME NEW r \in Runs, StartExecution(r) PROVE TypeOK'
  BY <1>18 DEF StartExecution
<1>19. ASSUME NEW r \in Runs, PersistOutput(r) PROVE TypeOK'
  BY <1>19 DEF PersistOutput
<1>20. ASSUME NEW r \in Runs, StreamChunk(r) PROVE TypeOK'
  <2>1. TakeChunk(r)
    BY <1>20 DEF StreamChunk
  <2>2. received' \in [Runs -> 0 .. MaxChunks] /\ buffer' \in [Runs -> Seq(1 .. MaxChunks)]
    BY <2>1, TakeChunkTypes
  <2> QED
    BY <1>20, <2>2 DEF StreamChunk, TakeChunk
<1>21. ASSUME NEW r \in Runs, StreamChunkAndPersist(r) PROVE TypeOK'
  <2>1. TakeChunk(r)
    BY <1>21 DEF StreamChunkAndPersist
  <2>2. received' \in [Runs -> 0 .. MaxChunks] /\ buffer' \in [Runs -> Seq(1 .. MaxChunks)]
    BY <2>1, TakeChunkTypes
  <2> QED
    BY <1>21, <2>2 DEF StreamChunkAndPersist, TakeChunk
<1>22. ASSUME NEW r \in Runs, DrainChunk(r) PROVE TypeOK'
  <2>1. TakeChunk(r)
    BY <1>22 DEF DrainChunk
  <2>2. received' \in [Runs -> 0 .. MaxChunks] /\ buffer' \in [Runs -> Seq(1 .. MaxChunks)]
    BY <2>1, TakeChunkTypes
  <2> QED
    BY <1>22, <2>2 DEF DrainChunk, TakeChunk
<1>23. ASSUME NEW r \in Runs, Drained(r) PROVE TypeOK'
  BY <1>23 DEF Drained
<1>24. ASSUME NEW r \in Runs, FinishRun(r) PROVE TypeOK'
  BY <1>24 DEF FinishRun
<1>25. ASSUME NEW r \in Runs, RecordFinished(r) PROVE TypeOK'
  BY <1>25 DEF RecordFinished
<1>26. ASSUME NEW r \in Runs, RemoveRun(r) PROVE TypeOK'
  BY <1>26, EmptySeq DEF RemoveRun
<1>27. ASSUME NEW r \in Runs, AnnounceFinished(r) PROVE TypeOK'
  BY <1>27 DEF AnnounceFinished
<1>28. ASSUME NEW r \in Runs, ProduceChunk(r) PROVE TypeOK'
  <2>1. produced[r] \in 0 .. MaxChunks /\ produced[r] < MaxChunks
    BY <1>28 DEF ProduceChunk
  <2>2. produced[r] + 1 \in 0 .. MaxChunks
    BY <2>1, Increment
  <2>3. produced' \in [Runs -> 0 .. MaxChunks]
    BY <1>28, <2>2 DEF ProduceChunk
  <2> QED
    BY <1>28, <2>3 DEF ProduceChunk
<1>29. ASSUME NEW r \in Runs, EndExecution(r) PROVE TypeOK'
  BY <1>29, LockTypes DEF EndExecution, ExecutorExclusive, Executing
<1>30. CASE UNCHANGED vars
  BY <1>30 DEF vars
<1> QED
  BY <1>1, <1>2, <1>3, <1>4, <1>5, <1>6, <1>7, <1>8, <1>9, <1>10, <1>11, <1>12,
     <1>13, <1>14, <1>15, <1>16, <1>17, <1>18, <1>19, <1>20, <1>21, <1>22, <1>23,
     <1>24, <1>25, <1>26, <1>27, <1>28, <1>29, <1>30
     DEF Next, Request, ConnStep, TaskStep

(***************************************************************************)
(* No step lets a task execute without the executor's lock: a socket never *)
(* takes the lock from an executing run, it can only queue behind it, and  *)
(* the task that ends execution is the one at the head.                    *)
(***************************************************************************)
LEMMA LockStep ==
  ASSUME TypeOK, ExecutorExclusive, [Next]_vars
  PROVE  ExecutorExclusive'
<1> USE RunsAssumption DEF Executing, Holds
<1> DEFINE Owned == \A r \in Runs : Executing(r) => Holds(r)
<1>a. /\ task \in [Runs -> TaskStates]
      /\ lock \in Seq(Conns \cup Runs)
      /\ Owned
  BY DEF TypeOK, ExecutorExclusive
<1>b. \A x \in Conns \cup Runs : lock # <<>> =>
        /\ Append(lock, x) # <<>>
        /\ Head(Append(lock, x)) = Head(lock)
  BY <1>a, AppendProperties, HeadTailAppend
<1>1. ASSUME NEW c \in Conns, Request(c) \/ ConnStep(c), NEW r \in Runs, Executing(r)'
      PROVE  Holds(r)'
  <2>1. Executing(r)
    BY <1>1, <1>a DEF Request, ConnStep, Open, Close, Call, Restart, Execute,
       EnvironmentSnapshot, CreateRun, CreateRunFails, Accept, AcceptFails,
       CallReturns, ResetSession, ClearBuffer, ResetTimeline, Advance, runVars
  <2>2. Holds(r) /\ ~Holds(c)
    BY <2>1, <1>a
  <2>3. lock' = lock \/ lock' = Append(lock, c)
    BY <1>1, <2>2 DEF Request, ConnStep, Open, Close, Call, Restart, Execute,
       EnvironmentSnapshot, CreateRun, CreateRunFails, Accept, AcceptFails,
       CallReturns, ResetSession, ClearBuffer, ResetTimeline, Join
  <2> QED
    BY <2>2, <2>3, <1>b
<1>2. ASSUME NEW q \in Runs, StartExecution(q), NEW r \in Runs, Executing(r)'
      PROVE  Holds(r)'
  BY <1>2, <1>a DEF StartExecution, Advance
<1>3. ASSUME NEW q \in Runs, EndExecution(q), NEW r \in Runs, Executing(r)'
      PROVE  Holds(r)'
  <2>1. r # q /\ Executing(r) /\ Executing(q)
    BY <1>3, <1>a DEF EndExecution, Advance
  <2> QED
    BY <2>1, <1>a
<1>4. ASSUME NEW q \in Runs, AnnounceRunning(q), NEW r \in Runs, Executing(r)'
      PROVE  Holds(r)'
  <2>1. Executing(r) /\ lock' = Append(lock, q)
    BY <1>4, <1>a DEF AnnounceRunning, Advance, Join
  <2> QED
    BY <2>1, <1>a, <1>b
<1>5. ASSUME NEW q \in Runs, TaskStep(q) \/ ProduceChunk(q), 
             ~StartExecution(q), ~AnnounceRunning(q),
             NEW r \in Runs, Executing(r)'
      PROVE  Holds(r)'
  <2>1. Executing(r) /\ lock' = lock
    BY <1>5, <1>a DEF TaskStep, ProduceChunk, UpdateRunning, RecordRunning, PersistOutput,
       StreamChunk, StreamChunkAndPersist, TakeChunk, DrainChunk, Drained, FinishRun,
       RecordFinished, RemoveRun, AnnounceFinished, Advance
  <2> QED
    BY <2>1, <1>a
<1>6. CASE UNCHANGED vars
  BY <1>6 DEF vars, ExecutorExclusive
<1>7. Owned'
  <2> SUFFICES ASSUME NEW r \in Runs, Executing(r)' PROVE Holds(r)'
    BY DEF Owned
  <2>1. CASE UNCHANGED vars
    BY <2>1, <1>a DEF vars
  <2> QED
    BY <1>1, <1>2, <1>3, <1>4, <1>5, <2>1 DEF Next
<1> QED
  BY <1>7 DEF ExecutorExclusive

(***************************************************************************)
(* The buffer stays the tail of the run's output: a chunk is appended with *)
(* the next number, and clear and remove_run empty the whole entry.        *)
(***************************************************************************)
LEMMA BufferStep ==
  ASSUME TypeOK, BufferIsRecentOutput, [Next]_vars
  PROVE  BufferIsRecentOutput'
<1> USE RunsAssumption
<1> DEFINE Live == {"exec", "persist", "drain", "finish", "finishing", "cleanup"}
           Tail_(r) == \A i \in 1 .. Len(buffer[r]) :
                         buffer[r][i] = received[r] - Len(buffer[r]) + i
           Good(r) == Tail_(r) /\ (task[r] \notin Live => buffer[r] = <<>>)
<1>a. /\ task \in [Runs -> TaskStates]
      /\ received \in [Runs -> 0 .. MaxChunks]
      /\ buffer \in [Runs -> Seq(1 .. MaxChunks)]
      /\ \A r \in Runs : Good(r)
  BY DEF TypeOK, BufferIsRecentOutput
<1>1. ASSUME NEW q \in Runs, TakeChunk(q), task'[q] \in Live, NEW r \in Runs,
             r # q => task'[r] = task[r]
      PROVE  Good(r)'
  <2>1. CASE r # q
    BY <1>1, <1>a, <2>1 DEF TakeChunk
  <2>2. CASE r = q
    <3> DEFINE n == Len(buffer[r])
    <3>1. /\ buffer[r] \in Seq(1 .. MaxChunks)
          /\ received[r] \in Nat
          /\ n \in Nat
          /\ received[r] + 1 \in 1 .. MaxChunks
      <4>1. received[r] \in 0 .. MaxChunks /\ received'[r] = received[r] + 1
        BY <1>1, <1>a, <2>2 DEF TakeChunk
      <4>2. received'[r] \in 0 .. MaxChunks
        BY <1>1, <2>2, TakeChunkTypes
      <4>3. buffer[r] \in Seq(1 .. MaxChunks)
        BY <1>a
      <4> QED
        BY <4>1, <4>2, <4>3, LenProperties
    <3>2. /\ received'[r] = received[r] + 1
          /\ buffer'[r] = Append(buffer[r], received[r] + 1)
      BY <1>1, <1>a, <2>2 DEF TakeChunk
    <3>3. /\ Len(buffer'[r]) = n + 1
          /\ \A i \in 1 .. n : buffer'[r][i] = buffer[r][i]
          /\ buffer'[r][n + 1] = received[r] + 1
      BY <3>1, <3>2, AppendProperties
    <3>4. \A i \in 1 .. n : buffer[r][i] = received[r] - n + i
      BY <1>a
    <3>5. ASSUME NEW i \in 1 .. n + 1
          PROVE  buffer'[r][i] = received'[r] - (n + 1) + i
      <4>1. CASE i = n + 1
        BY <4>1, <3>1, <3>2, <3>3
      <4>2. CASE i \in 1 .. n
        <5>1. buffer'[r][i] = received[r] - n + i
          BY <4>2, <3>3, <3>4
        <5>2. received'[r] - (n + 1) + i = received[r] - n + i
          <6> HIDE DEF n
          <6> QED
            BY <4>2, <3>1, <3>2
        <5> QED
          BY <5>1, <5>2
      <4>3. i = n + 1 \/ i \in 1 .. n
        BY <3>1, <3>5, UpToNext
      <4> QED
        BY <4>1, <4>2, <4>3
    <3> QED
      BY <3>3, <3>5, <1>1, <2>2
  <2> QED
    BY <2>1, <2>2
<1>2. ASSUME NEW r \in Runs, buffer'[r] = <<>> PROVE Good(r)'
  BY <1>2, EmptySeq
<1>3. ASSUME NEW r \in Runs, buffer'[r] = buffer[r], received' = received,
             task[r] \in Live => task'[r] \in Live
      PROVE  Good(r)'
  BY <1>3, <1>a
<1>4. ASSUME NEW c \in Conns, Request(c) \/ ConnStep(c), ~ClearBuffer(c),
             NEW r \in Runs
      PROVE  Good(r)'
  <2>1. /\ buffer' = buffer /\ received' = received
        /\ task[r] \in Live => task'[r] \in Live
    BY <1>4, <1>a DEF Request, ConnStep, Open, Close, Call, Restart, Execute,
       EnvironmentSnapshot, CreateRun, CreateRunFails, Accept, AcceptFails,
       CallReturns, ResetSession, ResetTimeline, Advance, runVars
  <2> QED
    BY <2>1, <1>3
<1>5. ASSUME NEW q \in Runs, TaskStep(q) \/ ProduceChunk(q) \/ EndExecution(q),
             ~StreamChunk(q), ~StreamChunkAndPersist(q), ~DrainChunk(q), ~RemoveRun(q),
             NEW r \in Runs
      PROVE  Good(r)'
  <2>1. /\ buffer' = buffer /\ received' = received
        /\ task[r] \in Live => task'[r] \in Live
    BY <1>5, <1>a DEF TaskStep, ProduceChunk, EndExecution, UpdateRunning,
       RecordRunning, AnnounceRunning, StartExecution, PersistOutput, Drained,
       FinishRun, RecordFinished, AnnounceFinished, Advance
  <2> QED
    BY <2>1, <1>3
<1>6. ASSUME NEW q \in Runs, StreamChunk(q) \/ StreamChunkAndPersist(q) \/ DrainChunk(q),
             NEW r \in Runs
      PROVE  Good(r)'
  BY <1>1, <1>6, <1>a DEF StreamChunk, StreamChunkAndPersist, DrainChunk, Advance
<1>7. ASSUME NEW q \in Runs, RemoveRun(q), NEW r \in Runs PROVE Good(r)'
  <2>1. CASE r = q
    BY <2>1, <1>2, <1>7, <1>a DEF RemoveRun
  <2>2. CASE r # q
    BY <2>2, <1>3, <1>7, <1>a DEF RemoveRun, Advance
  <2> QED
    BY <2>1, <2>2
<1>8. ASSUME NEW c \in Conns, ClearBuffer(c), NEW r \in Runs PROVE Good(r)'
  BY <1>2, <1>8 DEF ClearBuffer
<1>9. ASSUME UNCHANGED vars, NEW r \in Runs PROVE Good(r)'
  BY <1>3, <1>9 DEF vars
<1>10. \A r \in Runs : Good(r)'
  <2> SUFFICES ASSUME NEW r \in Runs PROVE Good(r)'
    OBVIOUS
  <2> QED
    BY <1>4, <1>5, <1>6, <1>7, <1>8, <1>9 DEF Next
<1> QED
  BY <1>10 DEF BufferIsRecentOutput

(***************************************************************************)
(* A task only moves forward, so a status that was not ahead of the run    *)
(* never becomes so.                                                       *)
(***************************************************************************)
LEMMA AheadStable ==
  ASSUME TypeOK, [Next]_vars, NEW r \in Runs, NEW status \in Statuses, ~Ahead(r, status)
  PROVE  ~Ahead(r, status)'
<1> USE RunsAssumption DEF Ahead, Advance, runVars
<1>a. task \in [Runs -> TaskStates]
  BY DEF TypeOK
<1>1. ASSUME NEW c \in Conns, Request(c) \/ ConnStep(c)
      PROVE  ~Ahead(r, status)'
  BY <1>1, <1>a DEF Request, ConnStep, Open, Close, Call, Restart, Execute,
     EnvironmentSnapshot, CreateRun, CreateRunFails, Accept, AcceptFails,
     CallReturns, ResetSession, ClearBuffer, ResetTimeline
<1>2. ASSUME NEW q \in Runs, TaskStep(q) \/ ProduceChunk(q) \/ EndExecution(q)
      PROVE  ~Ahead(r, status)'
  BY <1>2, <1>a DEF TaskStep, ProduceChunk, EndExecution, UpdateRunning,
     RecordRunning, AnnounceRunning, StartExecution, PersistOutput, StreamChunk,
     StreamChunkAndPersist, DrainChunk, Drained, FinishRun, RecordFinished,
     RemoveRun, AnnounceFinished
<1>3. CASE UNCHANGED vars
  BY <1>3 DEF vars
<1> QED
  BY <1>1, <1>2, <1>3 DEF Next

(***************************************************************************)
(* Updates copy statuses around, from the file to a snapshot and back; none *)
(* of them is ahead of its run, nor is the one status an update writes.    *)
(***************************************************************************)
LEMMA RecordsStep ==
  ASSUME TypeOK, ExecutorExclusive, RecordsNeverAhead, [Next]_vars
  PROVE  RecordsNeverAhead'
<1> USE RunsAssumption
<1>a. /\ task \in [Runs -> TaskStates]
      /\ file \in [Runs -> Statuses]
      /\ snap \in [Runs -> [Runs -> Statuses]]
  BY DEF TypeOK
<1>b. /\ NoFile \in [Runs -> Statuses]
      /\ \A r \in Runs : NoFile[r] = "none" /\ ~Ahead(r, "none")'
  BY DEF NoFile, Statuses, Ahead
<1>c. \A r \in Runs : /\ ~Ahead(r, file[r])
                      /\ \A q \in Runs : ~Ahead(r, snap[q][r])
  BY DEF RecordsNeverAhead
<1>d. \A r \in Runs, status \in Statuses : ~Ahead(r, status) => ~Ahead(r, status)'
  BY AheadStable
<1> DEFINE Old(status, r) == \/ status = "none" \/ status = file[r]
                             \/ \E q \in Runs : status = snap[q][r]
<1>e. \A r \in Runs : \A status \in Statuses : Old(status, r) => ~Ahead(r, status)'
  BY <1>b, <1>c, <1>d
<1>1. ASSUME \A r \in Runs : Old(file'[r], r) \/ ~Ahead(r, file[r])',
             \A q, r \in Runs : Old(snap'[q][r], r)
      PROVE  RecordsNeverAhead'
  <2>1. /\ file' \in [Runs -> Statuses]
        /\ snap' \in [Runs -> [Runs -> Statuses]]
    BY TypeStep DEF TypeOK
  <2>2. ASSUME NEW r \in Runs PROVE ~Ahead(r, file[r])'
    <3>1. CASE Old(file'[r], r)
      <4>1. PICK status \in Statuses : status = file'[r]
        BY <2>1
      <4>2. ~Ahead(r, status)'
        BY <3>1, <4>1, <1>e
      <4> QED
        BY <4>1, <4>2 DEF Ahead
    <3> QED
      BY <3>1, <1>1
  <2>3. ASSUME NEW r \in Runs, NEW q \in Runs PROVE ~Ahead(r, snap[q][r])'
    <3>1. PICK status \in Statuses : status = snap'[q][r]
      BY <2>1
    <3>2. ~Ahead(r, status)'
      BY <3>1, <1>1, <1>e
    <3> QED
      BY <3>1, <3>2 DEF Ahead
  <2> QED
    BY <2>2, <2>3 DEF RecordsNeverAhead
<1>2. ASSUME UNCHANGED <<file, snap>> PROVE RecordsNeverAhead'
  BY <1>1, <1>2
<1>3. ASSUME NEW c \in Conns, Request(c) \/ ConnStep(c)
      PROVE  RecordsNeverAhead'
  <2>1. CASE CreateRun(c)
    <3>1. ASSUME NEW r \in Runs PROVE Old(file'[r], r) \/ ~Ahead(r, file[r])'
      <4>1. CASE r = creating[c]
        BY <2>1, <4>1, <1>a DEF CreateRun, Advance, Ahead
      <4>2. CASE r # creating[c]
        BY <2>1, <4>2, <1>a DEF CreateRun
      <4> QED
        BY <4>1, <4>2
    <3>2. snap' = snap
      BY <2>1 DEF CreateRun
    <3> QED
      BY <1>1, <3>1, <3>2
  <2>2. CASE ResetTimeline(c)
    <3>1. file' = NoFile /\ snap' = snap
      BY <2>2 DEF ResetTimeline
    <3> QED
      BY <1>1, <1>b, <3>1
  <2>3. CASE ~CreateRun(c) /\ ~ResetTimeline(c)
    <3>1. UNCHANGED <<file, snap>>
      BY <1>3, <2>3 DEF Request, ConnStep, Open, Close, Call, Restart, Execute,
         EnvironmentSnapshot, CreateRunFails, Accept, AcceptFails, CallReturns,
         ResetSession, ClearBuffer, runVars
    <3> QED
      BY <1>2, <3>1
  <2> QED
    BY <2>1, <2>2, <2>3
<1>4. ASSUME NEW q \in Runs, ReadRecords(q), file' = file
      PROVE  RecordsNeverAhead'
  <2>1. \A p, r \in Runs : Old(snap'[p][r], r)
    BY <1>4, <1>a DEF ReadRecords
  <2> QED
    BY <1>1, <1>4, <2>1
<1>5. ASSUME NEW q \in Runs, NEW status \in Statuses, WriteRecords(q, status),
             ~Ahead(q, status)'
      PROVE  RecordsNeverAhead'
  <2>1. \A p, r \in Runs : Old(snap'[p][r], r)
    BY <1>5, <1>a, <1>b DEF WriteRecords
  <2>2. ASSUME NEW r \in Runs PROVE Old(file'[r], r) \/ ~Ahead(r, file[r])'
    <3>1. snap[q] \in [Runs -> Statuses]
      BY <1>a
    <3>2. file' = file \/ file' = [snap[q] EXCEPT ![q] = status]
      BY <1>5 DEF WriteRecords
    <3>3. CASE file' = file
      BY <3>3
    <3>4. CASE file' = [snap[q] EXCEPT ![q] = status] /\ r # q
      BY <3>1, <3>4
    <3>5. CASE file' = [snap[q] EXCEPT ![q] = status] /\ r = q
      <4>1. file'[r] = status
        BY <3>1, <3>5
      <4> QED
        BY <1>5, <3>5, <4>1 DEF Ahead
    <3> QED
      BY <3>2, <3>3, <3>4, <3>5
  <2> QED
    BY <1>1, <2>1, <2>2
<1>6. ASSUME NEW q \in Runs, TaskStep(q) \/ ProduceChunk(q) \/ EndExecution(q)
      PROVE  RecordsNeverAhead'
  <2>1. CASE UpdateRunning(q) \/ StreamChunkAndPersist(q) \/ FinishRun(q)
    <3>1. ReadRecords(q) /\ file' = file
      BY <2>1 DEF UpdateRunning, StreamChunkAndPersist, FinishRun, TakeChunk
    <3> QED
      BY <1>4, <3>1
  <2>2. CASE RecordRunning(q)
    <3>1. WriteRecords(q, "running") /\ ~Ahead(q, "running")'
      BY <2>2, <1>a DEF RecordRunning, Advance, Ahead
    <3> QED
      BY <1>5, <3>1 DEF Statuses
  <2>3. CASE PersistOutput(q)
    <3>1. WriteRecords(q, "running") /\ ~Ahead(q, "running")'
      BY <2>3, <1>a DEF PersistOutput, Advance, Ahead
    <3> QED
      BY <1>5, <3>1 DEF Statuses
  <2>4. CASE RecordFinished(q)
    <3>1. WriteRecords(q, "finished") /\ ~Ahead(q, "finished")'
      BY <2>4, <1>a DEF RecordFinished, Advance, Ahead
    <3> QED
      BY <1>5, <3>1 DEF Statuses
  <2>5. CASE UNCHANGED <<file, snap>>
    BY <1>2, <2>5
  <2> QED
    BY <1>6, <2>1, <2>2, <2>3, <2>4, <2>5 DEF TaskStep, ProduceChunk, EndExecution,
       AnnounceRunning, StartExecution, StreamChunk, TakeChunk, DrainChunk, Drained,
       RemoveRun, AnnounceFinished
<1>7. CASE UNCHANGED vars
  BY <1>2, <1>7 DEF vars
<1> QED
  BY <1>3, <1>6, <1>7 DEF Next

(***************************************************************************)
(* How far a run has been announced follows from where its task stands,    *)
(* and once the drain is over every chunk R produced has been broadcast.   *)
(***************************************************************************)
Progress ==
  \A r \in Runs :
    /\ announced[r] =
         CASE task[r] \in {"none", "created", "orphan"} -> "none"
           [] task[r] \in {"spawned", "started", "announce"} -> "queued"
           [] task[r] = "done" -> "finished"
           [] OTHER -> "running"
    /\ task[r] \in {"finish", "finishing", "cleanup", "report", "done"}
         => received[r] = produced[r]

(***************************************************************************)
(* Progress is kept by every step: output_tx is only sent to while the     *)
(* task executes, and the drain ends when output_rx is empty.              *)
(***************************************************************************)
LEMMA ProgressStep ==
  ASSUME TypeOK, Progress, [Next]_vars
  PROVE  Progress'
<1> USE RunsAssumption DEF Progress, Advance, runVars, connVars
<1>a. /\ task \in [Runs -> TaskStates]
      /\ announced \in [Runs -> Statuses]
      /\ produced \in [Runs -> 0 .. MaxChunks]
      /\ received \in [Runs -> 0 .. MaxChunks]
  BY DEF TypeOK
<1>1. ASSUME NEW c \in Conns, Request(c) \/ ConnStep(c) PROVE Progress'
  BY <1>1, <1>a DEF Request, ConnStep, Open, Close, Call, Restart, Execute,
     EnvironmentSnapshot, CreateRun, CreateRunFails, Accept, AcceptFails,
     CallReturns, ResetSession, ClearBuffer, ResetTimeline
<1>2. ASSUME NEW q \in Runs, StreamChunk(q) \/ StreamChunkAndPersist(q) \/ DrainChunk(q)
      PROVE  Progress'
  BY <1>2, <1>a DEF StreamChunk, StreamChunkAndPersist, DrainChunk, TakeChunk
<1>3. ASSUME NEW q \in Runs, ProduceChunk(q) PROVE Progress'
  BY <1>3, <1>a DEF ProduceChunk
<1>4. ASSUME NEW q \in Runs, AnnounceRunning(q) PROVE Progress'
  BY <1>4, <1>a DEF AnnounceRunning
<1>5. ASSUME NEW q \in Runs, Drained(q) PROVE Progress'
  BY <1>5, <1>a DEF Drained
<1>6. ASSUME NEW q \in Runs, AnnounceFinished(q) PROVE Progress'
  BY <1>6, <1>a DEF AnnounceFinished
<1>7. ASSUME NEW q \in Runs, UpdateRunning(q) \/ RecordRunning(q) \/ StartExecution(q)
             \/ PersistOutput(q) \/ FinishRun(q) \/ RecordFinished(q) \/ RemoveRun(q)
      PROVE  Progress'
  <2>1. UNCHANGED <<announced, produced, received>>
    BY <1>7 DEF UpdateRunning, RecordRunning, StartExecution, PersistOutput, FinishRun,
       RecordFinished, RemoveRun
  <2>2. \E from, to \in TaskStates :
          /\ Advance(q, from, to)
          /\ <<from, to>> \in {<<"spawned", "started">>, <<"started", "announce">>,
               <<"waiting", "exec">>, <<"persist", "exec">>, <<"finish", "finishing">>,
               <<"finishing", "cleanup">>, <<"cleanup", "report">>}
    BY <1>7 DEF UpdateRunning, RecordRunning, StartExecution, PersistOutput, FinishRun,
       RecordFinished, RemoveRun, TaskStates
  <2> QED
    BY <2>1, <2>2, <1>a
<1>8. ASSUME NEW q \in Runs, EndExecution(q) PROVE Progress'
  BY <1>8, <1>a DEF EndExecution
<1>9. CASE UNCHANGED vars
  BY <1>9 DEF vars
<1> QED
  BY <1>1, <1>2, <1>3, <1>4, <1>5, <1>6, <1>7, <1>8, <1>9 DEF Next, TaskStep

(***************************************************************************)
(* The initial state of the server is one of the protocol's.               *)
(***************************************************************************)
LEMMA ProtocolInit == Init => Protocol!Init
BY DEF Init, Protocol!Init, Session, Executing

(***************************************************************************)
(* Every step of the code is a step of the protocol, or invisible to the   *)
(* clients.                                                                *)
(***************************************************************************)
LEMMA ProtocolStep ==
  ASSUME TypeOK, ExecutorExclusive, Progress, [Next]_vars
  PROVE  [Protocol!Next]_(Protocol!vars)
<1> USE RunsAssumption DEF Advance, runVars, connVars
<1> DEFINE session == [r \in Runs |-> Session(r)]
<1>a. /\ task \in [Runs -> TaskStates]
      /\ announced \in [Runs -> Statuses]
      /\ produced \in [Runs -> 0 .. MaxChunks]
      /\ received \in [Runs -> 0 .. MaxChunks]
  BY DEF TypeOK
<1>b. Protocol!vars = <<announced, produced, received, session>>
  BY DEF Protocol!vars
<1>1. ASSUME NEW c \in Conns, Request(c) \/ ConnStep(c), ~Accept(c)
      PROVE  UNCHANGED Protocol!vars
  <2>1. UNCHANGED <<announced, produced, received>>
    BY <1>1 DEF Request, ConnStep, Open, Close, Call, Restart, Execute,
       EnvironmentSnapshot, CreateRun, CreateRunFails, AcceptFails,
       CallReturns, ResetSession, ClearBuffer, ResetTimeline
  <2>2. \A r \in Runs : Session(r)' = Session(r)
    BY <1>1, <1>a DEF Request, ConnStep, Open, Close, Call, Restart, Execute,
       EnvironmentSnapshot, CreateRun, CreateRunFails, AcceptFails,
       CallReturns, ResetSession, ClearBuffer, ResetTimeline, Session, Executing
  <2> QED
    BY <1>b, <2>1, <2>2 DEF Protocol!vars
<1>2. ASSUME NEW c \in Conns, Accept(c)
      PROVE  Protocol!Next \/ UNCHANGED Protocol!vars
  <2> DEFINE r == creating[c]
  <2>1. \A q \in Runs : Session(q)' = Session(q)
    BY <1>2, <1>a DEF Accept, Session, Executing
  <2>2. CASE r \in Runs
    <3>1. announced[r] = "none"
      BY <1>2, <2>2 DEF Accept, Progress
    <3>2. Protocol!Queue(r)
      BY <1>2, <2>1, <3>1 DEF Accept, Protocol!Queue, Protocol!Announce
    <3> QED
      BY <2>2, <3>2 DEF Protocol!Next
  <2>3. CASE r \notin Runs
    <3>1. UNCHANGED <<announced, produced, received>>
      BY <1>2, <1>a, <2>3 DEF Accept
    <3> QED
      BY <1>b, <2>1, <3>1 DEF Protocol!vars
  <2> QED
    BY <2>2, <2>3
<1>3. ASSUME NEW r \in Runs, AnnounceRunning(r) PROVE Protocol!Start(r)
  <2>1. announced[r] = "queued"
    BY <1>3 DEF AnnounceRunning, Progress
  <2>2. \A q \in Runs : Session(q)' = Session(q)
    BY <1>3, <1>a DEF AnnounceRunning, Session, Executing
  <2> QED
    BY <1>3, <2>1, <2>2 DEF AnnounceRunning, Protocol!Start, Protocol!Announce
<1>4. ASSUME NEW r \in Runs, StartExecution(r) PROVE Protocol!Occupy(r)
  <2>1. announced[r] = "running" /\ Session(r) = "waiting"
    BY <1>4 DEF StartExecution, Progress, Session, Executing
  <2>2. \A q \in Runs : Session(q) # "busy"
    BY <1>4 DEF StartExecution, ExecutorExclusive, Holds, Session, Executing
  <2>3. Session(r)' = "busy" /\ \A q \in Runs \ {r} : Session(q)' = Session(q)
    BY <1>4, <1>a DEF StartExecution, Session, Executing
  <2> QED
    BY <1>4, <2>1, <2>2, <2>3 DEF StartExecution, Protocol!Occupy
<1>5. ASSUME NEW r \in Runs, ProduceChunk(r) PROVE Protocol!Produce(r)
  <2>1. Session(r) = "busy" /\ \A q \in Runs : Session(q)' = Session(q)
    BY <1>5 DEF ProduceChunk, Session, Executing
  <2> QED
    BY <1>5, <2>1 DEF ProduceChunk, Protocol!Produce
<1>6. ASSUME NEW r \in Runs, EndExecution(r) PROVE Protocol!Release(r)
  <2>1. Session(r) = "busy" /\ Session(r)' = "over"
        /\ \A q \in Runs \ {r} : Session(q)' = Session(q)
    BY <1>6, <1>a DEF EndExecution, Session, Executing
  <2> QED
    BY <1>6, <2>1 DEF EndExecution, Protocol!Release
<1>7. ASSUME NEW r \in Runs, StreamChunk(r) \/ StreamChunkAndPersist(r) \/ DrainChunk(r)
      PROVE  Protocol!Deliver(r)
  <2>1. announced[r] = "running"
    BY <1>7 DEF StreamChunk, StreamChunkAndPersist, DrainChunk, Progress
  <2>2. \A q \in Runs : Session(q)' = Session(q)
    BY <1>7, <1>a DEF StreamChunk, StreamChunkAndPersist, DrainChunk, Session, Executing
  <2> QED
    BY <1>7, <2>1, <2>2 DEF StreamChunk, StreamChunkAndPersist, DrainChunk, TakeChunk,
       Protocol!Deliver
<1>8. ASSUME NEW r \in Runs, AnnounceFinished(r) PROVE Protocol!Finish(r)
  <2>1. announced[r] = "running" /\ received[r] = produced[r] /\ Session(r) = "over"
    BY <1>8 DEF AnnounceFinished, Progress, Session, Executing
  <2>2. \A q \in Runs : Session(q)' = Session(q)
    BY <1>8, <1>a DEF AnnounceFinished, Session, Executing
  <2> QED
    BY <1>8, <2>1, <2>2 DEF AnnounceFinished, Protocol!Finish, Protocol!Announce
<1>9. ASSUME NEW r \in Runs, UpdateRunning(r) \/ RecordRunning(r) \/ PersistOutput(r)
             \/ Drained(r) \/ FinishRun(r) \/ RecordFinished(r) \/ RemoveRun(r)
      PROVE  UNCHANGED Protocol!vars
  <2>1. UNCHANGED <<announced, produced, received>>
    BY <1>9 DEF UpdateRunning, RecordRunning, PersistOutput, Drained, FinishRun,
       RecordFinished, RemoveRun
  <2>2. \A q \in Runs : Session(q)' = Session(q)
    BY <1>9, <1>a DEF UpdateRunning, RecordRunning, PersistOutput, Drained, FinishRun,
       RecordFinished, RemoveRun, Session, Executing
  <2> QED
    BY <1>b, <2>1, <2>2 DEF Protocol!vars
<1>10. CASE UNCHANGED vars
  BY <1>b, <1>10 DEF vars, Session, Executing, Protocol!vars
<1> QED
  BY <1>1, <1>2, <1>3, <1>4, <1>5, <1>6, <1>7, <1>8, <1>9, <1>10
     DEF Next, TaskStep, Protocol!Next

(***************************************************************************)
(* The inductive invariant holds in every state of the server.             *)
(***************************************************************************)
THEOREM SafetyInvariant ==
  Spec => [](TypeOK /\ ExecutorExclusive /\ BufferIsRecentOutput /\ RecordsNeverAhead
             /\ Progress)
<1> DEFINE Inv == TypeOK /\ ExecutorExclusive /\ BufferIsRecentOutput /\ RecordsNeverAhead
                  /\ Progress
<1>1. Init => Inv
  <2> SUFFICES ASSUME Init PROVE Inv
    OBVIOUS
  <2>1. TypeOK
    <3>1. buffer \in [Runs -> Seq(1 .. MaxChunks)] /\ lock \in Seq(Conns \cup Runs)
      BY EmptySeq DEF Init
    <3>2. 0 \in 0 .. MaxChunks /\ 0 \in 0 .. MaxRestarts
      BY RunsAssumption
    <3>3. /\ produced \in [Runs -> 0 .. MaxChunks]
          /\ received \in [Runs -> 0 .. MaxChunks]
          /\ restarts \in 0 .. MaxRestarts
      BY <3>2 DEF Init
    <3>4. /\ conn \in [Conns -> ConnStates]
          /\ creating \in [Conns -> Runs \cup {NoRun}]
          /\ task \in [Runs -> TaskStates]
          /\ announced \in [Runs -> Statuses]
      BY DEF Init, ConnStates, TaskStates, Statuses
    <3>5. /\ file \in [Runs -> Statuses]
          /\ snap \in [Runs -> [Runs -> Statuses]]
      BY DEF Init, NoFile, Statuses
    <3> QED
      BY <3>1, <3>3, <3>4, <3>5 DEF TypeOK
  <2>2. ExecutorExclusive /\ RecordsNeverAhead /\ Progress
    BY DEF Init, ExecutorExclusive, Executing, RecordsNeverAhead, Ahead, NoFile, Progress
  <2>3. BufferIsRecentOutput
    <3>1. \A r \in Runs : buffer[r] = <<>> /\ Len(buffer[r]) = 0
      BY EmptySeq DEF Init
    <3>2. ASSUME NEW r \in Runs PROVE 1 .. Len(buffer[r]) = {}
      BY <3>1
    <3> QED
      BY <3>1, <3>2 DEF BufferIsRecentOutput
  <2> QED
    BY <2>1, <2>2, <2>3
<1>2. Inv /\ [Next]_vars => Inv'
  BY TypeStep, LockStep, BufferStep, RecordsStep, ProgressStep
<1> QED
  BY <1>1, <1>2, PTL DEF Spec

(***************************************************************************)
(* Every variable keeps its type.                                          *)
(***************************************************************************)
THEOREM TypeCorrect == Spec => []TypeOK
BY SafetyInvariant, PTL

(***************************************************************************)
(* Two runs never share the R session of a project, however many sockets   *)
(* queue runs, interrupts, tool calls and restarts on its lock             *)
(* (spawn_execution_task, handle_interrupt, handle_restart).               *)
(***************************************************************************)
THEOREM OneRunAtATime == Spec => []ExecutorExclusive
BY SafetyInvariant, PTL

(***************************************************************************)
(* What run_query would replay for a live run is the exact tail of the     *)
(* output that was broadcast, and nothing is left once it is reported      *)
(* (StreamBuffer and its users).                                           *)
(***************************************************************************)
THEOREM ReplayIsExact == Spec => []BufferIsRecentOutput
BY SafetyInvariant, PTL

(***************************************************************************)
(* No record of the timeline, and no stale copy an update may still write  *)
(* back, is ahead of its run (JsonTimeline::update under concurrent runs). *)
(***************************************************************************)
THEOREM HistoryNeverAhead == Spec => []RecordsNeverAhead
BY SafetyInvariant, PTL

(***************************************************************************)
(* The server implements RunProtocol: announcements in order, output only  *)
(* between running and finished, and all of it before finished.            *)
(***************************************************************************)
THEOREM Refinement == Spec => ImplementsProtocol
<1>1. TypeOK /\ ExecutorExclusive /\ Progress /\ [Next]_vars => [Protocol!Next]_(Protocol!vars)
  BY ProtocolStep
<1> QED
  BY <1>1, ProtocolInit, SafetyInvariant, PTL DEF Spec, ImplementsProtocol, Protocol!Spec
=============================================================================
