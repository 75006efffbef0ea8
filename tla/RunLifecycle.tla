---------------------------- MODULE RunLifecycle ---------------------------
(***************************************************************************)
(* The life of the runs of one project on the server                       *)
(* (server/src/handlers/mod.rs, session_handler.rs, stream_buffer.rs).     *)
(*                                                                         *)
(* Every WebSocket is served by a loop that handles one request at a time  *)
(* and awaits its handler in place.  An `execute` request writes a queued  *)
(* record and spawns a task; the task and the loops meet on the lock       *)
(* around the one R executor of the project, in the stream buffer, in the  *)
(* timeline file and in the broadcast channel.                             *)
(*                                                                         *)
(* The timeline appears as the code uses it: create_run appends, and       *)
(* update_run / finish_run read all records and later write all of them    *)
(* back, two steps of which only the second takes the writer's mutex.      *)
(* The file itself is the subject of module Timeline.                      *)
(***************************************************************************)
EXTENDS Naturals, Sequences

CONSTANTS
  Runs,         \* the run ids (uuid) handed out
  Conns,        \* the WebSocket connections to the project
  MaxChunks,    \* bound: the chunks R produces for one run
  MaxRestarts   \* bound: the restart_session requests served

ASSUME RunsAssumption ==
  /\ Runs \cap Conns = {}
  /\ MaxChunks \in Nat
  /\ MaxRestarts \in Nat

VARIABLES
  conn,       \* what each socket loop is doing
  creating,   \* the run each socket loop is creating, if any
  task,       \* where the task of each run stands
  lock,       \* runtime.r_executor: its holder, then the waiters in order
  file,       \* the status of each run's record on disk, "none" if there is none
  snap,       \* the records an update in progress has read
  produced,   \* chunks R produced (sent into output_tx) for each run
  received,   \* chunks the task took out of output_rx, buffered and broadcast
  buffer,     \* StreamBuffer: the chunk numbers kept for each run
  announced,  \* the last life-cycle event of each run that was broadcast
  restarts    \* restarts served, to bound the model

vars == <<conn, creating, task, lock, file, snap, produced, received, buffer,
          announced, restarts>>

Statuses == {"none", "queued", "running", "finished"}

ConnStates == {"closed", "loop", "env", "create", "accept", "call",
               "restart", "clear", "reset"}

TaskStates == {"none", "created", "orphan", "spawned", "started", "announce",
               "waiting", "exec", "persist", "drain", "finish", "finishing",
               "cleanup", "report", "done"}

NoRun == "no run"

NoFile == [r \in Runs |-> "none"]

TypeOK ==
  /\ conn \in [Conns -> ConnStates]
  /\ creating \in [Conns -> Runs \cup {NoRun}]
  /\ task \in [Runs -> TaskStates]
  /\ lock \in Seq(Conns \cup Runs)
  /\ file \in [Runs -> Statuses]
  /\ snap \in [Runs -> [Runs -> Statuses]]
  /\ produced \in [Runs -> 0 .. MaxChunks]
  /\ received \in [Runs -> 0 .. MaxChunks]
  /\ buffer \in [Runs -> Seq(1 .. MaxChunks)]
  /\ announced \in [Runs -> Statuses]
  /\ restarts \in 0 .. MaxRestarts

Init ==
  /\ conn = [c \in Conns |-> "closed"]
  /\ creating = [c \in Conns |-> NoRun]
  /\ task = [r \in Runs |-> "none"]
  /\ lock = <<>>
  /\ file = NoFile
  /\ snap = [r \in Runs |-> NoFile]
  /\ produced = [r \in Runs |-> 0]
  /\ received = [r \in Runs |-> 0]
  /\ buffer = [r \in Runs |-> <<>>]
  /\ announced = [r \in Runs |-> "none"]
  /\ restarts = 0

----------------------------------------------------------------------------
(* The executor's lock is a tokio mutex: first come, first served.         *)

Holds(x) == lock # <<>> /\ Head(lock) = x

Join(x) == lock' = Append(lock, x)

Leave == lock' = Tail(lock)

(* Steps of a socket loop and of a task. *)

Handle(c, from, to) == conn[c] = from /\ conn' = [conn EXCEPT ![c] = to]

Advance(r, from, to) == task[r] = from /\ task' = [task EXCEPT ![r] = to]

runVars == <<creating, task, file, snap, produced, received, buffer, announced>>

----------------------------------------------------------------------------
(* The socket loop.                                                        *)

Open(c) ==
  /\ Handle(c, "closed", "loop")
  /\ UNCHANGED <<lock, runVars, restarts>>

\* A socket is only seen to be closed between two requests: the handlers are
\* awaited in the loop.
Close(c) ==
  /\ Handle(c, "loop", "closed")
  /\ UNCHANGED <<lock, runVars, restarts>>

\* `execute`: a new run id, then the wait for the executor's lock, which is
\* needed to take the environment snapshot.
Execute(c, r) ==
  /\ Handle(c, "loop", "env")
  /\ task[r] = "none"
  /\ \A d \in Conns : creating[d] # r
  /\ creating' = [creating EXCEPT ![c] = r]
  /\ Join(c)
  /\ UNCHANGED <<task, file, snap, produced, received, buffer, announced, restarts>>

EnvironmentSnapshot(c) ==
  /\ Holds(c)
  /\ Handle(c, "env", "create")
  /\ Leave
  /\ UNCHANGED <<runVars, restarts>>

\* create_run appends the queued record to the timeline.
CreateRun(c) ==
  LET r == creating[c] IN
  /\ Handle(c, "create", "accept")
  /\ Advance(r, "none", "created")
  /\ file' = [file EXCEPT ![r] = "queued"]
  /\ UNCHANGED <<creating, lock, snap, produced, received, buffer, announced, restarts>>

\* The append failed: the client gets an error and there is no run.
CreateRunFails(c) ==
  /\ Handle(c, "create", "loop")
  /\ creating' = [creating EXCEPT ![c] = NoRun]
  /\ UNCHANGED <<task, lock, file, snap, produced, received, buffer, announced,
                 restarts>>

\* RunAccepted reached the socket: the queued run is broadcast and its task
\* is spawned.
Accept(c) ==
  LET r == creating[c] IN
  /\ Handle(c, "accept", "loop")
  /\ Advance(r, "created", "spawned")
  /\ announced' = [announced EXCEPT ![r] = "queued"]
  /\ creating' = [creating EXCEPT ![c] = NoRun]
  /\ UNCHANGED <<lock, file, snap, produced, received, buffer, restarts>>

\* RunAccepted could not be sent: the loop ends and no task is spawned.
AcceptFails(c) ==
  LET r == creating[c] IN
  /\ Handle(c, "accept", "closed")
  /\ Advance(r, "created", "orphan")
  /\ creating' = [creating EXCEPT ![c] = NoRun]
  /\ UNCHANGED <<lock, file, snap, produced, received, buffer, announced, restarts>>

\* interrupt_execution, execute_tool and the environment queries wait for the
\* executor and hold it for the length of one call.
Call(c) ==
  /\ Handle(c, "loop", "call")
  /\ Join(c)
  /\ UNCHANGED <<runVars, restarts>>

CallReturns(c) ==
  /\ Holds(c)
  /\ Handle(c, "call", "loop")
  /\ Leave
  /\ UNCHANGED <<runVars, restarts>>

\* restart_session: reset R under the lock, then clear the stream buffer, then
\* empty the timeline.
Restart(c) ==
  /\ restarts < MaxRestarts
  /\ Handle(c, "loop", "restart")
  /\ Join(c)
  /\ restarts' = restarts + 1
  /\ UNCHANGED runVars

\* The reset may fail: the error is returned and nothing is cleared.
ResetSession(c) ==
  /\ Holds(c)
  /\ Leave
  /\ \/ Handle(c, "restart", "clear")
     \/ Handle(c, "restart", "loop")
  /\ UNCHANGED <<runVars, restarts>>

ClearBuffer(c) ==
  /\ Handle(c, "clear", "reset")
  /\ buffer' = [r \in Runs |-> <<>>]
  /\ UNCHANGED <<creating, task, lock, file, snap, produced, received, announced,
                 restarts>>

ResetTimeline(c) ==
  /\ Handle(c, "reset", "loop")
  /\ file' = NoFile
  /\ UNCHANGED <<creating, task, lock, snap, produced, received, buffer, announced,
                 restarts>>

----------------------------------------------------------------------------
(* The task of a run.                                                      *)

connVars == <<conn, creating, restarts>>

\* JsonTimeline::update, first half: read all records, without the mutex.
ReadRecords(r) == snap' = [snap EXCEPT ![r] = file]

\* Mutant: the update loses its filter on the event id.
WriteRecordsOfAllRuns(r, status) ==
  /\ snap' = [snap EXCEPT ![r] = NoFile]
  /\ file' = [q \in Runs |-> IF snap[r][q] = "none" THEN "none" ELSE status]

\* Second half: write back what was read with this run's record replaced, or
\* fail with "Event not found"; every caller here ignores the error.
WriteRecords(r, status) ==
  /\ snap' = [snap EXCEPT ![r] = NoFile]
  /\ file' = IF snap[r][r] = "none" THEN file ELSE [snap[r] EXCEPT ![r] = status]

UpdateRunning(r) ==
  /\ Advance(r, "spawned", "started")
  /\ ReadRecords(r)
  /\ UNCHANGED <<connVars, lock, file, produced, received, buffer, announced>>

RecordRunning(r) ==
  /\ Advance(r, "started", "announce")
  /\ WriteRecords(r, "running")
  /\ UNCHANGED <<connVars, lock, produced, received, buffer, announced>>

AnnounceRunning(r) ==
  /\ Advance(r, "announce", "waiting")
  /\ announced' = [announced EXCEPT ![r] = "running"]
  /\ Join(r)
  /\ UNCHANGED <<connVars, file, snap, produced, received, buffer>>

\* Mutant: the task does not wait for the executor's lock.
StartExecutionUnlocked(r) ==
  /\ Advance(r, "waiting", "exec")
  /\ UNCHANGED <<connVars, lock, file, snap, produced, received, buffer, announced>>

StartExecution(r) ==
  /\ Holds(r)
  /\ Advance(r, "waiting", "exec")
  /\ UNCHANGED <<connVars, lock, file, snap, produced, received, buffer, announced>>

\* R prints: on_chunk sends a chunk into output_tx.
ProduceChunk(r) ==
  /\ task[r] = "exec"
  /\ produced[r] < MaxChunks
  /\ produced' = [produced EXCEPT ![r] = @ + 1]
  /\ UNCHANGED <<connVars, task, lock, file, snap, received, buffer, announced>>

\* Mutant: the receiver yields a chunk although the channel is empty.
TakeChunkFromEmptyChannel(r) ==
  /\ received' = [received EXCEPT ![r] = @ + 1]
  /\ buffer' = [buffer EXCEPT ![r] = Append(@, received[r] + 1)]
  /\ UNCHANGED <<connVars, lock, file, produced, announced>>

\* Mutant: the buffer keeps the newest chunk first.
TakeChunkInFront(r) ==
  /\ received[r] < produced[r]
  /\ received' = [received EXCEPT ![r] = @ + 1]
  /\ buffer' = [buffer EXCEPT ![r] = <<received[r] + 1>> \o @]
  /\ UNCHANGED <<connVars, lock, file, produced, announced>>

\* A chunk is taken out of output_rx, appended to the stream buffer and
\* broadcast.
TakeChunk(r) ==
  /\ received[r] < produced[r]
  /\ received' = [received EXCEPT ![r] = @ + 1]
  /\ buffer' = [buffer EXCEPT ![r] = Append(@, received[r] + 1)]
  /\ UNCHANGED <<connVars, lock, file, produced, announced>>

StreamChunk(r) ==
  /\ TakeChunk(r)
  /\ task[r] = "exec"
  /\ UNCHANGED <<task, snap>>

\* At most every 250 ms the output so far is persisted; the executor's future
\* is not polled meanwhile.
StreamChunkAndPersist(r) ==
  /\ TakeChunk(r)
  /\ Advance(r, "exec", "persist")
  /\ ReadRecords(r)

PersistOutput(r) ==
  /\ Advance(r, "persist", "exec")
  /\ WriteRecords(r, "running")
  /\ UNCHANGED <<connVars, lock, produced, received, buffer, announced>>

\* Mutant: the guard on the lock outlives the executor's future.
EndExecutionKeepingLock(r) ==
  /\ Advance(r, "exec", "drain")
  /\ UNCHANGED <<connVars, lock, file, snap, produced, received, buffer, announced>>

\* The executor's future is ready, with a result or an error; its guard on the
\* lock goes with it.  Chunks may still be queued in output_rx.
EndExecution(r) ==
  /\ Advance(r, "exec", "drain")
  /\ Leave
  /\ UNCHANGED <<connVars, file, snap, produced, received, buffer, announced>>

DrainChunk(r) ==
  /\ TakeChunk(r)
  /\ task[r] = "drain"
  /\ UNCHANGED <<task, snap>>

\* Mutant: the run is finished without draining output_rx.
DrainSkipped(r) ==
  /\ Advance(r, "drain", "finish")
  /\ UNCHANGED <<connVars, lock, file, snap, produced, received, buffer, announced>>

Drained(r) ==
  /\ Advance(r, "drain", "finish")
  /\ received[r] = produced[r]
  /\ UNCHANGED <<connVars, lock, file, snap, produced, received, buffer, announced>>

FinishRun(r) ==
  /\ Advance(r, "finish", "finishing")
  /\ ReadRecords(r)
  /\ UNCHANGED <<connVars, lock, file, produced, received, buffer, announced>>

RecordFinished(r) ==
  /\ Advance(r, "finishing", "cleanup")
  /\ WriteRecords(r, "finished")
  /\ UNCHANGED <<connVars, lock, produced, received, buffer, announced>>

RemoveRun(r) ==
  /\ Advance(r, "cleanup", "report")
  /\ buffer' = [buffer EXCEPT ![r] = <<>>]
  /\ UNCHANGED <<connVars, lock, file, snap, produced, received, announced>>

AnnounceFinished(r) ==
  /\ Advance(r, "report", "done")
  /\ announced' = [announced EXCEPT ![r] = "finished"]
  /\ UNCHANGED <<connVars, lock, file, snap, produced, received, buffer>>

----------------------------------------------------------------------------
ConnStep(c) ==
  \/ EnvironmentSnapshot(c) \/ CreateRun(c) \/ CreateRunFails(c)
  \/ Accept(c) \/ AcceptFails(c) \/ CallReturns(c)
  \/ ResetSession(c) \/ ClearBuffer(c) \/ ResetTimeline(c)

Request(c) ==
  \/ Open(c) \/ Close(c) \/ Call(c) \/ Restart(c)
  \/ \E r \in Runs : Execute(c, r)

\* What the task does by itself once it is scheduled.
TaskStep(r) ==
  \/ UpdateRunning(r) \/ RecordRunning(r) \/ AnnounceRunning(r)
  \/ StartExecution(r) \/ PersistOutput(r)
  \/ StreamChunk(r) \/ StreamChunkAndPersist(r)
  \/ DrainChunk(r) \/ Drained(r) \/ FinishRun(r) \/ RecordFinished(r)
  \/ RemoveRun(r) \/ AnnounceFinished(r)

Next ==
  \/ \E c \in Conns : Request(c) \/ ConnStep(c)
  \/ \E r \in Runs : TaskStep(r) \/ ProduceChunk(r) \/ EndExecution(r)

Spec == Init /\ [][Next]_vars

(***************************************************************************)
(* Handlers and tasks are scheduled by tokio and their locks are fair; R   *)
(* is assumed to end every run (it does, or the runner's read timeout      *)
(* makes the executor return an error).  Clients owe nothing.              *)
(***************************************************************************)
Fairness ==
  /\ \A c \in Conns : WF_vars(ConnStep(c))
  /\ \A r \in Runs : WF_vars(TaskStep(r)) /\ WF_vars(EndExecution(r))

FairSpec == Spec /\ Fairness

----------------------------------------------------------------------------
Executing(r) == task[r] \in {"exec", "persist"}

(***************************************************************************)
(* The refinement of RunProtocol: what R did with a run is read off the    *)
(* task, the chunks broadcast are the chunks received.                     *)
(***************************************************************************)
Session(r) ==
  CASE Executing(r) -> "busy"
    [] task[r] \in {"drain", "finish", "finishing", "cleanup", "report", "done"} -> "over"
    [] OTHER -> "waiting"

Protocol == INSTANCE RunProtocol WITH
  sent <- received,
  session <- [r \in Runs |-> Session(r)]

(***************************************************************************)
(* The server keeps its promise to the clients, whatever is interleaved.   *)
(***************************************************************************)
ImplementsProtocol == Protocol!Spec

(***************************************************************************)
(* Two runs never share the R session: a run that executes holds the       *)
(* executor's lock (spawn_execution_task, executor_fut).                   *)
(***************************************************************************)
ExecutorExclusive ==
  /\ \A r \in Runs : Executing(r) => Holds(r)
  /\ \A r, q \in Runs : Executing(r) /\ Executing(q) => r = q

(***************************************************************************)
(* What run_query would replay for a live run out of the stream buffer is  *)
(* the tail of what was broadcast, with no gap, no repetition and nothing  *)
(* reordered, and is empty once the run is reported: also when a restart   *)
(* of another client clears the buffer while the run is streaming.         *)
(***************************************************************************)
BufferIsRecentOutput ==
  \A r \in Runs :
    /\ \A i \in 1 .. Len(buffer[r]) :
         buffer[r][i] = received[r] - Len(buffer[r]) + i
    /\ task[r] \notin {"exec", "persist", "drain", "finish", "finishing", "cleanup"}
         => buffer[r] = <<>>

\* A record with this status would be ahead of its run.
Ahead(r, status) ==
  \/ status # "none" /\ task[r] = "none"
  \/ status = "running" /\ task[r] \in {"created", "orphan", "spawned", "started"}
  \/ status = "finished" /\ task[r] \notin {"cleanup", "report", "done"}

(***************************************************************************)
(* The timeline never runs ahead of a run: whatever stale records an       *)
(* update writes back, no record says running before the run's task took   *)
(* it up, and none says finished before R is done with it.                 *)
(***************************************************************************)
RecordsNeverAhead ==
  \A r \in Runs : ~Ahead(r, file[r]) /\ \A q \in Runs : ~Ahead(r, snap[q][r])

(***************************************************************************)
(* README.md promises a complete execution history.  As long as no one     *)
(* asked for a restart, a run that was reported to the clients as finished *)
(* has a finished record in the timeline.                                  *)
(***************************************************************************)
HistoryIsComplete ==
  restarts = 0 =>
    \A r \in Runs : announced[r] = "finished" => file[r] = "finished"

(***************************************************************************)
(* Every run the client was told is accepted is eventually reported as     *)
(* finished.                                                               *)
(***************************************************************************)
AcceptedRunsFinish ==
  \A r \in Runs : announced[r] = "queued" ~> announced[r] = "finished"
=============================================================================
