-------------------------------- MODULE RunView --------------------------------
(***************************************************************************)
(* What a client shows of the project's runs: the tasks that run them, the *)
(* runtime's broadcast and run_query on the server (handlers/mod.rs), and  *)
(* the client's run list (executionSlice.ts) behind its socket.            *)
(*                                                                         *)
(* Events wait in the socket's broadcast receiver, an answer goes out at   *)
(* once: it overtakes events that were sent before it was computed.  The   *)
(* answer itself is computed in two steps, the records first.  The list's  *)
(* pending and the task's two states before the end are not told apart: a  *)
(* summary is pending when the run is queued or running.                   *)
(***************************************************************************)
EXTENDS Naturals, Sequences, SequencesExt, FiniteSets, FiniteSetsExt

CONSTANTS
    ViewedRuns,
    RunLimit,       \* limit of a run_query: 50 for the client
    MaxOutput,      \* bound: output chunks of a run
    EventBuffer,    \* capacity of run_events: a slower socket loses the oldest
    MaxConnections, \* bound: times the client connects again
    MaxMishaps      \* bound: records not written, or put back, and timelines not read

ASSUME RunViewAssumption ==
    /\ RunLimit \in Nat \ {0} /\ MaxOutput \in Nat /\ EventBuffer \in Nat \ {0}
    /\ MaxConnections \in Nat /\ MaxMishaps \in Nat /\ IsFiniteSet(ViewedRuns)

VARIABLES
    task,       \* per run, how far its handler or task is
    record,     \* per run: its status in the timeline and the chunks persisted with it
    produced,   \* per run: how many chunks it has had
    buffered,   \* stream_buffer: per run, the chunks for a replay
    receiver,   \* the socket's run_event_rx, oldest event first
    asking,     \* run_query requests on their way
    queried,    \* the answer run_query works on: [pc, records, latest]
    view,       \* the client's list: per run, the status and the set of chunks shown
    undone,     \* history: runs whose record another run's update has put back
    complete,   \* history: the runs whose every event the client was sent and kept
    current,    \* history: no event was lost since the records were last read for a query
    connections, mishaps

viewVars == <<task, record, produced, buffered, receiver, asking, queried, view, undone,
              complete, current, connections, mishaps>>

NoRecord == [status |-> "none", chunks |-> {}]
Unseen == [status |-> "unknown", chunks |-> {}]

NothingRead == [pc |-> "idle", records |-> [r \in ViewedRuns |-> NoRecord], latest |-> {}]

\* The client has opened a project without runs.
ViewInit ==
    /\ task = [r \in ViewedRuns |-> "none"]
    /\ record = [r \in ViewedRuns |-> NoRecord]
    /\ produced = [r \in ViewedRuns |-> 0]
    /\ buffered = [r \in ViewedRuns |-> {}]
    /\ receiver = <<>>
    /\ asking = 0
    /\ queried = NothingRead
    /\ view = [r \in ViewedRuns |-> Unseen]
    /\ undone = {}
    /\ complete = ViewedRuns
    /\ current = TRUE
    /\ connections = 0
    /\ mishaps = 0

-----------------------------------------------------------------------------
(* The server.                                                             *)

\* run_events.send to the socket: one that is EventBuffer events behind loses the
\* oldest and is not told (RecvError::Lagged).
SendEvent(kind, r, chunk) ==
    LET sent == Append(receiver, [kind |-> kind, run |-> r, chunk |-> chunk])
        lagged == Len(sent) > EventBuffer
    IN  /\ receiver' = IF lagged THEN Tail(sent) ELSE sent
        /\ complete' = IF lagged THEN complete \ {Head(sent).run} ELSE complete
        /\ current' = (current /\ ~lagged)

serverVars == <<task, record, produced, buffered, undone, mishaps>>
clientVars == <<asking, queried, view, connections>>
eventVars == <<receiver, complete, current>>

InTimeline == {r \in ViewedRuns : record[r].status # "none"}

Mishap == mishaps < MaxMishaps /\ mishaps' = mishaps + 1

\* update_run and finish_run; nobody asks whether they found and wrote the record.
Rewrite(r, status, chunks) ==
    \/ /\ r \in InTimeline
       /\ record' = [record EXCEPT ![r] = [status |-> status, chunks |-> chunks]]
       /\ UNCHANGED mishaps
    \/ r \notin InTimeline /\ UNCHANGED <<record, mishaps>>
    \/ r \in InTimeline /\ Mishap /\ UNCHANGED record

\* create_run.
CreateRun(r) ==
    /\ task[r] = "none"
    /\ task' = [task EXCEPT ![r] = "created"]
    /\ record' = [record EXCEPT ![r].status = "queued"]
    /\ UNCHANGED <<produced, buffered, undone, mishaps, eventVars, clientVars>>

\* RunAccepted cannot be sent: nobody runs it, and its record stays.
AcceptFails(r) ==
    /\ task[r] = "created"
    /\ task' = [task EXCEPT ![r] = "orphan"]
    /\ UNCHANGED <<record, produced, buffered, undone, mishaps, eventVars, clientVars>>

\* RunStarted, of a queued run.
AnnounceQueued(r) ==
    /\ task[r] = "created"
    /\ task' = [task EXCEPT ![r] = "queued"]
    /\ SendEvent("started", r, 0)
    /\ UNCHANGED <<record, produced, buffered, undone, mishaps, clientVars>>

\* The task begins: RunStarted again.
StartRun(r) ==
    /\ task[r] = "queued"
    /\ task' = [task EXCEPT ![r] = "running"]
    /\ Rewrite(r, "running", {})
    /\ SendEvent("started", r, 0)
    /\ UNCHANGED <<produced, buffered, undone, clientVars>>

\* A chunk is buffered and sent; its record may be persisted with it.
Output(r) ==
    /\ task[r] = "running"
    /\ produced[r] < MaxOutput
    /\ LET n == produced[r] + 1
       IN  /\ produced' = [produced EXCEPT ![r] = n]
           /\ buffered' = [buffered EXCEPT ![r] = @ \cup {n}]
           /\ SendEvent("output", r, n)
           /\ Rewrite(r, "running", 1..n) \/ UNCHANGED <<record, mishaps>>
    /\ UNCHANGED <<task, undone, clientVars>>

\* finish_run with all the output, and remove_run from the buffer, also when the record
\* could not be written.
Finish(r) ==
    /\ task[r] = "running"
    /\ task' = [task EXCEPT ![r] = "recorded"]
    /\ Rewrite(r, "finished", 1..produced[r])
    /\ buffered' = [buffered EXCEPT ![r] = {}]
    /\ UNCHANGED <<produced, undone, eventVars, clientVars>>

\* RunFinished.
AnnounceRunFinished(r) ==
    /\ task[r] = "recorded"
    /\ task' = [task EXCEPT ![r] = "finished"]
    /\ SendEvent("finished", r, 0)
    /\ UNCHANGED <<record, produced, buffered, undone, mishaps, clientVars>>

EarlierStatuses == [none |-> {}, queued |-> {"none"}, running |-> {"none", "queued", "running"},
           finished |-> {"none", "queued", "running"}]

\* The update of another run writes back the record as it was when that update read the file.
UndoRecord(r) ==
    /\ Mishap
    /\ \E other \in ViewedRuns \ {r} : task[other] \in {"queued", "running"}
    /\ \E status \in EarlierStatuses[record[r].status], n \in 0..MaxOutput :
           /\ 1..n \subseteq record[r].chunks /\ (status # "running" => n = 0)
           /\ record' = [record EXCEPT ![r] = [status |-> status, chunks |-> 1..n]]
    /\ undone' = undone \cup {r}
    /\ UNCHANGED <<task, produced, buffered, eventVars, clientVars>>

-----------------------------------------------------------------------------
(* run_query.                                                              *)

\* The socket's loop takes a request and reads the latest records: those with the largest
\* created_at_ms, which a run gets at its start and at its end.
RunQuery ==
    /\ queried.pc = "idle" /\ asking > 0
    /\ asking' = asking - 1
    /\ \E latest \in SUBSET InTimeline :
           /\ \/ latest = InTimeline /\ Cardinality(latest) <= RunLimit
              \/ Cardinality(latest) = RunLimit
           /\ queried' = [pc |-> "answer", records |-> record, latest |-> latest]
    /\ current' = TRUE
    /\ UNCHANGED <<serverVars, receiver, view, complete, connections>>

\* The timeline cannot be read: the client is told, and asks no more.
RunQueryFails ==
    /\ queried.pc = "idle" /\ asking > 0
    /\ asking' = asking - 1
    /\ Mishap
    /\ UNCHANGED <<task, record, produced, buffered, undone, eventVars, queried, view,
                   connections>>

ShownStatus(status) == IF status = "finished" THEN status ELSE "pending"

\* run_output_chunks_from_event, or the stream buffer for a run that is not over; by
\* now it may have been emptied, then what was persisted has to do.
Replay(r) ==
    IF queried.records[r].status # "finished" /\ buffered[r] # {}
    THEN buffered[r] ELSE queried.records[r].chunks

\* The client's list becomes the runs of the answer, with the given chunks.
ShowAnswer(chunks) ==
    /\ queried.pc = "answer"
    /\ view' = [r \in ViewedRuns |->
                    IF r \notin queried.latest THEN Unseen
                    ELSE [status |-> ShownStatus(queried.records[r].status),
                          chunks |-> chunks[r]]]
    /\ queried' = [NothingRead EXCEPT !.latest = queried.latest]
    /\ complete' = {r \in complete : r \in queried.latest \/ view[r] = Unseen}
    /\ UNCHANGED <<serverVars, receiver, asking, current, connections>>

\* Mutant: the client takes the answer for all there is.
build_run_state_forgetting == ShowAnswer([r \in ViewedRuns |-> Replay(r)])

\* build_run_state_responses, and what the client makes of them: applyRunState keeps
\* the output it shows of a run, applyRunOutput adds the replayed chunks, and a run
\* the answer does not have is gone.
build_run_state_responses ==
    ShowAnswer([r \in ViewedRuns |-> view[r].chunks \cup Replay(r)])

\* The connection breaks and the client connects again: the events of the old receiver are
\* lost, and so are its requests; it sends one when the socket is open and one when the
\* project is.  The server sends ProjectOpened on every connection; the
\* client empties its list on it.
Reconnect ==
    /\ connections < MaxConnections
    /\ connections' = connections + 1
    /\ receiver' = <<>>
    /\ asking' = 2
    /\ queried' = NothingRead
    /\ view' = [r \in ViewedRuns |-> Unseen]
    /\ complete' = {r \in ViewedRuns : task[r] \in {"none", "created"}}
    /\ current' = FALSE
    /\ UNCHANGED serverVars

-----------------------------------------------------------------------------
(* The client.                                                             *)

\* applyRunStarted replaces the run's entry, applyRunOutput adds to an entry and does
\* nothing without one, applyRunFinished keeps the entry's output or adds an entry.
ReceiveEvent ==
    /\ queried.pc = "idle"
    /\ receiver # <<>>
    /\ LET event == Head(receiver)
           old == view[event.run]
       IN  view' = [view EXCEPT ![event.run] =
                CASE event.kind = "started" -> [status |-> "pending", chunks |-> {}]
                  [] event.kind = "output" /\ old # Unseen ->
                        [old EXCEPT !.chunks = @ \cup {event.chunk}]
                  [] event.kind = "finished" -> [old EXCEPT !.status = "finished"]
                  [] OTHER -> old]
    /\ receiver' = Tail(receiver)
    /\ UNCHANGED <<serverVars, asking, queried, complete, current, connections>>

ViewNext ==
    \/ \E r \in ViewedRuns :
           \/ CreateRun(r) \/ AcceptFails(r) \/ AnnounceQueued(r) \/ StartRun(r) \/ Output(r)
           \/ Finish(r) \/ AnnounceRunFinished(r) \/ UndoRecord(r)
    \/ RunQuery \/ RunQueryFails \/ build_run_state_responses \/ Reconnect \/ ReceiveEvent

ViewSpec == ViewInit /\ [][ViewNext]_viewVars

-----------------------------------------------------------------------------
(* Properties.                                                             *)

ViewQuiet == receiver = <<>> /\ asking = 0 /\ queried.pc = "idle"

\* The run was not among the latest ones when the client asked.
LeftOut(r) == r \notin queried.latest /\ Cardinality(queried.latest) = RunLimit

\* handlers/mod.rs:162, executionSlice.ts: no run is shown as over that is not. Once the
\* client has received what is under way and lost no event since it last asked, it shows
\* every run that was announced, unless more than the limit are recorded: as pending until
\* it is over, and then as over if the record says so - but for runs whose record another
\* run's update has put back. It shows all the output of a run none of whose events it
\* lost, but for those of which an answer took the run away.
ViewCatchesUp ==
    /\ \A r \in ViewedRuns :
           view[r].status = "finished" => task[r] \in {"recorded", "finished"}
    /\ ViewQuiet => \A r \in ViewedRuns :
           /\ current /\ r \notin undone /\ ~(view[r] = Unseen /\ LeftOut(r)) =>
                  /\ task[r] \in {"queued", "running"} => view[r].status = "pending"
                  /\ task[r] = "finished" =>
                        /\ view[r] # Unseen
                        /\ record[r].status = "finished" => view[r].status = "finished"
           /\ r \in complete => view[r].chunks = 1..produced[r]
=============================================================================
