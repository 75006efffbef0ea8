# Re-prod: a TLA+ verification project

Re-prod is an IDE for R with AI agents. Its Rust workspace runs R, keeps the
history of what was run, mediates edits that agents propose, and serves all of
it to a TypeScript client over WebSockets. This directory holds TLA+ models of
its parts, first of those where several actors meet, the TLC configurations
that check them, and proofs, checked by TLAPS, of what matters most.

Contents

1. The system and its parts
2. The modules, and how they correspond to the code
3. The runs
4. What the code does not keep (findings)
5. Fairness
6. Proofs
7. Abstractions and what is not modelled
8. Plan

## 1. The system and its parts

Paths are relative to the repository. `PROJECT.json` lists all components with
their status, and every hazard with its line; this is the overview.

| part | state it keeps | operations | with whom it interacts |
|---|---|---|---|
| Socket loop (`server/src/handlers/mod.rs`) | current runtime, event receivers | one request at a time, handlers awaited in place; streamed AI messages are spawned | executor lock, event broadcast |
| Run task (`spawn_execution_task`) | status, output so far, `output_rx` | update, execute, stream, drain, finish | executor lock, stream buffer, timeline, broadcast |
| Session restart (`session_handler.rs`) | none | reset R, clear buffer, empty timeline | executor lock, then buffer and timeline without it |
| Stream buffer (`stream_buffer.rs`) | chunks per run | append, get, remove, clear | run task, restart, `run_query` |
| Timeline (`core/src/timeline/json.rs`) | NDJSON file, append handle, mutex | record, update, reset, read | execution repository, restart, queries |
| R runner (`core/src/executor/command_runner.rs`) | R process, its three pipes, `interrupted` | run, run_streaming, interrupt; reset in `r_executor.rs` | everything that needs R, under the executor lock |
| Pending edits (`server/src/pending_edits.rs`, `core/src/acp/pending_edit.rs`, `core/src/edit.rs`) | three maps per store, two stores; the files | propose, update, reject, accept | agents, user, every other writer of a file |
| ACP channel (`acp_handler.rs`, `server/src/acp.rs`, `core/src/acp`) | agent process, sessions, streams, the gateway's mutex, the connection's queue | message, prompt, cancel, translate updates | agent process, every socket |
| ACP permissions (`acp/client.rs`) | pending requests, trust of the session and on disk | ask, show, answer, time out, remember | agent, every client |
| AI agent loop (`ai_handler.rs`, `tool_handler.rs`) | stream, plan, tool log | provider call, tools, approvals, cancel | approval manager, cancel tokens, executor, edits |
| Approvals (`approval_manager.rs`) | pending decisions, allow lists, cancel tokens | register, resolve, allow, cancel | agent loop, client |
| Plot history (`core/src/plot_history`) | list, active index, image files, `plots.json` | add, select, delete, clear, restore | run, client |
| Projects (`projects.rs`, `project_requests.rs`) | runtimes by path, config files | open, create, switch | every socket |
| Settings (`config/mod.rs`) | `auth.json` in three places, one shared configuration | load, set, save | openings of projects, routes |
| Agent installation (`core/src/acp`: `config`, `detection`, `download`) | `acp.json` in two places, cache of binaries | detect, download, set, launch | routes, ACP channel |
| Queries and export (`api/timeline.rs`, `core/src/export`) | none; documents and archives | filter, page, count; render, pack, validate | timeline, plots, panel |
| Text (`ai/code_blocks.rs`, `block_segmenter.rs`, `edit.rs`, `diff.rs`) | none | extract blocks, apply range edits, number changes | agents, runs, review |
| Files (`fs.rs`, `runtime_fs.rs`) | the project's folder | list, create, move, copy, delete, watch | file browser |
| Client views (`executionSlice.ts`, `timelineSlice.ts`, `fileSystemStore.ts`) | list of runs, page of the history, tree of files | events, answers, reconnects | server |

Which behaviours are hard here:

* *Concurrency.* Any number of sockets, run tasks and agent tasks share one R
  process per project behind one lock, and share the stream buffer, the
  timeline and the pending edits behind locks that are each held for single
  calls only. Many operations are a read under (or without) a lock, an await,
  and a write.
* *Failure.* R may die, hang or ignore a signal; the server may crash in the
  middle of rewriting the timeline; I/O errors are ignored by several callers.
* *Ordering.* Two pipes of one process, a channel of chunks next to the future
  that fills it, broadcast events next to records on disk.
* *Timeouts.* 60 s of silence ends a script but not R's work on it; a
  permission request falls back after 30 s while its answer is under way.
* *Answers out of date.* The client applies answers to whatever it shows by
  then, next to events that overtake them or are overtaken.

What makes each part correct, in one line: one run at a time in R; all output
before "finished"; every accepted run finishes; the history keeps what was
run; a script is given its own output, and an interrupt stops what it was
meant for; an accepted edit replaces the text it was made for and nothing
else; a resolved edit stays resolved; what needs a user's consent has it; a
client shows in the end what the server has; what was saved stays saved.

## 2. The modules, and how they correspond to the code

    RunProtocol          what a client may rely on (abstract)
      ^ implemented by
    RunLifecycle         sockets, run tasks, executor lock, buffer, broadcast
      MCRunLifecycle     TLC's instance
      RunLifecycleProofs theorems
    Timeline             the timeline file, in steps of single writes
      MCTimeline         TLC's instances of Timeline, RunView and TimelineView
      TimelineProofs     theorems of Timeline, Export and TimelineView
    PersistentR          R, its pipes, the runner and the interrupted flag
      MCPersistentR
      PersistentRProofs  theorems
    PendingEdits         two stores of edits, accepts, other writers of the file
      MCPendingEdits
      PendingEditsProofs theorems of PendingEdits and EditText
    AgentLoop            tool loop, approvals, allow lists, cancel tokens
      MCAgentLoop
      AgentLoopProofs    theorems
    TimelineQueries      filters, order, pages, statistics (operators only)
      ^ used by TimelineView and Export
    EditText             range edits, line changes, review
      MCEditText         the instance of the violation run
    RunView, TimelineView
                         what a client shows of the runs and of the history
    AcpChannel, AcpPermission, PlotHistory, Projects, Export, CodeBlocks,
    FileTree, AgentSetup, Settings
      MCServices         TLC's instances of these nine and of EditText
      AcpProofs          theorems of AcpPermission, AcpChannel and AgentSetup
      ProjectsProofs     theorems of Projects, Settings and PlotHistory
      ClientProofs       theorems of RunView and FileTree

Each of the first four detailed modules zooms in on what its neighbours treat as
one step: `RunLifecycle` sees the timeline as a function from runs to statuses
with an unlocked read and a later write, and R as something that produces
chunks and ends; `Timeline` and `PersistentR` open these up.

**RunLifecycle.** `conn[c]` is the point at which the loop of socket `c` is
suspended (`"env"`: waiting for the executor to take the environment snapshot,
`"create"`: in `create_run`, `"accept"`: sending `RunAccepted`, `"call"`: any
handler that holds the executor for one call, `"restart"`, `"clear"`,
`"reset"`: the three parts of `handle_restart`). `task[r]` is the same for the
spawned task of run `r`; `"exec"` is the `select!` loop, `"persist"` the
`update_run` inside it, `"orphan"` a run whose `RunAccepted` could not be sent.
`lock` is the FIFO of the tokio mutex, holder first. `file` is the status on
disk of each record, `snap[r]` what the task of `r` has read and is about to
write back. `produced` counts chunks sent into `output_tx`, `received` those
taken out of it, which are appended to the buffer and broadcast in the same
step; `announced` is the last of `RunStarted` (queued), `RunStarted` (running)
and `RunFinished` broadcast. `Succeeded` and `Failed` are both `"finished"`.
AI tools that run R are calls that hold the executor like those of a socket.

**RunProtocol** states the promise: announcements in order, one run in R at a
time and only after it was announced as running, output only between running
and finished, and finished only after all output. The refinement maps the
broadcast chunks to `received` and R's part to the task's state
(`RunLifecycle!Session`).

**Timeline.** `lines` and `unended` are the file; a line that does not parse is
`Garbage`. `record` is two writes (the line, its newline) under the mutex;
`update` reads without it (`UpdateRead`), then takes it, drops the handle and
truncates (`Truncate`), flushes pieces that may end anywhere (`Flush`) and
opens the handle again (`FinishRewrite`). Each step may fail, and the server
may crash between any two. `RecordSkipped` is `record` without a handle: it
returns Ok.

**PersistentR.** Requests queue on the executor lock. `stdin`, `block`,
`stdout` and `stderr` are R and its pipes, where every line and delimiter
carries the script it stems from, which the runner cannot see. The runner
reads either pipe until it meets a delimiter, whosever it is. A read may fail
(`ReadFails`: a line that is not UTF-8, or an I/O error): the error ends the
script at once and leaves the rest of its output and its delimiter in the pipes,
as a timeout does (`Abandoned` are the scripts given up in either way). `Sigint` may be
ignored, abandon the evaluation together with its delimiter, or end R.
`printed`, `raised` and `target` are ghosts: what R really did, and what was
running when an interrupt was requested.

**PendingEdits.** One file with its text, or missing. `proposal` and `draft`
follow the two ways an edit is proposed (the API agents' tool previews the
file; the ACP client looks at the session's overlay, then previews that or the
file) up to `register_pending_edit`. `byId`, `byFile`, `overlays` are the three
maps of both stores. `accept`, `taken` and `copy` are the calls of
`accept_pending_edit`: copy out of the store, compare with the base, read
again and compare with the expected hash, truncate, write, remove.
`disturbed[a]` is a ghost: somebody else wrote the file since `a` last read it.

**AgentLoop.** One task per message. `task[t].pc` is the next step of
`handle_ai_message`: plan, provider call, each call of the turn with its allow
lists (read from disk without the lock, stored later), the request shown, the
approval registered after it, the wait, the saved rule, the tool. `token` and
`wait` are the cancel token, with the gap between looking at the flag and
listening: a cancel in it wakes nobody. `granted` is a ghost: the rules a user
ever approved for a session, and those the file began with.

**AcpChannel.** `mail[m]` is the task of a message: find or create the
conversation's session (under the map's lock), map the stream, prompt.
`gateway` is the mutex of `AcpService`, held across `create_session` and
`cancel`; `requests` and `serving` are the connection's loop, one request at a
time. `Done` comes by the prompt's task, chunks by the forwarder. Every socket
translates every update in two steps (look the stream up; append or complete).

**AcpPermission.** One task per request of the agent. Everything about a
request is kept by its tool call's id: `pending_permissions` keeps one channel
per call, so a second request of the call replaces the first, and
`acp_permission_requests` and `decision_meta` are the handlers' maps. Only trust
is kept by a key, and the key is made of the kind and the first location that
the request itself names (`KeyOf` of a request, not of a call), so two requests
of one call may differ in it. `screen[c]` is what a client shows. `said` is a
ghost: every decision a user made for a tool call.

**PlotHistory.** The manager is behind one mutex: `operation` is the one under
way, in steps of single writes. `images` are the files, `plotsJson` the list on
disk. The server may be killed at any step and restores from what is there.

**Projects.** `window[w].pc` is the step of a socket's request through
`runtime_for_path`: look the folder up, find or create its config, lock again
and insert. **Settings** has the other half of the same calls: the
configuration loaded before the locks and published after them.

**RunView.** The server of `RunLifecycle` reduced to its events and records. A
record may fail to be written, which nobody notices, or be put back by the
update of another run (`UndoRecord`, the ghost `undone`); a run whose
`RunAccepted` cannot be sent leaves its record as it is (`AcceptFails`).
`receiver` is the socket's bounded broadcast receiver. An answer to `run_query`
has the latest runs up to `RunLimit` (50), is computed in two reads (`queried` is
what the first one found) and replaces the client's list, so a run that it
does not have is gone from it. `Reconnect` loses the events of the old receiver
and the requests; the server's `ProjectOpened` empties the list, and the client
asks twice. The ghosts `current` and `complete` say what was lost on the way.

**TimelineView** pages through a history that grows and changes. A run's record
is appended at its start (`StoreRun`), rewritten in its place while it runs and at
its end (`UpdateRun`, `FinishRun`), when its time becomes that of the end, so it
moves between pages. A live event follows only some ends, and a slow socket may
lose it (`LoseLive`). The socket answers in order and sends events in between.
An answer names no request: the oldest request that the client still waits for
takes it. Once a request was given up (`GiveUpRequest`: ten seconds, or an error
message meant for another request), its answer is taken for that of the next
one; `late` counts the answers too many, and they shift until one finds nobody
waiting. `disturbed` is a ghost: the history changed, a live event came, or a
request was given up or took another's answer, since the first page was asked for.

Both `TimelineView` and `Export` extend **TimelineQueries**, which are operators
over a sequence of records. A sort or a filter there says who comes before whom,
and the list is the one in which everybody has as many before him as his rank
says (`InOrder`, `Chosen`): a stable sort, without a loop.

**Export.** A document is the sequence of its parts, an archive the files and
metadata it was given. The request, the history it was read from and the plots
that are gone by the time of writing are chosen by TLC.

**CodeBlocks.** A text grows by pieces that are kinds of lines; a line stands
for its number, so a block's code is a sequence of numbers. The fences of JSON,
of `r` and of `R` are scanned one kind after another over the whole text and
their blocks are chained, so a fence of one kind may lie in one of another; a
list of JSON, or its `codeBlocks`, makes several blocks of one fence. **EditText** has
texts of characters with a line feed; an edit goes from proposal to review to
file.

**FileTree.** `tree` is the folder, `raw` what the operating system told the
watcher, `arriving` the socket's events and answers, `shown` the children the
client has loaded, `awaited` and `refreshing` its calls under way. A listing may
fail, or be given up after ten seconds (`TimeoutList`), and then the folder keeps
the children it had; the answer is ignored when it comes, unless a later request
for the folder waits and takes it. `givenUp` is a ghost: the folders that the
client failed to list and has not listed since.

**AgentSetup.** `call[c]` walks through the search of all agents (path, cache,
release, download, copy) for a request or a launch, nothing locks the files;
`told` and `shadowed` are ghosts: what the user was last told is set, and that
it was saved where another file hides it.

**MCServices** is a sum: these ten services share no state, so one of them moves
in a behaviour and the reachable states are those of each by itself. One run of
the sum checks them all; each property looks at one service. **MCTimeline** is
such a sum as well, of the file, the run list and the panel.

## 3. The runs

| run | instance | what it shows | states |
|---|---|---|---|
| `run_lifecycle` | 2 runs, 2 sockets, 2 chunks each, 1 restart | invariants and the refinement of `RunProtocol` | 671,652 |
| `run_liveness` | 2 runs, 2 sockets, 1 chunk each, 1 restart, fair | `AcceptedRunsFinish` | 206,576 |
| `run_history_lost` | 2 runs, no restart | violation: a lost update | |
| `timeline` | the file: 2 runs, 2 resets, 2 I/O errors, 2 crashes; the run list: 2 runs, an answer of 1, a receiver of 2 events, 1 mishap, 1 reconnect, symmetric; the panel: a history of 2, pages of 1, 1 change of the query, 1 request that fails or is given up | the file's order, soundness at rest, permanence of damage; that the run list and the panel catch up | 987,692 |
| `r_process` | 2 scripts, 1 restart, 1 interrupt, 1 line each, symmetric | output, stale output, victims of interrupts | 3,816,016 |
| `r_liveness` | 1 script, 1 restart, 1 interrupt, fair | `AllAnswered` | 33,182 |
| `r_interrupt` | 2 scripts, 1 interrupt | violation: the wrong run is interrupted | |
| `pending_edits` | 2 API edits, 1 ACP edit, 2 accepts, 2 texts, symmetric | the stores, the accept, no resurrection | 1,097,251 |
| `pending_edit_lost_save` | 1 edit of each kind | violation: a save is overwritten | |
| `agent_loop` | 2 messages, 2 calls per turn, 2 turns, plan of 2 steps, 1 restart, fair | approvals, plan, tools, `RequestEnds` | 109,011 |
| `services` | the ten instances of `MCServices` | 15 invariants and 1 action property, see below | 2,049,470 |
| `review_lost_lines` | a file of 3 lines, its second replaced | violation: the accepted file is not the edit's | |

The properties:

* `ExecutorExclusive`: a run that executes holds the lock and is alone.
* `BufferIsRecentOutput`: the buffer of a run is a gapless, ordered tail of
  what was broadcast for it, even if a restart of another client clears it in
  the middle, and is empty before and after.
* `RecordsNeverAhead`: neither the file nor any stale read that may yet be
  written back says more than the run's task has reached.
* `ImplementsProtocol`: see `RunProtocol`.
* `AcceptedRunsFinish`: queued leads to finished.
* `RecordsOrdered`: the file and all snapshots hold each run once and agree on
  the order. `QuietFileIsSound`: without errors and crashes a file at rest
  parses, ends with a newline and has its handle. `SpoiltForGood`: a damaged
  line is never repaired by the code itself.
* `OutputIsOwn`: as long as no script was given up, by a timeout or by a read
  that failed, a script's result is exactly what R printed for it, and it is
  blamed for its own errors only. `DebtBounded`: delimiters nobody has read are
  at most as many as the scripts given up, plus the one being read.
  `OneVictimPerInterrupt`. `AllAnswered`.
* `StoreConsistent`: the three maps agree. `UndisturbedAcceptReplacesBase`: the
  two comparisons of an accept together protect the base. `ResolvedForGood`.
* `ApplyIsApproved`: an edit is applied only if the user approved this call or
  a rule that covers it, whatever the allow lists in memory and on disk go
  through. `PlanInOrder`. `NoToolLeftRunning`: unless cancelled, a request ends
  with every tool's end announced. `RequestEnds`: although an approval may be
  answered before it is registered and a cancel may wake nobody.
* `ConversationsDoNotMix`, `CompleteOnceAfterATurn`: whatever overtakes what,
  a message's text is its conversation's, and it is completed once.
  `ChannelNeverStuck`: the three things that are held across awaits never wait
  for one another in a circle.
* `AllowedByAUser`: no timeout and no late answer makes a permission; a request
  is allowed only if a user approved a tool call that asked for the same kind and
  location. If a call asks for several, the approval of one may serve another:
  that is what the code does, and no more than that. `RememberedByAUser`: a
  permission outlives its request only if a user approved such a call for more
  than once, or approved it once and denied it (the scope is kept by call id).
* `PlotTypeOK` (listed plots have images), `RemovedStaysRemoved`,
  `ActivePlotStays`: over failed writes and kills.
* `ViewCatchesUp`: a client never shows a run as over that is not. One that has
  received what is under way shows every announced run as pending until it is
  over and then as over, unless it lost an event since it last asked, the run was
  beyond the limit when it asked, or its record was not written or was put back.
  It shows all the output of a run none of whose events it lost.
  `PagesShowTheHistory`: the panel shows no run twice, whatever is rewritten,
  given up or answered late. Once all its requests are answered and nothing
  disturbed it since the first page, it shows exactly the runs that match, each
  as it is recorded. The console log and the statistics tell the same history.
  `ShownFoldersAreReal`: an open folder shows what is in it once nothing is under
  way, but for changes that nobody is told of, and for folders whose listing, or
  that of a folder above, failed or came too late.
* `OneRuntimePerProject`; `SettingsKept`; `LaunchedAsConfigured`: what was
  acknowledged is what is used, with the exceptions their comments name.
* `DocumentTellsTheRuns`, `ArchiveValidates`: exports against the history.
  `BlocksAreTheirText`, `EditsApplyTogether`: results of the text operations
  against reference definitions. Blocks of fences that are opened in the same way
  do not overlap; those of fences of different kinds may, as the code takes both.

Bounds. Two actors of each kind are enough for every race named in the hazard
list: each is between two steps of one actor and one or two of another. Two
chunks distinguish order and tail from content; a third adds no guard that looks
at it. Two I/O errors and two crashes let a failure meet the remains of an
earlier one. Two texts suffice because the code only compares texts for
equality; the empty text has to be one of them. One session is enough in
`pending_edits`, as stores are keyed by session and sessions never meet except
on the file; the theorems hold for any number. `MaxLines = 1` in `PersistentR`
is enough to tell own from foreign and complete from incomplete output. In
`services`: two messages in one conversation or in two, two sockets and a
receiver of two updates let `Done` overtake a chunk and a socket lag; two
requests of one tool call, with different keys, meet in its channel and a third,
of another call with the key of the second, meets what was remembered; one
client is enough there, as the decision that comes second finds nothing left to
decide; four plots at a limit of three evict; one listing that fails or is given
up leaves a folder stale below or beside one that is not; the query's cap (200
in the code) is 2, so that a document can miss events; texts of three pieces
hold a patch, a fence and a loose diff; pairs of range edits start and end at
each of four positions in a text of two lines, the last of which is on the line
after the last one; one failed write in each store, two where the repair may
fail as well.

In `timeline`: an answer that has one of two runs makes the other one vanish
from the list; one mishap is a record that is not written, one that is put back,
or a query that fails; a receiver of two events loses one when both runs speak.
In the panel, a page of one event and a history of two make a run move from one
page to another at its end while the second page is asked for; one request that
is given up, and one change of the query, give an answer to a request of another
query.

Symmetry is used in `r_process`, `pending_edits` and `timeline`, over sets whose
members the specification treats alike, and in none that checks liveness.

Deadlock checking is off in all runs: every model is finite by its bounds or by
its sets of runs, edits and calls, and stops when they are used up. That
nothing waits for ever before that is `AcceptedRunsFinish`, `AllAnswered`,
`RequestEnds` and `ChannelNeverStuck`.

Every property of a passing run has a mutant in `PROJECT.json`: a plausible
slip in the code (a lock not awaited, a drain left out, a flag read and not
taken down, a hash not compared) that makes TLC find the property violated.

## 4. What the code does not keep

* **The history can lose a run** (`run_history_lost`). `JsonTimeline::update`
  reads the file without the mutex and writes it back later, so two updates
  undo each other. The README promises complete execution history.
* **Esc interrupts another run** (`r_interrupt`). `handle_interrupt` waits for
  the lock the script holds; the flag it raises is taken down by the next one.
* **An accept may overwrite a save** (`pending_edit_lost_save`). The file is
  compared and written in two steps.
* **A reviewed edit loses lines** (`review_lost_lines`). `compute_diff` numbers
  the changes as if unchanged lines were not there, and the client builds the
  accepted text from the numbers: unless the change is at the top, lines are
  repeated and lost.

What was found on the way and is not a run, because no text of the repository
says otherwise, is in the hazard list with a note (an error marker read after
the delimiter is not looked for; a record whose `RunAccepted` could not be
sent stays queued; a timeline without a handle drops records; an edit of the
ACP agent that creates a file cannot be accepted), or among the following.

* Agents: an approval answered before it is registered, or a cancel between the
  flag and the wait, is found out after the timeout only; an unreadable
  `approvals.json` is taken for empty and overwritten; `approve_session` also
  outlives the session, in `approvals.json`; stopping in the client never sends
  `ai_cancel`, and one sent early overtakes the registration of its token.
* ACP: an approval is stored for the kind and location of the request that waits
  when it arrives, which may be another request of the tool call than the one the
  user saw; two sockets of a project each append a chunk to the same text; a second
  message of a conversation takes over the stream of the first; a dead agent is
  never started again, nor is another one after the user chose it, while the
  old child is there; a cancel holds the gateway until the prompt has ended;
  a cancelled session stays its conversation's.
* Files on disk: a torn `plots.json` makes the project fail to open; a torn
  `auth.json` is replaced by the defaults with the next setting; opening a
  project brings back settings from before a save that came in between; a
  failed save of `acp.json` may be hidden by the older file; a half-copied
  agent binary in the cache is taken for whole by whoever looks meanwhile.
* R: a line that is not UTF-8 fails its script, whose remaining output is read as
  that of the next one, which then succeeds with it.
* Views: a run beyond the 50 latest vanishes from the list with the next answer;
  an orphan's record is shown as pending for ever; a listing that comes after ten
  seconds is not applied, and nothing asks again; after a given-up request of the
  timeline panel, each answer is taken for that of a later request; after a
  reconnect the client shows replayed chunks twice; a live event
  cuts the timeline panel to a page while its offset stays; a refresh of the
  root drops the loaded folders below it; a move across the project's border
  is told to nobody.
* Exports: a document holds at most 200 events although 10000 are asked for; the
  replay script runs only the first block of an event; plots that cannot be
  decoded are left out and the archive then fails its own validation.
* Text: two insertions at one position come out in reverse; a script's lines
  above its first marker are in no block; a patch that only removes lines
  yields no block; the console output given to an agent is cut after 800 bytes,
  which panics if that is inside a character.

## 5. Fairness

`RunLifecycle!Fairness`: weak fairness of what a handler does once it has begun
(`ConnStep`) and of what a task does by itself (`TaskStep`): tokio polls every
ready task, and its mutex is first come, first served, which is why the lock is
a queue. `EndExecution` is fair as well: a script is assumed to end. This is
`PersistentR`'s subject, and an assumption about the user's code: a silent
script ends by the timeout (`AllAnswered`), a script that prints for ever does
not. Nothing is assumed of clients: opening, closing and all requests are
unfair.

`AgentLoop!AgentSpec`: weak fairness of each task's own steps, which include
its timeouts (120 s for a provider, 300 s for an approval) and the bounded loop
(`MAX_TOOL_LOOPS`); none of the client, and none of a tool being quick: a tool
that runs R ends as `PersistentR` says. `ChannelNeverStuck` needs no fairness:
it says that a step of the server is enabled.

`PersistentR!FairSpec`: weak fairness of the runner, which includes the
timeout, as it is enabled as long as both pipes are silent; none of R, and none
of the reads that fail (`Proceed`): a script ends although none does. A script
has a bounded number of lines there.

## 6. Proofs

Eight modules hold theorems, for all values of the constants. They rest on the
named assumption of the module they are about, which TLC evaluates in its run:

| proofs | about | theorems | assumption |
|---|---|---|---|
| `RunLifecycleProofs` | `RunLifecycle` | `ExecutorExclusive`, `BufferIsRecentOutput`, `RecordsNeverAhead`, `TypeOK`, the refinement of `RunProtocol` | run ids are not socket ids, bounds are numbers |
| `PendingEditsProofs` | `PendingEdits` | `StoreConsistent`, `UndisturbedAcceptReplacesBase`, `ResolvedForGood`, `TypeOK` | sentinels are no texts or records, the empty text is a text, the edits of the two stores differ |
| | `EditText` | `EditsApplyTogether` | texts are sequences of characters, positions pairs of numbers, the sentinel is neither |
| `TimelineProofs` | `Timeline` | `RecordsOrdered`, `QuietFileIsSound`, `SpoiltForGood`, `TypeOK` | sentinels are no run ids, bounds are numbers |
| | `Export` | `ArchiveValidates`, `DocumentTellsTheRuns` | records and requests have the fields the code gives them, a plot is an image, broken or empty, a script's lines are of four kinds, an export asks for at least as many events as a query returns (10,000 and 200), limits are numbers |
| | `TimelineView` | `PagesShowTheHistory` | events have the fields that are compared, filters name actors and sources that there are, a page has at least one event and at most the cap of a query, bounds are numbers |
| `PersistentRProofs` | `PersistentR` | `OutputIsOwn`, `DebtBounded`, `OneVictimPerInterrupt`, `TypeOK` | jobs, resets and interrupts are finite and disjoint sets, the sentinel is in none, the bound is a number |
| `AgentLoopProofs` | `AgentLoop` | `ApplyIsApproved`, `PlanInOrder`, `NoToolLeftRunning`, `AgentTypeOK` | a turn is a sequence of at least one call, a plan has at most 3 steps (the code takes no more), sentinels are no decisions or sets of rules, bounds are numbers |
| `AcpProofs` | `AcpPermission` | `AllowedByAUser`, `RememberedByAUser` | requests have a tool call, options and a key; the sentinel is none of them |
| | `AcpChannel` | `ConversationsDoNotMix`, `CompleteOnceAfterATurn`, `UnderWay => CanGoOn` | a message has a conversation and a socket, the sentinel is neither, a receiver holds an update |
| | `AgentSetup` | `LaunchedAsConfigured` | the agents are a sequence, those with downloads are among them, a release numbers its assets, whose names have lengths; the sentinel is no agent, command or configuration |
| `ProjectsProofs` | `Projects` | `OneRuntimePerProject` | there is a folder, and "nowhere" is none and no number |
| | `Settings` | `SettingsKept` | the projects' files are not the app's, the sentinel is no file, bounds are numbers |
| | `PlotHistory` | `RemovedStaysRemoved`, `ActivePlotStays`, `PlotTypeOK` | the limit of plots is a positive number, the bound of faults a number |
| `ClientProofs` | `RunView` | `ViewCatchesUp` | a receiver holds an event, an answer has at least one run, the runs are finitely many, bounds are numbers |
| | `FileTree` | `ShownFoldersAreReal` | paths are sequences of names, none is empty; at first every path lies in folders; bounds are numbers |

`ResolvedForGood`, `SpoiltForGood` and `ActivePlotStays` are properties of steps,
the refinement one of initial states and steps, all others invariants.

None of the invariants is inductive as it stands. What was added, and why:

*RunLifecycle.* The inductive invariant is `TypeOK /\ ExecutorExclusive /\
BufferIsRecentOutput /\ RecordsNeverAhead /\ Progress`. The four that TLC checks
are nearly inductive together: that the lock stays a queue when
`EndExecution` drops the guard needs that the task holds it
(`ExecutorExclusive`); `RecordsNeverAhead` had to cover the snapshots besides
the file, as a stale one is written back later. `Progress` is the
strengthening that the refinement needs: it ties what was announced, and that
everything produced was received after the drain, to the state of the task.
There is a step lemma per conjunct with a case per action that can disturb it
(`TypeStep`, `LockStep`, `BufferStep`, `RecordsStep`, `ProgressStep`), and
`ProtocolInit` and `ProtocolStep` show that initial states and steps map to
initial states and steps, or stutters, of `RunProtocol`.

*PendingEdits.* `IInv` adds two facts to `TypeOK`, `StoreConsistent` and
`UndisturbedAcceptReplacesBase`. `StoredWhenOver`: an edit is in a store only
after its proposal is over, so it is not registered twice, nor again after it
was resolved. `ExpectedIsBase`: a hash the agent expected is the base the edit
was previewed against, in drafts, stores and copies; without it the second
comparison of an accept, which uses the expected hash, could protect another
text than the first. `ResolvedForGood` follows from the same step lemmas.

*EditText.* `EditsAlwaysTogether`: two range edits that do not overlap, applied
one after another, make the text in which both ranges are replaced as the text
was. The later range is replaced first, however they are listed (`SortedTwo`),
what the earlier one's line and column mean does not change with what comes
after it (`PositionsKept`, over the lines of a text that is cut and joined), and
two replacements in a row are one (`SplicedTwice`). The attempt found the
property too strong: a position on the line after the last one means the end of
the text whatever its column (`edit.rs:441`), so that two ranges which are apart
by line and column may meet there. Its precondition is now about positions on
the text's lines, and the run's positions include one past them.

*Timeline.* `RecordsOrdered` is about the file and every snapshot that may yet
be written back. All steps but one make their lists out of old ones with every
record in its place (`Derived`, `DerivedKeepsOrder`); the exception is `record`,
which puts a run at the end, and `Fresh` says that no list has it yet
(`RecordedLast`). `QuietFileIsSound` needs `Locked` (whoever is in the middle of
a write has the mutex) and what the file is like between the two writes of
`record` (`Sound`). `SpoiltForGood` is a fact of single steps, given the types.

*Export.* `ArchiveAlwaysValidates`: that an archive is the bundle of a history
whose records are numbered from the first is inductive (`ArchiveIInv`); the rest
says what that bundle holds. The script accepts it when every file that the
metadata names is there (`ScriptAccepts`); the replay takes an event's first
block, and is the code of the session just when no event has two
(`ReplayIsWhole`). The code is a list of lists put together; a small theory of
`FlattenSeq`, by induction on the number of lists, says how long such a list is
and what it begins with.

`DocumentsTellTheRuns`: an export is a job of several steps, and runs are recorded
and images deleted between them. The invariant (`DocumentIInv`) says of the
history that its records are numbered, of the job that its events are what a
query of an earlier history found (`IsFrom`: records only ever follow, so what
was found then stays found) and that its parts are what the options make of
them, and of the document what the property asks. Headings, blocks and plots are
each a list put together from what every event contributes (`Each`), which
distributes over the joining of lists (`EachConcat`), so that each is read off
one event's part of the document (`SectionEach`) and then off all of them
(`DocumentEach`). That a path in a PDF is made absolute once needs that no two
plots share a file, which follows from the records' numbers (`LinksAreOnce`). A
script is read line by line, by a recursive function that `SomeSteps` says
exists for any number of lines; after each line, the code in the chunks so far
followed by that in the open section is the code of the lines so far (`Holds`,
`FlushKeeps`, `ReadKeeps`).

*TimelineView.* `PagesAlwaysShow`: that no run is shown twice, and what a panel
with nothing under way shows if nothing disturbed it. The invariant
(`PagesIInv`) says what is under way otherwise. While no answer is late, requests
after the last first one carry the present query (`Pertinent`), and while the
answer to a first request is to come, the page at the panel's offset was asked
for after it (`Awaits`);
`InTurn` is the two under that condition. Late answers go to the wrong requests,
but a request that was given up has disturbed the panel, and the last late answer
finds nobody waiting; from then on each request takes its own answer again.
In a panel that nothing disturbed there are a number of events below which
nothing that was sent is missing, and a set of pending requests, each of which
starts at most there or a page after an earlier one of the set, and which
together reach the end of what is shown (`Coming`); when nothing is pending the
set is empty, and as many different events are shown as the offset says, so that
none is missing. `Coming` also says that what is shown is what is stored
(`AsStored`). The offset is the number shown, or a page more while a further page
is asked for (`Stands`). Recording, rewriting and finishing a run change times and
thereby pages, so all of them disturb; that the history stays numbered, and each
record one that a run may have, is all that is kept of it (`Numbered`). Filters,
sorts and pages come in through their ranks: an order lists every event once
(`OrderIsListed`), a filter keeps it (`ChosenIs`), and so what a query finds is
arranged by time (`FoundIsArranged`), whatever the history.

*PersistentR.* As long as no script was given up, nothing of another script is
in R or its pipes, the block of the current one is in one place, and the lines
read of it and those in the pipe add up to what R printed (`Clean`, with
`Holding` and `Dead` for who may write to R and when). For
`OneVictimPerInterrupt` the flag counts: the runs that were made victims and the
flag, if it is raised, are at most as many as the interrupts sent (`Paid`).
`DebtBounded` is inductive given `Dead`, `Fresh` and the types; the work is in
counting the delimiters of a pipe as it fills and empties (`EndsAppend`,
`EndsTail`).

*AcpPermission.* A decision passes through five places before it lets the agent
do anything: the answer on its way, the kept scope, the outcome of the task,
the trust of the session and that on disk. `Backed` says of each what a user
must have said for it to be there, and `Filed` that a request is found under
its own tool call. What was said is said of a call, trust is kept by a key:
`KeyApproved` goes from one to the other by the request that carries both, which
is why the properties speak of some call that asked for the key.

*AgentLoop.* The invariant says of each task by itself what it has at the step
it is at (`LocalOK`), who may still be answered (`Waiters`), and of the rules
where they are (`ListsOK`). `ApplyIsApproved` is a part of `Covered`: a rule
passes from the user's answer to the task, to the set it read from the disk
without the lock, to the list in memory and back to the disk, and each of these
holds only what was granted; a rule the task is about to save is covered by its
answer, which it keeps until its tool has returned. `PlanInOrder` had to say
where the plan stands (`InOrder`) and that no step of it runs between two calls
(`PlanRests`), or the next call would begin beside a running step.
`NoToolLeftRunning` needs that only a cancelled task concludes with a tool open
(`OpenKnown`).

*AcpChannel.* The two properties look at the last link of a chain that `MailsOK`
(whose session a message has), `StreamsOK` (which message a session's stream
leads to), `NotesOK` (what the agent said), `SocketsOK` (what is in the inboxes,
and the message that a socket looked up for the update it handles) and
`TextsOK` describe link by link. That a second chunk of a message may still
arrive after the message is complete, but finds no stream, is why `CompletedOK`
looks at every stream and at what each socket holds. `QueueOK`, that a create
or a prompt is queued once and its message waits for it, is needed for an
answer to move the right message, once. `ServerCanGoOn` follows from the same
invariant: as long as a message, a request or an update is under way, a step of
the server has its guard true (`CanGoOn` is the disjunction of these guards).
It is the part of `ChannelNeverStuck` that can be said without `ENABLED`.

*AgentSetup.* A launch uses what its call read when it began, and files change
under it. `CallOK` keeps, for each call, that its configuration was the one the
user was told of at that time, unless a failed write stood in between;
`SettingStands` says the same of the two files now, and `LaunchStands` of the
last launch. Of the binaries, `BinOK` says that what is in the cache was chosen
for this machine and is whole unless a copy is under way or something failed.
The choice is a minimum over a set of assets: that a set of numbers has a least
member (`Least`) comes from the well-founded order of the library.

*Projects.* A socket carries the runtime it found through several steps before
it takes it: `Carried` says it is the one in the map, `Settled` the same of the
sockets that are in a project, `Whole` and `Placed` that the parts of an entry
and of a request come together.

*Settings.* A setting is saved to the file the settings in use came from, and an
opening publishes settings it loaded before: `ConfigKept` says which file those
in use belong to, `SwitchersKept` the same of those on their way from an
opening, `FilesKept` that every file nothing has spoilt holds what was
acknowledged for it. The files that are copied when they are missed (the app's
from an older version's, a project's not at all) made the difficult cases: what
the app's file will be when it does not exist yet is part of `FilesKept`.

*PlotHistory.* `Forgotten`, `NewOnes` and `Underway` say where a plot is that was
removed, that has not been drawn, or that the operation under way is about.
Restoring keeps the plots whose images are there: that a subsequence chosen by
a test keeps order and repeats nothing (`KeptInOrder`, on `Enumerates`: the
positions that pass the test can be listed in rising order) is the lemma behind
it. `ActivePlotStays` follows from `ActiveKept`, which compares the active plot
before and after a step, in the same invariant.

*RunView.* `ViewCatchesUp` speaks of a client with nothing under way, so the
invariant says of each run (`RunInv`) what is under way otherwise: the events
behind one another tell a run's life in its order and have happened (`InOrder`,
`Happened`), together with the answer to the last query they bring the client to
the run's status (`StatusComes`), and with what it shows to its whole output
(`OutputComes`). The order is what makes an answer that was read before an event,
and arrives after it, harmless or be corrected. A record that was not written,
or was put back, may be behind its run but never ahead (`DoneWhenOver`); a run
that is missing from an answer is one beyond the limit or undone (`Known`). An
action about one run leaves what is said of the others (`Others`), but for a
lost event, which ends `current` and `complete`.

*FileTree.* What is shown of a folder and is out of date is made good by
something under way (`ShownCatchesUp`): news of the folder, still with the
watcher or on the socket, a listing that the client is going to ask for or waits
for, or that it will ask for when the folder is opened - or the same for a
folder above it, with whose new listing the client forgets this one, which is
what is left when the folder is deleted or renamed (`WillCatchUp`). An answer on
its way that is out of date has such news behind it (`AnswersCatchUp`), so that
the last answer is no old one. A listing that fails or is given up makes nothing
good (`ListingFails`, `ListsTimeOut`): the client has given that folder up with
those below it, so nothing is claimed of them (`NotGivenUp`) until it takes
another listing, with which it shows the folder anew and forgets those below.
What the operations owe is `Heard`: for every folder whose content has changed
or that is lost, an event names a folder at or above it that is there. Most of
the proof is that each operation, a copy that stops half-way and a rename that
makes its target's parents included, keeps every path in folders (`WellFormed`)
and is `Heard`. Prefixes of paths are reasoned about through an order
(`PrefixOrder`), and the topmost folder that is lost (`TopmostLost`) is the
shortest of a set of paths.

Only model-checked, and why:

* `AcceptedRunsFinish`, `AllAnswered` and `RequestEnds` are liveness under
  fairness, `ChannelNeverStuck` is about steps being enabled: neither is in
  reach of the provers. `ServerCanGoOn` proves the guards behind the latter.
* `BlocksAreTheirText` is about what four readers of a text compute, written as
  folds of the library: an induction over the data that the prover cannot do
  through the folds' definition. It is checked over bounded inputs.
* The four violations are counterexamples.

## 7. Abstractions and what is not modelled

* `RunLifecycle`: the text of a chunk is its number. Read errors and torn
  files are left to `Timeline`: here reads succeed, a `create_run` may fail
  without a trace, and updates fail when they do not find the event. The
  broadcast is what is sent; receivers that lag are in `RunView`. `output_rx`
  is closed only with the executor's future, so its `None` arm is never seen.
* `Timeline`: reading the file is one step (the reads that see a file being
  rewritten are there, those that see two versions of it are not). A caller of
  `record` and `update` is the run's own task, as on the server. `Garbage` is
  any damaged line; two records of which the first lost its newline make one.
* `PersistentR`: a line reaches a pipe as a whole; that the `select!` of two
  reads drops what one of them has read of a line when the other is ready is
  left out with it. The runner's own locks are
  not shown: every call is made under the executor's. A write to R is one step
  and fails if R has exited. The script and temp files are left out.
  `use_persistent_mode` is what the server builds, so the one-shot runner is
  not modelled.
* `PendingEdits`: one file; a text stands for its SHA-256; sizes and paths are
  not checked. A delete proposed through the API becomes the empty text, as in
  the code (`accept_pending_edit` always replaces). Read errors other than a
  missing file end a call without effect and are left out.
* `AgentLoop`: the effect of a tool, the messages added to the session and the
  dispatch of calls by name are left out; a call is one that needs an approval
  or one that does not.
* `AcpChannel`: spawning the agent and the handshake are one step, of the
  updates only chunks and `Done` are shown, and `local_sessions` with its lock,
  which a message holds while the files of its context are read, is left out:
  nothing that it waits for needs that lock.
* `AcpPermission`: a kind and a location make a key, nothing is known of what
  the agent does with a permission, and the ids of tool calls are one set: that
  two sessions of an agent may use the same id is the case of two requests of
  one call.
* `PlotHistory`: an image is there or not; how `plot_capture` finds the ones a
  run wrote is left out.
* `Projects` and `Settings`: a file of settings is read and written as a whole,
  except for the write that is cut. The desktop's own holder of the
  configuration, environment variables that change and edits of the files by
  hand are left out.
* `RunView`: a run's chunks are a set, so that nothing is missing can be said,
  and that nothing is there twice cannot. A record that another run's update has
  put back is exempt: that it may be is `run_history_lost`. Which runs are the
  latest is left open, as their times are not shown. A restart of the server, or
  of the session, which empties the timeline, is left out.
* `TimelineView`: the writes succeed, which is `Timeline`'s subject, there is one
  connection, and nobody empties the history. The error message of any other
  request that is taken for the panel's is a fault like a time that is over. The
  panel's details of one event and its drawing are left out.
* `Export`: `rmarkdown::render`, and whether R has the packages it needs, are
  an outcome; headings and prose are left out.
* `CodeBlocks` and `EditText`: a text is a sequence of kinds of lines, or of
  characters and line feeds. `build_diff_hunks` is left out.
* `FileTree`: one operation on files is one step; symbolic links, the
  deletion of the root and a new connection, on which the client loads the root
  anew, are left out. A folder that changed with nobody told
  (`unseen`: before the watcher is there, or by a move across the project's
  border) is exempt until the client has an answer about it and none that is
  out of date is still on its way.
* `AgentSetup`: the folder of a version and the extraction of an archive are
  one step; an asset is its prefix, its target and the length of its name.

Not modelled, with the reason in `PROJECT.json`:

* the client's other panes, commands, menus and themes: state of one component,
  changed by one user;
* the HTTP clients of AI providers and of web search, and the conversion of
  their messages: one request and its answer, which `AgentLoop` has as a call
  that answers, fails or times out;
* environment queries, repository tools and the remaining tools of agents: one
  script or process per request, whose output is data; as holders of the
  executor they are calls in `RunLifecycle`;
* the desktop shell and the terminal: calls of the operating system and of the
  same gateway the server uses;
* the executor of tool manifests: no code of the server calls it.

## 8. Plan

Done, in this order: `RunProtocol` and `RunLifecycle` with proofs; `Timeline`;
`PersistentR`; `PendingEdits` with proofs; `AgentLoop`; `AcpChannel` and
`AcpPermission`; `PlotHistory`; `Projects` and `Settings`; `RunView`,
`TimelineView` and `FileTree` with the server's side of each; `TimelineQueries`
and `Export`; `CodeBlocks` and `EditText`; `AgentSetup`; the proofs of
`Timeline`, `PersistentR`, `AcpPermission` and `Projects`, then those of
`AgentLoop`, `AcpChannel`, `AgentSetup`, `Settings`, `PlotHistory`, `RunView` and
`FileTree`; at last those of the range edits, the archives, the documents and the pages
of the panel, and that the ACP channel can always go on.

Next: a composition of `RunLifecycle` with `RunView` in place of the latter's
reduced server, if the instance can be kept small enough, and the proof that
`RunView`'s server is what `RunLifecycle` does.
