------------------------------ MODULE Timeline -----------------------------
(***************************************************************************)
(* The timeline file of a project: newline-delimited JSON, one record per  *)
(* run (core/src/timeline/json.rs).                                        *)
(*                                                                         *)
(* `record` appends a line under the writer's mutex.  `update` reads the   *)
(* whole file without the mutex, then takes it, drops the append handle,   *)
(* truncates the file in place and writes all records back.  `reset` reads *)
(* the file to count its records before it empties it.  An error after the *)
(* handle was dropped leaves the timeline without one, and `record` then   *)
(* returns Ok without writing.  A crash may stop any of this half-way; the *)
(* next start opens the file as it is.                                     *)
(*                                                                         *)
(* The callers are the ones of server/src/handlers/mod.rs: each run is     *)
(* recorded once and then updated by its own task, one status after the    *)
(* other, errors ignored; a restart of the R session resets the timeline.  *)
(***************************************************************************)
EXTENDS Naturals, Sequences, FiniteSets

CONSTANTS
  Runs,          \* run ids
  MaxResets,     \* bound: resets
  MaxFailures,   \* bound: I/O errors
  MaxCrashes     \* bound: crashes of the server

NoOne == "no one"

TheReset == "reset"

ASSUME TimelineAssumption ==
  /\ MaxResets \in Nat /\ MaxFailures \in Nat /\ MaxCrashes \in Nat
  /\ NoOne \notin Runs /\ TheReset \notin Runs

VARIABLES
  lines,      \* the lines of the file; the last may lack its newline
  unended,    \* whether it does
  writer,     \* whether the append handle is there (Some(file))
  mutex,      \* who holds the writer's mutex
  pc,         \* where each run's task, and the reset, stand
  status,     \* the status each run's task has reached
  pending,    \* the records the holder of a snapshot is about to write
  resets, failures, crashes   \* counters that bound the model

vars == <<lines, unended, writer, mutex, pc, status, pending, resets, failures,
          crashes>>

Callers == Runs \cup {TheReset}

Statuses == {"queued", "running", "finished"}

Records == [id : Runs, status : Statuses]

\* A line that serde_json does not parse: a part of a record, or two records
\* of which the first never got its newline.
Garbage == [id |-> NoOne, status |-> "queued"]

RunStates == {"new", "newline", "idle", "read", "rewriting", "gone"}

TypeOK ==
  /\ lines \in Seq(Records \cup {Garbage})
  /\ unended \in BOOLEAN
  /\ writer \in BOOLEAN
  /\ mutex \in Callers \cup {NoOne}
  /\ pc \in [Callers -> RunStates]
  /\ status \in [Runs -> Statuses]
  /\ pending \in [Runs -> Seq(Records)]
  /\ resets \in 0 .. MaxResets
  /\ failures \in 0 .. MaxFailures
  /\ crashes \in 0 .. MaxCrashes

\* The file may not exist: it is created empty.
Init ==
  /\ lines = <<>>
  /\ unended = FALSE
  /\ writer = TRUE
  /\ mutex = NoOne
  /\ pc = [c \in Callers |-> IF c = TheReset THEN "idle" ELSE "new"]
  /\ status = [r \in Runs |-> "queued"]
  /\ pending = [r \in Runs |-> <<>>]
  /\ resets = 0 /\ failures = 0 /\ crashes = 0

counters == <<resets, failures, crashes>>

Fails == failures < MaxFailures /\ failures' = failures + 1

Move(c, from, to) == pc[c] = from /\ pc' = [pc EXCEPT ![c] = to]

----------------------------------------------------------------------------
(* Reading: without the mutex, whatever the file holds at that moment.     *)

IdsIn(s) == {s[i].id : i \in DOMAIN s}

\* Every line parses, so read_records succeeds.
Readable == \A i \in DOMAIN lines : lines[i] # Garbage

\* Appending after a line without a newline spoils both.
AppendLine(line) ==
  IF unended THEN [lines EXCEPT ![Len(lines)] = Garbage] ELSE Append(lines, line)

----------------------------------------------------------------------------
(* record, called by create_run.                                           *)

\* The record and its newline are two writes.
RecordLine(r) ==
  /\ mutex = NoOne
  /\ writer
  /\ Move(r, "new", "newline")
  /\ mutex' = r
  /\ lines' = AppendLine([id |-> r, status |-> "queued"])
  /\ unended' = TRUE
  /\ UNCHANGED <<writer, status, pending, counters>>

RecordNewline(r) ==
  /\ Move(r, "newline", "idle")
  /\ unended' = FALSE
  /\ mutex' = NoOne
  /\ UNCHANGED <<lines, writer, status, pending, counters>>

\* The write fails: some of the line may be in the file, and the caller of
\* create_run gets the error.
RecordFails(r) ==
  /\ Fails
  /\ \/ /\ mutex = NoOne
        /\ writer
        /\ Move(r, "new", "gone")
        /\ \/ lines' = AppendLine(Garbage) /\ unended' = TRUE
           \/ UNCHANGED <<lines, unended>>
     \/ /\ Move(r, "newline", "gone")
        /\ UNCHANGED <<lines, unended>>
  /\ mutex' = NoOne
  /\ UNCHANGED <<writer, status, pending, resets, crashes>>

\* Without a handle nothing is written, and the caller is told Ok.
RecordSkipped(r) ==
  /\ mutex = NoOne
  /\ ~writer
  /\ Move(r, "new", "idle")
  /\ UNCHANGED <<lines, unended, writer, mutex, status, pending, counters>>

----------------------------------------------------------------------------
(* update, called by update_run and finish_run with the next status.       *)

NextStatus(s) == IF s = "queued" THEN "running" ELSE "finished"

\* Mutant: the updated record is taken out and pushed at the end.
ReplacedAtTheEnd(s, r, new) ==
  Append(SelectSeq(s, LAMBDA l : l.id # r), [id |-> r, status |-> new])

\* Replace the record of r, the first with its id.
Replaced(s, r, new) ==
  [i \in DOMAIN s |-> IF s[i].id = r THEN [id |-> r, status |-> new] ELSE s[i]]

\* Read the records; it may fail to parse, or not find the event.  The task
\* ignores the error and goes on.
UpdateRead(r) ==
  /\ status[r] # "finished"
  /\ status' = [status EXCEPT ![r] = NextStatus(@)]
  /\ \/ /\ Readable
        /\ r \in IdsIn(lines)
        /\ Move(r, "idle", "read")
        /\ pending' = [pending EXCEPT ![r] = Replaced(lines, r, NextStatus(status[r]))]
     \/ /\ ~Readable \/ r \notin IdsIn(lines)
        /\ pc[r] = "idle"
        /\ UNCHANGED <<pc, pending>>
  /\ UNCHANGED <<lines, unended, writer, mutex, counters>>

\* rewrite_all: take the mutex, drop the handle, truncate.
Truncate(r) ==
  /\ mutex = NoOne
  /\ Move(r, "read", "rewriting")
  /\ mutex' = r
  /\ writer' = FALSE
  /\ lines' = <<>>
  /\ unended' = FALSE
  /\ UNCHANGED <<status, pending, counters>>

\* The buffer is flushed in pieces that need not end with a line.
Flush(r) ==
  /\ pc[r] = "rewriting"
  /\ \E n \in 0 .. Len(pending[r]), part \in BOOLEAN :
       /\ n >= Len(lines)
       /\ part => n < Len(pending[r])
       /\ lines' = SubSeq(pending[r], 1, n) \o (IF part THEN <<Garbage>> ELSE <<>>)
       /\ lines' # lines
       /\ unended' = part
  /\ UNCHANGED <<writer, mutex, pc, status, pending, counters>>

\* Mutant: the append handle is not opened again.
FinishRewriteWithoutHandle(r) ==
  /\ Move(r, "rewriting", "idle")
  /\ lines' = pending[r]
  /\ unended' = FALSE
  /\ mutex' = NoOne
  /\ pending' = [pending EXCEPT ![r] = <<>>]
  /\ UNCHANGED <<writer, status, counters>>

\* The last flush, and the append handle is opened again.
FinishRewrite(r) ==
  /\ Move(r, "rewriting", "idle")
  /\ lines' = pending[r]
  /\ unended' = FALSE
  /\ writer' = TRUE
  /\ mutex' = NoOne
  /\ pending' = [pending EXCEPT ![r] = <<>>]
  /\ UNCHANGED <<status, counters>>

\* An error of rewrite_all, before or after the truncation: the handle is gone.
RewriteFails(r) ==
  /\ Fails
  /\ \/ mutex = NoOne /\ Move(r, "read", "idle")
     \/ Move(r, "rewriting", "idle")
  /\ writer' = FALSE
  /\ mutex' = NoOne
  /\ pending' = [pending EXCEPT ![r] = <<>>]
  /\ UNCHANGED <<lines, unended, status, resets, crashes>>

----------------------------------------------------------------------------
(* reset                                                                   *)

\* The records are counted first: a file that does not parse is not reset.
ResetRead ==
  /\ resets < MaxResets
  /\ resets' = resets + 1
  /\ \/ Readable /\ Move(TheReset, "idle", "read")
     \/ ~Readable /\ pc[TheReset] = "idle" /\ UNCHANGED pc
  /\ UNCHANGED <<lines, unended, writer, mutex, status, pending, failures, crashes>>

ResetClear ==
  /\ mutex = NoOne
  /\ Move(TheReset, "read", "idle")
  /\ lines' = <<>>
  /\ unended' = FALSE
  /\ writer' = TRUE
  /\ UNCHANGED <<mutex, status, pending, counters>>

\* Clearing, or opening again, failed.
ResetFails ==
  /\ Fails
  /\ mutex = NoOne
  /\ Move(TheReset, "read", "idle")
  /\ \/ lines' = <<>> /\ unended' = FALSE
     \/ UNCHANGED <<lines, unended>>
  /\ writer' = FALSE
  /\ UNCHANGED <<mutex, status, pending, resets, crashes>>

----------------------------------------------------------------------------
(* The server dies and is started again (JsonTimeline::new): the tasks of  *)
(* the runs it had accepted are gone, the file is what it was.             *)

\* Mutant: the next start truncates the file it opens.
CrashAndTruncate ==
  /\ crashes < MaxCrashes
  /\ crashes' = crashes + 1
  /\ pc' = [c \in Callers |-> IF c = TheReset THEN "idle"
                              ELSE IF pc[c] = "new" THEN "new" ELSE "gone"]
  /\ lines' = <<>>
  /\ unended' = FALSE
  /\ writer' = TRUE
  /\ mutex' = NoOne
  /\ pending' = [r \in Runs |-> <<>>]
  /\ UNCHANGED <<status, resets, failures>>

Crash ==
  /\ crashes < MaxCrashes
  /\ crashes' = crashes + 1
  /\ pc' = [c \in Callers |-> IF c = TheReset THEN "idle"
                              ELSE IF pc[c] = "new" THEN "new" ELSE "gone"]
  /\ writer' = TRUE
  /\ mutex' = NoOne
  /\ pending' = [r \in Runs |-> <<>>]
  /\ UNCHANGED <<lines, unended, status, resets, failures>>

Next ==
  \/ \E r \in Runs :
       \/ RecordLine(r) \/ RecordNewline(r) \/ RecordFails(r) \/ RecordSkipped(r)
       \/ UpdateRead(r) \/ Truncate(r) \/ Flush(r) \/ FinishRewrite(r)
       \/ RewriteFails(r)
  \/ ResetRead \/ ResetClear \/ ResetFails \/ Crash

Spec == Init /\ [][Next]_vars

----------------------------------------------------------------------------
\* The order of two runs' records in s.
Before(s, a, b) ==
  \E i, j \in DOMAIN s : i < j /\ s[i].id = a /\ s[j].id = b

(***************************************************************************)
(* The file, and every list of records about to be written back to it,     *)
(* hold each run at most once, and they all agree on the order of the runs *)
(* they share: update and record, however they interleave or fail, may     *)
(* lose a run's record but never duplicate or reorder one.                 *)
(***************************************************************************)
RecordsOrdered ==
  LET versions == {lines} \cup {pending[r] : r \in Runs} IN
  \A s, t \in versions, a, b \in Runs : ~(Before(s, a, b) /\ Before(t, b, a))

(***************************************************************************)
(* Whenever no one holds the mutex and neither an I/O error nor a crash    *)
(* has happened, the file parses, ends with a newline, and can be appended *)
(* to: what an unlocked reader sees of a rewrite in progress never stays.  *)
(***************************************************************************)
QuietFileIsSound ==
  mutex = NoOne /\ failures = 0 /\ crashes = 0
    => Readable /\ ~unended /\ writer

\* A line does not parse, and nobody is about to write the file anew.
Spoilt ==
  /\ ~Readable
  /\ \A c \in Callers : pc[c] \notin {"read", "rewriting"}

(***************************************************************************)
(* A line that does not parse is there for good, unless an update or a     *)
(* reset had read the file before: from then on every query, update and    *)
(* reset fails, and so does the next server.                               *)
(***************************************************************************)
SpoiltForGood == [][Spoilt => Spoilt']_vars
=============================================================================
