---------------------------- MODULE PersistentR ----------------------------
(***************************************************************************)
(* The long-lived R process of a project and the runner in front of it     *)
(* (core/src/executor/command_runner.rs, r_executor.rs).                   *)
(*                                                                         *)
(* A script is written to R's stdin as one block that prints a delimiter   *)
(* when it is done; the runner reads R's two pipes, in either order, until *)
(* it sees the delimiter on stdout.  A read that sees nothing for 60 s, or *)
(* that fails (a line that is not UTF-8), ends the script with an error    *)
(* and leaves R, its pipes and whatever is still to be printed to the next *)
(* script.  `interrupt` sends SIGINT and raises a flag that the end of the *)
(* next script takes down.                                                 *)
(*                                                                         *)
(* Everything is called under runtime.r_executor's lock                    *)
(* (server/src/handlers), so the runner's own two locks never wait here.   *)
(* R itself is not part of the repository: what it may do is external.     *)
(***************************************************************************)
EXTENDS Naturals, Sequences, FiniteSets

CONSTANTS
  Jobs,         \* runs and tool calls: one script each
  Resets,       \* restart_session requests
  Interrupts,   \* interrupt_execution requests
  MaxLines      \* bound: the lines a script prints on stdout

NoOne == "no one"

ASSUME PersistentRAssumption ==
  /\ MaxLines \in Nat
  /\ IsFiniteSet(Jobs) /\ IsFiniteSet(Resets) /\ IsFiniteSet(Interrupts)
  /\ Jobs \cap Resets = {}
  /\ Interrupts \cap (Jobs \cup Resets) = {}
  /\ NoOne \notin Jobs \cup Resets

VARIABLES
  queue,     \* runtime.r_executor: the holder, then the waiters in order
  phase,     \* how far each request is
  result,    \* how it ended
  child,     \* the R process: "none", "alive" or "exited"
  stdin,     \* the blocks written that R has not taken up
  block,     \* the script whose block R evaluates
  stdout,    \* what is in R's stdout pipe, lines and delimiters
  stderr,    \* whose error marker is in R's stderr pipe
  flag,      \* `interrupted`
  printed,   \* how many lines R printed for each script
  got,       \* got[j][k]: lines of k that were read as output of j
  raised,    \* the scripts whose code raised an R error
  marked,    \* the scripts for which the error marker was seen
  target     \* the script that was being read when an interrupt was requested

child_ == <<child, stdin, block, stdout, stderr>>
ghosts == <<printed, raised>>
vars == <<queue, phase, result, child_, flag, ghosts, got, marked, target>>

Scripts == Jobs \cup Resets

Requests == Scripts \cup Interrupts

Phases == {"idle", "queued", "ensure", "write", "read", "drain", "over"}

Results == {"none", "ok", "failed", "interrupted", "timeout", "unread", "broken",
            "sent"}

TypeOK ==
  /\ queue \in Seq(Requests)
  /\ phase \in [Requests -> Phases]
  /\ result \in [Requests -> Results]
  /\ child \in {"none", "alive", "exited"}
  /\ stdin \in Seq(Scripts)
  /\ block \in Scripts \cup {NoOne}
  /\ stdout \in Seq([of : Scripts, end : BOOLEAN])
  /\ stderr \in Seq(Scripts)
  /\ flag \in BOOLEAN
  /\ printed \in [Scripts -> 0 .. MaxLines]
  /\ got \in [Scripts -> [Scripts -> Nat]]
  /\ raised \subseteq Scripts
  /\ marked \subseteq Scripts
  /\ target \in [Interrupts -> Jobs \cup {NoOne}]

Init ==
  /\ queue = <<>>
  /\ phase = [q \in Requests |-> "idle"]
  /\ result = [q \in Requests |-> "none"]
  /\ child = "none"
  /\ stdin = <<>> /\ block = NoOne /\ stdout = <<>> /\ stderr = <<>>
  /\ flag = FALSE
  /\ printed = [j \in Scripts |-> 0]
  /\ got = [j \in Scripts |-> [k \in Scripts |-> 0]]
  /\ raised = {} /\ marked = {}
  /\ target = [i \in Interrupts |-> NoOne]

----------------------------------------------------------------------------
Holds(q) == queue # <<>> /\ Head(queue) = q

Move(q, from, to) == phase[q] = from /\ phase' = [phase EXCEPT ![q] = to]

\* The call returns and its guard on the executor is dropped.
Return(q, from, outcome) ==
  /\ Move(q, from, "over")
  /\ result' = [result EXCEPT ![q] = outcome]
  /\ queue' = Tail(queue)

Reading(q) == Holds(q) /\ phase[q] \in {"read", "drain"}

\* A handler queues on the executor's lock.  A client asks for an interrupt
\* while it has a run that is not finished.
Request(q) ==
  /\ Move(q, "idle", "queued")
  /\ queue' = Append(queue, q)
  /\ IF q \in Interrupts
     THEN /\ \E j \in Jobs : phase[j] \notin {"idle", "over"}
          /\ target' = [target EXCEPT ![q] =
               IF \E j \in Jobs : Reading(j) THEN Head(queue) ELSE NoOne]
     ELSE UNCHANGED target
  /\ UNCHANGED <<result, child_, flag, ghosts, got, marked>>

----------------------------------------------------------------------------
(* R.                                                                      *)

RVars == <<queue, phase, result, flag, got, marked, target>>

TakeBlock ==
  /\ child = "alive"
  /\ block = NoOne
  /\ stdin # <<>>
  /\ block' = Head(stdin)
  /\ stdin' = Tail(stdin)
  /\ UNCHANGED <<RVars, child, stdout, stderr, ghosts>>

PrintLine ==
  /\ block # NoOne
  /\ printed[block] < MaxLines
  /\ printed' = [printed EXCEPT ![block] = @ + 1]
  /\ stdout' = Append(stdout, [of |-> block, end |-> FALSE])
  /\ UNCHANGED <<RVars, child, stdin, block, stderr, raised>>

\* The wrapper catches an error of the user's code and prints the marker
\* REPROD_ERROR on stderr.
RaiseError ==
  /\ block \in Jobs
  /\ block \notin raised
  /\ raised' = raised \cup {block}
  /\ stderr' = Append(stderr, block)
  /\ UNCHANGED <<RVars, child, stdin, block, stdout, printed>>

\* The last statement of the wrapper prints the delimiter.
EndBlock ==
  /\ block # NoOne
  /\ stdout' = Append(stdout, [of |-> block, end |-> TRUE])
  /\ block' = NoOne
  /\ UNCHANGED <<RVars, child, stdin, stderr, ghosts>>

Exit == child' = "exited" /\ block' = NoOne /\ stdin' = <<>>

\* quit(), a crash, a kill.
Quit ==
  /\ block # NoOne
  /\ Exit
  /\ UNCHANGED <<RVars, stdout, stderr, ghosts>>

RStep == TakeBlock \/ PrintLine \/ RaiseError \/ EndBlock \/ Quit

\* What SIGINT does to R: nothing, the evaluation is abandoned and the
\* delimiter with it, or R exits.
Sigint ==
  /\ \/ UNCHANGED <<child, stdin, block>>
     \/ block # NoOne /\ block' = NoOne /\ UNCHANGED <<child, stdin>>
     \/ child = "alive" /\ Exit
  /\ UNCHANGED <<stdout, stderr>>

----------------------------------------------------------------------------
(* interrupt, and the interrupt reset begins with: a child that exited but *)
(* was not waited for still has a pid.                                     *)

Signal ==
  IF child = "none" THEN UNCHANGED <<child_, flag>> ELSE Sigint /\ flag' = TRUE

Interrupt(i) ==
  /\ Holds(i)
  /\ Signal
  /\ Return(i, "queued", IF child = "none" THEN "failed" ELSE "sent")
  /\ UNCHANGED <<ghosts, got, marked, target>>

ResetInterrupt(s) ==
  /\ Holds(s)
  /\ Signal
  /\ Move(s, "queued", "ensure")
  /\ UNCHANGED <<queue, result, ghosts, got, marked, target>>

----------------------------------------------------------------------------
(* run and run_streaming.                                                  *)

BeginJob(j) ==
  /\ Holds(j)
  /\ Move(j, "queued", "ensure")
  /\ UNCHANGED <<queue, result, child_, flag, ghosts, got, marked, target>>

\* ensure_child: a process that exited is replaced, with new pipes.
EnsureChild(j) ==
  /\ Move(j, "ensure", "write")
  /\ IF child = "alive"
     THEN UNCHANGED child_
     ELSE /\ child' = "alive"
          /\ stdin' = <<>> /\ block' = NoOne /\ stdout' = <<>> /\ stderr' = <<>>
  /\ UNCHANGED <<queue, result, flag, ghosts, got, marked, target>>

SpawnFails(j) ==
  /\ child # "alive"
  /\ Return(j, "ensure", "broken")
  /\ UNCHANGED <<child_, flag, ghosts, got, marked, target>>

\* Mutant: the block is written a second time after a partial write.
WriteBlockTwice(j) ==
  /\ child = "alive"
  /\ Move(j, "write", "read")
  /\ stdin' = Append(Append(stdin, j), j)
  /\ UNCHANGED <<queue, result, child, block, stdout, stderr, flag, ghosts, got,
                 marked, target>>

WriteBlock(j) ==
  /\ child = "alive"
  /\ Move(j, "write", "read")
  /\ stdin' = Append(stdin, j)
  /\ UNCHANGED <<queue, result, child, block, stdout, stderr, flag, ghosts, got,
                 marked, target>>

WriteFails(j) ==
  /\ child = "exited"
  /\ Return(j, "write", "broken")
  /\ UNCHANGED <<child_, flag, ghosts, got, marked, target>>

\* A line of stdout: the delimiter ends the loop, whosever it is.
ReadStdout(j) ==
  /\ stdout # <<>>
  /\ stdout' = Tail(stdout)
  /\ IF Head(stdout).end
     THEN Move(j, "read", "drain") /\ UNCHANGED got
     ELSE /\ phase[j] = "read"
          /\ got' = [got EXCEPT ![j][Head(stdout).of] = @ + 1]
          /\ UNCHANGED phase
  /\ UNCHANGED <<queue, result, child, stdin, block, stderr, flag, ghosts, marked,
                 target>>

\* R's stdout was closed: the loop ends as if the delimiter had come.
StdoutEof(j) ==
  /\ child = "exited"
  /\ stdout = <<>>
  /\ Move(j, "read", "drain")
  /\ UNCHANGED <<queue, result, child_, flag, ghosts, got, marked, target>>

\* A line of stderr: the loop looks for the error marker.
ReadStderr(j) ==
  /\ phase[j] = "read"
  /\ stderr # <<>>
  /\ stderr' = Tail(stderr)
  /\ marked' = marked \cup {j}
  /\ UNCHANGED <<queue, phase, result, child, stdin, block, stdout, flag, ghosts, got,
                 target>>

\* Mutant: the read is not limited in time.
TimeoutNever(j) == phase[j] = "read" /\ FALSE /\ UNCHANGED vars

\* Neither pipe had a line for PERSISTENT_EXECUTION_TIMEOUT.
Timeout(j) ==
  /\ child = "alive"
  /\ stdout = <<>> /\ stderr = <<>>
  /\ Return(j, "read", "timeout")
  /\ UNCHANGED <<child_, flag, ghosts, got, marked, target>>

\* Mutant: a read that fails ends the loop as if the delimiter had come.
ReadFailureBreaks(j) ==
  /\ phase[j] = "read"
  /\ Move(j, "read", "drain")
  /\ UNCHANGED <<queue, result, child_, flag, ghosts, got, marked, target>>

\* read_line fails.  A line that is not UTF-8 is taken out of its pipe, be it output,
\* an error marker or a line with the delimiter; an I/O error, or a line of stderr that
\* is no marker, leaves the pipes as they are.  The error ends the script at once.
ReadFails(j) ==
  /\ phase[j] \in {"read", "drain"}
  /\ Return(j, phase[j], "unread")
  /\ \/ UNCHANGED <<stdout, stderr>>
     \/ phase[j] = "read" /\ stdout # <<>> /\ stdout' = Tail(stdout) /\ UNCHANGED stderr
     \/ stderr # <<>> /\ stderr' = Tail(stderr) /\ UNCHANGED stdout
  /\ UNCHANGED <<child, stdin, block, flag, ghosts, got, marked, target>>

\* After the loop stderr is read until it is silent for 50 ms; the marker is
\* not looked for any more.
DrainStderr(j) ==
  /\ phase[j] = "drain"
  /\ stderr # <<>>
  /\ stderr' = Tail(stderr)
  /\ UNCHANGED <<queue, phase, result, child, stdin, block, stdout, flag, ghosts, got,
                 marked, target>>

\* interrupted.swap(false), CommandOutput and parse_command_output.
Outcome(j) ==
  IF flag THEN "interrupted" ELSE IF j \in marked THEN "failed" ELSE "ok"

\* Mutant: the flag is read and not taken down.
FinishWithoutSwap(j) ==
  /\ stderr = <<>>
  /\ Return(j, "drain", Outcome(j))
  /\ UNCHANGED <<flag, child_, ghosts, got, marked, target>>

Finish(j) ==
  /\ stderr = <<>>
  /\ Return(j, "drain", Outcome(j))
  /\ flag' = FALSE
  /\ UNCHANGED <<child_, ghosts, got, marked, target>>

ScriptStep(j) ==
  \/ EnsureChild(j) \/ SpawnFails(j) \/ WriteBlock(j) \/ WriteFails(j)
  \/ ReadStdout(j) \/ StdoutEof(j) \/ ReadStderr(j) \/ Timeout(j)
  \/ ReadFails(j) \/ DrainStderr(j) \/ Finish(j)

Serve(q) ==
  \/ q \in Jobs /\ BeginJob(q)
  \/ q \in Resets /\ ResetInterrupt(q)
  \/ q \in Scripts /\ ScriptStep(q)
  \/ q \in Interrupts /\ Interrupt(q)

Next ==
  \/ \E q \in Requests : Request(q) \/ Serve(q)
  \/ RStep

Spec == Init /\ [][Next]_vars

\* A step of the runner that is not a read that fails.
Proceed(q) == Serve(q) /\ result'[q] # "unread"

(***************************************************************************)
(* The server's tasks are scheduled and a read that sees nothing times     *)
(* out.  Nothing is assumed of R: it may hang for ever; and no read has to *)
(* fail.                                                                   *)
(***************************************************************************)
FairSpec == Spec /\ \A q \in Requests : WF_vars(Proceed(q))

----------------------------------------------------------------------------
\* The scripts given up before their delimiter was read.
Abandoned == {j \in Scripts : result[j] \in {"timeout", "unread"}}

(***************************************************************************)
(* As long as no script was given up, by a timeout or by a read that       *)
(* failed, what is read for a script is what R printed for it, all of it   *)
(* and nothing else, and a script is blamed for an error of its own only,  *)
(* whatever R's errors, deaths and interrupts.                             *)
(***************************************************************************)
OutputIsOwn ==
  Abandoned = {} =>
    \A j \in Scripts :
      /\ \A k \in Scripts \ {j} : got[j][k] = 0
      /\ result[j] \in {"ok", "failed", "interrupted"} => got[j][j] = printed[j]
      /\ j \in marked => j \in raised

\* The delimiters in the pipe, and those R still owes.
Owed ==
  Cardinality({i \in DOMAIN stdout : stdout[i].end}) + Len(stdin)
    + (IF block = NoOne THEN 0 ELSE 1)

(***************************************************************************)
(* The delimiters that no script has read yet, those in the pipe and those *)
(* R still owes, are at most the ones of the scripts that were given up    *)
(* and of the one being read: a script never adds to the stale output it   *)
(* finds, and a script that reads another's delimiter leaves its own.      *)
(***************************************************************************)
DebtBounded ==
  Owed <= Cardinality(Abandoned) + Cardinality({j \in Scripts : phase[j] = "read"})

(***************************************************************************)
(* An interrupt, or the interrupt a reset begins with, makes at most one   *)
(* script be reported as interrupted.                                      *)
(***************************************************************************)
OneVictimPerInterrupt ==
  Cardinality({j \in Scripts : result[j] = "interrupted"})
    <= Cardinality({q \in Interrupts : result[q] = "sent"})
         + Cardinality({s \in Resets : phase[s] \notin {"idle", "queued"}})

(***************************************************************************)
(* Every request for R is answered, also when R hangs.                     *)
(***************************************************************************)
AllAnswered == \A q \in Requests : phase[q] = "queued" ~> phase[q] = "over"

(***************************************************************************)
(* The shortcut says that Esc interrupts running code: a run reported as   *)
(* interrupted was running when some interrupt was requested.              *)
(***************************************************************************)
InterruptedRunsWereRunning ==
  \A j \in Jobs : result[j] = "interrupted" => \E i \in Interrupts : target[i] = j
=============================================================================
