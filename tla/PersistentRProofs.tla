------------------------- MODULE PersistentRProofs -------------------------
(***************************************************************************)
(* Theorems about PersistentR, for every finite set of jobs, of resets and *)
(* of interrupts and every number of lines.                                *)
(*                                                                         *)
(* OutputIsOwn needs to know where the output of the script that holds the *)
(* executor can be (Clean): its block is in one place only, nothing of any *)
(* other script is in R or in its pipes, and what was read of it and what  *)
(* is in the pipe add up to what R printed.  OneVictimPerInterrupt needs   *)
(* the flag counted together with the scripts it has made victims (Paid),  *)
(* DebtBounded the delimiters counted in each place they can be (Debt).    *)
(***************************************************************************)
EXTENDS PersistentR, SequenceTheorems, FiniteSetTheorems, TLAPS

\* A script that was begun holds the executor.
Holding ==
  \A q \in Requests : phase[q] \in {"ensure", "write", "read", "drain"} => Holds(q)

\* A request has a result when it is over, and not before.
Fresh == \A q \in Requests : phase[q] # "over" => result[q] = "none"

\* Without a live process there is no block to evaluate.
Dead == child # "alive" => block = NoOne /\ stdin = <<>>

\* What R and its pipes hold is of the script that is read for.
Current ==
  /\ \A i \in DOMAIN stdin : phase[stdin[i]] = "read"
  /\ block # NoOne => phase[block] = "read"
  /\ \A i \in DOMAIN stdout : phase[stdout[i].of] = "read"
  /\ \A i \in DOMAIN stderr : phase[stderr[i]] \in {"read", "drain"} /\ stderr[i] \in raised

\* The block is on its way to R, or in R, or has ended.
Once ==
  /\ Len(stdin) <= 1
  /\ block # NoOne => stdin = <<>>
  /\ \A i \in DOMAIN stdout :
       stdout[i].end => i = Len(stdout) /\ stdin = <<>> /\ block = NoOne

\* The lines in the pipe: all that is there but a delimiter at its end.
Lines ==
  IF stdout # <<>> /\ stdout[Len(stdout)].end THEN Len(stdout) - 1 ELSE Len(stdout)

\* What was read of a script and what is in the pipe is what R printed for it.
Counted ==
  \A j \in Scripts :
    /\ phase[j] \in {"idle", "queued", "ensure", "write"} => printed[j] = 0 /\ got[j][j] = 0
    /\ phase[j] = "read" => got[j][j] + Lines = printed[j]
    /\ phase[j] = "drain" \/ result[j] \in {"ok", "failed", "interrupted"}
         => got[j][j] = printed[j]

\* No script was given another's lines or another's error.
Private ==
  /\ \A j \in Scripts : \A k \in Scripts \ {j} : got[j][k] = 0
  /\ marked \subseteq raised

Clean == Current /\ Once /\ Counted /\ Private

IInv == TypeOK /\ Holding /\ Fresh /\ Dead /\ (Abandoned = {} => Clean)

(***************************************************************************)
(* Joining and leaving keep a sequence over the same set.                  *)
(***************************************************************************)
LEMMA SeqTypes ==
  ASSUME NEW S, NEW q \in Seq(S)
  PROVE  /\ \A x \in S : Append(q, x) \in Seq(S)
         /\ q # <<>> => Tail(q) \in Seq(S) /\ Head(q) \in S
BY HeadTailProperties, AppendProperties

(***************************************************************************)
(* One more in a table of counters.                                        *)
(***************************************************************************)
LEMMA CountUp ==
  ASSUME NEW S, NEW g \in [S -> [S -> Nat]], NEW j \in S, NEW k \in S,
         NEW h, h = [g EXCEPT ![j][k] = @ + 1]
  PROVE  /\ h \in [S -> [S -> Nat]]
         /\ h[j][k] = g[j][k] + 1
         /\ \A m \in S, n \in S : m # j \/ n # k => h[m][n] = g[m][n]
OBVIOUS

(***************************************************************************)
(* Whoever joins a queue does not displace its head.                       *)
(***************************************************************************)
LEMMA HeadStays ==
  ASSUME NEW S, NEW q \in Seq(S), q # <<>>, NEW x
  PROVE  Append(q, x) # <<>> /\ Head(Append(q, x)) = Head(q)
OBVIOUS

(***************************************************************************)
(* A line that is read is counted for the script it is read for.           *)
(***************************************************************************)
LEMMA GotTypes ==
  ASSUME TypeOK, NEW j \in Scripts, ReadStdout(j)
  PROVE  got' \in [Scripts -> [Scripts -> Nat]]
<1> DEFINE Item == [of : Scripts, end : BOOLEAN]
           k == Head(stdout).of
<1>1. stdout \in Seq(Item) /\ stdout # <<>>
  BY DEF ReadStdout, TypeOK
<1>2. Head(stdout) \in Item
  BY <1>1, SeqTypes
<1>3. k \in Scripts /\ got \in [Scripts -> [Scripts -> Nat]]
  BY <1>2 DEF TypeOK
<1>4. got' = got \/ got' = [got EXCEPT ![j][k] = @ + 1]
  BY DEF ReadStdout
<1> HIDE DEF k, Item
<1>5. [got EXCEPT ![j][k] = @ + 1] \in [Scripts -> [Scripts -> Nat]]
  BY <1>3, CountUp
<1> QED
  BY <1>3, <1>4, <1>5

(***************************************************************************)
(* Every step keeps every variable's type.                                 *)
(***************************************************************************)
LEMMA TypeStep ==
  ASSUME PersistentRAssumption, TypeOK, Holding, [Next]_vars
  PROVE  TypeOK'
<1> USE DEF PersistentRAssumption, TypeOK, Requests, Scripts, Phases, Results, Move, Return,
        child_, ghosts, RVars
<1>1. ASSUME NEW q \in Requests, Request(q) PROVE TypeOK'
  <2>1. queue' \in Seq(Requests)
    BY <1>1, SeqTypes DEF Request
  <2>2. target' \in [Interrupts -> Jobs \cup {NoOne}]
    <3>1. ASSUME NEW j \in Jobs, Reading(j) PROVE Head(queue) = j
      BY <3>1 DEF Reading, Holds
    <3> DEFINE aim == IF \E j \in Jobs : Reading(j) THEN Head(queue) ELSE NoOne
    <3>2. aim \in Jobs \cup {NoOne}
      BY <3>1
    <3>3. target' = target \/ target' = [target EXCEPT ![q] = aim]
      BY <1>1 DEF Request
    <3> HIDE DEF aim
    <3> QED
      BY <3>2, <3>3
  <2> QED
    BY <1>1, <2>1, <2>2 DEF Request
<1>2. ASSUME NEW j \in Jobs, BeginJob(j) PROVE TypeOK'
  BY <1>2 DEF BeginJob
<1>3. ASSUME Signal PROVE child' \in {"none", "alive", "exited"} /\ stdin' \in Seq(Scripts)
                          /\ block' \in Scripts \cup {NoOne} /\ flag' \in BOOLEAN
                          /\ UNCHANGED <<stdout, stderr>>
  <2>1. <<>> \in Seq(Scripts)
    BY EmptySeq
  <2> QED
    BY <1>3, <2>1 DEF Signal, Sigint, Exit
<1>4. ASSUME NEW s \in Resets, ResetInterrupt(s) PROVE TypeOK'
  BY <1>3, <1>4 DEF ResetInterrupt
<1>5. ASSUME NEW q \in Requests, NEW from, NEW outcome \in Results, Return(q, from, outcome),
             from # "queued" => from \in {"ensure", "write", "read", "drain"},
             from = "queued" => Holds(q)
      PROVE  /\ queue' \in Seq(Requests)
             /\ phase' \in [Requests -> Phases]
             /\ result' \in [Requests -> Results]
  <2>1. queue # <<>>
    BY <1>5 DEF Holding, Holds
  <2>2. queue' \in Seq(Requests)
    BY <1>5, <2>1, SeqTypes
  <2> QED
    BY <1>5, <2>2
<1>6. ASSUME NEW i \in Interrupts, Interrupt(i) PROVE TypeOK'
  <2>1. Signal /\ Holds(i) /\ UNCHANGED <<ghosts, got, marked, target>>
    BY <1>6 DEF Interrupt
  <2>2. \E o \in Results : Return(i, "queued", o)
    BY <1>6 DEF Interrupt
  <2>3. queue' \in Seq(Requests) /\ phase' \in [Requests -> Phases]
        /\ result' \in [Requests -> Results]
    BY <1>5, <2>1, <2>2
  <2> QED
    BY <1>3, <2>1, <2>3
<1>7. ASSUME NEW j \in Scripts, EnsureChild(j) PROVE TypeOK'
  <2>1. <<>> \in Seq(Scripts) /\ <<>> \in Seq([of : Scripts, end : BOOLEAN])
    BY EmptySeq
  <2> QED
    BY <1>7, <2>1 DEF EnsureChild
<1>8. ASSUME NEW j \in Scripts, SpawnFails(j) \/ WriteFails(j) \/ Timeout(j) PROVE TypeOK'
  <2>1. PICK from \in {"ensure", "write", "read"}, o \in Results : Return(j, from, o)
    BY <1>8 DEF SpawnFails, WriteFails, Timeout
  <2>2. queue' \in Seq(Requests) /\ phase' \in [Requests -> Phases]
        /\ result' \in [Requests -> Results]
    BY <1>5, <2>1
  <2>3. UNCHANGED <<child_, flag, ghosts, got, marked, target>>
    BY <1>8 DEF SpawnFails, WriteFails, Timeout
  <2> QED
    BY <2>2, <2>3
<1>9. ASSUME NEW j \in Scripts, WriteBlock(j) PROVE TypeOK'
  BY <1>9, SeqTypes DEF WriteBlock
<1>10. ASSUME NEW j \in Scripts, ReadStdout(j) PROVE TypeOK'
  <2> DEFINE Item == [of : Scripts, end : BOOLEAN]
  <2>1. stdout \in Seq(Item) /\ stdout # <<>> /\ stdout' = Tail(stdout)
    BY <1>10 DEF ReadStdout
  <2>2. stdout' \in Seq(Item) /\ Head(stdout) \in Item
    BY <2>1, SeqTypes
  <2>3. got' \in [Scripts -> [Scripts -> Nat]]
    BY <1>10, GotTypes
  <2>4. phase' = phase \/ phase' = [phase EXCEPT ![j] = "drain"]
    BY <1>10 DEF ReadStdout
  <2>5. phase' \in [Requests -> Phases]
    BY <2>4
  <2>6. UNCHANGED <<queue, result, child, stdin, block, stderr, flag, ghosts, marked, target>>
    BY <1>10 DEF ReadStdout
  <2> QED
    BY <2>2, <2>3, <2>5, <2>6
<1>11. ASSUME NEW j \in Scripts, StdoutEof(j) PROVE TypeOK'
  BY <1>11 DEF StdoutEof
<1>12. ASSUME NEW j \in Scripts, ReadStderr(j) \/ DrainStderr(j) PROVE TypeOK'
  <2>1. stderr \in Seq(Scripts) /\ stderr # <<>> /\ stderr' = Tail(stderr)
    BY <1>12 DEF ReadStderr, DrainStderr
  <2>2. stderr' \in Seq(Scripts)
    BY <2>1, SeqTypes
  <2> QED
    BY <1>12, <2>2 DEF ReadStderr, DrainStderr
<1>20. ASSUME NEW j \in Scripts, ReadFails(j) PROVE TypeOK'
  <2> DEFINE Item == [of : Scripts, end : BOOLEAN]
  <2>1. PICK from \in {"read", "drain"} : Return(j, from, "unread")
    BY <1>20 DEF ReadFails
  <2>2. queue' \in Seq(Requests) /\ phase' \in [Requests -> Phases]
        /\ result' \in [Requests -> Results]
    BY <1>5, <2>1
  <2>3. stdout \in Seq(Item) /\ stderr \in Seq(Scripts)
    OBVIOUS
  <2>4. /\ stdout' = stdout \/ (stdout # <<>> /\ stdout' = Tail(stdout))
        /\ stderr' = stderr \/ (stderr # <<>> /\ stderr' = Tail(stderr))
        /\ UNCHANGED <<child, stdin, block, flag, ghosts, got, marked, target>>
    BY <1>20 DEF ReadFails
  <2>5. stdout' \in Seq(Item)
    <3>1. stdout # <<>> => Tail(stdout) \in Seq(Item)
      BY <2>3, SeqTypes
    <3> QED
      BY ONLY <2>3, <2>4, <3>1
  <2>6. stderr' \in Seq(Scripts)
    <3>1. stderr # <<>> => Tail(stderr) \in Seq(Scripts)
      BY <2>3, SeqTypes
    <3> QED
      BY ONLY <2>3, <2>4, <3>1
  <2> QED
    BY <2>2, <2>4, <2>5, <2>6
<1>13. ASSUME NEW j \in Scripts, Finish(j) PROVE TypeOK'
  <2>1. Outcome(j) \in Results /\ Return(j, "drain", Outcome(j))
    BY <1>13 DEF Finish, Outcome
  <2>2. queue' \in Seq(Requests) /\ phase' \in [Requests -> Phases]
        /\ result' \in [Requests -> Results]
    BY <1>5, <2>1
  <2> QED
    BY <1>13, <2>2 DEF Finish
<1>14. ASSUME TakeBlock PROVE TypeOK'
  BY <1>14, SeqTypes DEF TakeBlock
<1>15. ASSUME PrintLine PROVE TypeOK'
  <2>1. [of |-> block, end |-> FALSE] \in [of : Scripts, end : BOOLEAN]
    BY <1>15 DEF PrintLine
  <2>2. stdout' \in Seq([of : Scripts, end : BOOLEAN])
    BY <1>15, <2>1, SeqTypes DEF PrintLine
  <2>3. printed' \in [Scripts -> 0 .. MaxLines]
    BY <1>15 DEF PrintLine
  <2> QED
    BY <1>15, <2>2, <2>3 DEF PrintLine
<1>16. ASSUME RaiseError PROVE TypeOK'
  <2>1. block \in Scripts /\ UNCHANGED <<RVars, child, stdin, block, stdout, printed>>
    BY <1>16 DEF RaiseError
  <2>2. raised' \subseteq Scripts
    BY <1>16, <2>1 DEF RaiseError
  <2>3. stderr' \in Seq(Scripts)
    BY <1>16, <2>1, SeqTypes DEF RaiseError
  <2> QED
    BY <2>1, <2>2, <2>3
<1>17. ASSUME EndBlock PROVE TypeOK'
  <2>1. [of |-> block, end |-> TRUE] \in [of : Scripts, end : BOOLEAN]
    BY <1>17 DEF EndBlock
  <2>2. stdout' \in Seq([of : Scripts, end : BOOLEAN])
    BY <1>17, <2>1, SeqTypes DEF EndBlock
  <2> QED
    BY <1>17, <2>2 DEF EndBlock
<1>18. ASSUME Quit PROVE TypeOK'
  <2>1. <<>> \in Seq(Scripts)
    BY EmptySeq
  <2> QED
    BY <1>18, <2>1 DEF Quit, Exit
<1>19. CASE UNCHANGED vars
  BY <1>19 DEF vars
<1> QED
  BY <1>1, <1>2, <1>4, <1>6, <1>7, <1>8, <1>9, <1>10, <1>11, <1>12, <1>13, <1>14, <1>15, <1>16,
     <1>17, <1>18, <1>19, <1>20 DEF Next, Serve, ScriptStep, RStep

(***************************************************************************)
(* Only its holder moves on under the lock, and a holder that is begun     *)
(* keeps it until it returns.                                              *)
(***************************************************************************)
LEMMA HoldingStep ==
  ASSUME PersistentRAssumption, TypeOK, Holding, [Next]_vars
  PROVE  Holding'
<1> DEFINE Begun == {"ensure", "write", "read", "drain"}
<1>1. /\ phase \in [Requests -> Phases] /\ queue \in Seq(Requests)
      /\ Jobs \subseteq Requests /\ Resets \subseteq Requests /\ Scripts \subseteq Requests
      /\ Interrupts \subseteq Requests
  BY DEF TypeOK, Requests, Scripts
<1>2. ASSUME NEW q \in Requests, Request(q) PROVE Holding'
  <2>1. \A r \in Requests : phase'[r] \in Begun => phase[r] \in Begun
    BY <1>1, <1>2 DEF Request, Move
  <2>2. ASSUME NEW r \in Requests, Holds(r) PROVE Holds(r)'
    BY <1>1, <1>2, <2>2, HeadStays DEF Request, Holds
  <2> QED
    BY <2>1, <2>2 DEF Holding
<1>3. ASSUME NEW q \in Requests, NEW from, NEW to, Move(q, from, to), Holds(q), UNCHANGED queue
      PROVE  Holding'
  BY <1>1, <1>3 DEF Holding, Holds, Move
<1>4. ASSUME NEW q \in Requests, NEW from, NEW outcome, Return(q, from, outcome), Holds(q)
      PROVE  Holding'
  BY <1>1, <1>4 DEF Holding, Holds, Move, Return
<1>5. ASSUME UNCHANGED <<phase, queue>> PROVE Holding'
  BY <1>5 DEF Holding, Holds
<1>6. ASSUME NEW j \in Jobs, BeginJob(j) PROVE Holding'
  BY <1>1, <1>3, <1>6 DEF BeginJob
<1>7. ASSUME NEW s \in Resets, ResetInterrupt(s) PROVE Holding'
  BY <1>1, <1>3, <1>7 DEF ResetInterrupt
<1>8. ASSUME NEW i \in Interrupts, Interrupt(i) PROVE Holding'
  BY <1>1, <1>4, <1>8 DEF Interrupt
<1>9. ASSUME NEW j \in Scripts, ScriptStep(j) PROVE Holding'
  <2>1. CASE phase[j] \in Begun /\ Holds(j)
    BY <1>1, <1>3, <1>4, <1>5, <1>9, <2>1
       DEF ScriptStep, EnsureChild, SpawnFails, WriteBlock, WriteFails, ReadStdout, StdoutEof,
           ReadStderr, Timeout, ReadFails, DrainStderr, Finish
  <2>2. phase[j] \in Begun
    BY <1>9 DEF ScriptStep, EnsureChild, SpawnFails, WriteBlock, WriteFails, ReadStdout, StdoutEof,
           ReadStderr, Timeout, ReadFails, DrainStderr, Finish, Move, Return
  <2> QED
    BY <1>1, <2>1, <2>2 DEF Holding
<1>10. ASSUME RStep PROVE Holding'
  BY <1>5, <1>10 DEF RStep, TakeBlock, PrintLine, RaiseError, EndBlock, Quit, RVars
<1>11. CASE UNCHANGED vars
  BY <1>5, <1>11 DEF vars
<1> QED
  BY <1>2, <1>6, <1>7, <1>8, <1>9, <1>10, <1>11 DEF Next, Serve

(***************************************************************************)
(* A result is written by the step that ends the request.                  *)
(***************************************************************************)
LEMMA FreshStep ==
  ASSUME PersistentRAssumption, TypeOK, Fresh, [Next]_vars
  PROVE  Fresh'
<1>1. phase \in [Requests -> Phases] /\ result \in [Requests -> Results]
  BY DEF TypeOK
<1>2. ASSUME NEW q \in Requests, NEW from, NEW outcome, Return(q, from, outcome)
      PROVE  Fresh'
  BY <1>1, <1>2 DEF Fresh, Return, Move
<1>3. ASSUME NEW q \in Requests, NEW from, NEW to, from # "over", Move(q, from, to),
             UNCHANGED result
      PROVE  Fresh'
  BY <1>1, <1>3 DEF Fresh, Move
<1>4. ASSUME UNCHANGED <<phase, result>> PROVE Fresh'
  BY <1>4 DEF Fresh
<1>5. ASSUME NEW q \in Requests, Request(q) PROVE Fresh'
  BY <1>3, <1>5 DEF Request
<1>6. ASSUME NEW q \in Requests, BeginJob(q) \/ ResetInterrupt(q) PROVE Fresh'
  BY <1>3, <1>6 DEF BeginJob, ResetInterrupt
<1>7. ASSUME NEW i \in Requests, Interrupt(i) PROVE Fresh'
  BY <1>2, <1>7 DEF Interrupt
<1>8. ASSUME NEW j \in Requests, ScriptStep(j) PROVE Fresh'
  BY <1>2, <1>3, <1>4, <1>8
     DEF ScriptStep, EnsureChild, SpawnFails, WriteBlock, WriteFails, ReadStdout, StdoutEof,
         ReadStderr, Timeout, ReadFails, DrainStderr, Finish
<1>9. ASSUME RStep PROVE Fresh'
  BY <1>4, <1>9 DEF RStep, TakeBlock, PrintLine, RaiseError, EndBlock, Quit, RVars
<1>10. CASE UNCHANGED vars
  BY <1>4, <1>10 DEF vars
<1> QED
  BY <1>5, <1>6, <1>7, <1>8, <1>9, <1>10 DEF Next, Serve

(***************************************************************************)
(* A block is given to a live process only and goes with it.               *)
(***************************************************************************)
LEMMA DeadStep ==
  ASSUME TypeOK, Dead, [Next]_vars
  PROVE  Dead'
<1>1. ASSUME NEW q \in Requests, Request(q) \/ Serve(q) PROVE Dead'
  BY <1>1 DEF Dead, Request, Serve, BeginJob, ResetInterrupt, Interrupt, Signal, Sigint, Exit,
      ScriptStep, EnsureChild, SpawnFails, WriteBlock, WriteFails, ReadStdout, StdoutEof,
      ReadStderr, Timeout, ReadFails, DrainStderr, Finish, child_
<1>2. ASSUME RStep PROVE Dead'
  BY <1>2 DEF Dead, RStep, TakeBlock, PrintLine, RaiseError, EndBlock, Quit, Exit
<1>3. CASE UNCHANGED vars
  BY <1>3 DEF Dead, vars, child_
<1> QED
  BY <1>1, <1>2, <1>3 DEF Next

-----------------------------------------------------------------------------
(* One victim per interrupt.                                               *)

Victims == {j \in Scripts : result[j] = "interrupted"}
Sent == {q \in Interrupts : result[q] = "sent"}
Restarting == {s \in Resets : phase[s] \notin {"idle", "queued"}}

\* The victims, and the one the raised flag will make, are paid for.
Paid ==
  Cardinality(Victims) + (IF flag THEN 1 ELSE 0) <= Cardinality(Sent) + Cardinality(Restarting)

(***************************************************************************)
(* The three sets are finite.                                              *)
(***************************************************************************)
LEMMA FiniteCounts ==
  ASSUME PersistentRAssumption
  PROVE  /\ IsFiniteSet(Victims) /\ IsFiniteSet(Sent) /\ IsFiniteSet(Restarting)
         /\ Cardinality(Victims) \in Nat /\ Cardinality(Sent) \in Nat
         /\ Cardinality(Restarting) \in Nat
<1>1. IsFiniteSet(Scripts)
  BY FS_Union DEF PersistentRAssumption, Scripts
<1>2. Victims \subseteq Scripts /\ Sent \subseteq Interrupts /\ Restarting \subseteq Resets
  BY DEF Victims, Sent, Restarting
<1>3. IsFiniteSet(Victims) /\ IsFiniteSet(Sent) /\ IsFiniteSet(Restarting)
  BY <1>1, <1>2, FS_Subset DEF PersistentRAssumption
<1> QED
  BY <1>3, FS_CardinalityType

(***************************************************************************)
(* Every interrupt that raises the flag is counted, and the flag is taken  *)
(* down by the script that is reported as interrupted.                     *)
(***************************************************************************)
LEMMA PaidStep ==
  ASSUME PersistentRAssumption, TypeOK, Fresh, Paid, [Next]_vars
  PROVE  Paid'
<1>1. /\ phase \in [Requests -> Phases] /\ result \in [Requests -> Results] /\ flag \in BOOLEAN
      /\ Scripts \subseteq Requests /\ Interrupts \subseteq Requests
      /\ Jobs \cap Resets = {} /\ Interrupts \cap Scripts = {}
      /\ Resets \subseteq Scripts /\ Jobs \subseteq Scripts
  BY DEF TypeOK, Requests, Scripts, PersistentRAssumption
<1>2. ASSUME Victims' = Victims, Sent' = Sent, Restarting' = Restarting, flag' = flag
      PROVE  Paid'
  BY <1>2 DEF Paid
<1>3. ASSUME NEW q \in Requests, Request(q) PROVE Paid'
  <2>1. result' = result /\ flag' = flag /\ phase' = [phase EXCEPT ![q] = "queued"]
        /\ phase[q] = "idle"
    BY <1>3 DEF Request, Move
  <2>2. Restarting' = Restarting
    BY <1>1, <2>1 DEF Restarting
  <2>3. Victims' = Victims /\ Sent' = Sent
    BY <2>1 DEF Victims, Sent
  <2> QED
    BY <1>2, <2>1, <2>2, <2>3
<1>4. ASSUME NEW j \in Jobs, BeginJob(j) PROVE Paid'
  <2>1. result' = result /\ flag' = flag /\ phase' = [phase EXCEPT ![j] = "ensure"]
    BY <1>4 DEF BeginJob, Move
  <2>2. Restarting' = Restarting
    BY <1>1, <2>1 DEF Restarting
  <2>3. Victims' = Victims /\ Sent' = Sent
    BY <2>1 DEF Victims, Sent
  <2> QED
    BY <1>2, <2>1, <2>2, <2>3
<1>5. ASSUME NEW s \in Resets, ResetInterrupt(s) PROVE Paid'
  <2>1. result' = result /\ phase[s] = "queued" /\ phase' = [phase EXCEPT ![s] = "ensure"]
        /\ flag' \in {flag, TRUE}
    BY <1>5 DEF ResetInterrupt, Move, Signal
  <2>2. Restarting' = Restarting \cup {s} /\ s \notin Restarting
    BY <1>1, <2>1 DEF Restarting
  <2>3. Cardinality(Restarting') = Cardinality(Restarting) + 1
    BY <2>2, FiniteCounts, FS_AddElement
  <2>4. Victims' = Victims /\ Sent' = Sent
    BY <2>1 DEF Victims, Sent
  <2> QED
    BY <1>1, <2>1, <2>3, <2>4, FiniteCounts DEF Paid
<1>6. ASSUME NEW i \in Interrupts, Interrupt(i) PROVE Paid'
  <2>1. /\ phase[i] = "queued" /\ phase' = [phase EXCEPT ![i] = "over"]
        /\ result' = [result EXCEPT ![i] = IF child = "none" THEN "failed" ELSE "sent"]
        /\ result[i] = "none"
    BY <1>1, <1>6 DEF Interrupt, Return, Move, Fresh
  <2>2. Victims' = Victims /\ Restarting' = Restarting
    BY <1>1, <2>1 DEF Victims, Restarting
  <2>3. CASE child = "none"
    <3>1. Sent' = Sent /\ flag' = flag
      BY <1>1, <1>6, <2>1, <2>3 DEF Sent, Interrupt, Signal
    <3> QED
      BY <1>2, <2>2, <3>1
  <2>4. CASE child # "none"
    <3>1. Sent' = Sent \cup {i} /\ i \notin Sent /\ flag' = TRUE
      BY <1>1, <1>6, <2>1, <2>4 DEF Sent, Interrupt, Signal
    <3>2. Cardinality(Sent') = Cardinality(Sent) + 1
      BY <3>1, FiniteCounts, FS_AddElement
    <3> QED
      BY <1>1, <2>2, <3>1, <3>2, FiniteCounts DEF Paid
  <2> QED
    BY <2>3, <2>4
<1>7. ASSUME NEW j \in Scripts, NEW from \in {"ensure", "write", "read", "drain"},
             NEW outcome \in {"ok", "failed", "interrupted", "timeout", "unread", "broken"},
             Return(j, from, outcome)
      PROVE  /\ Sent' = Sent /\ Restarting' = Restarting /\ j \notin Victims
             /\ Victims' = IF outcome = "interrupted" THEN Victims \cup {j} ELSE Victims
  <2>1. /\ phase[j] = from /\ phase' = [phase EXCEPT ![j] = "over"]
        /\ result' = [result EXCEPT ![j] = outcome] /\ result[j] = "none"
    BY <1>1, <1>7 DEF Return, Move, Fresh
  <2> QED
    BY <1>1, <2>1 DEF Sent, Restarting, Victims
<1>8. ASSUME NEW j \in Scripts, SpawnFails(j) \/ WriteFails(j) \/ Timeout(j) \/ ReadFails(j)
      PROVE  Paid'
  <2>1. PICK from \in {"ensure", "write", "read", "drain"}, o \in {"broken", "timeout", "unread"} :
             Return(j, from, o)
    BY <1>8 DEF SpawnFails, WriteFails, Timeout, ReadFails
  <2>2. flag' = flag
    BY <1>8 DEF SpawnFails, WriteFails, Timeout, ReadFails
  <2> QED
    BY <1>2, <1>7, <2>1, <2>2
<1>9. ASSUME NEW j \in Scripts, Finish(j) PROVE Paid'
  <2>1. /\ Return(j, "drain", Outcome(j)) /\ flag' = FALSE
        /\ Outcome(j) \in {"ok", "failed", "interrupted"} /\ (Outcome(j) = "interrupted" <=> flag)
    BY <1>9 DEF Finish, Outcome
  <2>2. /\ Sent' = Sent /\ Restarting' = Restarting /\ j \notin Victims
        /\ Victims' = IF flag THEN Victims \cup {j} ELSE Victims
    BY <1>7, <2>1
  <2>3. Cardinality(Victims') = Cardinality(Victims) + (IF flag THEN 1 ELSE 0)
    <3>1. CASE flag
      BY <2>2, <3>1, FiniteCounts, FS_AddElement
    <3>2. CASE ~flag
      BY <2>2, <3>2, FiniteCounts
    <3> QED
      BY <3>1, <3>2
  <2> QED
    BY <1>1, <2>1, <2>2, <2>3, FiniteCounts DEF Paid
<1>10. ASSUME NEW j \in Scripts, NEW from \in {"ensure", "write", "read", "drain"},
              NEW to \in {"ensure", "write", "read", "drain"},
              Move(j, from, to) \/ phase' = phase, UNCHANGED <<result, flag>>
       PROVE  Paid'
  <2>1. Restarting' = Restarting
    BY <1>1, <1>10 DEF Restarting, Move
  <2>2. Victims' = Victims /\ Sent' = Sent
    BY <1>10 DEF Victims, Sent
  <2> QED
    BY <1>2, <1>10, <2>1, <2>2
<1>11. ASSUME NEW j \in Scripts, ScriptStep(j) PROVE Paid'
  BY <1>8, <1>9, <1>10, <1>11
     DEF ScriptStep, EnsureChild, WriteBlock, ReadStdout, StdoutEof, ReadStderr, DrainStderr
<1>12. ASSUME UNCHANGED <<phase, result, flag>> PROVE Paid'
  BY <1>2, <1>12 DEF Victims, Sent, Restarting
<1>13. ASSUME RStep PROVE Paid'
  BY <1>12, <1>13 DEF RStep, TakeBlock, PrintLine, RaiseError, EndBlock, Quit, RVars
<1>14. CASE UNCHANGED vars
  BY <1>12, <1>14 DEF vars
<1> QED
  BY <1>3, <1>4, <1>5, <1>6, <1>11, <1>13, <1>14 DEF Next, Serve

-----------------------------------------------------------------------------
(* Output is a script's own.                                               *)

(***************************************************************************)
(* The elements of a sequence that grew by one.                            *)
(***************************************************************************)
LEMMA Grown ==
  ASSUME NEW S, NEW q \in Seq(S), NEW x \in S, NEW r, r = Append(q, x)
  PROVE  /\ Len(r) = Len(q) + 1 /\ r # <<>> /\ r[Len(r)] = x /\ Len(q) \in Nat
         /\ \A i \in DOMAIN r : (i \in DOMAIN q /\ r[i] = q[i]) \/ i = Len(r)
OBVIOUS

(***************************************************************************)
(* The elements of a sequence that lost its first.                         *)
(***************************************************************************)
LEMMA Shrunk ==
  ASSUME NEW S, NEW q \in Seq(S), q # <<>>, NEW r, r = Tail(q)
  PROVE  /\ Len(q) \in Nat /\ Len(q) >= 1 /\ Len(r) = Len(q) - 1 /\ r \in Seq(S)
         /\ 1 \in DOMAIN q /\ Head(q) = q[1]
         /\ \A i \in DOMAIN r : i + 1 \in DOMAIN q /\ r[i] = q[i + 1] /\ i \in Nat
         /\ r = <<>> <=> Len(q) = 1
<1>1. Len(q) \in Nat /\ Len(q) >= 1 /\ 1 \in DOMAIN q /\ Head(q) = q[1]
  OBVIOUS
<1>2. r \in Seq(S) /\ Len(r) = Len(q) - 1 /\ DOMAIN r = 1 .. Len(q) - 1
  BY <1>1, HeadTailProperties
<1>3. \A i \in 1 .. Len(q) - 1 : i + 1 \in DOMAIN q /\ r[i] = q[i + 1] /\ i \in Nat
  BY <1>1, HeadTailProperties
<1>4. r = <<>> <=> Len(q) = 1
  BY <1>1, <1>2, EmptySeq
<1> QED
  BY <1>1, <1>2, <1>3, <1>4

(***************************************************************************)
(* An element of a sequence over a set is in the set.                      *)
(***************************************************************************)
LEMMA InSequence ==
  ASSUME NEW S, NEW q \in Seq(S), NEW i \in DOMAIN q
  PROVE  q[i] \in S
OBVIOUS

(***************************************************************************)
(* What R and its pipes hold belongs to scripts.                           *)
(***************************************************************************)
LEMMA Elements ==
  ASSUME TypeOK
  PROVE  /\ \A i \in DOMAIN stdin : stdin[i] \in Scripts
         /\ \A i \in DOMAIN stderr : stderr[i] \in Scripts
         /\ \A i \in DOMAIN stdout : stdout[i] \in [of : Scripts, end : BOOLEAN]
         /\ \A i \in DOMAIN stdout : stdout[i].of \in Scripts /\ stdout[i].end \in BOOLEAN
<1>1. /\ stdin \in Seq(Scripts) /\ stderr \in Seq(Scripts)
      /\ stdout \in Seq([of : Scripts, end : BOOLEAN])
  BY DEF TypeOK
<1>2. /\ \A i \in DOMAIN stdin : stdin[i] \in Scripts
      /\ \A i \in DOMAIN stderr : stderr[i] \in Scripts
      /\ \A i \in DOMAIN stdout : stdout[i] \in [of : Scripts, end : BOOLEAN]
  BY <1>1, InSequence
<1> QED
  BY <1>2

(***************************************************************************)
(* A sequence without an index is empty.                                   *)
(***************************************************************************)
LEMMA EmptyWhenNone ==
  ASSUME NEW S, NEW q \in Seq(S), \A i \in DOMAIN q : FALSE
  PROVE  q = <<>>
<1>1. Len(q) \in Nat /\ DOMAIN q = 1 .. Len(q)
  OBVIOUS
<1>2. Len(q) = 0
  BY <1>1
<1> QED
  BY <1>2, EmptySeq

(***************************************************************************)
(* Only one script is read for, and it holds the executor.                 *)
(***************************************************************************)
LEMMA OneReader ==
  ASSUME TypeOK, Holding, NEW q \in Requests, Holds(q),
         NEW k \in Requests, phase[k] \in {"ensure", "write", "read", "drain"}
  PROVE  k = q
BY DEF Holding, Holds

(***************************************************************************)
(* Whoever holds the executor and reads nothing finds R idle and the pipes *)
(* empty; after the delimiter only stderr may hold something yet.          *)
(***************************************************************************)
LEMMA QuietPipes ==
  ASSUME TypeOK, Holding, Current, NEW q \in Requests, Holds(q), phase[q] # "read"
  PROVE  /\ stdin = <<>> /\ block = NoOne /\ stdout = <<>>
         /\ phase[q] # "drain" => stderr = <<>>
<1>1. \A k \in Scripts : k \in Requests
  BY DEF Requests
<1>2. \A k \in Scripts : phase[k] # "read"
  BY <1>1, OneReader
<1>3. \A k \in Scripts : phase[k] = "drain" => phase[q] = "drain"
  BY <1>1, OneReader
<1>4. /\ stdin \in Seq(Scripts) /\ stderr \in Seq(Scripts)
      /\ stdout \in Seq([of : Scripts, end : BOOLEAN]) /\ block \in Scripts \cup {NoOne}
  BY DEF TypeOK
<1>5. stdin = <<>>
  <2>1. \A i \in DOMAIN stdin : FALSE
    BY <1>2, <1>4 DEF Current
  <2> QED
    BY <1>4, <2>1, EmptyWhenNone
<1>6. stdout = <<>>
  <2>1. \A i \in DOMAIN stdout : FALSE
    BY <1>2, Elements DEF Current
  <2> QED
    BY <1>4, <2>1, EmptyWhenNone
<1>7. ASSUME phase[q] # "drain" PROVE stderr = <<>>
  <2>1. \A i \in DOMAIN stderr : FALSE
    BY <1>2, <1>3, <1>4, <1>7 DEF Current
  <2> QED
    BY <1>4, <2>1, EmptyWhenNone
<1>8. block = NoOne
  BY <1>2, <1>4 DEF Current
<1> QED
  BY <1>5, <1>6, <1>7, <1>8

(***************************************************************************)
(* A script that was given up stays so.                                    *)
(***************************************************************************)
LEMMA AbandonedStays ==
  ASSUME PersistentRAssumption, TypeOK, Fresh, [Next]_vars, Abandoned' = {}
  PROVE  Abandoned = {}
<1>1. /\ phase \in [Requests -> Phases] /\ result \in [Requests -> Results]
      /\ Scripts \subseteq Requests
  BY DEF TypeOK, Requests
<1>2. ASSUME NEW q \in Requests, NEW from, NEW outcome, from # "over", Return(q, from, outcome)
      PROVE  Abandoned \subseteq Abandoned'
  BY <1>1, <1>2 DEF Fresh, Return, Move, Abandoned
<1>3. ASSUME UNCHANGED result PROVE Abandoned \subseteq Abandoned'
  BY <1>3 DEF Abandoned
<1>4. ASSUME NEW q \in Requests, Request(q) \/ BeginJob(q) \/ ResetInterrupt(q) \/ Interrupt(q)
      PROVE  Abandoned \subseteq Abandoned'
  BY <1>2, <1>3, <1>4 DEF Request, BeginJob, ResetInterrupt, Interrupt
<1>5. ASSUME NEW j \in Requests, ScriptStep(j) PROVE Abandoned \subseteq Abandoned'
  BY <1>2, <1>3, <1>5
     DEF ScriptStep, EnsureChild, SpawnFails, WriteBlock, WriteFails, ReadStdout, StdoutEof,
         ReadStderr, Timeout, ReadFails, DrainStderr, Finish
<1>6. ASSUME RStep \/ UNCHANGED vars PROVE Abandoned \subseteq Abandoned'
  BY <1>3, <1>6 DEF RStep, TakeBlock, PrintLine, RaiseError, EndBlock, Quit, RVars, vars
<1> QED
  BY <1>4, <1>5, <1>6 DEF Next, Serve

(***************************************************************************)
(* A step of a request that finds R idle and its pipes empty, leaves them  *)
(* so, and reads nothing.                                                  *)
(***************************************************************************)
LEMMA IdleStep ==
  ASSUME TypeOK, Clean, NEW q \in Requests,
         stdin' = <<>>, block' = NoOne, stdout' = <<>>, stderr' = <<>>,
         NEW from, phase[q] = from, NEW to, phase' = [phase EXCEPT ![q] = to],
         to # "read",
         to # "drain",
         to \in {"idle", "queued", "ensure", "write"} =>
           from \in {"idle", "queued", "ensure", "write"},
         \A k \in Scripts : phase[k] = "read" => k = q,
         NEW outcome, result' = [result EXCEPT ![q] = outcome],
         q \in Scripts /\ outcome \in {"ok", "failed", "interrupted"}
           => from = "drain" \/ outcome = result[q],
         UNCHANGED <<printed, raised, got, marked>>
  PROVE  Clean'
<1>1. /\ phase \in [Requests -> Phases] /\ result \in [Requests -> Results]
      /\ Scripts \subseteq Requests
  BY DEF TypeOK, Requests
<1>2. Len(stdin') = 0 /\ DOMAIN stdin' = {} /\ DOMAIN stdout' = {} /\ DOMAIN stderr' = {}
  OBVIOUS
<1>3. Current' /\ Once'
  BY <1>2 DEF Current, Once
<1>4. Counted'
  BY <1>1 DEF Clean, Counted
<1>5. Private'
  BY DEF Clean, Private
<1> QED
  BY <1>3, <1>4, <1>5 DEF Clean

(***************************************************************************)
(* The steps of a request that find nothing of another script.             *)
(***************************************************************************)
LEMMA CleanQuiet ==
  ASSUME PersistentRAssumption, TypeOK, Holding, Fresh, Clean, NEW q \in Requests,
         \/ BeginJob(q) \/ ResetInterrupt(q) \/ (Interrupt(q) /\ q \in Interrupts)
         \/ EnsureChild(q) \/ SpawnFails(q) \/ WriteFails(q) \/ Finish(q)
  PROVE  Clean'
<1>1. /\ phase[q] \in {"queued", "ensure", "write", "drain"} /\ Holds(q)
      /\ phase[q] = "drain" => stderr = <<>>
  BY DEF BeginJob, ResetInterrupt, Interrupt, EnsureChild, SpawnFails, WriteFails, Finish, Move,
         Return, Holding
<1>2. stdin = <<>> /\ block = NoOne /\ stdout = <<>> /\ stderr = <<>>
  BY <1>1, QuietPipes DEF Clean
<1>3. stdin' = <<>> /\ block' = NoOne /\ stdout' = <<>> /\ stderr' = <<>>
  BY <1>2 DEF BeginJob, ResetInterrupt, Interrupt, EnsureChild, SpawnFails, WriteFails, Finish,
              Signal, Sigint, Exit, child_
<1>4. \A k \in Scripts : phase[k] = "read" => k = q
  BY <1>1, OneReader DEF Requests
<1>5. UNCHANGED <<printed, raised, got, marked>>
  BY DEF BeginJob, ResetInterrupt, Interrupt, EnsureChild, SpawnFails, WriteFails, Finish, ghosts
<1>6. result \in [Requests -> Results]
  BY DEF TypeOK
<1>7. ASSUME NEW from, NEW to, Move(q, from, to), UNCHANGED result, to \in {"ensure", "write"},
             from \in {"queued", "ensure"}
      PROVE  Clean'
  <2>1. result' = [result EXCEPT ![q] = result[q]]
    BY <1>6, <1>7
  <2> QED
    BY <1>3, <1>4, <1>5, <1>7, <2>1, IdleStep DEF Move
<1>8. ASSUME NEW from, NEW outcome, Return(q, from, outcome),
             q \in Scripts /\ outcome \in {"ok", "failed", "interrupted"} => from = "drain"
      PROVE  Clean'
  BY <1>3, <1>4, <1>5, <1>8, IdleStep DEF Return, Move
<1>9. CASE BeginJob(q) \/ ResetInterrupt(q) \/ EnsureChild(q)
  BY <1>7, <1>9 DEF BeginJob, ResetInterrupt, EnsureChild
<1>10. CASE SpawnFails(q) \/ WriteFails(q)
  BY <1>8, <1>10 DEF SpawnFails, WriteFails
<1>11. CASE Interrupt(q) /\ q \in Interrupts
  <2>1. q \notin Scripts
    BY <1>11 DEF PersistentRAssumption, Scripts
  <2>2. \E o : Return(q, "queued", o)
    BY <1>11 DEF Interrupt
  <2> QED
    BY <1>8, <2>1, <2>2
<1>12. CASE Finish(q)
  BY <1>8, <1>12 DEF Finish
<1> QED
  BY <1>9, <1>10, <1>11, <1>12

(***************************************************************************)
(* A request that queues disturbs nobody.                                  *)
(***************************************************************************)
LEMMA CleanRequest ==
  ASSUME TypeOK, Clean, NEW q \in Requests, Request(q)
  PROVE  Clean'
<1>1. /\ phase \in [Requests -> Phases] /\ Scripts \subseteq Requests
      /\ stdin \in Seq(Scripts) /\ stderr \in Seq(Scripts) /\ block \in Scripts \cup {NoOne}
      /\ stdout \in Seq([of : Scripts, end : BOOLEAN])
  BY DEF TypeOK, Requests
<1>2. /\ phase[q] = "idle" /\ phase' = [phase EXCEPT ![q] = "queued"]
      /\ UNCHANGED <<result, child_, printed, raised, got, marked>>
  BY DEF Request, Move, ghosts
<1>3. \A k \in Scripts : phase[k] \in {"read", "drain"} => phase'[k] = phase[k]
  BY <1>1, <1>2
<1>4. UNCHANGED <<stdin, block, stdout, stderr>>
  BY <1>2 DEF child_
<1>5. Current'
  <2>1. block' # NoOne => phase'[block'] = "read"
    BY <1>1, <1>3, <1>4 DEF Clean, Current
  <2>2. \A i \in DOMAIN stdin' : phase'[stdin'[i]] = "read"
    BY <1>3, <1>4, Elements DEF Clean, Current
  <2>3. \A i \in DOMAIN stdout' : phase'[stdout'[i].of] = "read"
    BY <1>3, <1>4, Elements DEF Clean, Current
  <2>4. \A i \in DOMAIN stderr' :
           phase'[stderr'[i]] \in {"read", "drain"} /\ stderr'[i] \in raised'
    BY <1>2, <1>3, <1>4, Elements DEF Clean, Current
  <2> QED
    BY <2>1, <2>2, <2>3, <2>4 DEF Current
<1>6. Counted'
  BY <1>1, <1>2, <1>4 DEF Clean, Counted, Lines
<1>7. Once' /\ Private'
  BY <1>2, <1>4 DEF Clean, Once, Private
<1> QED
  BY <1>5, <1>6, <1>7 DEF Clean

(***************************************************************************)
(* The block of a script is written when there is nothing else about.      *)
(***************************************************************************)
LEMMA CleanWrite ==
  ASSUME TypeOK, Holding, Clean, NEW j \in Scripts, WriteBlock(j)
  PROVE  Clean'
<1>1. /\ phase \in [Requests -> Phases] /\ result \in [Requests -> Results]
      /\ Scripts \subseteq Requests /\ j \in Requests
  BY DEF TypeOK, Requests
<1>2. /\ phase[j] = "write" /\ phase' = [phase EXCEPT ![j] = "read"] /\ Holds(j)
      /\ stdin' = Append(stdin, j)
      /\ UNCHANGED <<result, block, stdout, stderr, printed, raised, got, marked>>
  BY <1>1 DEF WriteBlock, Move, Holding, ghosts
<1>3. stdin = <<>> /\ block = NoOne /\ stdout = <<>> /\ stderr = <<>>
  BY <1>1, <1>2, QuietPipes DEF Clean
<1>4. stdin' = <<j>> /\ Len(stdin') = 1 /\ \A i \in DOMAIN stdin' : stdin'[i] = j
  BY <1>2, <1>3
<1>5. phase'[j] = "read"
  BY <1>1, <1>2
<1>6. Current' /\ Once'
  BY <1>2, <1>3, <1>4, <1>5 DEF Current, Once
<1>7. \A k \in Scripts : phase[k] # "read"
  BY <1>1, <1>2, OneReader
<1>8. Lines' = 0
  BY <1>2, <1>3 DEF Lines
<1>9. Counted'
  BY <1>1, <1>2, <1>7, <1>8 DEF Clean, Counted
<1>10. Private'
  BY <1>2 DEF Clean, Private
<1> QED
  BY <1>6, <1>9, <1>10 DEF Clean

(***************************************************************************)
(* A line that is read is one the reader's own code printed; the delimiter *)
(* is the last of the pipe and leaves nothing behind.                      *)
(***************************************************************************)
LEMMA CleanReadStdout ==
  ASSUME TypeOK, Holding, Clean, NEW j \in Scripts, ReadStdout(j)
  PROVE  Clean'
<1> DEFINE k == Head(stdout).of
<1>1. /\ phase \in [Requests -> Phases] /\ Scripts \subseteq Requests /\ j \in Requests
      /\ stdout \in Seq([of : Scripts, end : BOOLEAN]) /\ stdout # <<>>
      /\ stdout' = Tail(stdout) /\ phase[j] = "read" /\ Holds(j)
      /\ UNCHANGED <<stdin, block, stderr, printed, raised, marked, result>>
  BY DEF TypeOK, Requests, ReadStdout, Move, Holding, ghosts
<1>2. /\ Len(stdout) \in Nat /\ Len(stdout) >= 1 /\ Len(stdout') = Len(stdout) - 1
      /\ 1 \in DOMAIN stdout /\ Head(stdout) = stdout[1]
      /\ \A i \in DOMAIN stdout' :
           i + 1 \in DOMAIN stdout /\ stdout'[i] = stdout[i + 1] /\ i \in Nat
      /\ stdout' = <<>> <=> Len(stdout) = 1
  <2> DEFINE Item == [of : Scripts, end : BOOLEAN]
  <2>1. stdout \in Seq(Item) /\ stdout # <<>> /\ stdout' = Tail(stdout)
    BY <1>1
  <2> HIDE DEF Item
  <2> QED
    BY <2>1, Shrunk
<1>3. k = j
  <2>1. k \in Scripts /\ phase[k] = "read"
    BY <1>2, Elements DEF Clean, Current
  <2> QED
    BY <1>1, <2>1, OneReader
<1>4. \A m \in Scripts : phase[m] = "read" => m = j
  BY <1>1, OneReader
<1>5. CASE ~Head(stdout).end
  <2>1. /\ got' = [got EXCEPT ![j][k] = @ + 1] /\ UNCHANGED phase
    BY <1>5 DEF ReadStdout
  <2>2. got \in [Scripts -> [Scripts -> Nat]] /\ k \in Scripts
    BY <1>3 DEF TypeOK
  <2> HIDE DEF k
  <2>3. /\ got'[j][j] = got[j][j] + 1
        /\ \A m \in Scripts, n \in Scripts : m # j \/ n # j => got'[m][n] = got[m][n]
    BY <1>3, <2>1, <2>2, CountUp
  <2>4. \A i \in DOMAIN stdout' : stdout'[i] = stdout[i + 1] /\ i + 1 \in DOMAIN stdout
    BY <1>2
  <2>5. Current'
    BY <1>1, <2>1, <2>4 DEF Clean, Current
  <2>6. Once'
    <3>1. ASSUME NEW i \in DOMAIN stdout', stdout'[i].end
          PROVE  i = Len(stdout') /\ stdin' = <<>> /\ block' = NoOne
      <4>1. i + 1 = Len(stdout) /\ stdin = <<>> /\ block = NoOne
        BY <2>4, <3>1 DEF Clean, Once
      <4> QED
        BY <1>1, <1>2, <4>1
    <3> QED
      BY <1>1, <3>1 DEF Clean, Once
  <2>7. Lines' = Lines - 1 /\ Lines \in Nat
    <3>1. CASE Len(stdout) = 1
      BY <1>2, <1>5, <3>1 DEF Lines
    <3>2. CASE Len(stdout) # 1
      <4>1. stdout' # <<>> /\ Len(stdout') \in DOMAIN stdout' /\ Len(stdout') + 1 = Len(stdout)
        BY <1>1, <1>2, <3>2, HeadTailProperties
      <4>2. stdout'[Len(stdout')] = stdout[Len(stdout)]
        BY <1>2, <4>1
      <4> QED
        BY <1>1, <1>2, <4>1, <4>2 DEF Lines
    <3> QED
      BY <3>1, <3>2
  <2>8. Counted'
    <3>1. ASSUME NEW m \in Scripts
          PROVE  /\ phase'[m] \in {"idle", "queued", "ensure", "write"} =>
                      printed'[m] = 0 /\ got'[m][m] = 0
                 /\ phase'[m] = "read" => got'[m][m] + Lines' = printed'[m]
                 /\ phase'[m] = "drain" \/ result'[m] \in {"ok", "failed", "interrupted"}
                      => got'[m][m] = printed'[m]
      <4>1. CASE m = j
        <5>1. result[j] = "none" \/ result[j] \notin {"ok", "failed", "interrupted"}
                \/ got[j][j] = printed[j]
          BY DEF Clean, Counted
        <5>2. got[j][j] + Lines = printed[j] /\ got[j][j] \in Nat
          BY <1>1, <2>2 DEF Clean, Counted
        <5>3. Lines >= 1
          BY <1>1, <1>2, <1>5 DEF Clean, Once, Lines
        <5> QED
          BY <1>1, <2>1, <2>3, <2>7, <4>1, <5>1, <5>2, <5>3 
      <4>2. CASE m # j
        BY <1>1, <1>4, <2>1, <2>3, <4>2 DEF Clean, Counted
      <4> QED
        BY <4>1, <4>2
    <3> QED
      BY <3>1 DEF Counted
  <2>9. Private'
    BY <1>1, <2>3 DEF Clean, Private
  <2> QED
    BY <2>5, <2>6, <2>8, <2>9 DEF Clean
<1>6. CASE Head(stdout).end
  <2>1. Len(stdout) = 1 /\ stdin = <<>> /\ block = NoOne /\ stdout' = <<>>
    BY <1>2, <1>6 DEF Clean, Once
  <2>2. /\ got' = got /\ phase' = [phase EXCEPT ![j] = "drain"]
    BY <1>6 DEF ReadStdout, Move
  <2>3. Lines = 0 /\ Lines' = 0
    BY <1>1, <1>2, <1>6, <2>1 DEF Lines
  <2>4. got[j][j] = printed[j]
    <3>1. got[j][j] + Lines = printed[j] /\ got[j][j] \in Nat
      BY <1>1 DEF Clean, Counted, TypeOK
    <3> QED
      BY <2>3, <3>1
  <2>5. Counted'
    BY <1>1, <1>4, <2>2, <2>4 DEF Clean, Counted
  <2>6. Current'
    <3>1. DOMAIN stdin' = {} /\ DOMAIN stdout' = {} /\ block' = NoOne
      BY <1>1, <2>1
    <3>2. \A m \in Scripts : phase[m] \in {"read", "drain"} => phase'[m] \in {"read", "drain"}
      BY <1>1, <2>2
    <3> QED
      BY <1>1, <3>1, <3>2, Elements DEF Clean, Current
  <2>7. Once' /\ Private'
    BY <1>1, <2>1, <2>2 DEF Clean, Once, Private
  <2> QED
    BY <2>5, <2>6, <2>7 DEF Clean
<1> QED
  BY <1>5, <1>6

(***************************************************************************)
(* R's stdout ends when everything in it was read and R is gone.           *)
(***************************************************************************)
LEMMA CleanEof ==
  ASSUME TypeOK, Holding, Dead, Clean, NEW j \in Scripts, StdoutEof(j)
  PROVE  Clean'
<1>1. /\ phase \in [Requests -> Phases] /\ Scripts \subseteq Requests /\ j \in Requests
      /\ got \in [Scripts -> [Scripts -> Nat]]
      /\ stdout = <<>> /\ stdin = <<>> /\ block = NoOne /\ phase[j] = "read" /\ Holds(j)
      /\ phase' = [phase EXCEPT ![j] = "drain"]
      /\ UNCHANGED <<child_, printed, raised, marked, got, result>>
  BY DEF TypeOK, Requests, StdoutEof, Move, Holding, ghosts, Dead
<1>2. \A m \in Scripts : phase[m] = "read" => m = j
  BY <1>1, OneReader
<1>3. got[j][j] = printed[j]
  <2>1. got[j][j] + Lines = printed[j] /\ got[j][j] \in Nat /\ Lines = 0
    BY <1>1 DEF Clean, Counted, Lines
  <2> QED
    BY <2>1
<1>4. UNCHANGED <<stdin, block, stdout, stderr>>
  BY <1>1 DEF child_
<1>5. Counted'
  BY <1>1, <1>2, <1>3, <1>4 DEF Clean, Counted
<1>6. Current'
  <2>1. \A m \in Scripts : phase[m] \in {"read", "drain"} => phase'[m] \in {"read", "drain"}
    BY <1>1
  <2>2. DOMAIN stdin' = {} /\ DOMAIN stdout' = {} /\ block' = NoOne
    BY <1>1, <1>4
  <2> QED
    BY <1>1, <1>4, <2>1, <2>2, Elements DEF Clean, Current
<1>7. Once' /\ Private'
  BY <1>1, <1>4 DEF Clean, Once, Private
<1> QED
  BY <1>5, <1>6, <1>7 DEF Clean

(***************************************************************************)
(* A marker that is read is the reader's own.                              *)
(***************************************************************************)
LEMMA CleanStderr ==
  ASSUME TypeOK, Holding, Clean, NEW j \in Scripts, ReadStderr(j) \/ DrainStderr(j)
  PROVE  Clean'
<1>1. /\ Scripts \subseteq Requests /\ j \in Requests
      /\ stderr \in Seq(Scripts) /\ stderr # <<>> /\ stderr' = Tail(stderr)
      /\ marked' \in {marked, marked \cup {j}} /\ phase[j] \in {"read", "drain"} /\ Holds(j)
      /\ UNCHANGED <<stdin, block, stdout, phase, printed, raised, got, result>>
  BY DEF TypeOK, Requests, ReadStderr, DrainStderr, Holding, ghosts
<1>2. /\ 1 \in DOMAIN stderr
      /\ \A i \in DOMAIN stderr' : i + 1 \in DOMAIN stderr /\ stderr'[i] = stderr[i + 1]
  BY <1>1, Shrunk
<1>3. j \in raised
  <2>1. stderr[1] \in Scripts /\ phase[stderr[1]] \in {"read", "drain"} /\ stderr[1] \in raised
    BY <1>2, Elements DEF Clean, Current
  <2> QED
    BY <1>1, <2>1, OneReader
<1>4. Current'
  BY <1>1, <1>2 DEF Clean, Current
<1>5. Once' /\ Counted' /\ Private'
  BY <1>1, <1>3 DEF Clean, Once, Counted, Lines, Private
<1> QED
  BY <1>4, <1>5 DEF Clean

(***************************************************************************)
(* R evaluates, prints for and ends the block of the script that is read   *)
(* for, and nothing else.                                                  *)
(***************************************************************************)
LEMMA CleanRStep ==
  ASSUME PersistentRAssumption, TypeOK, Holding, Fresh, Clean, RStep
  PROVE  Clean'
<1> DEFINE Item == [of : Scripts, end : BOOLEAN]
<1>1. /\ Scripts \subseteq Requests /\ stdin \in Seq(Scripts) /\ stderr \in Seq(Scripts)
      /\ stdout \in Seq(Item) /\ block \in Scripts \cup {NoOne}
      /\ got \in [Scripts -> [Scripts -> Nat]] /\ printed \in [Scripts -> 0 .. MaxLines]
  BY DEF TypeOK, Requests
<1>2. UNCHANGED <<phase, result, got, marked>>
  BY DEF RStep, TakeBlock, PrintLine, RaiseError, EndBlock, Quit, RVars
<1>3. CASE TakeBlock
  <2>1. /\ stdin # <<>> /\ block' = Head(stdin) /\ stdin' = Tail(stdin) /\ block = NoOne
        /\ UNCHANGED <<stdout, stderr, printed, raised>>
    BY <1>3 DEF TakeBlock, ghosts
  <2>2. /\ Len(stdin) = 1 /\ 1 \in DOMAIN stdin /\ Head(stdin) = stdin[1] /\ stdin' = <<>>
        /\ Len(stdin') = 0
    BY <1>1, <2>1, Shrunk DEF Clean, Once
  <2>3. Current'
    <3>1. phase'[block'] = "read" /\ DOMAIN stdin' = {}
      BY <1>2, <2>1, <2>2 DEF Clean, Current
    <3> QED
      BY <1>2, <2>1, <3>1 DEF Clean, Current
  <2>4. Once'
    BY <2>1, <2>2 DEF Clean, Once
  <2>5. Counted' /\ Private'
    BY <1>2, <2>1 DEF Clean, Counted, Lines, Private
  <2> QED
    BY <2>3, <2>4, <2>5 DEF Clean
<1>4. CASE PrintLine
  <2> DEFINE line == [of |-> block, end |-> FALSE]
  <2>1. /\ block # NoOne /\ block \in Scripts /\ stdout' = Append(stdout, line)
        /\ printed' = [printed EXCEPT ![block] = @ + 1]
        /\ UNCHANGED <<stdin, block, stderr, raised>>
    BY <1>1, <1>4 DEF PrintLine
  <2>2. line \in Item /\ line.of = block /\ ~line.end
    BY <2>1
  <2> HIDE DEF line, Item
  <2>3. /\ Len(stdout') = Len(stdout) + 1 /\ stdout' # <<>> /\ stdout'[Len(stdout')] = line
        /\ Len(stdout) \in Nat
        /\ \A i \in DOMAIN stdout' :
             (i \in DOMAIN stdout /\ stdout'[i] = stdout[i]) \/ i = Len(stdout')
    <3>1. stdout \in Seq(Item)
      BY <1>1
    <3> QED
      BY <2>1, <2>2, <3>1, Grown
  <2>4. \A i \in DOMAIN stdout : ~stdout[i].end
    BY <2>1 DEF Clean, Once
  <2>5. phase[block] = "read"
    BY <2>1 DEF Clean, Current
  <2>6. Current'
    BY <1>2, <2>1, <2>2, <2>3, <2>5 DEF Clean, Current
  <2>7. Once'
    <3>1. \A i \in DOMAIN stdout' : ~stdout'[i].end
      BY <2>2, <2>3, <2>4
    <3> QED
      BY <2>1, <3>1 DEF Clean, Once
  <2>8. Lines = Len(stdout) /\ Lines' = Lines + 1
    <3>1. stdout # <<>> => ~stdout[Len(stdout)].end
      BY <1>1, <2>4, EmptySeq
    <3> QED
      BY <2>2, <2>3, <3>1 DEF Lines
  <2>9. Counted'
    <3>1. ASSUME NEW m \in Scripts, phase[m] # "read" PROVE printed'[m] = printed[m]
      BY <1>1, <2>1, <2>5, <3>1
    <3>2. \A m \in Scripts : phase[m] = "read" => m = block
      <4>1. Holds(block)
        BY <1>1, <2>1, <2>5 DEF Holding
      <4> QED
        BY <1>1, <2>1, <4>1, OneReader
    <3>3. got'[block][block] + Lines' = printed'[block]
      <4>1. got[block][block] + Lines = printed[block] /\ got[block][block] \in Nat
        BY <1>1, <2>1, <2>5 DEF Clean, Counted
      <4>2. printed'[block] = printed[block] + 1
        BY <1>1, <2>1
      <4>3. Lines \in Nat /\ Lines' = Lines + 1
        BY <1>2, <2>3, <2>8
      <4>4. got'[block][block] = got[block][block]
        BY <1>2, <2>3
      <4>5. printed[block] \in Nat
        BY <4>1, <4>3
      <4> QED
        BY <4>1, <4>2, <4>3, <4>4, <4>5
    <3>4. result[block] = "none"
      BY <1>1, <2>1, <2>5 DEF Fresh
    <3> QED
      BY <1>2, <2>1, <2>5, <3>1, <3>2, <3>3, <3>4 DEF Clean, Counted
  <2>10. Private'
    BY <1>2, <2>1 DEF Clean, Private
  <2> QED
    BY <2>6, <2>7, <2>9, <2>10 DEF Clean
<1>5. CASE RaiseError
  <2>1. /\ block \in Jobs /\ raised' = raised \cup {block} /\ stderr' = Append(stderr, block)
        /\ UNCHANGED <<stdin, block, stdout, printed>> /\ block \in Scripts
    BY <1>5 DEF RaiseError, Scripts
  <2>2. \A i \in DOMAIN stderr' :
           (i \in DOMAIN stderr /\ stderr'[i] = stderr[i]) \/ stderr'[i] = block
    <3>1. stderr \in Seq(Scripts) /\ block \in Scripts
      BY <1>1, <2>1
    <3> DEFINE s == Append(stderr, block)
    <3>2. /\ s[Len(s)] = block
          /\ \A i \in DOMAIN s : (i \in DOMAIN stderr /\ s[i] = stderr[i]) \/ i = Len(s)
      BY <3>1, Grown
    <3>3. stderr' = s
      BY <2>1
    <3> HIDE DEF s
    <3> QED
      BY <3>2, <3>3
  <2>3. phase[block] \in {"read", "drain"}
    <3>1. block # NoOne
      BY <2>1 DEF PersistentRAssumption, Scripts
    <3> QED
      BY <3>1 DEF Clean, Current
  <2>4. Current'
    BY <1>2, <2>1, <2>2, <2>3 DEF Clean, Current
  <2>5. Once' /\ Counted' /\ Private'
    BY <1>2, <2>1 DEF Clean, Once, Counted, Lines, Private
  <2> QED
    BY <2>4, <2>5 DEF Clean
<1>6. CASE EndBlock
  <2> DEFINE last == [of |-> block, end |-> TRUE]
  <2>1. /\ block # NoOne /\ block \in Scripts /\ stdout' = Append(stdout, last)
        /\ block' = NoOne /\ UNCHANGED <<stdin, stderr, printed, raised>>
    BY <1>1, <1>6 DEF EndBlock, ghosts
  <2>2. last \in Item /\ last.of = block /\ last.end
    BY <2>1
  <2> HIDE DEF last, Item
  <2>3. /\ Len(stdout') = Len(stdout) + 1 /\ stdout' # <<>> /\ stdout'[Len(stdout')] = last
        /\ Len(stdout) \in Nat
        /\ \A i \in DOMAIN stdout' :
             (i \in DOMAIN stdout /\ stdout'[i] = stdout[i]) \/ i = Len(stdout')
    <3>1. stdout \in Seq(Item)
      BY <1>1
    <3> QED
      BY <2>1, <2>2, <3>1, Grown
  <2>4. /\ \A i \in DOMAIN stdout : ~stdout[i].end
        /\ stdin = <<>> /\ phase[block] = "read"
    BY <2>1 DEF Clean, Once, Current
  <2>5. Current'
    BY <1>2, <2>1, <2>2, <2>3, <2>4 DEF Clean, Current
  <2>6. Once'
    BY <2>1, <2>3, <2>4 DEF Clean, Once
  <2>7. Lines' = Lines
    <3>1. stdout # <<>> => ~stdout[Len(stdout)].end
      BY <1>1, <2>4, EmptySeq
    <3> QED
      BY <2>2, <2>3, <3>1 DEF Lines
  <2>8. Counted' /\ Private'
    BY <1>2, <2>1, <2>7 DEF Clean, Counted, Private
  <2> QED
    BY <2>5, <2>6, <2>8 DEF Clean
<1>7. CASE Quit
  <2>1. /\ block' = NoOne /\ stdin' = <<>> /\ UNCHANGED <<stdout, stderr, printed, raised>>
    BY <1>7 DEF Quit, Exit, ghosts
  <2>2. DOMAIN stdin' = {} /\ Len(stdin') = 0
    BY <2>1
  <2>3. Current'
    BY <1>2, <2>1, <2>2 DEF Clean, Current
  <2>4. Once'
    BY <2>1, <2>2 DEF Clean, Once
  <2>5. Counted' /\ Private'
    BY <1>2, <2>1 DEF Clean, Counted, Lines, Private
  <2> QED
    BY <2>3, <2>4, <2>5 DEF Clean
<1> QED
  BY <1>3, <1>4, <1>5, <1>6, <1>7 DEF RStep

(***************************************************************************)
(* DebtBounded: the delimiters in a pipe, counted as it fills and empties. *)
(***************************************************************************)
Items == [of : Scripts, end : BOOLEAN]
Ends(s) == {i \in DOMAIN s : s[i].end}

GivenUp == {j \in Scripts : result[j] \in {"timeout", "unread"}}
ReadScripts == {j \in Scripts : phase[j] = "read"}

Debt ==
  Cardinality(Ends(stdout)) + Len(stdin) + (IF block = NoOne THEN 0 ELSE 1)
    <= Cardinality(GivenUp) + Cardinality(ReadScripts)

(***************************************************************************)
(* The delimiters in a pipe are finitely many, and none in an empty one.   *)
(***************************************************************************)
LEMMA EndsFinite ==
  ASSUME NEW s \in Seq(Items)
  PROVE  /\ IsFiniteSet(Ends(s)) /\ Cardinality(Ends(s)) \in Nat
         /\ s = <<>> => Cardinality(Ends(s)) = 0
<1>1. Len(s) \in Nat /\ DOMAIN s = 1 .. Len(s)
  BY LenProperties
<1>2. IsFiniteSet(1 .. Len(s))
  BY <1>1, FS_Interval
<1>3. Ends(s) \subseteq 1 .. Len(s)
  BY <1>1 DEF Ends
<1>4. IsFiniteSet(Ends(s)) /\ Cardinality(Ends(s)) \in Nat
  BY <1>2, <1>3, FS_Subset, FS_CardinalityType
<1>5. ASSUME s = <<>> PROVE Cardinality(Ends(s)) = 0
  <2>1. Len(s) = 0
    BY <1>5, EmptySeq
  <2>2. Ends(s) = {}
    BY <1>1, <1>3, <2>1
  <2> QED
    BY <2>2, FS_EmptySet
<1> QED
  BY <1>4, <1>5

(***************************************************************************)
(* A delimiter that is printed is one more.                                *)
(***************************************************************************)
LEMMA EndsAppend ==
  ASSUME NEW s \in Seq(Items), NEW x \in Items
  PROVE  Cardinality(Ends(Append(s, x)))
           = Cardinality(Ends(s)) + (IF x.end THEN 1 ELSE 0)
<1> DEFINE t == Append(s, x)
           n == Len(s) + 1
           I == Items
<1>1. s \in Seq(I) /\ x \in I
  OBVIOUS
<1> HIDE DEF I
<1>2. /\ t \in Seq(I) /\ Len(t) = n
      /\ \A i \in 1 .. Len(s) : t[i] = s[i]
      /\ t[n] = x
  BY <1>1, AppendProperties
<1>3. Len(s) \in Nat /\ DOMAIN s = 1 .. Len(s) /\ DOMAIN t = 1 .. n
  BY <1>1, <1>2, LenProperties
<1> HIDE DEF t
<1>4. Ends(t) = IF x.end THEN Ends(s) \cup {n} ELSE Ends(s)
  BY <1>2, <1>3 DEF Ends
<1>5. n \notin Ends(s)
  BY <1>3 DEF Ends
<1>6. IsFiniteSet(Ends(s)) /\ Cardinality(Ends(s)) \in Nat
  BY EndsFinite
<1>7. CASE x.end
  <2>1. Cardinality(Ends(s) \cup {n}) = Cardinality(Ends(s)) + 1
    BY <1>5, <1>6, FS_AddElement
  <2> QED
    BY <1>4, <1>7, <2>1 DEF t
<1>8. CASE ~x.end
  BY <1>4, <1>6, <1>8 DEF t
<1> QED
  BY <1>7, <1>8

(***************************************************************************)
(* A delimiter that is read is one less.                                   *)
(***************************************************************************)
LEMMA EndsTail ==
  ASSUME NEW s \in Seq(Items), s # <<>>
  PROVE  Cardinality(Ends(s))
           = Cardinality(Ends(Tail(s))) + (IF Head(s).end THEN 1 ELSE 0)
<1> DEFINE t == Tail(s)
           I == Items
<1>1. s \in Seq(I)
  OBVIOUS
<1>2. t \in Seq(Items) /\ Head(s) \in Items
  BY HeadTailProperties
<1> HIDE DEF I
<1>3. /\ t \in Seq(I) /\ Len(t) = Len(s) - 1
      /\ \A i \in 1 .. Len(t) : t[i] = s[i + 1]
  BY <1>1, HeadTailProperties
<1>4. Head(s) = s[1]
  BY <1>1
<1>5. Len(s) \in Nat /\ Len(s) >= 1 /\ DOMAIN s = 1 .. Len(s)
      /\ Len(t) \in Nat /\ DOMAIN t = 1 .. Len(t)
  BY <1>1, <1>3, LenProperties, EmptySeq
<1> HIDE DEF t
<1> DEFINE f == [i \in Ends(t) |-> i + 1]
           R == Ends(s) \ {1}
<1>6. f \in [Ends(t) -> R]
  BY <1>3, <1>5 DEF Ends
<1>7. \A i, k \in DOMAIN f : f[i] = f[k] => i = k
  BY <1>5 DEF Ends
<1>8. \A k \in R : \E i \in Ends(t) : f[i] = k
  <2>1. ASSUME NEW k \in R PROVE k - 1 \in Ends(t) /\ (k - 1) + 1 = k
    BY <1>3, <1>5 DEF Ends
  <2> QED
    BY <2>1
<1> HIDE DEF f, R
<1>9. f \in Bijection(Ends(t), R)
  BY <1>6, <1>7, <1>8 DEF Bijection, Injection, Surjection, IsInjective
<1>10. ExistsBijection(Ends(t), R)
  BY <1>9 DEF ExistsBijection
<1>11. IsFiniteSet(Ends(t)) /\ Cardinality(Ends(t)) \in Nat
  BY <1>2, EndsFinite DEF t
<1>12. IsFiniteSet(Ends(s)) /\ Cardinality(Ends(s)) \in Nat
  BY EndsFinite
<1>13. Cardinality(R) = Cardinality(Ends(t))
  BY <1>10, <1>11, FS_Bijection
<1>14. Cardinality(R) = IF 1 \in Ends(s) THEN Cardinality(Ends(s)) - 1 ELSE Cardinality(Ends(s))
  BY <1>12, FS_RemoveElement DEF R
<1>15. 1 \in Ends(s) <=> Head(s).end
  BY <1>4, <1>5 DEF Ends
<1> QED
  BY <1>11, <1>12, <1>13, <1>14, <1>15 DEF t

(***************************************************************************)
(* The scripts that timed out, and the ones that are read for, are         *)
(* finitely many.                                                          *)
(***************************************************************************)
LEMMA DebtFinite ==
  ASSUME PersistentRAssumption
  PROVE  /\ IsFiniteSet(GivenUp) /\ Cardinality(GivenUp) \in Nat
         /\ IsFiniteSet(ReadScripts) /\ Cardinality(ReadScripts) \in Nat
<1>1. IsFiniteSet(Scripts)
  BY FS_Union DEF PersistentRAssumption, Scripts
<1>2. GivenUp \subseteq Scripts /\ ReadScripts \subseteq Scripts
  BY DEF GivenUp, ReadScripts
<1>3. IsFiniteSet(GivenUp) /\ IsFiniteSet(ReadScripts)
  BY <1>1, <1>2, FS_Subset
<1> QED
  BY <1>3, FS_CardinalityType

(***************************************************************************)
(* What R owes is of the block it was written last, or of scripts that     *)
(* timed out.                                                              *)
(***************************************************************************)
LEMMA DebtStep ==
  ASSUME PersistentRAssumption, TypeOK, Holding, Fresh, Dead, Debt, [Next]_vars
  PROVE  Debt'
<1> DEFINE E == Cardinality(Ends(stdout))
           L == Cardinality(GivenUp)
           R == Cardinality(ReadScripts)
           B == IF block = NoOne THEN 0 ELSE 1
<1>1. /\ phase \in [Requests -> Phases] /\ result \in [Requests -> Results]
      /\ Scripts \subseteq Requests /\ Interrupts \cap Scripts = {}
      /\ Jobs \subseteq Scripts /\ Resets \subseteq Scripts /\ NoOne \notin Scripts
  BY DEF TypeOK, Requests, Scripts, PersistentRAssumption
<1>2. stdout \in Seq(Items) /\ stdin \in Seq(Scripts) /\ block \in Scripts \cup {NoOne}
  BY DEF TypeOK, Items
<1>3. E \in Nat /\ Len(stdin) \in Nat /\ L \in Nat /\ R \in Nat
  BY <1>2, EndsFinite, LenProperties, DebtFinite
<1>4. ASSUME ReadScripts' = ReadScripts, GivenUp' = GivenUp, stdout' = stdout,
             (stdin' = stdin \/ Len(stdin') = 0), (block' = block \/ block' = NoOne)
      PROVE  Debt'
  BY <1>3, <1>4 DEF Debt
<1>5. ASSUME NEW q \in Requests, NEW to,
             phase' = [phase EXCEPT ![q] = to], phase[q] # "read", to # "read"
      PROVE  ReadScripts' = ReadScripts
  BY <1>1, <1>5 DEF ReadScripts
<1>6. ASSUME NEW q \in Requests, NEW o,
             result' = [result EXCEPT ![q] = o], o \notin {"timeout", "unread"},
             phase[q] # "over"
      PROVE  GivenUp' = GivenUp
  BY <1>1, <1>6 DEF GivenUp, Fresh
<1>7. result' = result => GivenUp' = GivenUp
  BY DEF GivenUp
<1>8. phase' = phase => ReadScripts' = ReadScripts
  BY DEF ReadScripts
<1>9. ASSUME NEW j \in Scripts, NEW to,
             phase' = [phase EXCEPT ![j] = to], phase[j] = "read", to # "read"
      PROVE  Cardinality(ReadScripts') = R - 1
  <2>1. ReadScripts' = ReadScripts \ {j} /\ j \in ReadScripts
    BY <1>1, <1>9 DEF ReadScripts
  <2> QED
    BY <2>1, DebtFinite, FS_RemoveElement
<1>10. Len(<<>>) = 0
  OBVIOUS
<1>11. Signal => /\ stdout' = stdout
                 /\ (stdin' = stdin \/ Len(stdin') = 0)
                 /\ (block' = block \/ block' = NoOne)
  BY <1>10 DEF Signal, Sigint, Exit, child_
<1>12. ASSUME NEW q \in Requests, Request(q) PROVE Debt'
  BY <1>4, <1>5, <1>7, <1>12 DEF Request, Move, child_
<1>13. ASSUME NEW j \in Jobs, BeginJob(j) PROVE Debt'
  <2>1. j \in Requests
    BY <1>1
  <2> QED
    BY <1>4, <1>5, <1>7, <1>13, <2>1 DEF BeginJob, Move, child_
<1>14. ASSUME NEW r \in Resets, ResetInterrupt(r) PROVE Debt'
  <2>1. r \in Requests
    BY <1>1
  <2> QED
    BY <1>4, <1>5, <1>7, <1>11, <1>14, <2>1 DEF ResetInterrupt, Move
<1>15. ASSUME NEW i \in Interrupts, Interrupt(i) PROVE Debt'
  <2>1. i \in Requests
    BY DEF Requests
  <2>2. ReadScripts' = ReadScripts
    BY <1>5, <1>15, <2>1 DEF Interrupt, Return, Move
  <2>3. GivenUp' = GivenUp
    <3>1. phase[i] = "queued"
      BY <1>15 DEF Interrupt, Return, Move
    <3>2. PICK o \in {"failed", "sent"} : result' = [result EXCEPT ![i] = o]
      BY <1>15 DEF Interrupt, Return
    <3> QED
      BY <1>6, <2>1, <3>1, <3>2
  <2> QED
    BY <1>4, <1>11, <1>15, <2>2, <2>3 DEF Interrupt
<1>16. ASSUME NEW j \in Scripts, EnsureChild(j) PROVE Debt'
  <2>1. ReadScripts' = ReadScripts /\ GivenUp' = GivenUp
    BY <1>1, <1>5, <1>7, <1>16 DEF EnsureChild, Move
  <2>2. CASE child = "alive"
    BY <1>4, <1>16, <2>1, <2>2 DEF EnsureChild, child_
  <2>3. CASE child # "alive"
    <3>1. stdin' = <<>> /\ block' = NoOne /\ stdout' = <<>>
      BY <1>16, <2>3 DEF EnsureChild
    <3>2. <<>> \in Seq(Items)
      BY EmptySeq
    <3>3. Cardinality(Ends(stdout')) = 0
      BY <3>1, <3>2, EndsFinite
    <3> QED
      BY <1>3, <1>10, <2>1, <3>1, <3>3 DEF Debt
  <2> QED
    BY <2>2, <2>3
<1>17. ASSUME NEW j \in Scripts, SpawnFails(j) \/ WriteFails(j) \/ Finish(j) PROVE Debt'
  <2>1. PICK from \in {"ensure", "write", "drain"}, o \in Results \ {"timeout", "unread"} :
             Return(j, from, o)
    BY <1>17 DEF SpawnFails, WriteFails, Finish, Outcome, Results
  <2>2. ReadScripts' = ReadScripts
    BY <1>1, <1>5, <2>1 DEF Return, Move
  <2>3. GivenUp' = GivenUp
    BY <1>1, <1>6, <2>1 DEF Return, Move
  <2> QED
    BY <1>4, <1>17, <2>2, <2>3 DEF SpawnFails, WriteFails, Finish, child_
<1>18. ASSUME NEW j \in Scripts, WriteBlock(j) PROVE Debt'
  <2>1. ReadScripts' = ReadScripts \cup {j} /\ j \notin ReadScripts
    BY <1>1, <1>18 DEF WriteBlock, Move, ReadScripts
  <2>2. Cardinality(ReadScripts') = R + 1
    BY <2>1, DebtFinite, FS_AddElement
  <2>3. Len(stdin') = Len(stdin) + 1
    BY <1>2, <1>18, AppendProperties DEF WriteBlock
  <2>4. stdout' = stdout /\ block' = block /\ GivenUp' = GivenUp
    BY <1>7, <1>18 DEF WriteBlock
  <2> QED
    BY <1>3, <2>2, <2>3, <2>4 DEF Debt
<1>19. ASSUME NEW j \in Scripts, ReadStdout(j) PROVE Debt'
  <2>1. E = Cardinality(Ends(stdout')) + (IF Head(stdout).end THEN 1 ELSE 0)
    BY <1>2, <1>19, EndsTail DEF ReadStdout
  <2>2. stdin' = stdin /\ block' = block /\ GivenUp' = GivenUp
    BY <1>7, <1>19 DEF ReadStdout
  <2>3. stdout' \in Seq(Items)
    BY <1>2, <1>19, HeadTailProperties DEF ReadStdout
  <2>4. Cardinality(Ends(stdout')) \in Nat
    BY <2>3, EndsFinite
  <2>5. CASE Head(stdout).end
    <3>1. Cardinality(ReadScripts') = R - 1
      BY <1>9, <1>19, <2>5 DEF ReadStdout, Move
    <3> QED
      BY <1>3, <2>1, <2>2, <2>4, <2>5, <3>1 DEF Debt
  <2>6. CASE ~Head(stdout).end
    <3>1. ReadScripts' = ReadScripts
      BY <1>8, <1>19, <2>6 DEF ReadStdout
    <3> QED
      BY <1>3, <2>1, <2>2, <2>4, <2>6, <3>1 DEF Debt
  <2> QED
    BY <2>5, <2>6
<1>20. ASSUME NEW j \in Scripts, StdoutEof(j) PROVE Debt'
  <2>1. stdout' = <<>> /\ stdin' = <<>> /\ block' = NoOne
    BY <1>20 DEF StdoutEof, child_, Dead
  <2>2. <<>> \in Seq(Items)
    BY EmptySeq
  <2>3. Cardinality(Ends(stdout')) = 0
    BY <2>1, <2>2, EndsFinite
  <2>4. Cardinality(ReadScripts') = R - 1 /\ GivenUp' = GivenUp
    BY <1>7, <1>9, <1>20 DEF StdoutEof, Move
  <2>5. R >= 1
    <3>1. j \in ReadScripts
      BY <1>20 DEF StdoutEof, Move, ReadScripts
    <3> QED
      BY <1>3, <3>1, DebtFinite, FS_EmptySet
  <2> QED
    BY <1>3, <1>10, <2>1, <2>3, <2>4, <2>5 DEF Debt
<1>21. ASSUME NEW j \in Scripts, ReadStderr(j) \/ DrainStderr(j) PROVE Debt'
  BY <1>4, <1>7, <1>8, <1>21 DEF ReadStderr, DrainStderr
<1>22. ASSUME NEW j \in Scripts, Timeout(j) PROVE Debt'
  <2>1. Cardinality(ReadScripts') = R - 1
    BY <1>9, <1>22 DEF Timeout, Return, Move
  <2>2. GivenUp' = GivenUp \cup {j} /\ j \notin GivenUp
    BY <1>1, <1>22 DEF Timeout, Return, Move, GivenUp, Fresh
  <2>3. Cardinality(GivenUp') = L + 1
    BY <2>2, DebtFinite, FS_AddElement
  <2>4. stdout' = stdout /\ stdin' = stdin /\ block' = block
    BY <1>22 DEF Timeout, child_
  <2> QED
    BY <1>3, <2>1, <2>3, <2>4 DEF Debt
<1>26. ASSUME NEW j \in Scripts, ReadFails(j) PROVE Debt'
  <2>1. PICK from \in {"read", "drain"} : Return(j, from, "unread")
    BY <1>26 DEF ReadFails
  <2>2. GivenUp' = GivenUp \cup {j} /\ j \notin GivenUp
    BY <1>1, <2>1 DEF Return, Move, GivenUp, Fresh
  <2>3. Cardinality(GivenUp') = L + 1
    BY <2>2, DebtFinite, FS_AddElement
  <2>4. stdin' = stdin /\ block' = block
    BY <1>26 DEF ReadFails
  <2>5. Cardinality(Ends(stdout')) \in Nat /\ Cardinality(Ends(stdout')) <= E
    <3>1. CASE stdout' = stdout
      BY <1>3, <3>1
    <3>2. CASE stdout # <<>> /\ stdout' = Tail(stdout)
      <4>1. E = Cardinality(Ends(stdout')) + (IF Head(stdout).end THEN 1 ELSE 0)
        BY <1>2, <3>2, EndsTail
      <4>2. stdout' \in Seq(Items)
        BY <1>2, <3>2, HeadTailProperties
      <4> QED
        BY <1>3, <4>1, <4>2, EndsFinite
    <3> QED
      BY <1>26, <3>1, <3>2 DEF ReadFails
  <2>6. Cardinality(ReadScripts') \in {R, R - 1}
    <3>1. CASE from = "read"
      BY <1>9, <2>1, <3>1 DEF Return, Move
    <3>2. CASE from = "drain"
      BY <1>1, <1>5, <2>1, <3>2 DEF Return, Move
    <3> QED
      BY <3>1, <3>2
  <2> QED
    BY <1>3, <2>3, <2>4, <2>5, <2>6 DEF Debt
<1>23. ASSUME RStep PROVE Debt'
  <2>1. ReadScripts' = ReadScripts /\ GivenUp' = GivenUp
    BY <1>7, <1>8, <1>23 DEF RStep, TakeBlock, PrintLine, RaiseError, EndBlock, Quit, RVars
  <2>2. CASE TakeBlock
    <3>1. stdin' = Tail(stdin) /\ stdin # <<>> /\ block = NoOne /\ stdout' = stdout
      BY <2>2 DEF TakeBlock
    <3>2. Len(stdin') = Len(stdin) - 1
      BY <1>2, <3>1, HeadTailProperties
    <3> QED
      BY <1>3, <2>1, <3>1, <3>2 DEF Debt
  <2>3. CASE PrintLine
    <3>1. block \in Scripts /\ stdout' = Append(stdout, [of |-> block, end |-> FALSE])
          /\ stdin' = stdin /\ block' = block
      BY <1>2, <2>3 DEF PrintLine
    <3>2. [of |-> block, end |-> FALSE] \in Items
      BY <3>1 DEF Items
    <3>3. Cardinality(Ends(stdout')) = E
      BY <1>2, <1>3, <3>1, <3>2, EndsAppend
    <3> QED
      BY <2>1, <3>1, <3>3 DEF Debt
  <2>4. CASE EndBlock
    <3>1. block \in Scripts /\ stdout' = Append(stdout, [of |-> block, end |-> TRUE])
          /\ stdin' = stdin /\ block' = NoOne
      BY <1>2, <2>4 DEF EndBlock
    <3>2. [of |-> block, end |-> TRUE] \in Items
      BY <3>1 DEF Items
    <3>3. Cardinality(Ends(stdout')) = E + 1
      BY <1>2, <1>3, <3>1, <3>2, EndsAppend
    <3> QED
      BY <1>1, <1>3, <2>1, <3>1, <3>3 DEF Debt
  <2>5. CASE RaiseError
    BY <1>4, <2>1, <2>5 DEF RaiseError
  <2>6. CASE Quit
    BY <1>4, <1>10, <2>1, <2>6 DEF Quit, Exit
  <2> QED
    BY <1>23, <2>2, <2>3, <2>4, <2>5, <2>6 DEF RStep
<1>24. CASE UNCHANGED vars
  BY <1>4, <1>7, <1>8, <1>24 DEF vars, child_
<1> HIDE DEF E, L, R, B
<1>25. ASSUME NEW q \in Requests, Serve(q) PROVE Debt'
  BY <1>13, <1>14, <1>15, <1>16, <1>17, <1>18, <1>19, <1>20, <1>21, <1>22, <1>25,
     <1>26
     DEF Serve, ScriptStep
<1> QED
  BY <1>12, <1>23, <1>24, <1>25 DEF Next

(***************************************************************************)
(* The inductive invariant holds at the start and every step keeps it.     *)
(***************************************************************************)
LEMMA InitIInv ==
  ASSUME PersistentRAssumption, Init
  PROVE  IInv
<1>1. TypeOK
  <2>1. /\ <<>> \in Seq(Requests) /\ <<>> \in Seq(Scripts)
        /\ <<>> \in Seq([of : Scripts, end : BOOLEAN])
    BY EmptySeq
  <2>2. 0 \in 0 .. MaxLines
    BY DEF PersistentRAssumption
  <2>3. phase \in [Requests -> Phases] /\ result \in [Requests -> Results]
    BY DEF Init, Phases, Results
  <2>4. /\ printed \in [Scripts -> 0 .. MaxLines] /\ got \in [Scripts -> [Scripts -> Nat]]
        /\ target \in [Interrupts -> Jobs \cup {NoOne}]
    BY <2>2 DEF Init
  <2> QED
    BY <2>1, <2>3, <2>4 DEF Init, TypeOK
<1>2. Holding /\ Fresh /\ Dead
  BY DEF Init, Holding, Fresh, Dead
<1>3. Lines = 0
  BY DEF Init, Lines
<1>4. \A j \in Scripts : phase[j] = "idle" /\ result[j] = "none" /\ printed[j] = 0 /\ got[j][j] = 0
  BY DEF Init, Requests
<1>5. Counted
  BY <1>4 DEF Counted
<1>6. Current /\ Once /\ Private
  BY DEF Init, Current, Once, Private
<1> QED
  BY <1>1, <1>2, <1>5, <1>6 DEF IInv, Clean

(***************************************************************************)
(* Every step keeps it.                                                    *)
(***************************************************************************)
LEMMA StepIInv ==
  ASSUME PersistentRAssumption, IInv, [Next]_vars
  PROVE  IInv'
<1>1. TypeOK /\ Holding /\ Fresh /\ Dead
  BY DEF IInv
<1>2. TypeOK' /\ Holding' /\ Fresh' /\ Dead'
  BY <1>1, TypeStep, HoldingStep, FreshStep, DeadStep
<1>3. ASSUME Abandoned' = {} PROVE Clean'
  <2>1. Clean
    BY <1>1, <1>3, AbandonedStays DEF IInv
  <2>2. ASSUME NEW q \in Requests, Request(q) PROVE Clean'
    BY <1>1, <2>1, <2>2, CleanRequest
  <2>3. ASSUME NEW q \in Requests, Serve(q) PROVE Clean'
    <3>1. CASE BeginJob(q) \/ ResetInterrupt(q)
      BY <1>1, <2>1, <3>1, CleanQuiet
    <3>7. CASE q \in Interrupts /\ Interrupt(q)
      BY <1>1, <2>1, <3>7, CleanQuiet
    <3>2. CASE q \in Scripts /\ (EnsureChild(q) \/ SpawnFails(q) \/ WriteFails(q) \/ Finish(q))
      BY <1>1, <2>1, <3>2, CleanQuiet
    <3>3. CASE q \in Scripts /\ (WriteBlock(q) \/ ReadStdout(q) \/ StdoutEof(q))
      BY <1>1, <2>1, <3>3, CleanWrite, CleanReadStdout, CleanEof
    <3>4. CASE q \in Scripts /\ (ReadStderr(q) \/ DrainStderr(q))
      BY <1>1, <2>1, <3>4, CleanStderr
    <3>5. CASE q \in Scripts /\ (Timeout(q) \/ ReadFails(q))
      <4>1. PICK o \in {"timeout", "unread"} : result' = [result EXCEPT ![q] = o]
        BY <3>5 DEF Timeout, ReadFails, Return
      <4>3. result \in [Requests -> Results] /\ q \in Requests
        BY <1>1, <2>3 DEF TypeOK
      <4>2. q \in Abandoned'
        BY <3>5, <4>1, <4>3 DEF Abandoned
      <4> QED
        BY <1>3, <4>2
    <3>6. CASE q \in Scripts /\ ScriptStep(q)
      BY <3>2, <3>3, <3>4, <3>5, <3>6 DEF ScriptStep
    <3> QED
      BY <2>3, <3>1, <3>6, <3>7 DEF Serve
  <2>4. ASSUME RStep PROVE Clean'
    BY <1>1, <2>1, <2>4, CleanRStep
  <2>5. CASE UNCHANGED vars
    BY <2>1, <2>5 DEF vars, child_, ghosts, Clean, Current, Once, Counted, Lines, Private
  <2> QED
    BY <2>2, <2>3, <2>4, <2>5 DEF Next
<1> QED
  BY <1>2, <1>3 DEF IInv

-----------------------------------------------------------------------------
(***************************************************************************)
(* Every variable keeps its type, whatever R does.                         *)
(***************************************************************************)
THEOREM Types == Spec => []TypeOK
<1>1. Init => IInv
  BY InitIInv, PersistentRAssumption
<1>2. IInv /\ [Next]_vars => IInv'
  BY StepIInv, PersistentRAssumption
<1>3. IInv => TypeOK
  BY DEF IInv
<1> QED
  BY <1>1, <1>2, <1>3, PTL DEF Spec

(***************************************************************************)
(* As long as no script was given up, the output of a script and the       *)
(* error it is blamed for are its own, for any number of jobs, resets and  *)
(* interrupts, whatever R prints and whenever it dies.                     *)
(***************************************************************************)
THEOREM OwnOutput == Spec => []OutputIsOwn
<1>1. Init => IInv
  BY InitIInv, PersistentRAssumption
<1>2. IInv /\ [Next]_vars => IInv'
  BY StepIInv, PersistentRAssumption
<1>3. IInv => OutputIsOwn
  BY DEF IInv, Clean, Counted, Private, OutputIsOwn
<1> QED
  BY <1>1, <1>2, <1>3, PTL DEF Spec

(***************************************************************************)
(* An interrupt makes at most one victim, for any number of interrupts,    *)
(* resets and jobs.                                                        *)
(***************************************************************************)
THEOREM OneVictim == Spec => []OneVictimPerInterrupt
<1>1. Init => IInv /\ Paid
  <2>1. ASSUME Init PROVE Paid
    <3>1. Victims = {} /\ Cardinality(Victims) = 0 /\ flag = FALSE
      BY <2>1, FS_EmptySet DEF Init, Victims, Requests
    <3> QED
      BY <3>1, FiniteCounts, PersistentRAssumption DEF Paid
  <2> QED
    BY <2>1, InitIInv, PersistentRAssumption
<1>2. IInv /\ Paid /\ [Next]_vars => IInv' /\ Paid'
  BY StepIInv, PaidStep, PersistentRAssumption DEF IInv
<1>3. Paid => OneVictimPerInterrupt
  BY FiniteCounts, PersistentRAssumption
     DEF Paid, OneVictimPerInterrupt, Victims, Sent, Restarting
<1> QED
  BY <1>1, <1>2, <1>3, PTL DEF Spec

(***************************************************************************)
(* However often scripts time out or cannot be read, R never owes more     *)
(* delimiters than one per script given up and one for the one being read, *)
(* for any number of jobs, resets and interrupts.                          *)
(***************************************************************************)
THEOREM DebtIsBounded == Spec => []DebtBounded
<1>1. Init => IInv /\ Debt
  <2>1. ASSUME Init PROVE Debt
    <3>1. <<>> \in Seq(Items) /\ Len(<<>>) = 0
      BY EmptySeq
    <3>2. stdout = <<>> /\ stdin = <<>> /\ block = NoOne
      BY <2>1 DEF Init
    <3>3. Cardinality(Ends(stdout)) = 0
      BY <3>1, <3>2, EndsFinite
    <3> QED
      BY <3>1, <3>2, <3>3, DebtFinite, PersistentRAssumption DEF Debt
  <2> QED
    BY <2>1, InitIInv, PersistentRAssumption
<1>2. IInv /\ Debt /\ [Next]_vars => IInv' /\ Debt'
  BY StepIInv, DebtStep, PersistentRAssumption DEF IInv
<1>3. Debt => DebtBounded
  BY DEF Debt, DebtBounded, Owed, Ends, GivenUp, Abandoned, ReadScripts
<1> QED
  BY <1>1, <1>2, <1>3, PTL DEF Spec
=============================================================================
