---------------------------- MODULE AgentLoopProofs ----------------------------
(***************************************************************************)
(* Theorems about AgentLoop, for every set of tasks, sessions, calls and   *)
(* turns, every bound on the loops and every number of restarts.           *)
(*                                                                         *)
(* The properties speak of a task that runs or has ended; the permission,  *)
(* the plan and the tool it has by then come from steps long before.  The  *)
(* inductive invariant says for every label what the task carries there:   *)
(* its decision (AnswerKnown), the rules it relies on (Covered), its plan  *)
(* (InOrder, PlanRests) and its tool (OpenKnown); that the lists any task  *)
(* reads hold granted rules only (ListsOK); and that whoever can still be  *)
(* answered has not been (Waiters), so that a decision never reaches the   *)
(* call after the one it was made for.                                     *)
(***************************************************************************)
EXTENDS AgentLoop, SequenceTheorems, TLAPS

Statuses == {"pending", "running", "finished"}
Waits == {"none", "checked", "listening", "woken"}

\* What a task keeps, whatever step it is at.
Locals ==
  [pc : Labels, session : Sessions, tools : BOOLEAN, turn : Turns \cup {<<>>}, call : Nat,
   loops : 0 .. MaxToolLoops - 1, plan : Seq(Statuses), plan_index : Nat, wait : Waits,
   answer : Decisions \cup {None}, loaded : SUBSET Rules, open : BOOLEAN,
   final : {None, "cancelled", "error", "answer"}]

\* A task is at a call of the turn it has, and waits only for the provider or a user.
CallKnown(l) ==
  /\ l.call \in 0 .. Len(l.turn)
  /\ l.pc \in CallLabels => l.call > 0
  /\ l.wait # "none" => l.pc \in {"provider", "approval"}

\* The steps up to plan_index are finished, the next one is not, and those after it are still
\* pending.
InOrder(l) ==
  \A i \in DOMAIN l.plan :
    /\ i <= l.plan_index => l.plan[i] = "finished"
    /\ i = l.plan_index + 1 => l.plan[i] # "finished"
    /\ i > l.plan_index + 1 => l.plan[i] = "pending"

\* No step of the plan is running.
PlanRests(l) == \A i \in DOMAIN l.plan : l.plan[i] # "running"

\* A tool runs while its call is executed, or it was left running by a cancellation; only a
\* task that ends has concluded.
OpenKnown(l) ==
  /\ l.open => l.pc = "running" \/ l.final = "cancelled"
  /\ l.final # None => l.pc = "ending"

\* Labels at which a call's approval may have been given.
Asked == {"approval", "read_rules", "store_rules", "save_rule", "ready", "running"}

\* The user's decision is kept only from the approval to the end of the tool, and is the one
\* that led the task where it is.
AnswerKnown(l) ==
  /\ l.answer # None => l.pc \in Asked
  /\ l.pc = "save_rule" => l.answer = "approve_session"
  /\ l.pc \in {"read_rules", "store_rules"} => l.answer \in {None, "approve_session"}

\* Labels at which no plan has been worked on.
BeforePlan == {"idle", "spawned", "plan"}

\* What holds of a task by itself.
LocalOK(l) ==
  /\ CallKnown(l) /\ InOrder(l) /\ OpenKnown(l) /\ AnswerKnown(l)
  /\ l.pc \notin CallLabels => PlanRests(l)
  /\ l.pc \in BeforePlan => l.plan_index = 0

\* What a task relies on was granted: the rules it has loaded, the rule it is about to keep,
\* and its permission to run the tool.
Covered(l, rules) ==
  /\ l.loaded \subseteq rules
  /\ l.answer = "approve_session" => build_approval_rule(l.turn[l.call]) \in rules
  /\ l.pc \in {"ready", "running"} =>
       \/ ~tool_requires_approval(l.turn[l.call].tool)
       \/ l.answer \in {"approve_once", "approve_session"}
       \/ AllowedBy(rules, l.turn[l.call])

\* What each task keeps is sound.
LocalsOK == task \in [Tasks -> Locals] /\ \A t \in Tasks : LocalOK(task[t])

\* Whoever a user can still answer is a task that has not been answered.
Waiters ==
  /\ shown \subseteq Tasks /\ pending \subseteq Tasks
  /\ \A t \in shown \cup pending : task[t].pc \in {"register", "approval"} /\ task[t].answer = None
  /\ \A t \in pending : task[t].pc = "approval"

\* The lists of rules, in memory and on disk, hold only what a user has granted.
ListsOK ==
  /\ token \in [Tasks -> {"absent", "live", "cancelled"}]
  /\ session_allowlist \in [Sessions -> SUBSET granted]
  /\ persistent_allowlist \in {Unloaded} \cup SUBSET granted
  /\ disk \in {None} \cup SUBSET granted
  /\ granted \subseteq Rules
  /\ \A t \in Tasks : task[t].pc = "save_rule" => persistent_allowlist # Unloaded
  /\ \A t \in Tasks : Covered(task[t], granted)

\* The inductive invariant.
IInv == LocalsOK /\ Waiters /\ ListsOK

(***************************************************************************)
(* A task that handles a call has one, and the rule that call asks for is  *)
(* one of the rules.                                                       *)
(***************************************************************************)
LEMMA CallOfTurn ==
  ASSUME AgentAssumption, NEW l \in Locals, CallKnown(l), l.pc \in CallLabels
  PROVE  /\ l.turn[l.call] \in Calls
         /\ build_approval_rule(l.turn[l.call]) \in Rules
<1> DEFINE turn == l.turn
<1>1. turn \in Turns \cup {<<>>} /\ l.call \in 1 .. Len(turn)
  BY DEF Locals, CallKnown
<1>2. Len(<<>>) = 0
  OBVIOUS
<1>3. turn \in Turns /\ turn \in Seq(Range(turn))
  BY <1>1, <1>2 DEF AgentAssumption
<1>4. l.call \in DOMAIN turn
  BY <1>1, <1>3
<1>5. turn[l.call] \in Range(turn)
  BY <1>4 DEF Range
<1>6. turn[l.call] \in Calls
  BY <1>3, <1>5 DEF Calls
<1> QED
  BY <1>6 DEF Rules

(***************************************************************************)
(* A task that concludes forgets its plan, its call and its approvals:     *)
(* what is left of it is sound.                                            *)
(***************************************************************************)
LEMMA ConcludedOK ==
  ASSUME AgentAssumption, NEW l \in Locals, NEW outcome \in {"cancelled", "error", "answer"},
         l.open => outcome = "cancelled"
  PROVE  /\ Concluded(l, outcome) \in Locals
         /\ LocalOK(Concluded(l, outcome))
         /\ Concluded(l, outcome).pc = "ending" /\ Concluded(l, outcome).answer = None
         /\ Concluded(l, outcome).loaded = {}
<1> DEFINE c == Concluded(l, outcome)
<1>1. c = [pc |-> "ending", session |-> l.session, tools |-> l.tools, turn |-> <<>>, call |-> 0,
           loops |-> 0, plan |-> <<>>, plan_index |-> 0, wait |-> "none", answer |-> None,
           loaded |-> {}, open |-> l.open, final |-> outcome]
  <2> DEFINE b == Blank(l.session, l.tools)
  <2>1. b = [pc |-> "idle", session |-> l.session, tools |-> l.tools, turn |-> <<>>, call |-> 0,
             loops |-> 0, plan |-> <<>>, plan_index |-> 0, wait |-> "none", answer |-> None,
             loaded |-> {}, open |-> FALSE, final |-> None]
    BY DEF Blank
  <2>2. c = [b EXCEPT !.pc = "ending", !.final = outcome, !.open = l.open]
    BY DEF Concluded
  <2> HIDE DEF b, c
  <2> QED
    BY <2>1, <2>2
<1>2. c \in Locals
  BY <1>1 DEF Locals, Labels, Waits, AgentAssumption
<1>3. CallKnown(c) /\ c.pc \notin CallLabels
  BY <1>1 DEF CallKnown, CallLabels
<1>4. InOrder(c) /\ PlanRests(c)
  BY <1>1 DEF InOrder, PlanRests
<1>5. OpenKnown(c) /\ AnswerKnown(c)
  BY <1>1 DEF OpenKnown, AnswerKnown
<1> QED
  BY <1>1, <1>2, <1>3, <1>4, <1>5 DEF LocalOK, BeforePlan

(***************************************************************************)
(* mark_plan_running changes the plan of a task, and keeps its steps in    *)
(* order.                                                                  *)
(***************************************************************************)
LEMMA PlanStarted ==
  ASSUME NEW l \in Locals, InOrder(l)
  PROVE  \E plan \in Seq(Statuses) :
           /\ mark_plan_running(l) = [l EXCEPT !.plan = plan]
           /\ InOrder([l EXCEPT !.plan = plan])
<1> DEFINE next == l.plan_index + 1
<1>1. CASE next \in DOMAIN l.plan /\ l.plan[next] = "pending"
  <2> DEFINE plan == [l.plan EXCEPT ![next] = "running"]
  <2>1. plan \in Seq(Statuses) /\ DOMAIN plan = DOMAIN l.plan
    BY <1>1 DEF Locals, Statuses
  <2>2. mark_plan_running(l) = [l EXCEPT !.plan = plan]
    BY <1>1 DEF mark_plan_running, Locals
  <2>3. InOrder([l EXCEPT !.plan = plan])
    BY <1>1 DEF InOrder, Locals
  <2> QED
    BY <2>1, <2>2, <2>3
<1>2. CASE ~(next \in DOMAIN l.plan /\ l.plan[next] = "pending")
  <2>1. mark_plan_running(l) = l /\ l = [l EXCEPT !.plan = l.plan] /\ l.plan \in Seq(Statuses)
    BY <1>2 DEF mark_plan_running, Locals
  <2> QED
    BY <2>1
<1> QED
  BY <1>1, <1>2

(***************************************************************************)
(* mark_plan_finished changes the plan and its index, keeps its steps in   *)
(* order and leaves none running.                                          *)
(***************************************************************************)
LEMMA PlanFinished ==
  ASSUME NEW l \in Locals, InOrder(l)
  PROVE  \E plan \in Seq(Statuses), index \in Nat :
           /\ mark_plan_finished(l) = [l EXCEPT !.plan = plan, !.plan_index = index]
           /\ InOrder([l EXCEPT !.plan = plan, !.plan_index = index])
           /\ PlanRests([l EXCEPT !.plan = plan, !.plan_index = index])
<1> DEFINE next == l.plan_index + 1
<1>1. CASE next \in DOMAIN l.plan
  <2> DEFINE plan == [l.plan EXCEPT ![next] = "finished"]
  <2>1. plan \in Seq(Statuses) /\ DOMAIN plan = DOMAIN l.plan /\ next \in Nat
    BY <1>1 DEF Locals, Statuses
  <2>2. mark_plan_finished(l) = [l EXCEPT !.plan = plan, !.plan_index = next]
    BY <1>1 DEF mark_plan_finished, Locals
  <2>3. /\ [l EXCEPT !.plan = plan, !.plan_index = next].plan = plan
        /\ [l EXCEPT !.plan = plan, !.plan_index = next].plan_index = next
    BY DEF Locals
  <2>4. \A i \in DOMAIN plan : i \in Nat /\ plan[i] = IF i = next THEN "finished" ELSE l.plan[i]
    BY <2>1 DEF Locals
  <2>5. InOrder([l EXCEPT !.plan = plan, !.plan_index = next])
    BY <1>1, <2>1, <2>3, <2>4 DEF InOrder, Locals
  <2>6. PlanRests([l EXCEPT !.plan = plan, !.plan_index = next])
    BY <1>1, <2>1, <2>3, <2>4 DEF InOrder, PlanRests, Locals
  <2> QED
    BY <2>1, <2>2, <2>5, <2>6
<1>2. CASE next \notin DOMAIN l.plan
  <2>1. /\ mark_plan_finished(l) = l
        /\ l = [l EXCEPT !.plan = l.plan, !.plan_index = l.plan_index]
        /\ l.plan \in Seq(Statuses) /\ l.plan_index \in Nat
    BY <1>2 DEF mark_plan_finished, Locals
  <2>2. \A i \in DOMAIN l.plan : i \in Nat /\ i <= l.plan_index
    BY <1>2, <2>1
  <2>3. PlanRests(l)
    BY <2>1, <2>2 DEF InOrder, PlanRests
  <2> QED
    BY <2>1, <2>3
<1> QED
  BY <1>1, <1>2
(***************************************************************************)
(* The order of the steps is a matter of the plan and its index alone.     *)
(***************************************************************************)
LEMMA SamePlan ==
  ASSUME NEW l, NEW r, r.plan = l.plan, r.plan_index = l.plan_index
  PROVE  (InOrder(l) => InOrder(r)) /\ (PlanRests(l) => PlanRests(r))
BY DEF InOrder, PlanRests

(***************************************************************************)
(* Going on to the next call, to the next loop or to the end leaves the    *)
(* task sound, and with no approval of the call before.                    *)
(***************************************************************************)
LEMMA NextCallOK ==
  ASSUME AgentAssumption, NEW l \in Locals, InOrder(l), PlanRests(l), l.wait = "none", ~l.open,
         l.final = None, l.call \in 0 .. Len(l.turn)
  PROVE  /\ NextCall(l) \in Locals
         /\ LocalOK(NextCall(l))
         /\ NextCall(l).pc \in {"call", "loop", "ending"} /\ NextCall(l).answer = None
         /\ NextCall(l).loaded \subseteq l.loaded
<1>1. l.turn \in Turns \cup {<<>>} /\ Len(l.turn) \in Nat /\ l.call \in Nat /\ l.loops \in Nat
  <2>1. l.turn \in Turns \cup {<<>>} /\ l.call \in Nat /\ l.loops \in Nat
    BY DEF Locals
  <2>2. Len(<<>>) = 0
    OBVIOUS
  <2> QED
    BY <2>1, <2>2
<1>2. CASE l.call < Len(l.turn)
  <2> DEFINE r == [l EXCEPT !.pc = "call", !.call = @ + 1, !.answer = None]
  <2>1. NextCall(l) = r
    BY <1>2 DEF NextCall
  <2>2. r \in Locals
    <3>1. l.call + 1 \in Nat /\ "call" \in Labels
      BY <1>1 DEF Labels, CallLabels
    <3> QED
      BY <3>1 DEF Locals
  <2>3. /\ r.pc = "call" /\ r.call = l.call + 1 /\ r.answer = None /\ r.turn = l.turn
        /\ r.wait = "none" /\ ~r.open /\ r.final = None /\ r.loaded = l.loaded
        /\ r.plan = l.plan /\ r.plan_index = l.plan_index
    BY DEF Locals
  <2> HIDE DEF r
  <2>4. CallKnown(r)
    BY <1>1, <1>2, <2>3 DEF CallKnown
  <2>5. InOrder(r) /\ PlanRests(r)
    BY <2>3, SamePlan
  <2>6. OpenKnown(r) /\ AnswerKnown(r)
    BY <2>3 DEF OpenKnown, AnswerKnown
  <2> QED
    BY <2>1, <2>2, <2>3, <2>4, <2>5, <2>6 DEF LocalOK, BeforePlan
<1>3. CASE ~(l.call < Len(l.turn)) /\ l.loops + 1 < MaxToolLoops
  <2> DEFINE r == [l EXCEPT !.pc = "loop", !.loops = @ + 1, !.turn = <<>>, !.call = 0,
                            !.answer = None]
  <2>1. NextCall(l) = r
    BY <1>3 DEF NextCall
  <2>2. r \in Locals
    <3>1. l.loops + 1 \in 0 .. MaxToolLoops - 1 /\ "loop" \in Labels
      BY <1>1, <1>3 DEF Labels, AgentAssumption
    <3> QED
      BY <3>1 DEF Locals
  <2>3. /\ r.pc = "loop" /\ r.call = 0 /\ r.answer = None /\ r.turn = <<>>
        /\ r.wait = "none" /\ ~r.open /\ r.final = None /\ r.loaded = l.loaded
        /\ r.plan = l.plan /\ r.plan_index = l.plan_index
    BY DEF Locals
  <2> HIDE DEF r
  <2>4. CallKnown(r)
    BY <2>3 DEF CallKnown, CallLabels
  <2>5. InOrder(r) /\ PlanRests(r)
    BY <2>3, SamePlan
  <2>6. OpenKnown(r) /\ AnswerKnown(r)
    BY <2>3 DEF OpenKnown, AnswerKnown
  <2> QED
    BY <2>1, <2>2, <2>3, <2>4, <2>5, <2>6 DEF LocalOK, BeforePlan
<1>4. CASE ~(l.call < Len(l.turn)) /\ ~(l.loops + 1 < MaxToolLoops)
  <2>1. NextCall(l) = Concluded(l, "error")
    BY <1>4 DEF NextCall
  <2> QED
    BY <2>1, ConcludedOK
<1> QED
  BY <1>2, <1>3, <1>4

(***************************************************************************)
(* One task's step changes that task only.                                 *)
(***************************************************************************)
LEMMA TaskKeeps ==
  ASSUME IInv, NEW t \in Tasks, NEW r \in Locals, LocalOK(r), Set(t, r)
  PROVE  /\ LocalsOK'
         /\ task'[t] = r
         /\ \A u \in Tasks \ {t} : task'[u] = task[u]
BY DEF IInv, LocalsOK, Set

(***************************************************************************)
(* Rules that are granted later take nothing away.                         *)
(***************************************************************************)
LEMMA CoveredByMore ==
  ASSUME NEW l, NEW rules, NEW more, rules \subseteq more, Covered(l, rules)
  PROVE  Covered(l, more)
BY DEF Covered, AllowedBy

(***************************************************************************)
(* A step of one task keeps the invariant if that task stays sound, is     *)
(* asked only where it waits, and rules are only added.                    *)
(***************************************************************************)
LEMMA Keeps ==
  ASSUME IInv, NEW t \in Tasks, NEW r \in Locals, LocalOK(r), Set(t, r),
         token' \in [Tasks -> {"absent", "live", "cancelled"}],
         shown' \subseteq shown \cup {t}, pending' \subseteq pending \cup {t},
         t \in shown' \cup pending' => r.pc \in {"register", "approval"} /\ r.answer = None,
         t \in pending' => r.pc = "approval",
         granted \subseteq granted', granted' \subseteq Rules,
         session_allowlist' \in [Sessions -> SUBSET granted'],
         persistent_allowlist' \in {Unloaded} \cup SUBSET granted',
         disk' \in {None} \cup SUBSET granted',
         persistent_allowlist # Unloaded => persistent_allowlist' # Unloaded,
         r.pc = "save_rule" => persistent_allowlist' # Unloaded,
         Covered(r, granted')
  PROVE  IInv'
<1>1. LocalsOK' /\ task'[t] = r /\ \A u \in Tasks \ {t} : task'[u] = task[u]
  BY TaskKeeps
<1>2. Waiters'
  BY <1>1 DEF IInv, Waiters
<1>3. ASSUME NEW u \in Tasks
      PROVE  Covered(task'[u], granted')
  <2>1. CASE u = t
    BY <1>1, <2>1
  <2>2. CASE u # t
    <3>1. Covered(task[u], granted)
      BY DEF IInv, ListsOK
    <3> QED
      BY <1>1, <2>2, <3>1, CoveredByMore
  <2> QED
    BY <2>1, <2>2
<1>4. ASSUME NEW u \in Tasks, task'[u].pc = "save_rule"
      PROVE  persistent_allowlist' # Unloaded
  BY <1>1, <1>4 DEF IInv, ListsOK
<1>5. ListsOK'
  BY <1>3, <1>4 DEF ListsOK
<1> QED
  BY <1>1, <1>2, <1>5 DEF IInv

(***************************************************************************)
(* The same for a step that leaves all the rules alone.                    *)
(***************************************************************************)
LEMMA QuietStep ==
  ASSUME IInv, NEW t \in Tasks, NEW r \in Locals, LocalOK(r), Set(t, r),
         token' \in [Tasks -> {"absent", "live", "cancelled"}],
         shown' \subseteq shown \cup {t}, pending' \subseteq pending \cup {t},
         t \in shown' \cup pending' => r.pc \in {"register", "approval"} /\ r.answer = None,
         t \in pending' => r.pc = "approval",
         UNCHANGED ruleVars,
         r.pc = "save_rule" => persistent_allowlist # Unloaded,
         Covered(r, granted)
  PROVE  IInv'
BY Keeps DEF IInv, ListsOK, ruleVars


(***************************************************************************)
(* What the invariant says of one task, for the steps that cite it.        *)
(***************************************************************************)
LEMMA At ==
  ASSUME AgentAssumption, IInv, NEW t \in Tasks
  PROVE  LET l == task[t]
         IN  /\ l \in Locals /\ LocalOK(l) /\ Covered(l, granted)
             /\ l.pc \in Labels /\ l.wait \in Waits
             /\ l.wait # "none" => l.pc \in {"provider", "approval"}
             /\ l.pc \in CallLabels => l.call > 0
             /\ l.pc # "ending" => l.final = None
             /\ l.pc \notin {"running", "ending"} => ~l.open
             /\ l.answer # None => l.pc \in Asked
             /\ l.pc \in {"read_rules", "store_rules"} => l.answer \in {None, "approve_session"}
             /\ token \in [Tasks -> {"absent", "live", "cancelled"}]
             /\ t \in shown \cup pending => l.pc \in {"register", "approval"} /\ l.answer = None
             /\ t \in pending => l.pc = "approval"
             /\ l.pc = "save_rule" => persistent_allowlist # Unloaded
<1> DEFINE l == task[t]
<1>1. l \in Locals /\ LocalOK(l) /\ Covered(l, granted)
  BY DEF IInv, LocalsOK, ListsOK
<1>2. /\ token \in [Tasks -> {"absent", "live", "cancelled"}]
      /\ t \in shown \cup pending => l.pc \in {"register", "approval"} /\ l.answer = None
      /\ t \in pending => l.pc = "approval"
      /\ l.pc = "save_rule" => persistent_allowlist # Unloaded
  BY DEF IInv, Waiters, ListsOK
<1>3. l.pc \in Labels /\ l.wait \in Waits
  BY <1>1 DEF Locals
<1> HIDE DEF l
<1>4. /\ l.wait # "none" => l.pc \in {"provider", "approval"}
      /\ l.pc \in CallLabels => l.call > 0
      /\ l.pc # "ending" => l.final = None
      /\ l.pc \notin {"running", "ending"} => ~l.open
      /\ l.answer # None => l.pc \in Asked
      /\ l.pc \in {"read_rules", "store_rules"} => l.answer \in {None, "approve_session"}
  BY <1>1 DEF LocalOK, CallKnown, OpenKnown, AnswerKnown, AgentAssumption
<1> QED
  BY <1>1, <1>2, <1>3, <1>4 DEF l

\* A task at another label, waiting or not.
Moved(l, label, wait) == [l EXCEPT !.pc = label, !.wait = wait]

(***************************************************************************)
(* A task may go on to a label if what that label demands of its call, its *)
(* plan and its approval holds.                                            *)
(***************************************************************************)
LEMMA MoveOK ==
  ASSUME NEW l \in Locals, LocalOK(l), Covered(l, granted), NEW label \in Labels,
         NEW wait \in Waits,
         wait # "none" => label \in {"provider", "approval"},
         label \in CallLabels => l.call > 0,
         label \notin CallLabels => l.pc \notin CallLabels,
         label \in BeforePlan => l.pc \in BeforePlan,
         l.answer # None => label \in Asked,
         label = "save_rule" => l.answer = "approve_session",
         label \in {"read_rules", "store_rules"} => l.answer \in {None, "approve_session"},
         l.final = None, ~l.open,
         label \in {"ready", "running"} =>
           \/ ~tool_requires_approval(l.turn[l.call].tool)
           \/ l.answer \in {"approve_once", "approve_session"}
           \/ AllowedBy(granted, l.turn[l.call])
  PROVE  LET r == Moved(l, label, wait)
         IN  /\ r \in Locals /\ LocalOK(r) /\ Covered(r, granted)
             /\ r.pc = label /\ r.answer = l.answer /\ r.turn = l.turn /\ r.call = l.call
             /\ wait = l.wait => [l EXCEPT !.pc = label] = r
<1> DEFINE r == Moved(l, label, wait)
<1> USE DEF Moved
<1>1. r \in Locals
  BY DEF Locals
<1>2. /\ r.pc = label /\ r.wait = wait /\ r.turn = l.turn /\ r.call = l.call
      /\ r.plan = l.plan /\ r.plan_index = l.plan_index /\ r.answer = l.answer
      /\ r.loaded = l.loaded /\ r.open = l.open /\ r.final = l.final
  BY DEF Locals
<1>3. wait = l.wait => [l EXCEPT !.pc = label] = r
  BY DEF Locals
<1> HIDE DEF r, Moved
<1>4. CallKnown(r)
  BY <1>2 DEF CallKnown, LocalOK
<1>5. InOrder(r) /\ (label \notin CallLabels => PlanRests(r))
  BY <1>2, SamePlan DEF LocalOK
<1>6. OpenKnown(r) /\ AnswerKnown(r)
  BY <1>2 DEF OpenKnown, AnswerKnown
<1>7. Covered(r, granted)
  BY <1>2 DEF Covered
<1>8. LocalOK(r)
  BY <1>2, <1>4, <1>5, <1>6 DEF LocalOK
<1> QED
  BY <1>1, <1>2, <1>3, <1>7, <1>8 DEF r

(***************************************************************************)
(* The invariant holds at first.                                           *)
(***************************************************************************)
LEMMA InitKeeps ==
  ASSUME AgentAssumption, AgentInit
  PROVE  IInv
<1>1. PICK s \in [Tasks -> Sessions], enable \in [Tasks -> BOOLEAN] :
        task = [t \in Tasks |-> Blank(s[t], enable[t])]
  BY DEF AgentInit
<1>2. ASSUME NEW t \in Tasks
      PROVE  /\ task[t] \in Locals /\ LocalOK(task[t]) /\ Covered(task[t], granted)
             /\ task[t].pc = "idle"
  <2> DEFINE l == task[t]
  <2>1. l = Blank(s[t], enable[t])
    BY <1>1
  <2>2. l \in Locals
    BY <2>1 DEF Blank, Locals, Labels, Waits, AgentAssumption
  <2>3. /\ l.pc = "idle" /\ l.turn = <<>> /\ l.call = 0 /\ l.plan = <<>> /\ l.wait = "none"
        /\ l.answer = None /\ l.loaded = {} /\ l.open = FALSE /\ l.final = None /\ l.plan_index = 0
    BY <2>1 DEF Blank
  <2> HIDE DEF l
  <2>4. CallKnown(l) /\ l.pc \notin CallLabels
    BY <2>3 DEF CallKnown, CallLabels
  <2>5. InOrder(l) /\ PlanRests(l)
    BY <2>3 DEF InOrder, PlanRests
  <2>6. OpenKnown(l) /\ AnswerKnown(l) /\ Covered(l, granted)
    BY <2>3 DEF OpenKnown, AnswerKnown, Covered, AgentAssumption, Decisions
  <2> QED
    BY <2>2, <2>3, <2>4, <2>5, <2>6 DEF LocalOK, l
<1>3. LocalsOK
  <2>1. task \in [Tasks -> Locals]
    <3>1. DOMAIN task = Tasks /\ task = [t \in Tasks |-> task[t]]
      BY <1>1
    <3> QED
      BY <3>1, <1>2
  <2> QED
    BY <1>2, <2>1 DEF LocalsOK
<1>4. Waiters
  BY DEF AgentInit, Waiters
<1>5. ListsOK
  BY <1>2 DEF AgentInit, ListsOK, Rules
<1> QED
  BY <1>3, <1>4, <1>5 DEF IInv

(***************************************************************************)
(* A step that only moves a task on to another label keeps the invariant.  *)
(***************************************************************************)
LEMMA MoveKeeps ==
  ASSUME AgentAssumption, IInv, NEW t \in Tasks, NEW label \in Labels, NEW wait \in Waits,
         Set(t, Moved(task[t], label, wait)),
         wait # "none" => label \in {"provider", "approval"},
         label \in CallLabels => task[t].call > 0,
         label \notin CallLabels => task[t].pc \notin CallLabels,
         label \in BeforePlan => task[t].pc \in BeforePlan,
         task[t].answer # None => label \in Asked,
         label = "save_rule" =>
           task[t].answer = "approve_session" /\ persistent_allowlist # Unloaded,
         label \in {"read_rules", "store_rules"} => task[t].answer \in {None, "approve_session"},
         task[t].final = None, ~task[t].open,
         label \in {"ready", "running"} =>
           \/ ~tool_requires_approval(CurrentCall(t).tool)
           \/ task[t].answer \in {"approve_once", "approve_session"}
           \/ AllowedBy(granted, CurrentCall(t)),
         token' \in [Tasks -> {"absent", "live", "cancelled"}],
         shown' \subseteq shown \cup {t}, pending' \subseteq pending \cup {t},
         t \in shown' \cup pending' => label \in {"register", "approval"} /\ task[t].answer = None,
         t \in pending' => label = "approval",
         UNCHANGED ruleVars
  PROVE  IInv'
<1> DEFINE l == task[t]
           r == Moved(l, label, wait)
<1>1. l \in Locals /\ LocalOK(l) /\ Covered(l, granted)
  BY At
<1>2. r \in Locals /\ LocalOK(r) /\ Covered(r, granted) /\ r.pc = label /\ r.answer = l.answer
  BY <1>1, MoveOK DEF CurrentCall
<1> HIDE DEF r, l
<1> QED
  BY <1>2, QuietStep DEF r, l

(***************************************************************************)
(* Going on without a change of what is waited for.                        *)
(***************************************************************************)
LEMMA JustPc ==
  ASSUME NEW l \in Locals, NEW label
  PROVE  [l EXCEPT !.pc = label] = Moved(l, label, l.wait)
BY DEF Locals, Moved

(***************************************************************************)
(* SendMessage keeps the invariant: a message starts an idle task from a   *)
(* blank state.                                                            *)
(***************************************************************************)
LEMMA SendMessageKeeps ==
  ASSUME AgentAssumption, IInv, NEW t \in Tasks, SendMessage(t)
  PROVE  IInv'
<1>1. /\ task[t].pc = "idle" /\ "idle" \in BeforePlan
      /\ "spawned" \in Labels /\ "spawned" \notin CallLabels
      /\ "idle" \notin CallLabels /\ "idle" \notin Asked
  BY DEF SendMessage, Labels, CallLabels, Asked, BeforePlan
<1>2. Set(t, Moved(task[t], "spawned", task[t].wait))
  BY JustPc, At DEF SendMessage
<1> QED
  BY <1>1, <1>2, At, MoveKeeps DEF SendMessage

(***************************************************************************)
(* Register keeps the invariant: the task has its cancellation token.      *)
(***************************************************************************)
LEMMA RegisterKeeps ==
  ASSUME AgentAssumption, IInv, NEW t \in Tasks, Register(t)
  PROVE  IInv'
<1> DEFINE label == IF task[t].tools THEN "plan" ELSE "loop"
<1>1. /\ task[t].pc = "spawned" /\ "spawned" \in BeforePlan
      /\ label \in Labels /\ label \notin CallLabels
      /\ "spawned" \notin CallLabels /\ "spawned" \notin Asked
      /\ label \notin {"save_rule", "ready", "running"}
  BY DEF Register, Labels, CallLabels, Asked, BeforePlan
<1>2. Set(t, Moved(task[t], label, task[t].wait))
  <2>1. task[t] \in Locals
    BY At
  <2>2. [task[t] EXCEPT !.pc = label] = Moved(task[t], label, task[t].wait)
    BY <2>1, JustPc
  <2> QED
    BY <2>2 DEF Register
<1>3. token' \in [Tasks -> {"absent", "live", "cancelled"}]
  BY At DEF Register
<1> HIDE DEF label
<1> QED
  BY <1>1, <1>2, <1>3, At, MoveKeeps DEF Register

(***************************************************************************)
(* build_plan keeps the invariant: the first step of a new plan is         *)
(* unfinished and the others pending.                                      *)
(***************************************************************************)
LEMMA build_planKeeps ==
  ASSUME AgentAssumption, IInv, NEW t \in Tasks, build_plan(t)
  PROVE  IInv'
<1> DEFINE l == task[t]
<1>1. l \in Locals /\ LocalOK(l) /\ Covered(l, granted) /\ l.pc = "plan"
  BY At DEF build_plan
<1>2. PICK n \in PlanSizes :
        Set(t, [l EXCEPT !.pc = "loop", !.plan = [i \in 1..n |-> "pending"]])
  BY DEF build_plan
<1> DEFINE plan == [i \in 1..n |-> "pending"]
           r == [l EXCEPT !.pc = "loop", !.plan = plan]
<1>3. n \in Nat /\ plan \in Seq(Statuses) /\ DOMAIN plan = 1..n
  BY DEF AgentAssumption, Statuses
<1>4. r \in Locals
  BY <1>1, <1>3 DEF Locals, Labels
<1>5. /\ r.pc = "loop" /\ r.wait = l.wait /\ r.turn = l.turn /\ r.call = l.call
      /\ r.plan = plan /\ r.plan_index = l.plan_index /\ r.answer = l.answer
      /\ r.loaded = l.loaded /\ r.open = l.open /\ r.final = l.final
  BY <1>1 DEF Locals
<1>6. l.wait = "none" /\ l.final = None /\ ~l.open /\ l.answer = None
  BY <1>1, At DEF Asked
<1>7. l.plan_index = 0
  BY <1>1 DEF LocalOK, BeforePlan
<1> HIDE DEF r
<1>8. InOrder(r) /\ PlanRests(r)
  BY <1>3, <1>5, <1>7 DEF InOrder, PlanRests
<1>9. CallKnown(r) /\ OpenKnown(r) /\ AnswerKnown(r)
  <2>1. l.call \in 0 .. Len(l.turn)
    BY <1>1 DEF LocalOK, CallKnown
  <2> QED
    BY <1>5, <1>6, <2>1 DEF CallKnown, OpenKnown, AnswerKnown, CallLabels
<1>10. Covered(r, granted)
  BY <1>1, <1>5, <1>6 DEF Covered, AgentAssumption, Decisions
<1>11. LocalOK(r)
  BY <1>5, <1>8, <1>9 DEF LocalOK, BeforePlan
<1>12. Set(t, r)
  BY <1>2 DEF r
<1>13. t \notin shown \cup pending
  BY <1>1, At
<1> HIDE DEF l, plan
<1> QED
  BY <1>4, <1>5, <1>10, <1>11, <1>12, <1>13, QuietStep, At DEF build_plan

(***************************************************************************)
(* A task that has loaded nothing and been told nothing relies on nothing. *)
(***************************************************************************)
LEMMA EmptyCovered ==
  ASSUME AgentAssumption, NEW l, l.loaded = {}, l.answer = None, l.pc \notin {"ready", "running"},
         NEW rules
  PROVE  Covered(l, rules)
BY DEF Covered, AgentAssumption, Decisions

(***************************************************************************)
(* A task that concludes keeps the invariant, a cancelled one also if its  *)
(* tool is still running.                                                  *)
(***************************************************************************)
LEMMA ConcludeKeeps ==
  ASSUME AgentAssumption, IInv, NEW t \in Tasks, NEW outcome \in {"cancelled", "error", "answer"},
         task[t].open => outcome = "cancelled", Set(t, Concluded(task[t], outcome)),
         UNCHANGED <<token, ruleVars>>,
         shown' \subseteq shown \ {t}, pending' \subseteq pending \ {t}
  PROVE  IInv'
<1> DEFINE r == Concluded(task[t], outcome)
<1>1. /\ r \in Locals /\ LocalOK(r) /\ r.pc = "ending" /\ r.answer = None /\ r.loaded = {}
      /\ token \in [Tasks -> {"absent", "live", "cancelled"}]
  BY At, ConcludedOK
<1> HIDE DEF r
<1>2. Covered(r, granted)
  BY <1>1, EmptyCovered
<1> QED
  BY <1>1, <1>2, QuietStep DEF r

(***************************************************************************)
(* AskProvider keeps the invariant.                                        *)
(***************************************************************************)
LEMMA AskProviderKeeps ==
  ASSUME AgentAssumption, IInv, NEW t \in Tasks, AskProvider(t)
  PROVE  IInv'
<1>1. /\ task[t].pc = "loop" /\ "loop" \notin CallLabels /\ "loop" \notin BeforePlan
      /\ "loop" \notin Asked /\ "provider" \in Labels /\ "provider" \notin CallLabels
      /\ "provider" \notin BeforePlan /\ Waiting(t) \in Waits /\ Waiting(t) # "none"
  BY DEF AskProvider, Labels, CallLabels, BeforePlan, Asked, Waiting, Waits
<1>2. t \notin shown \cup pending
  BY <1>1, At
<1>3. CASE push_cancel_response(t)
  BY <1>1, <1>2, <1>3, At, ConcludeKeeps DEF push_cancel_response, AskProvider
<1>4. CASE Set(t, [task[t] EXCEPT !.pc = "provider", !.wait = Waiting(t)])
  <2>1. Set(t, Moved(task[t], "provider", Waiting(t)))
    BY <1>4 DEF Moved
  <2> QED
    BY <1>1, <1>2, <2>1, At, MoveKeeps DEF AskProvider
<1> QED
  BY <1>3, <1>4 DEF AskProvider

(***************************************************************************)
(* ListenForCancel keeps the invariant.                                    *)
(***************************************************************************)
LEMMA ListenForCancelKeeps ==
  ASSUME AgentAssumption, IInv, NEW t \in Tasks, ListenForCancel(t)
  PROVE  IInv'
<1>1. /\ task[t].wait = "checked" /\ task[t].pc \in {"provider", "approval"}
      /\ "listening" \in Waits /\ {"provider", "approval"} \cap {"running", "ending", "ready"} = {}
  BY At DEF ListenForCancel, Waits
<1>2. Set(t, Moved(task[t], task[t].pc, "listening"))
  <2>1. [task[t] EXCEPT !.wait = "listening"] = Moved(task[t], task[t].pc, "listening")
    BY At DEF Moved, Locals
  <2> QED
    BY <2>1 DEF ListenForCancel
<1> QED
  BY <1>1, <1>2, At, MoveKeeps DEF ListenForCancel

(***************************************************************************)
(* CancelBranch keeps the invariant, wherever the task was cancelled.      *)
(***************************************************************************)
LEMMA CancelBranchKeeps ==
  ASSUME AgentAssumption, IInv, NEW t \in Tasks, CancelBranch(t)
  PROVE  IInv'
BY ConcludeKeeps DEF CancelBranch, push_cancel_response, Withdraw

(***************************************************************************)
(* An answer or an error of the provider, with which the request ends,     *)
(* keeps the invariant.                                                    *)
(***************************************************************************)
LEMMA ProviderEndsKeeps ==
  ASSUME AgentAssumption, IInv, NEW t \in Tasks, ProviderFails(t) \/ ProviderAnswers(t)
  PROVE  IInv'
<1>1. task[t].pc = "provider"
  BY DEF ProviderFails, ProviderAnswers, SelectEnds
<1>2. ~task[t].open /\ t \notin shown \cup pending
  BY <1>1, At
<1> QED
  BY <1>2, ConcludeKeeps DEF ProviderFails, ProviderAnswers

(***************************************************************************)
(* A turn has a first call.                                                *)
(***************************************************************************)
LEMMA TurnHasCall ==
  ASSUME AgentAssumption, NEW turn \in Turns
  PROVE  1 \in 0 .. Len(turn)
<1>1. turn \in Seq(Range(turn)) /\ turn # <<>>
  BY DEF AgentAssumption
<1>2. Len(turn) \in Nat /\ Len(turn) # 0
  BY <1>1, EmptySeq
<1> QED
  BY <1>2

(***************************************************************************)
(* ProviderCallsTools keeps the invariant: the task is at the first call   *)
(* of its new turn.                                                        *)
(***************************************************************************)
LEMMA ProviderCallsToolsKeeps ==
  ASSUME AgentAssumption, IInv, NEW t \in Tasks, ProviderCallsTools(t)
  PROVE  IInv'
<1> DEFINE l == task[t]
<1>1. /\ l \in Locals /\ LocalOK(l) /\ Covered(l, granted) /\ l.pc = "provider"
      /\ token \in [Tasks -> {"absent", "live", "cancelled"}]
  BY At DEF ProviderCallsTools, SelectEnds
<1>2. PICK calls \in Turns :
        Set(t, [l EXCEPT !.pc = "call", !.turn = calls, !.call = 1, !.wait = "none"])
  BY DEF ProviderCallsTools
<1> DEFINE r == [l EXCEPT !.pc = "call", !.turn = calls, !.call = 1, !.wait = "none"]
<1>3. r \in Locals
  BY <1>1 DEF Locals, Labels, CallLabels, Waits
<1>4. /\ r.pc = "call" /\ r.wait = "none" /\ r.turn = calls /\ r.call = 1
      /\ r.plan = l.plan /\ r.plan_index = l.plan_index /\ r.answer = l.answer
      /\ r.loaded = l.loaded /\ r.open = l.open /\ r.final = l.final
  BY <1>1 DEF Locals
<1>5. l.final = None /\ ~l.open /\ l.answer = None /\ t \notin shown \cup pending
  BY <1>1, At DEF Asked
<1> HIDE DEF r
<1>6. InOrder(r)
  BY <1>1, <1>4, SamePlan DEF LocalOK
<1>7. CallKnown(r)
  <2>2. r.call = 1 /\ r.turn = calls
    BY <1>4
  <2>3. 1 \in 0 .. Len(calls)
    BY TurnHasCall
  <2>4. r.call \in 0 .. Len(r.turn)
    BY <2>2, <2>3
  <2> QED
    BY <1>4, <2>4 DEF CallKnown
<1>8. OpenKnown(r) /\ AnswerKnown(r)
  BY <1>4, <1>5 DEF OpenKnown, AnswerKnown
<1>9. LocalOK(r)
  BY <1>4, <1>6, <1>7, <1>8 DEF LocalOK, CallLabels, BeforePlan
<1>10. Covered(r, granted)
  BY <1>1, <1>4, <1>5 DEF Covered, AgentAssumption, Decisions
<1>11. Set(t, r)
  BY <1>2 DEF r
<1> HIDE DEF l
<1> QED
  BY <1>1, <1>3, <1>4, <1>5, <1>9, <1>10, <1>11, QuietStep DEF ProviderCallsTools

(***************************************************************************)
(* What any of the lists allows was granted.                               *)
(***************************************************************************)
LEMMA ListsGranted ==
  ASSUME AgentAssumption, IInv, NEW t \in Tasks, NEW c
  PROVE  /\ AllowedBy(session_allowlist[task[t].session], c) => AllowedBy(granted, c)
         /\ persistent_allowlist # Unloaded /\ AllowedBy(persistent_allowlist, c)
              => AllowedBy(granted, c)
         /\ AllowedBy(task[t].loaded, c) => AllowedBy(granted, c)
<1>1. session_allowlist[task[t].session] \subseteq granted
  BY At DEF IInv, ListsOK, Locals
<1>2. persistent_allowlist # Unloaded => persistent_allowlist \subseteq granted
  BY DEF IInv, ListsOK
<1>3. task[t].loaded \subseteq granted
  BY At DEF Covered
<1> QED
  BY <1>1, <1>2, <1>3 DEF AllowedBy

(***************************************************************************)
(* CheckCall keeps the invariant: a call goes on without a question only   *)
(* if it needs none or a granted rule allows it, and the next step of the  *)
(* plan starts.                                                            *)
(***************************************************************************)
LEMMA CheckCallKeeps ==
  ASSUME AgentAssumption, IInv, NEW t \in Tasks, CheckCall(t)
  PROVE  IInv'
<1> DEFINE l == task[t]
           c == CurrentCall(t)
           next ==
             IF \/ ~tool_requires_approval(c.tool)
                \/ AllowedBy(session_allowlist[l.session], c)
             THEN Decided(TRUE)
             ELSE IF persistent_allowlist = Unloaded THEN "read_rules"
             ELSE Decided(AllowedBy(persistent_allowlist, c))
<1>1. /\ l \in Locals /\ LocalOK(l) /\ Covered(l, granted) /\ l.pc = "call"
      /\ token \in [Tasks -> {"absent", "live", "cancelled"}]
  BY At DEF CheckCall
<1>2. PICK plan \in Seq(Statuses) :
        /\ mark_plan_running(l) = [l EXCEPT !.plan = plan]
        /\ InOrder([l EXCEPT !.plan = plan])
  BY <1>1, PlanStarted DEF LocalOK
<1> DEFINE p == [l EXCEPT !.plan = plan]
<1>3. p \in Locals
  BY <1>1 DEF Locals
<1>4. /\ p.pc = "call" /\ p.wait = l.wait /\ p.turn = l.turn /\ p.call = l.call
      /\ p.plan_index = l.plan_index /\ p.answer = l.answer
      /\ p.loaded = l.loaded /\ p.open = l.open /\ p.final = l.final
  BY <1>1 DEF Locals
<1>5. l.wait = "none" /\ l.final = None /\ ~l.open /\ l.answer = None /\ l.call > 0
      /\ t \notin shown \cup pending /\ c = l.turn[l.call]
  BY <1>1, At DEF Asked, CallLabels, CurrentCall
<1>6. Set(t, [p EXCEPT !.pc = next])
  BY <1>2 DEF CheckCall
<1> HIDE DEF p
<1>7. LocalOK(p)
  <2>1. CallKnown(p)
    BY <1>1, <1>4, <1>5 DEF LocalOK, CallKnown
  <2>2. InOrder(p)
    BY <1>2 DEF p
  <2>3. OpenKnown(p) /\ AnswerKnown(p)
    BY <1>4, <1>5 DEF OpenKnown, AnswerKnown
  <2> QED
    BY <1>4, <2>1, <2>2, <2>3 DEF LocalOK, CallLabels, BeforePlan
<1>8. Covered(p, granted)
  BY <1>1, <1>4, <1>5 DEF Covered
<1>9. next \in {"ready", "read_rules", "request"} /\ next \in CallLabels /\ next \in Labels
      /\ next \notin BeforePlan
  BY DEF Decided, CallLabels, Labels, BeforePlan
<1>10. next = "ready" => ~tool_requires_approval(c.tool) \/ AllowedBy(granted, c)
  BY ListsGranted DEF Decided
<1> HIDE DEF next, l, c
<1> DEFINE r == Moved(p, next, p.wait)
<1>11. r \in Locals /\ LocalOK(r) /\ Covered(r, granted) /\ r.pc = next /\ r.answer = None
  <2>1. p.wait \in Waits /\ p.wait = "none"
    BY <1>4, <1>5 DEF Waits
  <2> QED
    BY <1>3, <1>4, <1>5, <1>7, <1>8, <1>9, <1>10, <2>1, MoveOK
<1>12. Set(t, r)
  BY <1>3, <1>6, JustPc
<1> HIDE DEF r
<1> QED
  BY <1>1, <1>5, <1>9, <1>11, <1>12, QuietStep DEF CheckCall

(***************************************************************************)
(* ReadRules keeps the invariant: what is read from disk was granted.      *)
(***************************************************************************)
LEMMA ReadRulesKeeps ==
  ASSUME AgentAssumption, IInv, NEW t \in Tasks, ReadRules(t)
  PROVE  IInv'
<1> DEFINE l == task[t]
           loaded == IF disk = None THEN {} ELSE disk
           p == [l EXCEPT !.loaded = loaded]
           r == Moved(p, "store_rules", p.wait)
<1>1. /\ l \in Locals /\ LocalOK(l) /\ Covered(l, granted) /\ l.pc = "read_rules"
      /\ token \in [Tasks -> {"absent", "live", "cancelled"}]
  BY At DEF ReadRules
<1>2. loaded \subseteq granted /\ granted \subseteq Rules
  BY DEF IInv, ListsOK
<1>3. Set(t, [p EXCEPT !.pc = "store_rules"])
  <2>1. [p EXCEPT !.pc = "store_rules"] = [l EXCEPT !.pc = "store_rules", !.loaded = loaded]
    BY <1>1 DEF Locals
  <2> QED
    BY <2>1 DEF ReadRules
<1> HIDE DEF loaded
<1>4. p \in Locals
  BY <1>1, <1>2 DEF Locals
<1>5. /\ p.pc = "read_rules" /\ p.wait = l.wait /\ p.turn = l.turn /\ p.call = l.call
      /\ p.plan = l.plan /\ p.plan_index = l.plan_index /\ p.answer = l.answer
      /\ p.loaded = loaded /\ p.open = l.open /\ p.final = l.final
  BY <1>1 DEF Locals
<1> HIDE DEF p
<1>6. l.wait = "none" /\ l.final = None /\ ~l.open /\ l.call > 0 /\ t \notin shown \cup pending
  BY <1>1, At DEF CallLabels
<1>7. LocalOK(p)
  <2>1. CallKnown(p)
    BY <1>1, <1>5, <1>6 DEF LocalOK, CallKnown
  <2>2. InOrder(p)
    BY <1>1, <1>5, SamePlan DEF LocalOK
  <2>3. OpenKnown(p) /\ AnswerKnown(p)
    BY <1>1, <1>5, <1>6 DEF LocalOK, OpenKnown, AnswerKnown, Asked
  <2> QED
    BY <1>5, <2>1, <2>2, <2>3 DEF LocalOK, CallLabels, BeforePlan
<1>8. Covered(p, granted)
  BY <1>1, <1>2, <1>5 DEF Covered
<1>9. r \in Locals /\ LocalOK(r) /\ Covered(r, granted) /\ r.pc = "store_rules"
  <2>1. /\ p.wait \in Waits /\ p.wait = "none" /\ "store_rules" \in Labels
        /\ "store_rules" \in Asked /\ "store_rules" \in CallLabels
        /\ "store_rules" \notin BeforePlan
    BY <1>5, <1>6 DEF Waits, Labels, CallLabels, Asked, BeforePlan
  <2>2. p.answer \in {None, "approve_session"} /\ p.final = None /\ ~p.open /\ p.call > 0
    BY <1>1, <1>5, <1>6, At
  <2> QED
    BY <1>4, <1>7, <1>8, <2>1, <2>2, MoveOK
<1>10. Set(t, r)
  BY <1>3, <1>4, JustPc
<1> HIDE DEF r, l
<1> QED
  BY <1>1, <1>6, <1>9, <1>10, QuietStep DEF ReadRules

(***************************************************************************)
(* StoreRules keeps the invariant: what a task has read replaces the list, *)
(* and was granted.                                                        *)
(***************************************************************************)
LEMMA StoreRulesKeeps ==
  ASSUME AgentAssumption, IInv, NEW t \in Tasks, StoreRules(t)
  PROVE  IInv'
<1> DEFINE l == task[t]
           c == CurrentCall(t)
           next == IF l.answer = "approve_session" THEN "save_rule"
                   ELSE Decided(AllowedBy(l.loaded, c))
           p == [l EXCEPT !.loaded = {}]
           r == Moved(p, next, p.wait)
<1>1. /\ l \in Locals /\ LocalOK(l) /\ Covered(l, granted) /\ l.pc = "store_rules"
      /\ token \in [Tasks -> {"absent", "live", "cancelled"}]
  BY At DEF StoreRules
<1>2. l.loaded \in SUBSET Rules /\ l.loaded \in SUBSET granted
  BY <1>1 DEF Covered, Locals
<1>3. Set(t, [p EXCEPT !.pc = next])
  BY <1>1 DEF StoreRules, Locals
<1>4. p \in Locals
  BY <1>1 DEF Locals
<1>5. /\ p.pc = "store_rules" /\ p.wait = l.wait /\ p.turn = l.turn /\ p.call = l.call
      /\ p.plan = l.plan /\ p.plan_index = l.plan_index /\ p.answer = l.answer
      /\ p.loaded = {} /\ p.open = l.open /\ p.final = l.final
  BY <1>1 DEF Locals
<1> HIDE DEF p
<1>6. /\ l.wait = "none" /\ l.final = None /\ ~l.open /\ l.call > 0 /\ t \notin shown \cup pending
      /\ c = l.turn[l.call]
  BY <1>1, At DEF CallLabels, CurrentCall
<1>7. LocalOK(p)
  <2>1. CallKnown(p)
    BY <1>1, <1>5, <1>6 DEF LocalOK, CallKnown
  <2>2. InOrder(p)
    BY <1>1, <1>5, SamePlan DEF LocalOK
  <2>3. OpenKnown(p) /\ AnswerKnown(p)
    BY <1>1, <1>5, <1>6 DEF LocalOK, OpenKnown, AnswerKnown, Asked
  <2> QED
    BY <1>5, <2>1, <2>2, <2>3 DEF LocalOK, CallLabels, BeforePlan
<1>8. Covered(p, granted)
  BY <1>1, <1>5 DEF Covered
<1>9. next \in {"save_rule", "ready", "request"} /\ next \in CallLabels /\ next \in Labels
      /\ next \notin BeforePlan
  BY DEF Decided, CallLabels, Labels, BeforePlan
<1>10. /\ next = "ready" => AllowedBy(granted, c)
       /\ next = "save_rule" => l.answer = "approve_session"
  BY ListsGranted DEF Decided
<1>11. next = "request" => l.answer = None
  BY <1>1, At
<1> HIDE DEF next
<1>12. r \in Locals /\ LocalOK(r) /\ Covered(r, granted) /\ r.pc = next
  <2>1. p.wait \in Waits /\ p.wait = "none"
    BY <1>5, <1>6 DEF Waits
  <2>2. p.final = None /\ ~p.open /\ p.call > 0 /\ p.turn[p.call] = c
    BY <1>5, <1>6
  <2>3. /\ next # "request" => next \in Asked
        /\ next = "request" => p.answer = None
        /\ next = "save_rule" => p.answer = "approve_session"
    BY <1>5, <1>9, <1>10, <1>11 DEF Asked
  <2> HIDE DEF l, c
  <2> QED
    BY <1>4, <1>7, <1>8, <1>9, <1>10, <2>1, <2>2, <2>3, MoveOK
<1>13. Set(t, r)
  BY <1>3, <1>4, JustPc
<1>14. persistent_allowlist' \in SUBSET granted /\ persistent_allowlist' # Unloaded
  BY <1>2 DEF StoreRules, AgentAssumption
<1>15. UNCHANGED <<token, shown, pending, session_allowlist, disk, granted>>
  BY DEF StoreRules
<1> HIDE DEF r, l, c
<1>16. /\ session_allowlist \in [Sessions -> SUBSET granted]
       /\ disk \in {None} \cup SUBSET granted
       /\ granted \subseteq Rules
  BY DEF IInv, ListsOK
<1> QED
  BY <1>1, <1>6, <1>12, <1>13, <1>14, <1>15, <1>16, Keeps

(***************************************************************************)
(* RequestApproval keeps the invariant: the user is shown a call that no   *)
(* rule allows.                                                            *)
(***************************************************************************)
LEMMA RequestApprovalKeeps ==
  ASSUME AgentAssumption, IInv, NEW t \in Tasks, RequestApproval(t)
  PROVE  IInv'
<1>1. /\ task[t].pc = "request" /\ "request" \notin Asked /\ "request" \in CallLabels
      /\ "register" \in Labels /\ "register" \in CallLabels /\ "register" \notin BeforePlan
  BY DEF RequestApproval, Labels, CallLabels, Asked, BeforePlan
<1>2. t \notin shown \cup pending /\ task[t].answer = None
  BY <1>1, At
<1>3. Set(t, Moved(task[t], "register", task[t].wait))
  BY JustPc, At DEF RequestApproval
<1> QED
  BY <1>1, <1>2, <1>3, At, MoveKeeps DEF RequestApproval

(***************************************************************************)
(* RegisterApproval keeps the invariant: whoever decides finds a task that *)
(* waits.                                                                  *)
(***************************************************************************)
LEMMA RegisterApprovalKeeps ==
  ASSUME AgentAssumption, IInv, NEW t \in Tasks, RegisterApproval(t)
  PROVE  IInv'
<1>1. /\ task[t].pc = "register" /\ "register" \notin Asked /\ "register" \in CallLabels
      /\ "approval" \in Labels /\ "approval" \in CallLabels /\ "approval" \notin BeforePlan
      /\ Waiting(t) \in Waits
  BY DEF RegisterApproval, Labels, CallLabels, Asked, BeforePlan, Waiting, Waits
<1>2. task[t].answer = None
  BY <1>1, At
<1>3. Set(t, Moved(task[t], "approval", Waiting(t)))
  BY DEF RegisterApproval, Moved
<1> QED
  BY <1>1, <1>2, <1>3, At, MoveKeeps DEF RegisterApproval

(***************************************************************************)
(* Approved keeps the invariant: the task that was told runs the call it   *)
(* asked about.                                                            *)
(***************************************************************************)
LEMMA ApprovedKeeps ==
  ASSUME AgentAssumption, IInv, NEW t \in Tasks, Approved(t)
  PROVE  IInv'
<1>1. /\ task[t].pc = "approval" /\ task[t].answer = "approve_once" /\ "approval" \in CallLabels
      /\ "ready" \in Labels /\ "ready" \in CallLabels /\ "ready" \notin BeforePlan
      /\ "ready" \in Asked /\ "none" \in Waits /\ "approve_once" # None
  BY DEF Approved, SelectEnds, Labels, CallLabels, Asked, BeforePlan, Waits, AgentAssumption,
         Decisions
<1>2. t \notin shown \cup pending
  BY <1>1, At
<1>3. Set(t, Moved(task[t], "ready", "none"))
  BY DEF Approved, Moved
<1> QED
  BY <1>1, <1>2, <1>3, At, MoveKeeps DEF Approved

(***************************************************************************)
(* ApprovedForSession keeps the invariant: the rule that is kept is the    *)
(* one that was granted.                                                   *)
(***************************************************************************)
LEMMA ApprovedForSessionKeeps ==
  ASSUME AgentAssumption, IInv, NEW t \in Tasks, ApprovedForSession(t)
  PROVE  IInv'
<1> DEFINE l == task[t]
           next == IF persistent_allowlist = Unloaded THEN "read_rules" ELSE "save_rule"
           rule == build_approval_rule(CurrentCall(t))
           r == Moved(l, next, "none")
<1>1. /\ l \in Locals /\ LocalOK(l) /\ Covered(l, granted) /\ l.pc = "approval"
      /\ l.answer = "approve_session"
      /\ token \in [Tasks -> {"absent", "live", "cancelled"}]
  BY At DEF ApprovedForSession, SelectEnds
<1>2. "approval" \in CallLabels /\ next \in Labels /\ next \in CallLabels /\ next \in Asked
      /\ next \in {"read_rules", "save_rule"} /\ next \notin BeforePlan /\ "none" \in Waits
      /\ "approve_session" # None
  BY DEF Labels, CallLabels, Asked, BeforePlan, Waits, AgentAssumption, Decisions
<1>3. t \notin shown \cup pending /\ l.call > 0 /\ l.final = None /\ ~l.open
  BY <1>1, <1>2, At
<1>4. Set(t, r)
  <2>1. [task[t] EXCEPT !.wait = "none", !.pc = next] = r
    BY <1>1 DEF Moved, Locals
  <2> QED
    BY <2>1 DEF ApprovedForSession
<1>5. next = "save_rule" => persistent_allowlist # Unloaded
  OBVIOUS
<1>6. rule \in granted
  BY <1>1 DEF Covered, CurrentCall
<1>7. /\ session_allowlist' \in [Sessions -> SUBSET granted]
      /\ UNCHANGED <<token, shown, pending, persistent_allowlist, disk, granted>>
  <2>1. session_allowlist \in [Sessions -> SUBSET granted] /\ l.session \in Sessions
    BY <1>1 DEF IInv, ListsOK, Locals
  <2>2. session_allowlist' = [session_allowlist EXCEPT ![l.session] = @ \cup {rule}]
    BY DEF ApprovedForSession
  <2> HIDE DEF rule, l
  <2>3. session_allowlist[l.session] \cup {rule} \in SUBSET granted
    BY <1>6, <2>1
  <2>4. session_allowlist' \in [Sessions -> SUBSET granted]
    BY <2>1, <2>2, <2>3
  <2> QED
    BY <2>4 DEF ApprovedForSession
<1> HIDE DEF next, rule
<1>8. r \in Locals /\ LocalOK(r) /\ Covered(r, granted) /\ r.pc = next
  BY <1>1, <1>2, <1>3, MoveOK
<1>9. /\ persistent_allowlist \in {Unloaded} \cup SUBSET granted
      /\ disk \in {None} \cup SUBSET granted
      /\ granted \subseteq Rules
  BY DEF IInv, ListsOK
<1> HIDE DEF r, l
<1> QED
  BY <1>1, <1>3, <1>4, <1>5, <1>7, <1>8, <1>9, Keeps

(***************************************************************************)
(* allow_persistent keeps the invariant: list and disk get a granted rule. *)
(***************************************************************************)
LEMMA allow_persistentKeeps ==
  ASSUME AgentAssumption, IInv, NEW t \in Tasks, allow_persistent(t)
  PROVE  IInv'
<1> DEFINE l == task[t]
           rule == build_approval_rule(CurrentCall(t))
           rules == persistent_allowlist \cup {rule}
           r == Moved(l, "ready", l.wait)
<1>1. /\ l \in Locals /\ LocalOK(l) /\ Covered(l, granted) /\ l.pc = "save_rule"
      /\ token \in [Tasks -> {"absent", "live", "cancelled"}]
  BY At DEF allow_persistent
<1>2. l.answer = "approve_session"
  BY <1>1 DEF LocalOK, AnswerKnown
<1>3. /\ "save_rule" \in CallLabels
      /\ "ready" \in Labels /\ "ready" \in CallLabels /\ "ready" \in Asked
      /\ "ready" \notin BeforePlan /\ l.wait \in Waits /\ l.wait = "none"
      /\ l.call > 0 /\ l.final = None /\ ~l.open /\ t \notin shown \cup pending
  BY <1>1, At DEF Labels, CallLabels, Asked, BeforePlan
<1>4. r \in Locals /\ LocalOK(r) /\ Covered(r, granted) /\ r.pc = "ready"
  BY <1>1, <1>2, <1>3, MoveOK
<1>5. Set(t, r)
  BY <1>1, JustPc DEF allow_persistent
<1>6. rule \in granted /\ granted \in SUBSET Rules
  BY <1>1, <1>2 DEF Covered, CurrentCall, IInv, ListsOK
<1>7. persistent_allowlist \in SUBSET granted
  BY <1>1, At DEF IInv, ListsOK
<1>8. rules \in SUBSET granted /\ rules # Unloaded
  BY <1>6, <1>7 DEF AgentAssumption
<1>9. /\ session_allowlist \in [Sessions -> SUBSET granted]
      /\ disk \in {None} \cup SUBSET granted
  BY DEF IInv, ListsOK
<1>10. /\ persistent_allowlist' = rules
       /\ disk' \in {rules, disk}
       /\ UNCHANGED <<token, shown, pending, session_allowlist, granted>>
  BY DEF allow_persistent
<1>11. disk' \in {None} \cup SUBSET granted
  BY <1>8, <1>9, <1>10
<1> HIDE DEF r, l, rules, rule
<1> QED
  BY <1>1, <1>3, <1>4, <1>5, <1>6, <1>8, <1>9, <1>10, <1>11, Keeps

(***************************************************************************)
(* A call that is denied, or whose tool has returned, leaves the task      *)
(* sound at the next call.                                                 *)
(***************************************************************************)
LEMMA CallDone ==
  ASSUME AgentAssumption, IInv, NEW t \in Tasks, NEW g,
         \/ /\ task[t].pc = "approval"
            /\ g = [mark_plan_finished(task[t]) EXCEPT !.wait = "none"]
         \/ /\ task[t].pc = "running"
            /\ g = [mark_plan_finished(task[t]) EXCEPT !.open = FALSE],
         Set(t, NextCall(g)),
         UNCHANGED <<token, ruleVars>>,
         shown' \subseteq shown \ {t}, pending' \subseteq pending \ {t}
  PROVE  IInv'
<1> DEFINE l == task[t]
           r == NextCall(g)
<1>1. /\ l \in Locals /\ LocalOK(l) /\ Covered(l, granted) /\ l.final = None
      /\ token \in [Tasks -> {"absent", "live", "cancelled"}]
      /\ l.pc = "running" => l.wait = "none"
      /\ l.pc = "approval" => ~l.open
  BY At
<1>2. PICK plan \in Seq(Statuses), index \in Nat :
        /\ mark_plan_finished(l) = [l EXCEPT !.plan = plan, !.plan_index = index]
        /\ InOrder([l EXCEPT !.plan = plan, !.plan_index = index])
        /\ PlanRests([l EXCEPT !.plan = plan, !.plan_index = index])
  BY <1>1, PlanFinished DEF LocalOK
<1> DEFINE p == [l EXCEPT !.plan = plan, !.plan_index = index]
<1>3. p \in Locals
  BY <1>1 DEF Locals
<1>4. /\ p.wait = l.wait /\ p.turn = l.turn /\ p.call = l.call /\ p.loaded = l.loaded
      /\ p.open = l.open /\ p.final = l.final
  BY <1>1 DEF Locals
<1>5. \/ l.pc = "approval" /\ g = [p EXCEPT !.wait = "none"]
      \/ l.pc = "running" /\ g = [p EXCEPT !.open = FALSE]
  BY <1>2
<1>6. InOrder(p) /\ PlanRests(p)
  BY <1>2
<1> HIDE DEF p
<1>7. /\ g \in Locals /\ g.wait = "none" /\ g.open = FALSE /\ g.final = None
      /\ g.call = l.call /\ g.turn = l.turn /\ g.loaded = l.loaded
      /\ g.plan = p.plan /\ g.plan_index = p.plan_index
  <2> HIDE DEF l
  <2>1. CASE l.pc = "approval" /\ g = [p EXCEPT !.wait = "none"]
    <3>1. g \in Locals
      BY <1>3, <2>1 DEF Locals, Waits
    <3> QED
      BY <1>1, <1>3, <1>4, <2>1, <3>1 DEF Locals
  <2>2. CASE l.pc = "running" /\ g = [p EXCEPT !.open = FALSE]
    <3>1. g \in Locals
      BY <1>3, <2>2 DEF Locals
    <3> QED
      BY <1>1, <1>3, <1>4, <2>2, <3>1 DEF Locals
  <2> QED
    BY <1>5, <2>1, <2>2
<1>8. InOrder(g) /\ PlanRests(g)
  BY <1>6, <1>7, SamePlan
<1>9. g.call \in 0 .. Len(g.turn)
  BY <1>1, <1>7 DEF LocalOK, CallKnown
<1>10. /\ r \in Locals /\ LocalOK(r) /\ r.pc \in {"call", "loop", "ending"} /\ r.answer = None
       /\ r.loaded \subseteq granted
  <2>1. l.loaded \subseteq granted
    BY <1>1 DEF Covered
  <2> HIDE DEF l
  <2> QED
    BY <1>7, <1>8, <1>9, <2>1, NextCallOK
<1> HIDE DEF r
<1>11. Covered(r, granted)
  BY <1>10 DEF Covered, AgentAssumption, Decisions
<1>12. Set(t, r)
  BY DEF r
<1> HIDE DEF l
<1> QED
  BY <1>1, <1>10, <1>11, <1>12, QuietStep

(***************************************************************************)
(* Denied keeps the invariant.                                             *)
(***************************************************************************)
LEMMA DeniedKeeps ==
  ASSUME AgentAssumption, IInv, NEW t \in Tasks, Denied(t)
  PROVE  IInv'
BY CallDone DEF Denied, SelectEnds, Withdraw

(***************************************************************************)
(* ToolReturns keeps the invariant.                                        *)
(***************************************************************************)
LEMMA ToolReturnsKeeps ==
  ASSUME AgentAssumption, IInv, NEW t \in Tasks, ToolReturns(t)
  PROVE  IInv'
<1>1. task[t].pc = "running" /\ t \notin shown \cup pending
  BY At DEF ToolReturns
<1>2. CASE push_cancel_response(t)
  BY <1>1, <1>2, ConcludeKeeps DEF push_cancel_response, ToolReturns
<1>3. CASE Set(t, NextCall([mark_plan_finished(task[t]) EXCEPT !.open = FALSE]))
  BY <1>1, <1>3, CallDone DEF ToolReturns
<1> QED
  BY <1>2, <1>3 DEF ToolReturns

(***************************************************************************)
(* StartTool keeps the invariant: the task ends, or its tool runs with the *)
(* permission it was checked for.                                          *)
(***************************************************************************)
LEMMA StartToolKeeps ==
  ASSUME AgentAssumption, IInv, NEW t \in Tasks, StartTool(t)
  PROVE  IInv'
<1> DEFINE l == task[t]
           r == [l EXCEPT !.pc = "running", !.open = TRUE]
<1>1. /\ l \in Locals /\ LocalOK(l) /\ Covered(l, granted) /\ l.pc = "ready"
      /\ token \in [Tasks -> {"absent", "live", "cancelled"}]
  BY At DEF StartTool
<1>2. t \notin shown \cup pending /\ l.wait = "none" /\ l.final = None /\ l.call > 0
  BY <1>1, At DEF CallLabels
<1>3. CASE push_cancel_response(t)
  BY <1>1, <1>2, <1>3, ConcludeKeeps DEF push_cancel_response, StartTool
<1>4. CASE Set(t, r)
  <2>1. r \in Locals
    BY <1>1 DEF Locals, Labels, CallLabels
  <2>2. /\ r.pc = "running" /\ r.open = TRUE /\ r.wait = l.wait /\ r.turn = l.turn
        /\ r.call = l.call /\ r.plan = l.plan /\ r.plan_index = l.plan_index
        /\ r.answer = l.answer /\ r.loaded = l.loaded /\ r.final = l.final
    BY <1>1 DEF Locals
  <2> HIDE DEF r
  <2>3. CallKnown(r)
    BY <1>1, <1>2, <2>2 DEF LocalOK, CallKnown
  <2>4. InOrder(r)
    BY <1>1, <2>2, SamePlan DEF LocalOK
  <2>5. OpenKnown(r) /\ AnswerKnown(r)
    BY <1>2, <2>2 DEF OpenKnown, AnswerKnown, Asked
  <2>6. LocalOK(r)
    BY <2>2, <2>3, <2>4, <2>5 DEF LocalOK, CallLabels, BeforePlan
  <2>7. Covered(r, granted)
    BY <1>1, <2>2 DEF Covered
  <2> HIDE DEF l
  <2> QED
    BY <1>1, <1>2, <1>4, <2>1, <2>2, <2>6, <2>7, QuietStep DEF StartTool
<1> QED
  BY <1>3, <1>4 DEF StartTool

\* A blank task at a label.
Cleared(s, enable, label) == [Blank(s, enable) EXCEPT !.pc = label]

(***************************************************************************)
(* A blank task is sound.                                                  *)
(***************************************************************************)
LEMMA BlankOK ==
  ASSUME AgentAssumption, NEW s \in Sessions, NEW enable \in BOOLEAN, NEW label \in Labels,
         label \notin CallLabels, NEW rules
  PROVE  LET r == Cleared(s, enable, label)
         IN  r \in Locals /\ LocalOK(r) /\ Covered(r, rules) /\ r.pc = label /\ r.answer = None
<1> DEFINE r == Cleared(s, enable, label)
<1>1. r = [pc |-> label, session |-> s, tools |-> enable, turn |-> <<>>, call |-> 0,
           loops |-> 0, plan |-> <<>>, plan_index |-> 0, wait |-> "none", answer |-> None,
           loaded |-> {}, open |-> FALSE, final |-> None]
  <2> DEFINE b == Blank(s, enable)
  <2>1. b = [pc |-> "idle", session |-> s, tools |-> enable, turn |-> <<>>, call |-> 0,
             loops |-> 0, plan |-> <<>>, plan_index |-> 0, wait |-> "none", answer |-> None,
             loaded |-> {}, open |-> FALSE, final |-> None]
    BY DEF Blank
  <2>2. r = [b EXCEPT !.pc = label]
    BY DEF Cleared
  <2> HIDE DEF b, r
  <2> QED
    BY <2>1, <2>2
<1> HIDE DEF r
<1>2. r \in Locals
  BY <1>1 DEF Locals, Waits, AgentAssumption
<1>3. /\ r.pc = label /\ r.turn = <<>> /\ r.call = 0 /\ r.plan = <<>> /\ r.wait = "none"
      /\ r.answer = None /\ r.loaded = {} /\ r.open = FALSE /\ r.final = None /\ r.plan_index = 0
  BY <1>1
<1>4. CallKnown(r)
  BY <1>3 DEF CallKnown
<1>5. InOrder(r) /\ PlanRests(r)
  BY <1>3 DEF InOrder, PlanRests
<1>6. OpenKnown(r) /\ AnswerKnown(r)
  BY <1>3 DEF OpenKnown, AnswerKnown, CallLabels
<1>7. Covered(r, rules)
  BY <1>3, EmptyCovered DEF CallLabels
<1>8. LocalOK(r)
  BY <1>3, <1>4, <1>5, <1>6 DEF LocalOK, BeforePlan
<1> QED
  BY <1>2, <1>3, <1>7, <1>8 DEF r

(***************************************************************************)
(* Unregister keeps the invariant: the task is done, and blank again.      *)
(***************************************************************************)
LEMMA UnregisterKeeps ==
  ASSUME AgentAssumption, IInv, NEW t \in Tasks, Unregister(t)
  PROVE  IInv'
<1> DEFINE r == Cleared(task[t].session, task[t].tools, "done")
<1>1. task[t].session \in Sessions /\ task[t].tools \in BOOLEAN
  BY At DEF Locals
<1>2. "done" \in Labels /\ "done" \notin CallLabels
  BY DEF Labels, CallLabels
<1>3. r \in Locals /\ LocalOK(r) /\ Covered(r, granted) /\ r.pc = "done" /\ r.answer = None
  BY <1>1, <1>2, BlankOK
<1>4. token' \in [Tasks -> {"absent", "live", "cancelled"}]
  BY At DEF Unregister
<1>5. Set(t, r)
  BY DEF Unregister, Cleared
<1>6. t \notin shown \cup pending
  BY At DEF Unregister
<1> HIDE DEF r
<1> QED
  BY <1>3, <1>4, <1>5, <1>6, QuietStep DEF Unregister

(***************************************************************************)
(* Cancel keeps the invariant: it changes a token.                         *)
(***************************************************************************)
LEMMA CancelKeeps ==
  ASSUME AgentAssumption, IInv, NEW t \in Tasks, Cancel(t)
  PROVE  IInv'
<1> DEFINE l == task[t]
           wait == IF l.wait = "listening" THEN "woken" ELSE l.wait
           r == [l EXCEPT !.wait = wait]
<1>1. /\ l \in Locals /\ LocalOK(l) /\ Covered(l, granted)
      /\ l.pc = "save_rule" => persistent_allowlist # Unloaded
      /\ t \in shown \cup pending => l.pc \in {"register", "approval"} /\ l.answer = None
      /\ t \in pending => l.pc = "approval"
  BY At
<1>2. wait \in Waits /\ (wait # "none" => l.wait # "none")
  BY <1>1 DEF Waits, Locals
<1>3. Set(t, r)
  <2>1. [task[t] EXCEPT !.wait = IF @ = "listening" THEN "woken" ELSE @] = r
    BY <1>1 DEF Locals
  <2> QED
    BY <2>1 DEF Cancel
<1>4. token' \in [Tasks -> {"absent", "live", "cancelled"}]
  BY At DEF Cancel
<1> HIDE DEF wait
<1>5. r \in Locals
  BY <1>1, <1>2 DEF Locals
<1>6. /\ r.pc = l.pc /\ r.wait = wait /\ r.turn = l.turn /\ r.call = l.call
      /\ r.plan = l.plan /\ r.plan_index = l.plan_index /\ r.answer = l.answer
      /\ r.loaded = l.loaded /\ r.open = l.open /\ r.final = l.final
  BY <1>1 DEF Locals
<1> HIDE DEF r, l
<1>7. CallKnown(r)
  BY <1>1, <1>2, <1>6 DEF LocalOK, CallKnown
<1>8. InOrder(r) /\ (PlanRests(l) => PlanRests(r))
  BY <1>1, <1>6, SamePlan DEF LocalOK
<1>9. OpenKnown(r) /\ AnswerKnown(r)
  BY <1>1, <1>6 DEF LocalOK, OpenKnown, AnswerKnown
<1>10. LocalOK(r)
  BY <1>1, <1>6, <1>7, <1>8, <1>9 DEF LocalOK
<1>11. Covered(r, granted)
  BY <1>1, <1>6 DEF Covered
<1> QED
  BY <1>1, <1>3, <1>4, <1>5, <1>6, <1>10, <1>11, QuietStep DEF Cancel

(***************************************************************************)
(* Decide keeps the invariant: it answers a task that was shown, once, and *)
(* grants a rule only with its call.                                       *)
(***************************************************************************)
LEMMA DecideKeeps ==
  ASSUME AgentAssumption, IInv, NEW t \in shown, NEW decision \in Decisions, Decide(t, decision)
  PROVE  IInv'
<1>1. t \in Tasks /\ shown \subseteq Tasks /\ pending \subseteq Tasks
  BY DEF IInv, Waiters
<1>2. CASE t \in pending
  <2> DEFINE l == task[t]
             rule == build_approval_rule(CurrentCall(t))
             r == [l EXCEPT !.answer = decision]
  <2>1. /\ l \in Locals /\ LocalOK(l) /\ Covered(l, granted) /\ l.pc = "approval"
        /\ token \in [Tasks -> {"absent", "live", "cancelled"}]
        /\ l.final = None /\ ~l.open
    BY <1>1, <1>2, At
  <2>2. r \in Locals
    BY <2>1 DEF Locals
  <2>3. /\ r.pc = "approval" /\ r.wait = l.wait /\ r.turn = l.turn /\ r.call = l.call
        /\ r.plan = l.plan /\ r.plan_index = l.plan_index /\ r.answer = decision
        /\ r.loaded = l.loaded /\ r.open = l.open /\ r.final = l.final
    BY <2>1 DEF Locals
  <2>4. rule \in Rules /\ rule = build_approval_rule(l.turn[l.call])
    BY <2>1, CallOfTurn DEF LocalOK, CallLabels, CurrentCall
  <2>5. Set(t, r)
    BY <1>2 DEF Decide
  <2>6. granted' = IF decision = "approve_session" THEN granted \cup {rule} ELSE granted
    BY <1>2 DEF Decide
  <2> HIDE DEF r, rule, l
  <2>7. CallKnown(r)
    BY <2>1, <2>3 DEF LocalOK, CallKnown
  <2>8. InOrder(r)
    BY <2>1, <2>3, SamePlan DEF LocalOK
  <2>9. OpenKnown(r) /\ AnswerKnown(r)
    BY <2>1, <2>3 DEF OpenKnown, AnswerKnown, Asked
  <2>10. LocalOK(r)
    BY <2>3, <2>7, <2>8, <2>9 DEF LocalOK, CallLabels, BeforePlan
  <2>11. Covered(r, granted')
    BY <2>1, <2>3, <2>4, <2>6 DEF Covered
  <2>12. granted \in SUBSET Rules /\ granted \subseteq granted' /\ granted' \subseteq Rules
    BY <2>4, <2>6 DEF IInv, ListsOK
  <2>13. /\ session_allowlist' \in [Sessions -> SUBSET granted']
         /\ persistent_allowlist' \in {Unloaded} \cup SUBSET granted'
         /\ disk' \in {None} \cup SUBSET granted'
         /\ UNCHANGED persistent_allowlist
    <3>1. /\ session_allowlist \in [Sessions -> SUBSET granted]
          /\ persistent_allowlist \in {Unloaded} \cup SUBSET granted
          /\ disk \in {None} \cup SUBSET granted
      BY DEF IInv, ListsOK
    <3>2. UNCHANGED <<session_allowlist, persistent_allowlist, disk>>
      BY DEF Decide
    <3> QED
      BY <2>12, <3>1, <3>2
  <2>14. UNCHANGED token /\ shown' = shown \ {t} /\ pending' = pending \ {t}
    BY DEF Decide
  <2> QED
    BY <1>1, <2>1, <2>2, <2>3, <2>5, <2>10, <2>11, <2>12, <2>13, <2>14, Keeps
<1>3. CASE t \notin pending
  <2>1. UNCHANGED <<task, granted, token, session_allowlist, persistent_allowlist, disk>>
        /\ shown' = shown \ {t} /\ pending' = pending \ {t}
    BY <1>3 DEF Decide
  <2>2. LocalsOK'
    BY <2>1 DEF IInv, LocalsOK
  <2>3. Waiters'
    BY <2>1 DEF IInv, Waiters
  <2>4. ListsOK'
    BY <2>1 DEF IInv, ListsOK
  <2> QED
    BY <2>2, <2>3, <2>4 DEF IInv
<1> QED
  BY <1>2, <1>3

(***************************************************************************)
(* Restart keeps the invariant: no task is left, and the disk has what was *)
(* granted.                                                                *)
(***************************************************************************)
LEMMA RestartKeeps ==
  ASSUME AgentAssumption, IInv, Restart
  PROVE  IInv'
<1>1. ASSUME NEW t \in Tasks
      PROVE  /\ task'[t] \in Locals /\ LocalOK(task'[t]) /\ Covered(task'[t], granted)
             /\ task'[t].pc # "save_rule"
  <2>1. CASE task[t].pc = "idle"
    <3>1. task'[t] = task[t]
      BY <2>1 DEF Restart
    <3> QED
      BY <2>1, <3>1, At
  <2>2. CASE task[t].pc # "idle"
    <3>1. task'[t] = Cleared(task[t].session, task[t].tools, "lost")
      BY <2>2 DEF Restart, Cleared
    <3>2. task[t].session \in Sessions /\ task[t].tools \in BOOLEAN
      BY At DEF Locals
    <3>3. "lost" \in Labels /\ "lost" \notin CallLabels
      BY DEF Labels, CallLabels
    <3> QED
      BY <3>1, <3>2, <3>3, BlankOK
  <2> QED
    BY <2>1, <2>2
<1>2. task' \in [Tasks -> Locals]
  <2>1. DOMAIN task' = Tasks /\ task' = [t \in Tasks |-> task'[t]]
    BY DEF Restart
  <2> QED
    BY <1>1, <2>1
<1>3. LocalsOK'
  BY <1>1, <1>2 DEF LocalsOK
<1>4. Waiters'
  BY DEF Restart, Waiters
<1>5. ListsOK'
  <2>1. token' \in [Tasks -> {"absent", "live", "cancelled"}]
    BY DEF Restart
  <2>2. /\ session_allowlist' \in [Sessions -> SUBSET granted]
        /\ persistent_allowlist' = Unloaded /\ disk' = disk /\ granted' = granted
    BY DEF Restart
  <2>3. disk \in {None} \cup SUBSET granted /\ granted \subseteq Rules
    BY DEF IInv, ListsOK
  <2> QED
    BY <1>1, <2>1, <2>2, <2>3 DEF ListsOK
<1> QED
  BY <1>3, <1>4, <1>5 DEF IInv

(***************************************************************************)
(* Every step keeps the invariant.                                         *)
(***************************************************************************)
LEMMA StepKeeps ==
  ASSUME AgentAssumption, IInv, [AgentNext]_agentVars
  PROVE  IInv'
<1>1. ASSUME NEW t \in Tasks, SendMessage(t) \/ Cancel(t)
      PROVE  IInv'
  BY <1>1, SendMessageKeeps, CancelKeeps
<1>2. ASSUME NEW t \in Tasks, TaskStep(t)
      PROVE  IInv'
  <2>1. CASE Register(t) \/ build_plan(t) \/ AskProvider(t) \/ ListenForCancel(t) \/ CancelBranch(t)
    BY <2>1, RegisterKeeps, build_planKeeps, AskProviderKeeps, ListenForCancelKeeps,
       CancelBranchKeeps
  <2>2. CASE ProviderFails(t) \/ ProviderAnswers(t) \/ ProviderCallsTools(t)
    BY <2>2, ProviderEndsKeeps, ProviderCallsToolsKeeps
  <2>3. CASE CheckCall(t) \/ ReadRules(t) \/ StoreRules(t) \/ RequestApproval(t)
             \/ RegisterApproval(t)
    BY <2>3, CheckCallKeeps, ReadRulesKeeps, StoreRulesKeeps, RequestApprovalKeeps,
       RegisterApprovalKeeps
  <2>4. CASE Approved(t) \/ ApprovedForSession(t) \/ allow_persistent(t) \/ Denied(t)
    BY <2>4, ApprovedKeeps, ApprovedForSessionKeeps, allow_persistentKeeps, DeniedKeeps
  <2>5. CASE StartTool(t) \/ ToolReturns(t) \/ Unregister(t)
    BY <2>5, StartToolKeeps, ToolReturnsKeeps, UnregisterKeeps
  <2> QED
    BY <1>2, <2>1, <2>2, <2>3, <2>4, <2>5 DEF TaskStep
<1>3. ASSUME NEW t \in shown, NEW decision \in Decisions, Decide(t, decision)
      PROVE  IInv'
  BY <1>3, DecideKeeps
<1>4. CASE Restart
  BY <1>4, RestartKeeps
<1>5. CASE UNCHANGED agentVars
  <2>1. UNCHANGED <<task, token, shown, pending, session_allowlist, persistent_allowlist, disk,
                    granted>>
    BY <1>5 DEF agentVars, ruleVars
  <2>2. LocalsOK'
    BY <2>1 DEF IInv, LocalsOK
  <2>3. Waiters'
    BY <2>1 DEF IInv, Waiters
  <2>4. ListsOK'
    BY <2>1 DEF IInv, ListsOK
  <2> QED
    BY <2>2, <2>3, <2>4 DEF IInv
<1> QED
  BY <1>1, <1>2, <1>3, <1>4, <1>5 DEF AgentNext

(***************************************************************************)
(* The invariant always holds.                                             *)
(***************************************************************************)
LEMMA Always == AgentSpec => []IInv
<1>1. AgentInit => IInv
  BY AgentAssumption, InitKeeps
<1>2. IInv /\ [AgentNext]_agentVars => IInv'
  BY AgentAssumption, StepKeeps
<1> QED
  BY <1>1, <1>2, PTL DEF AgentSpec

(***************************************************************************)
(* The invariant implies the properties.                                   *)
(***************************************************************************)
LEMMA Implies ==
  ASSUME AgentAssumption, IInv
  PROVE  AgentTypeOK /\ ApplyIsApproved /\ PlanInOrder /\ NoToolLeftRunning
<1>1. ASSUME NEW t \in Tasks
      PROVE  /\ task[t].pc \in Labels
             /\ task[t].session \in Sessions
             /\ task[t].turn \in Turns \cup {<<>>}
             /\ task[t].call \in 0 .. Len(task[t].turn)
             /\ task[t].pc \in CallLabels => task[t].call > 0
             /\ task[t].loops \in 0 .. MaxToolLoops - 1
             /\ task[t].wait \in {"none", "checked", "listening", "woken"}
             /\ task[t].wait # "none" => task[t].pc \in {"provider", "approval"}
             /\ task[t].answer \in Decisions \cup {None}
             /\ task[t].loaded \subseteq Rules
             /\ task[t].final \in {None, "cancelled", "error", "answer"}
  <2>1. task[t] \in Locals /\ CallKnown(task[t])
    BY At DEF LocalOK
  <2>2. task[t].call \in 0 .. Len(task[t].turn)
    BY <2>1 DEF CallKnown
  <2>3. /\ task[t].pc \in CallLabels => task[t].call > 0
        /\ task[t].wait # "none" => task[t].pc \in {"provider", "approval"}
    BY <2>1 DEF CallKnown
  <2>4. task[t].pc \in Labels /\ task[t].session \in Sessions /\ task[t].turn \in Turns \cup {<<>>}
    BY <2>1 DEF Locals
  <2>5. task[t].loops \in 0 .. MaxToolLoops - 1 /\ task[t].wait \in Waits
    BY <2>1 DEF Locals
  <2>6. /\ task[t].answer \in Decisions \cup {None} /\ task[t].loaded \subseteq Rules
        /\ task[t].final \in {None, "cancelled", "error", "answer"}
    BY <2>1 DEF Locals
  <2> QED
    BY <2>2, <2>3, <2>4, <2>5, <2>6 DEF Waits
<1>2. AgentTypeOK
  <2>1. /\ session_allowlist \in [Sessions -> SUBSET Rules]
        /\ persistent_allowlist \in {Unloaded} \cup SUBSET Rules
        /\ disk \in {None} \cup SUBSET Rules
    BY DEF IInv, ListsOK
  <2> QED
    BY <1>1, <2>1 DEF AgentTypeOK, IInv, ListsOK, Waiters
<1>3. ApplyIsApproved
  BY At DEF ApplyIsApproved, Covered, CurrentCall
<1>4. PlanInOrder
  <2> SUFFICES ASSUME NEW t \in Tasks, NEW i \in DOMAIN task[t].plan
               PROVE  /\ i <= task[t].plan_index => task[t].plan[i] = "finished"
                      /\ i = task[t].plan_index + 1 => task[t].plan[i] \in {"pending", "running"}
                      /\ i > task[t].plan_index + 1 => task[t].plan[i] = "pending"
                      /\ task[t].plan[i] = "running" => task[t].pc \in CallLabels
    BY DEF PlanInOrder
  <2>1. task[t].plan \in Seq(Statuses)
    BY At DEF Locals
  <2>2. task[t].plan[i] \in Statuses
    BY <2>1
  <2>3. InOrder(task[t]) /\ (task[t].pc \notin CallLabels => PlanRests(task[t]))
    BY At DEF LocalOK
  <2> QED
    BY <2>2, <2>3 DEF InOrder, PlanRests, Statuses
<1>5. NoToolLeftRunning
  <2> SUFFICES ASSUME NEW t \in Tasks, task[t].final \in {"answer", "error"}
               PROVE  ~task[t].open
    BY DEF NoToolLeftRunning
  <2>1. OpenKnown(task[t])
    BY At DEF LocalOK
  <2> QED
    BY <2>1 DEF OpenKnown, AgentAssumption
<1> QED
  BY <1>2, <1>3, <1>4, <1>5

(***************************************************************************)
(* The state of the agent loop is always of its type.                      *)
(***************************************************************************)
THEOREM AgentTypeCorrect == AgentSpec => []AgentTypeOK
BY Always, AgentAssumption, Implies, PTL

(***************************************************************************)
(* A tool that needs approval runs only if a user approved that call, or   *)
(* granted before a rule that allows it: whichever list the rule was found *)
(* in, however approvals, cancellations and restarts overlap.              *)
(***************************************************************************)
THEOREM ApplyOnlyIfApproved == AgentSpec => []ApplyIsApproved
BY Always, AgentAssumption, Implies, PTL

(***************************************************************************)
(* The steps of a plan are finished in their order, one at a time.         *)
(***************************************************************************)
THEOREM PlansAreWorkedInOrder == AgentSpec => []PlanInOrder
BY Always, AgentAssumption, Implies, PTL

(***************************************************************************)
(* When a request has ended without having been cancelled, none of its     *)
(* tools is left running.                                                  *)
(***************************************************************************)
THEOREM ToolsAreFinished == AgentSpec => []NoToolLeftRunning
BY Always, AgentAssumption, Implies, PTL
=============================================================================
