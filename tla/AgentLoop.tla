------------------------------ MODULE AgentLoop ------------------------------
(***************************************************************************)
(* The tool loop that answers an ai_message with a provider's API          *)
(* (handlers/ai_handler.rs), the approvals and cancel tokens it waits on   *)
(* (approval_manager.rs, approval_rules.rs), the tools it runs             *)
(* (tool_handler.rs). The messages it adds to a session are left out.     *)
(*                                                                         *)
(* One task per message runs beside the socket loops, which deliver the    *)
(* client's decisions and cancels.  An action ends where the task awaits   *)
(* something another task can change; the step a pc names is the next one. *)
(***************************************************************************)
EXTENDS Naturals, Sequences, SequencesExt, FiniteSets

CONSTANTS
    Tasks,         \* ai_message requests; a task stands for its stream id
    Sessions,      \* agent sessions of one project
    Turns,         \* the lists of tool calls a provider may answer with
    PlanSizes,     \* how many steps build_plan may return; 0 for no plan
    MaxToolLoops,  \* MAX_TOOL_LOOPS
    MaxRestarts,   \* bound: server restarts
    SavedRules,    \* what approvals.json may hold when the server starts
    Unloaded,      \* no entry of the project in persistent_allowlist
    None

\* A tool call is a tool and the path in its input: a sequence of components,
\* <<>> for an input without one.
Calls == UNION {Range(turn) : turn \in Turns}

\* The two components a path may have beside names.
Here == "."
Up == ".."

\* approval_rules.rs: a path that leaves the project, or names nothing, is None.
normalize_relative_path(path) ==
    IF Up \in Range(path) THEN <<>> ELSE SelectSeq(path, LAMBDA c : c # Here)

\* The directory of the path, or the path itself when it has only one component.
approval_prefix_from_path(path) == IF Len(path) > 1 THEN Front(path) ELSE path

build_approval_rule(call) ==
    [tool |-> call.tool,
     path_prefix |-> approval_prefix_from_path(normalize_relative_path(call.path))]

tool_requires_approval(tool) == tool = "apply_pending_edit"

rule_matches(rule, call) ==
    LET path == normalize_relative_path(call.path)
    IN  /\ rule.tool = call.tool
        /\ IF rule.path_prefix = <<>> THEN path = <<>>
                                      ELSE IsPrefix(rule.path_prefix, path)

AllowedBy(rules, call) == \E rule \in rules : rule_matches(rule, call)

Rules == {build_approval_rule(call) : call \in Calls} \cup UNION SavedRules

\* An edit is an approve_once whose input the user wrote.
Decisions == {"approve_once", "approve_session", "deny"}

ASSUME AgentAssumption ==
    /\ MaxToolLoops \in Nat \ {0}
    /\ MaxRestarts \in Nat
    /\ PlanSizes \subseteq 0..3
    /\ \A turn \in Turns : turn \in Seq(Range(turn)) /\ turn # <<>>
    /\ None \notin Decisions \cup {"cancelled", "error", "answer"}
    /\ \A rules \in SUBSET Rules : rules # Unloaded

VARIABLES
    task,        \* the local state of each request's task, see Blank
    token,       \* cancel tokens: "absent" (not registered), "live" or "cancelled"
    shown,       \* tasks whose approval request waits for the user
    pending,     \* tasks whose request is in ApprovalManager.pending
    session_allowlist,
    persistent_allowlist,
    disk,        \* .reprod/approvals.json, None when it cannot be parsed
    restarts,
    granted      \* history: the rules the user approved for the session, ever

ruleVars == <<session_allowlist, persistent_allowlist, disk, granted>>
agentVars == <<task, token, shown, pending, ruleVars, restarts>>

\* The locals of handle_ai_message before it has done anything: its next step,
\* the message's session and enable_tools, the provider's tool calls and the one
\* being handled, loop_count, the plan's statuses and how many are finished, how
\* far CancelToken::wait is, the decision in the approval's channel, rules read
\* and not yet inserted, whether ai_tool_started awaits its ai_tool_finished, and
\* the kind of the last message sent.
Blank(s, enable) ==
    [pc |-> "idle", session |-> s, tools |-> enable, turn |-> <<>>, call |-> 0, loops |-> 0,
     plan |-> <<>>, plan_index |-> 0, wait |-> "none", answer |-> None, loaded |-> {},
     open |-> FALSE, final |-> None]

-----------------------------------------------------------------------------

AgentInit ==
    /\ \E s \in [Tasks -> Sessions], enable \in [Tasks -> BOOLEAN] :
        task = [t \in Tasks |-> Blank(s[t], enable[t])]
    /\ token = [t \in Tasks |-> "absent"]
    /\ shown = {}
    /\ pending = {}
    /\ session_allowlist = [s \in Sessions |-> {}]
    /\ persistent_allowlist = Unloaded
    /\ disk \in SavedRules \cup {None}
    /\ restarts = 0
    /\ granted = IF disk = None THEN {} ELSE disk

-----------------------------------------------------------------------------
(* Helpers of the actions.                                                 *)

Set(t, locals) == task' = [task EXCEPT ![t] = locals]

Cancelled(t) == token[t] = "cancelled"
CurrentCall(t) == task[t].turn[task[t].call]

\* The task's last message; its locals go, and only unregister is left.
Concluded(locals, outcome) ==
    [Blank(locals.session, locals.tools) EXCEPT
        !.pc = "ending", !.final = outcome, !.open = locals.open]

\* Mutant of Withdraw: the request outlives the wait.
WithdrawNothing(t) == UNCHANGED <<shown, pending>>

\* Nobody waits for the decision any more.  The request may stay on the screen and
\* its channel in ApprovalManager.pending, but a decision is answered with an error
\* since the receiver is dropped, so neither is kept here.
Withdraw(t) == shown' = shown \ {t} /\ pending' = pending \ {t}

\* push_cancel_response: an error event and ai_response_complete.
push_cancel_response(t) == Cancelled(t) /\ Set(t, Concluded(task[t], "cancelled"))

\* A select with cancel_token.wait() begins: the flag is read first.
Waiting(t) == IF Cancelled(t) THEN "woken" ELSE "checked"

\* mark_plan_running: only a pending step starts.
mark_plan_running(locals) ==
    LET next == locals.plan_index + 1
    IN  IF next \in DOMAIN locals.plan /\ locals.plan[next] = "pending"
        THEN [locals EXCEPT !.plan[next] = "running"]
        ELSE locals

\* Mutant of mark_plan_finished: the index stays where it is.
MarkWithoutIndex(locals) ==
    LET next == locals.plan_index + 1
    IN  IF next \in DOMAIN locals.plan
        THEN [locals EXCEPT !.plan[next] = "finished"]
        ELSE locals

\* mark_plan_finished, after which the index moves on; "finished" is done or error.
mark_plan_finished(locals) ==
    LET next == locals.plan_index + 1
    IN  IF next \in DOMAIN locals.plan
        THEN [locals EXCEPT !.plan[next] = "finished", !.plan_index = next]
        ELSE locals

\* After a call: the next one of the turn, or the turn joins the history and the
\* loop goes round, at most MAX_TOOL_LOOPS times.
NextCall(locals) ==
    IF locals.call < Len(locals.turn)
    THEN [locals EXCEPT !.pc = "call", !.call = @ + 1, !.answer = None]
    ELSE IF locals.loops + 1 < MaxToolLoops
    THEN [locals EXCEPT !.pc = "loop", !.loops = @ + 1, !.turn = <<>>, !.call = 0, !.answer = None]
    ELSE Concluded(locals, "error")

-----------------------------------------------------------------------------
(* The message arrives.                                                    *)

\* handle_ws_text: ai_message spawns the task.
SendMessage(t) ==
    /\ task[t].pc = "idle"
    /\ Set(t, [task[t] EXCEPT !.pc = "spawned"])
    /\ UNCHANGED <<token, shown, pending, ruleVars, restarts>>

\* CancelManager::register under the message's request id; then the session gets
\* the user's message.
Register(t) ==
    /\ task[t].pc = "spawned"
    /\ token' = [token EXCEPT ![t] = "live"]
    /\ Set(t, [task[t] EXCEPT !.pc = IF task[t].tools THEN "plan" ELSE "loop"])
    /\ UNCHANGED <<shown, pending, ruleVars, restarts>>

\* A provider call of at most 8 seconds, which no cancel ends.
build_plan(t) ==
    /\ task[t].pc = "plan"
    /\ \E n \in PlanSizes :
        Set(t, [task[t] EXCEPT !.pc = "loop", !.plan = [i \in 1..n |-> "pending"]])
    /\ UNCHANGED <<token, shown, pending, ruleVars, restarts>>

-----------------------------------------------------------------------------
(* The provider's answer, or a cancel.                                     *)

\* The top of the loop looks at the token, then selects over the token and the
\* provider; chat mode only selects.
AskProvider(t) ==
    /\ task[t].pc = "loop"
    /\ \/ task[t].tools /\ push_cancel_response(t)
       \/ /\ ~(task[t].tools /\ Cancelled(t))
          /\ Set(t, [task[t] EXCEPT !.pc = "provider", !.wait = Waiting(t)])
    /\ UNCHANGED <<token, shown, pending, ruleVars, restarts>>

\* The second half of CancelToken::wait: from here on a cancel wakes the task.
ListenForCancel(t) ==
    /\ task[t].wait = "checked"
    /\ Set(t, [task[t] EXCEPT !.wait = "listening"])
    /\ UNCHANGED <<token, shown, pending, ruleVars, restarts>>

\* The cancel branch of the select, at the provider or at the approval.
CancelBranch(t) ==
    /\ task[t].wait = "woken"
    /\ push_cancel_response(t)
    /\ Withdraw(t)
    /\ UNCHANGED <<token, ruleVars, restarts>>

\* The other branch can end a select once both have been polled.
SelectEnds(t, label) == task[t].pc = label /\ task[t].wait # "checked"

\* An error, or the provider's time limit: error_response.
ProviderFails(t) ==
    /\ SelectEnds(t, "provider")
    /\ Set(t, Concluded(task[t], "error"))
    /\ UNCHANGED <<token, shown, pending, ruleVars, restarts>>

\* An answer without tool calls joins the history and ends the request.
ProviderAnswers(t) ==
    /\ SelectEnds(t, "provider")
    /\ Set(t, Concluded(task[t], "answer"))
    /\ UNCHANGED <<token, shown, pending, ruleVars, restarts>>

\* Tool calls: a provider reports none instead of an empty list.
ProviderCallsTools(t) ==
    /\ SelectEnds(t, "provider")
    /\ task[t].tools
    /\ \E calls \in Turns :
        Set(t, [task[t] EXCEPT !.pc = "call", !.turn = calls, !.call = 1, !.wait = "none"])
    /\ UNCHANGED <<token, shown, pending, ruleVars, restarts>>

-----------------------------------------------------------------------------
(* One tool call: is it allowed?                                           *)

\* After is_allowed: the call runs, or the user is asked.
Decided(allowed) == IF allowed THEN "ready" ELSE "request"

\* is_allowed reads the session's rules, then the project's when it has them.
CheckCall(t) ==
    /\ task[t].pc = "call"
    /\ LET c == CurrentCall(t)
           next ==
             IF \/ ~tool_requires_approval(c.tool)
                \/ AllowedBy(session_allowlist[task[t].session], c)
             THEN Decided(TRUE)
             ELSE IF persistent_allowlist = Unloaded THEN "read_rules"
             ELSE Decided(AllowedBy(persistent_allowlist, c))
       IN  Set(t, [mark_plan_running(task[t]) EXCEPT !.pc = next])
    /\ UNCHANGED <<token, shown, pending, ruleVars, restarts>>

\* load_persistent_allowlist without an entry: the file is read with no lock held ...
ReadRules(t) ==
    /\ task[t].pc = "read_rules"
    /\ Set(t, [task[t] EXCEPT !.pc = "store_rules", !.loaded = IF disk = None THEN {} ELSE disk])
    /\ UNCHANGED <<token, shown, pending, ruleVars, restarts>>

\* ... and what was read replaces whatever the entry is by now.
StoreRules(t) ==
    /\ task[t].pc = "store_rules"
    /\ persistent_allowlist' = task[t].loaded
    /\ Set(t, [task[t] EXCEPT
            !.loaded = {},
            !.pc = IF task[t].answer = "approve_session" THEN "save_rule"
                   ELSE Decided(AllowedBy(task[t].loaded, CurrentCall(t)))])
    /\ UNCHANGED <<token, shown, pending, session_allowlist, disk, granted, restarts>>

\* The approval request goes to the client, which may answer it at once ...
RequestApproval(t) ==
    /\ task[t].pc = "request"
    /\ shown' = shown \cup {t}
    /\ Set(t, [task[t] EXCEPT !.pc = "register"])
    /\ UNCHANGED <<token, pending, ruleVars, restarts>>

\* ... while ApprovalManager::register has yet to make the answer's channel.
RegisterApproval(t) ==
    /\ task[t].pc = "register"
    /\ pending' = pending \cup {t}
    /\ Set(t, [task[t] EXCEPT !.pc = "approval", !.wait = Waiting(t)])
    /\ UNCHANGED <<token, shown, ruleVars, restarts>>

\* The client decides: the request leaves its queue, and ApprovalManager::resolve
\* takes the channel out of pending.  Without one the decision is answered with
\* an error and lost.
Decide(t, decision) ==
    /\ t \in shown
    /\ shown' = shown \ {t}
    /\ pending' = pending \ {t}
    /\ IF t \in pending
       THEN /\ Set(t, [task[t] EXCEPT !.answer = decision])
            /\ granted' = IF decision = "approve_session"
                          THEN granted \cup {build_approval_rule(CurrentCall(t))}
                          ELSE granted
       ELSE UNCHANGED <<task, granted>>
    /\ UNCHANGED <<token, session_allowlist, persistent_allowlist, disk, restarts>>

-----------------------------------------------------------------------------
(* The decision.                                                           *)

\* Mutant of Approved: no answer in time is a yes.
ApprovedByTimeout(t) ==
    /\ SelectEnds(t, "approval")
    /\ task[t].answer \in {"approve_once", None}
    /\ Set(t, [task[t] EXCEPT !.pc = "ready", !.wait = "none"])
    /\ UNCHANGED <<token, shown, pending, ruleVars, restarts>>

\* The user approves this one call.
Approved(t) ==
    /\ SelectEnds(t, "approval")
    /\ task[t].answer = "approve_once"
    /\ Set(t, [task[t] EXCEPT !.pc = "ready", !.wait = "none"])
    /\ UNCHANGED <<token, shown, pending, ruleVars, restarts>>

\* allow_for_session, then allow_persistent: the entry is loaded when it is missing ...
ApprovedForSession(t) ==
    /\ SelectEnds(t, "approval")
    /\ task[t].answer = "approve_session"
    /\ session_allowlist' = [session_allowlist EXCEPT ![task[t].session] =
                                @ \cup {build_approval_rule(CurrentCall(t))}]
    /\ Set(t, [task[t] EXCEPT
            !.wait = "none",
            !.pc = IF persistent_allowlist = Unloaded THEN "read_rules" ELSE "save_rule"])
    /\ UNCHANGED <<token, shown, pending, persistent_allowlist, disk, granted, restarts>>

\* ... and a new rule is inserted and saved under the lock; the save may fail.
allow_persistent(t) ==
    /\ task[t].pc = "save_rule"
    /\ LET rules == persistent_allowlist \cup {build_approval_rule(CurrentCall(t))}
       IN  /\ persistent_allowlist' = rules
           /\ \/ rules # persistent_allowlist /\ disk' = rules
              \/ UNCHANGED disk
    /\ Set(t, [task[t] EXCEPT !.pc = "ready"])
    /\ UNCHANGED <<token, shown, pending, session_allowlist, granted, restarts>>

\* Mutant of Denied: the wait for a decision has no limit.
DeniedByUserOnly(t) ==
    /\ SelectEnds(t, "approval")
    /\ task[t].answer = "deny"
    /\ Set(t, NextCall([mark_plan_finished(task[t]) EXCEPT !.wait = "none"]))
    /\ Withdraw(t)
    /\ UNCHANGED <<token, ruleVars, restarts>>

\* A denial, or five minutes without a decision: the call is reported as denied
\* and the loop goes on to the next one.
Denied(t) ==
    /\ SelectEnds(t, "approval")
    /\ task[t].answer \in {None, "deny"}
    /\ Set(t, NextCall([mark_plan_finished(task[t]) EXCEPT !.wait = "none"]))
    /\ Withdraw(t)
    /\ UNCHANGED <<token, ruleVars, restarts>>

-----------------------------------------------------------------------------
(* The call runs.                                                          *)

\* A last look at the token, then ai_tool_started and execute_ai_tool_call.
StartTool(t) ==
    /\ task[t].pc = "ready"
    /\ \/ push_cancel_response(t)
       \/ ~Cancelled(t) /\ Set(t, [task[t] EXCEPT !.pc = "running", !.open = TRUE])
    /\ UNCHANGED <<token, shown, pending, ruleVars, restarts>>

\* Mutant of ToolReturns: an error is not followed by ai_tool_finished.
ToolReturnsUnfinished(t) ==
    /\ task[t].pc = "running"
    /\ \/ push_cancel_response(t)
       \/ /\ ~Cancelled(t)
          /\ \E open \in BOOLEAN :
                Set(t, NextCall([mark_plan_finished(task[t]) EXCEPT !.open = open]))
    /\ UNCHANGED <<token, shown, pending, ruleVars, restarts>>

\* execute_ai_tool_call returned a result or an error, which is reported; then the
\* token is read again, and only then ai_tool_finished is sent.
ToolReturns(t) ==
    /\ task[t].pc = "running"
    /\ \/ push_cancel_response(t)
       \/ /\ ~Cancelled(t)
          /\ Set(t, NextCall([mark_plan_finished(task[t]) EXCEPT !.open = FALSE]))
    /\ UNCHANGED <<token, shown, pending, ruleVars, restarts>>

\* CancelManager::unregister.
Unregister(t) ==
    /\ task[t].pc = "ending"
    /\ token' = [token EXCEPT ![t] = "absent"]
    /\ Set(t, [Blank(task[t].session, task[t].tools) EXCEPT !.pc = "done"])
    /\ UNCHANGED <<shown, pending, ruleVars, restarts>>

-----------------------------------------------------------------------------
(* Cancel and restart.                                                     *)

\* ai_cancel: CancelManager::cancel finds no token before the task registered it,
\* and notify_waiters wakes only a task that is already listening.
Cancel(t) ==
    /\ token[t] = "live"
    /\ token' = [token EXCEPT ![t] = "cancelled"]
    /\ Set(t, [task[t] EXCEPT !.wait = IF @ = "listening" THEN "woken" ELSE @])
    /\ UNCHANGED <<shown, pending, ruleVars, restarts>>

\* The server stops and starts: tasks, tokens, channels and lists in memory are
\* gone; the file stays.
Restart ==
    /\ restarts < MaxRestarts
    /\ restarts' = restarts + 1
    /\ task' = [t \in Tasks |-> IF task[t].pc = "idle" THEN task[t]
                                ELSE [Blank(task[t].session, task[t].tools) EXCEPT !.pc = "lost"]]
    /\ token' = [t \in Tasks |-> "absent"]
    /\ shown' = {}
    /\ pending' = {}
    /\ session_allowlist' = [s \in Sessions |-> {}]
    /\ persistent_allowlist' = Unloaded
    /\ UNCHANGED <<disk, granted>>

\* What the runtime runs as long as the server is up.
TaskStep(t) ==
    \/ Register(t) \/ build_plan(t) \/ AskProvider(t) \/ ListenForCancel(t) \/ CancelBranch(t)
    \/ ProviderFails(t) \/ ProviderAnswers(t) \/ ProviderCallsTools(t)
    \/ CheckCall(t) \/ ReadRules(t) \/ StoreRules(t) \/ RequestApproval(t) \/ RegisterApproval(t)
    \/ Approved(t) \/ ApprovedForSession(t) \/ allow_persistent(t) \/ Denied(t)
    \/ StartTool(t) \/ ToolReturns(t) \/ Unregister(t)

AgentNext ==
    \/ \E t \in Tasks : SendMessage(t) \/ Cancel(t) \/ TaskStep(t)
    \/ \E t \in shown, decision \in Decisions : Decide(t, decision)
    \/ Restart

AgentSpec ==
    /\ AgentInit
    /\ [][AgentNext]_agentVars
    /\ \A t \in Tasks : WF_agentVars(TaskStep(t))

-----------------------------------------------------------------------------
(* Properties.                                                             *)

\* Steps at which the task handles one call of the turn.
CallLabels == {"call", "read_rules", "store_rules", "request", "register", "approval",
               "save_rule", "ready", "running"}
Labels == CallLabels \cup {"idle", "spawned", "plan", "loop", "provider", "ending",
                           "done", "lost"}

\* Type invariant.
AgentTypeOK ==
    /\ \A t \in Tasks :
        /\ task[t].pc \in Labels
        /\ task[t].session \in Sessions
        /\ task[t].turn \in Turns \cup {<<>>}
        /\ task[t].call \in 0 .. Len(task[t].turn)
        /\ task[t].pc \in CallLabels => task[t].call > 0
        /\ task[t].loops \in 0 .. MaxToolLoops - 1
        /\ task[t].wait \in {"none", "checked", "listening", "woken"}
        /\ task[t].wait # "none" => task[t].pc \in {"provider", "approval"}
        /\ task[t].answer \in Decisions \cup {None}
        /\ task[t].loaded \subseteq Rules
        /\ task[t].final \in {None, "cancelled", "error", "answer"}
    /\ token \in [Tasks -> {"absent", "live", "cancelled"}]
    /\ shown \subseteq Tasks
    /\ pending \subseteq Tasks
    /\ \A t \in shown \cup pending : task[t].pc \in {"register", "approval"}
    /\ session_allowlist \in [Sessions -> SUBSET Rules]
    /\ persistent_allowlist \in {Unloaded} \cup SUBSET Rules
    /\ disk \in {None} \cup SUBSET Rules
    /\ granted \subseteq Rules

\* ai_handler.rs, approval_manager.rs: a tool that needs approval runs only after
\* the user approved this very call, or after a rule the user approved for the
\* session (now or before a restart) that covers it, whatever other tasks load
\* into and save from the allow lists meanwhile.
ApplyIsApproved ==
    \A t \in Tasks : task[t].pc = "running" /\ tool_requires_approval(CurrentCall(t).tool) =>
        \/ task[t].answer \in {"approve_once", "approve_session"}
        \/ AllowedBy(granted, CurrentCall(t))

\* ai_handler.rs: the plan shown to the user is worked off in order: steps before
\* the index are finished, at most the one at the index runs, later ones wait,
\* through denials, failures and more calls than the plan has steps.
PlanInOrder ==
    \A t \in Tasks : \A i \in DOMAIN task[t].plan :
        LET status == task[t].plan[i] IN
        /\ i <= task[t].plan_index => status = "finished"
        /\ i = task[t].plan_index + 1 => status \in {"pending", "running"}
        /\ i > task[t].plan_index + 1 => status = "pending"
        /\ status = "running" => task[t].pc \in CallLabels

\* ai_handler.rs: a request that was not cancelled ends with no tool the client
\* still shows as running.
NoToolLeftRunning == \A t \in Tasks : task[t].final \in {"answer", "error"} => ~task[t].open

\* ai_handler.rs: every message gets an end: approvals time out, provider calls
\* time out, the loop is bounded, and a cancel that wakes nobody is only late.
RequestEnds == \A t \in Tasks : task[t].pc = "spawned" ~> task[t].pc \in {"done", "lost"}

=============================================================================
