---------------------------- MODULE AcpPermission ----------------------------
(***************************************************************************)
(* The agent asks for permission to run a tool call: ReprodAcpClient       *)
(* (acp/client.rs), the permission loop of the connection                  *)
(* (acp/connection.rs), and the handlers that show the request to every    *)
(* client of the project and map the user's answer (acp_handler.rs).       *)
(*                                                                         *)
(* Each request is answered by a task of its own, so an agent may have     *)
(* several under way, also for one tool call.  Everything about a request  *)
(* is kept by its tool call's id, but for what is trusted, which is kept   *)
(* by the kind and the location the request itself names.                  *)
(***************************************************************************)
EXTENDS Naturals, Sequences, FiniteSets

CONSTANTS
    Asks,        \* calls of request_permission
    ToolCalls,   \* tool call ids; map_permission_request uses them as request ids
    CallOf,      \* [Asks -> ToolCalls]
    KeyOf,       \* [Asks -> trust keys]: build_trust_key of the kind and the first location
                 \* of the request's own payload
    OptionsOf,   \* [Asks -> sets of option kinds]
    Clients,     \* the project's sockets
    Absent       \* no entry, no answer yet

Kinds == {"allow_once", "allow_always", "reject_once", "reject_always"}
TrustKeys == {KeyOf[r] : r \in Asks}

ASSUME PermissionAssumption ==
    /\ CallOf \in [Asks -> ToolCalls]
    /\ DOMAIN KeyOf = Asks
    /\ OptionsOf \in [Asks -> SUBSET Kinds]
    /\ Absent \notin Asks \cup Kinds \cup {"Allow", "Reject", "cancelled"}

VARIABLES
    asked,          \* per request: the step of its task and the outcome it has
    pending_permissions,      \* tool call -> the request whose channel is waiting
    unshown,        \* client -> requests its socket has not translated
    screen,         \* client -> tool calls whose approval it shows
    acp_permission_requests,  \* tool call -> the request a decision is for
    answers,        \* PermissionDecisionMessages on the way to the permission loop
    decision_meta,  \* tool calls with a remembered scope of session
    session_trust,
    trust_store,
    said            \* history: what users decided, per tool call

permissionVars == <<asked, pending_permissions, unshown, screen, acp_permission_requests,
                    answers, decision_meta, session_trust, trust_store, said>>

PermissionInit ==
    /\ asked = [r \in Asks |-> [pc |-> "idle", outcome |-> Absent]]
    /\ pending_permissions = [call \in ToolCalls |-> Absent]
    /\ unshown = [k \in Clients |-> {}]
    /\ screen = [k \in Clients |-> {}]
    /\ acp_permission_requests = [call \in ToolCalls |-> Absent]
    /\ answers = <<>>
    /\ decision_meta = {}
    /\ session_trust = [key \in TrustKeys |-> Absent]
    /\ trust_store = [key \in TrustKeys |-> Absent]
    /\ said = [call \in ToolCalls |-> {}]

-----------------------------------------------------------------------------
(* Options and decisions.  An option is known by its kind.                 *)

\* The first kind of the preferred ones that is offered.
pick_option_id(options, prefer) ==
    IF prefer[1] \in options THEN prefer[1]
    ELSE IF prefer[2] \in options THEN prefer[2] ELSE Absent

\* apply_trust: what the session remembers decides, even if no option fits it;
\* else the stored trust.
apply_trust(r) ==
    LET key == KeyOf[r]
        options == OptionsOf[r]
    IN  IF session_trust[key] = "Allow"
        THEN pick_option_id(options, <<"allow_once", "allow_always">>)
        ELSE IF session_trust[key] = "Reject"
        THEN pick_option_id(options, <<"reject_once", "reject_always">>)
        ELSE IF trust_store[key] = "Allow"
        THEN pick_option_id(options, <<"allow_always", "allow_once">>)
        ELSE IF trust_store[key] = "Reject"
        THEN pick_option_id(options, <<"reject_always", "reject_once">>)
        ELSE Absent

\* Mutant: without a reject the first option is as good.
timeout_takes_any_option(options) ==
    LET rejects == options \cap {"reject_once", "reject_always"}
    IN  IF rejects = {} /\ options = {} THEN {"cancelled"}
        ELSE IF rejects = {} THEN options ELSE rejects

\* The outcomes select_timeout_outcome may choose: the first reject of a list in the
\* agent's order.
select_timeout_outcome(options) ==
    LET rejects == options \cap {"reject_once", "reject_always"}
    IN  IF rejects = {} THEN {"cancelled"} ELSE rejects

map_permission_options(options) ==
    LET mapped == (IF "allow_once" \in options THEN {"approve_once"} ELSE {})
                  \cup (IF "allow_always" \in options THEN {"approve_session"} ELSE {})
                  \cup (IF options \cap {"reject_once", "reject_always"} # {}
                        THEN {"deny"} ELSE {})
    IN  IF mapped = {} THEN {"approve_once", "deny"} ELSE mapped

\* The option the decision selects, and whether it is to be remembered.
map_permission_decision(decision, options) ==
    LET selects(kind, remember) == [outcome |-> kind, remember |-> remember]
    IN  CASE decision = "approve_session" /\ "allow_always" \in options ->
                selects("allow_always", TRUE)
          [] decision = "approve_session" /\ "allow_always" \notin options
                /\ "allow_once" \in options -> selects("allow_once", FALSE)
          [] decision = "approve_once" /\ "allow_once" \in options -> selects("allow_once", FALSE)
          [] decision = "deny" /\ "reject_once" \in options -> selects("reject_once", FALSE)
          [] decision = "deny" /\ "reject_once" \notin options
                /\ "reject_always" \in options -> selects("reject_always", TRUE)
          [] OTHER -> selects("cancelled", FALSE)

-----------------------------------------------------------------------------
(* The task of a request.                                                  *)

Become(r, pc, outcome) == asked' = [asked EXCEPT ![r] = [pc |-> pc, outcome |-> outcome]]

uiVars == <<screen, acp_permission_requests, answers>>
trustVars == <<session_trust, trust_store>>

\* request_permission: answered out of what is remembered, or the channel is put into
\* pending_permissions, where it replaces one for the same tool call.
RequestPermission(r) ==
    /\ asked[r].pc = "idle"
    /\ IF apply_trust(r) # Absent
       THEN /\ Become(r, "trusted", apply_trust(r))
            /\ UNCHANGED pending_permissions
       ELSE /\ Become(r, "send", Absent)
            /\ pending_permissions' = [pending_permissions EXCEPT ![CallOf[r]] = r]
    /\ UNCHANGED <<unshown, uiVars, decision_meta, trustVars, said>>

\* permission_request_tx, and forward_permission_requests to every subscribed socket.
SendRequest(r) ==
    /\ asked[r].pc = "send"
    /\ Become(r, "wait", Absent)
    /\ unshown' = [k \in Clients |-> unshown[k] \cup {r}]
    /\ UNCHANGED <<pending_permissions, uiVars, decision_meta, trustVars, said>>

\* Thirty seconds without an answer, or another request took the channel's place.
PermissionTimeout(r) ==
    /\ asked[r].pc = "wait"
    /\ asked[r].outcome = Absent
    /\ \E outcome \in select_timeout_outcome(OptionsOf[r]) : Become(r, "remove", outcome)
    /\ UNCHANGED <<pending_permissions, unshown, uiVars, decision_meta, trustVars, said>>

\* The answer has come.
PermissionAnswered(r) ==
    /\ asked[r].pc = "wait"
    /\ asked[r].outcome # Absent
    /\ Become(r, "remove", asked[r].outcome)
    /\ UNCHANGED <<pending_permissions, unshown, uiVars, decision_meta, trustVars, said>>

\* The entry is removed by the tool call's id, whoever's channel it is by now.
RemovePending(r) ==
    /\ asked[r].pc = "remove"
    /\ pending_permissions' = [pending_permissions EXCEPT ![CallOf[r]] = Absent]
    /\ Become(r, "persist", asked[r].outcome)
    /\ UNCHANGED <<unshown, uiVars, decision_meta, trustVars, said>>

\* Mutant: every answer is remembered for the session.
persist_any_trust(r) ==
    /\ asked[r].pc = "persist"
    /\ LET call == CallOf[r]
           key == KeyOf[r]
           kind == {asked[r].outcome} \cap OptionsOf[r]
           trusted == IF kind \subseteq {"allow_once", "allow_always"} THEN "Allow" ELSE "Reject"
           always == kind \cap {"allow_always", "reject_always"} # {}
       IN  \/ /\ always
              /\ trust_store' = [trust_store EXCEPT ![key] = trusted]
              /\ UNCHANGED <<session_trust, decision_meta>>
           \/ /\ ~always
              /\ decision_meta' = decision_meta \ {call}
              /\ session_trust' = IF kind # {}
                                  THEN [session_trust EXCEPT ![key] = trusted]
                                  ELSE session_trust
              /\ UNCHANGED trust_store
    /\ Become(r, "answered", asked[r].outcome)
    /\ UNCHANGED <<pending_permissions, unshown, uiVars, said>>

\* persist_trust: an "always" option is stored; else, when the tool call's decision had
\* the scope of the session, a "once" option is remembered for the session.
persist_trust(r) ==
    /\ asked[r].pc = "persist"
    /\ LET call == CallOf[r]
           key == KeyOf[r]
           kind == {asked[r].outcome} \cap OptionsOf[r]
           trusted == IF kind \subseteq {"allow_once", "allow_always"} THEN "Allow" ELSE "Reject"
           always == kind \cap {"allow_always", "reject_always"} # {}
       IN  \/ /\ always
              /\ trust_store' = [trust_store EXCEPT ![key] = trusted]
              /\ UNCHANGED <<session_trust, decision_meta>>
           \/ /\ ~always
              /\ decision_meta' = decision_meta \ {call}
              /\ session_trust' = IF call \in decision_meta /\ kind # {}
                                  THEN [session_trust EXCEPT ![key] = trusted]
                                  ELSE session_trust
              /\ UNCHANGED trust_store
    /\ Become(r, "answered", asked[r].outcome)
    /\ UNCHANGED <<pending_permissions, unshown, uiVars, said>>

-----------------------------------------------------------------------------
(* The sockets and the users behind them.                                  *)

\* translate_acp_permission_request: dropped when the session has no stream, else kept
\* by the tool call's id for the decision, and shown.
TranslatePermission(k, r) ==
    /\ r \in unshown[k]
    /\ unshown' = [unshown EXCEPT ![k] = @ \ {r}]
    /\ \/ UNCHANGED <<screen, acp_permission_requests>>
       \/ /\ acp_permission_requests' = [acp_permission_requests EXCEPT ![CallOf[r]] = r]
          /\ screen' = [screen EXCEPT ![k] = @ \cup {CallOf[r]}]
    /\ UNCHANGED <<asked, pending_permissions, answers, decision_meta, trustVars, said>>

\* resolve_acp_permission_decision: the first decision takes the request out of the
\* map; one that finds none is answered with an error.  AcpService may refuse to
\* forward it (rate_limit), and then it is lost.
DecidePermission(k, call, decision) ==
    LET r == acp_permission_requests[call]
    IN  /\ call \in screen[k]
        /\ screen' = [screen EXCEPT ![k] = @ \ {call}]
        /\ IF r = Absent
           THEN UNCHANGED <<acp_permission_requests, answers, said>>
           ELSE /\ decision \in map_permission_options(OptionsOf[r])
                /\ acp_permission_requests' = [acp_permission_requests EXCEPT ![call] = Absent]
                /\ \/ UNCHANGED <<answers, said>>
                   \/ LET mapped == map_permission_decision(decision, OptionsOf[r])
                      IN  /\ answers' = Append(answers,
                                [call |-> call, outcome |-> mapped.outcome,
                                 step |-> IF mapped.remember THEN "scope" ELSE "answer"])
                          /\ said' = [said EXCEPT ![call] = @ \cup {decision}]
        /\ UNCHANGED <<asked, pending_permissions, unshown, decision_meta, trustVars>>

\* The permission loop first keeps the decision's scope ...
KeepScope ==
    /\ answers # <<>>
    /\ Head(answers).step = "scope"
    /\ decision_meta' = decision_meta \cup {Head(answers).call}
    /\ answers' = [answers EXCEPT ![1].step = "answer"]
    /\ UNCHANGED <<asked, pending_permissions, unshown, screen, acp_permission_requests,
                   trustVars, said>>

\* ... and then takes the channel out and answers, if somebody still waits.
AnswerPending ==
    /\ answers # <<>>
    /\ Head(answers).step = "answer"
    /\ LET call == Head(answers).call
           r == pending_permissions[call]
       IN  /\ IF r # Absent /\ asked[r].pc \in {"send", "wait"}
              THEN asked' = [asked EXCEPT ![r].outcome = Head(answers).outcome]
              ELSE UNCHANGED asked
           /\ pending_permissions' = [pending_permissions EXCEPT ![call] = Absent]
    /\ answers' = Tail(answers)
    /\ UNCHANGED <<unshown, screen, acp_permission_requests, decision_meta, trustVars, said>>

PermissionNext ==
    \/ \E r \in Asks :
        RequestPermission(r) \/ SendRequest(r) \/ PermissionTimeout(r) \/ PermissionAnswered(r)
        \/ RemovePending(r) \/ persist_trust(r)
    \/ \E k \in Clients, r \in Asks : TranslatePermission(k, r)
    \/ \E k \in Clients, call \in ToolCalls, decision \in {"approve_once", "approve_session", "deny"} :
        DecidePermission(k, call, decision)
    \/ KeepScope \/ AnswerPending

PermissionSpec == PermissionInit /\ [][PermissionNext]_permissionVars

-----------------------------------------------------------------------------
(* Properties.                                                             *)

Outcomes == Kinds \cup {"cancelled"}

\* Type invariant.  A channel is kept for a request that has not got rid of it yet.
PermissionTypeOK ==
    /\ \A r \in Asks :
        /\ asked[r].pc \in {"idle", "trusted", "send", "wait", "remove", "persist", "answered"}
        /\ asked[r].outcome \in Outcomes \cup {Absent}
        /\ asked[r].pc \in {"trusted", "remove", "persist", "answered"} =>
            asked[r].outcome # Absent
    /\ \A call \in ToolCalls :
        /\ pending_permissions[call] # Absent =>
            /\ CallOf[pending_permissions[call]] = call
            /\ asked[pending_permissions[call]].pc \in {"send", "wait", "remove"}
        /\ acp_permission_requests[call] # Absent => CallOf[acp_permission_requests[call]] = call
    /\ unshown \in [Clients -> SUBSET Asks]
    /\ screen \in [Clients -> SUBSET ToolCalls]
    /\ decision_meta \subseteq ToolCalls
    /\ session_trust \in [TrustKeys -> {"Allow", "Reject", Absent}]
    /\ trust_store \in [TrustKeys -> {"Allow", "Reject", Absent}]

\* The tool calls that ask for the kind and location of key.
CallsFor(key) == {CallOf[q] : q \in {p \in Asks : KeyOf[p] = key}}

\* client.rs, connection.rs: timeouts, late answers, several clients and requests of one
\* tool call notwithstanding, the agent is allowed something only if a user approved a
\* tool call that asked for the same kind and location.  A tool call may ask for several,
\* and then an approval of one of them can serve another; the calls of an agent that asks
\* for one kind and location per call are allowed what a user approved for them.
AllowedByAUser ==
    \A r \in Asks :
        asked[r].pc \in {"trusted", "answered"} /\ asked[r].outcome \in {"allow_once", "allow_always"} =>
            \E call \in CallsFor(KeyOf[r]) :
                said[call] \cap {"approve_once", "approve_session"} # {}

\* client.rs, persist_trust: an approval outlives its request only if a user chose to
\* approve, for more than once, a tool call that asked for the same kind and location.
\* The scope is kept by the tool call's id, so that of a denial that became reject_always
\* also makes an approve_once of another request of the same call last.
RememberedByAUser ==
    \A key \in TrustKeys :
        /\ trust_store[key] = "Allow" =>
            \E call \in CallsFor(key) : "approve_session" \in said[call]
        /\ session_trust[key] = "Allow" =>
            \E call \in CallsFor(key) :
                "approve_session" \in said[call] \/ {"approve_once", "deny"} \subseteq said[call]
=============================================================================
