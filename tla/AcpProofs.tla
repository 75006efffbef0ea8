------------------------------- MODULE AcpProofs -------------------------------
(***************************************************************************)
(* Theorems about what speaks with the external agent: AcpPermission,      *)
(* AcpChannel and AgentSetup, for every set of requests, tool calls, trust *)
(* keys and clients, of messages, conversations and sockets, of agents,    *)
(* releases and callers, and for every bound.                              *)
(***************************************************************************)
EXTENDS AcpPermission, AcpChannel, AgentSetup, SequenceTheorems, WellFoundedInduction, TLAPS

-----------------------------------------------------------------------------
(* AcpPermission.  A decision passes through the answers on their way, the *)
(* scopes that were kept, the outcome a task has and the two kinds of      *)
(* trust before it lets the agent do anything.  The inductive invariant    *)
(* says of each of them what a user must have said, of a tool call or of   *)
(* one that asks for a kind and location, for it to be there (Backed); a   *)
(* request is always found under its own tool call (Filed).                *)

Allows == {"allow_once", "allow_always"}
Decisions == {"approve_once", "approve_session", "deny"}
Steps == {"idle", "trusted", "send", "wait", "remove", "persist", "answered"}
Answers == [call : ToolCalls, outcome : Outcomes, step : {"scope", "answer"}]

Approved(tool) == said[tool] \cap {"approve_once", "approve_session"} # {}

\* Some tool call that asks for the kind and location was approved.
KeyApproved(key) == \E tool \in CallsFor(key) : Approved(tool)

PermissionTyped ==
    /\ asked \in [Asks -> [pc : Steps, outcome : Outcomes \cup {Absent}]]
    /\ pending_permissions \in [ToolCalls -> Asks \cup {Absent}]
    /\ acp_permission_requests \in [ToolCalls -> Asks \cup {Absent}]
    /\ answers \in Seq(Answers)
    /\ decision_meta \subseteq ToolCalls
    /\ session_trust \in [TrustKeys -> {"Allow", "Reject", Absent}]
    /\ trust_store \in [TrustKeys -> {"Allow", "Reject", Absent}]
    /\ said \in [ToolCalls -> SUBSET Decisions]

\* A request is kept under its own tool call, also for the decision.
Filed ==
    \A tool \in ToolCalls :
        /\ pending_permissions[tool] # Absent => CallOf[pending_permissions[tool]] = tool
        /\ acp_permission_requests[tool] # Absent => CallOf[acp_permission_requests[tool]] = tool

\* An answer on its way is what some user said; one whose scope is still to be kept may
\* be remembered.
AnswerBacked(answer, heard) ==
    LET decisions == heard[answer.call]
    IN  /\ answer.outcome \in Allows => decisions \cap {"approve_once", "approve_session"} # {}
        /\ answer.outcome = "allow_always" => "approve_session" \in decisions
        /\ answer.step = "scope" => decisions \cap {"approve_session", "deny"} # {}

\* The outcome of a request is.
OutcomeBacked(r) ==
    /\ asked[r].outcome \in Allows =>
        IF asked[r].pc = "trusted" THEN KeyApproved(KeyOf[r]) ELSE Approved(CallOf[r])
    /\ asked[r].pc # "trusted" /\ asked[r].outcome = "allow_always" =>
        "approve_session" \in said[CallOf[r]]

Backed ==
    /\ \A i \in DOMAIN answers : AnswerBacked(answers[i], said)
    /\ \A r \in Asks : OutcomeBacked(r)
    /\ \A tool \in decision_meta : said[tool] \cap {"approve_session", "deny"} # {}

PermissionIInv == PermissionTyped /\ Filed /\ Backed /\ RememberedByAUser

(***************************************************************************)
(* A request asks for a trust key, and its tool call is one that asks.     *)
(***************************************************************************)
LEMMA Keys ==
    ASSUME PermissionAssumption
    PROVE  /\ \A r \in Asks : CallOf[r] \in ToolCalls /\ OptionsOf[r] \in SUBSET Kinds
           /\ \A r \in Asks : KeyOf[r] \in TrustKeys /\ CallOf[r] \in CallsFor(KeyOf[r])
           /\ \A key : CallsFor(key) \subseteq ToolCalls
BY DEF PermissionAssumption, TrustKeys, CallsFor

(***************************************************************************)
(* What is remembered is backed by what users said.                        *)
(***************************************************************************)
LEMMA TrustIsApproved ==
    ASSUME PermissionAssumption, PermissionIInv, NEW r \in Asks, apply_trust(r) \in Allows
    PROVE  KeyApproved(KeyOf[r])
<1> DEFINE key == KeyOf[r]
<1>1. key \in TrustKeys /\ OptionsOf[r] \in SUBSET Kinds
    BY Keys
<1>2. session_trust[key] = "Allow" \/ trust_store[key] = "Allow"
    BY DEF apply_trust, pick_option_id, Allows, PermissionAssumption, Kinds
<1> HIDE DEF key
<1>3. KeyApproved(key)
    BY <1>1, <1>2 DEF PermissionIInv, RememberedByAUser, KeyApproved, Approved
<1> QED
    BY <1>3 DEF key

(***************************************************************************)
(* A step of one request that changes no more than its own entry and its   *)
(* place among the pending ones.                                           *)
(***************************************************************************)
LEMMA OneAsk ==
    ASSUME PermissionAssumption, PermissionIInv, NEW r \in Asks, NEW pc \in Steps,
           NEW outcome \in Outcomes \cup {Absent}, Become(r, pc, outcome),
           outcome \in Allows =>
                IF pc = "trusted" THEN KeyApproved(KeyOf[r]) ELSE Approved(CallOf[r]),
           pc # "trusted" /\ outcome = "allow_always" => "approve_session" \in said[CallOf[r]],
           pending_permissions' \in
                {pending_permissions, [pending_permissions EXCEPT ![CallOf[r]] = r],
                 [pending_permissions EXCEPT ![CallOf[r]] = Absent]},
           UNCHANGED <<acp_permission_requests, answers, decision_meta, session_trust,
                       trust_store, said>>
    PROVE  PermissionIInv'
<1>1. CallOf[r] \in ToolCalls
    BY Keys
<1>2. /\ asked' = [asked EXCEPT ![r] = [pc |-> pc, outcome |-> outcome]]
      /\ asked \in [Asks -> [pc : Steps, outcome : Outcomes \cup {Absent}]]
    BY DEF Become, PermissionIInv, PermissionTyped
<1>3. /\ asked' \in [Asks -> [pc : Steps, outcome : Outcomes \cup {Absent}]]
      /\ asked'[r] = [pc |-> pc, outcome |-> outcome]
      /\ \A q \in Asks : q # r => asked'[q] = asked[q]
    BY <1>2
<1>4. pending_permissions' \in [ToolCalls -> Asks \cup {Absent}]
    <2>1. pending_permissions \in [ToolCalls -> Asks \cup {Absent}]
        BY DEF PermissionIInv, PermissionTyped
    <2> QED
        BY <1>1, <2>1
<1>5. Filed'
    <2>1. /\ \A tool \in ToolCalls : tool # CallOf[r] =>
                pending_permissions'[tool] = pending_permissions[tool]
          /\ pending_permissions'[CallOf[r]] \in {pending_permissions[CallOf[r]], r, Absent}
        BY <1>1 DEF PermissionIInv, PermissionTyped
    <2> QED
        BY <1>1, <2>1 DEF PermissionIInv, Filed
<1>6. ASSUME NEW q \in Asks PROVE OutcomeBacked(q)'
    <2>1. CASE q = r
        BY <1>3, <2>1 DEF OutcomeBacked, KeyApproved, Approved
    <2>2. CASE q # r
        <3>1. OutcomeBacked(q)
            BY DEF PermissionIInv, Backed
        <3> QED
            BY <1>3, <2>2, <3>1 DEF OutcomeBacked, KeyApproved, Approved
    <2> QED
        BY <2>1, <2>2
<1>7. Backed'
    BY <1>6 DEF PermissionIInv, Backed, AnswerBacked, KeyApproved, Approved
<1>8. RememberedByAUser'
    BY DEF PermissionIInv, RememberedByAUser
<1> QED
    BY <1>3, <1>4, <1>5, <1>7, <1>8 DEF PermissionIInv, PermissionTyped

(***************************************************************************)
(* The steps of a request up to its answer: a timeout allows nothing, and  *)
(* whatever else it does is backed by what it had or by what is remembered.*)
(***************************************************************************)
LEMMA AskStep ==
    ASSUME PermissionAssumption, PermissionIInv, NEW r \in Asks,
           \/ RequestPermission(r) \/ SendRequest(r) \/ PermissionTimeout(r)
           \/ PermissionAnswered(r) \/ RemovePending(r)
    PROVE  PermissionIInv'
<1>1. /\ asked[r].outcome \in Outcomes \cup {Absent} /\ OutcomeBacked(r)
      /\ Absent \notin Allows /\ OptionsOf[r] \subseteq Kinds
    BY Keys DEF PermissionIInv, PermissionTyped, Backed, PermissionAssumption, Allows, Kinds
<1>2. CASE RequestPermission(r) /\ apply_trust(r) # Absent
    <2>1. apply_trust(r) \in Outcomes
        BY <1>1, <1>2 DEF apply_trust, pick_option_id, Outcomes, Kinds
    <2>2. apply_trust(r) \in Allows => KeyApproved(KeyOf[r])
        BY TrustIsApproved
    <2>3. /\ Become(r, "trusted", apply_trust(r))
          /\ UNCHANGED <<pending_permissions, acp_permission_requests, answers, decision_meta,
                         session_trust, trust_store, said>>
        BY <1>2 DEF RequestPermission, uiVars, trustVars
    <2> QED
        BY <2>1, <2>2, <2>3, OneAsk DEF Steps
<1>3. CASE RequestPermission(r) /\ apply_trust(r) = Absent
    <2>1. /\ Become(r, "send", Absent)
          /\ pending_permissions' = [pending_permissions EXCEPT ![CallOf[r]] = r]
          /\ UNCHANGED <<acp_permission_requests, answers, decision_meta,
                         session_trust, trust_store, said>>
        BY <1>3 DEF RequestPermission, uiVars, trustVars
    <2>2. Absent # "allow_always"
        BY <1>1 DEF Allows
    <2> QED
        BY <1>1, <2>1, <2>2, OneAsk DEF Steps
<1>4. CASE SendRequest(r)
    <2>1. /\ Become(r, "wait", Absent)
          /\ UNCHANGED <<pending_permissions, acp_permission_requests, answers, decision_meta,
                         session_trust, trust_store, said>>
        BY <1>4 DEF SendRequest, uiVars, trustVars
    <2>2. Absent # "allow_always"
        BY <1>1 DEF Allows
    <2> QED
        BY <1>1, <2>1, <2>2, OneAsk DEF Steps
<1>5. CASE PermissionTimeout(r)
    <2>1. PICK outcome \in select_timeout_outcome(OptionsOf[r]) : Become(r, "remove", outcome)
        BY <1>5 DEF PermissionTimeout
    <2>2. outcome \in {"reject_once", "reject_always", "cancelled"}
        BY <2>1 DEF select_timeout_outcome
    <2>3. outcome \in Outcomes /\ outcome \notin Allows /\ outcome # "allow_always"
        BY <2>2 DEF Outcomes, Kinds, Allows
    <2>4. UNCHANGED <<pending_permissions, acp_permission_requests, answers, decision_meta,
                      session_trust, trust_store, said>>
        BY <1>5 DEF PermissionTimeout, uiVars, trustVars
    <2> QED
        BY <2>1, <2>3, <2>4, OneAsk DEF Steps
<1>6. CASE PermissionAnswered(r) \/ RemovePending(r)
    <2>1. /\ asked[r].pc # "trusted"
          /\ \E pc \in {"remove", "persist"} : Become(r, pc, asked[r].outcome)
          /\ pending_permissions' \in
                {pending_permissions, [pending_permissions EXCEPT ![CallOf[r]] = Absent]}
          /\ UNCHANGED <<acp_permission_requests, answers, decision_meta, session_trust,
                         trust_store, said>>
        BY <1>6 DEF PermissionAnswered, RemovePending, uiVars, trustVars
    <2>2. /\ asked[r].outcome \in Allows => Approved(CallOf[r])
          /\ asked[r].outcome = "allow_always" => "approve_session" \in said[CallOf[r]]
        BY <1>1, <2>1 DEF OutcomeBacked
    <2> QED
        BY <1>1, <2>1, <2>2, OneAsk DEF Steps
<1> QED
    BY <1>2, <1>3, <1>4, <1>5, <1>6

(***************************************************************************)
(* What becomes trust was approved for more than once, or the scope it was *)
(* remembered for belonged to a denial.                                    *)
(***************************************************************************)
LEMMA PersistStep ==
    ASSUME PermissionAssumption, PermissionIInv, NEW r \in Asks, persist_trust(r)
    PROVE  PermissionIInv'
<1> DEFINE tool == CallOf[r]
           key == KeyOf[r]
           outcome == asked[r].outcome
           kind == {outcome} \cap OptionsOf[r]
           trusted == IF kind \subseteq {"allow_once", "allow_always"} THEN "Allow" ELSE "Reject"
<1>1. /\ tool \in ToolCalls /\ key \in TrustKeys /\ tool \in CallsFor(key) /\ outcome \in Outcomes \cup {Absent}
      /\ asked[r].pc = "persist" /\ Become(r, "answered", outcome) /\ OutcomeBacked(r)
      /\ trusted \in {"Allow", "Reject"}
      /\ UNCHANGED <<pending_permissions, acp_permission_requests, answers, said>>
    <2>1. tool \in ToolCalls /\ key \in TrustKeys /\ tool \in CallsFor(key)
        BY Keys
    <2>2. outcome \in Outcomes \cup {Absent} /\ OutcomeBacked(r)
        BY DEF PermissionIInv, PermissionTyped, Backed
    <2>3. /\ asked[r].pc = "persist" /\ Become(r, "answered", outcome)
          /\ UNCHANGED <<pending_permissions, acp_permission_requests, answers, said>>
        BY DEF persist_trust, uiVars
    <2> QED
        BY <2>1, <2>2, <2>3
<1>2. \/ /\ kind \cap {"allow_always", "reject_always"} # {}
         /\ trust_store' = [trust_store EXCEPT ![key] = trusted]
         /\ UNCHANGED <<session_trust, decision_meta>>
      \/ /\ kind \cap {"allow_always", "reject_always"} = {}
         /\ decision_meta' = decision_meta \ {tool}
         /\ session_trust' = IF tool \in decision_meta /\ kind # {}
                             THEN [session_trust EXCEPT ![key] = trusted] ELSE session_trust
         /\ UNCHANGED trust_store
    BY DEF persist_trust
<1>3. /\ outcome \in Allows => Approved(tool)
      /\ outcome = "allow_always" => "approve_session" \in said[tool]
    BY <1>1 DEF OutcomeBacked
<1>4. kind # {} /\ trusted = "Allow" => outcome \in Allows
    BY DEF Allows
<1>5. kind \cap {"allow_always", "reject_always"} # {} /\ trusted = "Allow" =>
        outcome = "allow_always"
    OBVIOUS
<1>6. \A c \in decision_meta : said[c] \cap {"approve_session", "deny"} # {}
    BY DEF PermissionIInv, Backed
<1> HIDE DEF kind, trusted, outcome
<1>7. /\ trust_store' \in [TrustKeys -> {"Allow", "Reject", Absent}]
      /\ session_trust' \in [TrustKeys -> {"Allow", "Reject", Absent}]
      /\ decision_meta' \subseteq decision_meta
    BY <1>1, <1>2 DEF PermissionIInv, PermissionTyped
<1>8. RememberedByAUser'
    <2>1. ASSUME NEW k \in TrustKeys, trust_store'[k] = "Allow"
          PROVE  \E c \in CallsFor(k) : "approve_session" \in said[c]
        <3>1. CASE trust_store'[k] = trust_store[k]
            BY <2>1, <3>1 DEF PermissionIInv, RememberedByAUser
        <3>2. CASE trust_store'[k] # trust_store[k]
            <4>1. /\ k = key /\ trusted = "Allow"
                  /\ kind \cap {"allow_always", "reject_always"} # {}
                BY <1>1, <1>2, <2>1, <3>2 DEF PermissionIInv, PermissionTyped
            <4> QED
                BY <1>1, <1>3, <1>5, <4>1
        <3> QED
            BY <3>1, <3>2
    <2>2. ASSUME NEW k \in TrustKeys, session_trust'[k] = "Allow"
          PROVE  \E c \in CallsFor(k) :
                    "approve_session" \in said[c] \/ {"approve_once", "deny"} \subseteq said[c]
        <3>1. CASE session_trust'[k] = session_trust[k]
            BY <2>2, <3>1 DEF PermissionIInv, RememberedByAUser
        <3>2. CASE session_trust'[k] # session_trust[k]
            <4>1. k = key /\ trusted = "Allow" /\ tool \in decision_meta /\ kind # {}
                BY <1>1, <1>2, <2>2, <3>2 DEF PermissionIInv, PermissionTyped
            <4>2. Approved(tool) /\ said[tool] \cap {"approve_session", "deny"} # {}
                BY <1>3, <1>4, <1>6, <4>1
            <4> QED
                BY <1>1, <4>1, <4>2 DEF Approved
        <3> QED
            BY <3>1, <3>2
    <2> QED
        BY <1>1, <2>1, <2>2 DEF RememberedByAUser
<1>9. /\ asked' = [asked EXCEPT ![r] = [pc |-> "answered", outcome |-> outcome]]
      /\ asked' \in [Asks -> [pc : Steps, outcome : Outcomes \cup {Absent}]]
    BY <1>1 DEF Become, PermissionIInv, PermissionTyped, Steps
<1>10. ASSUME NEW q \in Asks PROVE OutcomeBacked(q)'
    <2>1. CASE q = r
        BY <1>1, <1>3, <1>9, <2>1 DEF OutcomeBacked, KeyApproved, Approved, PermissionIInv, PermissionTyped
    <2>2. CASE q # r
        <3>1. OutcomeBacked(q) /\ asked'[q] = asked[q]
            BY <1>9, <2>2 DEF PermissionIInv, PermissionTyped, Backed
        <3> QED
            BY <1>1, <3>1 DEF OutcomeBacked, KeyApproved, Approved
    <2> QED
        BY <2>1, <2>2
<1>11. Backed'
    BY <1>1, <1>7, <1>10 DEF PermissionIInv, Backed, AnswerBacked, KeyApproved, Approved
<1> QED
    BY <1>1, <1>7, <1>8, <1>9, <1>11 DEF PermissionIInv, PermissionTyped, Filed

(***************************************************************************)
(* A client that shows a request keeps it under its tool call.             *)
(***************************************************************************)
LEMMA TranslateStep ==
    ASSUME PermissionAssumption, PermissionIInv, NEW k \in Clients, NEW r \in Asks,
           TranslatePermission(k, r)
    PROVE  PermissionIInv'
<1>1. CallOf[r] \in ToolCalls
    BY Keys
<1>2. /\ acp_permission_requests' \in
            {acp_permission_requests, [acp_permission_requests EXCEPT ![CallOf[r]] = r]}
      /\ UNCHANGED <<asked, pending_permissions, answers, decision_meta, session_trust,
                     trust_store, said>>
    BY DEF TranslatePermission, trustVars
<1>3. PermissionTyped'
    BY <1>1, <1>2 DEF PermissionIInv, PermissionTyped
<1>5. Filed'
    <2>1. /\ \A tool \in ToolCalls : tool # CallOf[r] =>
                acp_permission_requests'[tool] = acp_permission_requests[tool]
          /\ acp_permission_requests'[CallOf[r]] \in {acp_permission_requests[CallOf[r]], r}
        BY <1>1, <1>2 DEF PermissionIInv, PermissionTyped
    <2> QED
        BY <1>1, <1>2, <2>1 DEF PermissionIInv, Filed
<1>4. Backed' /\ RememberedByAUser'
    BY <1>2 DEF PermissionIInv, Backed, AnswerBacked, OutcomeBacked, KeyApproved, Approved, RememberedByAUser
<1> QED
    BY <1>3, <1>4, <1>5 DEF PermissionIInv

(***************************************************************************)
(* What a decision selects is no more than the user said.                  *)
(***************************************************************************)
LEMMA MappedDecision ==
    ASSUME NEW decision \in Decisions, NEW options \in SUBSET Kinds,
           NEW mapped, mapped = map_permission_decision(decision, options)
    PROVE  /\ mapped.outcome \in Outcomes /\ mapped.remember \in BOOLEAN
           /\ mapped.outcome \in Allows => decision \in {"approve_once", "approve_session"}
           /\ mapped.outcome = "allow_always" => decision = "approve_session"
           /\ mapped.remember => decision \in {"approve_session", "deny"}
<1>1. CASE decision = "approve_session"
    BY <1>1 DEF map_permission_decision, Outcomes, Kinds, Allows
<1>2. CASE decision = "approve_once"
    BY <1>2 DEF map_permission_decision, Outcomes, Kinds, Allows
<1>3. CASE decision = "deny"
    BY <1>3 DEF map_permission_decision, Outcomes, Kinds, Allows
<1> QED
    BY <1>1, <1>2, <1>3 DEF Decisions

(***************************************************************************)
(* A decision is said of the tool call it is for.                          *)
(***************************************************************************)
LEMMA DecideStep ==
    ASSUME PermissionAssumption, PermissionIInv, NEW k \in Clients, NEW tool \in ToolCalls,
           NEW decision \in Decisions, DecidePermission(k, tool, decision)
    PROVE  PermissionIInv'
<1> DEFINE r == acp_permission_requests[tool]
           mapped == map_permission_decision(decision, OptionsOf[r])
           answer == [call |-> tool, outcome |-> mapped.outcome,
                      step |-> IF mapped.remember THEN "scope" ELSE "answer"]
<1>1. /\ UNCHANGED <<asked, pending_permissions, decision_meta, session_trust, trust_store>>
      /\ acp_permission_requests' \in {acp_permission_requests,
                                       [acp_permission_requests EXCEPT ![tool] = Absent]}
    BY DEF DecidePermission, trustVars
<1>2. acp_permission_requests' \in [ToolCalls -> Asks \cup {Absent}]
    BY <1>1 DEF PermissionIInv, PermissionTyped
<1>3. Filed'
    <2>1. \A c \in ToolCalls :
            acp_permission_requests'[c] \in {acp_permission_requests[c], Absent}
        BY <1>1 DEF PermissionIInv, PermissionTyped
    <2> QED
        BY <1>1, <2>1 DEF PermissionIInv, Filed
<1>4. CASE UNCHANGED <<answers, said>>
    <2>1. Backed' /\ RememberedByAUser'
        BY <1>1, <1>4
        DEF PermissionIInv, Backed, AnswerBacked, OutcomeBacked, KeyApproved, Approved, RememberedByAUser
    <2> QED
        BY <1>1, <1>2, <1>3, <1>4, <2>1 DEF PermissionIInv, PermissionTyped
<1>5. CASE /\ r # Absent /\ answers' = Append(answers, answer)
           /\ said' = [said EXCEPT ![tool] = @ \cup {decision}]
    <2>1. r \in Asks /\ OptionsOf[r] \in SUBSET Kinds
        BY <1>5, Keys DEF PermissionIInv, PermissionTyped
    <2> HIDE DEF r
    <2>2. /\ mapped.outcome \in Outcomes /\ mapped.remember \in BOOLEAN
          /\ mapped.outcome \in Allows => decision \in {"approve_once", "approve_session"}
          /\ mapped.outcome = "allow_always" => decision = "approve_session"
          /\ mapped.remember => decision \in {"approve_session", "deny"}
        BY <2>1, MappedDecision
    <2> HIDE DEF mapped
    <2>3. PICK a \in Answers : a = answer
        BY <2>2 DEF Answers
    <2>4. /\ said \in [ToolCalls -> SUBSET Decisions] /\ said' \in [ToolCalls -> SUBSET Decisions]
          /\ \A t \in ToolCalls : said[t] \subseteq said'[t]
          /\ decision \in said'[tool]
        BY <1>1, <1>5 DEF PermissionIInv, PermissionTyped
    <2>5. AnswerBacked(a, said')
        BY <2>2, <2>3, <2>4 DEF AnswerBacked
    <2>6. /\ answers \in Seq(Answers) /\ answers' = Append(answers, a)
        BY <1>5, <2>3 DEF PermissionIInv, PermissionTyped
    <2> HIDE DEF answer
    <2>7. ASSUME NEW b \in Answers, AnswerBacked(b, said) PROVE AnswerBacked(b, said')
        <3>1. b.call \in ToolCalls
            BY DEF Answers
        <3>2. said[b.call] \subseteq said'[b.call]
            BY <2>4, <3>1
        <3> QED
            BY <2>7, <3>2 DEF AnswerBacked
    <2>8. /\ answers' \in Seq(Answers)
          /\ \A i \in DOMAIN answers' : AnswerBacked(answers'[i], said')
        <3>1. /\ answers' \in Seq(Answers)
              /\ \A i \in DOMAIN answers' :
                    (i \in DOMAIN answers /\ answers'[i] = answers[i]) \/ answers'[i] = a
            BY <2>6
        <3>2. \A i \in DOMAIN answers : answers[i] \in Answers /\ AnswerBacked(answers[i], said)
            BY <2>6 DEF PermissionIInv, Backed
        <3> QED
            BY <2>5, <2>7, <3>1, <3>2
    <2>9. \A q \in Asks : OutcomeBacked(q)'
        BY <1>1, <2>4, Keys DEF PermissionIInv, Backed, OutcomeBacked, KeyApproved, Approved
    <2>10. \A c \in decision_meta' : said'[c] \cap {"approve_session", "deny"} # {}
        BY <1>1, <2>4, Keys DEF PermissionIInv, PermissionTyped, Backed
    <2>11. RememberedByAUser'
        BY <1>1, <2>4, Keys DEF PermissionIInv, RememberedByAUser
    <2> QED
        BY <1>1, <1>2, <1>3, <2>4, <2>8, <2>9, <2>10, <2>11
        DEF PermissionIInv, PermissionTyped, Backed
<1> QED
    BY <1>4, <1>5 DEF DecidePermission

(***************************************************************************)
(* The permission loop passes on what was said of the tool call it is for. *)
(***************************************************************************)
LEMMA LoopStep ==
    ASSUME PermissionAssumption, PermissionIInv, KeepScope \/ AnswerPending
    PROVE  PermissionIInv'
<1> DEFINE first == Head(answers)
<1>1. /\ answers \in Seq(Answers) /\ answers # <<>> /\ 1 \in DOMAIN answers /\ first = answers[1]
      /\ first \in Answers /\ AnswerBacked(first, said)
    BY DEF KeepScope, AnswerPending, PermissionIInv, PermissionTyped, Backed
<1>2. /\ first.call \in ToolCalls /\ first.outcome \in Outcomes
    BY <1>1 DEF Answers
<1>3. CASE KeepScope
    <2> DEFINE kept == [first EXCEPT !.step = "answer"]
    <2>1. /\ first.step = "scope" /\ decision_meta' = decision_meta \cup {first.call}
          /\ answers' = [answers EXCEPT ![1] = kept]
          /\ UNCHANGED <<asked, pending_permissions, acp_permission_requests, session_trust,
                         trust_store, said>>
        BY <1>3 DEF KeepScope, trustVars
    <2>2. kept \in Answers /\ AnswerBacked(kept, said)
        BY <1>1 DEF Answers, AnswerBacked
    <2>3. said[first.call] \cap {"approve_session", "deny"} # {}
        BY <1>1, <2>1 DEF AnswerBacked
    <2> HIDE DEF kept, first
    <2>4. /\ answers' \in Seq(Answers)
          /\ \A i \in DOMAIN answers' :
                i \in DOMAIN answers /\ answers'[i] \in {answers[i], kept}
        BY <1>1, <2>1, <2>2
    <2>5. PermissionTyped'
        BY <1>2, <2>1, <2>4 DEF PermissionIInv, PermissionTyped
    <2>6. \A i \in DOMAIN answers' : AnswerBacked(answers'[i], said')
        BY <2>1, <2>2, <2>4 DEF PermissionIInv, Backed
    <2>7. Backed'
        BY <2>1, <2>3, <2>6 DEF PermissionIInv, Backed, OutcomeBacked, KeyApproved, Approved
    <2>8. Filed' /\ RememberedByAUser'
        BY <2>1 DEF PermissionIInv, Filed, RememberedByAUser
    <2> QED
        BY <2>5, <2>7, <2>8 DEF PermissionIInv
<1>4. CASE AnswerPending
    <2> DEFINE tool == first.call
               r == pending_permissions[tool]
    <2>1. /\ answers' = Tail(answers)
          /\ pending_permissions' = [pending_permissions EXCEPT ![tool] = Absent]
          /\ \/ UNCHANGED asked
             \/ /\ r # Absent /\ asked[r].pc \in {"send", "wait"}
                /\ asked' = [asked EXCEPT ![r].outcome = first.outcome]
          /\ UNCHANGED <<acp_permission_requests, decision_meta, session_trust, trust_store, said>>
        BY <1>4 DEF AnswerPending, trustVars
    <2> HIDE DEF first
    <2>2. r # Absent => r \in Asks /\ CallOf[r] = tool
        BY <1>2 DEF PermissionIInv, PermissionTyped, Filed
    <2>3. asked \in [Asks -> [pc : Steps, outcome : Outcomes \cup {Absent}]]
        BY DEF PermissionIInv, PermissionTyped
    <2>4. asked' \in [Asks -> [pc : Steps, outcome : Outcomes \cup {Absent}]]
        BY <1>2, <2>1, <2>2, <2>3
    <2>5. ASSUME NEW q \in Asks PROVE OutcomeBacked(q)'
        <3>1. OutcomeBacked(q)
            BY DEF PermissionIInv, Backed
        <3>2. CASE asked'[q] = asked[q]
            BY <2>1, <3>1, <3>2 DEF OutcomeBacked, KeyApproved, Approved
        <3>3. CASE asked'[q] # asked[q]
            <4>1. /\ q = r /\ CallOf[q] = tool /\ asked'[q].outcome = first.outcome
                  /\ asked'[q].pc # "trusted"
                BY <2>1, <2>2, <2>3, <3>3
            <4> QED
                BY <1>1, <2>1, <4>1 DEF OutcomeBacked, AnswerBacked, KeyApproved, Approved
        <3> QED
            BY <3>2, <3>3
    <2>6. /\ answers' \in Seq(Answers)
          /\ \A i \in DOMAIN answers' : i + 1 \in DOMAIN answers /\ answers'[i] = answers[i + 1]
        BY <1>1, <2>1
    <2>7. Backed'
        BY <2>1, <2>5, <2>6 DEF PermissionIInv, Backed
    <2>8. pending_permissions' \in [ToolCalls -> Asks \cup {Absent}] /\ Filed'
        <3>1. \A c \in ToolCalls : pending_permissions'[c] \in {pending_permissions[c], Absent}
            BY <2>1 DEF PermissionIInv, PermissionTyped
        <3> QED
            BY <2>1, <3>1 DEF PermissionIInv, PermissionTyped, Filed
    <2>9. RememberedByAUser'
        BY <2>1 DEF PermissionIInv, RememberedByAUser
    <2> QED
        BY <2>1, <2>4, <2>6, <2>7, <2>8, <2>9 DEF PermissionIInv, PermissionTyped
<1> QED
    BY <1>3, <1>4

(***************************************************************************)
(* At the start nothing was asked, said or remembered, and every step      *)
(* keeps the inductive invariant.                                          *)
(***************************************************************************)
LEMMA InitPermission ==
    ASSUME PermissionAssumption, PermissionInit
    PROVE  PermissionIInv
<1>1. Absent \notin Allows /\ Absent # "allow_always" /\ Absent # "Allow"
    BY DEF PermissionAssumption, Allows, Kinds
<1>2. PermissionTyped
    BY DEF PermissionInit, PermissionTyped, Steps
<1>3. Filed /\ RememberedByAUser
    BY <1>1 DEF PermissionInit, Filed, RememberedByAUser
<1>4. Backed
    BY <1>1 DEF PermissionInit, Backed, OutcomeBacked
<1> QED
    BY <1>2, <1>3, <1>4 DEF PermissionIInv

(***************************************************************************)
(* Every step keeps it.                                                    *)
(***************************************************************************)
LEMMA StepPermission ==
    ASSUME PermissionAssumption, PermissionIInv, [PermissionNext]_permissionVars
    PROVE  PermissionIInv'
<1>1. ASSUME NEW r \in Asks,
             RequestPermission(r) \/ SendRequest(r) \/ PermissionTimeout(r)
             \/ PermissionAnswered(r) \/ RemovePending(r) \/ persist_trust(r)
      PROVE  PermissionIInv'
    BY <1>1, AskStep, PersistStep
<1>2. ASSUME NEW k \in Clients, NEW r \in Asks, TranslatePermission(k, r)
      PROVE  PermissionIInv'
    BY <1>2, TranslateStep
<1>3. ASSUME NEW k \in Clients, NEW tool \in ToolCalls,
             NEW decision \in {"approve_once", "approve_session", "deny"},
             DecidePermission(k, tool, decision)
      PROVE  PermissionIInv'
    BY <1>3, DecideStep DEF Decisions
<1>4. CASE KeepScope \/ AnswerPending
    BY <1>4, LoopStep
<1>5. CASE UNCHANGED permissionVars
    BY <1>5
    DEF permissionVars, PermissionIInv, PermissionTyped, Filed, Backed, OutcomeBacked, KeyApproved, Approved,
        RememberedByAUser
<1> QED
    BY <1>1, <1>2, <1>3, <1>4, <1>5 DEF PermissionNext

-----------------------------------------------------------------------------
(***************************************************************************)
(* The agent is allowed something only if a user approved a tool call that *)
(* asks for the same kind and location, for any number of requests, also   *)
(* of one tool call and of different kinds, of clients and of late or lost *)
(* answers.                                                                *)
(***************************************************************************)
THEOREM AllowedSafe == PermissionSpec => []AllowedByAUser
<1>1. PermissionInit => PermissionIInv
    BY InitPermission, PermissionAssumption
<1>2. PermissionIInv /\ [PermissionNext]_permissionVars => PermissionIInv'
    BY StepPermission, PermissionAssumption
<1>3. PermissionIInv => AllowedByAUser
    BY Keys, PermissionAssumption
    DEF PermissionIInv, Backed, OutcomeBacked, KeyApproved, Approved, Allows, AllowedByAUser
<1> QED
    BY <1>1, <1>2, <1>3, PTL DEF PermissionSpec

(***************************************************************************)
(* An approval outlives its request only if a user approved for more than  *)
(* once a tool call that asks for its kind and location, or approved such  *)
(* a call once and denied another request of it.                           *)
(***************************************************************************)
THEOREM RememberedSafe == PermissionSpec => []RememberedByAUser
<1>1. PermissionInit => PermissionIInv
    BY InitPermission, PermissionAssumption
<1>2. PermissionIInv /\ [PermissionNext]_permissionVars => PermissionIInv'
    BY StepPermission, PermissionAssumption
<1>3. PermissionIInv => RememberedByAUser
    BY DEF PermissionIInv
<1> QED
    BY <1>1, <1>2, <1>3, PTL DEF PermissionSpec

-----------------------------------------------------------------------------
(* AcpChannel.  A text goes wrong many steps before it is seen: in the     *)
(* session a message was given, in the stream it was mapped to or in what  *)
(* a socket has looked up.  The inductive invariant says for every place   *)
(* between the agent and the client's text which session it belongs to     *)
(* (MailsOK, StreamsOK, SocketsOK, NotesOK), and that nothing leads back   *)
(* to a message that was completed (CompletedOK), however long an update   *)
(* is still on its way.  That each create and prompt is served once        *)
(* (QueueOK) is what makes the end of a turn the end of its own message.   *)

Updates == [session : AcpSessions, chunk : Messages \cup {NoOne}]
SocketStates == [inbox : Seq(Updates), update : Updates \cup {NoUpdate},
                 stream : Messages \cup {NoOne}, cancel : AcpSessions \cup {NoOne}, waits : BOOLEAN]
\* What waits for the connection, and by whom.
Calls == [kind : {"create", "prompt", "cancel"}, by : Messages \cup Sockets]

\* Steps at which a message has no session yet, and the one at which the stream does not lead
\* to it.
Early == {"idle", "open", "create", "creating"}
\* The session's stream has not been mapped to the message.
Unmapped(mails, m) == mails[m].pc \in Early \cup {"map"}

\* A message has a session from the answer to its create on, and the session was made for the
\* message's conversation; so was the one that the conversation keeps.
MailsOK ==
  /\ mail \in [Messages -> [pc : MailSteps, conversation : Conversations,
                            session : AcpSessions \cup {NoOne}]]
  /\ conversations \in [Conversations -> AcpSessions \cup {NoOne}]
  /\ \A m \in Messages : mail[m].pc \in Early => mail[m].session = NoOne
  /\ \A m \in Messages :
       mail[m].pc \in MailSteps \ (Early \cup {"failed"}) => mail[m].session # NoOne
  /\ \A m \in Messages : mail[m].session # NoOne =>
       mail[mail[m].session].conversation = mail[m].conversation
  /\ \A c \in Conversations : conversations[c] # NoOne => mail[conversations[c]].conversation = c

\* A session's stream leads to a message of that session.
StreamsOK ==
  /\ streams \in [AcpSessions -> Messages \cup {NoOne}]
  /\ \A a \in AcpSessions : streams[a] # NoOne =>
       mail[streams[a]].session = a /\ ~Unmapped(mail, streams[a])

\* What a message holds was said in its session.
TextsOK ==
  /\ accumulated \in [Messages -> Seq(Messages)]
  /\ \A m \in Messages : \A i \in DOMAIN accumulated[m] :
       /\ mail[m].session # NoOne
       /\ mail[accumulated[m][i]].session = mail[m].session

\* The message that a call was made for still waits for it.
Waited(mails, request) ==
  /\ request.kind = "create" => request.by \in Messages /\ mails[request.by].pc = "creating"
  /\ request.kind = "prompt" => request.by \in Messages /\ mails[request.by].pc = "queued"

\* A create or a prompt is in the queue or being served once, and its message waits.
QueueOK ==
  /\ requests \in Seq(Calls)
  /\ \A i \in DOMAIN requests : Waited(mail, requests[i])
  /\ \A i, j \in DOMAIN requests : requests[i] = requests[j] /\ requests[i].kind # "cancel" => i = j
  /\ serving # NoOne =>
       /\ serving \in Calls /\ Waited(mail, serving)
       /\ serving.kind # "cancel" => \A i \in DOMAIN requests : requests[i] # serving

\* The agent's notifications are of sessions that it was asked for.
NotesOK ==
  /\ notifications \in Seq(Messages)
  /\ \A i \in DOMAIN notifications : mail[notifications[i]].session # NoOne

\* A turn of the session has ended.
Ended(mails, a) == \E n \in Messages : mails[n].pc = "done" /\ mails[n].session = a

\* An update is of the session it names; a Done comes after a turn of it has ended.
Told(mails, update) ==
  IF update.chunk = NoOne THEN Ended(mails, update.session)
                          ELSE mails[update.chunk].session = update.session

\* So is every update on its way to a socket or being handled there, and the message that the
\* socket looked up for it is of the session.
SocketsOK ==
  /\ socket \in [Sockets -> SocketStates]
  /\ \A s \in Sockets : \A i \in DOMAIN socket[s].inbox : Told(mail, socket[s].inbox[i])
  /\ \A s \in Sockets : socket[s].stream # NoOne =>
       /\ socket[s].update \in Updates /\ Told(mail, socket[s].update)
       /\ mail[socket[s].stream].session = socket[s].update.session
       /\ ~Unmapped(mail, socket[s].stream)

\* A client that was told that a message is complete was told once, after a turn of its
\* session has ended; and no stream leads to that message any more, nor has its socket looked
\* it up again.
CompletedOK ==
  /\ completed \in [Sockets -> [Messages -> 0..1]]
  /\ \A s \in Sockets, m \in Messages : completed[s][m] # 0 =>
       /\ Ended(mail, mail[m].session) /\ ~Unmapped(mail, m)
       /\ socket[s].stream # m
       /\ \A a \in AcpSessions : streams[a] # m

\* The inductive invariant.
ChannelIInv ==
  MailsOK /\ StreamsOK /\ TextsOK /\ QueueOK /\ NotesOK /\ SocketsOK /\ CompletedOK

MailStates == [pc : MailSteps, conversation : Conversations, session : AcpSessions \cup {NoOne}]

\* What no step of any message takes back: its session, the end of its turn, its mapping.
Grows ==
  /\ mail' \in [Messages -> MailStates]
  /\ \A m \in Messages : mail[m].session # NoOne => mail'[m].session = mail[m].session
  /\ \A m \in Messages : mail[m].pc = "done" => mail'[m].pc = "done"
  /\ \A m \in Messages :
       mail[m].pc \notin Early \cup {"map"} => mail'[m].pc \notin Early \cup {"map"}

(***************************************************************************)
(* NoOne is no message and no socket, and a session goes by the message it *)
(* was created for.                                                        *)
(***************************************************************************)
LEMMA Names ==
  ASSUME ChannelAssumption
  PROVE  NoOne \notin Messages /\ NoOne \notin Sockets /\ AcpSessions = Messages
BY DEF ChannelAssumption, AcpSessions

(***************************************************************************)
(* A step that changes no message takes nothing back.                      *)
(***************************************************************************)
LEMMA NothingMails ==
  ASSUME MailsOK, mail' = mail
  PROVE  Grows
BY DEF MailsOK, MailStates, Grows

(***************************************************************************)
(* A message's record with another step and another session.               *)
(***************************************************************************)
LEMMA TwoFields ==
  ASSUME NEW r \in MailStates, NEW pc, NEW a
  PROVE  [r EXCEPT !.pc = pc, !.session = a]
           = [pc |-> pc, conversation |-> r.conversation, session |-> a]
<1> DEFINE b == [r EXCEPT !.pc = pc]
<1>1. b = [pc |-> pc, conversation |-> r.conversation, session |-> r.session]
  BY DEF MailStates
<1> HIDE DEF b
<1>2. [b EXCEPT !.session = a] = [pc |-> pc, conversation |-> r.conversation, session |-> a]
  BY <1>1
<1> QED
  BY <1>2 DEF b

(***************************************************************************)
(* A message that goes on, with its session or a new one of its own        *)
(* conversation, keeps what holds of the messages, and takes nothing back. *)
(***************************************************************************)
LEMMA Moves ==
  ASSUME MailsOK, NEW m \in Messages, NEW pc \in MailSteps, NEW a \in AcpSessions \cup {NoOne},
         mail' = [mail EXCEPT ![m] = [pc |-> pc, conversation |-> mail[m].conversation,
                                      session |-> a]],
         \/ a = mail[m].session
         \/ /\ mail[m].session = NoOne /\ a # NoOne
            /\ mail[a].conversation = mail[m].conversation,
         pc \in Early => a = NoOne,
         pc \in MailSteps \ (Early \cup {"failed"}) => a # NoOne,
         mail[m].pc # "done",
         pc \in Early \cup {"map"} => mail[m].pc \in Early \cup {"map"},
         conversations' \in [Conversations -> AcpSessions \cup {NoOne}],
         \A c \in Conversations : conversations'[c] # NoOne =>
           mail[conversations'[c]].conversation = c
  PROVE  MailsOK' /\ Grows
<1> DEFINE new == [pc |-> pc, conversation |-> mail[m].conversation, session |-> a]
<1>1. mail \in [Messages -> MailStates]
  BY DEF MailsOK, MailStates
<1>2. new \in MailStates /\ new.pc = pc /\ new.session = a
      /\ new.conversation = mail[m].conversation
  BY <1>1 DEF MailStates
<1> HIDE DEF new
<1>3. mail' = [mail EXCEPT ![m] = new]
  BY DEF new
<1>4. mail' \in [Messages -> MailStates] /\ mail'[m] = new
      /\ \A n \in Messages \ {m} : mail'[n] = mail[n]
  BY <1>1, <1>2, <1>3
<1>5. \A n \in Messages : mail'[n].conversation = mail[n].conversation
  BY <1>2, <1>4
<1>6. Grows
  BY <1>1, <1>2, <1>4 DEF Grows, MailStates
<1>7. \A n \in Messages : mail'[n].pc \in Early => mail'[n].session = NoOne
  BY <1>2, <1>4 DEF MailsOK
<1>8. \A n \in Messages :
        mail'[n].pc \in MailSteps \ (Early \cup {"failed"}) => mail'[n].session # NoOne
  BY <1>2, <1>4 DEF MailsOK
<1>9. ASSUME NEW n \in Messages, mail'[n].session # NoOne
      PROVE  mail'[mail'[n].session].conversation = mail'[n].conversation
  <2>1. mail'[n].session \in Messages
    BY <1>4, <1>9 DEF MailStates, AcpSessions
  <2>2. mail[mail'[n].session].conversation = mail[n].conversation
    BY <1>2, <1>4, <1>9 DEF MailsOK
  <2> QED
    BY <1>5, <2>1, <2>2
<1>10. \A c \in Conversations : conversations'[c] # NoOne =>
         mail'[conversations'[c]].conversation = c
  BY <1>5 DEF AcpSessions
<1> QED
  BY <1>4, <1>6, <1>7, <1>8, <1>9, <1>10 DEF MailsOK, MailStates

(***************************************************************************)
(* An update that is of its session stays so, and a turn that has ended    *)
(* too.                                                                    *)
(***************************************************************************)
LEMMA TellsOn ==
  ASSUME ChannelAssumption, MailsOK, Grows
  PROVE  /\ \A a \in AcpSessions : Ended(mail, a) => Ended(mail', a)
         /\ \A update \in Updates : Told(mail, update) => Told(mail', update)
<1>1. \A a \in AcpSessions : Ended(mail, a) => Ended(mail', a)
  <2> SUFFICES ASSUME NEW a \in AcpSessions, Ended(mail, a) PROVE Ended(mail', a)
    OBVIOUS
  <2>1. PICK n \in Messages : mail[n].pc = "done" /\ mail[n].session = a
    BY DEF Ended
  <2>2. a # NoOne
    BY Names
  <2> QED
    BY <2>1, <2>2 DEF Ended, Grows
<1>2. ASSUME NEW update \in Updates, Told(mail, update) PROVE Told(mail', update)
  <2>1. update.session \in AcpSessions /\ update.session # NoOne
        /\ update.chunk \in Messages \cup {NoOne}
    BY Names DEF Updates
  <2>2. CASE update.chunk = NoOne
    BY <1>1, <1>2, <2>1, <2>2 DEF Told
  <2>3. CASE update.chunk # NoOne
    BY <1>2, <2>1, <2>3 DEF Told, Grows
  <2> QED
    BY <2>2, <2>3
<1> QED
  BY <1>1, <1>2

(***************************************************************************)
(* Streams that do not change lead where they led.                         *)
(***************************************************************************)
LEMMA StreamsStay ==
  ASSUME ChannelAssumption, StreamsOK, Grows, streams' = streams
  PROVE  StreamsOK'
<1>1. ASSUME NEW a \in AcpSessions, streams[a] # NoOne
      PROVE  mail'[streams[a]].session = a
             /\ mail'[streams[a]].pc \notin Early \cup {"map"}
  <2>1. streams[a] \in Messages /\ a # NoOne
    BY <1>1, Names DEF StreamsOK
  <2> QED
    BY <1>1, <2>1 DEF StreamsOK, Unmapped, Grows
<1> QED
  BY <1>1 DEF StreamsOK, Unmapped

(***************************************************************************)
(* Texts that do not change were said in their sessions.                   *)
(***************************************************************************)
LEMMA TextsStay ==
  ASSUME TextsOK, Grows, accumulated' = accumulated
  PROVE  TextsOK'
<1>1. ASSUME NEW m \in Messages, NEW i \in DOMAIN accumulated[m]
      PROVE  mail'[m].session # NoOne /\ mail'[accumulated[m][i]].session = mail'[m].session
  <2>1. accumulated[m][i] \in Messages
    BY ElementOfSeq DEF TextsOK
  <2> QED
    BY <2>1 DEF TextsOK, Grows
<1> QED
  BY <1>1 DEF TextsOK

(***************************************************************************)
(* Notifications that do not change are of sessions that were asked for.   *)
(***************************************************************************)
LEMMA NotesStay ==
  ASSUME NotesOK, Grows, notifications' = notifications
  PROVE  NotesOK'
<1>1. \A i \in DOMAIN notifications : notifications[i] \in Messages
  BY DEF NotesOK
<1> QED
  BY <1>1 DEF NotesOK, Grows

(***************************************************************************)
(* Sockets whose updates do not change know no less of them.               *)
(***************************************************************************)
LEMMA SocketsStay ==
  ASSUME ChannelAssumption, MailsOK, SocketsOK, Grows, socket' \in [Sockets -> SocketStates],
         \A s \in Sockets : /\ socket'[s].inbox = socket[s].inbox
                            /\ socket'[s].update = socket[s].update
                            /\ socket'[s].stream = socket[s].stream
  PROVE  SocketsOK'
<1>1. ASSUME NEW s \in Sockets, NEW i \in DOMAIN socket[s].inbox
      PROVE  Told(mail', socket[s].inbox[i])
  <2>1. socket[s].inbox \in Seq(Updates)
    BY DEF SocketsOK, SocketStates
  <2>2. socket[s].inbox[i] \in Updates
    BY <2>1, ElementOfSeq
  <2> QED
    BY <2>2, TellsOn DEF SocketsOK
<1>2. ASSUME NEW s \in Sockets, socket[s].stream # NoOne
      PROVE  /\ socket[s].update \in Updates /\ Told(mail', socket[s].update)
             /\ mail'[socket[s].stream].session = socket[s].update.session
             /\ ~Unmapped(mail', socket[s].stream)
  <2>1. socket[s].stream \in Messages
    BY <1>2 DEF SocketsOK, SocketStates
  <2>2. socket[s].update.session # NoOne
    BY <1>2, Names DEF SocketsOK, Updates
  <2> QED
    BY <1>2, <2>1, <2>2, TellsOn DEF SocketsOK, Grows, Unmapped
<1> QED
  BY <1>1, <1>2 DEF SocketsOK

(***************************************************************************)
(* Nothing leads to a completed message unless a stream or a lookup is     *)
(* new.                                                                    *)
(***************************************************************************)
LEMMA CompletedStays ==
  ASSUME ChannelAssumption, MailsOK, CompletedOK, Grows, completed' = completed,
         \A s \in Sockets : socket'[s].stream \in {socket[s].stream, NoOne},
         \A a \in AcpSessions : streams'[a] \in {streams[a], NoOne}
  PROVE  CompletedOK'
<1>1. ASSUME NEW s \in Sockets, NEW m \in Messages, completed[s][m] # 0
      PROVE  /\ Ended(mail', mail'[m].session) /\ ~Unmapped(mail', m)
             /\ socket'[s].stream # m
             /\ \A a \in AcpSessions : streams'[a] # m
  <2>1. Ended(mail, mail[m].session) /\ ~Unmapped(mail, m)
    BY <1>1 DEF CompletedOK
  <2>2. mail[m].session # NoOne /\ mail[m].session \in AcpSessions
    BY <2>1 DEF MailsOK, Ended, Early
  <2>3. mail'[m].session = mail[m].session
    BY <2>2 DEF Grows
  <2>4. Ended(mail', mail'[m].session)
    BY <2>1, <2>2, <2>3, TellsOn
  <2> QED
    BY <1>1, <2>1, <2>4, Names DEF CompletedOK, Grows, Unmapped
<1> QED
  BY <1>1 DEF CompletedOK

(***************************************************************************)
(* A queue that does not change is sound while no message that waits is    *)
(* moved.                                                                  *)
(***************************************************************************)
LEMMA QueueStays ==
  ASSUME QueueOK, requests' = requests, serving' = serving,
         \A n \in Messages :
           mail[n].pc \in {"creating", "queued"} => mail'[n].pc = mail[n].pc
  PROVE  QueueOK'
<1>1. \A request \in Calls : Waited(mail, request) => Waited(mail', request)
  BY DEF Waited
<1>2. \A i \in DOMAIN requests : Waited(mail', requests[i])
  BY <1>1, ElementOfSeq DEF QueueOK
<1> QED
  BY <1>1, <1>2 DEF QueueOK

(***************************************************************************)
(* A call joins the queue together with its message's wait.                *)
(***************************************************************************)
LEMMA QueueGrows ==
  ASSUME QueueOK, NEW request \in Calls, requests' = Append(requests, request), serving' = serving,
         \A n \in Messages :
           mail[n].pc \in {"creating", "queued"} => mail'[n].pc = mail[n].pc,
         Waited(mail', request), request.kind # "cancel" => ~Waited(mail, request)
  PROVE  QueueOK'
<1>1. \A other \in Calls : Waited(mail, other) => Waited(mail', other)
  BY DEF Waited
<1>2. /\ requests' \in Seq(Calls) /\ Len(requests') = Len(requests) + 1
      /\ Len(requests) \in Nat /\ DOMAIN requests = 1..Len(requests)
      /\ \A i \in 1..Len(requests) : requests'[i] = requests[i]
      /\ requests'[Len(requests) + 1] = request
      /\ DOMAIN requests' = 1..(Len(requests) + 1)
  BY AppendProperties, LenProperties DEF QueueOK
<1>3. \A i \in DOMAIN requests : requests[i] \in Calls /\ Waited(mail, requests[i])
  BY ElementOfSeq DEF QueueOK
<1>4. \A i \in DOMAIN requests' : Waited(mail', requests'[i])
  BY <1>1, <1>2, <1>3
<1>5. ASSUME NEW i \in DOMAIN requests', NEW j \in DOMAIN requests',
             requests'[i] = requests'[j], requests'[i].kind # "cancel"
      PROVE  i = j
  <2>1. CASE i \in 1..Len(requests) /\ j \in 1..Len(requests)
    BY <1>2, <1>5, <2>1 DEF QueueOK
  <2>2. CASE i = Len(requests) + 1 /\ j \in 1..Len(requests)
    BY <1>2, <1>3, <1>5, <2>2
  <2>3. CASE j = Len(requests) + 1 /\ i \in 1..Len(requests)
    BY <1>2, <1>3, <1>5, <2>3
  <2> QED
    BY <1>2, <2>1, <2>2, <2>3
<1>6. ASSUME serving # NoOne
      PROVE  /\ serving \in Calls /\ Waited(mail', serving)
             /\ serving.kind # "cancel" => \A i \in DOMAIN requests' : requests'[i] # serving
  BY <1>1, <1>2, <1>6 DEF QueueOK
<1> QED
  BY <1>2, <1>4, <1>5, <1>6 DEF QueueOK

(***************************************************************************)
(* A create or a prompt leaves the connection together with its message's  *)
(* wait.                                                                   *)
(***************************************************************************)
LEMMA QueueAnswered ==
  ASSUME QueueOK, serving # NoOne, serving.kind # "cancel", requests' = requests,
         serving' = NoOne,
         \A n \in Messages \ {serving.by} :
           mail[n].pc \in {"creating", "queued"} => mail'[n].pc = mail[n].pc
  PROVE  QueueOK'
<1>1. \A i \in DOMAIN requests :
        requests[i] \in Calls /\ Waited(mail, requests[i]) /\ requests[i] # serving
  BY ElementOfSeq DEF QueueOK
<1>2. serving \in Calls /\ Waited(mail, serving)
  BY DEF QueueOK
<1>3. ASSUME NEW i \in DOMAIN requests PROVE Waited(mail', requests[i])
  <2>1. CASE requests[i].kind = "cancel"
    BY <2>1 DEF Waited
  <2>2. CASE requests[i].kind # "cancel" /\ requests[i].by # serving.by
    BY <1>1, <2>2 DEF Waited, Calls
  <2>3. CASE requests[i].kind # "cancel" /\ requests[i].by = serving.by
    <3>1. requests[i].kind = serving.kind
      BY <1>1, <1>2, <2>3 DEF Waited, Calls
    <3>2. requests[i] = serving
      BY <1>1, <1>2, <2>3, <3>1 DEF Calls
    <3> QED
      BY <1>1, <3>2
  <2> QED
    BY <2>1, <2>2, <2>3
<1> QED
  BY <1>3 DEF QueueOK

(***************************************************************************)
(* A message that goes on with the session it has.                         *)
(***************************************************************************)
LEMMA MessageStep ==
  ASSUME MailsOK, NEW m \in Messages, NEW pc \in MailSteps, Step(m, pc),
         conversations' = conversations,
         pc \in Early => mail[m].session = NoOne,
         pc \in MailSteps \ (Early \cup {"failed"}) => mail[m].session # NoOne,
         mail[m].pc # "done",
         pc \in Early \cup {"map"} => mail[m].pc \in Early \cup {"map"}
  PROVE  /\ MailsOK' /\ Grows
         /\ mail'[m].pc = pc /\ mail'[m].session = mail[m].session
         /\ \A n \in Messages \ {m} : mail'[n] = mail[n]
<1> DEFINE new == [pc |-> pc, conversation |-> mail[m].conversation, session |-> mail[m].session]
<1>1. mail \in [Messages -> MailStates] /\ mail[m] \in MailStates
      /\ mail[m].session \in AcpSessions \cup {NoOne}
  BY DEF MailsOK, MailStates
<1>2. [mail[m] EXCEPT !.pc = pc] = new
  BY <1>1 DEF MailStates
<1>3. mail' = [mail EXCEPT ![m] = new]
  BY <1>2 DEF Step, SetMail
<1>4. conversations' \in [Conversations -> AcpSessions \cup {NoOne}]
      /\ \A c \in Conversations : conversations'[c] # NoOne =>
           mail[conversations'[c]].conversation = c
  BY DEF MailsOK
<1>5. MailsOK' /\ Grows
  BY <1>1, <1>3, <1>4, Moves
<1>6. new.pc = pc /\ new.session = mail[m].session
  OBVIOUS
<1> HIDE DEF new
<1> QED
  BY <1>1, <1>3, <1>5, <1>6

(***************************************************************************)
(* A step that changes messages and the queue, and neither streams nor     *)
(* sockets.                                                                *)
(***************************************************************************)
LEMMA OnlyMails ==
  ASSUME ChannelAssumption, ChannelIInv, MailsOK', Grows, QueueOK',
         UNCHANGED <<streams, accumulated, notifications, socketVars>>
  PROVE  ChannelIInv'
<1>1. streams' = streams /\ accumulated' = accumulated /\ notifications' = notifications
      /\ socket' = socket /\ completed' = completed
  BY DEF socketVars
<1>2. StreamsOK'
  BY <1>1, StreamsStay DEF ChannelIInv
<1>3. TextsOK' /\ NotesOK'
  BY <1>1, TextsStay, NotesStay DEF ChannelIInv
<1>4. SocketsOK'
  <2>1. socket' \in [Sockets -> SocketStates]
    BY <1>1 DEF ChannelIInv, SocketsOK
  <2> QED
    BY <1>1, <2>1, SocketsStay DEF ChannelIInv
<1>5. CompletedOK'
  BY <1>1, CompletedStays DEF ChannelIInv
<1> QED
  BY <1>2, <1>3, <1>4, <1>5 DEF ChannelIInv

(***************************************************************************)
(* Message keeps the invariant.                                            *)
(***************************************************************************)
LEMMA MessageKeeps ==
  ASSUME ChannelAssumption, ChannelIInv, NEW m \in Messages, Message(m)
  PROVE  ChannelIInv'
<1>1. /\ mail[m].pc = "idle" /\ Step(m, "open") /\ conversations' = conversations
      /\ UNCHANGED <<streams, accumulated, notifications, socketVars>>
      /\ requests' = requests /\ serving' = serving
  BY DEF Message, mapVars, connVars
<1>2. MailsOK /\ QueueOK /\ "open" \in MailSteps /\ mail[m].session = NoOne
  BY <1>1 DEF ChannelIInv, MailsOK, Early, MailSteps
<1>3. /\ MailsOK' /\ Grows
      /\ \A n \in Messages \ {m} : mail'[n] = mail[n]
  BY <1>1, <1>2, MessageStep DEF Early
<1>4. QueueOK'
  BY <1>1, <1>2, <1>3, QueueStays
<1> QED
  BY <1>1, <1>3, <1>4, OnlyMails

(***************************************************************************)
(* OpenConversation keeps the invariant: the session that the conversation *)
(* keeps was made for it.                                                  *)
(***************************************************************************)
LEMMA OpenKeeps ==
  ASSUME ChannelAssumption, ChannelIInv, NEW m \in Messages, OpenConversation(m)
  PROVE  ChannelIInv'
<1> DEFINE a == conversations[mail[m].conversation]
<1>1. /\ mail[m].pc = "open" /\ conversations' = conversations
      /\ IF a # NoOne THEN SetMail(m, [mail[m] EXCEPT !.pc = "map", !.session = a])
                      ELSE Step(m, "create")
      /\ UNCHANGED <<streams, accumulated, notifications, socketVars>>
      /\ requests' = requests /\ serving' = serving
  BY DEF OpenConversation, mapVars, connVars
<1>2. MailsOK /\ QueueOK /\ {"create", "map"} \subseteq MailSteps /\ mail[m].session = NoOne
      /\ mail[m] \in MailStates /\ mail \in [Messages -> MailStates]
  BY <1>1 DEF ChannelIInv, MailsOK, Early, MailSteps, MailStates
<1>3. /\ a \in AcpSessions \cup {NoOne}
      /\ a # NoOne => mail[a].conversation = mail[m].conversation
      /\ \A c \in Conversations : conversations[c] # NoOne =>
           mail[conversations[c]].conversation = c
      /\ conversations \in [Conversations -> AcpSessions \cup {NoOne}]
  BY <1>2 DEF MailsOK, MailStates
<1> HIDE DEF a
<1>4. /\ MailsOK' /\ Grows
      /\ \A n \in Messages \ {m} : mail'[n] = mail[n]
  <2>1. CASE a = NoOne
    BY <1>1, <1>2, <2>1, MessageStep DEF Early
  <2>2. CASE a # NoOne
    <3> DEFINE new == [pc |-> "map", conversation |-> mail[m].conversation, session |-> a]
    <3>1. [mail[m] EXCEPT !.pc = "map", !.session = a] = new
      BY <1>2, TwoFields
    <3>2. mail' = [mail EXCEPT ![m] = new]
      BY <1>1, <2>2, <3>1 DEF SetMail
    <3>3. "map" \in MailSteps /\ "map" \notin Early /\ "open" \in Early
      BY DEF Early, MailSteps
    <3>4. conversations' \in [Conversations -> AcpSessions \cup {NoOne}]
          /\ \A c \in Conversations : conversations'[c] # NoOne =>
               mail[conversations'[c]].conversation = c
      BY <1>1, <1>3
    <3>5. /\ mail[m].pc = "open" /\ mail[m].session = NoOne /\ MailsOK
          /\ a \in AcpSessions \cup {NoOne}
          /\ mail[a].conversation = mail[m].conversation
      BY <1>1, <1>2, <1>3, <2>2
    <3>6. MailsOK' /\ Grows
      BY <2>2, <3>2, <3>3, <3>4, <3>5, Moves
    <3> QED
      BY <1>2, <3>2, <3>6
  <2> QED
    BY <2>1, <2>2
<1>5. QueueOK'
  BY <1>1, <1>2, <1>4, QueueStays
<1> QED
  BY <1>1, <1>4, <1>5, OnlyMails

(***************************************************************************)
(* CreateSession keeps the invariant: the message waits for its own        *)
(* create.                                                                 *)
(***************************************************************************)
LEMMA CreateKeeps ==
  ASSUME ChannelAssumption, ChannelIInv, NEW m \in Messages, CreateSession(m)
  PROVE  ChannelIInv'
<1> DEFINE request == [kind |-> "create", by |-> m]
<1>1. /\ mail[m].pc = "create" /\ conversations' = conversations
      /\ \/ Step(m, "failed") /\ requests' = requests
         \/ Step(m, "creating") /\ requests' = Append(requests, request)
      /\ UNCHANGED <<streams, accumulated, notifications, socketVars>>
      /\ serving' = serving
  BY DEF CreateSession, mapVars
<1>2. MailsOK /\ QueueOK /\ {"creating", "failed"} \subseteq MailSteps /\ mail[m].session = NoOne
  BY <1>1 DEF ChannelIInv, MailsOK, Early, MailSteps
<1>3. CASE Step(m, "failed") /\ requests' = requests
  <2>1. /\ MailsOK' /\ Grows
        /\ \A n \in Messages \ {m} : mail'[n] = mail[n]
    BY <1>1, <1>2, <1>3, MessageStep DEF Early
  <2>2. QueueOK'
    BY <1>1, <1>2, <1>3, <2>1, QueueStays
  <2> QED
    BY <1>1, <2>1, <2>2, OnlyMails
<1>4. CASE Step(m, "creating") /\ requests' = Append(requests, request)
  <2>1. /\ MailsOK' /\ Grows /\ mail'[m].pc = "creating"
        /\ \A n \in Messages \ {m} : mail'[n] = mail[n]
    BY <1>1, <1>2, <1>4, MessageStep DEF Early
  <2>2. request \in Calls /\ request.kind = "create" /\ request.by = m
    BY DEF Calls
  <2>3. Waited(mail', request) /\ ~Waited(mail, request)
    BY <1>1, <2>1, <2>2 DEF Waited
  <2> HIDE DEF request
  <2>4. QueueOK'
    BY <1>1, <1>2, <1>4, <2>1, <2>2, <2>3, QueueGrows
  <2> QED
    BY <1>1, <2>1, <2>4, OnlyMails
<1> QED
  BY <1>1, <1>3, <1>4

(***************************************************************************)
(* MapStream keeps the invariant: the stream leads to a message that no    *)
(* client was told to be complete.                                         *)
(***************************************************************************)
LEMMA MapKeeps ==
  ASSUME ChannelAssumption, ChannelIInv, NEW m \in Messages, MapStream(m)
  PROVE  ChannelIInv'
<1>1. /\ mail[m].pc = "map" /\ conversations' = conversations /\ Step(m, "prompt")
      /\ streams' = [streams EXCEPT ![mail[m].session] = m]
      /\ accumulated' = accumulated /\ notifications' = notifications
      /\ socket' = socket /\ completed' = completed
      /\ requests' = requests /\ serving' = serving
  BY DEF MapStream, connVars, socketVars
<1>2. MailsOK /\ StreamsOK /\ QueueOK /\ "prompt" \in MailSteps /\ mail[m].session # NoOne
      /\ mail[m].session \in AcpSessions
  BY <1>1 DEF ChannelIInv, MailsOK, Early, MailSteps
<1>3. /\ MailsOK' /\ Grows /\ mail'[m].pc = "prompt" /\ mail'[m].session = mail[m].session
      /\ \A n \in Messages \ {m} : mail'[n] = mail[n]
  BY <1>1, <1>2, MessageStep DEF Early
<1>4. QueueOK'
  BY <1>1, <1>2, <1>3, QueueStays
<1>5. streams' \in [AcpSessions -> Messages \cup {NoOne}]
      /\ \A a \in AcpSessions : streams'[a] = IF a = mail[m].session THEN m ELSE streams[a]
  BY <1>1, <1>2 DEF StreamsOK
<1>6. StreamsOK'
  <2>1. ASSUME NEW a \in AcpSessions, streams'[a] # NoOne
        PROVE  mail'[streams'[a]].session = a /\ ~Unmapped(mail', streams'[a])
    <3>1. CASE a = mail[m].session
      BY <1>3, <1>5, <3>1 DEF Unmapped, Early
    <3>2. CASE a # mail[m].session
      <4>1. streams'[a] = streams[a] /\ streams[a] \in Messages /\ a # NoOne
        BY <1>2, <1>5, <2>1, <3>2, Names DEF StreamsOK
      <4> QED
        BY <1>2, <1>3, <2>1, <4>1 DEF StreamsOK, Unmapped, Grows
    <3> QED
      BY <3>1, <3>2
  <2> QED
    BY <1>5, <2>1 DEF StreamsOK
<1>7. TextsOK' /\ NotesOK'
  BY <1>1, <1>3, TextsStay, NotesStay DEF ChannelIInv
<1>8. SocketsOK'
  <2>1. socket' \in [Sockets -> SocketStates]
    BY <1>1 DEF ChannelIInv, SocketsOK
  <2> QED
    BY <1>1, <1>3, <2>1, SocketsStay DEF ChannelIInv
<1>9. CompletedOK'
  <2>1. ASSUME NEW s \in Sockets, NEW n \in Messages, completed[s][n] # 0
        PROVE  /\ Ended(mail', mail'[n].session) /\ ~Unmapped(mail', n)
               /\ socket[s].stream # n /\ \A a \in AcpSessions : streams'[a] # n
    <3>1. Ended(mail, mail[n].session) /\ ~Unmapped(mail, n) /\ socket[s].stream # n
          /\ \A a \in AcpSessions : streams[a] # n
      BY <2>1 DEF ChannelIInv, CompletedOK
    <3>2. n # m
      BY <1>1, <3>1 DEF Unmapped
    <3>3. mail[n].session # NoOne /\ mail[n].session \in AcpSessions
      BY <1>2, <3>1 DEF MailsOK, Ended, Early
    <3> QED
      BY <1>2, <1>3, <1>5, <3>1, <3>2, <3>3, TellsOn DEF Unmapped
  <2> QED
    BY <1>1, <2>1 DEF ChannelIInv, CompletedOK
<1> QED
  BY <1>3, <1>4, <1>6, <1>7, <1>8, <1>9 DEF ChannelIInv

(***************************************************************************)
(* SendPrompt keeps the invariant.                                         *)
(***************************************************************************)
LEMMA SendKeeps ==
  ASSUME ChannelAssumption, ChannelIInv, NEW m \in Messages, SendPrompt(m)
  PROVE  ChannelIInv'
<1>1. /\ mail[m].pc = "prompt" /\ conversations' = conversations
      /\ Step(m, "failed") \/ Step(m, "dispatched")
      /\ UNCHANGED <<streams, accumulated, notifications, socketVars>>
      /\ requests' = requests /\ serving' = serving
  BY DEF SendPrompt, mapVars, connVars
<1>2. MailsOK /\ QueueOK /\ {"failed", "dispatched"} \subseteq MailSteps /\ mail[m].session # NoOne
      /\ "failed" \notin Early \cup {"map"} /\ "dispatched" \notin Early \cup {"map"}
  BY <1>1 DEF ChannelIInv, MailsOK, Early, MailSteps
<1>3. /\ MailsOK' /\ Grows
      /\ \A n \in Messages \ {m} : mail'[n] = mail[n]
  BY <1>1, <1>2, MessageStep
<1>4. QueueOK'
  BY <1>1, <1>2, <1>3, QueueStays
<1> QED
  BY <1>1, <1>3, <1>4, OnlyMails

(***************************************************************************)
(* EnqueuePrompt keeps the invariant: the message waits for its own        *)
(* prompt.                                                                 *)
(***************************************************************************)
LEMMA EnqueueKeeps ==
  ASSUME ChannelAssumption, ChannelIInv, NEW m \in Messages, EnqueuePrompt(m)
  PROVE  ChannelIInv'
<1> DEFINE request == [kind |-> "prompt", by |-> m]
<1>1. /\ mail[m].pc = "dispatched" /\ conversations' = conversations
      /\ Step(m, "queued") /\ requests' = Append(requests, request)
      /\ UNCHANGED <<streams, accumulated, notifications, socketVars>>
      /\ serving' = serving
  BY DEF EnqueuePrompt, mapVars
<1>2. MailsOK /\ QueueOK /\ "queued" \in MailSteps /\ mail[m].session # NoOne
      /\ "queued" \notin Early \cup {"map"}
  BY <1>1 DEF ChannelIInv, MailsOK, Early, MailSteps
<1>3. /\ MailsOK' /\ Grows /\ mail'[m].pc = "queued"
      /\ \A n \in Messages \ {m} : mail'[n] = mail[n]
  BY <1>1, <1>2, MessageStep
<1>4. request \in Calls /\ request.kind = "prompt" /\ request.by = m
  BY DEF Calls
<1>5. Waited(mail', request) /\ ~Waited(mail, request)
  BY <1>1, <1>3, <1>4 DEF Waited
<1> HIDE DEF request
<1>6. QueueOK'
  BY <1>1, <1>2, <1>3, <1>4, <1>5, QueueGrows
<1> QED
  BY <1>1, <1>3, <1>6, OnlyMails

(***************************************************************************)
(* A broadcast reaches inboxes only, and an inbox holds what it held and   *)
(* the broadcast.                                                          *)
(***************************************************************************)
LEMMA Broadcasts ==
  ASSUME ChannelAssumption, MailsOK, SocketsOK, Grows, NEW update \in Updates, Broadcast(update),
         Told(mail', update)
  PROVE  SocketsOK' /\ \A s \in Sockets : socket'[s].stream = socket[s].stream
<1> DEFINE longer(s) == Append(socket[s].inbox, update)
           inbox(s) == IF Len(longer(s)) > Buffer THEN Tail(longer(s)) ELSE longer(s)
<1>1. socket' = [s \in Sockets |-> [socket[s] EXCEPT !.inbox = inbox(s)]]
  BY DEF Broadcast
<1>2. ASSUME NEW s \in Sockets
      PROVE  /\ inbox(s) \in Seq(Updates)
             /\ \A i \in DOMAIN inbox(s) : Told(mail', inbox(s)[i])
  <2>1. socket[s].inbox \in Seq(Updates) /\ \A i \in DOMAIN socket[s].inbox :
          socket[s].inbox[i] \in Updates /\ Told(mail, socket[s].inbox[i])
    BY ElementOfSeq DEF SocketsOK, SocketStates
  <2>2. /\ longer(s) \in Seq(Updates) /\ Len(longer(s)) = Len(socket[s].inbox) + 1
        /\ longer(s) # <<>>
        /\ \A i \in 1..Len(socket[s].inbox) : longer(s)[i] = socket[s].inbox[i]
        /\ longer(s)[Len(socket[s].inbox) + 1] = update
        /\ Len(socket[s].inbox) \in Nat /\ DOMAIN socket[s].inbox = 1..Len(socket[s].inbox)
        /\ DOMAIN longer(s) = 1..(Len(socket[s].inbox) + 1)
    BY <2>1, AppendProperties, LenProperties
  <2>3. \A i \in DOMAIN longer(s) : Told(mail', longer(s)[i])
    BY <2>1, <2>2, TellsOn
  <2> HIDE DEF longer
  <2>4. /\ Tail(longer(s)) \in Seq(Updates) /\ Len(Tail(longer(s))) = Len(longer(s)) - 1
        /\ \A i \in 1..Len(Tail(longer(s))) : Tail(longer(s))[i] = longer(s)[i + 1]
        /\ DOMAIN Tail(longer(s)) = 1..Len(Tail(longer(s)))
    BY <2>2, HeadTailProperties, LenProperties
  <2>5. \A i \in DOMAIN Tail(longer(s)) : Told(mail', Tail(longer(s))[i])
    BY <2>2, <2>3, <2>4
  <2> QED
    BY <2>2, <2>3, <2>4, <2>5
<1> HIDE DEF inbox
<1>3. ASSUME NEW s \in Sockets
      PROVE  [socket[s] EXCEPT !.inbox = inbox(s)] =
               [inbox |-> inbox(s), update |-> socket[s].update, stream |-> socket[s].stream,
                cancel |-> socket[s].cancel, waits |-> socket[s].waits]
  <2>1. socket[s] \in SocketStates
    BY DEF SocketsOK
  <2> QED
    BY <2>1 DEF SocketStates
<1>4. \A s \in Sockets : socket[s] \in SocketStates
  BY DEF SocketsOK
<1>5. ASSUME NEW s \in Sockets
      PROVE  /\ socket'[s] \in SocketStates /\ socket'[s].inbox = inbox(s)
             /\ socket'[s].update = socket[s].update /\ socket'[s].stream = socket[s].stream
  <2>1. socket'[s] = [inbox |-> inbox(s), update |-> socket[s].update, stream |-> socket[s].stream,
                      cancel |-> socket[s].cancel, waits |-> socket[s].waits]
    BY <1>1, <1>3
  <2> QED
    BY <1>2, <1>4, <2>1 DEF SocketStates
<1>6. socket' \in [Sockets -> SocketStates]
  BY <1>1, <1>5
<1>7. ASSUME NEW s \in Sockets, socket[s].stream # NoOne
      PROVE  /\ socket[s].update \in Updates /\ Told(mail', socket[s].update)
             /\ mail'[socket[s].stream].session = socket[s].update.session
             /\ ~Unmapped(mail', socket[s].stream)
  <2>1. socket[s].stream \in Messages
    BY <1>4, <1>7 DEF SocketStates
  <2>2. socket[s].update.session # NoOne
    BY <1>7, Names DEF SocketsOK, Updates
  <2> QED
    BY <1>7, <2>1, <2>2, TellsOn DEF SocketsOK, Grows, Unmapped
<1>8. SocketsOK'
  BY <1>2, <1>5, <1>6, <1>7 DEF SocketsOK
<1> QED
  BY <1>5, <1>8

(***************************************************************************)
(* SendDone keeps the invariant: Done is broadcast when the turn has       *)
(* ended.                                                                  *)
(***************************************************************************)
LEMMA DoneKeeps ==
  ASSUME ChannelAssumption, ChannelIInv, NEW m \in Messages, SendDone(m)
  PROVE  ChannelIInv'
<1> DEFINE update == [session |-> mail[m].session, chunk |-> NoOne]
<1>1. /\ mail[m].pc = "ended" /\ conversations' = conversations /\ Step(m, "done")
      /\ Broadcast(update)
      /\ streams' = streams /\ accumulated' = accumulated /\ notifications' = notifications
      /\ completed' = completed /\ requests' = requests /\ serving' = serving
  BY DEF SendDone, mapVars, connVars
<1>2. MailsOK /\ StreamsOK /\ QueueOK /\ TextsOK /\ NotesOK /\ SocketsOK /\ CompletedOK
      /\ "done" \in MailSteps /\ mail[m].session # NoOne
      /\ mail[m].session \in AcpSessions /\ "done" \notin Early \cup {"map"}
  BY <1>1 DEF ChannelIInv, MailsOK, Early, MailSteps
<1>3. /\ MailsOK' /\ Grows /\ mail'[m].pc = "done" /\ mail'[m].session = mail[m].session
      /\ \A n \in Messages \ {m} : mail'[n] = mail[n]
  BY <1>1, <1>2, MessageStep
<1>4. QueueOK'
  BY <1>1, <1>2, <1>3, QueueStays
<1>5. update \in Updates /\ Told(mail', update)
  BY <1>2, <1>3 DEF Updates, Told, Ended
<1> HIDE DEF update
<1>6. SocketsOK' /\ \A s \in Sockets : socket'[s].stream = socket[s].stream
  BY <1>1, <1>2, <1>3, <1>5, Broadcasts
<1>7. CompletedOK'
  BY <1>1, <1>2, <1>3, <1>6, CompletedStays
<1> QED
  BY <1>1, <1>2, <1>3, <1>4, <1>6, <1>7, StreamsStay, TextsStay, NotesStay DEF ChannelIInv

(***************************************************************************)
(* ServeRequest keeps the invariant: what is served has left the queue.    *)
(***************************************************************************)
LEMMA ServeKeeps ==
  ASSUME ChannelAssumption, ChannelIInv, ServeRequest
  PROVE  ChannelIInv'
<1>1. /\ serving = NoOne /\ requests # <<>> /\ serving' = Head(requests)
      /\ requests' = Tail(requests) /\ mail' = mail /\ conversations' = conversations
      /\ UNCHANGED <<streams, accumulated, notifications, socketVars>>
  BY DEF ServeRequest, mapVars
<1>2. MailsOK /\ QueueOK
  BY DEF ChannelIInv
<1>3. MailsOK' /\ Grows
  BY <1>1, <1>2, NothingMails DEF MailsOK
<1>4. /\ requests \in Seq(Calls) /\ DOMAIN requests = 1..Len(requests) /\ Len(requests) \in Nat
      /\ Len(requests) >= 1
      /\ serving' = requests[1] /\ requests' \in Seq(Calls) /\ Len(requests') = Len(requests) - 1
      /\ DOMAIN requests' = 1..(Len(requests) - 1)
      /\ \A i \in DOMAIN requests' : requests'[i] = requests[i + 1]
  BY <1>1, <1>2, HeadTailProperties, LenProperties, EmptySeq DEF QueueOK
<1>5. QueueOK'
  <2>1. \A i \in DOMAIN requests' : i + 1 \in DOMAIN requests /\ i + 1 # 1
    BY <1>4
  <2>2. \A i \in DOMAIN requests' : Waited(mail', requests'[i])
    BY <1>1, <1>2, <1>4, <2>1 DEF QueueOK
  <2>3. 1 \in DOMAIN requests
    BY <1>4
  <2>4. ASSUME NEW i \in DOMAIN requests', NEW j \in DOMAIN requests',
               requests'[i] = requests'[j], requests'[i].kind # "cancel"
        PROVE  i = j
    <3>1. i + 1 = j + 1
      BY <1>2, <1>4, <2>1, <2>4 DEF QueueOK
    <3> QED
      BY <1>4, <3>1
  <2>5. ASSUME requests[1].kind # "cancel", NEW i \in DOMAIN requests'
        PROVE  requests'[i] # requests[1]
    BY <1>2, <1>4, <2>1, <2>3, <2>5 DEF QueueOK
  <2>6. requests[1] \in Calls /\ Waited(mail', requests[1])
    BY <1>1, <1>2, <2>3, ElementOfSeq DEF QueueOK
  <2> QED
    BY <1>4, <2>2, <2>4, <2>5, <2>6 DEF QueueOK
<1> QED
  BY <1>1, <1>3, <1>5, OnlyMails

(***************************************************************************)
(* AnswerCreate keeps the invariant: the new session is of the             *)
(* conversation of the message that asked for it.                          *)
(***************************************************************************)
LEMMA AnswerKeeps ==
  ASSUME ChannelAssumption, ChannelIInv, AnswerCreate
  PROVE  ChannelIInv'
<1> DEFINE m == serving.by
<1>1. /\ serving # NoOne /\ serving.kind = "create"
      /\ \/ /\ conversations' = [conversations EXCEPT ![mail[m].conversation] = m]
            /\ SetMail(m, [mail[m] EXCEPT !.pc = "map", !.session = m])
         \/ Step(m, "failed") /\ conversations' = conversations
      /\ UNCHANGED <<streams, accumulated, notifications, socketVars>>
      /\ serving' = NoOne /\ requests' = requests
  BY DEF AnswerCreate
<1>2. MailsOK /\ QueueOK /\ m \in Messages /\ mail[m].pc = "creating"
  BY <1>1 DEF ChannelIInv, QueueOK, Waited
<1> HIDE DEF m
<1>3. /\ mail \in [Messages -> MailStates] /\ mail[m] \in MailStates /\ mail[m].session = NoOne
      /\ mail[m].conversation \in Conversations
      /\ {"map", "failed"} \subseteq MailSteps /\ "map" \notin Early /\ "creating" \in Early
      /\ "failed" \notin Early \cup {"map"} /\ m \in AcpSessions /\ m # NoOne
  BY <1>2, Names DEF MailsOK, Early, MailSteps, MailStates
<1>4. MailsOK' /\ Grows /\ \A n \in Messages \ {m} : mail'[n] = mail[n]
  <2>1. CASE Step(m, "failed") /\ conversations' = conversations
    BY <1>2, <1>3, <2>1, MessageStep
  <2>2. CASE /\ conversations' = [conversations EXCEPT ![mail[m].conversation] = m]
             /\ SetMail(m, [mail[m] EXCEPT !.pc = "map", !.session = m])
    <3>1. mail' = [mail EXCEPT ![m] = [pc |-> "map", conversation |-> mail[m].conversation,
                                       session |-> m]]
      <4>1. [mail[m] EXCEPT !.pc = "map", !.session = m]
              = [pc |-> "map", conversation |-> mail[m].conversation, session |-> m]
        BY <1>3, TwoFields
      <4> QED
        BY <2>2, <4>1 DEF SetMail
    <3>2. /\ conversations \in [Conversations -> AcpSessions \cup {NoOne}]
          /\ \A c \in Conversations : conversations[c] # NoOne =>
               mail[conversations[c]].conversation = c
      BY <1>2 DEF MailsOK
    <3>3. /\ conversations' \in [Conversations -> AcpSessions \cup {NoOne}]
          /\ \A c \in Conversations : conversations'[c] # NoOne =>
               mail[conversations'[c]].conversation = c
      BY <1>3, <2>2, <3>2
    <3>4. MailsOK' /\ Grows
      BY <1>2, <1>3, <3>1, <3>3, Moves
    <3> QED
      BY <1>3, <3>1, <3>4
  <2> QED
    BY <1>1, <2>1, <2>2
<1>5. QueueOK'
  BY <1>1, <1>2, <1>4, QueueAnswered DEF m
<1> QED
  BY <1>1, <1>4, <1>5, OnlyMails

(***************************************************************************)
(* AgentUpdates keeps the invariant: the agent speaks in a session that it *)
(* has.                                                                    *)
(***************************************************************************)
LEMMA UpdateKeeps ==
  ASSUME ChannelAssumption, ChannelIInv, AgentUpdates
  PROVE  ChannelIInv'
<1>1. /\ serving # NoOne /\ serving.kind = "prompt"
      /\ notifications' = Append(notifications, serving.by)
      /\ mail' = mail /\ conversations' = conversations /\ streams' = streams
      /\ accumulated' = accumulated /\ requests' = requests /\ serving' = serving
      /\ socket' = socket /\ completed' = completed
  BY DEF AgentUpdates, mapVars, socketVars
<1>2. MailsOK /\ QueueOK /\ NotesOK /\ StreamsOK /\ TextsOK /\ SocketsOK /\ CompletedOK
  BY DEF ChannelIInv
<1>3. serving.by \in Messages /\ mail[serving.by].session # NoOne
  BY <1>1, <1>2 DEF QueueOK, Waited, MailsOK, MailSteps, Early
<1>4. NotesOK'
  <2>1. /\ notifications' \in Seq(Messages) /\ Len(notifications') = Len(notifications) + 1
        /\ Len(notifications) \in Nat
        /\ DOMAIN notifications = 1..Len(notifications)
        /\ DOMAIN notifications' = 1..(Len(notifications) + 1)
        /\ \A i \in 1..Len(notifications) : notifications'[i] = notifications[i]
        /\ notifications'[Len(notifications) + 1] = serving.by
    BY <1>1, <1>2, <1>3, AppendProperties, LenProperties DEF NotesOK
  <2> QED
    BY <1>1, <1>2, <1>3, <2>1 DEF NotesOK
<1> QED
  BY <1>1, <1>2, <1>4 DEF ChannelIInv, MailsOK, QueueOK, StreamsOK, TextsOK, SocketsOK, CompletedOK

(***************************************************************************)
(* EndTurn keeps the invariant: the message of the prompt that was served  *)
(* stops waiting.                                                          *)
(***************************************************************************)
LEMMA EndKeeps ==
  ASSUME ChannelAssumption, ChannelIInv, EndTurn
  PROVE  ChannelIInv'
<1> DEFINE m == serving.by
<1>1. /\ serving # NoOne /\ serving.kind = "prompt" /\ Step(m, "ended")
      /\ conversations' = conversations
      /\ UNCHANGED <<streams, accumulated, notifications, socketVars>>
      /\ serving' = NoOne /\ requests' = requests
  BY DEF EndTurn, mapVars
<1>2. MailsOK /\ QueueOK /\ m \in Messages /\ mail[m].pc = "queued"
  BY <1>1 DEF ChannelIInv, QueueOK, Waited
<1> HIDE DEF m
<1>3. mail[m].session # NoOne /\ "ended" \in MailSteps /\ "ended" \notin Early \cup {"map"}
  BY <1>2 DEF MailsOK, Early, MailSteps
<1>4. MailsOK' /\ Grows /\ \A n \in Messages \ {m} : mail'[n] = mail[n]
  BY <1>1, <1>2, <1>3, MessageStep
<1>5. QueueOK'
  BY <1>1, <1>2, <1>4, QueueAnswered DEF m
<1> QED
  BY <1>1, <1>4, <1>5, OnlyMails

(***************************************************************************)
(* A socket that asks for a cancel, or stops waiting for it, keeps its     *)
(* updates.                                                                *)
(***************************************************************************)
LEMMA WaitEnds ==
  ASSUME SocketsOK, NEW s, NEW cancel \in AcpSessions \cup {NoOne}, NEW waits \in BOOLEAN,
         socket' = [socket EXCEPT ![s].cancel = cancel, ![s].waits = waits]
  PROVE  /\ socket' \in [Sockets -> SocketStates]
         /\ \A t \in Sockets : /\ socket'[t].inbox = socket[t].inbox
                               /\ socket'[t].update = socket[t].update
                               /\ socket'[t].stream = socket[t].stream
<1>1. socket \in [Sockets -> SocketStates]
  BY DEF SocketsOK
<1>2. CASE s \in Sockets
  <2> DEFINE first == [socket EXCEPT ![s].cancel = cancel]
             old == socket[s]
  <2>1. old \in SocketStates
    BY <1>1, <1>2
  <2>2. /\ old.inbox \in Seq(Updates) /\ old.update \in Updates \cup {NoUpdate}
        /\ old.stream \in Messages \cup {NoOne} /\ old.waits \in BOOLEAN
    BY <2>1 DEF SocketStates
  <2>3. first = [socket EXCEPT ![s] = [inbox |-> old.inbox, update |-> old.update,
                   stream |-> old.stream, cancel |-> cancel, waits |-> old.waits]]
    <3>1. [old EXCEPT !.cancel = cancel] = [inbox |-> old.inbox, update |-> old.update,
                   stream |-> old.stream, cancel |-> cancel, waits |-> old.waits]
      BY <2>1 DEF SocketStates
    <3>2. first = [socket EXCEPT ![s] = [old EXCEPT !.cancel = cancel]]
      BY <1>1, <1>2
    <3> QED
      BY <3>1, <3>2
  <2>4. socket' = [first EXCEPT ![s].waits = waits]
    OBVIOUS
  <2>5. first[s] = [inbox |-> old.inbox, update |-> old.update,
                    stream |-> old.stream, cancel |-> cancel, waits |-> old.waits]
        /\ DOMAIN first = Sockets
    BY <1>1, <1>2, <2>3
  <2> HIDE DEF first
  <2>6. [first[s] EXCEPT !.waits = waits] = [inbox |-> old.inbox, update |-> old.update,
                   stream |-> old.stream, cancel |-> cancel, waits |-> waits]
    BY <2>5
  <2>7. socket' = [socket EXCEPT ![s] = [inbox |-> old.inbox, update |-> old.update,
                   stream |-> old.stream, cancel |-> cancel, waits |-> waits]]
    BY <1>1, <1>2, <2>3, <2>4, <2>5, <2>6
  <2> DEFINE new == [inbox |-> old.inbox, update |-> old.update, stream |-> old.stream,
                     cancel |-> cancel, waits |-> waits]
  <2>8. /\ new \in SocketStates /\ new.inbox = old.inbox /\ new.update = old.update
        /\ new.stream = old.stream
    BY <2>2 DEF SocketStates
  <2> HIDE DEF old, new
  <2>9. socket' = [socket EXCEPT ![s] = new]
    BY <2>7 DEF new
  <2>10. old = socket[s]
    BY DEF old
  <2> QED
    BY <1>1, <1>2, <2>8, <2>9, <2>10
<1>3. CASE s \notin Sockets
  BY <1>1, <1>3
<1> QED
  BY <1>2, <1>3

(***************************************************************************)
(* AnswerCancel keeps the invariant.                                       *)
(***************************************************************************)
LEMMA CancelAnswerKeeps ==
  ASSUME ChannelAssumption, ChannelIInv, AnswerCancel
  PROVE  ChannelIInv'
<1> DEFINE s == serving.by
<1>1. /\ serving # NoOne /\ serving.kind = "cancel" /\ serving' = NoOne /\ requests' = requests
      /\ socket' = [socket EXCEPT ![s].cancel = NoOne, ![s].waits = FALSE]
      /\ mail' = mail /\ conversations' = conversations /\ streams' = streams
      /\ accumulated' = accumulated /\ notifications' = notifications /\ completed' = completed
  BY DEF AnswerCancel, mapVars
<1> HIDE DEF s
<1>2. MailsOK /\ QueueOK /\ NotesOK /\ StreamsOK /\ TextsOK /\ SocketsOK /\ CompletedOK
  BY DEF ChannelIInv
<1>3. QueueOK'
  BY <1>1, <1>2 DEF QueueOK
<1>4. /\ socket' \in [Sockets -> SocketStates]
      /\ \A t \in Sockets : /\ socket'[t].inbox = socket[t].inbox
                            /\ socket'[t].update = socket[t].update
                            /\ socket'[t].stream = socket[t].stream
  BY <1>1, <1>2, WaitEnds
<1>5. MailsOK' /\ Grows
  BY <1>1, <1>2, NothingMails DEF MailsOK
<1>6. SocketsOK'
  BY <1>2, <1>4, <1>5, SocketsStay
<1>7. CompletedOK'
  BY <1>1, <1>2, <1>4, <1>5, CompletedStays
<1> QED
  BY <1>1, <1>2, <1>3, <1>5, <1>6, <1>7, StreamsStay, TextsStay, NotesStay DEF ChannelIInv

(***************************************************************************)
(* ForwardUpdate keeps the invariant: a notification is broadcast with its *)
(* session.                                                                *)
(***************************************************************************)
LEMMA ForwardKeeps ==
  ASSUME ChannelAssumption, ChannelIInv, ForwardUpdate
  PROVE  ChannelIInv'
<1> DEFINE m == Head(notifications)
           update == [session |-> mail[m].session, chunk |-> m]
<1>1. /\ notifications # <<>> /\ notifications' = Tail(notifications) /\ Broadcast(update)
      /\ mail' = mail /\ conversations' = conversations /\ streams' = streams
      /\ accumulated' = accumulated /\ requests' = requests /\ serving' = serving
      /\ completed' = completed
  BY DEF ForwardUpdate, mapVars
<1>2. MailsOK /\ QueueOK /\ NotesOK /\ StreamsOK /\ TextsOK /\ SocketsOK /\ CompletedOK
  BY DEF ChannelIInv
<1>3. /\ Len(notifications) \in Nat /\ Len(notifications) >= 1
      /\ DOMAIN notifications = 1..Len(notifications) /\ m = notifications[1]
      /\ notifications' \in Seq(Messages) /\ DOMAIN notifications' = 1..(Len(notifications) - 1)
      /\ \A i \in DOMAIN notifications' : notifications'[i] = notifications[i + 1]
  BY <1>1, <1>2, HeadTailProperties, LenProperties, EmptySeq DEF NotesOK
<1>4. 1 \in DOMAIN notifications /\ \A i \in DOMAIN notifications' : i + 1 \in DOMAIN notifications
  BY <1>3
<1>5. m \in Messages /\ mail[m].session # NoOne /\ mail[m].session \in AcpSessions /\ m # NoOne
  <2>1. notifications[1] \in Messages /\ mail[notifications[1]].session # NoOne
    BY <1>2, <1>3, <1>4, ElementOfSeq DEF NotesOK
  <2>2. mail[notifications[1]].session \in AcpSessions \cup {NoOne}
    BY <1>2, <2>1 DEF MailsOK
  <2> QED
    BY <1>3, <2>1, <2>2, Names
<1>6. NotesOK'
  BY <1>1, <1>2, <1>3, <1>4 DEF NotesOK
<1>7. MailsOK' /\ Grows
  BY <1>1, <1>2, NothingMails DEF MailsOK
<1>8. update \in Updates /\ Told(mail', update)
  BY <1>1, <1>5 DEF Updates, Told
<1> HIDE DEF update
<1>9. SocketsOK' /\ \A s \in Sockets : socket'[s].stream = socket[s].stream
  BY <1>1, <1>2, <1>7, <1>8, Broadcasts
<1>10. CompletedOK'
  BY <1>1, <1>2, <1>7, <1>9, CompletedStays
<1>11. QueueOK'
  BY <1>1, <1>2 DEF QueueOK
<1> QED
  BY <1>1, <1>2, <1>6, <1>7, <1>9, <1>10, <1>11, StreamsStay, TextsStay DEF ChannelIInv

\* A socket with another inbox.
WithInbox(f, s, v) == [f EXCEPT ![s].inbox = v]

(***************************************************************************)
(* That changes nothing else.                                              *)
(***************************************************************************)
LEMMA InboxOf ==
  ASSUME NEW f \in [Sockets -> SocketStates], NEW s \in Sockets, NEW v \in Seq(Updates)
  PROVE  /\ WithInbox(f, s, v) \in [Sockets -> SocketStates]
         /\ \A t \in Sockets \ {s} : WithInbox(f, s, v)[t] = f[t]
         /\ WithInbox(f, s, v)[s].inbox = v
         /\ WithInbox(f, s, v)[s].update = f[s].update
         /\ WithInbox(f, s, v)[s].stream = f[s].stream
BY DEF SocketStates, WithInbox

\* A socket with another update to handle.
WithUpdate(f, s, v) == [f EXCEPT ![s].update = v]

(***************************************************************************)
(* That changes nothing else.                                              *)
(***************************************************************************)
LEMMA UpdateOf ==
  ASSUME NEW f \in [Sockets -> SocketStates], NEW s \in Sockets, NEW v \in Updates \cup {NoUpdate}
  PROVE  /\ WithUpdate(f, s, v) \in [Sockets -> SocketStates]
         /\ \A t \in Sockets \ {s} : WithUpdate(f, s, v)[t] = f[t]
         /\ WithUpdate(f, s, v)[s].inbox = f[s].inbox
         /\ WithUpdate(f, s, v)[s].update = v
         /\ WithUpdate(f, s, v)[s].stream = f[s].stream
BY DEF SocketStates, WithUpdate

\* A socket that has looked up another message.
WithStream(f, s, v) == [f EXCEPT ![s].stream = v]

(***************************************************************************)
(* That changes nothing else.                                              *)
(***************************************************************************)
LEMMA StreamOf ==
  ASSUME NEW f \in [Sockets -> SocketStates], NEW s \in Sockets, NEW v \in Messages \cup {NoOne}
  PROVE  /\ WithStream(f, s, v) \in [Sockets -> SocketStates]
         /\ \A t \in Sockets \ {s} : WithStream(f, s, v)[t] = f[t]
         /\ WithStream(f, s, v)[s].inbox = f[s].inbox
         /\ WithStream(f, s, v)[s].update = f[s].update
         /\ WithStream(f, s, v)[s].stream = v
BY DEF SocketStates, WithStream

\* A socket with another session to cancel.
WithCancel(f, s, v) == [f EXCEPT ![s].cancel = v]

(***************************************************************************)
(* That changes nothing else.                                              *)
(***************************************************************************)
LEMMA CancelOf ==
  ASSUME NEW f \in [Sockets -> SocketStates], NEW s \in Sockets, NEW v \in AcpSessions \cup {NoOne}
  PROVE  /\ WithCancel(f, s, v) \in [Sockets -> SocketStates]
         /\ \A t \in Sockets \ {s} : WithCancel(f, s, v)[t] = f[t]
         /\ WithCancel(f, s, v)[s].inbox = f[s].inbox
         /\ WithCancel(f, s, v)[s].update = f[s].update
         /\ WithCancel(f, s, v)[s].stream = f[s].stream
BY DEF SocketStates, WithCancel

(***************************************************************************)
(* One socket goes on, and what it looks up is of the session of its       *)
(* update.                                                                 *)
(***************************************************************************)
LEMMA SocketsMove ==
  ASSUME ChannelAssumption, MailsOK, SocketsOK, mail' = mail, NEW s \in Sockets,
         socket' \in [Sockets -> SocketStates],
         \A t \in Sockets \ {s} : socket'[t] = socket[t],
         \A i \in DOMAIN socket'[s].inbox : Told(mail, socket'[s].inbox[i]),
         socket'[s].stream # NoOne =>
           /\ socket'[s].update \in Updates /\ Told(mail, socket'[s].update)
           /\ mail[socket'[s].stream].session = socket'[s].update.session
           /\ ~Unmapped(mail, socket'[s].stream)
  PROVE  SocketsOK'
<1>1. ASSUME NEW t \in Sockets
      PROVE  /\ \A i \in DOMAIN socket'[t].inbox : Told(mail, socket'[t].inbox[i])
             /\ socket'[t].stream # NoOne =>
                  /\ socket'[t].update \in Updates /\ Told(mail, socket'[t].update)
                  /\ mail[socket'[t].stream].session = socket'[t].update.session
                  /\ ~Unmapped(mail, socket'[t].stream)
  <2>1. CASE t = s
    BY <2>1
  <2>2. CASE t # s
    BY <2>2 DEF SocketsOK
  <2> QED
    BY <2>1, <2>2
<1> QED
  BY <1>1 DEF SocketsOK

(***************************************************************************)
(* LookUpStream keeps the invariant: what the stream leads to is of the    *)
(* session of the update.                                                  *)
(***************************************************************************)
LEMMA LookUpKeeps ==
  ASSUME ChannelAssumption, ChannelIInv, NEW s \in Sockets, LookUpStream(s)
  PROVE  ChannelIInv'
<1> DEFINE first == Head(socket[s].inbox)
           m == streams[first.session]
           rest == Tail(socket[s].inbox)
           update == IF m # NoOne THEN first ELSE NoUpdate
           f1 == WithInbox(socket, s, rest)
           f2 == WithStream(f1, s, m)
<1>1. /\ socket[s].inbox # <<>> /\ socket' = WithUpdate(f2, s, update)
      /\ mail' = mail /\ conversations' = conversations /\ streams' = streams
      /\ accumulated' = accumulated /\ notifications' = notifications /\ completed' = completed
      /\ requests' = requests /\ serving' = serving
  BY DEF LookUpStream, mapVars, connVars, WithInbox, WithStream, WithUpdate
<1>2. MailsOK /\ QueueOK /\ NotesOK /\ StreamsOK /\ TextsOK /\ SocketsOK /\ CompletedOK
      /\ socket \in [Sockets -> SocketStates]
  BY DEF ChannelIInv, SocketsOK
<1>3. socket[s].inbox \in Seq(Updates)
  BY <1>2 DEF SocketStates
<1>4. /\ Len(socket[s].inbox) \in Nat /\ Len(socket[s].inbox) >= 1
      /\ DOMAIN socket[s].inbox = 1..Len(socket[s].inbox)
      /\ first = socket[s].inbox[1] /\ first \in Updates
      /\ rest \in Seq(Updates) /\ DOMAIN rest = 1..(Len(socket[s].inbox) - 1)
      /\ \A i \in DOMAIN rest : rest[i] = socket[s].inbox[i + 1]
  BY <1>1, <1>3, HeadTailProperties, LenProperties, EmptySeq
<1>5. /\ 1 \in DOMAIN socket[s].inbox
      /\ \A i \in DOMAIN rest : i + 1 \in DOMAIN socket[s].inbox
  BY <1>4
<1>6. Told(mail, first) /\ \A i \in DOMAIN rest : Told(mail, rest[i])
  BY <1>2, <1>4, <1>5 DEF SocketsOK
<1> HIDE DEF first, rest
<1>7. first.session \in AcpSessions /\ first \in Updates
  BY <1>4 DEF Updates
<1>8. m \in Messages \cup {NoOne} /\ (m # NoOne => mail[m].session = first.session
                                                   /\ ~Unmapped(mail, m))
  BY <1>2, <1>7 DEF StreamsOK
<1> HIDE DEF m
<1>9. update \in Updates \cup {NoUpdate} /\ (m # NoOne => update = first)
  BY <1>7
<1> HIDE DEF update, f1, f2
<1>10. /\ f1 \in [Sockets -> SocketStates] /\ \A t \in Sockets \ {s} : f1[t] = socket[t]
       /\ f1[s].inbox = rest
  BY <1>2, <1>4, InboxOf DEF f1
<1>11. /\ f2 \in [Sockets -> SocketStates] /\ \A t \in Sockets \ {s} : f2[t] = f1[t]
       /\ f2[s].inbox = f1[s].inbox /\ f2[s].stream = m
  BY <1>8, <1>10, StreamOf DEF f2
<1>12. /\ socket' \in [Sockets -> SocketStates] /\ \A t \in Sockets \ {s} : socket'[t] = f2[t]
       /\ socket'[s].inbox = f2[s].inbox /\ socket'[s].stream = f2[s].stream
       /\ socket'[s].update = update
  BY <1>1, <1>9, <1>11, UpdateOf
<1>13. SocketsOK'
  BY <1>1, <1>2, <1>6, <1>7, <1>8, <1>9, <1>10, <1>11, <1>12, SocketsMove
<1>14. CompletedOK'
  <2>1. ASSUME NEW t \in Sockets, NEW n \in Messages, completed[t][n] # 0
        PROVE  socket'[t].stream # n
    <3>1. socket[t].stream # n /\ \A a \in AcpSessions : streams[a] # n
      BY <1>2, <2>1 DEF CompletedOK
    <3>2. CASE t = s
      BY <1>7, <1>11, <1>12, <3>1, <3>2 DEF m
    <3>3. CASE t # s
      BY <1>10, <1>11, <1>12, <3>1, <3>3
    <3> QED
      BY <3>2, <3>3
  <2> QED
    BY <1>1, <1>2, <2>1 DEF CompletedOK
<1> QED
  BY <1>1, <1>2, <1>13, <1>14 DEF ChannelIInv, MailsOK, QueueOK, StreamsOK, TextsOK, NotesOK

(***************************************************************************)
(* A socket that has handled its update has looked up nothing.             *)
(***************************************************************************)
LEMMA Handled ==
  ASSUME ChannelAssumption, MailsOK, SocketsOK, mail' = mail, NEW s \in Sockets,
         socket' = [socket EXCEPT ![s].update = NoUpdate, ![s].stream = NoOne]
  PROVE  /\ SocketsOK' /\ socket'[s].stream = NoOne
         /\ \A t \in Sockets \ {s} : socket'[t] = socket[t]
<1> DEFINE f1 == WithUpdate(socket, s, NoUpdate)
<1>1. socket \in [Sockets -> SocketStates] /\ socket' = WithStream(f1, s, NoOne)
  BY DEF SocketsOK, WithUpdate, WithStream
<1> HIDE DEF f1
<1>2. /\ f1 \in [Sockets -> SocketStates] /\ \A t \in Sockets \ {s} : f1[t] = socket[t]
      /\ f1[s].inbox = socket[s].inbox
  BY <1>1, UpdateOf DEF f1
<1>3. /\ socket' \in [Sockets -> SocketStates] /\ \A t \in Sockets \ {s} : socket'[t] = f1[t]
      /\ socket'[s].inbox = f1[s].inbox /\ socket'[s].stream = NoOne
  <2>1. NoOne \in Messages \cup {NoOne} /\ f1 \in [Sockets -> SocketStates]
    BY <1>2
  <2> DEFINE f2 == WithStream(f1, s, NoOne)
  <2>2. /\ f2 \in [Sockets -> SocketStates]
        /\ \A t \in Sockets \ {s} : f2[t] = f1[t]
        /\ f2[s].inbox = f1[s].inbox /\ f2[s].stream = NoOne
    BY <2>1, StreamOf
  <2>3. socket' = f2
    BY <1>1
  <2> HIDE DEF f2
  <2>4. socket' \in [Sockets -> SocketStates]
    <3> DEFINE All == [Sockets -> SocketStates]
    <3>1. f2 \in All
      BY <2>2
    <3> HIDE DEF All
    <3>2. socket' \in All
      BY <2>3, <3>1
    <3> QED
      BY <3>2 DEF All
  <2>5. \A t \in Sockets \ {s} : socket'[t] = f1[t]
    BY <2>2, <2>3
  <2>6. socket'[s].inbox = f1[s].inbox /\ socket'[s].stream = NoOne
    BY <2>2, <2>3
  <2> QED
    BY <2>4, <2>5, <2>6
<1>4. \A i \in DOMAIN socket[s].inbox : Told(mail, socket[s].inbox[i])
  BY DEF SocketsOK
<1>5. SocketsOK'
  BY <1>2, <1>3, <1>4, SocketsMove
<1> QED
  BY <1>2, <1>3, <1>5

(***************************************************************************)
(* TranslateChunk keeps the invariant: the chunk joins the text of a       *)
(* message of its session, even if the stream leads elsewhere by now.      *)
(***************************************************************************)
LEMMA ChunkKeeps ==
  ASSUME ChannelAssumption, ChannelIInv, NEW s \in Sockets, TranslateChunk(s)
  PROVE  ChannelIInv'
<1> DEFINE m == socket[s].stream
           n == socket[s].update.chunk
<1>1. /\ m # NoOne /\ n # NoOne
      /\ accumulated' = [accumulated EXCEPT ![m] = Append(@, n)]
      /\ socket' = [socket EXCEPT ![s].update = NoUpdate, ![s].stream = NoOne]
      /\ mail' = mail /\ conversations' = conversations /\ streams' = streams
      /\ notifications' = notifications /\ completed' = completed
      /\ requests' = requests /\ serving' = serving
  BY DEF TranslateChunk, connVars
<1>2. MailsOK /\ QueueOK /\ NotesOK /\ StreamsOK /\ TextsOK /\ SocketsOK /\ CompletedOK
      /\ socket[s] \in SocketStates
  BY DEF ChannelIInv, SocketsOK
<1>3. /\ m \in Messages /\ socket[s].update \in Updates /\ Told(mail, socket[s].update)
      /\ mail[m].session = socket[s].update.session
  BY <1>1, <1>2 DEF SocketsOK, SocketStates
<1>4. n \in Messages /\ mail[n].session = mail[m].session /\ mail[m].session # NoOne
  BY <1>1, <1>3, Names DEF Updates, Told
<1> HIDE DEF m, n
<1>5. SocketsOK' /\ socket'[s].stream = NoOne /\ \A t \in Sockets \ {s} : socket'[t] = socket[t]
  BY <1>1, <1>2, Handled
<1>6. CompletedOK'
  <2>1. MailsOK /\ Grows
    BY <1>1, <1>2, NothingMails
  <2>2. \A t \in Sockets : socket'[t].stream \in {socket[t].stream, NoOne}
    BY <1>5
  <2> QED
    BY <1>1, <1>2, <2>1, <2>2, CompletedStays
<1>7. TextsOK'
  <2> DEFINE text == Append(accumulated[m], n)
  <2>1. accumulated \in [Messages -> Seq(Messages)] /\ accumulated[m] \in Seq(Messages)
    BY <1>2, <1>3 DEF TextsOK
  <2>2. /\ text \in Seq(Messages)
        /\ DOMAIN accumulated[m] = 1..Len(accumulated[m]) /\ Len(accumulated[m]) \in Nat
        /\ DOMAIN text = 1..(Len(accumulated[m]) + 1)
        /\ \A i \in 1..Len(accumulated[m]) : text[i] = accumulated[m][i]
        /\ text[Len(accumulated[m]) + 1] = n
    BY <1>4, <2>1, AppendProperties, LenProperties
  <2> HIDE DEF text
  <2>3. accumulated' = [accumulated EXCEPT ![m] = text]
    <3>1. accumulated' = [accumulated EXCEPT ![m] = Append(accumulated[m], n)]
      BY <1>1
    <3> QED
      BY <3>1 DEF text
  <2>4. ASSUME NEW i \in DOMAIN text PROVE mail[text[i]].session = mail[m].session
    <3>1. CASE i \in DOMAIN accumulated[m]
      BY <1>2, <1>3, <2>2, <3>1 DEF TextsOK
    <3>2. CASE i = Len(accumulated[m]) + 1
      BY <1>4, <2>2, <3>2
    <3> QED
      BY <2>2, <3>1, <3>2
  <2>5. accumulated' \in [Messages -> Seq(Messages)] /\ accumulated'[m] = text
        /\ \A k \in Messages \ {m} : accumulated'[k] = accumulated[k]
    BY <1>3, <2>1, <2>2, <2>3
  <2>6. ASSUME NEW k \in Messages, NEW i \in DOMAIN accumulated'[k]
        PROVE  mail[k].session # NoOne /\ mail[accumulated'[k][i]].session = mail[k].session
    <3>1. CASE k = m
      BY <1>4, <2>4, <2>5, <3>1
    <3>2. CASE k # m
      BY <1>2, <2>5, <3>2 DEF TextsOK
    <3> QED
      BY <3>1, <3>2
  <2> QED
    BY <1>1, <2>5, <2>6 DEF TextsOK
<1> QED
  BY <1>1, <1>2, <1>5, <1>6, <1>7 DEF ChannelIInv, MailsOK, QueueOK, StreamsOK, NotesOK

(***************************************************************************)
(* TranslateDone keeps the invariant: the client is told, the stream is    *)
(* gone, and no stream and no other lookup of this socket leads to the     *)
(* message.                                                                *)
(***************************************************************************)
LEMMA TranslateDoneKeeps ==
  ASSUME ChannelAssumption, ChannelIInv, NEW s \in Sockets, TranslateDone(s)
  PROVE  ChannelIInv'
<1> DEFINE m == socket[s].stream
           a == socket[s].update.session
<1>1. /\ m # NoOne /\ socket[s].update.chunk = NoOne
      /\ streams' = [streams EXCEPT ![a] = NoOne]
      /\ accumulated' = [accumulated EXCEPT ![m] = <<>>]
      /\ completed' = [completed EXCEPT ![s][m] = @ + 1]
      /\ socket' = [socket EXCEPT ![s].update = NoUpdate, ![s].stream = NoOne]
      /\ mail' = mail /\ conversations' = conversations
      /\ notifications' = notifications /\ requests' = requests /\ serving' = serving
  BY DEF TranslateDone, connVars
<1>2. MailsOK /\ QueueOK /\ NotesOK /\ StreamsOK /\ TextsOK /\ SocketsOK /\ CompletedOK
      /\ socket[s] \in SocketStates
  BY DEF ChannelIInv, SocketsOK
<1>3. /\ m \in Messages /\ a \in AcpSessions /\ Ended(mail, a) /\ mail[m].session = a
      /\ ~Unmapped(mail, m)
  BY <1>1, <1>2 DEF SocketsOK, SocketStates, Told, Updates
<1>4. completed[s][m] = 0 /\ completed \in [Sockets -> [Messages -> 0..1]]
  BY <1>2, <1>3 DEF CompletedOK
<1> HIDE DEF m, a
<1>5. SocketsOK' /\ socket'[s].stream = NoOne /\ \A t \in Sockets \ {s} : socket'[t] = socket[t]
  BY <1>1, <1>2, Handled
<1>6. streams' \in [AcpSessions -> Messages \cup {NoOne}]
      /\ \A b \in AcpSessions : streams'[b] = IF b = a THEN NoOne ELSE streams[b]
  BY <1>1, <1>2, <1>3 DEF StreamsOK
<1>7. StreamsOK'
  BY <1>1, <1>2, <1>6 DEF StreamsOK
<1>8. TextsOK'
  <2>1. accumulated' \in [Messages -> Seq(Messages)]
        /\ \A k \in Messages : accumulated'[k] = IF k = m THEN <<>> ELSE accumulated[k]
    BY <1>1, <1>2, <1>3 DEF TextsOK
  <2>2. DOMAIN <<>> = {}
    OBVIOUS
  <2> QED
    BY <1>1, <1>2, <2>1, <2>2 DEF TextsOK
<1>9. /\ completed' \in [Sockets -> [Messages -> 0..1]]
      /\ \A t \in Sockets, n \in Messages :
           completed'[t][n] = IF t = s /\ n = m THEN 1 ELSE completed[t][n]
  <2>1. completed' = [completed EXCEPT ![s][m] = 1]
    <3>1. completed[s][m] + 1 = 1
      BY <1>4
    <3> QED
      BY <1>1, <3>1
  <2> QED
    BY <1>3, <1>4, <2>1
<1>10. ASSUME NEW t \in Sockets, NEW n \in Messages, completed'[t][n] # 0
       PROVE  /\ Ended(mail, mail[n].session) /\ ~Unmapped(mail, n)
              /\ socket'[t].stream # n /\ \A b \in AcpSessions : streams'[b] # n
  <2>1. n # NoOne
    BY Names
  <2>2. CASE completed[t][n] # 0
    <3>1. /\ Ended(mail, mail[n].session) /\ ~Unmapped(mail, n)
          /\ socket[t].stream # n /\ \A b \in AcpSessions : streams[b] # n
      BY <1>2, <2>2 DEF CompletedOK
    <3> QED
      BY <1>5, <1>6, <2>1, <3>1
  <2>3. CASE t = s /\ n = m
    <3>1. ASSUME NEW b \in AcpSessions, streams[b] = m PROVE b = a
      BY <1>2, <1>3, <3>1, Names DEF StreamsOK
    <3> QED
      BY <1>3, <1>5, <1>6, <2>1, <2>3, <3>1
  <2> QED
    BY <1>9, <1>10, <2>2, <2>3
<1>11. CompletedOK'
  BY <1>1, <1>9, <1>10 DEF CompletedOK
<1> QED
  BY <1>1, <1>2, <1>5, <1>7, <1>8, <1>11 DEF ChannelIInv, MailsOK, QueueOK, NotesOK

(***************************************************************************)
(* A step that changes the queue and what a socket waits for.              *)
(***************************************************************************)
LEMMA OnlyWaits ==
  ASSUME ChannelAssumption, ChannelIInv, mail' = mail, QueueOK',
         UNCHANGED <<conversations, streams, accumulated, notifications, completed>>,
         socket' \in [Sockets -> SocketStates],
         \A t \in Sockets : /\ socket'[t].inbox = socket[t].inbox
                            /\ socket'[t].update = socket[t].update
                            /\ socket'[t].stream = socket[t].stream
  PROVE  ChannelIInv'
<1>1. MailsOK /\ QueueOK /\ NotesOK /\ StreamsOK /\ TextsOK /\ SocketsOK /\ CompletedOK
  BY DEF ChannelIInv
<1>2. MailsOK' /\ Grows
  BY <1>1, NothingMails DEF MailsOK
<1>3. SocketsOK'
  BY <1>1, <1>2, SocketsStay
<1>4. CompletedOK'
  BY <1>1, <1>2, CompletedStays
<1> QED
  BY <1>1, <1>2, <1>3, <1>4, StreamsStay, TextsStay, NotesStay DEF ChannelIInv

(***************************************************************************)
(* AskCancel keeps the invariant.                                          *)
(***************************************************************************)
LEMMA AskCancelKeeps ==
  ASSUME ChannelAssumption, ChannelIInv, NEW m \in Messages, AskCancel(m)
  PROVE  ChannelIInv'
<1> DEFINE s == Asker[m]
<1>1. PICK a \in AcpSessions : socket' = [socket EXCEPT ![s].cancel = a]
  BY DEF AskCancel
<1>2. /\ mail' = mail /\ requests' = requests /\ serving' = serving
      /\ UNCHANGED <<conversations, streams, accumulated, notifications, completed>>
  BY DEF AskCancel, mapVars, connVars
<1>3. s \in Sockets /\ socket \in [Sockets -> SocketStates] /\ a \in AcpSessions \cup {NoOne}
      /\ QueueOK
  BY DEF ChannelAssumption, ChannelIInv, SocketsOK
<1> HIDE DEF s
<1>4. socket' = WithCancel(socket, s, a)
  BY <1>1 DEF WithCancel
<1>5. /\ socket' \in [Sockets -> SocketStates] /\ \A t \in Sockets \ {s} : socket'[t] = socket[t]
      /\ socket'[s].inbox = socket[s].inbox /\ socket'[s].update = socket[s].update
      /\ socket'[s].stream = socket[s].stream
  BY <1>3, <1>4, CancelOf
<1>6. \A t \in Sockets : /\ socket'[t].inbox = socket[t].inbox
                         /\ socket'[t].update = socket[t].update
                         /\ socket'[t].stream = socket[t].stream
  BY <1>5
<1>7. QueueOK'
  BY <1>2, <1>3 DEF QueueOK
<1> QED
  BY <1>2, <1>5, <1>6, <1>7, OnlyWaits

(***************************************************************************)
(* CancelSession keeps the invariant.                                      *)
(***************************************************************************)
LEMMA CancelKeeps ==
  ASSUME ChannelAssumption, ChannelIInv, NEW s \in Sockets, CancelSession(s)
  PROVE  ChannelIInv'
<1> DEFINE request == [kind |-> "cancel", by |-> s]
<1>1. /\ mail' = mail /\ serving' = serving
      /\ UNCHANGED <<conversations, streams, accumulated, notifications, completed>>
      /\ \/ socket' = [socket EXCEPT ![s].cancel = NoOne] /\ requests' = requests
         \/ socket' = [socket EXCEPT ![s].waits = TRUE] /\ requests' = Append(requests, request)
  BY DEF CancelSession, mapVars
<1>2. socket \in [Sockets -> SocketStates] /\ NoOne \in AcpSessions \cup {NoOne} /\ QueueOK
  BY DEF ChannelIInv, SocketsOK
<1>3. CASE socket' = [socket EXCEPT ![s].cancel = NoOne] /\ requests' = requests
  <2>1. socket' = WithCancel(socket, s, NoOne)
    BY <1>3 DEF WithCancel
  <2>2. /\ WithCancel(socket, s, NoOne) \in [Sockets -> SocketStates]
        /\ \A t \in Sockets \ {s} : WithCancel(socket, s, NoOne)[t] = socket[t]
        /\ WithCancel(socket, s, NoOne)[s].inbox = socket[s].inbox
        /\ WithCancel(socket, s, NoOne)[s].update = socket[s].update
        /\ WithCancel(socket, s, NoOne)[s].stream = socket[s].stream
    BY <1>2, CancelOf
  <2>3. \A t \in Sockets : /\ socket'[t].inbox = socket[t].inbox
                           /\ socket'[t].update = socket[t].update
                           /\ socket'[t].stream = socket[t].stream
    BY <2>1, <2>2
  <2>4. QueueOK'
    BY <1>1, <1>2, <1>3 DEF QueueOK
  <2> QED
    BY <1>1, <2>1, <2>2, <2>3, <2>4, OnlyWaits
<1>4. CASE socket' = [socket EXCEPT ![s].waits = TRUE] /\ requests' = Append(requests, request)
  <2>1. /\ socket' \in [Sockets -> SocketStates] /\ \A t \in Sockets \ {s} : socket'[t] = socket[t]
        /\ socket'[s].inbox = socket[s].inbox /\ socket'[s].update = socket[s].update
        /\ socket'[s].stream = socket[s].stream
    <3> DEFINE x == socket[s]
               y == [x EXCEPT !.waits = TRUE]
    <3>1. socket' = [socket EXCEPT ![s] = y]
      BY <1>4
    <3>2. x \in SocketStates
      BY <1>2
    <3>3. y \in SocketStates /\ y.inbox = x.inbox /\ y.update = x.update /\ y.stream = x.stream
      <4> HIDE DEF x
      <4> QED
        BY <3>2 DEF SocketStates
    <3> HIDE DEF y
    <3> QED
      BY <1>2, <3>1, <3>3
  <2>2. \A t \in Sockets : /\ socket'[t].inbox = socket[t].inbox
                           /\ socket'[t].update = socket[t].update
                           /\ socket'[t].stream = socket[t].stream
    BY <2>1
  <2>3. request \in Calls /\ request.kind = "cancel"
    BY DEF Calls
  <2> HIDE DEF request
  <2>4. Waited(mail', request)
    BY <2>3 DEF Waited
  <2>5. QueueOK'
    BY <1>1, <1>2, <1>4, <2>3, <2>4, QueueGrows
  <2> QED
    BY <1>1, <2>1, <2>2, <2>5, OnlyWaits
<1> QED
  BY <1>1, <1>3, <1>4

(***************************************************************************)
(* The invariant holds at first.                                           *)
(***************************************************************************)
LEMMA ChannelInitKeeps ==
  ASSUME ChannelAssumption, ChannelInit
  PROVE  ChannelIInv
<1>1. PICK place \in Placements :
        mail = [m \in Messages |-> [pc |-> "idle", conversation |-> place[m], session |-> NoOne]]
  BY DEF ChannelInit
<1>2. place \in [Messages -> Conversations]
  BY DEF ChannelAssumption
<1>3. mail \in [Messages -> MailStates]
      /\ \A m \in Messages : mail[m].pc = "idle" /\ mail[m].session = NoOne
  BY <1>1, <1>2 DEF MailStates, MailSteps
<1>4. /\ conversations = [c \in Conversations |-> NoOne] /\ streams = [a \in AcpSessions |-> NoOne]
      /\ accumulated = [m \in Messages |-> <<>>] /\ requests = <<>> /\ serving = NoOne
      /\ notifications = <<>> /\ completed = [s \in Sockets |-> [m \in Messages |-> 0]]
      /\ socket = [s \in Sockets |-> [inbox |-> <<>>, update |-> NoUpdate, stream |-> NoOne,
                                      cancel |-> NoOne, waits |-> FALSE]]
  BY DEF ChannelInit
<1>5. MailsOK
  BY <1>3, <1>4 DEF MailsOK, MailStates, Early, MailSteps
<1>6. StreamsOK /\ QueueOK /\ NotesOK /\ TextsOK
  BY <1>4 DEF StreamsOK, QueueOK, NotesOK, TextsOK
<1>7. SocketsOK
  <2>1. <<>> \in Seq(Updates) /\ DOMAIN <<>> = {}
    OBVIOUS
  <2>2. \A s \in Sockets : /\ socket[s] \in SocketStates /\ socket[s].inbox = <<>>
                           /\ socket[s].stream = NoOne
    BY <1>4, <2>1 DEF SocketStates
  <2>3. socket \in [Sockets -> SocketStates]
    BY <1>4, <2>2
  <2> QED
    BY <2>1, <2>2, <2>3 DEF SocketsOK
<1>8. CompletedOK
  BY <1>4 DEF CompletedOK
<1> QED
  BY <1>5, <1>6, <1>7, <1>8 DEF ChannelIInv

(***************************************************************************)
(* Every step keeps the invariant.                                         *)
(***************************************************************************)
LEMMA ChannelStep ==
  ASSUME ChannelAssumption, ChannelIInv, [ChannelNext]_channelVars
  PROVE  ChannelIInv'
<1>1. CASE UNCHANGED channelVars
  BY <1>1 DEF ChannelIInv, channelVars, MailsOK, StreamsOK, TextsOK, QueueOK, NotesOK, SocketsOK,
              CompletedOK
<1>2. CASE AgentDies
  BY <1>2 DEF AgentDies, mapVars, connVars, socketVars, ChannelIInv, MailsOK, StreamsOK, TextsOK,
              QueueOK, NotesOK, SocketsOK, CompletedOK
<1>3. CASE \E m \in Messages : Message(m) \/ AskCancel(m)
  BY <1>3, MessageKeeps, AskCancelKeeps
<1>4. CASE \E m \in Messages :
             OpenConversation(m) \/ CreateSession(m) \/ MapStream(m) \/ SendPrompt(m)
             \/ EnqueuePrompt(m) \/ SendDone(m)
  BY <1>4, OpenKeeps, CreateKeeps, MapKeeps, SendKeeps, EnqueueKeeps, DoneKeeps
<1>5. CASE AgentUpdates \/ ServeRequest \/ AnswerCreate \/ EndTurn \/ AnswerCancel \/ ForwardUpdate
  BY <1>5, UpdateKeeps, ServeKeeps, AnswerKeeps, EndKeeps, CancelAnswerKeeps, ForwardKeeps
<1>6. CASE \E s \in Sockets :
             LookUpStream(s) \/ TranslateChunk(s) \/ TranslateDone(s) \/ CancelSession(s)
  BY <1>6, LookUpKeeps, ChunkKeeps, TranslateDoneKeeps, CancelKeeps
<1> QED
  BY <1>1, <1>2, <1>3, <1>4, <1>5, <1>6 DEF ChannelNext, ServerStep

(***************************************************************************)
(* The invariant always holds.                                             *)
(***************************************************************************)
LEMMA ChannelSafe == ChannelSpec => []ChannelIInv
<1>1. ChannelInit => ChannelIInv
  BY ChannelInitKeeps, ChannelAssumption
<1>2. ChannelIInv /\ [ChannelNext]_channelVars => ChannelIInv'
  BY ChannelStep, ChannelAssumption
<1> QED
  BY <1>1, <1>2, PTL DEF ChannelSpec

(***************************************************************************)
(* The text of a message holds only what the agent said in the message's   *)
(* own conversation, whatever overtakes what.                              *)
(***************************************************************************)
THEOREM TextsStayApart == ChannelSpec => []ConversationsDoNotMix
<1>1. ChannelIInv => ConversationsDoNotMix
  <2> SUFFICES ASSUME ChannelIInv, NEW m \in Messages, NEW i \in DOMAIN accumulated[m]
               PROVE  mail[accumulated[m][i]].conversation = mail[m].conversation
    BY DEF ConversationsDoNotMix
  <2>1. /\ accumulated[m][i] \in Messages /\ mail[m].session # NoOne
        /\ mail[accumulated[m][i]].session = mail[m].session
    BY ElementOfSeq DEF ChannelIInv, TextsOK
  <2> QED
    BY <2>1 DEF ChannelIInv, MailsOK
<1> QED
  BY <1>1, ChannelSafe, PTL

(***************************************************************************)
(* A client is told at most once that a message is complete, and not       *)
(* before the agent has ended a turn of its session.                       *)
(***************************************************************************)
THEOREM CompleteIsToldOnce == ChannelSpec => []CompleteOnceAfterATurn
<1>1. ChannelIInv => CompleteOnceAfterATurn
  <2> SUFFICES ASSUME ChannelIInv, NEW s \in Sockets, NEW m \in Messages
               PROVE  /\ completed[s][m] <= 1
                      /\ completed[s][m] = 1 =>
                           \E n \in Messages :
                             mail[n].pc = "done" /\ mail[n].session = mail[m].session
    BY DEF CompleteOnceAfterATurn
  <2>1. completed[s][m] \in 0..1
    BY DEF ChannelIInv, CompletedOK
  <2>2. completed[s][m] # 0 => Ended(mail, mail[m].session)
    BY DEF ChannelIInv, CompletedOK
  <2> QED
    BY <2>1, <2>2 DEF Ended
<1> QED
  BY <1>1, ChannelSafe, PTL

(* Nor does the server ever stand still: what a message or a socket waits  *)
(* for is always in the connection's queue or being served (Awaited), so   *)
(* that the chain of those who wait ends at a step that can be taken.      *)

\* A call is in the connection's queue or being served.
Pending(request) == request = serving \/ \E i \in DOMAIN requests : requests[i] = request

\* Whoever waits for an answer of the connection waits for a call that it has.
Awaited ==
  /\ \A m \in Messages : mail[m].pc = "creating" => Pending([kind |-> "create", by |-> m])
  /\ \A m \in Messages : mail[m].pc = "queued" => Pending([kind |-> "prompt", by |-> m])
  /\ \A s \in Sockets : socket[s].waits => Pending([kind |-> "cancel", by |-> s])

\* A message is under way or a socket waits for a cancel.
UnderWay ==
  \/ \E m \in Messages : mail[m].pc \notin {"idle", "done", "failed"}
  \/ \E s \in Sockets : socket[s].cancel # NoOne

\* What lets a step of the server be taken: the guards of OpenConversation, of the steps of a
\* message's task that can always go on or fail, of CancelSession's refusal, of ServeRequest
\* and of the three answers of the connection.
CanGoOn ==
  \/ \E m \in Messages :
       \/ mail[m].pc = "open" /\ ~ConversationsLocked
       \/ mail[m].pc \in {"create", "map", "prompt", "dispatched", "ended"}
  \/ \E s \in Sockets : socket[s].cancel # NoOne /\ ~socket[s].waits
  \/ serving = NoOne /\ requests # <<>>
  \/ serving # NoOne /\ serving.kind \in {"create", "prompt", "cancel"}

(***************************************************************************)
(* NoOne is no call.                                                       *)
(***************************************************************************)
LEMMA NoOneIsNoCall ==
  ASSUME ChannelAssumption
  PROVE  NoOne \notin Calls
BY DEF ChannelAssumption, Calls

(***************************************************************************)
(* A broadcast moves no socket's wait.                                     *)
(***************************************************************************)
LEMMA BroadcastWaits ==
  ASSUME socket \in [Sockets -> SocketStates], NEW update, Broadcast(update), NEW s \in Sockets
  PROVE  socket'[s].waits = socket[s].waits
<1> DEFINE inbox == Append(socket[s].inbox, update)
           kept == IF Len(inbox) > Buffer THEN Tail(inbox) ELSE inbox
<1>1. socket'[s] = [socket[s] EXCEPT !.inbox = kept]
  BY DEF Broadcast
<1>2. socket[s] \in SocketStates
  OBVIOUS
<1> HIDE DEF kept
<1> QED
  BY <1>1, <1>2 DEF SocketStates

(***************************************************************************)
(* A step of a message's task moves that message only.                     *)
(***************************************************************************)
LEMMA OneSteps ==
  ASSUME MailsOK, NEW m \in Messages, NEW pc \in MailSteps, Step(m, pc)
  PROVE  mail'[m].pc = pc /\ \A n \in Messages \ {m} : mail'[n] = mail[n]
BY DEF MailsOK, Step, SetMail

(***************************************************************************)
(* A step that lets nobody begin to wait and leaves the connection alone.  *)
(***************************************************************************)
LEMMA NobodyWaits ==
  ASSUME Awaited, requests' = requests, serving' = serving,
         \A m \in Messages : mail'[m].pc \in {"creating", "queued"} => mail'[m].pc = mail[m].pc,
         \A s \in Sockets : socket'[s].waits => socket[s].waits
  PROVE  Awaited'
BY DEF Awaited, Pending

(***************************************************************************)
(* A call that joins the queue is waited for by the one that made it.      *)
(***************************************************************************)
LEMMA OneMoreWaits ==
  ASSUME Awaited, QueueOK, NEW request \in Calls, requests' = Append(requests, request),
         serving' = serving,
         \A m \in Messages : mail'[m].pc = "creating" =>
           mail[m].pc = "creating" \/ request = [kind |-> "create", by |-> m],
         \A m \in Messages : mail'[m].pc = "queued" =>
           mail[m].pc = "queued" \/ request = [kind |-> "prompt", by |-> m],
         \A s \in Sockets : socket'[s].waits =>
           socket[s].waits \/ request = [kind |-> "cancel", by |-> s]
  PROVE  Awaited'
<1>1. /\ DOMAIN requests = 1..Len(requests) /\ Len(requests) \in Nat
      /\ DOMAIN requests' = 1..(Len(requests) + 1)
      /\ \A i \in 1..Len(requests) : requests'[i] = requests[i]
      /\ requests'[Len(requests) + 1] = request
  BY AppendProperties, LenProperties DEF QueueOK
<1>2. \A r : Pending(r) \/ r = request => Pending(r)'
  BY <1>1 DEF Pending
<1> QED
  BY <1>2 DEF Awaited

(***************************************************************************)
(* A call that is answered is not waited for any more.                     *)
(***************************************************************************)
LEMMA OneIsAnswered ==
  ASSUME Awaited, serving # NoOne, requests' = requests,
         \A m \in Messages : mail'[m].pc = "creating" =>
           mail[m].pc = "creating" /\ serving # [kind |-> "create", by |-> m],
         \A m \in Messages : mail'[m].pc = "queued" =>
           mail[m].pc = "queued" /\ serving # [kind |-> "prompt", by |-> m],
         \A s \in Sockets : socket'[s].waits =>
           socket[s].waits /\ serving # [kind |-> "cancel", by |-> s]
  PROVE  Awaited'
<1>1. \A r : Pending(r) /\ r # serving => Pending(r)'
  BY DEF Pending
<1> QED
  BY <1>1 DEF Awaited

(***************************************************************************)
(* Every step keeps the calls that are waited for.                         *)
(***************************************************************************)
LEMMA AwaitedStep ==
  ASSUME ChannelAssumption, ChannelIInv, Awaited, [ChannelNext]_channelVars
  PROVE  Awaited'
<1> USE DEF ChannelIInv
<1>0. /\ NoOne \notin Calls /\ MailsOK /\ QueueOK
      /\ mail \in [Messages -> MailStates] /\ socket \in [Sockets -> SocketStates]
  BY NoOneIsNoCall DEF MailsOK, MailStates, SocketsOK
<1>1. ASSUME NEW m \in Messages, Message(m) PROVE Awaited'
  <2>1. mail'[m].pc = "open" /\ \A n \in Messages \ {m} : mail'[n] = mail[n]
    BY <1>1, OneSteps DEF Message, MailSteps
  <2> QED
    BY <1>1, <2>1, NobodyWaits DEF Message, connVars, socketVars
<1>2. ASSUME NEW m \in Messages, AskCancel(m) PROVE Awaited'
  <2>1. \A s \in Sockets : socket'[s].waits => socket[s].waits
    BY <1>0, <1>2 DEF AskCancel, SocketStates
  <2> QED
    BY <1>2, <2>1, NobodyWaits DEF AskCancel, connVars
<1>3. ASSUME NEW m \in Messages, OpenConversation(m) PROVE Awaited'
  <2>1. CASE Step(m, "create")
    <3>1. mail'[m].pc = "create" /\ \A n \in Messages \ {m} : mail'[n] = mail[n]
      BY <2>1, OneSteps DEF MailSteps
    <3> QED
      BY <1>3, <3>1, NobodyWaits DEF OpenConversation, connVars, socketVars
  <2>2. CASE ~Step(m, "create")
    <3>1. PICK a : SetMail(m, [mail[m] EXCEPT !.pc = "map", !.session = a])
      BY <1>3, <2>2 DEF OpenConversation
    <3>2. mail'[m].pc = "map" /\ \A n \in Messages \ {m} : mail'[n] = mail[n]
      BY <1>0, <3>1 DEF SetMail, MailStates
    <3> QED
      BY <1>3, <3>2, NobodyWaits DEF OpenConversation, connVars, socketVars
  <2> QED
    BY <2>1, <2>2
<1>4. ASSUME NEW m \in Messages, CreateSession(m) PROVE Awaited'
  <2>1. CASE Step(m, "failed") /\ UNCHANGED <<gateway, agent, requests>>
    <3>1. mail'[m].pc = "failed" /\ \A n \in Messages \ {m} : mail'[n] = mail[n]
      BY <2>1, OneSteps DEF MailSteps
    <3> QED
      BY <1>4, <2>1, <3>1, NobodyWaits DEF CreateSession, socketVars
  <2>2. CASE Step(m, "creating") /\ requests' = Append(requests, [kind |-> "create", by |-> m])
    <3>1. mail'[m].pc = "creating" /\ \A n \in Messages \ {m} : mail'[n] = mail[n]
      BY <2>2, OneSteps DEF MailSteps
    <3>2. PICK request \in Calls : request = [kind |-> "create", by |-> m]
      BY DEF Calls
    <3> QED
      BY <1>4, <2>2, <3>1, <3>2, OneMoreWaits DEF CreateSession, socketVars
  <2> QED
    BY <1>4, <2>1, <2>2 DEF CreateSession
<1>5. ASSUME NEW m \in Messages, MapStream(m) PROVE Awaited'
  <2>1. mail'[m].pc = "prompt" /\ \A n \in Messages \ {m} : mail'[n] = mail[n]
    BY <1>5, OneSteps DEF MapStream, MailSteps
  <2> QED
    BY <1>5, <2>1, NobodyWaits DEF MapStream, connVars, socketVars
<1>6. ASSUME NEW m \in Messages, SendPrompt(m) PROVE Awaited'
  <2>1. PICK pc \in {"failed", "dispatched"} : Step(m, pc)
    BY <1>6 DEF SendPrompt
  <2>2. mail'[m].pc = pc /\ \A n \in Messages \ {m} : mail'[n] = mail[n]
    BY <2>1, OneSteps DEF MailSteps
  <2> QED
    BY <1>6, <2>2, NobodyWaits DEF SendPrompt, connVars, socketVars
<1>7. ASSUME NEW m \in Messages, EnqueuePrompt(m) PROVE Awaited'
  <2>1. mail'[m].pc = "queued" /\ \A n \in Messages \ {m} : mail'[n] = mail[n]
    BY <1>7, OneSteps DEF EnqueuePrompt, MailSteps
  <2>2. PICK request \in Calls : request = [kind |-> "prompt", by |-> m]
    BY DEF Calls
  <2> QED
    BY <1>7, <2>1, <2>2, OneMoreWaits DEF EnqueuePrompt, socketVars
<1>8. ASSUME NEW m \in Messages, SendDone(m) PROVE Awaited'
  <2>1. mail'[m].pc = "done" /\ \A n \in Messages \ {m} : mail'[n] = mail[n]
    BY <1>8, OneSteps DEF SendDone, MailSteps
  <2>2. PICK update : Broadcast(update)
    BY <1>8 DEF SendDone
  <2>3. \A s \in Sockets : socket'[s].waits => socket[s].waits
    BY <1>0, <2>2, BroadcastWaits
  <2> QED
    BY <1>8, <2>1, <2>3, NobodyWaits DEF SendDone, connVars
<1>9. ASSUME ServeRequest PROVE Awaited'
  <2>1. /\ requests \in Seq(Calls) /\ requests # <<>> /\ serving = NoOne
        /\ serving' = Head(requests) /\ requests' = Tail(requests)
        /\ mail' = mail /\ socket' = socket
    BY <1>9 DEF ServeRequest, QueueOK, socketVars
  <2>2. ASSUME NEW i \in DOMAIN requests PROVE requests[i] = Head(requests)
                                               \/ \E j \in DOMAIN Tail(requests) :
                                                    Tail(requests)[j] = requests[i]
    <3>1. i \in 1..Len(requests) /\ Len(requests) \in Nat
      BY <2>1
    <3>2. DOMAIN Tail(requests) = 1..(Len(requests) - 1)
          /\ \A j \in 1..(Len(requests) - 1) : Tail(requests)[j] = requests[j + 1]
      BY <2>1, HeadTailProperties
    <3>3. CASE i # 1
      <4>1. i - 1 \in 1..(Len(requests) - 1) /\ (i - 1) + 1 = i
        BY <3>1, <3>3
      <4> QED
        BY <3>2, <4>1
    <3> QED
      BY <2>1, <3>3, HeadTailProperties
  <2>3. \A request \in Calls : Pending(request) =>
          request = serving' \/ \E j \in DOMAIN requests' : requests'[j] = request
    BY <1>0, <2>1, <2>2 DEF Pending
  <2>4. /\ \A m \in Messages : [kind |-> "create", by |-> m] \in Calls
                               /\ [kind |-> "prompt", by |-> m] \in Calls
        /\ \A s \in Sockets : [kind |-> "cancel", by |-> s] \in Calls
    BY DEF Calls
  <2> QED
    BY <2>1, <2>3, <2>4 DEF Awaited, Pending
<1>10. ASSUME AnswerCreate PROVE Awaited'
  <2>1. /\ serving # NoOne /\ serving.kind = "create" /\ serving.by \in Messages
        /\ requests' = requests /\ socket' = socket
    BY <1>0, <1>10 DEF AnswerCreate, QueueOK, Waited, socketVars
  <2>2. PICK m \in Messages : m = serving.by
    BY <2>1
  <2>3. mail'[m].pc \in {"map", "failed"} /\ \A n \in Messages \ {m} : mail'[n] = mail[n]
    <3>1. CASE SetMail(m, [mail[m] EXCEPT !.pc = "map", !.session = m])
      BY <1>0, <3>1 DEF SetMail, MailStates
    <3>2. CASE Step(m, "failed")
      BY <1>0, <3>2, OneSteps DEF MailSteps
    <3> QED
      BY <1>10, <2>2, <3>1, <3>2 DEF AnswerCreate
  <2>4. \A n \in Messages : serving # [kind |-> "prompt", by |-> n]
    BY <2>1
  <2>5. \A s \in Sockets : serving # [kind |-> "cancel", by |-> s]
    BY <2>1
  <2>6. \A n \in Messages \ {m} : serving # [kind |-> "create", by |-> n]
    BY <2>2
  <2> QED
    BY <2>1, <2>3, <2>4, <2>5, <2>6, OneIsAnswered
<1>11. ASSUME AgentUpdates PROVE Awaited'
  BY <1>11, NobodyWaits DEF AgentUpdates, socketVars
<1>12. ASSUME EndTurn PROVE Awaited'
  <2>1. /\ serving # NoOne /\ serving.kind = "prompt" /\ serving.by \in Messages
        /\ requests' = requests /\ socket' = socket /\ Step(serving.by, "ended")
    BY <1>0, <1>12 DEF EndTurn, QueueOK, Waited, socketVars
  <2>2. PICK m \in Messages : m = serving.by
    BY <2>1
  <2>3. mail'[m].pc = "ended" /\ \A n \in Messages \ {m} : mail'[n] = mail[n]
    BY <1>0, <2>1, <2>2 DEF Step, SetMail, MailStates
  <2>4. \A n \in Messages : serving # [kind |-> "create", by |-> n]
    BY <2>1
  <2>5. \A s \in Sockets : serving # [kind |-> "cancel", by |-> s]
    BY <2>1
  <2>6. \A n \in Messages \ {m} : serving # [kind |-> "prompt", by |-> n]
    BY <2>2
  <2> QED
    BY <2>1, <2>3, <2>4, <2>5, <2>6, OneIsAnswered
<1>13. ASSUME AnswerCancel PROVE Awaited'
  <2>1. /\ serving # NoOne /\ serving.kind = "cancel" /\ requests' = requests /\ mail' = mail
    BY <1>13 DEF AnswerCancel
  <2>2. PICK s : s = serving.by
    OBVIOUS
  <2>3. \A t \in Sockets : socket'[t].waits => socket[t].waits /\ t # s
    BY <1>0, <1>13, <2>2 DEF AnswerCancel, SocketStates
  <2>4. \A n \in Messages : serving # [kind |-> "create", by |-> n]
                            /\ serving # [kind |-> "prompt", by |-> n]
    BY <2>1
  <2>5. \A t \in Sockets : t # s => serving # [kind |-> "cancel", by |-> t]
    BY <2>2
  <2> QED
    BY <2>1, <2>3, <2>4, <2>5, OneIsAnswered
<1>14. ASSUME AgentDies PROVE Awaited'
  BY <1>14, NobodyWaits DEF AgentDies, connVars, socketVars
<1>15. ASSUME ForwardUpdate PROVE Awaited'
  <2>1. PICK update : Broadcast(update)
    BY <1>15 DEF ForwardUpdate
  <2>2. \A s \in Sockets : socket'[s].waits => socket[s].waits
    BY <1>0, <2>1, BroadcastWaits
  <2> QED
    BY <1>15, <2>2, NobodyWaits DEF ForwardUpdate
<1>16. ASSUME NEW s \in Sockets, LookUpStream(s) \/ TranslateChunk(s) \/ TranslateDone(s)
       PROVE  Awaited'
  <2>1. \A t \in Sockets : socket'[t].waits => socket[t].waits
    <3>1. CASE LookUpStream(s)
      BY <1>0, <3>1 DEF LookUpStream, SocketStates
    <3>2. CASE TranslateChunk(s) \/ TranslateDone(s)
      BY <1>0, <3>2 DEF TranslateChunk, TranslateDone, SocketStates
    <3> QED
      BY <1>16, <3>1, <3>2
  <2> QED
    BY <1>16, <2>1, NobodyWaits DEF LookUpStream, TranslateChunk, TranslateDone, connVars
<1>17. ASSUME NEW s \in Sockets, CancelSession(s) PROVE Awaited'
  <2>1. CASE socket' = [socket EXCEPT ![s].cancel = NoOne] /\ requests' = requests
    <3>1. \A t \in Sockets : socket'[t].waits => socket[t].waits
      BY <1>0, <2>1 DEF SocketStates
    <3> QED
      BY <1>17, <2>1, <3>1, NobodyWaits DEF CancelSession
  <2>2. CASE /\ socket' = [socket EXCEPT ![s].waits = TRUE]
             /\ requests' = Append(requests, [kind |-> "cancel", by |-> s])
    <3>1. \A t \in Sockets : socket'[t].waits => socket[t].waits \/ t = s
      BY <1>0, <2>2 DEF SocketStates
    <3>2. PICK request \in Calls : request = [kind |-> "cancel", by |-> s]
      BY DEF Calls
    <3> QED
      BY <1>17, <2>2, <3>1, <3>2, OneMoreWaits DEF CancelSession
  <2> QED
    BY <1>17, <2>1, <2>2 DEF CancelSession
<1>18. CASE UNCHANGED channelVars
  BY <1>18, NobodyWaits DEF channelVars
<1> QED
  BY <1>1, <1>2, <1>3, <1>4, <1>5, <1>6, <1>7, <1>8, <1>9, <1>10, <1>11, <1>12, <1>13, <1>14,
     <1>15, <1>16, <1>17, <1>18 DEF ChannelNext, ServerStep

(***************************************************************************)
(* Each guard of CanGoOn is all that a step of the server needs: with the  *)
(* next state that is given for it the step is one of ServerStep.  (The    *)
(* values given to the primed variables are values of the present state,   *)
(* so that such a next state always exists: the step is enabled.)          *)
(***************************************************************************)
LEMMA GuardsSuffice ==
  /\ \A m \in Messages :
       /\ mail[m].pc = "open" /\ ~ConversationsLocked
       /\ mail' = [mail EXCEPT ![m] =
                     IF conversations[mail[m].conversation] # NoOne
                     THEN [mail[m] EXCEPT !.pc = "map",
                                          !.session = conversations[mail[m].conversation]]
                     ELSE [mail[m] EXCEPT !.pc = "create"]]
       /\ UNCHANGED <<mapVars, registered, gateway, agent, connVars, socketVars>>
       => ServerStep
  /\ \A m \in Messages :
       /\ mail[m].pc \in {"create", "prompt"}
       /\ mail' = [mail EXCEPT ![m] = [mail[m] EXCEPT !.pc = "failed"]]
       /\ UNCHANGED <<mapVars, registered, gateway, agent, connVars, socketVars>>
       => ServerStep
  /\ \A m \in Messages :
       /\ mail[m].pc = "map"
       /\ mail' = [mail EXCEPT ![m] = [mail[m] EXCEPT !.pc = "prompt"]]
       /\ streams' = [streams EXCEPT ![mail[m].session] = m]
       /\ UNCHANGED <<conversations, accumulated, registered, gateway, agent, connVars,
                      socketVars>>
       => ServerStep
  /\ \A m \in Messages :
       /\ mail[m].pc = "dispatched"
       /\ mail' = [mail EXCEPT ![m] = [mail[m] EXCEPT !.pc = "queued"]]
       /\ requests' = Append(requests, [kind |-> "prompt", by |-> m])
       /\ UNCHANGED <<mapVars, registered, gateway, agent, serving, notifications, sent,
                      socketVars>>
       => ServerStep
  /\ \A m \in Messages :
       /\ mail[m].pc = "ended"
       /\ mail' = [mail EXCEPT ![m] = [mail[m] EXCEPT !.pc = "done"]]
       /\ Broadcast([session |-> mail[m].session, chunk |-> NoOne])
       /\ UNCHANGED <<mapVars, registered, gateway, agent, connVars, completed>>
       => ServerStep
  /\ \A s \in Sockets :
       /\ socket[s].cancel # NoOne /\ ~socket[s].waits
       /\ socket' = [socket EXCEPT ![s].cancel = NoOne]
       /\ UNCHANGED <<mail, mapVars, registered, gateway, agent, connVars, completed>>
       => ServerStep
  /\ (/\ serving = NoOne /\ requests # <<>>
      /\ serving' = Head(requests) /\ requests' = Tail(requests)
      /\ UNCHANGED <<mail, mapVars, registered, gateway, agent, notifications, sent, socketVars>>)
       => ServerStep
  /\ (/\ serving # NoOne /\ serving.kind = "create"
      /\ mail' = [mail EXCEPT ![serving.by] = [mail[serving.by] EXCEPT !.pc = "failed"]]
      /\ gateway' = NoOne /\ serving' = NoOne
      /\ UNCHANGED <<mapVars, registered, agent, requests, notifications, sent, socketVars>>)
       => ServerStep
  /\ (/\ serving # NoOne /\ serving.kind = "prompt"
      /\ mail' = [mail EXCEPT ![serving.by] = [mail[serving.by] EXCEPT !.pc = "ended"]]
      /\ serving' = NoOne
      /\ UNCHANGED <<mapVars, registered, gateway, agent, requests, notifications, sent,
                     socketVars>>)
       => ServerStep
  /\ (/\ serving # NoOne /\ serving.kind = "cancel"
      /\ registered' = IF agent = "up" THEN registered \ {socket[serving.by].cancel}
                                       ELSE registered
      /\ socket' = [socket EXCEPT ![serving.by].cancel = NoOne, ![serving.by].waits = FALSE]
      /\ gateway' = NoOne /\ serving' = NoOne
      /\ UNCHANGED <<mail, mapVars, agent, requests, notifications, sent, completed>>)
       => ServerStep
<1> USE DEF ServerStep, Step, SetMail, mapVars, connVars, socketVars
<1>1. ASSUME NEW m \in Messages, mail[m].pc = "open", ~ConversationsLocked,
             mail' = [mail EXCEPT ![m] =
                     IF conversations[mail[m].conversation] # NoOne
                     THEN [mail[m] EXCEPT !.pc = "map",
                                          !.session = conversations[mail[m].conversation]]
                     ELSE [mail[m] EXCEPT !.pc = "create"]],
             UNCHANGED <<mapVars, registered, gateway, agent, connVars, socketVars>>
      PROVE  ServerStep
  BY <1>1 DEF OpenConversation
<1>2. ASSUME NEW m \in Messages, mail[m].pc \in {"create", "prompt"},
             mail' = [mail EXCEPT ![m] = [mail[m] EXCEPT !.pc = "failed"]],
             UNCHANGED <<mapVars, registered, gateway, agent, connVars, socketVars>>
      PROVE  ServerStep
  BY <1>2 DEF CreateSession, SendPrompt
<1>3. ASSUME NEW m \in Messages, mail[m].pc = "map",
             mail' = [mail EXCEPT ![m] = [mail[m] EXCEPT !.pc = "prompt"]],
             streams' = [streams EXCEPT ![mail[m].session] = m],
             UNCHANGED <<conversations, accumulated, registered, gateway, agent, connVars,
                         socketVars>>
      PROVE  ServerStep
  BY <1>3 DEF MapStream
<1>4. ASSUME NEW m \in Messages, mail[m].pc = "dispatched",
             mail' = [mail EXCEPT ![m] = [mail[m] EXCEPT !.pc = "queued"]],
             requests' = Append(requests, [kind |-> "prompt", by |-> m]),
             UNCHANGED <<mapVars, registered, gateway, agent, serving, notifications, sent,
                         socketVars>>
      PROVE  ServerStep
  BY <1>4 DEF EnqueuePrompt
<1>5. ASSUME NEW m \in Messages, mail[m].pc = "ended",
             mail' = [mail EXCEPT ![m] = [mail[m] EXCEPT !.pc = "done"]],
             Broadcast([session |-> mail[m].session, chunk |-> NoOne]),
             UNCHANGED <<mapVars, registered, gateway, agent, connVars, completed>>
      PROVE  ServerStep
  BY <1>5 DEF SendDone
<1>6. ASSUME NEW s \in Sockets, socket[s].cancel # NoOne, ~socket[s].waits,
             socket' = [socket EXCEPT ![s].cancel = NoOne],
             UNCHANGED <<mail, mapVars, registered, gateway, agent, connVars, completed>>
      PROVE  ServerStep
  BY <1>6 DEF CancelSession
<1> QED
  BY <1>1, <1>2, <1>3, <1>4, <1>5, <1>6 DEF ServeRequest, AnswerCreate, EndTurn, AnswerCancel

(***************************************************************************)
(* acp_handler.rs, acp.rs, connection.rs: while a message is under way or  *)
(* a cancel waits, the guard of some step of the server holds, however     *)
(* the lock of the conversations, the gateway and the connection's queue   *)
(* are held (ChannelNeverStuck says the same with ENABLED).                *)
(***************************************************************************)
THEOREM ServerCanGoOn == ChannelSpec => [](UnderWay => CanGoOn)
<1>1. ChannelInit => Awaited
  BY DEF ChannelInit, Awaited
<1>2. Awaited /\ ChannelIInv /\ [ChannelNext]_channelVars => Awaited'
  BY AwaitedStep, ChannelAssumption
<1>3. ChannelIInv /\ Awaited => (UnderWay => CanGoOn)
  <2> SUFFICES ASSUME ChannelIInv, Awaited, UnderWay PROVE CanGoOn
    OBVIOUS
  <2>1. \A request \in Calls : Pending(request) => CanGoOn
    <3>1. serving # NoOne => serving.kind \in {"create", "prompt", "cancel"}
      BY DEF ChannelIInv, QueueOK, Calls
    <3>2. \A i \in DOMAIN requests : requests # <<>>
      OBVIOUS
    <3> QED
      BY <3>1, <3>2, NoOneIsNoCall, ChannelAssumption DEF Pending, CanGoOn
  <2>2. \A m \in Messages : mail[m].pc \in MailSteps
    BY DEF ChannelIInv, MailsOK
  <2>3. CASE \E m \in Messages : mail[m].pc \notin {"idle", "done", "failed"}
    <3>1. \A m \in Messages : mail[m].pc \in {"creating", "queued"} => CanGoOn
      BY <2>1 DEF Awaited, Calls
    <3>2. ConversationsLocked => CanGoOn
      BY <3>1 DEF ConversationsLocked, CanGoOn
    <3> QED
      BY <2>2, <2>3, <3>1, <3>2 DEF MailSteps, CanGoOn
  <2>4. CASE \E s \in Sockets : socket[s].cancel # NoOne
    BY <2>1, <2>4 DEF Awaited, Calls, CanGoOn
  <2> QED
    BY <2>3, <2>4 DEF UnderWay
<1> QED
  BY <1>1, <1>2, <1>3, ChannelSafe, PTL DEF ChannelSpec

-----------------------------------------------------------------------------
(* AgentSetup.  A launch repeats what a call has known since it began, and *)
(* that may be long out of date: the inductive invariant keeps for each    *)
(* call what was so then (CallOK), and for each binary of the cache, which *)
(* several callers may be writing, what it was copied from (BinOK).        *)

\* Steps at which a call searches for the agents, and the one after it.
Searches == {"detect", "fetch", "install", "copying", "spawn"}
SearchFields == {"pc", "purpose", "config", "todo", "found", "asset", "release", "told",
                 "shadowed"}

\* An asset is for this machine, if the release has such a one.
Chosen(asset, release) ==
    (\E i \in DOMAIN release : release[i].prefix /\ release[i].target = HostTarget)
        => asset.target = HostTarget

\* A call has a configuration. One that searches has found commands of known agents, and
\* works through the agents; a launch has the agent that the user was told is set, unless a
\* failed write stands in between. Its command is one of that agent when it is spawned, and
\* what it downloads is for this machine.
CallOK(x, faults) ==
    /\ x.pc \in Searches \cup {"idle", "save"}
    /\ x.pc # "idle" => /\ {"pc", "config"} \subseteq DOMAIN x
                        /\ x.config \in Configs
    /\ x.pc \in Searches =>
        /\ SearchFields \subseteq DOMAIN x
        /\ x.found \subseteq Commands
        /\ x.todo \in Seq(Range(AGENTS))
        /\ x.purpose # "set" =>
            /\ ~x.shadowed => x.config.active_agent = x.told.active_agent
            /\ x.shadowed => faults > 0
    /\ x.pc = "spawn" => /\ x.purpose # "set"
                         /\ x.config.active_agent_command.agent = x.config.active_agent
    /\ x.pc \in {"fetch", "install", "copying"} => x.todo # <<>> /\ Head(x.todo) \in Downloads
    /\ x.pc \in {"install", "copying"} => Chosen(x.asset, x.release)

\* A binary in the cache was chosen for this machine, and is whole unless it is being copied
\* or something failed. While a copy is under way there is a binary.
BinOK(bin, copiers, faults) ==
    (bin # Unset \/ copiers # {}) =>
        /\ {"asset", "whole", "release"} \subseteq DOMAIN bin
        /\ Chosen(bin.asset, bin.release)
        /\ ~bin.whole => faults > 0 \/ copiers # {}

SetupTyped ==
    /\ acpFile \in [Places -> Configs \cup {Unset}]
    /\ DOMAIN cachedBin = Downloads
    /\ DOMAIN call = Callers
    /\ told \in Configs
    /\ shadowed \in BOOLEAN
    /\ setupFaults \in Nat

\* What is loaded from the two files is what the user was told, unless a failed write stands
\* in between.
SettingStands ==
    /\ ~shadowed => load_acp_config = told
    /\ shadowed => setupFaults > 0

\* The last launch was of an agent that the user was told is set, by a command of it.
LaunchStands ==
    launched # Unset =>
        /\ launched.config.active_agent_command.agent = launched.config.active_agent
        /\ ~launched.shadowed => launched.config.active_agent = launched.told.active_agent
        /\ launched.shadowed => setupFaults > 0

CallsStand == \A c \in Callers : CallOK(call[c], setupFaults)

BinsStand == \A a \in Downloads : BinOK(cachedBin[a], Copying(a), setupFaults)

\* The inductive invariant.
SetupIInv == SetupTyped /\ SettingStands /\ LaunchStands /\ CallsStand /\ BinsStand

-----------------------------------------------------------------------------

(***************************************************************************)
(* Every set of natural numbers that has an element has a least one.       *)
(***************************************************************************)
LEMMA Least ==
  ASSUME NEW S, S \subseteq Nat, S # {}
  PROVE  \E m \in S : \A k \in S : m <= k
<1>1. PICK m \in S : \A k \in S : <<k, m>> \notin OpToRel(<, Nat)
  BY NatLessThanWellFounded, WFMin
<1>2. \A k \in S : ~ (k < m)
  BY <1>1 DEF OpToRel
<1> QED
  BY <1>2

(***************************************************************************)
(* The shortest of some assets is one of them: lengths are natural         *)
(* numbers, and so are the places in the list.                             *)
(***************************************************************************)
LEMMA ShortestIsOne ==
  ASSUME NEW release \in GithubReleases, NEW among, among \subseteq DOMAIN release, among # {}
  PROVE  Shortest(release, among) \in among
<1>1. \A i \in among : i \in Nat /\ release[i].length \in Nat
  BY SetupAssumption
<1> DEFINE Lengths == {release[i].length : i \in among}
<1>2. PICK m \in Lengths : \A k \in Lengths : m <= k
  <2>1. Lengths \subseteq Nat /\ Lengths # {}
    BY <1>1
  <2> HIDE DEF Lengths
  <2> QED
    BY <2>1, Least
<1> DEFINE Those == {i \in among : release[i].length = m}
<1>3. PICK i \in Those : \A j \in Those : i <= j
  <2>1. Those \subseteq Nat /\ Those # {}
    BY <1>1
  <2> HIDE DEF Those
  <2> QED
    BY <2>1, Least
<1>4. i \in among /\ \A j \in among : \/ release[i].length < release[j].length
                                      \/ release[i].length = release[j].length /\ i <= j
  <2> SUFFICES ASSUME NEW j \in among
               PROVE  \/ release[i].length < release[j].length
                      \/ release[i].length = release[j].length /\ i <= j
    OBVIOUS
  <2>1. release[i].length = m /\ m \in Nat /\ release[j].length \in Nat /\ m <= release[j].length
    BY <1>1, <1>2
  <2>2. release[j].length = m => i <= j
    BY <1>3
  <2> QED
    BY <2>1, <2>2
<1> QED
  BY <1>4 DEF Shortest

(***************************************************************************)
(* select_asset chooses an asset for this machine, if the release has such *)
(* a one.                                                                  *)
(***************************************************************************)
LEMMA SelectedFits ==
  ASSUME NEW release \in GithubReleases
  PROVE  Chosen(select_asset(release), release)
<1> DEFINE named == {i \in DOMAIN release : release[i].prefix}
           fitting == {i \in named : release[i].target = HostTarget}
<1>1. CASE fitting = {}
  BY <1>1 DEF Chosen
<1>2. CASE fitting # {}
  <2>1. Shortest(release, fitting) \in fitting
    BY <1>2, ShortestIsOne
  <2>2. select_asset(release) = release[Shortest(release, fitting)]
    BY <1>2 DEF select_asset
  <2> QED
    BY <2>1, <2>2 DEF Chosen
<1> QED
  BY <1>1, <1>2

-----------------------------------------------------------------------------

(***************************************************************************)
(* A fault that happens later takes nothing away from a call.              *)
(***************************************************************************)
LEMMA MoreFaults ==
  ASSUME NEW x, NEW before \in Nat, NEW after \in Nat, before <= after, CallOK(x, before)
  PROVE  CallOK(x, after)
BY DEF CallOK

(***************************************************************************)
(* A step of one call that neither begins nor ends a copy and leaves the   *)
(* cache alone.                                                            *)
(***************************************************************************)
LEMMA CallerStep ==
  ASSUME SetupIInv, NEW c \in Callers, NEW x, call' = [call EXCEPT ![c] = x],
         CallOK(x, setupFaults'), setupFaults' \in Nat, setupFaults <= setupFaults',
         call[c].pc # "copying", x.pc # "copying", UNCHANGED cachedBin
  PROVE  DOMAIN call' = Callers /\ CallsStand' /\ BinsStand'
<1> USE DEF SetupIInv
<1>1. /\ DOMAIN call' = Callers /\ call'[c] = x
      /\ \A d \in Callers : d # c => call'[d] = call[d]
      /\ setupFaults \in Nat
  BY DEF SetupTyped
<1>2. CallsStand'
  <2> SUFFICES ASSUME NEW d \in Callers PROVE CallOK(call'[d], setupFaults')
    BY DEF CallsStand
  <2>1. CallOK(call[d], setupFaults)
    BY DEF CallsStand
  <2> QED
    BY <1>1, <2>1, MoreFaults
<1>3. \A a : Copying(a)' = Copying(a)
  BY <1>1 DEF Copying
<1>4. BinsStand'
  <2> SUFFICES ASSUME NEW a \in Downloads
               PROVE  BinOK(cachedBin[a], Copying(a), setupFaults')
    BY <1>3 DEF BinsStand
  <2>1. BinOK(cachedBin[a], Copying(a), setupFaults)
    BY DEF BinsStand
  <2> QED
    BY <1>1, <2>1 DEF BinOK
<1> QED
  BY <1>1, <1>2, <1>4

(***************************************************************************)
(* A step that leaves the files alone, and what the user was told.         *)
(***************************************************************************)
LEMMA SameSetting ==
  ASSUME SetupIInv, UNCHANGED <<acpFile, told, shadowed>>,
         setupFaults' \in Nat, setupFaults <= setupFaults'
  PROVE  /\ SettingStands' /\ acpFile' \in [Places -> Configs \cup {Unset}]
         /\ told' \in Configs /\ shadowed' \in BOOLEAN
         /\ UNCHANGED launched => LaunchStands'
<1> USE DEF SetupIInv
<1>1. setupFaults \in Nat
  BY DEF SetupTyped
<1>2. load_acp_config' = load_acp_config
  BY DEF load_acp_config
<1>3. SettingStands'
  BY <1>1, <1>2 DEF SettingStands
<1>4. UNCHANGED launched => LaunchStands'
  BY <1>1 DEF LaunchStands
<1> QED
  BY <1>3, <1>4 DEF SetupTyped

(***************************************************************************)
(* The invariant holds at first.                                           *)
(***************************************************************************)
LEMMA InitSetup == SetupInit => SetupIInv
<1> SUFFICES ASSUME SetupInit PROVE SetupIInv
  OBVIOUS
<1>1. DefaultConfig \in Configs
  BY DEF DefaultConfig, Configs, Modes
<1>2. SetupTyped
  BY <1>1 DEF SetupInit, SetupTyped
<1>3. SettingStands
  BY DEF SetupInit, SettingStands, load_acp_config, Places
<1>4. LaunchStands
  BY DEF SetupInit, LaunchStands
<1>5. CallsStand
  BY DEF SetupInit, CallsStand, CallOK, NoCall, Searches
<1>6. BinsStand
  BY DEF SetupInit, BinsStand, BinOK, Copying, NoCall
<1> QED
  BY <1>2, <1>3, <1>4, <1>5, <1>6 DEF SetupIInv

(***************************************************************************)
(* A search that goes on to the next agent is sound, whether or not it has *)
(* found this one.                                                         *)
(***************************************************************************)
LEMMA OnToTheNext ==
  ASSUME NEW x, NEW faults, CallOK(x, faults), x.pc \in Searches \ {"spawn"}, x.todo # <<>>,
         NEW place \in {"path", "cache"}
  PROVE  /\ CallOK([x EXCEPT !.pc = "detect", !.todo = Tail(@)], faults)
         /\ CallOK([x EXCEPT !.pc = "detect", !.todo = Tail(@),
                       !.found = @ \cup {[agent |-> Head(x.todo), place |-> place]}], faults)
         /\ [x EXCEPT !.pc = "detect", !.todo = Tail(@)].pc = "detect"
         /\ [x EXCEPT !.pc = "detect", !.todo = Tail(@),
                !.found = @ \cup {[agent |-> Head(x.todo), place |-> place]}].pc = "detect"
<1>1. /\ x.todo \in Seq(Range(AGENTS)) /\ SearchFields \subseteq DOMAIN x
      /\ x.found \subseteq Commands /\ x.config \in Configs
      /\ x.purpose # "set" =>
            /\ ~x.shadowed => x.config.active_agent = x.told.active_agent
            /\ x.shadowed => faults > 0
  BY DEF CallOK, Searches
<1>2. Tail(x.todo) \in Seq(Range(AGENTS)) /\ Head(x.todo) \in Range(AGENTS)
  BY <1>1, HeadTailProperties
<1> DEFINE command == [agent |-> Head(x.todo), place |-> place]
           missed == [x EXCEPT !.pc = "detect", !.todo = Tail(@)]
           got == [x EXCEPT !.pc = "detect", !.todo = Tail(@), !.found = @ \cup {command}]
<1>3. command \in Commands
  BY <1>2 DEF Commands
<1> HIDE DEF command
<1>4. /\ DOMAIN missed = DOMAIN x /\ missed.pc = "detect" /\ missed.todo = Tail(x.todo)
      /\ missed.found = x.found /\ missed.config = x.config /\ missed.told = x.told
      /\ missed.shadowed = x.shadowed /\ missed.purpose = x.purpose
  BY <1>1 DEF SearchFields
<1>5. /\ DOMAIN got = DOMAIN x /\ got.pc = "detect" /\ got.todo = Tail(x.todo)
      /\ got.found = x.found \cup {command} /\ got.config = x.config /\ got.told = x.told
      /\ got.shadowed = x.shadowed /\ got.purpose = x.purpose
  BY <1>1 DEF SearchFields
<1> HIDE DEF missed, got
<1>6. CallOK(missed, faults)
  BY <1>1, <1>2, <1>4 DEF CallOK, Searches, SearchFields
<1>7. CallOK(got, faults)
  BY <1>1, <1>2, <1>3, <1>5 DEF CallOK, Searches, SearchFields
<1> QED
  BY <1>4, <1>5, <1>6, <1>7 DEF missed, got, command

(***************************************************************************)
(* The same, for Found.                                                    *)
(***************************************************************************)
LEMMA FoundOne ==
  ASSUME NEW c \in Callers, NEW faults, CallOK(call[c], faults),
         call[c].pc \in {"detect", "fetch", "install", "copying"}, call[c].todo # <<>>,
         NEW place \in {"path", "cache"}, Found(c, place)
  PROVE  \E y : call' = [call EXCEPT ![c] = y] /\ CallOK(y, faults) /\ y.pc # "copying"
<1> DEFINE x == call[c]
           y == [x EXCEPT !.pc = "detect", !.todo = Tail(@),
                   !.found = @ \cup {[agent |-> Head(x.todo), place |-> place]}]
<1>1. call' = [call EXCEPT ![c] = y]
  BY DEF Found, Continue
<1>2. CallOK(y, faults) /\ y.pc = "detect"
  <2> HIDE DEF x
  <2>1. CallOK(x, faults) /\ x.pc \in Searches \ {"spawn"} /\ x.todo # <<>>
    BY DEF x, Searches
  <2> QED
    BY <2>1, OnToTheNext
<1> HIDE DEF y
<1> QED
  BY <1>1, <1>2

(***************************************************************************)
(* The same, for Missing.                                                  *)
(***************************************************************************)
LEMMA MissedOne ==
  ASSUME NEW c \in Callers, NEW faults, CallOK(call[c], faults),
         call[c].pc \in {"detect", "fetch", "install", "copying"}, call[c].todo # <<>>,
         Missing(c)
  PROVE  \E y : call' = [call EXCEPT ![c] = y] /\ CallOK(y, faults) /\ y.pc # "copying"
<1> DEFINE x == call[c]
           y == [x EXCEPT !.pc = "detect", !.todo = Tail(@)]
<1>1. call' = [call EXCEPT ![c] = y]
  BY DEF Missing, Continue
<1>2. CallOK(y, faults) /\ y.pc = "detect"
  <2> HIDE DEF x
  <2>1. CallOK(x, faults) /\ x.pc \in Searches \ {"spawn"} /\ x.todo # <<>>
    BY DEF x, Searches
  <2> QED
    BY <2>1, OnToTheNext
<1> HIDE DEF y
<1> QED
  BY <1>1, <1>2

(***************************************************************************)
(* DetectAgent keeps the invariant.                                        *)
(***************************************************************************)
LEMMA DetectKeeps ==
  ASSUME SetupIInv, NEW c \in Callers, DetectAgent(c)
  PROVE  SetupIInv'
<1> USE DEF SetupIInv
<1> DEFINE x == call[c]
           a == Head(x.todo)
<1>1. /\ x.pc = "detect" /\ x.todo # <<>>
      /\ UNCHANGED <<acpFile, cachedBin, launched, told, shadowed, setupFaults>>
  BY DEF DetectAgent
<1>2. CallOK(x, setupFaults) /\ setupFaults \in Nat
  BY DEF CallsStand, SetupTyped
<1>0. setupFaults' \in Nat /\ setupFaults <= setupFaults'
  BY <1>1, <1>2
<1>3. PICK y : call' = [call EXCEPT ![c] = y] /\ CallOK(y, setupFaults) /\ y.pc # "copying"
  <2>1. \/ \E place \in {"path", "cache"} : Found(c, place)
        \/ Missing(c)
        \/ a \in Downloads /\ Continue(c, [x EXCEPT !.pc = "fetch"])
    BY DEF DetectAgent
  <2>2. ASSUME NEW place \in {"path", "cache"}, Found(c, place)
        PROVE  \E y : call' = [call EXCEPT ![c] = y] /\ CallOK(y, setupFaults) /\ y.pc # "copying"
    BY <1>1, <1>2, <2>2, FoundOne
  <2>3. CASE Missing(c)
    BY <1>1, <1>2, <2>3, MissedOne
  <2>4. CASE a \in Downloads /\ Continue(c, [x EXCEPT !.pc = "fetch"])
    <3> DEFINE y == [x EXCEPT !.pc = "fetch"]
    <3>1. SearchFields \subseteq DOMAIN x
      BY <1>1, <1>2 DEF CallOK, Searches
    <3>2. /\ DOMAIN y = DOMAIN x /\ y.pc = "fetch" /\ y.todo = x.todo
          /\ y.found = x.found /\ y.config = x.config /\ y.told = x.told
          /\ y.shadowed = x.shadowed /\ y.purpose = x.purpose
      BY <3>1 DEF SearchFields
    <3>3. call' = [call EXCEPT ![c] = y]
      BY <2>4 DEF Continue
    <3> HIDE DEF y
    <3>4. CallOK(y, setupFaults)
      BY <1>1, <1>2, <2>4, <3>2 DEF CallOK, Searches
    <3> QED
      BY <3>2, <3>3, <3>4
  <2> QED
    BY <2>1, <2>2, <2>3, <2>4
<1>4. DOMAIN call' = Callers /\ CallsStand' /\ BinsStand'
  BY <1>1, <1>3, <1>0, CallerStep
<1>5. SettingStands' /\ acpFile' \in [Places -> Configs \cup {Unset}] /\ LaunchStands'
      /\ told' \in Configs /\ shadowed' \in BOOLEAN
  BY <1>1, <1>0, SameSetting
<1>6. SetupTyped'
  BY <1>1, <1>4, <1>5 DEF SetupTyped
<1> QED
  BY <1>4, <1>5, <1>6

(***************************************************************************)
(* FetchRelease keeps the invariant: what is to be installed was selected  *)
(* from the release.                                                       *)
(***************************************************************************)
LEMMA FetchKeeps ==
  ASSUME SetupIInv, NEW c \in Callers, FetchRelease(c)
  PROVE  SetupIInv'
<1> USE DEF SetupIInv
<1> DEFINE x == call[c]
<1>1. /\ x.pc = "fetch"
      /\ UNCHANGED <<acpFile, cachedBin, launched, told, shadowed, setupFaults>>
  BY DEF FetchRelease
<1>2. CallOK(x, setupFaults) /\ setupFaults \in Nat
  BY DEF CallsStand, SetupTyped
<1>0. setupFaults' \in Nat /\ setupFaults <= setupFaults'
  BY <1>1, <1>2
<1>3. x.todo # <<>> /\ Head(x.todo) \in Downloads /\ SearchFields \subseteq DOMAIN x
  BY <1>1, <1>2 DEF CallOK, Searches
<1>4. PICK y : call' = [call EXCEPT ![c] = y] /\ CallOK(y, setupFaults) /\ y.pc # "copying"
  <2>1. CASE Missing(c)
    BY <1>1, <1>2, <1>3, <2>1, MissedOne
  <2>2. ASSUME NEW release \in GithubReleases,
               Continue(c, [x EXCEPT !.pc = "install", !.asset = select_asset(release),
                                     !.release = release])
        PROVE  \E y : call' = [call EXCEPT ![c] = y] /\ CallOK(y, setupFaults) /\ y.pc # "copying"
    <3> DEFINE asset == select_asset(release)
               y == [x EXCEPT !.pc = "install", !.asset = asset, !.release = release]
    <3>1. Chosen(asset, release)
      BY SelectedFits
    <3> HIDE DEF asset
    <3>2. /\ DOMAIN y = DOMAIN x
          /\ y.pc = "install" /\ y.asset = asset /\ y.release = release
          /\ y.todo = x.todo /\ y.found = x.found /\ y.config = x.config
          /\ y.told = x.told /\ y.shadowed = x.shadowed /\ y.purpose = x.purpose
      BY <1>3 DEF SearchFields
    <3>3. call' = [call EXCEPT ![c] = y]
      BY <2>2 DEF Continue, asset
    <3> HIDE DEF y
    <3>4. CallOK(y, setupFaults)
      BY <1>1, <1>2, <3>1, <3>2 DEF CallOK, Searches
    <3> QED
      BY <3>2, <3>3, <3>4
  <2> QED
    BY <2>1, <2>2 DEF FetchRelease
<1>5. DOMAIN call' = Callers /\ CallsStand' /\ BinsStand'
  BY <1>1, <1>4, <1>0, CallerStep
<1>6. SettingStands' /\ acpFile' \in [Places -> Configs \cup {Unset}] /\ LaunchStands'
      /\ told' \in Configs /\ shadowed' \in BOOLEAN
  BY <1>1, <1>0, SameSetting
<1>7. SetupTyped'
  BY <1>1, <1>5, <1>6 DEF SetupTyped
<1> QED
  BY <1>5, <1>6, <1>7

(***************************************************************************)
(* BeginCopy keeps the invariant: the binary that is not whole is being    *)
(* copied.                                                                 *)
(***************************************************************************)
LEMMA BeginCopyKeeps ==
  ASSUME SetupIInv, NEW c \in Callers, BeginCopy(c)
  PROVE  SetupIInv'
<1> USE DEF SetupIInv
<1> DEFINE x == call[c]
           a == Head(x.todo)
           bin == [asset |-> x.asset, whole |-> FALSE, release |-> x.release]
           y == [x EXCEPT !.pc = "copying"]
<1>1. /\ x.pc = "install" /\ cachedBin' = [cachedBin EXCEPT ![a] = bin]
      /\ call' = [call EXCEPT ![c] = y]
      /\ UNCHANGED <<acpFile, launched, told, shadowed, setupFaults>>
  BY DEF BeginCopy, Continue
<1>2. CallOK(x, setupFaults) /\ setupFaults \in Nat /\ DOMAIN call = Callers
  BY DEF CallsStand, SetupTyped
<1>3. /\ x.todo # <<>> /\ a \in Downloads /\ SearchFields \subseteq DOMAIN x
      /\ Chosen(x.asset, x.release)
  BY <1>1, <1>2 DEF CallOK, Searches
<1>4. /\ DOMAIN y = DOMAIN x /\ y.pc = "copying" /\ y.todo = x.todo
      /\ y.found = x.found /\ y.config = x.config /\ y.told = x.told
      /\ y.shadowed = x.shadowed /\ y.purpose = x.purpose
      /\ y.asset = x.asset /\ y.release = x.release
  BY <1>3 DEF SearchFields
<1> HIDE DEF y
<1>5. CallOK(y, setupFaults)
  BY <1>1, <1>2, <1>4 DEF CallOK, Searches
<1>6. /\ DOMAIN call' = Callers /\ call'[c] = y
      /\ \A d \in Callers : d # c => call'[d] = call[d]
  BY <1>1, <1>2
<1>7. CallsStand'
  BY <1>1, <1>5, <1>6 DEF CallsStand
<1>8. /\ {"asset", "whole", "release"} \subseteq DOMAIN bin
      /\ Chosen(bin.asset, bin.release)
  BY <1>3
<1> HIDE DEF bin
<1>9. /\ DOMAIN cachedBin' = Downloads /\ cachedBin'[a] = bin
      /\ \A b \in Downloads : b # a => cachedBin'[b] = cachedBin[b]
  BY <1>1, <1>3 DEF SetupTyped
<1>10. BinsStand'
  <2> SUFFICES ASSUME NEW b \in Downloads
               PROVE  BinOK(cachedBin'[b], Copying(b)', setupFaults')
    BY DEF BinsStand
  <2>1. CASE b = a
    <3>1. c \in Copying(b)'
      BY <1>4, <1>6, <2>1 DEF Copying
    <3> QED
      BY <1>8, <1>9, <2>1, <3>1 DEF BinOK
  <2>2. CASE b # a
    <3>1. Copying(b)' = Copying(b)
      BY <1>1, <1>4, <1>6, <2>2 DEF Copying
    <3>2. BinOK(cachedBin[b], Copying(b), setupFaults)
      BY DEF BinsStand
    <3> QED
      BY <1>1, <1>9, <2>2, <3>1, <3>2
  <2> QED
    BY <2>1, <2>2
<1>11. setupFaults' \in Nat /\ setupFaults <= setupFaults'
  BY <1>1, <1>2
<1>12. SettingStands' /\ acpFile' \in [Places -> Configs \cup {Unset}] /\ LaunchStands'
       /\ told' \in Configs /\ shadowed' \in BOOLEAN
  BY <1>1, <1>11, SameSetting
<1>13. SetupTyped'
  BY <1>6, <1>9, <1>11, <1>12 DEF SetupTyped
<1> QED
  BY <1>7, <1>10, <1>12, <1>13

(***************************************************************************)
(* EndCopy keeps the invariant: the binary is whole, or another copy is    *)
(* still under way, or the disk was full.                                  *)
(***************************************************************************)
LEMMA EndCopyKeeps ==
  ASSUME SetupIInv, NEW c \in Callers, EndCopy(c)
  PROVE  SetupIInv'
<1> USE DEF SetupIInv
<1> DEFINE x == call[c]
<1>1. x.pc = "copying" /\ UNCHANGED <<acpFile, launched, told, shadowed>>
  BY DEF EndCopy
<1>2. CallOK(x, setupFaults) /\ setupFaults \in Nat /\ DOMAIN call = Callers
  BY DEF CallsStand, SetupTyped
<1>3. PICK a \in Downloads : a = Head(x.todo) /\ x.todo # <<>>
  BY <1>1, <1>2 DEF CallOK
<1>20. c \in Copying(a)
  BY <1>1, <1>3 DEF Copying
<1>4. \/ /\ cachedBin' = [cachedBin EXCEPT ![a].whole = Copying(a) = {c}]
         /\ Found(c, "cache") /\ setupFaults' = setupFaults
      \/ /\ setupFaults' = setupFaults + 1 /\ Missing(c) /\ cachedBin' = cachedBin
  BY <1>3 DEF EndCopy
<1>5. setupFaults' \in Nat /\ setupFaults <= setupFaults'
  BY <1>2, <1>4
<1>6. PICK y : call' = [call EXCEPT ![c] = y] /\ CallOK(y, setupFaults) /\ y.pc # "copying"
  <2>1. CASE Found(c, "cache")
    BY <1>1, <1>2, <1>3, <2>1, FoundOne
  <2>2. CASE Missing(c)
    BY <1>1, <1>2, <1>3, <2>2, MissedOne
  <2> QED
    BY <1>4, <2>1, <2>2
<1>7. CallOK(y, setupFaults')
  BY <1>2, <1>5, <1>6, MoreFaults
<1>8. /\ DOMAIN call' = Callers /\ call'[c] = y
      /\ \A d \in Callers : d # c => call'[d] = call[d]
  BY <1>2, <1>6
<1>9. CallsStand'
  <2> SUFFICES ASSUME NEW d \in Callers PROVE CallOK(call'[d], setupFaults')
    BY DEF CallsStand
  <2>1. CallOK(call[d], setupFaults)
    BY DEF CallsStand
  <2>2. CallOK(call[d], setupFaults')
    BY <1>2, <1>5, <2>1, MoreFaults
  <2> QED
    BY <1>7, <1>8, <2>2
<1>10. /\ Copying(a)' = Copying(a) \ {c}
       /\ \A b : b # a => Copying(b)' = Copying(b)
  <2>1. \A b, d : d \in Copying(b) <=> /\ d \in Callers /\ call[d].pc = "copying"
                                        /\ Head(call[d].todo) = b
    BY DEF Copying
  <2>2. \A b, d : d \in Copying(b)' <=> /\ d \in Callers /\ call'[d].pc = "copying"
                                         /\ Head(call'[d].todo) = b
    BY DEF Copying
  <2>3. \A b, d : d \in Copying(b)' <=> d \in Copying(b) /\ d # c
    <3> SUFFICES ASSUME NEW b, NEW d PROVE d \in Copying(b)' <=> d \in Copying(b) /\ d # c
      OBVIOUS
    <3>1. CASE d = c
      BY <1>6, <1>8, <2>2, <3>1
    <3>2. CASE d # c
      BY <1>8, <2>1, <2>2, <3>2
    <3> QED
      BY <3>1, <3>2
  <2>4. \A b : b # a => c \notin Copying(b)
    BY <1>3, <2>1
  <2>5. Copying(a)' = Copying(a) \ {c}
    BY <2>3
  <2>6. ASSUME NEW b, b # a PROVE Copying(b)' = Copying(b)
    BY <2>3, <2>4, <2>6
  <2> QED
    BY <2>5, <2>6
<1>11. BinOK(cachedBin[a], Copying(a), setupFaults)
  BY <1>3 DEF BinsStand
<1>12. DOMAIN cachedBin' = Downloads /\ \A b \in Downloads : b # a => cachedBin'[b] = cachedBin[b]
  BY <1>3, <1>4 DEF SetupTyped
<1>13. BinOK(cachedBin'[a], Copying(a)', setupFaults')
  <2> DEFINE bin == cachedBin[a]
  <2>1. /\ {"asset", "whole", "release"} \subseteq DOMAIN bin
        /\ Chosen(bin.asset, bin.release)
    BY <1>20, <1>11 DEF BinOK
  <2>2. CASE cachedBin' = cachedBin /\ setupFaults' = setupFaults + 1
    BY <1>2, <2>1, <2>2 DEF BinOK
  <2>3. CASE cachedBin' = [cachedBin EXCEPT ![a].whole = Copying(a) = {c}]
    <3> DEFINE new == [bin EXCEPT !.whole = Copying(a) = {c}]
    <3>1. cachedBin'[a] = new
      BY <1>3, <2>3 DEF SetupTyped
    <3>2. /\ DOMAIN new = DOMAIN bin /\ new.asset = bin.asset /\ new.release = bin.release
          /\ new.whole = (Copying(a) = {c})
      BY <2>1
    <3> HIDE DEF new, bin
    <3>3. ~new.whole => Copying(a)' # {}
      BY <1>20, <1>10, <3>2
    <3> QED
      BY <2>1, <3>1, <3>2, <3>3 DEF BinOK
  <2> QED
    BY <1>4, <2>2, <2>3
<1>14. BinsStand'
  <2> SUFFICES ASSUME NEW b \in Downloads
               PROVE  BinOK(cachedBin'[b], Copying(b)', setupFaults')
    BY DEF BinsStand
  <2>1. CASE b = a
    BY <1>13, <2>1
  <2>2. CASE b # a
    <3>1. BinOK(cachedBin[b], Copying(b), setupFaults)
      BY DEF BinsStand
    <3> QED
      <4>1. Copying(b)' = Copying(b) /\ cachedBin'[b] = cachedBin[b]
        BY <1>10, <1>12, <2>2
      <4>2. BinOK(cachedBin[b], Copying(b), setupFaults')
        BY <1>2, <1>5, <3>1 DEF BinOK
      <4> QED
        BY <4>1, <4>2
  <2> QED
    BY <2>1, <2>2
<1>15. SettingStands' /\ acpFile' \in [Places -> Configs \cup {Unset}] /\ LaunchStands'
       /\ told' \in Configs /\ shadowed' \in BOOLEAN
  BY <1>1, <1>5, SameSetting
<1>16. SetupTyped'
  BY <1>5, <1>8, <1>12, <1>15 DEF SetupTyped
<1> QED
  BY <1>9, <1>14, <1>15, <1>16

(***************************************************************************)
(* What is loaded is a configuration.                                      *)
(***************************************************************************)
LEMMA Loaded ==
  ASSUME acpFile \in [Places -> Configs \cup {Unset}]
  PROVE  load_acp_config \in Configs
<1>1. DefaultConfig \in Configs
  BY DEF DefaultConfig, Configs, Modes
<1> QED
  BY <1>1 DEF load_acp_config, Places

(***************************************************************************)
(* SetAcpConfig and LaunchAgent keep the invariant: a launch begins with   *)
(* what is loaded then.                                                    *)
(***************************************************************************)
LEMMA BeginKeeps ==
  ASSUME SetupIInv, NEW c \in Callers, SetAcpConfig(c) \/ LaunchAgent(c)
  PROVE  SetupIInv'
<1> USE DEF SetupIInv
<1>1. /\ call[c] = NoCall
      /\ UNCHANGED <<acpFile, cachedBin, launched, told, shadowed, setupFaults>>
  BY DEF SetAcpConfig, LaunchAgent
<1>2. call[c].pc # "copying"
  BY <1>1 DEF NoCall
<1>3. setupFaults \in Nat /\ setupFaults' \in Nat /\ setupFaults <= setupFaults'
  BY <1>1 DEF SetupTyped
<1>4. ASSUME NEW purpose \in {"set", "launch"}, NEW config \in Configs,
             purpose = "launch" => config = load_acp_config
      PROVE  CallOK(Search(purpose, config), setupFaults')
  <2>1. AGENTS \in Seq(Range(AGENTS))
    BY SetupAssumption
  <2>2. ~shadowed => load_acp_config.active_agent = told.active_agent
    BY DEF SettingStands
  <2>3. shadowed => setupFaults > 0
    BY DEF SettingStands
  <2> QED
    BY <1>1, <1>4, <2>1, <2>2, <2>3 DEF Search, CallOK, Searches, SearchFields
<1>5. PICK x : /\ call' = [call EXCEPT ![c] = x]
               /\ CallOK(x, setupFaults') /\ x.pc # "copying"
  <2>1. CASE Continue(c, [pc |-> "save", config |-> DefaultConfig])
    <3>1. DefaultConfig \in Configs
      BY DEF DefaultConfig, Configs, Modes
    <3> DEFINE x == [pc |-> "save", config |-> DefaultConfig]
    <3>2. call' = [call EXCEPT ![c] = x]
      BY <2>1 DEF Continue
    <3>3. CallOK(x, setupFaults') /\ x.pc # "copying"
      BY <3>1 DEF CallOK, Searches
    <3> HIDE DEF x
    <3> QED
      BY <3>2, <3>3
  <2>2. ASSUME NEW purpose \in {"set", "launch"}, NEW config \in Configs,
               purpose = "launch" => config = load_acp_config,
               Continue(c, Search(purpose, config))
        PROVE  \E x : /\ call' = [call EXCEPT ![c] = x]
                      /\ CallOK(x, setupFaults') /\ x.pc # "copying"
    <3>1. call' = [call EXCEPT ![c] = Search(purpose, config)]
      BY <2>2 DEF Continue
    <3>2. CallOK(Search(purpose, config), setupFaults')
      BY <1>4, <2>2
    <3>3. Search(purpose, config).pc # "copying"
      BY DEF Search
    <3> QED
      BY <3>1, <3>2, <3>3
  <2>3. CASE SetAcpConfig(c)
    <3>1. ASSUME NEW b \in Range(AGENTS)
          PROVE  [active_mode |-> "external_agent", active_agent |-> b,
                  active_agent_command |-> Unset] \in Configs
      BY DEF Configs, Modes
    <3>2. \/ Continue(c, [pc |-> "save", config |-> DefaultConfig])
          \/ \E config \in Configs : Continue(c, Search("set", config))
      BY <2>3, <3>1 DEF SetAcpConfig
    <3> QED
      BY <2>1, <2>2, <3>2
  <2>4. CASE LaunchAgent(c)
    <3>1. Continue(c, Search("launch", load_acp_config))
      BY <2>4 DEF LaunchAgent
    <3>2. load_acp_config \in Configs
      BY Loaded DEF SetupTyped
    <3> QED
      BY <2>2, <3>1, <3>2
  <2> QED
    BY <2>3, <2>4
<1>6. DOMAIN call' = Callers /\ CallsStand' /\ BinsStand'
  BY <1>1, <1>2, <1>3, <1>5, CallerStep
<1>7. SettingStands' /\ acpFile' \in [Places -> Configs \cup {Unset}] /\ LaunchStands'
      /\ told' \in Configs /\ shadowed' \in BOOLEAN
  BY <1>1, <1>3, SameSetting
<1>8. SetupTyped'
  BY <1>1, <1>3, <1>6, <1>7 DEF SetupTyped
<1> QED
  BY <1>6, <1>7, <1>8

(***************************************************************************)
(* resolve_active_agent_command returns a command of the configuration's   *)
(* agent, or none.                                                         *)
(***************************************************************************)
LEMMA CommandIsOfTheAgent ==
  ASSUME NEW config \in Configs, NEW found, found \subseteq Commands,
         resolve_active_agent_command(config, found) # Unset
  PROVE  /\ resolve_active_agent_command(config, found) \in Commands
         /\ resolve_active_agent_command(config, found).agent = config.active_agent
<1>1. config.active_agent_command \in Commands \cup {Unset}
  BY DEF Configs
<1>2. CASE /\ config.active_agent_command # Unset
           /\ config.active_agent_command.agent = config.active_agent
  BY <1>1, <1>2 DEF resolve_active_agent_command
<1>3. CASE ~ /\ config.active_agent_command # Unset
             /\ config.active_agent_command.agent = config.active_agent
  <2> DEFINE those == CHOOSE f \in found : f.agent = config.active_agent
  <2>1. (\E f \in found : f.agent = config.active_agent)
        /\ resolve_active_agent_command(config, found) = those
    BY <1>3 DEF resolve_active_agent_command
  <2>2. those \in found /\ those.agent = config.active_agent
    BY <2>1
  <2> QED
    BY <2>1, <2>2
<1> QED
  BY <1>2, <1>3

(***************************************************************************)
(* Resolve keeps the invariant: the command a call goes on with is one of  *)
(* its agent.                                                              *)
(***************************************************************************)
LEMMA ResolveKeeps ==
  ASSUME SetupIInv, NEW c \in Callers, Resolve(c)
  PROVE  SetupIInv'
<1> USE DEF SetupIInv
<1> DEFINE x == call[c]
<1>1. /\ x.pc = "detect"
      /\ UNCHANGED <<acpFile, cachedBin, launched, told, shadowed, setupFaults>>
  BY DEF Resolve
<1>2. CallOK(x, setupFaults) /\ setupFaults \in Nat
  BY DEF CallsStand, SetupTyped
<1>3. setupFaults' \in Nat /\ setupFaults <= setupFaults'
  BY <1>1, <1>2
<1>4. /\ SearchFields \subseteq DOMAIN x /\ x.config \in Configs /\ x.found \subseteq Commands
  BY <1>1, <1>2 DEF CallOK, Searches
<1> DEFINE command == resolve_active_agent_command(x.config, x.found)
<1>5. PICK y : call' = [call EXCEPT ![c] = y] /\ CallOK(y, setupFaults) /\ y.pc # "copying"
  <2>1. CASE command = Unset
    <3>1. call' = [call EXCEPT ![c] = NoCall]
      BY <2>1 DEF Resolve, Return, Continue
    <3>2. CallOK(NoCall, setupFaults) /\ NoCall.pc # "copying"
      BY DEF NoCall, CallOK, Searches
    <3> QED
      BY <3>1, <3>2
  <2>2. CASE command # Unset
    <3>1. command \in Commands /\ command.agent = x.config.active_agent
      BY <1>4, <2>2, CommandIsOfTheAgent
    <3>2. Continue(c, [x EXCEPT !.config.active_agent_command = command,
                                !.pc = IF x.purpose = "set" THEN "save" ELSE "spawn"])
      BY <2>2 DEF Resolve
    <3> HIDE DEF command
    <3> DEFINE config == [x.config EXCEPT !.active_agent_command = command]
               y == [x EXCEPT !.config.active_agent_command = command,
                              !.pc = IF x.purpose = "set" THEN "save" ELSE "spawn"]
    <3>3. /\ config \in Configs /\ config.active_agent = x.config.active_agent
          /\ config.active_agent_command = command
      BY <1>4, <3>1 DEF Configs
    <3>4. call' = [call EXCEPT ![c] = y]
      BY <3>2 DEF Continue
    <3>5. /\ DOMAIN y = DOMAIN x /\ y.config = config
          /\ y.pc = IF x.purpose = "set" THEN "save" ELSE "spawn"
          /\ y.todo = x.todo /\ y.found = x.found /\ y.told = x.told
          /\ y.shadowed = x.shadowed /\ y.purpose = x.purpose
      BY <1>4 DEF SearchFields
    <3> HIDE DEF y, config
    <3>6. CallOK(y, setupFaults)
      BY <1>1, <1>2, <1>4, <3>1, <3>3, <3>5 DEF CallOK, Searches, SearchFields
    <3> QED
      BY <3>4, <3>5, <3>6
  <2> QED
    BY <2>1, <2>2
<1>6. DOMAIN call' = Callers /\ CallsStand' /\ BinsStand'
  BY <1>1, <1>3, <1>5, CallerStep
<1>7. SettingStands' /\ acpFile' \in [Places -> Configs \cup {Unset}] /\ LaunchStands'
      /\ told' \in Configs /\ shadowed' \in BOOLEAN
  BY <1>1, <1>3, SameSetting
<1>8. SetupTyped'
  BY <1>1, <1>6, <1>7 DEF SetupTyped
<1> QED
  BY <1>6, <1>7, <1>8

(***************************************************************************)
(* A call that returns, outside a copy.                                    *)
(***************************************************************************)
LEMMA Returned ==
  ASSUME SetupIInv, NEW c \in Callers, Return(c), call[c].pc # "copying",
         UNCHANGED cachedBin, setupFaults' \in Nat, setupFaults <= setupFaults'
  PROVE  DOMAIN call' = Callers /\ CallsStand' /\ BinsStand'
<1>1. call' = [call EXCEPT ![c] = NoCall]
  BY DEF Return, Continue
<1>2. CallOK(NoCall, setupFaults') /\ NoCall.pc # "copying"
  BY DEF NoCall, CallOK, Searches
<1> QED
  BY <1>1, <1>2, CallerStep

(***************************************************************************)
(* SaveConfig keeps the invariant, wherever the write went and whatever it *)
(* has left of the file.                                                   *)
(***************************************************************************)
LEMMA SaveKeeps ==
  ASSUME SetupIInv, NEW c \in Callers, SaveConfig(c)
  PROVE  SetupIInv'
<1> USE DEF SetupIInv
<1> DEFINE config == call[c].config
<1>1. call[c].pc = "save" /\ Return(c) /\ UNCHANGED <<cachedBin, launched>>
  BY DEF SaveConfig
<1>2. setupFaults \in Nat /\ acpFile \in [Places -> Configs \cup {Unset}] /\ config \in Configs
  BY <1>1 DEF SetupTyped, CallsStand, CallOK
<1>3. Unset \notin Configs /\ TornConfig \in Configs
  BY SetupAssumption DEF TornConfig, DefaultConfig, Configs, Modes
<1>4. \/ /\ acpFile' = [acpFile EXCEPT !["app"] = config]
         /\ told' = config /\ shadowed' = FALSE /\ setupFaults' = setupFaults
      \/ /\ setupFaults' = setupFaults + 1
         /\ \E files \in FailedWrite("app", acpFile) :
               \/ /\ acpFile' = [files EXCEPT !["workspace"] = config]
                  /\ told' = config /\ shadowed' = (files["app"] # Unset)
               \/ /\ acpFile' \in FailedWrite("workspace", files)
                  /\ told' = told /\ shadowed' = (shadowed \/ acpFile' # acpFile)
  BY DEF SaveConfig
<1>5. setupFaults' \in Nat /\ setupFaults <= setupFaults'
  BY <1>2, <1>4
<1> HIDE DEF config
<1>6. /\ acpFile' \in [Places -> Configs \cup {Unset}] /\ told' \in Configs
      /\ shadowed' \in BOOLEAN
      /\ SettingStands'
  <2>1. CASE /\ acpFile' = [acpFile EXCEPT !["app"] = config]
             /\ told' = config /\ shadowed' = FALSE /\ setupFaults' = setupFaults
    <3>1. acpFile'["app"] = config /\ acpFile' \in [Places -> Configs \cup {Unset}]
      BY <1>2, <2>1 DEF Places
    <3>2. load_acp_config' = config
      BY <1>2, <1>3, <3>1 DEF load_acp_config
    <3> QED
      BY <1>2, <2>1, <3>1, <3>2 DEF SettingStands
  <2>2. ASSUME setupFaults' = setupFaults + 1, NEW files \in FailedWrite("app", acpFile),
               \/ /\ acpFile' = [files EXCEPT !["workspace"] = config]
                  /\ told' = config /\ shadowed' = (files["app"] # Unset)
               \/ /\ acpFile' \in FailedWrite("workspace", files)
                  /\ told' = told /\ shadowed' = (shadowed \/ acpFile' # acpFile)
        PROVE  /\ acpFile' \in [Places -> Configs \cup {Unset}] /\ told' \in Configs
               /\ shadowed' \in BOOLEAN
               /\ SettingStands'
    <3>1. files \in [Places -> Configs \cup {Unset}]
      BY <1>2, <1>3, <2>2 DEF FailedWrite, Places
    <3>2. setupFaults' > 0
      BY <1>2, <2>2
    <3>3. CASE /\ acpFile' = [files EXCEPT !["workspace"] = config]
               /\ told' = config /\ shadowed' = (files["app"] # Unset)
      <4>1. /\ acpFile'["workspace"] = config /\ acpFile'["app"] = files["app"]
            /\ acpFile' \in [Places -> Configs \cup {Unset}]
        BY <1>2, <3>1, <3>3 DEF Places
      <4>2. ~shadowed' => load_acp_config' = config
        BY <1>2, <1>3, <3>3, <4>1 DEF load_acp_config
      <4> QED
        BY <1>2, <3>2, <3>3, <4>1, <4>2 DEF SettingStands
    <3>4. CASE /\ acpFile' \in FailedWrite("workspace", files)
               /\ told' = told /\ shadowed' = (shadowed \/ acpFile' # acpFile)
      <4>1. acpFile' \in [Places -> Configs \cup {Unset}]
        BY <1>3, <3>1, <3>4 DEF FailedWrite, Places
      <4>2. told' \in Configs /\ shadowed' \in BOOLEAN
        BY <3>4 DEF SetupTyped
      <4>3. ~shadowed' => ~shadowed /\ acpFile' = acpFile
        BY <3>4
      <4>4. ~shadowed' => load_acp_config' = load_acp_config
        BY <4>3 DEF load_acp_config
      <4> QED
        BY <3>2, <3>4, <4>1, <4>2, <4>3, <4>4 DEF SettingStands
    <3> QED
      BY <2>2, <3>3, <3>4
  <2> QED
    BY <1>4, <2>1, <2>2
<1>7. LaunchStands'
  BY <1>1, <1>2, <1>5 DEF LaunchStands
<1>8. DOMAIN call' = Callers /\ CallsStand' /\ BinsStand'
  BY <1>1, <1>5, Returned
<1>9. SetupTyped'
  BY <1>1, <1>5, <1>6, <1>8 DEF SetupTyped
<1> QED
  BY <1>6, <1>7, <1>8, <1>9

(***************************************************************************)
(* SpawnAgent keeps the invariant: the launch is of the configuration the  *)
(* call has.                                                               *)
(***************************************************************************)
LEMMA SpawnKeeps ==
  ASSUME SetupIInv, NEW c \in Callers, SpawnAgent(c)
  PROVE  SetupIInv'
<1> USE DEF SetupIInv
<1> DEFINE x == call[c]
           launch == [config |-> x.config, told |-> x.told, shadowed |-> x.shadowed]
<1>1. /\ x.pc = "spawn" /\ Return(c)
      /\ UNCHANGED <<acpFile, cachedBin, told, shadowed, setupFaults>>
      /\ launched' = launch \/ launched' = launched
  BY DEF SpawnAgent
<1>2. setupFaults' \in Nat /\ setupFaults <= setupFaults'
  BY <1>1 DEF SetupTyped
<1>3. DOMAIN call' = Callers /\ CallsStand' /\ BinsStand'
  BY <1>1, <1>2, Returned
<1>4. /\ SettingStands' /\ acpFile' \in [Places -> Configs \cup {Unset}]
      /\ told' \in Configs /\ shadowed' \in BOOLEAN
      /\ launched' = launched => LaunchStands'
  BY <1>1, <1>2, SameSetting
<1>5. ASSUME launched' = launch PROVE LaunchStands'
  <2>1. /\ x.config.active_agent_command.agent = x.config.active_agent
        /\ ~x.shadowed => x.config.active_agent = x.told.active_agent
        /\ x.shadowed => setupFaults > 0
    BY <1>1 DEF CallsStand, CallOK, Searches
  <2> HIDE DEF x
  <2>2. /\ launch.config = x.config /\ launch.told = x.told /\ launch.shadowed = x.shadowed
    OBVIOUS
  <2>3. /\ launched'.config = x.config /\ launched'.told = x.told
        /\ launched'.shadowed = x.shadowed
    BY <1>5, <2>2
  <2> HIDE DEF launch
  <2>4. launched'.config.active_agent_command.agent = launched'.config.active_agent
    BY <2>1, <2>3
  <2>5. ~launched'.shadowed => launched'.config.active_agent = launched'.told.active_agent
    BY <2>1, <2>3, Zenon
  <2>6. launched'.shadowed => setupFaults' > 0
    BY <1>1, <2>1, <2>3
  <2> QED
    BY <2>4, <2>5, <2>6 DEF LaunchStands
<1>6. SetupTyped'
  BY <1>1, <1>2, <1>3, <1>4 DEF SetupTyped
<1> QED
  BY <1>1, <1>3, <1>4, <1>5, <1>6

(***************************************************************************)
(* RestartServer keeps the invariant: a copy that is cut was cut by a      *)
(* fault.                                                                  *)
(***************************************************************************)
LEMMA RestartKeeps ==
  ASSUME SetupIInv, RestartServer
  PROVE  SetupIInv'
<1> USE DEF SetupIInv
<1>1. /\ setupFaults' = setupFaults + 1 /\ call' = [c \in Callers |-> NoCall]
      /\ UNCHANGED <<acpFile, cachedBin, launched, told, shadowed>>
  BY DEF RestartServer
<1>2. setupFaults' \in Nat /\ setupFaults <= setupFaults' /\ setupFaults' > 0
  BY <1>1 DEF SetupTyped
<1>3. CallsStand'
  BY <1>1 DEF CallsStand, CallOK, NoCall, Searches
<1>4. \A b : Copying(b)' = {}
  BY <1>1 DEF Copying, NoCall
<1>5. BinsStand'
  <2> SUFFICES ASSUME NEW b \in Downloads
               PROVE  BinOK(cachedBin[b], {}, setupFaults')
    BY <1>1, <1>4 DEF BinsStand
  <2>1. BinOK(cachedBin[b], Copying(b), setupFaults)
    BY DEF BinsStand
  <2> QED
    BY <1>2, <2>1 DEF BinOK
<1>6. SettingStands' /\ acpFile' \in [Places -> Configs \cup {Unset}] /\ LaunchStands'
      /\ told' \in Configs /\ shadowed' \in BOOLEAN
  BY <1>1, <1>2, SameSetting
<1>7. SetupTyped'
  BY <1>1, <1>2, <1>6 DEF SetupTyped
<1> QED
  BY <1>3, <1>5, <1>6, <1>7

(***************************************************************************)
(* Every step keeps the invariant.                                         *)
(***************************************************************************)
LEMMA SetupStep ==
  ASSUME SetupIInv, [SetupNext]_setupVars
  PROVE  SetupIInv'
<1>1. ASSUME UNCHANGED <<acpFile, cachedBin, call, launched, told, shadowed, setupFaults>>
      PROVE  SetupIInv'
  <2>1. SetupTyped'
    BY <1>1 DEF SetupIInv, SetupTyped
  <2>2. SettingStands'
    BY <1>1 DEF SetupIInv, SettingStands, load_acp_config
  <2>3. LaunchStands'
    BY <1>1 DEF SetupIInv, LaunchStands
  <2>4. CallsStand'
    BY <1>1 DEF SetupIInv, CallsStand
  <2>5. \A b : Copying(b)' = Copying(b)
    BY <1>1 DEF Copying
  <2>6. BinsStand'
    BY <1>1, <2>5 DEF SetupIInv, BinsStand
  <2> QED
    BY <2>1, <2>2, <2>3, <2>4, <2>6 DEF SetupIInv
<1>2. CASE UNCHANGED setupVars
  BY <1>1, <1>2 DEF setupVars
<1>3. CASE ChangePath
  BY <1>1, <1>3 DEF ChangePath
<1>4. CASE RestartServer
  BY <1>4, RestartKeeps
<1>5. ASSUME NEW c \in Callers,
             \/ SetAcpConfig(c) \/ LaunchAgent(c) \/ DetectAgent(c) \/ FetchRelease(c)
             \/ BeginCopy(c) \/ EndCopy(c) \/ Resolve(c) \/ SaveConfig(c) \/ SpawnAgent(c)
      PROVE  SetupIInv'
  BY <1>5, BeginKeeps, DetectKeeps, FetchKeeps, BeginCopyKeeps, EndCopyKeeps, ResolveKeeps,
     SaveKeeps, SpawnKeeps
<1> QED
  BY <1>2, <1>3, <1>4, <1>5 DEF SetupNext

(***************************************************************************)
(* A project's agent is launched as the user was told it is set, by a      *)
(* command of that agent, unless a write failed; and what was downloaded   *)
(* is for this machine if the release has such an asset, and whole unless  *)
(* something failed or it is still being copied.                           *)
(***************************************************************************)
THEOREM AgentIsLaunchedAsConfigured == SetupSpec => []LaunchedAsConfigured
<1>1. SetupInit => SetupIInv
  BY InitSetup
<1>2. SetupIInv /\ [SetupNext]_setupVars => SetupIInv'
  BY SetupStep
<1>3. SetupIInv => LaunchedAsConfigured
  BY DEF SetupIInv, LaunchStands, BinsStand, BinOK, Chosen, LaunchedAsConfigured
<1> QED
  BY <1>1, <1>2, <1>3, PTL DEF SetupSpec
================================================================================
