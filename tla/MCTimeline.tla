----------------------------- MODULE MCTimeline ----------------------------
(* Small instances of the timeline's file, of the run list and of the      *)
(* timeline panel of a client: `part` says which of them moves in a        *)
(* behaviour, the others stay as they were started.                        *)
EXTENDS Timeline, RunView, TimelineView, TLC

VARIABLE part

Event(time, actor, error) ==
    [created |-> time, actor |-> actor, source |-> "cell", plots |-> <<>>,
     error |-> error, blocks |-> <<>>]
MCNewEvents == {Event(1, "user", NoValue), Event(2, "user", "e"), Event(1, "ai", "e")}
MCPageFilters == {<<>>, [actor |-> "user"]}

\* The runs of the list are interchangeable; invariants and box properties only.
Symmetry == Permutations(ViewedRuns)

-----------------------------------------------------------------------------

TimelineInit ==
    /\ part \in {"file", "run list", "panel"}
    /\ Init /\ ViewInit /\ PageInit

TheFile == part = "file" /\ Next /\ UNCHANGED <<part, viewVars, pageVars>>
RunList == part = "run list" /\ ViewNext /\ UNCHANGED <<part, vars, pageVars>>
Panel == part = "panel" /\ PageNext /\ UNCHANGED <<part, vars, viewVars>>

TimelineSpec ==
    TimelineInit /\ [][TheFile \/ RunList \/ Panel]_<<part, vars, viewVars, pageVars>>
=============================================================================
