---------------------------- MODULE MCAgentLoop ----------------------------
(* An instance of AgentLoop for TLC: two messages whose turns hold a call  *)
(* that needs an approval and one that does not.                           *)
EXTENDS AgentLoop

Apply(path) == [tool |-> "apply_pending_edit", path |-> path]
Read(path) == [tool |-> "read_text_file", path |-> path]

MCTurns == {<<Apply(<<"R", ".", "a">>), Read(<<"b">>)>>}

\* A rule for the directory of the edited file: it covers the call.
MCSavedRules == {{build_approval_rule(Apply(<<"R", "b">>))}}
=============================================================================
