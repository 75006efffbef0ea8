-------------------------- MODULE MCPendingEdits ---------------------------
(* PendingEdits on a small instance.                                       *)
EXTENDS PendingEdits, TLC

\* Sessions and calls are interchangeable; used by runs of invariants and box
\* properties only.
Symmetry == Permutations(Sessions) \cup Permutations(Accepts) \cup Permutations(ApiEdits)
=============================================================================
