--------------------------- MODULE MCPersistentR ---------------------------
(* PersistentR on a small instance.                                        *)
EXTENDS PersistentR, TLC

\* Jobs are interchangeable; used by runs without a temporal property only.
Symmetry == Permutations(Jobs)
=============================================================================
