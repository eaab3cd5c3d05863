--------------------------- MODULE MCReplayPanel ---------------------------
(* ReplayPanel with two interchangeable tasks and three directories. *)
EXTENDS ReplayPanel, TLC

CONSTANTS t1, t2

MCTasks == {t1, t2}
Symmetry == Permutations(MCTasks)
=============================================================================
