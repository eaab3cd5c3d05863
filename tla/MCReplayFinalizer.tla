------------------------- MODULE MCReplayFinalizer -------------------------
(* ReplayFinalizer with two calling threads and two task ids. *)
EXTENDS ReplayFinalizer

CONSTANTS c1, c2, t1, t2

MCCallers == {c1, c2}
MCTasks == {t1, t2}
=============================================================================
