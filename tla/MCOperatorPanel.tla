-------------------------- MODULE MCOperatorPanel --------------------------
(* OperatorPanel on two interchangeable robots. *)
EXTENDS OperatorPanel, TLC

CONSTANTS r1, r2

MCRobots == {r1, r2}
MCSymmetry == Permutations(MCRobots)
=============================================================================
