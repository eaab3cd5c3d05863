----------------------------- MODULE MCLiveView -----------------------------
(* LiveView with two robots. *)
EXTENDS LiveView

CONSTANTS r1, r2

MCRobots == {r1, r2}
=============================================================================
