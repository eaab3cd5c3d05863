------------------------ MODULE MCConnectionSettings ------------------------
(* ConnectionSettings with two robots and two Rerun ports. *)
EXTENDS ConnectionSettings

CONSTANTS r1, r2

MCRobots == {r1, r2}
=============================================================================
