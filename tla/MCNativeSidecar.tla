-------------------------- MODULE MCNativeSidecar --------------------------
(* NativeSidecar on two robots and two local Rerun ports. *)
EXTENDS NativeSidecar

CONSTANTS r1, r2, p1, p2

MCRobots == {r1, r2}
MCPorts == {p1, p2}
=============================================================================
