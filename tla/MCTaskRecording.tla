-------------------------- MODULE MCTaskRecording --------------------------
(* TaskRecording with two robots that share their task ids. *)
EXTENDS TaskRecording, TLC

Symmetry == Permutations(Robots) \cup Permutations(Tasks)
=============================================================================
