----------------------- MODULE MCObservedNavigation -----------------------
(* ObservedNavigation with two tasks. *)
EXTENDS ObservedNavigation, TLC

Symmetry == Permutations(Tasks)
=============================================================================
