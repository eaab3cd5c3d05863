---------------------------- MODULE MCObservedMap ---------------------------
(* Four maps, the third without an image: two in a row that can be torn,   *)
(* and a change to and from a map without one.                             *)
EXTENDS ObservedMap
MCMaps == 1..4
MCDrawn == {1, 2, 4}
============================================================================
