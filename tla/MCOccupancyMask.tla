-------------------------- MODULE MCOccupancyMask --------------------------
(* Words of two bits; masks of two and three cells, an empty one and one   *)
(* that is too large; runs inside the mask, past its end, past the largest *)
(* word, from a negative start, of a negative length and a malformed one.  *)
EXTENDS OccupancyMask
MCSizes == {<<0, 3>>, <<1, 3>>, <<2, 1>>, <<2, 2>>}
MCSent == {[start |-> r[1], length |-> r[2], whole |-> TRUE] :
             r \in {<<-1, 1>>, <<1, 1>>, <<1, 3>>, <<2, 3>>, <<1, -1>>}}
          \cup {[start |-> 0, length |-> 0, whole |-> FALSE]}
============================================================================
