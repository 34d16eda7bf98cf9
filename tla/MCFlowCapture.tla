--------------------------- MODULE MCFlowCapture ---------------------------
(* The two directions of one connection. *)
EXTENDS FlowCapture
CONSTANTS ab, ba
MCReverse == [k \in {ab, ba} |-> IF k = ab THEN ba ELSE ab]
MCLimits  == {[packets |-> 3, steps |-> 0], [packets |-> 2, steps |-> 1]}
=============================================================================
