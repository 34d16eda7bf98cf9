--------------------------- MODULE MCThreatScore ---------------------------
(* Five units are a hundredth of a percent, so no confidence lies halfway   *)
(* between two scores, where round(x, 2) goes by the binary value of x.      *)
EXTENDS ThreatScore

(* The nearest multiple of five. *)
MCRound(x) == ((x + 2) \div 5) * 5
=============================================================================
