---------------------------- MODULE MCPacketGate ----------------------------
(* Small instances of PacketGate: two rows of one source and one of another. *)
EXTENDS PacketGate

CONSTANTS r1, r2, r3, a, b

MCRows    == {r1, r2, r3}
MCSources == {a, b}
MCSrcOf   == [r \in MCRows |-> IF r = r3 THEN b ELSE a]

(* One row of each source, for the runs that interleave everything. *)
MCFewRows  == {r1, r3}
MCFewSrcOf == [r \in MCFewRows |-> IF r = r3 THEN b ELSE a]
=============================================================================
