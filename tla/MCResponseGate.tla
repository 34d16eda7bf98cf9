--------------------------- MODULE MCResponseGate ---------------------------
(* Batches of one or two predictions over two sources: one that only reaches *)
(* scores below the threshold, one above it, benign ones, and mixtures.      *)
EXTENDS ResponseGate

CONSTANTS a, b

MCIPs == {a, b}
P(ip, level) == [ip |-> ip, level |-> level]
MCBatches == {<<P(a, 95)>>, <<P(b, 50)>>, <<P(b, 0)>>, <<P(a, 95), P(b, 0)>>,
              <<P(b, 50), P(a, 95)>>, <<P(a, 50), P(b, 95)>>}
=============================================================================
