----------------------------- MODULE FlowLedger -----------------------------
(***************************************************************************)
(* What LivePacketCapture promises its callback, whatever flows the packets *)
(* are grouped into and whichever thread calls back: every packet the       *)
(* sniffer handed over waits, and is handed on once.                       *)
(***************************************************************************)
CONSTANT Packets

VARIABLES waiting, delivered

ledger == <<waiting, delivered>>

LedgerInit == waiting = {} /\ delivered = {}

Receive(p) ==
  /\ p \notin waiting \cup delivered
  /\ waiting' = waiting \cup {p}
  /\ UNCHANGED delivered

Deliver(some) ==
  /\ some # {} /\ some \subseteq waiting
  /\ waiting' = waiting \ some
  /\ delivered' = delivered \cup some

LedgerNext == (\E p \in Packets : Receive(p)) \/ (\E some \in SUBSET waiting : Deliver(some))

LedgerSpec == LedgerInit /\ [][LedgerNext]_ledger
=============================================================================
