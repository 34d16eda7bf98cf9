----------------------------- MODULE RuleStage -----------------------------
(***************************************************************************)
(* The rule part of LiveDetectionPipeline._process_features: every batch   *)
(* goes through the rolling window (module RollingWindow), the detectors   *)
(* judge the window, and the alerts they report pass AlertDeduplicator     *)
(* (src/detection/alert_dedup.py) one by one. The window makes the         *)
(* detectors report the same alert batch after batch; an alert is emitted  *)
(* unless one with its signature was emitted less than window_seconds ago. *)
(*                                                                         *)
(* A signature stands for (type, src_ip, dst_ip, dst_port, domain). One    *)
(* worker runs all of this; time may pass between any two of its steps.    *)
(* What it does with flagged sources in between is in module PacketGate.   *)
(***************************************************************************)
EXTENDS RollingWindow

CONSTANTS
  Signatures,     \* alert signatures
  WindowSeconds,  \* window_seconds
  MaxReported,    \* bound: alerts in a batch
  MaxTime         \* bound: last value of the clock

ASSUME DedupAssumption  == WindowSeconds \in Nat
ASSUME ReportAssumption == MaxReported \in Nat /\ MaxTime \in Nat

VARIABLES
  now,      \* time.monotonic()
  batch,    \* alerts of the batch still to be emitted
  lastSeen, \* _last_seen, a dict from signatures to times
  emitted,  \* history: when a signature was emitted
  held      \* history: when a signature was last suppressed, {} before

alerts    == <<batch, lastSeen, emitted, held>>
stageVars == <<vars, now, alerts>>

StageInit ==
  /\ Init
  /\ now = 0
  /\ batch = <<>>
  /\ lastSeen = <<>>
  /\ emitted = [s \in Signatures |-> {}]
  /\ held = [s \in Signatures |-> {}]

(* The next batch: the features are never empty here (LiveFlowProcessor). *)
Arrive == AppendBatch /\ batch = <<>> /\ UNCHANGED <<now, alerts>>

Trim == (TrimFrame \/ TrimRows \/ Trimmed) /\ UNCHANGED <<now, alerts>>

(* The detectors judge the window and report any alerts, one signature     *)
(* several times if they please (encrypted screening reports every flow).  *)
Report ==
  /\ Judge
  /\ \E n \in 0..MaxReported : batch' \in [1..n -> Signatures]
  /\ UNCHANGED <<now, lastSeen, emitted, held>>

(* Mutants of MayEmit and Remembered: a window one second short, and the   *)
(* start of the window remembered in place of the emission.                *)
MayEmitEarly(s)    == s \in DOMAIN lastSeen => now - lastSeen[s] >= WindowSeconds - 1
RememberedStart(s) ==
  [x \in DOMAIN lastSeen \cup {s} |-> IF x = s THEN now - WindowSeconds ELSE lastSeen[x]]

(* is_duplicate: no alert of the signature yet, or its window has run out. *)
MayEmit(s)    == s \in DOMAIN lastSeen => now - lastSeen[s] >= WindowSeconds
Remembered(s) == [x \in DOMAIN lastSeen \cup {s} |-> IF x = s THEN now ELSE lastSeen[x]]

(* The alert is no duplicate and goes out. *)
Emit ==
  /\ batch # <<>>
  /\ LET s == Head(batch)
     IN  /\ MayEmit(s)
         /\ lastSeen' = Remembered(s)
         /\ emitted' = [emitted EXCEPT ![s] = @ \cup {now}]
  /\ batch' = Tail(batch)
  /\ UNCHANGED <<vars, now, held>>

(* Mutant of Suppress: every suppressed alert extends the window. *)
SuppressExtends ==
  /\ batch # <<>>
  /\ LET s == Head(batch)
     IN  /\ ~MayEmit(s)
         /\ lastSeen' = Remembered(s)
         /\ held' = [held EXCEPT ![s] = {now}]
  /\ batch' = Tail(batch)
  /\ UNCHANGED <<vars, now, emitted>>

(* The alert is a duplicate; the window is not extended. *)
Suppress ==
  /\ batch # <<>>
  /\ LET s == Head(batch)
     IN  /\ ~MayEmit(s)
         /\ held' = [held EXCEPT ![s] = {now}]
  /\ batch' = Tail(batch)
  /\ UNCHANGED <<vars, now, lastSeen, emitted>>

(* A new session clears the window and leaves the deduplicator as it is. *)
Restart == Reset /\ batch = <<>> /\ UNCHANGED <<now, alerts>>

Tick ==
  /\ now < MaxTime
  /\ now' = now + 1
  /\ UNCHANGED <<vars, alerts>>

StageNext == Arrive \/ Trim \/ Report \/ Emit \/ Suppress \/ Restart \/ Tick

StageSpec == StageInit /\ [][StageNext]_stageVars

-----------------------------------------------------------------------------
DedupType ==
  /\ now \in Nat
  /\ batch \in Seq(Signatures)
  /\ DOMAIN lastSeen \subseteq Signatures /\ lastSeen \in [DOMAIN lastSeen -> Nat]
  /\ emitted \in [Signatures -> SUBSET Nat]
  /\ held \in [Signatures -> SUBSET Nat]

(* The window and the deduplicator keep their shapes. *)
StageTypeOK == TypeOK /\ DedupType

(* Between two emissions of one signature lies at least the window         *)
(* (alert_dedup.py:8-13), however the alerts of several signatures, their  *)
(* batches and sessions mix.                                               *)
Spaced ==
  \A s \in Signatures : \A t, u \in emitted[s] : t < u => u - t >= WindowSeconds

(* An alert is held back only by an emission that is less than the window  *)
(* old: a steady attack is reported again every window, suppressed alerts  *)
(* never push the next emission away (alert_dedup.py:42-47).               *)
NeverStarved ==
  \A s \in Signatures : \A u \in held[s] :
    \E t \in emitted[s] : t <= u /\ u - t < WindowSeconds
=============================================================================
