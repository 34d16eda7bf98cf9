---------------------------- MODULE RollingWindow ----------------------------
(***************************************************************************)
(* The rolling window of LiveThreatDetector (src/detection/                *)
(* live_detector.py): every batch is appended, the oldest rows are trimmed *)
(* until max_rows remain, and the detectors run over what is left.         *)
(*                                                                         *)
(* Rows are numbered 1, 2, ... in the order they arrive after a reset, so a *)
(* data frame is an interval [first, last]; _history is a sequence of      *)
(* frames. _append's while loop takes one action per frame it pops.        *)
(***************************************************************************)
EXTENDS Integers, Sequences

CONSTANTS
  MaxRows,    \* max_rows
  MaxBatch,   \* bound: rows in a batch
  MaxArrived  \* bound: rows between two resets

ASSUME WindowAssumption == MaxRows \in Nat \ {0}
ASSUME BoundAssumption  == MaxBatch \in Nat /\ MaxArrived \in Nat

VARIABLES
  history,   \* _history
  rowCount,  \* _row_count
  pc,        \* position in process()
  arrived    \* rows that arrived since the last reset

vars == <<history, rowCount, pc, arrived>>

Frames   == [first : Nat \ {0}, last : Nat]
Size(f)  == f.last - f.first + 1

(* Mutant of Overflow: one row too many. *)
OverflowPlusOne == rowCount - MaxRows + 1

(* The rows to trim. *)
Overflow == rowCount - MaxRows

(* The rows of _window(), the frames of the history end to end. *)
Window == UNION {history[i].first..history[i].last : i \in DOMAIN history}

Init ==
  /\ history = <<>> /\ rowCount = 0 /\ arrived = 0
  /\ pc = "idle"

(* process(): the batch is appended ... *)
AppendBatch ==
  /\ pc = "idle"
  /\ \E n \in 1..MaxBatch :
       /\ arrived + n <= MaxArrived
       /\ history' = Append(history, [first |-> arrived + 1, last |-> arrived + n])
       /\ rowCount' = rowCount + n
       /\ arrived' = arrived + n
  /\ pc' = "trim"

(* ... or it is empty, and the window is judged as it is. *)
EmptyBatch ==
  /\ pc = "idle"
  /\ pc' = "judge"
  /\ UNCHANGED <<history, rowCount, arrived>>

MustTrim == pc = "trim" /\ rowCount > MaxRows /\ history # <<>>

(* The oldest frame goes whole ... *)
TrimFrame ==
  /\ MustTrim
  /\ Size(Head(history)) <= Overflow
  /\ history' = Tail(history)
  /\ rowCount' = rowCount - Size(Head(history))
  /\ UNCHANGED <<pc, arrived>>

(* ... or its first overflow rows go, and the loop breaks. *)
TrimRows ==
  /\ MustTrim
  /\ Size(Head(history)) > Overflow
  /\ history' = <<[first |-> Head(history).first + Overflow, last |-> Head(history).last]>>
                  \o Tail(history)
  /\ rowCount' = rowCount - Overflow
  /\ pc' = "judge"
  /\ UNCHANGED arrived

Trimmed ==
  /\ pc = "trim" /\ ~MustTrim
  /\ pc' = "judge"
  /\ UNCHANGED <<history, rowCount, arrived>>

(* Every detector runs over the window. *)
Judge ==
  /\ pc = "judge"
  /\ pc' = "idle"
  /\ UNCHANGED <<history, rowCount, arrived>>

(* reset(), from LiveDetectionPipeline.reset. *)
Reset ==
  /\ pc = "idle"
  /\ history' = <<>> /\ rowCount' = 0 /\ arrived' = 0
  /\ UNCHANGED pc

Next == AppendBatch \/ EmptyBatch \/ TrimFrame \/ TrimRows \/ Trimmed \/ Judge \/ Reset

Spec == Init /\ [][Next]_vars

-----------------------------------------------------------------------------
TypeOK ==
  /\ history \in Seq(Frames)
  /\ rowCount \in Nat /\ arrived \in Nat
  /\ pc \in {"idle", "trim", "judge"}

(* The last max_rows rows that arrived, or all of them. *)
Recent == {i \in 1..arrived : i > arrived - MaxRows}

(* The detectors are run over the most recent max_rows rows, none missing  *)
(* and none too many, however the rows were cut into batches               *)
(* (live_detector.py:18, 35-48).                                           *)
JudgesRecent == pc = "judge" => Window = Recent

(* _row_count is the length of the window, frames follow each other in     *)
(* arrival order and none is empty: the sum the loop trims by is right at  *)
(* every iteration, also after a frame was cut.                            *)
CountIsLength ==
  /\ history = <<>> => rowCount = 0 /\ arrived = 0
  /\ history # <<>> =>
       /\ rowCount = arrived - history[1].first + 1
       /\ history[Len(history)].last = arrived
       /\ rowCount >= MaxRows \/ history[1].first = 1
  /\ \A i \in DOMAIN history :
       /\ history[i].first <= history[i].last
       /\ i > 1 => history[i].first = history[i - 1].last + 1
=============================================================================
