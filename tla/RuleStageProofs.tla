--------------------------- MODULE RuleStageProofs ---------------------------
(***************************************************************************)
(* The rolling window shows the detectors exactly the most recent rows,    *)
(* for every max_rows and however the rows are cut into batches. The       *)
(* invariant keeps what the window is as a set beside the frames it is     *)
(* made of, so that no step needs an induction over the history.           *)
(*                                                                         *)
(* The deduplicator's two promises hold for every window and any mixture   *)
(* of signatures. The invariant says what _last_seen is: for every          *)
(* signature that was ever emitted, the time of its latest emission. What  *)
(* is proved of the rolling window holds of the stage, which refines it.   *)
(*                                                                         *)
(* Most detectors are monotone in the log: what they found in a stretch they *)
(* find in every longer one. So the dashboard takes no flag back that the    *)
(* log alone justifies, and the worker flags whom the dashboard's detectors  *)
(* name on a stretch that its window holds.                                 *)
(*                                                                         *)
(* What a page shows: the loop of the list has an invariant (LoopInv), what  *)
(* it knows of a source after n flows, and max() returns a row that exists,  *)
(* because rows have a first one in the order of the sort. So both views and *)
(* the numbers agree, for every log.                                       *)
(***************************************************************************)
EXTENDS RuleStage, FlowVerdicts, FiniteSetTheorems, SequenceTheorems, WellFoundedInduction, TLAPS

(* Frames lie in arrival order, and the window is one interval. *)
Ordered   == \A i, j \in DOMAIN history : i < j => history[i].last < history[j].first
WindowIs  == Window = {x \in 1..arrived : history # <<>> /\ x >= history[1].first}
(* Outside the loop nothing is left to trim. *)
IsTrimmed == pc # "trim" => rowCount <= MaxRows

WindowInv == TypeOK /\ CountIsLength /\ Ordered /\ WindowIs /\ IsTrimmed

(* Membership in the window, frame by frame. *)
InWindow(x) == \E i \in DOMAIN history : x \in history[i].first..history[i].last

LEMMA WindowMembers == \A x : x \in Window <=> InWindow(x)
  BY DEF Window, InWindow

LEMMA InitWindow == Init => WindowInv
  <1> SUFFICES ASSUME Init PROVE WindowInv
    OBVIOUS
  <1>1. TypeOK /\ CountIsLength /\ Ordered /\ IsTrimmed
    BY WindowAssumption DEF Init, TypeOK, CountIsLength, Ordered, IsTrimmed
  <1>2. Window = {}
    BY DEF Init, Window
  <1>3. WindowIs
    BY <1>2 DEF Init, WindowIs
  <1> QED
    BY <1>1, <1>3 DEF WindowInv

(* A batch becomes the last frame. *)
LEMMA AppendKeeps == WindowInv /\ AppendBatch => WindowInv'
  <1> SUFFICES ASSUME WindowInv, AppendBatch PROVE WindowInv'
    OBVIOUS
  <1> USE DEF WindowInv
  <1>1. PICK n \in 1..MaxBatch :
          /\ history' = Append(history, [first |-> arrived + 1, last |-> arrived + n])
          /\ rowCount' = rowCount + n
          /\ arrived' = arrived + n
    BY DEF AppendBatch
  <1>2. n \in Nat \ {0} /\ arrived \in Nat /\ rowCount \in Nat /\ history \in Seq(Frames)
    BY BoundAssumption DEF TypeOK
  <1> DEFINE f == [first |-> arrived + 1, last |-> arrived + n]
             k == Len(history) + 1
  <1>3. f \in Frames /\ f.first = arrived + 1 /\ f.last = arrived + n
    BY <1>2 DEF Frames
  <1>4. /\ history' = Append(history, f)
        /\ history' \in Seq(Frames) /\ Len(history') = k /\ k \in Nat \ {0}
        /\ DOMAIN history' = 1..k /\ DOMAIN history = 1..(k - 1)
        /\ history'[k] = f
        /\ \A i \in 1..(k - 1) : history'[i] = history[i] /\ history[i] \in Frames
    BY <1>1, <1>2, <1>3
  <1>5. /\ \A i \in 1..(k - 1) : /\ history[i].first \in Nat \ {0}
                                 /\ history[i].last \in Nat
    BY <1>4 DEF Frames
  <1>6. \A i \in 1..(k - 1) : history[i].last <= arrived
    <2> SUFFICES ASSUME NEW i \in 1..(k - 1) PROVE history[i].last <= arrived
      OBVIOUS
    <2>1. history # <<>> /\ Len(history) = k - 1 /\ k - 1 \in DOMAIN history
      BY <1>2, <1>4
    <2>2. history[k - 1].last = arrived
      BY <2>1 DEF CountIsLength
    <2>3. CASE i = k - 1
      BY <2>2, <2>3, <1>2
    <2>4. CASE i < k - 1
      <3>1. history[i].last < history[k - 1].first
        BY <2>1, <2>4, <1>4 DEF Ordered
      <3>2. history[k - 1].first <= history[k - 1].last
        BY <2>1 DEF CountIsLength
      <3> QED
        BY <3>1, <3>2, <2>1, <2>2, <1>4, <1>5, <1>2
    <2>5. i = k - 1 \/ i < k - 1
      <3> HIDE DEF k
      <3> QED
        BY <1>4
    <2> QED
      BY <2>3, <2>4, <2>5
  <1>7. TypeOK'
    <2>1. pc' = "trim"
      BY DEF AppendBatch
    <2> QED
      BY <2>1, <1>1, <1>2, <1>4 DEF TypeOK
  <1>8. Ordered'
    BY <1>1, <1>2, <1>3, <1>4, <1>5, <1>6 DEF Ordered
  <1>9. CountIsLength'
    <2>1. history' # <<>>
      BY <1>4
    <2>2. history'[Len(history')].last = arrived'
      BY <1>1, <1>3, <1>4
    <2>3. /\ rowCount' = arrived' - history'[1].first + 1
          /\ rowCount' >= MaxRows \/ history'[1].first = 1
      <3>1. CASE history = <<>>
        <4>1. k = 1 /\ rowCount = 0 /\ arrived = 0
          BY <3>1 DEF CountIsLength
        <4> QED
          BY <4>1, <1>1, <1>2, <1>3, <1>4
      <3>2. CASE history # <<>>
        <4>1. 1 \in 1..(k - 1) /\ history'[1] = history[1]
          BY <3>2, <1>2, <1>4
        <4>2. /\ rowCount = arrived - history[1].first + 1
              /\ rowCount >= MaxRows \/ history[1].first = 1
          BY <3>2 DEF CountIsLength
        <4>3. history[1].first \in Nat \ {0}
          BY <4>1, <1>5
        <4>4. history'[1].first = history[1].first
          BY <4>1
        <4> HIDE DEF k
        <4>5. rowCount' = arrived' - history[1].first + 1
          BY <4>2, <4>3, <1>1, <1>2, SMTT(30)
        <4>6. rowCount' >= MaxRows \/ history[1].first = 1
          BY <4>2, <1>1, <1>2, WindowAssumption
        <4> QED
          BY <4>4, <4>5, <4>6
      <3> QED
        BY <3>1, <3>2
    <2>4. ASSUME NEW i \in DOMAIN history'
          PROVE  /\ history'[i].first <= history'[i].last
                 /\ i > 1 => history'[i].first = history'[i - 1].last + 1
      <3>1. CASE i \in 1..(k - 1)
        <4>1. /\ history[i].first <= history[i].last
              /\ i > 1 => history[i].first = history[i - 1].last + 1
          BY <3>1, <1>4 DEF CountIsLength
        <4>2. i > 1 => i - 1 \in 1..(k - 1)
          BY <3>1, <1>4
        <4> QED
          BY <4>1, <4>2, <3>1, <1>4
      <3>2. CASE i = k
        <4>1. history'[i].first <= history'[i].last
          BY <3>2, <1>2, <1>3, <1>4
        <4>2. ASSUME i > 1 PROVE history'[i].first = history'[i - 1].last + 1
          <5>1. history # <<>> /\ i - 1 = Len(history) /\ i - 1 \in 1..(k - 1)
            BY <4>2, <3>2, <1>2, <1>4
          <5>2. history[i - 1].last = arrived
            BY <5>1 DEF CountIsLength
          <5> QED
            BY <5>1, <5>2, <3>2, <1>3, <1>4
        <4> QED
          BY <4>1, <4>2
      <3> QED
        BY <3>1, <3>2, <1>4
    <2> QED
      BY <2>1, <2>2, <2>3, <2>4 DEF CountIsLength
  <1>10. WindowIs'
    <2>1. \A x : x \in Window' <=> x \in Window \/ x \in (arrived + 1)..(arrived + n)
      BY <1>3, <1>4 DEF Window
    <2>2. CASE history = <<>>
      <3>1. Window = {} /\ history'[1].first = arrived + 1 /\ history' # <<>> /\ arrived = 0
        BY <2>2, <1>3, <1>4 DEF Window, CountIsLength
      <3> QED
        BY <2>1, <3>1, <1>1, <1>2 DEF WindowIs
    <2>3. CASE history # <<>>
      <3>1. history'[1] = history[1] /\ history' # <<>> /\ history[1].first \in Nat \ {0}
        BY <2>3, <1>2, <1>4, <1>5
      <3>2. history[1].first <= arrived
        <4>1. 1 \in 1..(k - 1)
          BY <2>3, <1>2, <1>4
        <4>2. history[1].first <= history[1].last /\ history[1].last <= arrived
          BY <4>1, <1>4, <1>6 DEF CountIsLength
        <4>3. history[1].first \in Nat /\ history[1].last \in Nat
          BY <4>1, <1>5
        <4> QED
          BY <4>2, <4>3, <1>2
      <3>3. Window = {x \in 1..arrived : x >= history[1].first}
        BY <2>3 DEF WindowIs
      <3>4. \A x : x \in Window' <=> x \in 1..(arrived + n) /\ x >= history[1].first
        BY <2>1, <3>1, <3>2, <3>3, <1>2
      <3> QED
        BY <3>1, <3>4, <1>1 DEF WindowIs
    <2> QED
      BY <2>2, <2>3
  <1>11. IsTrimmed'
    BY DEF AppendBatch, IsTrimmed
  <1> QED
    BY <1>7, <1>8, <1>9, <1>10, <1>11

(* What the loop's condition says of the frames. *)
LEMMA FrameFacts ==
  ASSUME WindowInv, history # <<>>
  PROVE  /\ Len(history) \in Nat \ {0} /\ DOMAIN history = 1..Len(history)
         /\ history[1] = Head(history)
         /\ \A i \in 1..Len(history) : /\ history[i].first \in Nat \ {0}
                                      /\ history[i].last \in Nat
                                      /\ history[i].first <= history[i].last
         /\ rowCount = arrived - history[1].first + 1
         /\ history[Len(history)].last = arrived
         /\ arrived \in Nat /\ rowCount \in Nat
         /\ \A x : x \in Window <=> x \in 1..arrived /\ x >= history[1].first
  <1>1. history \in Seq(Frames) /\ arrived \in Nat /\ rowCount \in Nat
    BY DEF WindowInv, TypeOK
  <1>2. Len(history) \in Nat \ {0} /\ DOMAIN history = 1..Len(history) /\ history[1] = Head(history)
    BY <1>1
  <1>3. \A i \in 1..Len(history) : history[i] \in Frames
    BY <1>1, <1>2
  <1>4. \A i \in 1..Len(history) : history[i].first \in Nat \ {0} /\ history[i].last \in Nat
    BY <1>3 DEF Frames
  <1>5. \A i \in 1..Len(history) : history[i].first <= history[i].last
    BY <1>2 DEF WindowInv, CountIsLength
  <1>6. rowCount = arrived - history[1].first + 1 /\ history[Len(history)].last = arrived
    BY DEF WindowInv, CountIsLength
  <1>7. \A x : x \in Window <=> x \in 1..arrived /\ x >= history[1].first
    BY DEF WindowInv, WindowIs
  <1> QED
    BY <1>1, <1>2, <1>4, <1>5, <1>6, <1>7

(* A popped frame leaves the frames after it, at least one of them: the    *)
(* loop never takes the last max_rows rows.                                *)
LEMMA TrimFrameKeeps == WindowInv /\ TrimFrame => WindowInv'
  <1> SUFFICES ASSUME WindowInv, TrimFrame PROVE WindowInv'
    OBVIOUS
  <1> DEFINE k == Len(history)
             h == history[1]
  <1>1. /\ pc = "trim" /\ rowCount > MaxRows /\ history # <<>>
        /\ history' = Tail(history)
        /\ pc' = pc /\ arrived' = arrived
    BY DEF TrimFrame, MustTrim
  <1>2. /\ k \in Nat \ {0} /\ DOMAIN history = 1..k
        /\ h = Head(history)
        /\ \A i \in 1..k : /\ history[i].first \in Nat \ {0}
                           /\ history[i].last \in Nat
                           /\ history[i].first <= history[i].last
        /\ rowCount = arrived - h.first + 1
        /\ history[k].last = arrived
        /\ arrived \in Nat /\ rowCount \in Nat
        /\ \A x : x \in Window <=> x \in 1..arrived /\ x >= h.first
    BY <1>1, FrameFacts
  <1>3. /\ h.last - h.first + 1 <= rowCount - MaxRows
        /\ rowCount' = rowCount - (h.last - h.first + 1)
    BY <1>2 DEF TrimFrame, Size, Overflow
  <1>4. h.first \in Nat \ {0} /\ h.last \in Nat /\ h.first <= h.last
    <2>1. 1 \in 1..k
      BY <1>2
    <2> QED
      BY <2>1, <1>2
  <1>5. k > 1
    <2>1. SUFFICES ASSUME k = 1 PROVE FALSE
      BY <1>2
    <2>2. h.last = arrived
      BY <2>1, <1>2
    <2> QED
      BY <2>2, <1>2, <1>3, <1>4, WindowAssumption
  <1>6. /\ history' \in Seq(Frames) /\ Len(history') = k - 1
        /\ DOMAIN history' = 1..(k - 1)
        /\ \A i \in 1..(k - 1) : history'[i] = history[i + 1]
        /\ history' # <<>>
    <2>1. history \in Seq(Frames) /\ Len(history) > 1 /\ Len(history) \in Nat
      BY <1>2, <1>5 DEF WindowInv, TypeOK
    <2>2. /\ Tail(history) \in Seq(Frames) /\ Len(Tail(history)) = Len(history) - 1
          /\ \A i \in 1..(Len(history) - 1) : Tail(history)[i] = history[i + 1]
      BY <2>1
    <2>3. DOMAIN Tail(history) = 1..(Len(history) - 1)
      BY <2>2
    <2>4. Tail(history) # <<>>
      <3>1. DOMAIN Tail(history) # {}
        BY <2>1, <2>3
      <3> QED
        BY <3>1
    <2> QED
      BY <2>2, <2>3, <2>4, <1>1
  <1>7. history[2].first = h.last + 1 /\ 2 \in 1..k
    <2>1. 2 \in 1..k
      BY <1>2, <1>5
    <2>2. 2 \in DOMAIN history
      BY <2>1, <1>2
    <2>3. \A i \in DOMAIN history : i > 1 => history[i].first = history[i - 1].last + 1
      BY DEF WindowInv, CountIsLength
    <2>4. history[2].first = history[2 - 1].last + 1 /\ 2 - 1 = 1
      BY <2>2, <2>3
    <2> QED
      BY <2>1, <2>4
  <1>8. rowCount' = arrived' - history'[1].first + 1 /\ rowCount' >= MaxRows
    <2>1. history'[1] = history[2]
      BY <1>5, <1>6
    <2>2. history'[1].first = h.last + 1
      BY <2>1, <1>7
    <2>3. rowCount = arrived - h.first + 1 /\ arrived \in Nat
      BY <1>2
    <2> HIDE DEF h, k
    <2>4. rowCount' = arrived - (h.last + 1) + 1
      BY <2>3, <1>3, <1>4
    <2>5. rowCount' >= MaxRows
      BY <2>3, <1>3, <1>4, WindowAssumption
    <2> QED
      BY <2>2, <2>4, <2>5, <1>1
  <1>9. TypeOK'
    <2>1. rowCount' \in Nat
      BY <1>8, <1>2, <1>3, <1>4, WindowAssumption, SMTT(30)
    <2> QED
      BY <2>1, <1>1, <1>6 DEF WindowInv, TypeOK
  <1>10. CountIsLength'
    <2>1. history'[Len(history')].last = arrived'
      BY <1>1, <1>2, <1>5, <1>6
    <2>2. ASSUME NEW i \in DOMAIN history'
          PROVE  /\ history'[i].first <= history'[i].last
                 /\ i > 1 => history'[i].first = history'[i - 1].last + 1
      <3>1. i \in 1..(k - 1) /\ i + 1 \in DOMAIN history /\ i + 1 > 1 /\ i + 1 - 1 = i
        BY <1>2, <1>6
      <3>2. /\ history[i + 1].first <= history[i + 1].last
            /\ history[i + 1].first = history[i].last + 1
        BY <3>1 DEF WindowInv, CountIsLength
      <3>3. history'[i] = history[i + 1]
        BY <3>1, <1>6
      <3>4. i > 1 => history'[i - 1] = history[i]
        BY <3>1, <1>6, <1>2
      <3> QED
        BY <3>2, <3>3, <3>4
    <2> QED
      BY <2>1, <2>2, <1>6, <1>8 DEF CountIsLength
  <1>11. Ordered'
    <2> SUFFICES ASSUME NEW i \in DOMAIN history', NEW j \in DOMAIN history', i < j
                 PROVE  history'[i].last < history'[j].first
      BY DEF Ordered
    <2>1. i + 1 \in DOMAIN history /\ j + 1 \in DOMAIN history /\ i + 1 < j + 1
      BY <1>2, <1>6
    <2>2. history[i + 1].last < history[j + 1].first
      BY <2>1 DEF WindowInv, Ordered
    <2> QED
      BY <2>2, <1>6
  <1>12. WindowIs'
    <2>1. history'[1].first = h.last + 1
      BY <1>5, <1>6, <1>7
    <2>2. ASSUME NEW x \in Window' PROVE x \in Window /\ x >= h.last + 1
      <3>1. PICK i \in DOMAIN history' : x \in history'[i].first..history'[i].last
        BY DEF Window
      <3>2. i + 1 \in DOMAIN history /\ history'[i] = history[i + 1] /\ 1 < i + 1 /\ 1 \in DOMAIN history
        BY <1>2, <1>6
      <3>3. x \in Window
        BY <3>1, <3>2 DEF Window
      <3>4. h.last < history[i + 1].first
        BY <3>2 DEF WindowInv, Ordered
      <3>5. history[i + 1].first \in Nat
        BY <3>2, <1>2
      <3> HIDE DEF h
      <3> QED
        BY <3>1, <3>2, <3>3, <3>4, <3>5, <1>4
    <2>3. ASSUME NEW x \in Window, x >= h.last + 1 PROVE x \in Window'
      <3>1. PICK i \in DOMAIN history : x \in history[i].first..history[i].last
        BY DEF Window
      <3>2. i # 1
        BY <3>1, <2>3, <1>4
      <3>3. i - 1 \in 1..(k - 1) /\ i - 1 + 1 = i
        BY <3>2, <1>2
      <3>4. history'[i - 1] = history[i] /\ i - 1 \in DOMAIN history'
        BY <3>3, <1>6
      <3> QED
        BY <3>1, <3>4 DEF Window
    <2>4. \A x : x \in Window' <=> x \in 1..arrived /\ x >= h.last + 1
      <3> HIDE DEF h
      <3> QED
        BY <2>2, <2>3, <1>2, <1>4
    <2> QED
      BY <2>1, <2>4, <1>1, <1>6 DEF WindowIs
  <1>13. IsTrimmed'
    BY <1>1 DEF IsTrimmed
  <1> QED
    BY <1>9, <1>10, <1>11, <1>12, <1>13 DEF WindowInv

(* Cutting the first frame by the overflow leaves max_rows rows. *)
LEMMA TrimRowsKeeps == WindowInv /\ TrimRows => WindowInv'
  <1> SUFFICES ASSUME WindowInv, TrimRows PROVE WindowInv'
    OBVIOUS
  <1> DEFINE k == Len(history)
             h == history[1]
             cut == h.first + (rowCount - MaxRows)
             f == [first |-> cut, last |-> h.last]
  <1>1. /\ pc = "trim" /\ rowCount > MaxRows /\ history # <<>>
        /\ history' = <<[first |-> Head(history).first + (rowCount - MaxRows),
                         last |-> Head(history).last]>> \o Tail(history)
        /\ rowCount' = rowCount - (rowCount - MaxRows)
        /\ pc' = "judge" /\ arrived' = arrived
        /\ Head(history).last - Head(history).first + 1 > rowCount - MaxRows
    BY DEF TrimRows, MustTrim, Size, Overflow
  <1>2. /\ k \in Nat \ {0} /\ DOMAIN history = 1..k
        /\ h = Head(history)
        /\ \A i \in 1..k : /\ history[i].first \in Nat \ {0}
                           /\ history[i].last \in Nat
                           /\ history[i].first <= history[i].last
        /\ rowCount = arrived - h.first + 1
        /\ history[k].last = arrived
        /\ arrived \in Nat /\ rowCount \in Nat
        /\ \A x : x \in Window <=> x \in 1..arrived /\ x >= h.first
    BY <1>1, FrameFacts
  <1>3. h.first \in Nat \ {0} /\ h.last \in Nat /\ h.first <= h.last /\ 1 \in 1..k
    <2>1. 1 \in 1..k
      BY <1>2
    <2> QED
      BY <2>1, <1>2
  <1>4. cut \in Nat \ {0} /\ cut > h.first /\ cut <= h.last
    <2>1. h.last - h.first + 1 > rowCount - MaxRows
      BY <1>1, <1>2
    <2>2. rowCount \in Nat
      BY <1>2
    <2> QED
      BY <2>1, <2>2, <1>1, <1>3, WindowAssumption
  <1>5. f \in Frames /\ f.first = cut /\ f.last = h.last
    BY <1>3, <1>4 DEF Frames
  <1>6. /\ history' \in Seq(Frames) /\ Len(history') = k
        /\ DOMAIN history' = 1..k
        /\ history'[1] = f
        /\ \A i \in 2..k : history'[i] = history[i]
    <2>1. history \in Seq(Frames) /\ Len(history) \in Nat \ {0}
      BY <1>2 DEF WindowInv, TypeOK
    <2>2. /\ Tail(history) \in Seq(Frames) /\ Len(Tail(history)) = Len(history) - 1
          /\ \A i \in 1..(Len(history) - 1) : Tail(history)[i] = history[i + 1]
      BY <2>1
    <2>3. history' = <<f>> \o Tail(history)
      BY <1>1, <1>2
    <2>4. <<f>> \in Seq(Frames) /\ Len(<<f>>) = 1 /\ <<f>>[1] = f
      BY <1>5
    <2> HIDE DEF f
    <2>5. history' \in Seq(Frames) /\ Len(history') = 1 + Len(Tail(history))
      BY <2>2, <2>3, <2>4
    <2>6. history'[1] = f
      BY <2>1, <2>2, <2>3, <2>4
    <2>7. ASSUME NEW i \in 2..Len(history) PROVE history'[i] = history[i]
      <3>1. i - 1 \in 1..(Len(history) - 1) /\ i - 1 + 1 = i
        BY <2>1
      <3>2. history'[i] = Tail(history)[i - 1]
        BY <2>1, <2>2, <2>3, <2>4
      <3>3. Tail(history)[i - 1] = history[i - 1 + 1]
        BY <3>1, <2>2
      <3> QED
        BY <3>1, <3>2, <3>3
    <2> QED
      BY <2>1, <2>2, <2>5, <2>6, <2>7
  <1>7. rowCount' = MaxRows /\ history' # <<>>
    <2>1. DOMAIN history' # {}
      BY <1>2, <1>6
    <2>2. rowCount' = MaxRows
      BY <1>1, <1>2, WindowAssumption
    <2> QED
      BY <2>1, <2>2
  <1>8. rowCount' = arrived' - history'[1].first + 1
    <2>1. history'[1].first = cut
      BY <1>5, <1>6
    <2>2. /\ rowCount = arrived - h.first + 1 /\ arrived \in Nat /\ rowCount \in Nat
          /\ h.first \in Nat /\ arrived' = arrived /\ rowCount' = MaxRows
      BY <1>1, <1>2, <1>3, <1>7
    <2> HIDE DEF h
    <2>3. rowCount' = arrived - cut + 1
      BY <2>2, WindowAssumption
    <2> HIDE DEF cut
    <2> QED
      BY <2>1, <2>2, <2>3
  <1>9. TypeOK'
    BY <1>1, <1>6, <1>7, WindowAssumption DEF WindowInv, TypeOK
  <1>10. CountIsLength'
    <2>1. history'[Len(history')].last = arrived'
      <3>1. CASE k = 1
        BY <3>1, <1>1, <1>2, <1>5, <1>6
      <3>2. CASE k # 1
        BY <3>2, <1>1, <1>2, <1>6
      <3> QED
        BY <3>1, <3>2
    <2>2. \A i \in 1..k : history'[i].last = history[i].last
      BY <1>2, <1>5, <1>6
    <2>3. ASSUME NEW i \in DOMAIN history'
          PROVE  /\ history'[i].first <= history'[i].last
                 /\ i > 1 => history'[i].first = history'[i - 1].last + 1
      <3>1. CASE i = 1
        BY <3>1, <1>4, <1>5, <1>6
      <3>2. CASE i # 1
        <4>1. i \in 2..k /\ i \in 1..k /\ i - 1 \in 1..k /\ i > 1
          BY <3>2, <1>2, <1>6
        <4>2. history[i].first <= history[i].last /\ history[i].first = history[i - 1].last + 1
          BY <4>1, <1>2 DEF WindowInv, CountIsLength
        <4> QED
          BY <4>1, <4>2, <2>2, <1>6
      <3> QED
        BY <3>1, <3>2
    <2>4. rowCount' >= MaxRows
      BY <1>7, WindowAssumption
    <2> QED
      BY <2>1, <2>3, <2>4, <1>7, <1>8 DEF CountIsLength
  <1>11. Ordered'
    <2> SUFFICES ASSUME NEW i \in DOMAIN history', NEW j \in DOMAIN history', i < j
                 PROVE  history'[i].last < history'[j].first
      BY DEF Ordered
    <2>1. i \in DOMAIN history /\ j \in DOMAIN history /\ j \in 2..k
      BY <1>2, <1>6
    <2>2. history[i].last < history[j].first
      BY <2>1 DEF WindowInv, Ordered
    <2>3. history'[i].last = history[i].last
      BY <2>1, <1>2, <1>5, <1>6
    <2> QED
      BY <2>1, <2>2, <2>3, <1>6
  <1>12. WindowIs'
    <2>1. history'[1].first = cut
      BY <1>5, <1>6
    <2>2. ASSUME NEW x \in Window' PROVE x \in Window /\ x >= cut
      <3>1. PICK i \in DOMAIN history' : x \in history'[i].first..history'[i].last
        BY DEF Window
      <3>2. CASE i = 1
        <4>1. x \in cut..h.last
          BY <3>1, <3>2, <1>5, <1>6
        <4>2. x \in h.first..h.last
          BY <4>1, <1>3, <1>4
        <4>3. x \in Window
          BY <4>2, <1>2, <1>3 DEF Window
        <4> QED
          BY <4>1, <4>3, <1>3, <1>4
      <3>3. CASE i # 1
        <4>1. i \in 2..k /\ i \in 1..k /\ 1 < i /\ history'[i] = history[i]
          BY <3>3, <1>2, <1>6
        <4>2. x \in Window
          BY <3>1, <4>1, <1>2 DEF Window
        <4>3. h.last < history[i].first
          BY <4>1, <1>2, <1>3 DEF WindowInv, Ordered
        <4>4. history[i].first \in Nat
          BY <4>1, <1>2
        <4>5. x \in history[i].first..history[i].last
          BY <3>1, <4>1
        <4> HIDE DEF h, cut
        <4>6. x >= cut
          BY <4>3, <4>4, <4>5, <1>3, <1>4
        <4> QED
          BY <4>2, <4>6
      <3> QED
        BY <3>2, <3>3
    <2>3. ASSUME NEW x \in Window, x >= cut PROVE x \in Window'
      <3>1. PICK i \in DOMAIN history : x \in history[i].first..history[i].last
        BY DEF Window
      <3>2. i \in 1..k
        BY <1>2
      <3>3. CASE i = 1
        <4>1. x \in h.first..h.last
          BY <3>1, <3>3
        <4>2. x \in cut..h.last
          <5> HIDE DEF h, cut
          <5> QED
            BY <4>1, <2>3, <1>3, <1>4
        <4>3. x \in history'[1].first..history'[1].last /\ 1 \in DOMAIN history'
          BY <4>2, <1>3, <1>5, <1>6
        <4> QED
          BY <4>3 DEF Window
      <3>4. CASE i # 1
        <4>1. history'[i] = history[i] /\ i \in DOMAIN history'
          BY <3>2, <3>4, <1>2, <1>6
        <4> QED
          BY <3>1, <4>1 DEF Window
      <3> QED
        BY <3>3, <3>4
    <2>4. \A x : x \in Window' <=> x \in 1..arrived /\ x >= cut
      <3> HIDE DEF h, cut
      <3> QED
        BY <2>2, <2>3, <1>2, <1>3, <1>4
    <2> QED
      BY <2>1, <2>4, <1>1, <1>7 DEF WindowIs
  <1>13. IsTrimmed'
    BY <1>7, WindowAssumption DEF IsTrimmed
  <1> QED
    BY <1>9, <1>10, <1>11, <1>12, <1>13 DEF WindowInv

(* The remaining steps move the position or start over. *)
LEMMA OthersKeep ==
  WindowInv /\ (EmptyBatch \/ Trimmed \/ Judge \/ Reset \/ UNCHANGED vars) => WindowInv'
  <1> SUFFICES ASSUME WindowInv, EmptyBatch \/ Trimmed \/ Judge \/ Reset \/ UNCHANGED vars
               PROVE  WindowInv'
    OBVIOUS
  <1>1. CASE EmptyBatch
    <2>1. UNCHANGED <<history, rowCount, arrived>> /\ pc' = "judge" /\ pc = "idle"
      BY <1>1 DEF EmptyBatch
    <2> QED
      BY <2>1 DEF WindowInv, TypeOK, CountIsLength, Ordered, WindowIs, Window, IsTrimmed
  <1>2. CASE Trimmed
    <2>1. /\ UNCHANGED <<history, rowCount, arrived>> /\ pc' = "judge"
          /\ pc = "trim" /\ ~(rowCount > MaxRows /\ history # <<>>)
      BY <1>2 DEF Trimmed, MustTrim
    <2>2. rowCount \in Nat /\ (history = <<>> => rowCount = 0)
      BY DEF WindowInv, TypeOK, CountIsLength
    <2>3. rowCount <= MaxRows
      BY <2>1, <2>2, WindowAssumption
    <2> QED
      BY <2>1, <2>3 DEF WindowInv, TypeOK, CountIsLength, Ordered, WindowIs, Window, IsTrimmed
  <1>3. CASE Judge
    <2>1. /\ UNCHANGED <<history, rowCount, arrived>> /\ pc' = "idle" /\ pc = "judge"
      BY <1>3 DEF Judge
    <2> QED
      BY <2>1 DEF WindowInv, TypeOK, CountIsLength, Ordered, WindowIs, Window, IsTrimmed
  <1>4. CASE Reset
    <2>1. /\ history' = <<>> /\ rowCount' = 0 /\ arrived' = 0
          /\ pc' = pc /\ pc = "idle"
      BY <1>4 DEF Reset
    <2>2. Window' = {}
      BY <2>1 DEF Window
    <2>3. TypeOK' /\ CountIsLength' /\ Ordered' /\ IsTrimmed'
      BY <2>1, WindowAssumption DEF WindowInv, TypeOK, CountIsLength, Ordered, IsTrimmed
    <2>4. WindowIs'
      BY <2>1, <2>2 DEF WindowIs
    <2> QED
      BY <2>3, <2>4 DEF WindowInv
  <1>5. CASE UNCHANGED vars
    BY <1>5 DEF vars, WindowInv, TypeOK, CountIsLength, Ordered, WindowIs, Window, IsTrimmed
  <1> QED
    BY <1>1, <1>2, <1>3, <1>4, <1>5

(* Every reachable history is the tail of the arrivals that the invariant  *)
(* describes, at every iteration of the trimming loop.                     *)
THEOREM WindowInvariant == Spec => []WindowInv
  <1>1. WindowInv /\ [Next]_vars => WindowInv'
    BY AppendKeeps, TrimFrameKeeps, TrimRowsKeeps, OthersKeep DEF Next
  <1> QED
    BY InitWindow, <1>1, PTL DEF Spec

(* The row counter is the length of the window at every step               *)
(* (live_detector.py:35-48), for every max_rows and every batch size.      *)
THEOREM CountSafe == Spec => []CountIsLength
  <1>1. WindowInv => CountIsLength
    BY DEF WindowInv
  <1> QED
    BY WindowInvariant, <1>1, PTL

(* Whenever the detectors run, they see exactly the most recent max_rows   *)
(* rows, or all rows while fewer have arrived.                             *)
THEOREM WindowSafe == Spec => []JudgesRecent
  <1>1. WindowInv => JudgesRecent
    <2> SUFFICES ASSUME WindowInv, pc = "judge" PROVE Window = Recent
      BY DEF JudgesRecent
    <2>1. rowCount <= MaxRows
      BY DEF WindowInv, IsTrimmed
    <2>2. CASE history = <<>>
      <3>1. arrived = 0
        BY <2>2 DEF WindowInv, CountIsLength
      <3>2. Window = {}
        BY <2>2 DEF Window
      <3> QED
        BY <3>1, <3>2 DEF Recent
    <2>3. CASE history # <<>>
      <3> DEFINE first == history[1].first
      <3>1. /\ rowCount = arrived - first + 1
            /\ arrived \in Nat /\ rowCount \in Nat
            /\ \A x : x \in Window <=> x \in 1..arrived /\ x >= first
        BY <2>3, FrameFacts
      <3>2. first \in Nat \ {0}
        <4>1. 1 \in 1..Len(history)
          BY <2>3, FrameFacts
        <4> QED
          BY <2>3, <4>1, FrameFacts
      <3>3. rowCount >= MaxRows \/ first = 1
        BY <2>3 DEF WindowInv, CountIsLength
      <3> HIDE DEF first
      <3>4. \A x : x \in Window <=> x \in 1..arrived /\ x > arrived - MaxRows
        BY <3>1, <3>2, <3>3, <2>1, WindowAssumption
      <3> QED
        BY <3>4 DEF Recent
    <2> QED
      BY <2>2, <2>3
  <1> QED
    BY WindowInvariant, <1>1, PTL

-----------------------------------------------------------------------------
(* The deduplication of the stage's alerts. *)
LastIsLatest ==
  \A s \in Signatures :
    /\ \A t \in emitted[s] : s \in DOMAIN lastSeen /\ t <= lastSeen[s]
    /\ s \in DOMAIN lastSeen => lastSeen[s] \in emitted[s] /\ lastSeen[s] <= now

DedupInv == DedupType /\ LastIsLatest /\ Spaced /\ NeverStarved

LEMMA InitDedup == StageInit => DedupInv
  <1> SUFFICES ASSUME StageInit PROVE DedupInv
    OBVIOUS
  <1>1. DOMAIN lastSeen = {}
    BY DEF StageInit
  <1>2. DedupType
    <2>1. lastSeen \in [DOMAIN lastSeen -> Nat]
      BY DEF StageInit
    <2> QED
      BY <1>1, <2>1 DEF StageInit, DedupType
  <1> QED
    BY <1>1, <1>2 DEF StageInit, DedupInv, LastIsLatest, Spaced, NeverStarved

LEMMA ReportKeeps == DedupInv /\ Report => DedupInv'
  <1> SUFFICES ASSUME DedupInv, Report PROVE DedupInv'
    OBVIOUS
  <1>1. UNCHANGED <<now, lastSeen, emitted, held>>
    BY DEF Report
  <1>2. PICK n \in 0..MaxReported : batch' \in [1..n -> Signatures]
    BY DEF Report
  <1>3. batch' \in Seq(Signatures)
    BY <1>2, ReportAssumption
  <1> QED
    BY <1>1, <1>3 DEF DedupInv, DedupType, LastIsLatest, Spaced, NeverStarved

(* An emission is the latest of its signature and a window after the others. *)
LEMMA EmitKeeps == DedupInv /\ Emit => DedupInv'
  <1> SUFFICES ASSUME DedupInv, Emit PROVE DedupInv'
    OBVIOUS
  <1> DEFINE s == Head(batch)
  <1>1. /\ batch # <<>> /\ batch' = Tail(batch)
        /\ s \in DOMAIN lastSeen => now - lastSeen[s] >= WindowSeconds
        /\ lastSeen' = [x \in DOMAIN lastSeen \cup {s} |-> IF x = s THEN now ELSE lastSeen[x]]
        /\ emitted' = [emitted EXCEPT ![s] = @ \cup {now}]
        /\ now' = now /\ held' = held
    BY DEF Emit, MayEmit, Remembered
  <1>2. s \in Signatures /\ batch' \in Seq(Signatures)
    BY <1>1 DEF DedupInv, DedupType
  <1>3. /\ now \in Nat /\ WindowSeconds \in Nat
        /\ emitted \in [Signatures -> SUBSET Nat] /\ held \in [Signatures -> SUBSET Nat]
        /\ DOMAIN lastSeen \subseteq Signatures /\ \A x \in DOMAIN lastSeen : lastSeen[x] \in Nat
    BY DedupAssumption DEF DedupInv, DedupType
  <1> HIDE DEF s
  <1>4. /\ DOMAIN lastSeen' = DOMAIN lastSeen \cup {s}
        /\ lastSeen'[s] = now
        /\ \A x \in DOMAIN lastSeen : x # s => lastSeen'[x] = lastSeen[x]
    BY <1>1
  <1>5. /\ emitted'[s] = emitted[s] \cup {now}
        /\ \A x \in Signatures : x # s => emitted'[x] = emitted[x]
        /\ emitted' \in [Signatures -> SUBSET Nat]
    BY <1>1, <1>2, <1>3
  <1>6. \A t \in emitted[s] : t \in Nat /\ t <= now /\ now - t >= WindowSeconds
    <2> SUFFICES ASSUME NEW t \in emitted[s] PROVE t \in Nat /\ t <= now /\ now - t >= WindowSeconds
      OBVIOUS
    <2>1. t \in Nat /\ s \in DOMAIN lastSeen /\ t <= lastSeen[s] /\ lastSeen[s] <= now
      BY <1>2, <1>3 DEF DedupInv, LastIsLatest
    <2> QED
      BY <2>1, <1>1, <1>3
  <1>7. DedupType'
    <2>1. lastSeen' \in [DOMAIN lastSeen' -> Nat]
      BY <1>1, <1>3, <1>4
    <2> QED
      BY <2>1, <1>1, <1>2, <1>3, <1>4, <1>5 DEF DedupType
  <1>8. LastIsLatest'
    <2> SUFFICES ASSUME NEW x \in Signatures
                 PROVE  /\ \A t \in emitted'[x] : x \in DOMAIN lastSeen' /\ t <= lastSeen'[x]
                        /\ x \in DOMAIN lastSeen' => lastSeen'[x] \in emitted'[x] /\ lastSeen'[x] <= now'
      BY DEF LastIsLatest
    <2>1. CASE x = s
      BY <2>1, <1>1, <1>3, <1>4, <1>5, <1>6
    <2>2. CASE x # s
      BY <2>2, <1>1, <1>4, <1>5 DEF DedupInv, LastIsLatest
    <2> QED
      BY <2>1, <2>2
  <1>9. Spaced'
    <2> SUFFICES ASSUME NEW x \in Signatures, NEW t \in emitted'[x], NEW u \in emitted'[x], t < u
                 PROVE  u - t >= WindowSeconds
      BY DEF Spaced
    <2>1. CASE x = s
      <3>1. CASE u = now
        BY <2>1, <3>1, <1>3, <1>5, <1>6
      <3>2. CASE u # now
        <4>1. u \in emitted[s]
          BY <2>1, <3>2, <1>5
        <4>2. t # now
          <5>1. u \in Nat /\ u <= now /\ now \in Nat
            BY <4>1, <1>3, <1>6
          <5> QED
            BY <5>1
        <4>3. t \in emitted[s]
          BY <2>1, <4>2, <1>5
        <4> QED
          BY <4>1, <4>3, <1>2 DEF DedupInv, Spaced
      <3> QED
        BY <3>1, <3>2
    <2>2. CASE x # s
      BY <2>2, <1>5 DEF DedupInv, Spaced
    <2> QED
      BY <2>1, <2>2
  <1>10. NeverStarved'
    BY <1>1, <1>2, <1>5 DEF DedupInv, NeverStarved
  <1> QED
    BY <1>7, <1>8, <1>9, <1>10 DEF DedupInv

(* A held alert names the emission that holds it back. *)
LEMMA SuppressKeeps == DedupInv /\ Suppress => DedupInv'
  <1> SUFFICES ASSUME DedupInv, Suppress PROVE DedupInv'
    OBVIOUS
  <1> DEFINE s == Head(batch)
  <1>1. /\ batch # <<>> /\ batch' = Tail(batch)
        /\ s \in DOMAIN lastSeen /\ now - lastSeen[s] < WindowSeconds
        /\ held' = [held EXCEPT ![s] = {now}]
        /\ UNCHANGED <<now, lastSeen, emitted>>
    <2>1. ~MayEmit(s)
      BY DEF Suppress
    <2>2. s \in DOMAIN lastSeen /\ ~(now - lastSeen[s] >= WindowSeconds)
      BY <2>1 DEF MayEmit
    <2>3. now \in Nat /\ lastSeen[s] \in Nat /\ WindowSeconds \in Nat
      BY <2>2, DedupAssumption DEF DedupInv, DedupType
    <2> QED
      BY <2>2, <2>3 DEF Suppress
  <1>2. s \in Signatures /\ batch' \in Seq(Signatures)
    BY <1>1 DEF DedupInv, DedupType
  <1> HIDE DEF s
  <1>3. /\ held'[s] = {now}
        /\ \A x \in Signatures : x # s => held'[x] = held[x]
        /\ held' \in [Signatures -> SUBSET Nat]
    BY <1>1, <1>2 DEF DedupInv, DedupType
  <1>4. lastSeen[s] \in emitted[s] /\ lastSeen[s] <= now
    BY <1>1, <1>2 DEF DedupInv, LastIsLatest
  <1>5. NeverStarved'
    BY <1>1, <1>3, <1>4 DEF DedupInv, NeverStarved
  <1>6. DedupType' /\ LastIsLatest' /\ Spaced'
    BY <1>1, <1>2, <1>3 DEF DedupInv, DedupType, LastIsLatest, Spaced
  <1> QED
    BY <1>5, <1>6 DEF DedupInv

LEMMA TickKeeps == DedupInv /\ Tick => DedupInv'
  <1> SUFFICES ASSUME DedupInv, Tick PROVE DedupInv'
    OBVIOUS
  <1>1. now' = now + 1 /\ now \in Nat /\ UNCHANGED <<batch, lastSeen, emitted, held>>
    BY DEF Tick, alerts, DedupInv, DedupType
  <1>2. \A s \in DOMAIN lastSeen : lastSeen[s] \in Nat
    BY DEF DedupInv, DedupType
  <1>3. LastIsLatest'
    BY <1>1, <1>2 DEF DedupInv, LastIsLatest
  <1> QED
    BY <1>1, <1>3 DEF DedupInv, DedupType, Spaced, NeverStarved

(* Steps of the window leave the alerts alone. *)
LEMMA WindowStepKeeps == DedupInv /\ UNCHANGED <<now, alerts>> => DedupInv'
  BY DEF alerts, DedupInv, DedupType, LastIsLatest, Spaced, NeverStarved

(* _last_seen is the latest emission of every signature, however batches,  *)
(* repeats and the clock interleave.                                       *)
THEOREM DedupInvariant == StageSpec => []DedupInv
  <1>1. DedupInv /\ (Arrive \/ Trim \/ Restart \/ UNCHANGED stageVars) => DedupInv'
    BY WindowStepKeeps DEF Arrive, Trim, Restart, stageVars
  <1>2. DedupInv /\ [StageNext]_stageVars => DedupInv'
    BY ReportKeeps, EmitKeeps, SuppressKeeps, TickKeeps, <1>1 DEF StageNext
  <1> QED
    BY InitDedup, <1>2, PTL DEF StageSpec

(* For every window, an alert signature is emitted at most once per window *)
(* (AlertDeduplicator.is_duplicate).                                       *)
THEOREM SpacedSafe == StageSpec => []Spaced
  <1>1. DedupInv => Spaced
    BY DEF DedupInv
  <1> QED
    BY DedupInvariant, <1>1, PTL

(* For every window, only an emission less than the window old holds an    *)
(* alert back: suppression never extends itself.                           *)
THEOREM StarvedSafe == StageSpec => []NeverStarved
  <1>1. DedupInv => NeverStarved
    BY DEF DedupInv
  <1> QED
    BY DedupInvariant, <1>1, PTL

(* The stage drives the window as its own specification allows: the alert  *)
(* loop and the clock are stutters of the window.                          *)
THEOREM StageRefinesWindow == StageSpec => Spec
  <1>1. StageInit => Init
    BY DEF StageInit
  <1>2. [StageNext]_stageVars => [Next]_vars
    <2> SUFFICES ASSUME [StageNext]_stageVars PROVE [Next]_vars
      OBVIOUS
    <2>1. CASE Arrive
      BY <2>1 DEF Arrive, Next
    <2>2. CASE Trim
      BY <2>2 DEF Trim, Next
    <2>3. CASE Report
      BY <2>3 DEF Report, Next
    <2>4. CASE Restart
      BY <2>4 DEF Restart, Next
    <2>5. CASE Emit
      BY <2>5 DEF Emit
    <2>6. CASE Suppress
      BY <2>6 DEF Suppress
    <2>7. CASE Tick
      BY <2>7 DEF Tick
    <2>8. CASE UNCHANGED stageVars
      BY <2>8 DEF stageVars
    <2> QED
      BY <2>1, <2>2, <2>3, <2>4, <2>5, <2>6, <2>7, <2>8 DEF StageNext
  <1> QED
    BY <1>1, <1>2, PTL DEF StageSpec, Spec

(* Inside the worker too, the detectors see exactly the most recent rows   *)
(* (live_detector.py:74-89), for every max_rows, batch size and report.    *)
THEOREM StageJudgesRecent == StageSpec => []JudgesRecent
  BY StageRefinesWindow, WindowSafe, PTL
-----------------------------------------------------------------------------
(* The detectors                                                           *)

(* What has been seen stays seen: fs is a stretch of gs, k rows into it. *)
Within(fs, gs, k) == /\ k \in Nat /\ DOMAIN fs \subseteq Nat /\ IsFiniteSet(DOMAIN gs)
                     /\ \A i \in DOMAIN fs : i + k \in DOMAIN gs /\ gs[i + k] = fs[i]

LEMMA ImageIsFinite ==
  ASSUME NEW S, IsFiniteSet(S), NEW g
  PROVE  IsFiniteSet({g[x] : x \in S})
  <1> DEFINE T == {g[x] : x \in S}
             h == [x \in S |-> g[x]]
  <1>1. h \in Surjection(S, T)
    BY Zenon DEF Surjection
  <1> QED
    BY <1>1, FS_Surjection

LEMMA MoreIsNoLess ==
  ASSUME NEW S, NEW T, S \subseteq T, IsFiniteSet(T), NEW n \in Nat, Cardinality(S) >= n
  PROVE  Cardinality(T) >= n
  <1>1. /\ IsFiniteSet(S) /\ Cardinality(S) <= Cardinality(T)
    BY FS_Subset
  <1>2. Cardinality(S) \in Nat /\ Cardinality(T) \in Nat
    BY <1>1, FS_CardinalityType
  <1> QED
    BY <1>1, <1>2

(* Moving k rows on loses no place. *)
LEMMA ShiftIsNoLess ==
  ASSUME NEW S, S \subseteq Nat, NEW T, IsFiniteSet(T), NEW k \in Nat,
         \A i \in S : i + k \in T, NEW n \in Nat, Cardinality(S) >= n
  PROVE  Cardinality(T) >= n
  <1> DEFINE g == [i \in S |-> i + k]
  <1>1. g \in [S -> T]
    OBVIOUS
  <1>2. \A i, j \in S : g[i] = g[j] => i = j
    OBVIOUS
  <1> HIDE DEF g
  <1>3. g \in Injection(S, T)
    BY <1>1, <1>2 DEF Injection, IsInjective
  <1>4. IsFiniteSet(S) /\ Cardinality(S) <= Cardinality(T)
    BY <1>3, FS_Injection
  <1>5. Cardinality(S) \in Nat /\ Cardinality(T) \in Nat
    BY <1>4, FS_CardinalityType
  <1> QED
    BY <1>4, <1>5

LEMMA OfWithin ==
  ASSUME NEW fs, NEW gs, NEW k, Within(fs, gs, k), NEW p
  PROVE  /\ Of(fs, p) \subseteq Nat /\ (\A i \in Of(fs, p) : i + k \in Of(gs, p))
         /\ To(fs, p) \subseteq Nat /\ (\A i \in To(fs, p) : i + k \in To(gs, p))
         /\ IsFiniteSet(Of(gs, p)) /\ IsFiniteSet(To(gs, p))
         /\ Flow(fs) \subseteq Flow(gs)
         /\ Pairs(fs) \subseteq Pairs(gs)
  <1>1. /\ Of(fs, p) \subseteq Nat /\ (\A i \in Of(fs, p) : i + k \in Of(gs, p))
        /\ To(fs, p) \subseteq Nat /\ (\A i \in To(fs, p) : i + k \in To(gs, p))
    BY DEF Within, Of, To
  <1>2. IsFiniteSet(Of(gs, p)) /\ IsFiniteSet(To(gs, p))
    <2>1. Of(gs, p) \in SUBSET DOMAIN gs /\ To(gs, p) \in SUBSET DOMAIN gs
      BY DEF Of, To
    <2> QED
      BY <2>1, FS_Subset DEF Within
  <1>3. Flow(fs) \subseteq Flow(gs)
    BY DEF Within, Flow
  <1>4. Pairs(fs) \subseteq Pairs(gs)
    BY <1>3 DEF Pairs
  <1> QED
    BY <1>1, <1>2, <1>3, <1>4

LEMMA PortsAreFinite ==
  ASSUME NEW gs, IsFiniteSet(DOMAIN gs), NEW p
  PROVE  /\ IsFiniteSet(Of(gs, p)) /\ IsFiniteSet(Ports(gs, Of(gs, p)))
         /\ Cardinality(Of(gs, p)) \in Nat /\ Cardinality(Ports(gs, Of(gs, p))) \in Nat
  <1>1. IsFiniteSet(Of(gs, p))
    <2>1. Of(gs, p) \in SUBSET DOMAIN gs
      BY DEF Of
    <2> QED
      BY <2>1, FS_Subset
  <1> DEFINE g == [i \in Of(gs, p) |-> gs[i].port]
  <1>2. IsFiniteSet({g[i] : i \in Of(gs, p)})
    BY <1>1, ImageIsFinite
  <1>3. Ports(gs, Of(gs, p)) = {g[i] : i \in Of(gs, p)}
    BY DEF Ports
  <1> QED
    BY <1>1, <1>2, <1>3, FS_CardinalityType

(* A scan is not taken back by more traffic. *)
LEMMA ScansGrow ==
  ASSUME NEW fs, NEW gs, NEW k, Within(fs, gs, k), NEW n \in Nat
  PROVE  Scans(fs, n) \subseteq Scans(gs, n)
  <1> SUFFICES ASSUME NEW p \in Scans(fs, n) PROVE p \in Scans(gs, n)
    OBVIOUS
  <1> DEFINE P == Ports(fs, Of(fs, p))
             Q == Ports(gs, Of(gs, p))
  <1>1. P \subseteq Q
    <2> SUFFICES ASSUME NEW i \in Of(fs, p) PROVE fs[i].port \in Q
      BY DEF Ports
    <2>1. i + k \in Of(gs, p) /\ gs[i + k] = fs[i]
      BY OfWithin DEF Within, Of
    <2> QED
      BY <2>1 DEF Ports
  <1>2. IsFiniteSet(Q)
    BY PortsAreFinite DEF Within
  <1>3. Cardinality(P) >= n /\ p \in Pairs(gs)
    BY OfWithin DEF Scans
  <1>4. Cardinality(Q) >= n
    BY <1>1, <1>2, <1>3, MoreIsNoLess
  <1> QED
    BY <1>3, <1>4 DEF Scans

(* Nor is a flood. *)
LEMMA FloodsGrow ==
  ASSUME NEW fs, NEW gs, NEW k, Within(fs, gs, k)
  PROVE  Floods(fs) \subseteq Floods(gs)
  <1> SUFFICES ASSUME NEW d \in Floods(fs) PROVE d \in Floods(gs)
    OBVIOUS
  <1> DEFINE S == {fs[i].src : i \in To(fs, d)}
             T == {gs[i].src : i \in To(gs, d)}
  <1>1. S \subseteq T
    <2> SUFFICES ASSUME NEW i \in To(fs, d) PROVE fs[i].src \in T
      OBVIOUS
    <2>1. i + k \in To(gs, d) /\ gs[i + k] = fs[i]
      BY OfWithin DEF Within, To
    <2> QED
      BY <2>1
  <1>2. IsFiniteSet(T)
    <2> DEFINE g == [i \in To(gs, d) |-> gs[i].src]
    <2>1. IsFiniteSet({g[i] : i \in To(gs, d)})
      BY OfWithin, ImageIsFinite
    <2>2. T = {g[i] : i \in To(gs, d)}
      OBVIOUS
    <2> QED
      BY <2>1, <2>2
  <1>3. /\ d \in {f.dst : f \in Flow(gs)}
        /\ Cardinality(To(fs, d)) >= DdosConnections
        /\ Cardinality(S) >= DdosSources
    BY OfWithin DEF Floods
  <1>4. DdosConnections \in Nat /\ DdosSources \in Nat /\ k \in Nat
    BY ThresholdAssumption DEF Within
  <1>5. Cardinality(To(gs, d)) >= DdosConnections
    <2>1. /\ To(fs, d) \subseteq Nat /\ (\A i \in To(fs, d) : i + k \in To(gs, d))
          /\ IsFiniteSet(To(gs, d))
      BY OfWithin
    <2> QED
      BY <1>3, <1>4, <2>1, ShiftIsNoLess
  <1>6. Cardinality(T) >= DdosSources
    BY <1>1, <1>2, <1>3, <1>4, MoreIsNoLess
  <1> QED
    BY <1>3, <1>5, <1>6 DEF Floods

(* Nor is what repeats. *)
LEMMA LiveBeaconsGrow ==
  ASSUME NEW fs, NEW gs, NEW k, Within(fs, gs, k)
  PROVE  LiveBeacons(fs) \subseteq LiveBeacons(gs)
  <1> SUFFICES ASSUME NEW p \in LiveBeacons(fs) PROVE p \in LiveBeacons(gs)
    OBVIOUS
  <1>1. p \in Pairs(gs) /\ Cardinality(Of(fs, p)) >= LiveBeaconConnections
    BY OfWithin DEF LiveBeacons
  <1>2. /\ Of(fs, p) \subseteq Nat /\ (\A i \in Of(fs, p) : i + k \in Of(gs, p))
        /\ IsFiniteSet(Of(gs, p)) /\ k \in Nat
    BY OfWithin DEF Within
  <1>3. Cardinality(Of(gs, p)) >= LiveBeaconConnections
    BY <1>1, <1>2, ThresholdAssumption, ShiftIsNoLess
  <1> QED
    BY <1>1, <1>3 DEF LiveBeacons

LEMMA TransfersGrow ==
  ASSUME NEW fs, NEW gs, NEW k, Within(fs, gs, k)
  PROVE  Transfers(fs) \subseteq Transfers(gs)
  BY OfWithin DEF Transfers

(* What the dashboard calls a scan, a beacon or a transfer on a stretch of   *)
(* the log, the worker's detectors name on any window that holds it: they    *)
(* ask for less.                                                            *)
LEMMA OfflineIsLive ==
  ASSUME NEW fs, IsFiniteSet(DOMAIN fs), NEW gs, NEW k, Within(fs, gs, k)
  PROVE  Scans(fs, ScanPorts) \cup Beacons(fs) \cup Transfers(fs) \subseteq LivePairs(gs)
  <1>1. /\ ScanPorts \in Nat /\ LiveScanPorts \in Nat /\ LiveScanPorts <= ScanPorts
        /\ BeaconConnections \in Nat /\ LiveBeaconConnections \in Nat
        /\ LiveBeaconConnections <= BeaconConnections
    BY ThresholdAssumption
  <1>2. Scans(fs, ScanPorts) \subseteq Scans(fs, LiveScanPorts)
    BY <1>1, PortsAreFinite DEF Scans
  <1>3. Beacons(fs) \subseteq LiveBeacons(fs)
    BY <1>1, PortsAreFinite DEF Beacons, LiveBeacons
  <1>4. /\ Scans(fs, LiveScanPorts) \subseteq Scans(gs, LiveScanPorts)
        /\ LiveBeacons(fs) \subseteq LiveBeacons(gs)
        /\ Transfers(fs) \subseteq Transfers(gs)
    BY <1>1, ScansGrow, LiveBeaconsGrow, TransfersGrow
  <1> QED
    BY <1>2, <1>3, <1>4 DEF LivePairs

(* The label is one of the types that match, and "benign" if none does. *)
Hits(threats, f) == {i \in DOMAIN Types : Matches(threats, Types[i], f)}

LEMMA TypesAre ==
  /\ DOMAIN Types = 1..5
  /\ Types[1] = "port_scan" /\ Types[2] = "ddos" /\ Types[3] = "beaconing"
  /\ Types[4] = "exfiltration" /\ Types[5] = "dga"
  BY DEF Types

LEMMA LabelIs ==
  ASSUME NEW threats, NEW f
  PROVE  /\ Hits(threats, f) = {} => Label(threats, f) = "benign"
         /\ Hits(threats, f) # {} => \E i \in Hits(threats, f) : Label(threats, f) = Types[i]
         /\ Hits(threats, f) # {} => Label(threats, f) # "benign"
  <1> DEFINE hits == Hits(threats, f)
  <1>1. Label(threats, f) =
          IF hits = {} THEN "benign" ELSE Types[CHOOSE i \in hits : \A j \in hits : i <= j]
    BY DEF Label, Hits
  <1>2. hits \subseteq 1..5
    BY TypesAre DEF Hits
  <1> HIDE DEF hits
  <1>3. hits # {} => \E i \in hits : \A j \in hits : i <= j
    <2>1. CASE 1 \in hits
      BY <1>2, <2>1
    <2>2. CASE 1 \notin hits /\ 2 \in hits
      BY <1>2, <2>2
    <2>3. CASE 1 \notin hits /\ 2 \notin hits /\ 3 \in hits
      BY <1>2, <2>3
    <2>4. CASE 1 \notin hits /\ 2 \notin hits /\ 3 \notin hits /\ 4 \in hits
      BY <1>2, <2>4
    <2>5. CASE hits \subseteq {5}
      <3>1. hits # {} => 5 \in hits
        BY <2>5
      <3>2. \A j \in hits : j = 5 /\ 5 <= j
        BY <2>5
      <3> QED
        BY <3>1, <3>2
    <2>6. 1 \notin hits /\ 2 \notin hits /\ 3 \notin hits /\ 4 \notin hits => hits \subseteq {5}
      BY <1>2
    <2> QED
      BY <2>1, <2>2, <2>3, <2>4, <2>5, <2>6
  <1>4. hits # {} => \E i \in hits : Label(threats, f) = Types[i]
    BY <1>1, <1>3
  <1>5. \A i \in hits : Types[i] # "benign"
    BY <1>2, TypesAre
  <1>6. hits # {} => Label(threats, f) # "benign"
    BY <1>4, <1>5
  <1> QED
    BY <1>1, <1>4, <1>6 DEF hits

(* An alert other than a beacon that matched a flow matches it when the log  *)
(* and the queries have grown, and no detector raised.                     *)
LEMMA MatchesStay ==
  ASSUME NEW fs, NEW gs, Within(fs, gs, 0), NEW more, NEW all, Within(more, all, 0),
         NEW qs, NEW rs, qs \subseteq rs, NEW raised, NEW f,
         NEW type \in {"port_scan", "ddos", "exfiltration", "dga"},
         Matches(Threats(fs, more, qs, raised), type, f)
  PROVE  Matches(Threats(gs, all, rs, {}), type, f)
  <1> DEFINE t == Threats(fs, more, qs, raised)
             u == Threats(gs, all, rs, {})
  <1>1. /\ t.port_scan \subseteq u.port_scan /\ t["port_scan"] = t.port_scan
        /\ u["port_scan"] = u.port_scan
    BY ScansGrow, ThresholdAssumption DEF Threats
  <1>2. t.ddos \subseteq u.ddos
    BY FloodsGrow DEF Threats
  <1>3. t.exfiltration \subseteq u.exfiltration
    BY TransfersGrow DEF Threats
  <1>4. t.dga \subseteq u.dga
    BY DEF Threats
  <1> HIDE DEF t, u
  <1>5. CASE type = "port_scan"
    BY <1>1, <1>5 DEF Matches, t, u
  <1>6. CASE type = "ddos"
    BY <1>2, <1>6 DEF Matches, t, u
  <1>7. CASE type = "exfiltration"
    BY <1>3, <1>7 DEF Matches, t, u
  <1>8. CASE type = "dga"
    BY <1>4, <1>8 DEF Matches, t, u
  <1> QED
    BY <1>5, <1>6, <1>7, <1>8

(* What is shown is what the dashboard's detectors said of a beginning of the *)
(* log, with the transfers of a longer one and some of the queries; and the   *)
(* worker has taken a beginning of the log and flagged what its promise says.*)
IsShownOf(n, m, queries) ==
  shown = Labelled(SubSeq(log, 1, n), Threats(SubSeq(log, 1, n), SubSeq(log, 1, m), queries, failed))

IsShown ==
  \E n, m \in 0..Len(log) : \E queries \in SUBSET dns : IsShownOf(n, m, queries)

VerdictInv == log \in Seq(Flows) /\ judged \in 0..Len(log) /\ IsShown /\ OfflineIsFlagged

(* Rows i to j of a log. *)
LEMMA Stretch ==
  ASSUME NEW S, NEW fs \in Seq(S), NEW i \in Nat \ {0}, NEW j \in Nat, i <= j + 1, j <= Len(fs)
  PROVE  /\ SubSeq(fs, i, j) \in Seq(S)
         /\ DOMAIN SubSeq(fs, i, j) = 1..(j - i + 1)
         /\ Len(SubSeq(fs, i, j)) = j - i + 1
         /\ IsFiniteSet(DOMAIN SubSeq(fs, i, j))
         /\ \A x \in 1..(j - i + 1) : SubSeq(fs, i, j)[x] = fs[i + x - 1]
  <1> DEFINE part == SubSeq(fs, i, j)
  <1>1. Len(fs) \in Nat /\ i \in 1..(Len(fs) + 1) /\ j \in (i - 1)..Len(fs) /\ j - i + 1 \in Nat
    OBVIOUS
  <1>2. /\ part \in Seq(S) /\ Len(part) = j - i + 1
        /\ \A x \in 1..(j - i + 1) : part[x] = fs[i + x - 1]
    BY <1>1, SubSeqProperties
  <1> HIDE DEF part
  <1>3. DOMAIN part = 1..(j - i + 1)
    BY <1>1, <1>2
  <1>4. IsFiniteSet(1..(j - i + 1))
    BY <1>1, FS_Interval
  <1> QED
    BY <1>2, <1>3, <1>4 DEF part

(* A stretch lies within every longer one around it. *)
LEMMA StretchWithin ==
  ASSUME NEW S, NEW fs \in Seq(S), NEW w \in Nat \ {0}, NEW i \in Nat, NEW j \in Nat, NEW e \in Nat,
         w <= i, i <= j + 1, j <= e, e <= Len(fs)
  PROVE  Within(SubSeq(fs, i, j), SubSeq(fs, w, e), i - w)
  <1>1. i \in Nat \ {0} /\ j <= Len(fs) /\ w <= e + 1 /\ i - w \in Nat /\ Len(fs) \in Nat
    OBVIOUS
  <1> DEFINE a == SubSeq(fs, i, j)
             b == SubSeq(fs, w, e)
  <1>2. /\ DOMAIN a = 1..(j - i + 1)
        /\ \A x \in 1..(j - i + 1) : a[x] = fs[i + x - 1]
    BY <1>1, Stretch
  <1>3. /\ DOMAIN b = 1..(e - w + 1) /\ IsFiniteSet(DOMAIN b)
        /\ \A x \in 1..(e - w + 1) : b[x] = fs[w + x - 1]
    BY <1>1, Stretch
  <1> HIDE DEF a, b
  <1>4. ASSUME NEW x \in DOMAIN a PROVE x + (i - w) \in DOMAIN b /\ b[x + (i - w)] = a[x]
    <2>1. x \in 1..(j - i + 1) /\ a[x] = fs[i + x - 1]
      BY <1>2
    <2>2. x + (i - w) \in 1..(e - w + 1)
      BY <2>1
    <2>3. b[x + (i - w)] = fs[w + (x + (i - w)) - 1]
      BY <1>3, <2>2
    <2>4. w + (x + (i - w)) - 1 = i + x - 1
      BY <2>1
    <2> QED
      BY <1>3, <2>1, <2>2, <2>3, <2>4
  <1>5. DOMAIN a \subseteq Nat
    BY <1>2
  <1> QED
    BY <1>1, <1>3, <1>4, <1>5 DEF Within, a, b

LEMMA InitVerdict == VerdictInit => VerdictInv
  <1> SUFFICES ASSUME VerdictInit PROVE VerdictInv
    OBVIOUS
  <1>1. log = <<>> /\ shown = <<>> /\ judged = 0
    BY DEF VerdictInit
  <1>2. log \in Seq(Flows) /\ Len(log) = 0
    BY <1>1
  <1>3. DOMAIN SubSeq(log, 1, 0) = {}
    BY <1>2, Stretch
  <1>4. IsShownOf(0, 0, {})
    BY <1>1, <1>3 DEF IsShownOf, Labelled
  <1>5. IsShown
    BY <1>2, <1>4 DEF IsShown
  <1>6. OfflineIsFlagged
    BY <1>1 DEF OfflineIsFlagged
  <1> QED
    BY <1>1, <1>2, <1>5, <1>6 DEF VerdictInv

LEMMA FlowKeeps == VerdictInv /\ FlowLogged => VerdictInv'
  <1> SUFFICES ASSUME VerdictInv, FlowLogged PROVE VerdictInv'
    OBVIOUS
  <1>1. PICK f \in Flows : log' = Append(log, f)
    BY DEF FlowLogged
  <1>2. /\ log \in Seq(Flows) /\ log' \in Seq(Flows) /\ Len(log) \in Nat /\ Len(log') = Len(log) + 1
        /\ \A x \in 1..Len(log) : log'[x] = log[x]
    BY <1>1 DEF VerdictInv
  <1>3. judged' = judged /\ flagged' = flagged /\ shown' = shown /\ failed' = failed /\ dns' = dns
    BY DEF FlowLogged, workerVars, pageVars
  <1>4. ASSUME NEW i \in Nat \ {0}, NEW j \in 0..Len(log)
        PROVE  SubSeq(log', i, j) = SubSeq(log, i, j)
    BY <1>1, <1>2
  <1>5. judged' \in 0..Len(log')
    BY <1>2, <1>3 DEF VerdictInv
  <1>6. IsShown'
    <2>1. PICK n \in 0..Len(log), m \in 0..Len(log), queries \in SUBSET dns : IsShownOf(n, m, queries)
      BY DEF VerdictInv, IsShown
    <2>2. n \in 0..Len(log') /\ m \in 0..Len(log')
      BY <1>2
    <2>3. SubSeq(log', 1, n) = SubSeq(log, 1, n) /\ SubSeq(log', 1, m) = SubSeq(log, 1, m)
      BY <1>4, <2>2
    <2>4. IsShownOf(n, m, queries)'
      BY <1>3, <2>1, <2>3 DEF IsShownOf
    <2> QED
      BY <1>3, <2>2, <2>4 DEF IsShown
  <1>7. OfflineIsFlagged'
    <2> SUFFICES ASSUME NEW j \in 1..judged, NEW i \in 1..j, j - i + MaxAtOnce <= LiveRows
                 PROVE  LET rows == SubSeq(log', i, j) IN
                          /\ \A p \in Scans(rows, ScanPorts) \cup Beacons(rows) \cup Transfers(rows) :
                               p[1] \in flagged
                          /\ log'[j].dst \in Floods(rows) => log'[j].src \in flagged
      BY <1>3 DEF OfflineIsFlagged
    <2>1. j \in 1..Len(log) /\ i \in Nat \ {0}
      BY <1>2 DEF VerdictInv
    <2>2. SubSeq(log', i, j) = SubSeq(log, i, j) /\ log'[j] = log[j]
      BY <1>2, <1>4, <2>1
    <2> QED
      BY <2>2 DEF VerdictInv, OfflineIsFlagged
  <1> QED
    BY <1>2, <1>5, <1>6, <1>7 DEF VerdictInv

LEMMA QueryKeeps == VerdictInv /\ QueryLogged => VerdictInv'
  <1> SUFFICES ASSUME VerdictInv, QueryLogged PROVE VerdictInv'
    OBVIOUS
  <1>1. /\ log' = log /\ judged' = judged /\ flagged' = flagged /\ shown' = shown /\ failed' = failed
        /\ dns \subseteq dns'
    BY DEF QueryLogged, workerVars, pageVars
  <1>2. IsShown'
    BY <1>1 DEF VerdictInv, IsShown, IsShownOf
  <1>3. OfflineIsFlagged'
    BY <1>1 DEF VerdictInv, OfflineIsFlagged
  <1> QED
    BY <1>1, <1>2, <1>3 DEF VerdictInv

(* The window after a batch holds every short stretch that ends in the batch. *)
LEMMA LastRowsHold ==
  ASSUME log \in Seq(Flows), NEW e \in 0..Len(log), NEW n \in 1..MaxAtOnce,
         NEW j \in Nat, e - n < j, j <= e, NEW i \in 1..j, j - i + MaxAtOnce <= LiveRows
  PROVE  \E k \in Nat : Within(SubSeq(log, i, j), LastRows(e), k)
  <1>1. LiveRows \in Nat /\ MaxAtOnce \in Nat /\ Len(log) \in Nat
    BY ThresholdAssumption
  <1> DEFINE w == IF e > LiveRows THEN e - LiveRows + 1 ELSE 1
  <1>2. w \in Nat \ {0} /\ w <= i /\ i - w \in Nat
    BY <1>1
  <1>3. Within(SubSeq(log, i, j), SubSeq(log, w, e), i - w)
    BY <1>1, <1>2, StretchWithin
  <1> QED
    BY <1>2, <1>3 DEF LastRows

LEMMA JudgeKeeps == VerdictInv /\ WorkerJudges => VerdictInv'
  <1> SUFFICES ASSUME VerdictInv, WorkerJudges PROVE VerdictInv'
    OBVIOUS
  <1>1. PICK n \in 1..MaxAtOnce :
          /\ judged + n <= Len(log)
          /\ judged' = judged + n
          /\ flagged' = flagged \cup Named(LastRows(judged'), SubSeq(log, judged + 1, judged'))
          /\ UNCHANGED <<log, dns, pageVars>>
    BY DEF WorkerJudges
  <1>2. log' = log /\ dns' = dns /\ shown' = shown /\ failed' = failed
    BY <1>1 DEF pageVars
  <1>3. /\ log \in Seq(Flows) /\ Len(log) \in Nat /\ MaxAtOnce \in Nat /\ judged \in Nat
        /\ judged' \in 0..Len(log) /\ n \in Nat
    BY <1>1, ThresholdAssumption DEF VerdictInv
  <1>4. IsShown'
    BY <1>2 DEF VerdictInv, IsShown, IsShownOf
  <1>5. OfflineIsFlagged'
    <2> SUFFICES ASSUME NEW j \in 1..judged', NEW i \in 1..j, j - i + MaxAtOnce <= LiveRows
                 PROVE  LET rows == SubSeq(log, i, j) IN
                          /\ \A p \in Scans(rows, ScanPorts) \cup Beacons(rows) \cup Transfers(rows) :
                               p[1] \in flagged'
                          /\ log[j].dst \in Floods(rows) => log[j].src \in flagged'
      BY <1>2 DEF OfflineIsFlagged
    <2>1. CASE j <= judged
      <3>1. j \in 1..judged
        BY <1>3, <2>1
      <3>2. flagged \subseteq flagged'
        BY <1>1
      <3> QED
        BY <3>1, <3>2 DEF VerdictInv, OfflineIsFlagged
    <2>2. CASE j > judged
      <3> DEFINE rows == SubSeq(log, i, j)
                 window == LastRows(judged')
                 taken == SubSeq(log, judged + 1, judged')
      <3>1. j \in Nat /\ j <= judged' /\ judged' - n < j /\ i \in Nat \ {0} /\ j <= Len(log)
        BY <1>1, <1>3, <2>2
      <3>2. PICK k \in Nat : Within(rows, window, k)
        BY <1>3, <3>1, LastRowsHold
      <3>3. IsFiniteSet(DOMAIN rows)
        BY <1>3, <3>1, Stretch
      <3>4. Named(window, taken) \subseteq flagged'
        BY <1>1
      <3>5. log[j] \in Flow(taken)
        <4>1. judged + 1 \in Nat \ {0} /\ judged' \in Nat /\ judged' <= Len(log) /\ judged + 1 <= judged' + 1
          BY <1>1, <1>3
        <4>2. /\ DOMAIN taken = 1..(judged' - (judged + 1) + 1)
              /\ \A x \in 1..(judged' - (judged + 1) + 1) : taken[x] = log[(judged + 1) + x - 1]
          <5>1. ASSUME NEW e \in Nat, e <= Len(log), judged + 1 <= e + 1
                PROVE  /\ DOMAIN SubSeq(log, judged + 1, e) = 1..(e - (judged + 1) + 1)
                       /\ \A x \in 1..(e - (judged + 1) + 1) :
                            SubSeq(log, judged + 1, e)[x] = log[(judged + 1) + x - 1]
            BY <1>3, <4>1, Stretch
          <5> QED
            BY <4>1, <5>1
        <4> DEFINE x == j - judged
        <4>3. x \in 1..(judged' - (judged + 1) + 1) /\ (judged + 1) + x - 1 = j
          BY <1>1, <1>3, <2>2, <3>1
        <4> HIDE DEF x, taken
        <4>4. x \in DOMAIN taken /\ taken[x] = log[j]
          BY <4>2, <4>3
        <4> QED
          BY <4>4 DEF Flow
      <3>6. Scans(rows, ScanPorts) \cup Beacons(rows) \cup Transfers(rows) \subseteq LivePairs(window)
        BY <3>2, <3>3, OfflineIsLive
      <3>7. Floods(rows) \subseteq Floods(window)
        BY <3>2, FloodsGrow
      <3> HIDE DEF rows, window, taken
      <3>8. \A p \in Scans(rows, ScanPorts) \cup Beacons(rows) \cup Transfers(rows) : p[1] \in flagged'
        BY <3>4, <3>6 DEF Named
      <3>9. log[j].dst \in Floods(rows) => log[j].src \in flagged'
        BY <3>4, <3>5, <3>7 DEF Named
      <3> QED
        BY <3>8, <3>9 DEF rows
    <2> QED
      BY <1>3, <2>1, <2>2
  <1> QED
    BY <1>2, <1>3, <1>4, <1>5 DEF VerdictInv

LEMMA ShownLen == VerdictInv => Len(shown) \in 0..Len(log)
  <1> SUFFICES ASSUME VerdictInv PROVE Len(shown) \in 0..Len(log)
    OBVIOUS
  <1>1. PICK n \in 0..Len(log), m \in 0..Len(log), queries \in SUBSET dns : IsShownOf(n, m, queries)
    BY DEF VerdictInv, IsShown
  <1>2. n \in Nat /\ n <= Len(log)
    BY DEF VerdictInv
  <1>3. DOMAIN SubSeq(log, 1, n) = 1..n
    BY <1>2, Stretch DEF VerdictInv
  <1>4. DOMAIN shown = 1..n /\ shown = [x \in 1..n |-> shown[x]]
    BY <1>1, <1>3 DEF IsShownOf, Labelled
  <1>5. Len(shown) = n
    BY <1>2, <1>4
  <1> QED
    BY <1>5

LEMMA RefreshKeeps == VerdictInv /\ Refresh => VerdictInv'
  <1> SUFFICES ASSUME VerdictInv, Refresh PROVE VerdictInv'
    OBVIOUS
  <1>1. PICK n \in Len(shown)..Len(log) :
          /\ shown' = Labelled(SubSeq(log, 1, n), Threats(SubSeq(log, 1, n), log, dns, failed'))
          /\ UNCHANGED <<log, dns, workerVars>>
    BY DEF Refresh
  <1>2. /\ log' = log /\ dns' = dns /\ judged' = judged /\ flagged' = flagged
        /\ log \in Seq(Flows) /\ Len(log) \in Nat
    BY <1>1 DEF VerdictInv, workerVars
  <1>3. n \in 0..Len(log) /\ Len(log) \in 0..Len(log) /\ SubSeq(log, 1, Len(log)) = log
    BY <1>1, <1>2, ShownLen
  <1>4. IsShownOf(n, Len(log), dns)'
    BY <1>1, <1>2, <1>3 DEF IsShownOf
  <1>5. IsShown'
    BY <1>2, <1>3, <1>4 DEF IsShown
  <1>6. OfflineIsFlagged'
    BY <1>2 DEF VerdictInv, OfflineIsFlagged
  <1> QED
    BY <1>2, <1>5, <1>6 DEF VerdictInv

(* What is shown and what is flagged follow the log, for every threshold    *)
(* that the assumption allows, every log, and each reader's pace.           *)
THEOREM VerdictInvariant == VerdictSpec => []VerdictInv
  <1>1. VerdictInv /\ UNCHANGED verdictVars => VerdictInv'
    BY DEF VerdictInv, IsShown, IsShownOf, OfflineIsFlagged, LastRows, verdictVars, workerVars, pageVars
  <1>2. VerdictInv /\ [VerdictNext]_verdictVars => VerdictInv'
    BY FlowKeeps, QueryKeeps, JudgeKeeps, RefreshKeeps, <1>1 DEF VerdictNext
  <1> QED
    BY InitVerdict, <1>2, PTL DEF VerdictSpec

(* On every stretch of the log that fits the window beside a batch, the      *)
(* worker has flagged every source that the dashboard's detectors name, and *)
(* who joins a flood (live_detector.py:35-48, live_pipeline.py:144-152).     *)
THEOREM FlaggedSafe == VerdictSpec => []OfflineIsFlagged
  <1>1. VerdictInv => OfflineIsFlagged
    BY DEF VerdictInv
  <1> QED
    BY VerdictInvariant, <1>1, PTL

(* A refresh leaves every flag up that the log alone justifies.             *)
LEMMA FlagsStay ==
  ASSUME VerdictInv, Refresh, failed' = {}, NEW i \in DOMAIN shown,
         shown[i].label \notin {"benign", "beaconing"}
  PROVE  shown'[i].label # "benign"
  <1>1. PICK n \in 0..Len(log), m \in 0..Len(log), queries \in SUBSET dns : IsShownOf(n, m, queries)
    BY DEF VerdictInv, IsShown
  <1>2. PICK r \in Len(shown)..Len(log) :
          shown' = Labelled(SubSeq(log, 1, r), Threats(SubSeq(log, 1, r), log, dns, failed'))
    BY DEF Refresh
  <1>3. log \in Seq(Flows) /\ Len(log) \in Nat
    BY DEF VerdictInv
  <1> DEFINE fs == SubSeq(log, 1, n)
             gs == SubSeq(log, 1, r)
             t == Threats(fs, SubSeq(log, 1, m), queries, failed)
             u == Threats(gs, log, dns, {})
  <1>4. DOMAIN fs = 1..n /\ Len(fs) = n
    BY <1>3, Stretch
  <1>5. DOMAIN shown = 1..n /\ Len(shown) = n /\ shown[i].label = Label(t, fs[i])
    BY <1>1, <1>4 DEF IsShownOf, Labelled
  <1>6. r \in Nat /\ n <= r /\ r <= Len(log) /\ m \in Nat /\ m <= Len(log)
    BY <1>2, <1>3, <1>5
  <1>7. DOMAIN gs = 1..r
    BY <1>3, <1>6, Stretch
  <1>8. Within(fs, gs, 0)
    <2>1. 1 \in Nat \ {0} /\ 1 <= n + 1 /\ n \in Nat /\ 1 - 1 = 0
      BY <1>3
    <2>2. Within(SubSeq(log, 1, n), SubSeq(log, 1, r), 1 - 1)
      BY <1>3, <1>6, <2>1, StretchWithin
    <2> QED
      BY <2>1, <2>2
  <1>9. Within(SubSeq(log, 1, m), log, 0)
    <2>1. 1 \in Nat \ {0} /\ 1 <= m + 1 /\ 1 - 1 = 0 /\ SubSeq(log, 1, Len(log)) = log
      BY <1>3, <1>6
    <2>2. Within(SubSeq(log, 1, m), SubSeq(log, 1, Len(log)), 1 - 1)
      BY <1>3, <1>6, <2>1, StretchWithin
    <2> QED
      BY <2>1, <2>2
  <1>10. i \in DOMAIN fs /\ i \in DOMAIN gs /\ gs[i] = fs[i]
    BY <1>3, <1>4, <1>5, <1>6, <1>7, <1>8 DEF Within
  <1>11. shown'[i].label = Label(u, fs[i])
    <2>1. shown' = Labelled(gs, u)
      BY <1>2
    <2> HIDE DEF gs, u
    <2> QED
      BY <1>10, <2>1 DEF Labelled
  <1> DEFINE f == fs[i]
  <1> HIDE DEF t, u, f, fs, gs
  <1>12. PICK k \in Hits(t, f) : Label(t, f) = Types[k]
    BY <1>5, LabelIs DEF f
  <1>13. /\ k \in 1..5 /\ Matches(t, Types[k], f)
         /\ Types[k] \in {"port_scan", "ddos", "exfiltration", "dga"}
    BY <1>5, <1>12, TypesAre DEF Hits, f
  <1>14. Matches(u, Types[k], f)
    <2>1. ASSUME NEW type \in {"port_scan", "ddos", "exfiltration", "dga"}, Matches(t, type, f)
          PROVE  Matches(u, type, f)
      <3>1. queries \subseteq dns
        OBVIOUS
      <3>2. Matches(Threats(fs, SubSeq(log, 1, m), queries, failed), type, f)
        BY <2>1 DEF t
      <3>3. Matches(Threats(gs, log, dns, {}), type, f)
        BY <1>8, <1>9, <3>1, <3>2, MatchesStay
      <3> QED
        BY <3>3 DEF u
    <2> QED
      BY <1>13, <2>1
  <1>15. k \in Hits(u, f)
    BY <1>13, <1>14, TypesAre DEF Hits
  <1> QED
    BY <1>11, <1>15, LabelIs DEF f

(* For every threshold, a flow shown as flagged stays so while the log      *)
(* grows, unless only its regularity spoke against it or the detector fails *)
(* (run_rule_detectors).                                                   *)
THEOREM FlagsSafe == VerdictSpec => NeverUnflagged
  <1>1. VerdictInv /\ [VerdictNext]_verdictVars =>
          [failed' = {} =>
             \A i \in DOMAIN shown :
               shown[i].label \notin {"benign", "beaconing"} => shown'[i].label # "benign"]_verdictVars
    <2> SUFFICES ASSUME VerdictInv, VerdictNext, failed' = {}, NEW i \in DOMAIN shown,
                        shown[i].label \notin {"benign", "beaconing"}
                 PROVE  shown'[i].label # "benign"
      BY DEF verdictVars
    <2>1. CASE Refresh
      BY <2>1, FlagsStay
    <2>2. CASE FlowLogged \/ QueryLogged \/ WorkerJudges
      <3>1. shown' = shown
        BY <2>2 DEF FlowLogged, QueryLogged, WorkerJudges, pageVars
      <3> QED
        BY <3>1
    <2> QED
      BY <2>1, <2>2 DEF VerdictNext
  <1> QED
    BY VerdictInvariant, <1>1, PTL DEF VerdictSpec, NeverUnflagged

-----------------------------------------------------------------------------
(* The page. A set of numbers that is not empty has a first one.            *)
LEMMA FirstNumber ==
  ASSUME NEW P \in SUBSET Nat, P # {}
  PROVE  \E p \in P : \A q \in P : p <= q
  <1> DEFINE R == OpToRel(<, Nat)
  <1>1. IsWellFoundedOn(R, Nat)
    BY NatLessThanWellFounded
  <1>2. PICK p \in P : \A q \in P : ~(<<q, p>> \in R)
    BY <1>1, WFMin
  <1>3. \A q \in P : ~(q < p)
    BY <1>2 DEF OpToRel
  <1> QED
    BY <1>3

(* The loop of get_groups: the record of a source after n flows. *)
LoopOf(flows, s, N, g) ==
  g = [n \in 0..N |-> IF n = 0 THEN NoGroup
                      ELSE IF flows[n].src = s THEN Grouped(g[n - 1], flows[n]) ELSE g[n - 1]]

LEMMA LoopExists ==
  ASSUME NEW flows, NEW s, NEW N \in Nat
  PROVE  \E g : LoopOf(flows, s, N, g)
  <1> DEFINE Without == {n \in Nat : ~ \E g : LoopOf(flows, s, n, g)}
  <1>1. SUFFICES ASSUME Without # {} PROVE FALSE
    OBVIOUS
  <1>2. PICK m \in Without : \A n \in Without : m <= n
    <2>1. Without \in SUBSET Nat
      OBVIOUS
    <2> HIDE DEF Without
    <2> QED
      BY <1>1, <2>1, FirstNumber
  <1>3. m # 0
    <2>1. SUFFICES ASSUME m = 0 PROVE FALSE
      OBVIOUS
    <2> DEFINE g == [n \in 0..0 |-> NoGroup]
    <2>2. LoopOf(flows, s, 0, g)
      BY DEF LoopOf
    <2> QED
      BY <1>2, <2>1, <2>2
  <1>4. m \in Nat /\ m - 1 \in Nat /\ m - 1 \notin Without
    BY <1>2, <1>3
  <1>5. PICK g : LoopOf(flows, s, m - 1, g)
    BY <1>4
  <1> DEFINE last == IF flows[m].src = s THEN Grouped(g[m - 1], flows[m]) ELSE g[m - 1]
             h == [n \in 0..m |-> IF n = m THEN last ELSE g[n]]
  <1>6. \A n \in 0..m : h[n] = IF n = 0 THEN NoGroup
                               ELSE IF flows[n].src = s THEN Grouped(h[n - 1], flows[n]) ELSE h[n - 1]
    <2> SUFFICES ASSUME NEW n \in 0..m
                 PROVE  h[n] = IF n = 0 THEN NoGroup
                               ELSE IF flows[n].src = s THEN Grouped(h[n - 1], flows[n]) ELSE h[n - 1]
      OBVIOUS
    <2>1. CASE n = m
      <3>1. m - 1 \in 0..m /\ m - 1 # m /\ n # 0
        BY <1>3, <1>4, <2>1
      <3>2. h[m - 1] = g[m - 1] /\ h[n] = last
        BY <3>1, <2>1
      <3> QED
        BY <3>1, <3>2, <2>1
    <2>2. CASE n # m /\ n # 0
      <3>1. n \in 0..(m - 1) /\ n - 1 \in 0..m /\ n - 1 # m
        BY <1>4, <2>2
      <3>2. g[n] = IF flows[n].src = s THEN Grouped(g[n - 1], flows[n]) ELSE g[n - 1]
        BY <1>5, <3>1, <2>2 DEF LoopOf
      <3>3. h[n] = g[n] /\ h[n - 1] = g[n - 1]
        BY <3>1, <2>2
      <3> QED
        BY <3>2, <3>3, <2>2
    <2>3. CASE n # m /\ n = 0
      <3>1. n \in 0..(m - 1)
        BY <1>4, <2>3
      <3>2. g[n] = NoGroup
        BY <1>5, <3>1, <2>3 DEF LoopOf
      <3> QED
        BY <3>2, <2>3
    <2> QED
      BY <2>1, <2>2, <2>3
  <1>7. LoopOf(flows, s, m, h)
    <2>1. h = [n \in 0..m |-> h[n]]
      OBVIOUS
    <2> HIDE DEF h
    <2> QED
      BY <1>6, <2>1 DEF LoopOf
  <1> QED
    BY <1>2, <1>7

LEMMA GroupIs ==
  ASSUME NEW flows, NEW s, Len(flows) \in Nat
  PROVE  \E g : /\ Group(flows, s) = g[Len(flows)]
                /\ g[0] = NoGroup
                /\ \A n \in 1..Len(flows) :
                     g[n] = IF flows[n].src = s THEN Grouped(g[n - 1], flows[n]) ELSE g[n - 1]
  <1> DEFINE g == CHOOSE h : LoopOf(flows, s, Len(flows), h)
  <1>1. LoopOf(flows, s, Len(flows), g)
    BY LoopExists
  <1>2. Group(flows, s) = g[Len(flows)]
    BY DEF Group, LoopOf
  <1> HIDE DEF g
  <1>3. g[0] = NoGroup
    BY <1>1 DEF LoopOf
  <1>4. ASSUME NEW n \in 1..Len(flows)
        PROVE  g[n] = IF flows[n].src = s THEN Grouped(g[n - 1], flows[n]) ELSE g[n - 1]
    <2>1. n \in 0..Len(flows) /\ n # 0
      OBVIOUS
    <2> QED
      BY <1>1, <2>1 DEF LoopOf
  <1> QED
    BY <1>2, <1>3, <1>4

(* What a page is made of: flows with a time, a score, and a label that says *)
(* benign where the score is 0.                                            *)
IsPage(flows) ==
  /\ flows \in Seq(Flow(flows))
  /\ \A i \in DOMAIN flows : /\ flows[i].ts \in Int /\ flows[i].score \in Nat
                             /\ flows[i].score = 0 <=> flows[i].label = "benign"

LEMMA PageRows ==
  ASSUME NEW flows, IsPage(flows)
  PROVE  /\ Len(flows) \in Nat /\ DOMAIN flows = 1..Len(flows)
         /\ IsFiniteSet(DOMAIN flows) /\ Cardinality(DOMAIN flows) = Len(flows)
         /\ flows = <<>> <=> Len(flows) = 0
  <1>1. flows \in Seq(Flow(flows))
    BY DEF IsPage
  <1> HIDE DEF Flow
  <1>2. Len(flows) \in Nat /\ DOMAIN flows = 1..Len(flows) /\ (flows = <<>> <=> Len(flows) = 0)
    BY <1>1
  <1>3. IsFiniteSet(1..Len(flows)) /\ Cardinality(1..Len(flows)) = Len(flows)
    <2>1. /\ IsFiniteSet(1..Len(flows))
          /\ Cardinality(1..Len(flows)) = IF 1 > Len(flows) THEN 0 ELSE Len(flows) - 1 + 1
      BY <1>2, FS_Interval
    <2> QED
      BY <1>2, <2>1
  <1> QED
    BY <1>2, <1>3

(* Among finitely many rows one has the highest value. *)
LEMMA Highest ==
  ASSUME NEW n \in Nat, NEW rows \in SUBSET (1..n), rows # {},
         NEW v, \A i \in rows : v[i] \in Int
  PROVE  \E i \in rows : \A j \in rows : v[j] <= v[i]
  <1> DEFINE Sets(k)  == {r \in SUBSET (1..k) : r # {} /\ \A i \in r : v[i] \in Int}
             Has(r)   == \E i \in r : \A j \in r : v[j] <= v[i]
             Without  == {k \in Nat : \E r \in Sets(k) : ~Has(r)}
  <1>1. SUFFICES ASSUME Without # {} PROVE FALSE
    BY DEF Has
  <1>2. PICK k \in Without : \A m \in Without : k <= m
    <2>1. Without \in SUBSET Nat
      OBVIOUS
    <2> HIDE DEF Without
    <2> QED
      BY <1>1, <2>1, FirstNumber
  <1>3. PICK r \in Sets(k) : ~Has(r)
    BY <1>2
  <1>4. k \in Nat /\ k # 0
    <2>1. \A x : x \notin 1..0
      OBVIOUS
    <2> QED
      BY <1>2, <1>3, <2>1
  <1>5. \A s \in Sets(k - 1) : Has(s)
    <2>1. k - 1 \in Nat /\ ~(k <= k - 1)
      BY <1>4
    <2>2. k - 1 \notin Without
      BY <1>2, <2>1
    <2> QED
      BY <2>1, <2>2
  <1>6. CASE k \notin r
    <2>1. r \in Sets(k - 1)
      BY <1>3, <1>4, <1>6
    <2> QED
      BY <1>3, <1>5, <2>1
  <1>7. CASE k \in r
    <2> DEFINE s == r \ {k}
    <2>1. v[k] \in Int
      BY <1>3, <1>7
    <2>2. CASE s = {}
      <3>1. \A j \in r : j = k
        BY <2>2
      <3>2. \A j \in r : v[j] <= v[k]
        BY <2>1, <3>1
      <3> QED
        BY <1>3, <1>7, <3>2 DEF Has
    <2>3. CASE s # {}
      <3>1. s \in Sets(k - 1)
        BY <1>3, <1>4, <2>3
      <3>2. PICK i \in s : \A j \in s : v[j] <= v[i]
        BY <1>5, <3>1 DEF Has
      <3>3. i \in r /\ v[i] \in Int /\ \A j \in r : v[j] \in Int
        BY <1>3, <3>2
      <3>4. CASE v[k] <= v[i]
        <4>1. \A j \in r : v[j] <= v[i]
          BY <3>2, <3>4
        <4> QED
          BY <1>3, <3>3, <4>1 DEF Has
      <3>5. CASE v[i] <= v[k]
        <4>1. \A j \in r : v[j] <= v[k]
          <5> SUFFICES ASSUME NEW j \in r PROVE v[j] <= v[k]
            OBVIOUS
          <5>1. CASE j = k
            BY <5>1, <2>1
          <5>2. CASE j \in s
            BY <5>2, <3>2, <3>3, <3>5, <2>1
          <5> QED
            BY <5>1, <5>2
        <4> QED
          BY <1>3, <1>7, <4>1 DEF Has
      <3> QED
        BY <2>1, <3>3, <3>4, <3>5
    <2> QED
      BY <2>2, <2>3
  <1> QED
    BY <1>6, <1>7

(* Rows of a page have a first one, newest first. *)
LEMMA FirstNewest ==
  ASSUME NEW flows, IsPage(flows), NEW rows \in SUBSET (DOMAIN flows), rows # {}
  PROVE  \E i \in rows : \A j \in rows \ {i} : NewestFirst(flows, i, j)
  <1>1. /\ Len(flows) \in Nat /\ DOMAIN flows = 1..Len(flows)
        /\ \A i \in rows : i \in Nat /\ flows[i].ts \in Int
    BY PageRows DEF IsPage
  <1> DEFINE time == [i \in rows |-> flows[i].ts]
  <1>2. \E i \in rows : \A j \in rows : time[j] <= time[i]
    <2>1. rows \in SUBSET (1..Len(flows)) /\ \A i \in rows : time[i] \in Int
      BY <1>1
    <2> HIDE DEF time
    <2> QED
      BY <1>1, <2>1, Highest
  <1>3. PICK m \in rows : \A j \in rows : flows[j].ts <= flows[m].ts
    BY <1>2
  <1> DEFINE newest == {i \in rows : flows[i].ts = flows[m].ts}
  <1>4. PICK i \in newest : \A j \in newest : i <= j
    <2>1. newest \in SUBSET Nat /\ newest # {}
      BY <1>1
    <2> HIDE DEF newest
    <2> QED
      BY <2>1, FirstNumber
  <1>5. ASSUME NEW j \in rows \ {i} PROVE NewestFirst(flows, i, j)
    <2>1. /\ flows[j].ts \in Int /\ flows[m].ts \in Int /\ i \in Nat /\ j \in Nat /\ i # j
          /\ flows[j].ts <= flows[m].ts /\ flows[i].ts = flows[m].ts
      BY <1>1, <1>3, <1>4
    <2>2. CASE flows[j].ts = flows[m].ts
      <3>1. i <= j
        BY <1>4, <2>2
      <3>2. i < j
        BY <2>1, <3>1
      <3> QED
        BY <2>1, <2>2, <3>2 DEF NewestFirst
    <2>3. CASE flows[j].ts # flows[m].ts
      <3>1. flows[m].ts > flows[j].ts
        BY <2>1, <2>3
      <3> QED
        BY <2>1, <3>1 DEF NewestFirst
    <2> QED
      BY <2>2, <2>3
  <1> QED
    BY <1>4, <1>5

(* max() returns one of the rows, and none has a higher score. *)
LEMMA WorstIs ==
  ASSUME NEW flows, IsPage(flows), NEW rows \in SUBSET (DOMAIN flows), rows # {}
  PROVE  \E i \in rows : /\ Worst(flows, rows) = flows[i]
                         /\ \A j \in rows : flows[j].score <= flows[i].score
  <1>1. /\ Len(flows) \in Nat /\ DOMAIN flows = 1..Len(flows)
        /\ \A i \in rows : flows[i].score \in Int
    BY PageRows DEF IsPage
  <1> DEFINE score == [i \in rows |-> flows[i].score]
             best  == {i \in rows : \A j \in rows : flows[j].score <= flows[i].score}
  <1>2. \E i \in rows : \A j \in rows : score[j] <= score[i]
    <2>1. rows \in SUBSET (1..Len(flows)) /\ \A i \in rows : score[i] \in Int
      BY <1>1
    <2> HIDE DEF score
    <2> QED
      BY <1>1, <2>1, Highest
  <1>3. best # {} /\ best \in SUBSET (DOMAIN flows)
    BY <1>2
  <1>4. Worst(flows, rows) = flows[CHOOSE i \in best : \A j \in best \ {i} : NewestFirst(flows, i, j)]
    BY DEF Worst
  <1> HIDE DEF best
  <1>5. \E i \in best : \A j \in best \ {i} : NewestFirst(flows, i, j)
    BY <1>3, FirstNewest
  <1>6. PICK i \in best : Worst(flows, rows) = flows[i]
    BY <1>4, <1>5
  <1> QED
    BY <1>6 DEF best

(* What the loop of get_groups knows of a source after n flows. *)
OwnTo(flows, s, n) == {i \in 1..n : flows[i].src = s}
LoopInv(flows, s, n, g) ==
  LET own == OwnTo(flows, s, n) IN
  /\ g.count = Cardinality(own) /\ g.flagged = Cardinality(Flagged(flows, own))
  /\ g.score \in Nat /\ \A i \in own : flows[i].score <= g.score
  /\ \/ g.score = 0 /\ g.label = "benign"
     \/ g.score > 0 /\ \E i \in own : flows[i].score = g.score /\ flows[i].label = g.label

LEMMA LoopStarts == ASSUME NEW flows, NEW s PROVE LoopInv(flows, s, 0, NoGroup)
  <1>1. OwnTo(flows, s, 0) = {} /\ Flagged(flows, OwnTo(flows, s, 0)) = {}
    BY DEF OwnTo, Flagged
  <1>2. /\ NoGroup.count = 0 /\ NoGroup.flagged = 0 /\ NoGroup.score = 0
        /\ NoGroup.label = "benign"
    BY DEF NoGroup
  <1> HIDE DEF OwnTo, NoGroup
  <1> QED
    BY <1>1, <1>2, FS_EmptySet DEF LoopInv

(* A flow of another source changes nothing, one of the source is counted. *)
LEMMA LoopSkips ==
  ASSUME NEW flows, NEW s, NEW n \in Nat \ {0}, NEW g, LoopInv(flows, s, n - 1, g),
         flows[n].src # s
  PROVE  LoopInv(flows, s, n, g)
  <1>1. OwnTo(flows, s, n) = OwnTo(flows, s, n - 1)
    BY DEF OwnTo
  <1> QED
    BY <1>1 DEF LoopInv

LEMMA LoopTakes ==
  ASSUME NEW flows, NEW s, IsPage(flows), NEW n \in DOMAIN flows, NEW g,
         LoopInv(flows, s, n - 1, g), flows[n].src = s
  PROVE  LoopInv(flows, s, n, Grouped(g, flows[n]))
  <1> DEFINE f == flows[n]
             h == Grouped(g, f)
             own == OwnTo(flows, s, n - 1)
             bad == Flagged(flows, own)
             new == OwnTo(flows, s, n)
  <1>1. /\ h.count = g.count + 1
        /\ h.flagged = g.flagged + (IF f.label = "benign" THEN 0 ELSE 1)
        /\ h.score = IF f.score > g.score THEN f.score ELSE g.score
        /\ h.label = IF f.score > g.score /\ f.label # "benign" THEN f.label ELSE g.label
    BY DEF Grouped
  <1>2. n \in Nat \ {0} /\ f.score \in Nat /\ (f.score = 0 <=> f.label = "benign")
    BY PageRows DEF IsPage
  <1>3. /\ g.count = Cardinality(own) /\ g.flagged = Cardinality(bad)
        /\ g.score \in Nat /\ \A i \in own : flows[i].score <= g.score
        /\ \/ g.score = 0 /\ g.label = "benign"
           \/ g.score > 0 /\ \E i \in own : flows[i].score = g.score /\ flows[i].label = g.label
    BY DEF LoopInv
  <1>4. new = own \cup {n} /\ n \notin own /\ f.src = s
    BY <1>2 DEF OwnTo
  <1>5. \A i \in own : flows[i].score \in Nat
    <2>1. own \subseteq DOMAIN flows
      BY <1>2, PageRows DEF OwnTo
    <2> QED
      BY <2>1 DEF IsPage
  <1>6. IsFiniteSet(own) /\ IsFiniteSet(bad)
    <2>1. IsFiniteSet(1..(n - 1))
      BY <1>2, FS_Interval
    <2>2. own \in SUBSET (1..(n - 1)) /\ bad \in SUBSET (1..(n - 1))
      BY DEF OwnTo, Flagged
    <2> QED
      BY <2>1, <2>2, FS_Subset
  <1>7. Cardinality(own) \in Nat /\ Cardinality(bad) \in Nat
    BY <1>6, FS_CardinalityType
  <1> HIDE DEF h, own, bad, new, f
  <1>8. h.count = Cardinality(new)
    BY <1>1, <1>3, <1>4, <1>6, FS_AddElement
  <1>9. h.flagged = Cardinality(Flagged(flows, new))
    <2>1. CASE f.label = "benign"
      <3>1. Flagged(flows, new) = bad
        BY <1>4, <2>1 DEF Flagged, bad, f
      <3> QED
        BY <1>1, <1>3, <1>7, <2>1, <3>1
    <2>2. CASE f.label # "benign"
      <3>1. Flagged(flows, new) = bad \cup {n} /\ n \notin bad
        BY <1>4, <2>2 DEF Flagged, bad, f
      <3>2. Cardinality(bad \cup {n}) = Cardinality(bad) + 1
        BY <1>6, <3>1, FS_AddElement
      <3> QED
        BY <1>1, <1>3, <2>2, <3>1, <3>2
    <2> QED
      BY <2>1, <2>2
  <1>10. h.score \in Nat /\ g.score <= h.score /\ f.score <= h.score
    BY <1>1, <1>2, <1>3
  <1>11. \A i \in new : flows[i].score <= h.score
    <2> SUFFICES ASSUME NEW i \in new PROVE flows[i].score <= h.score
      OBVIOUS
    <2>1. CASE i = n
      BY <2>1, <1>10 DEF f
    <2>2. CASE i \in own
      BY <2>2, <1>3, <1>5, <1>10
    <2> QED
      BY <2>1, <2>2, <1>4
  <1>12. \/ h.score = 0 /\ h.label = "benign"
         \/ h.score > 0 /\ \E i \in new : flows[i].score = h.score /\ flows[i].label = h.label
    <2>1. CASE f.score > g.score
      <3>1. h.score = f.score /\ h.label = f.label /\ h.score > 0 /\ n \in new
        BY <1>1, <1>2, <1>3, <1>4, <2>1
      <3> QED
        BY <3>1 DEF f
    <2>2. CASE ~(f.score > g.score)
      <3>1. h.score = g.score /\ h.label = g.label
        BY <1>1, <2>2
      <3> QED
        BY <1>3, <1>4, <3>1
    <2> QED
      BY <2>1, <2>2
  <1> QED
    BY <1>8, <1>9, <1>10, <1>11, <1>12 DEF LoopInv, h, new, f

LEMMA OwnOf ==
  ASSUME NEW flows, IsPage(flows), NEW s
  PROVE  /\ Own(flows, s) = OwnTo(flows, s, Len(flows))
         /\ LoopInv(flows, s, Len(flows), Group(flows, s))
  <1> DEFINE len == Len(flows)
  <1>1. len \in Nat /\ DOMAIN flows = 1..len
    BY PageRows
  <1>2. PICK g : /\ Group(flows, s) = g[len]
                 /\ g[0] = NoGroup
                 /\ \A n \in 1..len :
                      g[n] = IF flows[n].src = s THEN Grouped(g[n - 1], flows[n]) ELSE g[n - 1]
    BY <1>1, GroupIs
  <1> HIDE DEF len
  <1> DEFINE Broken == {n \in 0..len : ~LoopInv(flows, s, n, g[n])}
  <1>3. Broken = {}
    <2>1. SUFFICES ASSUME Broken # {} PROVE FALSE
      OBVIOUS
    <2>2. PICK m \in Broken : \A n \in Broken : m <= n
      <3>1. Broken \in SUBSET Nat
        BY <1>1
      <3> HIDE DEF Broken
      <3> QED
        BY <2>1, <3>1, FirstNumber
    <2>3. m # 0
      BY <1>2, <2>2, LoopStarts
    <2>4. m \in 1..len /\ m \in Nat \ {0} /\ m - 1 \in 0..len /\ ~(m <= m - 1)
      BY <1>1, <2>2, <2>3
    <2>5. LoopInv(flows, s, m - 1, g[m - 1])
      BY <2>2, <2>4
    <2>6. LoopInv(flows, s, m, g[m])
      BY <1>1, <1>2, <2>4, <2>5, LoopSkips, LoopTakes
    <2> QED
      BY <2>2, <2>6
  <1>4. LoopInv(flows, s, len, g[len])
    BY <1>1, <1>3
  <1>5. Own(flows, s) = OwnTo(flows, s, len)
    BY <1>1 DEF Own, OwnTo
  <1> QED
    BY <1>2, <1>4, <1>5 DEF len

(* The record of a source and its rows. *)
LEMMA GroupFacts ==
  ASSUME NEW flows, IsPage(flows), NEW s
  PROVE  LET own == Own(flows, s)
             bad == Flagged(flows, own)
             g   == Group(flows, s)
         IN  /\ own \in SUBSET (DOMAIN flows) /\ bad \in SUBSET own
             /\ \A i \in own : flows[i].src = s
             /\ g.count = Cardinality(own) /\ g.flagged = Cardinality(bad)
             /\ g.flagged = 0 <=> bad = {}
             /\ g.score \in Nat /\ \A i \in own : flows[i].score <= g.score
             /\ g.score = 0 <=> bad = {}
             /\ g.score > 0 => \E i \in bad : flows[i].score = g.score /\ flows[i].label = g.label
             /\ g.score = 0 => g.label = "benign"
  <1> DEFINE own == Own(flows, s)
             bad == Flagged(flows, own)
             g   == Group(flows, s)
  <1>1. LoopInv(flows, s, Len(flows), g) /\ own = OwnTo(flows, s, Len(flows))
    BY OwnOf
  <1>2. /\ own \in SUBSET (DOMAIN flows) /\ bad \in SUBSET own
        /\ \A i \in own : flows[i].src = s
        /\ \A i \in own : /\ flows[i].score \in Nat
                          /\ flows[i].score = 0 <=> flows[i].label = "benign"
        /\ bad = {i \in own : flows[i].label # "benign"}
    BY DEF Own, Flagged, IsPage
  <1>3. IsFiniteSet(bad)
    BY <1>2, PageRows, FS_Subset
  <1> HIDE DEF own, bad, g
  <1>4. /\ g.count = Cardinality(own) /\ g.flagged = Cardinality(bad)
        /\ g.score \in Nat /\ \A i \in own : flows[i].score <= g.score
        /\ \/ g.score = 0 /\ g.label = "benign"
           \/ g.score > 0 /\ \E i \in own : flows[i].score = g.score /\ flows[i].label = g.label
    BY <1>1 DEF LoopInv, bad
  <1>5. g.flagged = 0 <=> bad = {}
    BY <1>3, <1>4, FS_EmptySet
  <1>6. ASSUME g.score > 0
        PROVE  \E i \in bad : flows[i].score = g.score /\ flows[i].label = g.label
    <2>1. PICK i \in own : flows[i].score = g.score /\ flows[i].label = g.label
      BY <1>4, <1>6
    <2>2. flows[i].score # 0
      BY <1>4, <1>6, <2>1
    <2>3. i \in bad
      BY <1>2, <2>2
    <2> QED
      BY <2>1, <2>3
  <1>7. ASSUME g.score = 0 PROVE bad = {} /\ g.label = "benign"
    <2>1. \A i \in own : flows[i].score = 0
      BY <1>2, <1>4, <1>7
    <2> QED
      BY <1>2, <1>4, <1>7, <2>1
  <1>8. g.score = 0 <=> bad = {}
    BY <1>4, <1>6, <1>7
  <1> QED
    BY <1>2, <1>4, <1>5, <1>6, <1>7, <1>8 DEF own, bad, g

(* sorted(...)[:n] has a row, and has all when there are no more than n. *)
LEMMA NewestIs ==
  ASSUME NEW flows, IsPage(flows), flows # <<>>, NEW n \in Nat \ {0}
  PROVE  /\ Newest(flows, n) \in SUBSET (DOMAIN flows) /\ Newest(flows, n) # {}
         /\ Len(flows) <= n => Newest(flows, n) = DOMAIN flows
  <1> DEFINE Before(i) == {j \in DOMAIN flows : NewestFirst(flows, j, i)}
  <1>1. /\ Len(flows) \in Nat \ {0} /\ DOMAIN flows = 1..Len(flows)
        /\ IsFiniteSet(DOMAIN flows) /\ Cardinality(DOMAIN flows) = Len(flows)
        /\ \A i \in DOMAIN flows : i \in Nat /\ flows[i].ts \in Int
    BY PageRows DEF IsPage
  <1>2. /\ Newest(flows, n) \in SUBSET (DOMAIN flows)
        /\ \A i \in DOMAIN flows : Cardinality(Before(i)) < n => i \in Newest(flows, n)
    BY DEF Newest
  <1>3. Newest(flows, n) # {}
    <2>1. DOMAIN flows # {}
      BY <1>1
    <2>2. PICK i \in DOMAIN flows : \A j \in (DOMAIN flows) \ {i} : NewestFirst(flows, i, j)
      BY <2>1, FirstNewest
    <2>3. ASSUME NEW j \in DOMAIN flows, NewestFirst(flows, j, i) PROVE FALSE
      <3>1. i \in Nat /\ j \in Nat /\ flows[i].ts \in Int /\ flows[j].ts \in Int
        BY <1>1
      <3>2. CASE i = j
        BY <2>3, <3>1, <3>2 DEF NewestFirst
      <3>3. CASE i # j
        <4>1. NewestFirst(flows, i, j)
          BY <2>2, <3>3
        <4> QED
          BY <2>3, <3>1, <4>1 DEF NewestFirst
      <3> QED
        BY <3>2, <3>3
    <2>4. Before(i) = {}
      BY <2>3
    <2>5. Cardinality(Before(i)) = 0
      BY <2>4, FS_EmptySet
    <2> QED
      BY <1>2, <2>5
  <1>4. ASSUME Len(flows) <= n PROVE Newest(flows, n) = DOMAIN flows
    <2> SUFFICES ASSUME NEW i \in DOMAIN flows PROVE Cardinality(Before(i)) < n
      BY <1>2
    <2> DEFINE others == (DOMAIN flows) \ {i}
    <2>1. IsFiniteSet(others) /\ Cardinality(others) = Len(flows) - 1
      BY <1>1, FS_RemoveElement
    <2>2. Before(i) \in SUBSET others
      <3>1. ~NewestFirst(flows, i, i)
        BY <1>1 DEF NewestFirst
      <3> QED
        BY <3>1
    <2> HIDE DEF others
    <2>3. /\ IsFiniteSet(Before(i)) /\ Cardinality(Before(i)) <= Cardinality(others)
      BY <2>1, <2>2, FS_Subset
    <2>4. Cardinality(Before(i)) \in Nat
      BY <2>3, FS_CardinalityType
    <2> HIDE DEF Before
    <2> QED
      BY <1>1, <1>4, <2>1, <2>3, <2>4
  <1> QED
    BY <1>2, <1>3, <1>4

(* The list and the detail page. *)
LEMMA ListIsDetail == IsPage(shown) => ListAgreesWithDetail
  <1> SUFFICES ASSUME IsPage(shown), NEW s \in Senders(shown)
               PROVE  LET g == Group(shown, s)  a == Analysis(shown, s) IN
                        /\ g.count = a.count /\ g.flagged = a.flagged /\ g.score = a.score
                        /\ (g.score = 0) = (g.flagged = 0)
                        /\ \A label \in {g.label, a.label} :
                             g.score > 0 => \E f \in Flow(shown) : f.src = s /\ f.label = label /\ f.score = g.score
    BY DEF ListAgreesWithDetail
  <1> DEFINE own == Own(shown, s)
             bad == Flagged(shown, own)
             g   == Group(shown, s)
             a   == Analysis(shown, s)
  <1>1. /\ own \in SUBSET (DOMAIN shown) /\ bad \in SUBSET own
        /\ \A i \in own : shown[i].src = s
        /\ g.count = Cardinality(own) /\ g.flagged = Cardinality(bad)
        /\ g.flagged = 0 <=> bad = {}
        /\ g.score \in Nat /\ \A i \in own : shown[i].score <= g.score
        /\ g.score = 0 <=> bad = {}
        /\ g.score > 0 => \E i \in bad : shown[i].score = g.score /\ shown[i].label = g.label
        /\ g.score = 0 => g.label = "benign"
    BY GroupFacts
  <1>2. /\ a.count = Cardinality(own) /\ a.flagged = Cardinality(bad)
        /\ a.score = IF bad = {} THEN 0 ELSE Worst(shown, bad).score
        /\ a.label = IF bad = {} THEN "benign" ELSE Worst(shown, bad).label
    BY DEF Analysis
  <1>3. \A i \in DOMAIN shown : shown[i] \in Flow(shown) /\ shown[i].score \in Nat
    BY DEF Flow, IsPage
  <1> HIDE DEF own, bad, g, a
  <1>4. bad # {} => \E i \in bad : /\ Worst(shown, bad) = shown[i]
                                   /\ \A j \in bad : shown[j].score <= shown[i].score
    BY <1>1, WorstIs
  <1>5. /\ g.score = a.score
        /\ g.score > 0 => \E f \in Flow(shown) : f.src = s /\ f.label = g.label /\ f.score = g.score
        /\ g.score > 0 => \E f \in Flow(shown) : f.src = s /\ f.label = a.label /\ f.score = g.score
    <2>1. CASE bad = {}
      BY <1>1, <1>2, <2>1
    <2>2. CASE bad # {}
      <3>1. PICK i \in bad : /\ Worst(shown, bad) = shown[i]
                             /\ \A j \in bad : shown[j].score <= shown[i].score
        BY <1>4, <2>2
      <3>2. g.score > 0 /\ \E k \in bad : shown[k].score = g.score /\ shown[k].label = g.label
        BY <1>1, <2>2
      <3>3. PICK k \in bad : shown[k].score = g.score /\ shown[k].label = g.label
        BY <3>2
      <3>4. shown[i].score <= g.score /\ g.score <= shown[i].score
        BY <1>1, <3>1, <3>3
      <3>5. shown[i].score = g.score
        BY <1>1, <1>3, <3>4
      <3>6. a.score = shown[i].score /\ a.label = shown[i].label
        BY <1>2, <2>2, <3>1
      <3>7. /\ shown[i] \in Flow(shown) /\ shown[k] \in Flow(shown)
            /\ shown[i].src = s /\ shown[k].src = s
        BY <1>1, <1>3
      <3> QED
        BY <3>3, <3>5, <3>6, <3>7
    <2> QED
      BY <2>1, <2>2
  <1>6. (g.score = 0) = (g.flagged = 0)
    BY <1>1
  <1> QED
    BY <1>1, <1>2, <1>5, <1>6 DEF g, a

(* The numbers above the list, the list and the banner. *)
LEMMA NumbersAreList == IsPage(shown) => NumbersAgreeWithList
  <1> SUFFICES ASSUME IsPage(shown) PROVE NumbersAgreeWithList
    OBVIOUS
  <1> DEFINE st == Stats(shown)
             all == DOMAIN shown
             score(s) == Group(shown, s).score
             newest == Newest(shown, TopOf)
             top == Worst(shown, newest)
             bad == Flagged(shown, all)
  <1>1. /\ Len(shown) \in Nat /\ all = 1..Len(shown) /\ IsFiniteSet(all)
        /\ shown = <<>> <=> Len(shown) = 0
    BY PageRows
  <1>2. /\ st.flagged = Cardinality(bad)
        /\ st.max = IF shown = <<>> THEN 0 ELSE Worst(shown, all).score
        /\ st.sources = Cardinality({s \in Senders(shown) : score(s) > 0})
        /\ st.top = TopRecent(shown)
    BY DEF Stats
  <1>3. TopRecent(shown) = IF shown = <<>> \/ top.score = 0 THEN [score |-> 0, src |-> "none"]
                           ELSE [score |-> top.score, src |-> top.src]
    BY DEF TopRecent, TopOfNewest
  <1>4. /\ shown = <<>> => st.top.score = 0
        /\ shown # <<>> => st.top.score = top.score
        /\ st.top.score > 0 => shown # <<>> /\ st.top.src = top.src
    <2>1. st.top = TopRecent(shown)
      BY <1>2
    <2> HIDE DEF st, top
    <2>2. CASE shown = <<>> \/ top.score = 0
      <3>1. st.top.score = 0 /\ (shown # <<>> => top.score = 0)
        BY <1>3, <2>1, <2>2
      <3> QED
        BY <3>1
    <2>3. CASE ~(shown = <<>> \/ top.score = 0)
      <3>1. st.top.score = top.score /\ st.top.src = top.src /\ shown # <<>>
        BY <1>3, <2>1, <2>3
      <3> QED
        BY <3>1
    <2> QED
      BY <2>2, <2>3
  <1>5. \A s \in Senders(shown) : score(s) \in Nat
    BY GroupFacts
  <1>6. \A i \in all : /\ shown[i].src \in Senders(shown) /\ shown[i].score \in Nat
                       /\ shown[i].score <= score(shown[i].src)
                       /\ shown[i].score = 0 <=> shown[i].label = "benign"
    <2> SUFFICES ASSUME NEW i \in all
                 PROVE  /\ shown[i].src \in Senders(shown) /\ shown[i].score \in Nat
                        /\ shown[i].score <= score(shown[i].src)
                        /\ shown[i].score = 0 <=> shown[i].label = "benign"
      OBVIOUS
    <2>1. i \in Own(shown, shown[i].src)
      BY DEF Own
    <2>2. shown[i].score <= score(shown[i].src)
      BY <2>1, GroupFacts
    <2> QED
      BY <2>2 DEF IsPage, Senders, Flow
  <1>7. ASSUME NEW s \in Senders(shown), score(s) > 0
        PROVE  \E i \in all : /\ shown[i].src = s /\ shown[i].label # "benign"
                              /\ shown[i].score = score(s)
    <2>1. PICK i \in Flagged(shown, Own(shown, s)) : shown[i].score = score(s)
      BY <1>7, GroupFacts
    <2> QED
      BY <2>1 DEF Flagged, Own
  <1>8. shown # <<>> => \E i \in all : /\ st.max = shown[i].score
                                       /\ \A j \in all : shown[j].score <= shown[i].score
    <2>1. shown # <<>> => all # {}
      BY <1>1
    <2> QED
      BY <1>2, <2>1, WorstIs
  <1>9. shown # <<>> => \E i \in newest : /\ top = shown[i]
                                          /\ \A j \in newest : shown[j].score <= shown[i].score
    <2>1. shown # <<>> => newest \in SUBSET all /\ newest # {}
      BY NewestIs, PageAssumption
    <2> QED
      BY <2>1, WorstIs
  <1>10. shown # <<>> => newest \in SUBSET all /\ (Len(shown) <= TopOf => newest = all)
    BY NewestIs, PageAssumption
  <1>11. shown = <<>> => all = {} /\ Senders(shown) = {} /\ st.max = 0
    <2>1. shown = <<>> => all = {}
      BY <1>1
    <2> QED
      BY <1>2, <2>1 DEF Senders, Flow
  <1>12. bad = {i \in all : shown[i].label # "benign"}
    BY DEF Flagged
  <1>13. st.sources = Cardinality({f.src : f \in {x \in Flow(shown) : x.label # "benign"}})
    <2> DEFINE named == {f.src : f \in {x \in Flow(shown) : x.label # "benign"}}
               listed == {s \in Senders(shown) : score(s) > 0}
    <2>1. ASSUME NEW s \in listed PROVE s \in named
      <3>1. PICK i \in all : shown[i].src = s /\ shown[i].label # "benign"
        BY <1>7, <2>1
      <3> QED
        BY <3>1 DEF Flow
    <2>2. ASSUME NEW s \in named PROVE s \in listed
      <3>1. PICK i \in all : shown[i].src = s /\ shown[i].label # "benign"
        BY <2>2 DEF Flow
      <3>2. shown[i].score # 0 /\ shown[i].score \in Nat /\ shown[i].score <= score(s) /\ s \in Senders(shown)
        BY <1>6, <3>1
      <3>3. score(s) > 0
        BY <1>5, <3>2
      <3> QED
        BY <3>2, <3>3
    <2>3. named = listed
      BY <2>1, <2>2
    <2> QED
      BY <1>2, <2>3
  <1> HIDE DEF st, all, newest, top, bad, score
  <1>14. \A s \in Senders(shown) : score(s) <= st.max
    <2> SUFFICES ASSUME NEW s \in Senders(shown) PROVE score(s) <= st.max
      OBVIOUS
    <2>1. shown # <<>>
      BY <1>11
    <2>2. PICK i \in all : st.max = shown[i].score /\ \A j \in all : shown[j].score <= shown[i].score
      BY <1>8, <2>1
    <2>3. CASE score(s) > 0
      BY <1>7, <2>2, <2>3
    <2>4. CASE ~(score(s) > 0)
      <3>1. score(s) = 0
        BY <1>5, <2>4
      <3> QED
        BY <1>6, <2>2, <3>1
    <2> QED
      BY <2>3, <2>4
  <1>15. st.max > 0 => \E s \in Senders(shown) : score(s) = st.max
    <2> SUFFICES ASSUME st.max > 0 PROVE \E s \in Senders(shown) : score(s) = st.max
      OBVIOUS
    <2>1. shown # <<>>
      BY <1>11
    <2>2. PICK i \in all : st.max = shown[i].score
      BY <1>8, <2>1
    <2>3. shown[i].src \in Senders(shown) /\ st.max <= score(shown[i].src) /\ st.max \in Nat
      BY <1>6, <2>2
    <2>4. score(shown[i].src) <= st.max /\ score(shown[i].src) \in Nat
      BY <1>5, <1>14, <2>3
    <2> QED
      BY <2>3, <2>4
  <1>16. st.top.score > 0 => score(st.top.src) >= st.top.score
    <2> SUFFICES ASSUME st.top.score > 0 PROVE score(st.top.src) >= st.top.score
      OBVIOUS
    <2>1. shown # <<>> /\ st.top.src = top.src /\ st.top.score = top.score
      BY <1>4
    <2>2. PICK i \in newest : top = shown[i]
      BY <1>9, <2>1
    <2>3. i \in all
      BY <1>10, <2>1
    <2>4. /\ shown[i].src \in Senders(shown) /\ shown[i].score \in Nat
          /\ shown[i].score <= score(shown[i].src)
      BY <1>6, <2>3
    <2>5. score(shown[i].src) \in Nat
      BY <1>5, <2>4
    <2> QED
      BY <2>1, <2>2, <2>4, <2>5
  <1>17. Len(shown) <= TopOf => st.top.score = st.max
    <2> SUFFICES ASSUME Len(shown) <= TopOf PROVE st.top.score = st.max
      OBVIOUS
    <2>1. CASE shown = <<>>
      BY <1>4, <1>11, <2>1
    <2>2. CASE shown # <<>>
      <3>1. PICK i \in all : top = shown[i] /\ \A j \in all : shown[j].score <= shown[i].score
        BY <1>9, <1>10, <2>2
      <3>2. PICK k \in all : st.max = shown[k].score /\ \A j \in all : shown[j].score <= shown[k].score
        BY <1>8, <2>2
      <3>3. shown[i].score = shown[k].score
        BY <1>6, <3>1, <3>2
      <3> QED
        BY <1>4, <2>2, <3>1, <3>2, <3>3
    <2> QED
      BY <2>1, <2>2
  <1>18. (st.flagged = 0) = (st.max = 0)
    <2>1. IsFiniteSet(bad)
      <3>1. bad \in SUBSET all
        BY <1>12
      <3> QED
        BY <1>1, <3>1, FS_Subset
    <2>2. st.flagged = 0 <=> bad = {}
      BY <1>2, <2>1, FS_EmptySet DEF st
    <2>3. CASE shown = <<>>
      BY <1>11, <1>12, <2>2, <2>3
    <2>4. CASE shown # <<>>
      <3>1. PICK k \in all : st.max = shown[k].score /\ \A j \in all : shown[j].score <= shown[k].score
        BY <1>8, <2>4
      <3>2. ASSUME st.max = 0 PROVE bad = {}
        <4>1. \A j \in all : shown[j].score = 0
          BY <1>6, <3>1, <3>2
        <4> QED
          BY <1>6, <1>12, <4>1
      <3>3. ASSUME st.max # 0 PROVE bad # {}
        BY <1>6, <1>12, <3>1, <3>3
      <3> QED
        BY <2>2, <3>2, <3>3
    <2> QED
      BY <2>3, <2>4
  <1> QED
    BY <1>13, <1>14, <1>15, <1>16, <1>17, <1>18 DEF NumbersAgreeWithList, st, score

(* What is shown is a page. *)
LEMMA LabelledIsPage ==
  ASSUME NEW fs \in Seq(Flows), NEW threats
  PROVE  IsPage(Labelled(fs, threats))
  <1> DEFINE page == Labelled(fs, threats)
  <1>1. /\ Len(fs) \in Nat /\ DOMAIN fs = 1..Len(fs) /\ DOMAIN page = 1..Len(fs)
        /\ page = [i \in 1..Len(fs) |-> page[i]]
        /\ \A i \in DOMAIN fs : /\ fs[i] \in Flows
                                /\ page[i].ts = fs[i].ts
                                /\ page[i].label = Label(threats, fs[i])
                                /\ page[i].score = Score(page[i].label)
    BY DEF Labelled
  <1> HIDE DEF page
  <1>2. page \in Seq(Flow(page))
    <2>1. \A i \in 1..Len(fs) : page[i] \in Flow(page)
      BY <1>1 DEF Flow
    <2> HIDE DEF Flow
    <2>2. page \in [1..Len(fs) -> Flow(page)]
      BY <1>1, <2>1
    <2> QED
      BY <1>1, <2>2
  <1>3. \A i \in DOMAIN page : /\ page[i].ts \in Int /\ page[i].score \in Nat
                               /\ page[i].score = 0 <=> page[i].label = "benign"
    BY <1>1, PageAssumption DEF Score
  <1> QED
    BY <1>2, <1>3 DEF IsPage, page

(* For every log, every threshold and every verdict of the detectors, one    *)
(* refresh shows one picture: the list, the detail page, the numbers and the *)
(* banner agree (dashboard.py:692-830, 1075-1142).                         *)
THEOREM PageSafe == VerdictSpec => []PageAgrees
  <1>1. VerdictInv => PageAgrees
    <2> SUFFICES ASSUME VerdictInv PROVE PageAgrees
      OBVIOUS
    <2>1. IsPage(shown)
      <3>1. PICK n \in 0..Len(log), m \in 0..Len(log), queries \in SUBSET dns : IsShownOf(n, m, queries)
        BY DEF VerdictInv, IsShown
      <3>2. SubSeq(log, 1, n) \in Seq(Flows)
        BY Stretch DEF VerdictInv
      <3> QED
        BY <3>1, <3>2, LabelledIsPage DEF IsShownOf
    <2> QED
      BY <2>1, ListIsDetail, NumbersAreList DEF PageAgrees
  <1> QED
    BY VerdictInvariant, <1>1, PTL
=============================================================================
