-------------------------- MODULE ThreatScoreProofs --------------------------
(***************************************************************************)
(* For every batch, every set of sources and every monotone rounding: the  *)
(* loop of calculate_threat_evidence ends with the score of                *)
(* calculate_threat_score, and with the source that earned it.             *)
(***************************************************************************)
EXTENDS ThreatScore, TLAPS

(* The score so far is the rounded maximum so far, and is itself rounded:  *)
(* so comparing an exact confidence with it decides as if both were rounded. *)
ScoreInv ==
  /\ ScoreTypeOK
  /\ Round(best.score) = best.score
  /\ IsScore(best.score, next - 1)

-----------------------------------------------------------------------------
(* Every prediction of a batch has the fields of a prediction. *)
LEMMA EventType ==
  ASSUME ScoreTypeOK, next <= Len(events)
  PROVE  /\ events[next] \in Predictions
         /\ events[next].level \in Levels /\ events[next].source \in Sources
         /\ next \in 1..Len(events) /\ next + 1 \in 1..Len(events) + 1
         /\ next - 1 \in Nat /\ 1..next = (1..next - 1) \cup {next}
<1>1. Len(events) \in Nat /\ next \in Nat /\ next >= 1
  BY DEF ScoreTypeOK
<1>2. next \in 1..Len(events) /\ next + 1 \in 1..Len(events) + 1 /\ next - 1 \in Nat
  BY <1>1
<1>3. 1..next = (1..next - 1) \cup {next}
  BY <1>1
<1>4. events[next] \in Predictions
  BY <1>2 DEF ScoreTypeOK
<1>5. QED
  BY <1>2, <1>3, <1>4 DEF Predictions

(* The malicious events one step further. *)
LEMMA MaliciousNext ==
  ASSUME ScoreTypeOK, next <= Len(events)
  PROVE  Malicious(next) = Malicious(next - 1) \cup (IF events[next].malicious THEN {next} ELSE {})
BY EventType DEF Malicious

-----------------------------------------------------------------------------
(* Types of the loop's variables. *)
THEOREM TypeCorrect == ScoreSpec => []ScoreTypeOK
<1>1. ScoreInit => ScoreTypeOK
  <2> SUFFICES ASSUME ScoreInit PROVE ScoreTypeOK
    OBVIOUS
  <2>1. PICK n \in 0..MaxEvents : events \in [1..n -> Predictions]
    BY DEF ScoreInit
  <2>2. events \in Seq(Predictions) /\ Len(events) \in Nat
    BY <2>1
  <2>3. 0 \in Levels
    BY ScaleAssumption DEF Levels
  <2>4. QED
    BY <2>2, <2>3 DEF ScoreInit, ScoreTypeOK, Nothing
<1>2. ScoreTypeOK /\ [ScoreNext]_scoreVars => ScoreTypeOK'
  <2> SUFFICES ASSUME ScoreTypeOK, [ScoreNext]_scoreVars
               PROVE  ScoreTypeOK'
    OBVIOUS
  <2>1. CASE SkipBenign
    BY <2>1, EventType DEF SkipBenign, ScoreTypeOK
  <2>2. CASE SkipWeaker
    BY <2>2, EventType DEF SkipWeaker, ScoreTypeOK
  <2>3. CASE TakeBest
    <3>1. Round(events[next].level) \in Levels
      BY <2>3, EventType, RoundAssumption DEF TakeBest, Taken, Exceeds
    <3>2. next \in 0..Len(events)
      BY <2>3, EventType DEF TakeBest, Taken, Exceeds
    <3>3. QED
      BY <2>3, <3>1, <3>2, EventType DEF TakeBest, Taken, Exceeds, ScoreTypeOK
  <2>4. CASE UNCHANGED scoreVars
    BY <2>4 DEF scoreVars, ScoreTypeOK
  <2>5. QED
    BY <2>1, <2>2, <2>3, <2>4 DEF ScoreNext
<1>3. QED
  BY <1>1, <1>2, PTL DEF ScoreSpec

(* The score of the prefix read so far. *)
THEOREM ScoreInvariant == ScoreSpec => []ScoreInv
<1>1. ScoreInit => ScoreInv
  <2> SUFFICES ASSUME ScoreInit PROVE ScoreInv
    OBVIOUS
  <2>1. ScoreTypeOK
    <3>1. PICK n \in 0..MaxEvents : events \in [1..n -> Predictions]
      BY DEF ScoreInit
    <3>2. events \in Seq(Predictions) /\ Len(events) \in Nat
      BY <3>1
    <3>3. 0 \in Levels
      BY ScaleAssumption DEF Levels
    <3>4. QED
      BY <3>2, <3>3 DEF ScoreInit, ScoreTypeOK, Nothing
  <2>2. Malicious(0) = {} /\ next - 1 = 0
    BY DEF ScoreInit, Malicious
  <2>3. QED
    BY <2>1, <2>2, RoundAssumption DEF ScoreInit, ScoreInv, IsScore, Nothing
<1>2. ScoreInv /\ ScoreTypeOK' /\ [ScoreNext]_scoreVars => ScoreInv'
  <2> SUFFICES ASSUME ScoreInv, ScoreTypeOK', [ScoreNext]_scoreVars
               PROVE  ScoreInv'
    OBVIOUS
  <2> USE DEF ScoreInv
  <2>1. CASE UNCHANGED scoreVars
    BY <2>1 DEF scoreVars, IsScore, Malicious
  <2>2. CASE ScoreNext
    <3>1. next <= Len(events) /\ events' = events /\ next' = next + 1
      BY <2>2 DEF ScoreNext, SkipBenign, SkipWeaker, TakeBest, Taken
    <3>2. next' - 1 = next /\ best.score \in Levels
      BY <3>1 DEF ScoreTypeOK
    <3>3. \A i \in Malicious(next - 1) : Round(events[i].level) <= best.score
      BY DEF IsScore
    <3>4. CASE SkipBenign
      <4>1. Malicious(next) = Malicious(next - 1)
        BY <3>1, <3>4, MaliciousNext DEF SkipBenign
      <4>2. QED
        BY <3>1, <3>2, <3>4, <4>1 DEF SkipBenign, IsScore, Malicious
    <3>5. CASE SkipWeaker
      <4>1. Malicious(next) = Malicious(next - 1) \cup {next}
        BY <3>1, <3>5, MaliciousNext DEF SkipWeaker, Exceeds
      <4>2. Round(events[next].level) <= best.score
        <5>1. events[next].level <= best.score /\ events[next].level \in Levels
          <6>1. events[next].level \in Levels /\ ~(events[next].level > best.score)
            BY <3>5, EventType DEF SkipWeaker, Exceeds
          <6>2. QED
            BY <6>1, <3>2, ScaleAssumption DEF Levels
        <5>2. Round(events[next].level) <= Round(best.score)
          BY <3>2, <5>1, RoundAssumption
        <5>3. QED
          BY <5>2
      <4>3. IsScore(best.score, next)
        BY <3>3, <4>1, <4>2 DEF IsScore
      <4>4. QED
        BY <3>1, <3>2, <3>5, <4>3 DEF SkipWeaker, IsScore, Malicious
    <3>6. CASE TakeBest
      <4> DEFINE score == Round(events[next].level)
      <4>1. Malicious(next) = Malicious(next - 1) \cup {next}
        BY <3>1, <3>6, MaliciousNext DEF TakeBest, Taken, Exceeds
      <4>2. events[next].level > best.score /\ events[next].level \in Levels
        BY <3>6, EventType DEF TakeBest, Taken, Exceeds
      <4>3. best.score <= score /\ score \in Levels /\ Round(score) = score
        <5>1. best.score <= events[next].level
          BY <3>2, <4>2 DEF Levels
        <5>2. Round(best.score) <= score
          BY <3>2, <4>2, <5>1, RoundAssumption
        <5>3. QED
          BY <4>2, <5>2, RoundAssumption
      <4>4. ASSUME NEW i \in Malicious(next - 1) PROVE Round(events[i].level) <= score
        <5>1. i \in 1..Len(events)
          BY <3>1, EventType DEF Malicious, ScoreTypeOK
        <5>2. events[i] \in Predictions
          BY <5>1 DEF ScoreTypeOK
        <5>3. Round(events[i].level) \in Levels
          BY <5>2, RoundAssumption DEF Predictions
        <5>4. QED
          BY <3>2, <3>3, <4>3, <5>3 DEF Levels
      <4>5. IsScore(score, next)
        <5>1. \A i \in Malicious(next) : Round(events[i].level) <= score
          BY <4>1, <4>3, <4>4 DEF Levels
        <5>2. QED
          BY <4>1, <5>1 DEF IsScore
      <4>6. best'.score = score
        BY <3>6 DEF TakeBest, Taken, Exceeds
      <4>7. QED
        BY <3>1, <3>2, <4>3, <4>5, <4>6 DEF IsScore, Malicious
    <3>7. QED
      BY <2>2, <3>4, <3>5, <3>6 DEF ScoreNext
  <2>3. QED
    BY <2>1, <2>2
<1>3. QED
  BY <1>1, <1>2, TypeCorrect, PTL DEF ScoreSpec

(* threat_score.py:8-24 and 27-71: the score that decides a response is    *)
(* the rounded maximum over the batch's malicious confidences.             *)
THEOREM ScoresSafe == ScoreSpec => []ScoresAgree
<1>1. ScoreInv => ScoresAgree
  <2> SUFFICES ASSUME ScoreInv, Done PROVE IsScore(best.score, Len(events))
    BY DEF ScoresAgree
  <2>1. next - 1 = Len(events)
    BY DEF Done, ScoreInv, ScoreTypeOK
  <2>2. QED
    BY <2>1 DEF ScoreInv
<1>2. QED
  BY <1>1, ScoreInvariant, PTL

(* threat_score.py:30-33: score, confidence and source come from one       *)
(* malicious event.                                                        *)
THEOREM TargetSafe == ScoreSpec => []TargetIsWinner
<1>1. ScoreInit => TargetIsWinner
  BY DEF ScoreInit, TargetIsWinner
<1>2. ScoreTypeOK /\ TargetIsWinner /\ [ScoreNext]_scoreVars => TargetIsWinner'
  <2> SUFFICES ASSUME ScoreTypeOK, TargetIsWinner, [ScoreNext]_scoreVars
               PROVE  TargetIsWinner'
    OBVIOUS
  <2>1. CASE SkipBenign \/ SkipWeaker
    <3>1. /\ next <= Len(events) /\ events' = events /\ next' - 1 = next
          /\ best' = best /\ winner' = winner
      BY <2>1 DEF SkipBenign, SkipWeaker, ScoreTypeOK
    <3>2. Malicious(next - 1) \subseteq Malicious(next)
      BY <3>1, MaliciousNext
    <3>3. QED
      BY <3>1, <3>2 DEF TargetIsWinner, Malicious
  <2>2. CASE TakeBest
    <3>1. /\ next <= Len(events) /\ events' = events /\ next' - 1 = next
          /\ winner' = next /\ next \in Malicious(next)
      BY <2>2, MaliciousNext DEF TakeBest, Taken, Exceeds, ScoreTypeOK
    <3>2. next # 0
      BY DEF ScoreTypeOK
    <3>3. QED
      BY <2>2, <3>1, <3>2 DEF TakeBest, Taken, Exceeds, TargetIsWinner, Malicious
  <2>3. CASE UNCHANGED scoreVars
    BY <2>3 DEF scoreVars, TargetIsWinner, Malicious
  <2>4. QED
    BY <2>1, <2>2, <2>3 DEF ScoreNext
<1>3. QED
  BY <1>1, <1>2, TypeCorrect, PTL DEF ScoreSpec

(* For every batch and every rounding, a score at the threshold comes with   *)
(* the source it is offered for (live_pipeline.py:124-132).                  *)
THEOREM OfferSafe == ScoreSpec => []OfferHasTarget
<1>1. ScoreTypeOK /\ TargetIsWinner => OfferHasTarget
  <2> SUFFICES ASSUME ScoreTypeOK, TargetIsWinner, best.score >= Threshold, Threshold > 0
               PROVE best.source \in Sources
    BY DEF OfferHasTarget
  <2>1. winner # 0
    BY ScaleAssumption DEF TargetIsWinner, Nothing, Levels
  <2>2. winner \in 1..Len(events) /\ best.source = events[winner].source
    BY <2>1 DEF ScoreTypeOK, TargetIsWinner
  <2>3. events[winner] \in Predictions
    BY <2>2 DEF ScoreTypeOK
  <2>4. QED
    BY <2>2, <2>3 DEF Predictions
<1>2. QED
  BY <1>1, TypeCorrect, TargetSafe, PTL

(* For every batch and every rounding: the score has one winner, and an      *)
(* offer its target (threat_score.py:30-33).                                *)
THEOREM WinnerSafe == ScoreSpec => []OneWinner
<1>1. TargetIsWinner /\ OfferHasTarget => OneWinner
  BY DEF OneWinner
<1>2. QED
  BY <1>1, TargetSafe, OfferSafe, PTL

(* Rounding leaves every confidence of the batch as it is. *)
BatchIsRounded == \A i \in DOMAIN events : Round(events[i].level) = events[i].level

(* What is left of "the strongest malicious prediction" (threat_score.py:28):*)
(* up to the rounding no malicious event of the batch is stronger than the  *)
(* winner, and none at all if the confidences are rounded themselves.      *)
StrongestUpToRounding ==
  Done => /\ \A i \in Malicious(Len(events)) : Round(events[i].level) <= Round(best.level)
          /\ BatchIsRounded => WinnerIsStrongest

(* For every batch and every rounding. *)
THEOREM StrongestSafe == ScoreSpec => []StrongestUpToRounding
<1>1. ScoreInv /\ TargetIsWinner => StrongestUpToRounding
  <2> SUFFICES ASSUME ScoreInv, TargetIsWinner, Done PROVE StrongestUpToRounding
    BY DEF StrongestUpToRounding
  <2>1. next - 1 = Len(events) /\ Len(events) \in Nat /\ events \in Seq(Predictions)
    BY DEF Done, ScoreInv, ScoreTypeOK
  <2>2. \A i \in Malicious(Len(events)) : Round(events[i].level) <= best.score
    BY <2>1 DEF ScoreInv, IsScore
  <2>3. best.score = Round(best.level)
    <3>1. CASE winner = 0
      BY <3>1, RoundAssumption DEF TargetIsWinner, Nothing
    <3>2. CASE winner # 0
      BY <3>2 DEF TargetIsWinner
    <3> QED
      BY <3>1, <3>2
  <2>4. \A i \in Malicious(Len(events)) : Round(events[i].level) <= Round(best.level)
    BY <2>2, <2>3
  <2>5. ASSUME BatchIsRounded, NEW i \in Malicious(Len(events))
        PROVE  events[i].level <= best.level
    <3>1. i \in DOMAIN events
      BY <2>1 DEF Malicious
    <3>2. Round(events[i].level) = events[i].level /\ events[i].level <= Round(best.level)
      BY <2>4, <2>5, <3>1 DEF BatchIsRounded
    <3>3. Round(best.level) = best.level
      <4>1. CASE winner = 0
        BY <4>1, RoundAssumption DEF TargetIsWinner, Nothing
      <4>2. CASE winner # 0
        <5>1. winner \in DOMAIN events /\ best.level = events[winner].level
          BY <4>2, <2>1 DEF TargetIsWinner, Malicious
        <5> QED
          BY <2>5, <5>1 DEF BatchIsRounded
      <4> QED
        BY <4>1, <4>2
    <3> QED
      BY <3>2, <3>3
  <2> QED
    BY <2>4, <2>5 DEF StrongestUpToRounding, WinnerIsStrongest
<1>2. QED
  BY <1>1, ScoreInvariant, TargetSafe, PTL
=============================================================================
