---------------------------- MODULE ThreatScore ----------------------------
(***************************************************************************)
(* The scoring of one batch of predictions (src/detection/threat_score.py): *)
(* the loop of calculate_threat_evidence, which remembers the best         *)
(* prediction met so far, beside calculate_threat_score, which takes the   *)
(* maximum of all of them.                                                 *)
(*                                                                         *)
(* confidence * 100 is a natural number of Unit-ths of a percent; the      *)
(* score is that number rounded to what two decimals can express. The loop *)
(* compares an exact confidence with a rounded score.                      *)
(***************************************************************************)
EXTENDS Naturals, Sequences

CONSTANTS
  Sources,    \* source IPs
  NoSource,   \* None
  Full,       \* 100 percent
  Round(_),   \* round(x, 2) on 0..Full
  Threshold,  \* response_offer's threshold
  MaxEvents   \* bound: predictions in a batch

Levels == 0..Full

ASSUME ScaleAssumption == Full \in Nat /\ Threshold \in Levels /\ NoSource \notin Sources
ASSUME RoundAssumption ==
  /\ \A x \in Levels : Round(x) \in Levels /\ Round(Round(x)) = Round(x)
  /\ \A x, y \in Levels : x <= y => Round(x) <= Round(y)
  /\ Round(0) = 0

(* What a prediction carries: whether its label is malicious, its           *)
(* confidence once float() and the clamp to [0, 1] are done (what float()   *)
(* refuses counts as 0), and its source.                            *)
Predictions == [malicious : BOOLEAN, level : Levels, source : Sources]

VARIABLES
  events,  \* the batch
  next,    \* index of the next event of the loop
  best,    \* the dict best: score, source and confidence
  winner   \* history: index of the event best was taken from, 0 for none

scoreVars == <<events, next, best, winner>>

Nothing == [score |-> 0, source |-> NoSource, level |-> 0]

ScoreInit ==
  /\ events \in UNION {[1..n -> Predictions] : n \in 0..MaxEvents}
  /\ next = 1
  /\ best = Nothing
  /\ winner = 0

(* The label is empty, benign or normal. *)
SkipBenign ==
  /\ next <= Len(events)
  /\ ~events[next].malicious
  /\ next' = next + 1
  /\ UNCHANGED <<events, best, winner>>

(* Mutant of Taken: the first source is kept. *)
TakenFirstSource(e) == [score |-> Round(e.level), level |-> e.level,
                        source |-> IF winner = 0 THEN e.source ELSE best.source]

(* What best becomes when an event is taken. *)
Taken(e) == [score |-> Round(e.level), source |-> e.source, level |-> e.level]

(* Mutant of Exceeds: the last malicious event wins. *)
ExceedsAlways(e) == TRUE

(* The exact confidence against the rounded score of the best. *)
Exceeds(e) == e.level > best.score

SkipWeaker ==
  /\ next <= Len(events)
  /\ events[next].malicious
  /\ ~Exceeds(events[next])
  /\ next' = next + 1
  /\ UNCHANGED <<events, best, winner>>

TakeBest ==
  /\ next <= Len(events)
  /\ events[next].malicious
  /\ Exceeds(events[next])
  /\ best' = Taken(events[next])
  /\ winner' = next
  /\ next' = next + 1
  /\ UNCHANGED events

ScoreNext == SkipBenign \/ SkipWeaker \/ TakeBest

ScoreSpec == ScoreInit /\ [][ScoreNext]_scoreVars

-----------------------------------------------------------------------------
Done == next > Len(events)

(* The malicious events among the first n, the ones a score may come from. *)
Malicious(n) == {i \in 1..n : events[i].malicious}

(* calculate_threat_score of the first n events. *)
IsScore(score, n) ==
  /\ \A i \in Malicious(n) : Round(events[i].level) <= score
  /\ score = 0 \/ \E i \in Malicious(n) : score = Round(events[i].level)

ScoreTypeOK ==
  /\ events \in Seq(Predictions)
  /\ next \in 1..Len(events) + 1
  /\ best \in [score : Levels, source : Sources \cup {NoSource}, level : Levels]
  /\ winner \in 0..Len(events)

(* Both functions of the module give the batch the same score, although    *)
(* the loop compares exact confidences with rounded ones: the score that   *)
(* decides a response (live_pipeline.py:122-134) is the score the          *)
(* dashboard computes with calculate_threat_score.                         *)
ScoresAgree == Done => IsScore(best.score, Len(events))

(* Source, confidence and score are those of one malicious event of the      *)
(* batch, and there is no source without a score (threat_score.py:52-70).    *)
TargetIsWinner ==
  /\ winner = 0 => best = Nothing
  /\ winner # 0 => /\ winner \in Malicious(next - 1)
                   /\ best.source = events[winner].source
                   /\ best.level = events[winner].level
                   /\ best.score = Round(events[winner].level)

(* An offered response has a target: a score at the threshold comes with   *)
(* the source it is offered for (live_pipeline.py:124-132).                *)
OfferHasTarget ==
  Done /\ best.score >= Threshold /\ Threshold > 0 => best.source \in Sources

(* "The response target is derived from the same prediction that produced  *)
(* the score" (threat_score.py:30-33), and a score that was rounded up to   *)
(* the threshold of a response is not offered without one.                  *)
OneWinner == TargetIsWinner /\ OfferHasTarget

(* "Return the strongest malicious prediction and its exact source flow"   *)
(* (threat_score.py:28): no malicious event of the batch has a higher      *)
(* confidence than the winner.                                             *)
WinnerIsStrongest ==
  Done => \A i \in Malicious(Len(events)) : events[i].level <= best.level
=============================================================================
