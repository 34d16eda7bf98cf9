------------------------- MODULE ResponseGateProofs -------------------------
(***************************************************************************)
(* Whatever the emitters, clients and batches: a firewall rule is added     *)
(* only for an IP the models judged, and only once some batch reached the   *)
(* threshold. JudgedInv carries that from the predictions through latest_ml *)
(* to the request that read it.                                             *)
(***************************************************************************)
EXTENDS ResponseGate, FiniteSetTheorems, WellFoundedInduction, TLAPS

(* What latest_ml says was said by a prediction and a winning score. *)
LatestIsJudged ==
  /\ latest.score >= Threshold => winners # {}
  /\ latest.source \in predicted \cup {NoIP}

(* An emitter has announced every prediction it has passed. *)
AnnouncedInOrder ==
  \A e \in Emitters :
    /\ \A i \in DOMAIN emit[e].batch : i < emit[e].next => emit[e].batch[i].ip \in predicted
    /\ emit[e].pc = "target" => emit[e].next > Len(emit[e].batch)

(* A block under way holds what it has compared so far. *)
BlocksHaveCause ==
  \A c \in Clients :
    /\ ask[c].pc = "source" /\ ask[c].score >= Threshold => winners # {}
    /\ ask[c].pc = "apply" /\ ask[c].action = "block" => ask[c].ip \in predicted /\ winners # {}

JudgedInv == TypeOK /\ LatestIsJudged /\ AnnouncedInOrder /\ BlocksHaveCause

-----------------------------------------------------------------------------
(* A non-empty set of naturals has a least element. *)
LEMMA Least ==
  ASSUME NEW T \in SUBSET Nat, T # {}
  PROVE  \E i \in T : \A j \in T : i <= j
<1> DEFINE R == {p \in Nat \X Nat : p[1] < p[2]}
<1>1. IsWellFoundedOn(R, Nat)
  BY NatLessThanWellFounded DEF OpToRel
<1>2. PICK i \in T : \A j \in T : ~(<<j, i>> \in R)
  BY <1>1, WFMin
<1>3. ASSUME NEW j \in T PROVE i <= j
  <2>1. j \in Nat /\ i \in Nat
    OBVIOUS
  <2>2. ~(j < i)
    BY <1>2, <2>1
  <2>3. QED
    BY <2>1, <2>2
<1>4. QED
  BY <1>3

(* A batch is a sequence of predictions. *)
LEMMA PredictionType ==
  ASSUME NEW b \in Batches, NEW i \in DOMAIN b
  PROVE  b[i].level \in Nat /\ b[i].ip \in IPs
<1>1. b \in Seq(Predictions)
  BY BatchAssumption
<1>2. b[i] \in Predictions
  BY <1>1
<1>3. QED
  BY <1>2 DEF Predictions

(* The evidence of a batch is one of its predictions, or nothing at all. *)
LEMMA EvidenceIsPredicted ==
  ASSUME NEW b \in Batches
  PROVE  \/ Evidence(b) = Fresh
         \/ \E i \in DOMAIN b : Evidence(b) = [score |-> b[i].level, source |-> b[i].ip]
<1>1. CASE Strongest(b) = {}
  BY <1>1 DEF Evidence
<1>2. CASE Strongest(b) # {}
  <2>1. b \in Seq(Predictions)
    BY BatchAssumption
  <2>2. Strongest(b) \subseteq DOMAIN b /\ Strongest(b) \in SUBSET Nat
    BY <2>1 DEF Strongest
  <2>3. \E i \in Strongest(b) : \A j \in Strongest(b) : i <= j
    BY <1>2, <2>2, Least
  <2>4. QED
    BY <1>2, <2>2, <2>3 DEF Evidence
<1>3. QED
  BY <1>1, <1>2

(* It has a score and a source, and a score at the threshold has an IP. *)
LEMMA EvidenceType ==
  ASSUME NEW b \in Batches
  PROVE  /\ Evidence(b) \in [score : Nat, source : IPs \cup {NoIP}]
         /\ Evidence(b).score >= Threshold => Evidence(b).source \in IPs
<1>1. \A i \in DOMAIN b : b[i].level \in Nat /\ b[i].ip \in IPs
  BY PredictionType
<1>2. QED
  BY <1>1, EvidenceIsPredicted, LevelAssumption DEF Fresh

(* A step of one thread changes its own locals only. *)
LEMMA EmitStepType ==
  ASSUME TypeOK, NEW e \in Emitters, NEW next \in EmitLocals, EmitGoes(e, next),
         next.pc # "idle" => next.batch \in Batches
  PROVE  /\ emit' \in [Emitters -> EmitLocals]
         /\ \A f \in Emitters : emit'[f].pc # "idle" => emit'[f].batch \in Batches
BY DEF TypeOK, EmitGoes

LEMMA AskStepType ==
  ASSUME TypeOK, NEW c \in Clients, NEW next \in AskLocals, AskGoes(c, next),
         next.pc # "idle" => next.ip \in IPs
  PROVE  /\ ask' \in [Clients -> AskLocals]
         /\ \A d \in Clients : ask'[d].pc # "idle" => ask'[d].ip \in IPs
BY DEF TypeOK, AskGoes

LEMMA IdleTypes == Ready \in EmitLocals /\ NoAsk \in AskLocals
BY DEF Ready, NoAsk, EmitLocals, AskLocals, Actions

-----------------------------------------------------------------------------
(* Every entry, local and counter keeps its type. *)
THEOREM TypeCorrect == Spec => []TypeOK
<1>1. Init => TypeOK
  <2> SUFFICES ASSUME Init PROVE TypeOK
    OBVIOUS
  <2>1. Tally \in [IPs -> [Actions -> Nat]]
    BY DEF Tally
  <2>2. QED
    BY <2>1, IdleTypes DEF Init, TypeOK, Fresh, Ready, NoAsk
<1>2. TypeOK /\ [Next]_vars => TypeOK'
  <2> SUFFICES ASSUME TypeOK, [Next]_vars
               PROVE  TypeOK'
    OBVIOUS
  <2> USE DEF gate, request
  <2>1. ASSUME NEW e \in Emitters, EmitBatch(e) PROVE TypeOK'
    <3>1. PICK b \in Batches : EmitGoes(e, [pc |-> "predict", batch |-> b, next |-> 1])
      BY <2>1 DEF EmitBatch
    <3>2. [pc |-> "predict", batch |-> b, next |-> 1] \in EmitLocals
      BY DEF EmitLocals
    <3>3. QED
      BY <2>1, <3>1, <3>2, EmitStepType DEF TypeOK, EmitBatch
  <2>2. ASSUME NEW e \in Emitters, EmitPrediction(e) PROVE TypeOK'
    <3>1. /\ emit[e].batch \in Batches /\ emit[e].next \in Nat \ {0}
          /\ emit[e].next <= Len(emit[e].batch)
      BY <2>2 DEF TypeOK, EmitLocals, EmitAt, EmitPrediction
    <3>2. emit[e].batch[emit[e].next].ip \in IPs
      <4>1. emit[e].batch \in Seq(Predictions)
        BY <3>1, BatchAssumption
      <4>2. emit[e].next \in DOMAIN emit[e].batch
        BY <3>1, <4>1
      <4>3. QED
        BY <3>1, <4>2, PredictionType
    <3>3. [emit[e] EXCEPT !.next = @ + 1] \in EmitLocals
      <4>1. emit[e].next + 1 \in Nat \ {0}
        BY <3>1
      <4>2. QED
        BY <4>1 DEF TypeOK, EmitLocals
    <3>4. QED
      BY <2>2, <3>1, <3>2, <3>3, EmitStepType DEF TypeOK, EmitLocals, EmitPrediction
  <2>3. ASSUME NEW e \in Emitters, EmitScore(e) PROVE TypeOK'
    <3>1. emit[e].batch \in Batches
      BY <2>3 DEF TypeOK, EmitAt, EmitScore
    <3>2. [emit[e] EXCEPT !.pc = "target"] \in EmitLocals
      BY DEF TypeOK, EmitLocals
    <3>3. latest' \in [score : Nat, source : IPs \cup {NoIP}] /\ winners' \subseteq IPs
      BY <2>3, <3>1, EvidenceType DEF TypeOK, EmitScore
    <3>4. QED
      BY <2>3, <3>1, <3>2, <3>3, EmitStepType DEF TypeOK, EmitLocals, EmitScore
  <2>4. ASSUME NEW e \in Emitters, EmitTarget(e) PROVE TypeOK'
    <3>1. Evidence(emit[e].batch).source \in IPs \cup {NoIP}
      BY <2>4, EvidenceType DEF TypeOK, EmitAt, EmitTarget
    <3>2. QED
      BY <2>4, <3>1, EmitStepType, IdleTypes DEF TypeOK, Ready, EmitTarget
  <2>5. ASSUME NEW c \in Clients, Ask(c) PROVE TypeOK'
    <3>1. PICK action \in Actions, ip \in IPs :
            AskGoes(c, [pc |-> IF action = "block" THEN "score" ELSE "apply",
                        action |-> action, ip |-> ip, score |-> 0])
      BY <2>5 DEF Ask
    <3>2. [pc |-> IF action = "block" THEN "score" ELSE "apply",
           action |-> action, ip |-> ip, score |-> 0] \in AskLocals
      BY DEF AskLocals
    <3>3. QED
      BY <2>5, <3>1, <3>2, AskStepType DEF TypeOK, Ask
  <2>6. ASSUME NEW c \in Clients, ReadScore(c) PROVE TypeOK'
    <3>1. [ask[c] EXCEPT !.pc = "source", !.score = latest.score] \in AskLocals
      BY DEF TypeOK, AskLocals
    <3>2. ask[c].ip \in IPs
      BY <2>6 DEF TypeOK, AskAt, ReadScore
    <3>3. QED
      BY <2>6, <3>1, <3>2, AskStepType DEF TypeOK, AskLocals, ReadScore
  <2>7. ASSUME NEW c \in Clients, ReadSource(c) PROVE TypeOK'
    <3>1. [ask[c] EXCEPT !.pc = "apply"] \in AskLocals
      BY DEF TypeOK, AskLocals
    <3>2. ask[c].ip \in IPs
      BY <2>7 DEF TypeOK, AskAt, ReadSource
    <3>3. QED
      BY <2>7, <3>1, <3>2, AskStepType, IdleTypes DEF TypeOK, AskLocals, ReadSource, Answer, NoAsk
  <2>8. ASSUME NEW c \in Clients, Apply(c) PROVE TypeOK'
    <3>1. [ask[c] EXCEPT !.pc = "audit"] \in AskLocals
      BY DEF TypeOK, AskLocals
    <3>2. ask[c].ip \in IPs /\ ask[c].action \in Actions
      BY <2>8 DEF TypeOK, AskLocals, AskAt, Apply
    <3>3. rules' \in [IPs -> Nat]
      BY <2>8, <3>2 DEF TypeOK, Actions, Apply
    <3>4. applied' \in [IPs -> [Actions -> Nat]]
      BY <2>8, <3>2 DEF TypeOK, Apply
    <3>5. QED
      BY <2>8, <3>1, <3>2, <3>3, <3>4, AskStepType DEF TypeOK, AskLocals, Apply
  <2>9. ASSUME NEW c \in Clients, Answer(c) PROVE /\ ask' \in [Clients -> AskLocals]
                                                 /\ \A d \in Clients : ask'[d].pc # "idle" => ask'[d].ip \in IPs
    BY <2>9, AskStepType, IdleTypes DEF Answer, NoAsk
  <2>10. ASSUME NEW c \in Clients, ApplyFails(c) \/ AuditFails(c) PROVE TypeOK'
    BY <2>9, <2>10 DEF TypeOK, ApplyFails, AuditFails
  <2>11. ASSUME NEW c \in Clients, Audit(c) PROVE TypeOK'
    <3>1. ask[c].ip \in IPs /\ ask[c].action \in Actions
      BY <2>11 DEF TypeOK, AskLocals, AskAt, Audit
    <3>2. audited' \in [IPs -> [Actions -> Nat]]
      BY <2>11, <3>1 DEF TypeOK, Audit
    <3>3. QED
      BY <2>9, <2>11, <3>2 DEF TypeOK, Audit
  <2>12. CASE Restart
    BY <2>12 DEF TypeOK, Restart, Fresh
  <2>13. CASE Crash
    BY <2>13, IdleTypes DEF TypeOK, Crash, Fresh, Ready, NoAsk
  <2>14. CASE UNCHANGED vars
    BY <2>14 DEF TypeOK, vars
  <2>15. QED
    BY <2>1, <2>2, <2>3, <2>4, <2>5, <2>6, <2>7, <2>8, <2>10, <2>11, <2>12, <2>13, <2>14
    DEF Next, EmitStep, AskStep
<1>3. QED
  BY <1>1, <1>2, PTL DEF Spec

-----------------------------------------------------------------------------
(* What a block compared stays true: predictions and winners only grow     *)
(* while the process lives.                                                *)
LEMMA CausesLast ==
  ASSUME TypeOK, BlocksHaveCause, UNCHANGED ask,
         predicted \subseteq predicted', winners \subseteq winners'
  PROVE  BlocksHaveCause'
BY DEF BlocksHaveCause

LEMMA OrderLasts ==
  ASSUME TypeOK, AnnouncedInOrder, NEW e \in Emitters, NEW next \in EmitLocals,
         EmitGoes(e, next), predicted \subseteq predicted',
         \A i \in DOMAIN next.batch : i < next.next => next.batch[i].ip \in predicted',
         next.pc = "target" => next.next > Len(next.batch)
  PROVE  AnnouncedInOrder'
BY DEF AnnouncedInOrder, TypeOK, EmitGoes

LEMMA AskLasts ==
  ASSUME TypeOK, BlocksHaveCause, NEW c \in Clients, NEW next \in AskLocals, AskGoes(c, next),
         UNCHANGED <<predicted, winners>>,
         next.pc = "source" /\ next.score >= Threshold => winners # {},
         next.pc = "apply" /\ next.action = "block" => next.ip \in predicted /\ winners # {}
  PROVE  BlocksHaveCause'
BY DEF BlocksHaveCause, TypeOK, AskGoes

(* Once every prediction of a batch was announced, its evidence names an   *)
(* announced IP.                                                           *)
LEMMA EvidenceAnnounced ==
  ASSUME TypeOK, AnnouncedInOrder, NEW e \in Emitters, emit[e].pc # "idle",
         emit[e].next > Len(emit[e].batch)
  PROVE  Evidence(emit[e].batch).source \in predicted \cup {NoIP}
<1> DEFINE b == emit[e].batch
<1>1. b \in Batches /\ b \in Seq(Predictions)
  BY BatchAssumption DEF TypeOK
<1>2. \A i \in DOMAIN b : b[i].ip \in predicted
  <2>1. emit[e].next \in Nat
    BY DEF TypeOK, EmitLocals
  <2>2. \A i \in DOMAIN b : i < emit[e].next
    BY <1>1, <2>1
  <2>3. QED
    BY <2>2 DEF AnnouncedInOrder
<1>3. QED
  BY <1>1, <1>2, EvidenceIsPredicted DEF Fresh

-----------------------------------------------------------------------------
(* The inductive invariant. *)
THEOREM JudgedInvariant == Spec => []JudgedInv
<1>1. Init => JudgedInv
  <2> SUFFICES ASSUME Init PROVE JudgedInv
    OBVIOUS
  <2>1. TypeOK
    <3>1. Tally \in [IPs -> [Actions -> Nat]]
      BY DEF Tally
    <3>2. QED
      BY <3>1, IdleTypes DEF Init, TypeOK, Fresh, Ready, NoAsk
  <2>2. LatestIsJudged
    BY LevelAssumption DEF Init, LatestIsJudged, Fresh
  <2>3. AnnouncedInOrder /\ BlocksHaveCause
    BY DEF Init, AnnouncedInOrder, BlocksHaveCause, Ready, NoAsk
  <2>4. QED
    BY <2>1, <2>2, <2>3 DEF JudgedInv
<1>2. JudgedInv /\ TypeOK' /\ [Next]_vars => JudgedInv'
  <2> SUFFICES ASSUME TypeOK, LatestIsJudged, AnnouncedInOrder, BlocksHaveCause,
                      TypeOK', [Next]_vars
               PROVE  LatestIsJudged' /\ AnnouncedInOrder' /\ BlocksHaveCause'
    BY DEF JudgedInv
  <2> USE DEF gate, request
  <2>1. ASSUME NEW e \in Emitters, EmitBatch(e)
        PROVE  LatestIsJudged' /\ AnnouncedInOrder' /\ BlocksHaveCause'
    <3>1. PICK b \in Batches : EmitGoes(e, [pc |-> "predict", batch |-> b, next |-> 1])
      BY <2>1 DEF EmitBatch
    <3>2. [pc |-> "predict", batch |-> b, next |-> 1] \in EmitLocals
      BY DEF EmitLocals
    <3>3. b \in Seq(Predictions)
      BY BatchAssumption
    <3>4. \A i \in DOMAIN b : ~(i < 1)
      BY <3>3
    <3>5. AnnouncedInOrder'
      BY <2>1, <3>1, <3>2, <3>4, OrderLasts DEF EmitBatch
    <3>6. QED
      BY <2>1, <3>5, CausesLast DEF EmitBatch, LatestIsJudged
  <2>2. ASSUME NEW e \in Emitters, EmitPrediction(e)
        PROVE  LatestIsJudged' /\ AnnouncedInOrder' /\ BlocksHaveCause'
    <3> DEFINE b == emit[e].batch
               n == emit[e].next
               next == [emit[e] EXCEPT !.next = @ + 1]
    <3>1. /\ predicted' = predicted \cup {b[n].ip} /\ UNCHANGED <<winners, ask>>
          /\ latest' = [latest EXCEPT !.source = b[n].ip]
          /\ EmitGoes(e, next) /\ emit[e].pc = "predict" /\ n \in Nat
      BY <2>2 DEF EmitPrediction, EmitAt, TypeOK, EmitLocals
    <3>2. next \in EmitLocals
      <4>1. n + 1 \in Nat \ {0}
        BY <3>1
      <4>2. emit[e] \in EmitLocals
        BY DEF TypeOK
      <4>3. QED
        BY <4>1, <4>2 DEF EmitLocals
    <3>3. next.batch = b /\ next.next = n + 1 /\ next.pc = "predict"
      BY <3>1 DEF TypeOK, EmitLocals
    <3>4. \A i \in DOMAIN b : i < n + 1 => b[i].ip \in predicted'
      <4>1. b \in Seq(Predictions)
        BY <3>1, BatchAssumption DEF TypeOK
      <4>2. \A i \in DOMAIN b : i < n + 1 => i < n \/ i = n
        BY <3>1, <4>1
      <4>3. QED
        BY <3>1, <4>2 DEF AnnouncedInOrder
    <3>5. AnnouncedInOrder'
      BY <3>1, <3>2, <3>3, <3>4, OrderLasts
    <3>6. LatestIsJudged'
      BY <3>1 DEF LatestIsJudged, TypeOK
    <3>7. QED
      BY <3>1, <3>5, <3>6, CausesLast
  <2>3. ASSUME NEW e \in Emitters, EmitScore(e)
        PROVE  LatestIsJudged' /\ AnnouncedInOrder' /\ BlocksHaveCause'
    <3> DEFINE next == [emit[e] EXCEPT !.pc = "target"]
    <3>1. /\ EmitGoes(e, next) /\ emit[e].pc # "idle" /\ UNCHANGED <<predicted, ask>>
          /\ emit[e].next > Len(emit[e].batch) /\ winners \subseteq winners'
      BY <2>3 DEF EmitScore, EmitAt
    <3>2. /\ next \in EmitLocals
          /\ next.batch = emit[e].batch /\ next.next = emit[e].next /\ next.pc = "target"
      <4>1. emit[e] \in EmitLocals
        BY DEF TypeOK
      <4>2. QED
        BY <4>1 DEF EmitLocals
    <3>3. AnnouncedInOrder'
      <4>1. \A i \in DOMAIN emit[e].batch : i < emit[e].next => emit[e].batch[i].ip \in predicted'
        BY <3>1 DEF AnnouncedInOrder
      <4>2. next.next > Len(next.batch)
        BY <3>1, <3>2
      <4>3. \A i \in DOMAIN next.batch : i < next.next => next.batch[i].ip \in predicted'
        BY <3>2, <4>1
      <4>4. QED
        BY <3>1, <3>2, <4>2, <4>3, OrderLasts
    <3>4. LatestIsJudged'
      BY <2>3 DEF EmitScore, LatestIsJudged, TypeOK
    <3>5. QED
      BY <3>1, <3>3, <3>4, CausesLast
  <2>4. ASSUME NEW e \in Emitters, EmitTarget(e)
        PROVE  LatestIsJudged' /\ AnnouncedInOrder' /\ BlocksHaveCause'
    <3>1. /\ latest' = [latest EXCEPT !.source = Evidence(emit[e].batch).source]
          /\ EmitGoes(e, Ready) /\ UNCHANGED <<predicted, winners, ask>>
          /\ emit[e].pc = "target"
      BY <2>4 DEF EmitTarget, EmitAt
    <3>2. Evidence(emit[e].batch).source \in predicted \cup {NoIP}
      BY <3>1, EvidenceAnnounced DEF AnnouncedInOrder
    <3>3. LatestIsJudged'
      BY <3>1, <3>2 DEF LatestIsJudged, TypeOK
    <3>4. AnnouncedInOrder'
      BY <3>1, OrderLasts, IdleTypes DEF Ready
    <3>5. QED
      BY <3>1, <3>3, <3>4, CausesLast
  <2>5. ASSUME NEW c \in Clients, Ask(c)
        PROVE  LatestIsJudged' /\ AnnouncedInOrder' /\ BlocksHaveCause'
    <3>1. PICK action \in Actions, ip \in IPs :
            AskGoes(c, [pc |-> IF action = "block" THEN "score" ELSE "apply",
                        action |-> action, ip |-> ip, score |-> 0])
      BY <2>5 DEF Ask
    <3>2. [pc |-> IF action = "block" THEN "score" ELSE "apply",
           action |-> action, ip |-> ip, score |-> 0] \in AskLocals
      BY DEF AskLocals
    <3>3. BlocksHaveCause'
      BY <2>5, <3>1, <3>2, AskLasts DEF Ask
    <3>4. QED
      BY <2>5, <3>3 DEF Ask, LatestIsJudged, AnnouncedInOrder
  <2>6. ASSUME NEW c \in Clients, ReadScore(c)
        PROVE  LatestIsJudged' /\ AnnouncedInOrder' /\ BlocksHaveCause'
    <3> DEFINE next == [ask[c] EXCEPT !.pc = "source", !.score = latest.score]
    <3>1. next \in AskLocals /\ next.pc = "source" /\ next.score = latest.score
      <4>1. ask[c] \in AskLocals /\ latest.score \in Nat
        BY DEF TypeOK
      <4>2. QED
        BY <4>1 DEF AskLocals
    <3>2. BlocksHaveCause'
      BY <2>6, <3>1, AskLasts DEF ReadScore, LatestIsJudged
    <3>3. QED
      BY <2>6, <3>2 DEF ReadScore, LatestIsJudged, AnnouncedInOrder
  <2>7. ASSUME NEW c \in Clients, Answer(c), UNCHANGED <<predicted, winners>>
        PROVE  BlocksHaveCause'
    BY <2>7, AskLasts, IdleTypes DEF Answer, NoAsk
  <2>8. ASSUME NEW c \in Clients, ReadSource(c)
        PROVE  LatestIsJudged' /\ AnnouncedInOrder' /\ BlocksHaveCause'
    <3> DEFINE next == [ask[c] EXCEPT !.pc = "apply"]
    <3>1. CASE ask[c].score >= Threshold /\ ask[c].ip = latest.source
      <4>1. next \in AskLocals /\ next.pc = "apply" /\ next.ip = ask[c].ip
        <5>1. ask[c] \in AskLocals /\ latest.score \in Nat
          BY DEF TypeOK
        <5>2. QED
          BY <5>1 DEF AskLocals
      <4>2. ask[c].ip \in predicted /\ winners # {}
        BY <2>8, <3>1, IPAssumption DEF ReadSource, AskAt, LatestIsJudged, BlocksHaveCause, TypeOK
      <4>3. QED
        BY <2>8, <3>1, <4>1, <4>2, AskLasts
        DEF ReadSource, LatestIsJudged, AnnouncedInOrder
    <3>2. CASE ~(ask[c].score >= Threshold /\ ask[c].ip = latest.source)
      BY <2>7, <2>8, <3>2 DEF ReadSource, LatestIsJudged, AnnouncedInOrder
    <3>3. QED
      BY <3>1, <3>2
  <2>9. ASSUME NEW c \in Clients, Apply(c)
        PROVE  LatestIsJudged' /\ AnnouncedInOrder' /\ BlocksHaveCause'
    <3> DEFINE next == [ask[c] EXCEPT !.pc = "audit"]
    <3>1. next \in AskLocals /\ next.pc = "audit"
      <4>1. ask[c] \in AskLocals /\ latest.score \in Nat
        BY DEF TypeOK
      <4>2. QED
        BY <4>1 DEF AskLocals
    <3>2. BlocksHaveCause'
      BY <2>9, <3>1, AskLasts DEF Apply
    <3>3. QED
      BY <2>9, <3>2 DEF Apply, LatestIsJudged, AnnouncedInOrder
  <2>10. ASSUME NEW c \in Clients, ApplyFails(c) \/ Audit(c) \/ AuditFails(c)
         PROVE  LatestIsJudged' /\ AnnouncedInOrder' /\ BlocksHaveCause'
    BY <2>7, <2>10 DEF ApplyFails, Audit, AuditFails, LatestIsJudged, AnnouncedInOrder
  <2>11. CASE Restart
    BY <2>11, CausesLast, LevelAssumption DEF Restart, Fresh, LatestIsJudged, AnnouncedInOrder
  <2>12. CASE Crash
    BY <2>12, LevelAssumption
    DEF Crash, Fresh, Ready, NoAsk, LatestIsJudged, AnnouncedInOrder, BlocksHaveCause
  <2>13. CASE UNCHANGED vars
    BY <2>13 DEF vars, LatestIsJudged, AnnouncedInOrder, BlocksHaveCause
  <2>14. QED
    BY <2>1, <2>2, <2>3, <2>4, <2>5, <2>6, <2>8, <2>9, <2>10, <2>11, <2>12, <2>13
    DEF Next, EmitStep, AskStep
<1>3. QED
  BY <1>1, <1>2, TypeCorrect, PTL DEF Spec

(* README.md:251, "The backend validates": no interleaving of predictions, *)
(* scores, restarts and crashes lets a request add a firewall rule for an  *)
(* IP the models never judged, or before any score reached the threshold.  *)
THEOREM BlocksSafe == Spec => BlocksOnlyJudged
<1>1. JudgedInv /\ [Next]_vars => [BlocksJudgedSource]_vars
  <2> SUFFICES ASSUME JudgedInv, [Next]_vars, NEW ip \in IPs, rules'[ip] > rules[ip]
               PROVE  ip \in predicted /\ winners # {}
    BY DEF BlocksJudgedSource
  <2> USE DEF JudgedInv, gate, request
  <2>1. ASSUME NEW c \in Clients, Apply(c)
        PROVE  ip \in predicted /\ winners # {}
    <3>1. ask[c].ip = ip /\ ask[c].action = "block"
      BY <2>1 DEF Apply, AskAt, TypeOK, AskLocals, Actions
    <3>2. QED
      BY <2>1, <3>1 DEF Apply, AskAt, BlocksHaveCause
  <2>2. CASE UNCHANGED rules
    BY <2>2 DEF TypeOK
  <2>3. UNCHANGED rules \/ \E c \in Clients : Apply(c)
    BY DEF Next, EmitStep, AskStep, EmitBatch, EmitPrediction, EmitScore, EmitTarget, Ask,
           ReadScore, ReadSource, ApplyFails, Audit, AuditFails, Restart, Crash, vars
  <2>4. QED
    BY <2>1, <2>2, <2>3
<1>2. QED
  BY <1>1, JudgedInvariant, PTL DEF Spec, BlocksOnlyJudged
-----------------------------------------------------------------------------
(* The displayed pair *)

Working == {e \in Emitters : ~EmitAt(e, "idle")}

(* As long as nobody crossed, one emitter works; what it will write next    *)
(* belongs to the score it wrote last.                                     *)
PairInv ==
  crossed = {} =>
    /\ \A e, f \in Working : e = f
    /\ \A e \in Emitters : EmitAt(e, "target") =>
         LET evidence == Evidence(emit[e].batch) IN
           latest.score = evidence.score /\ (evidence.score >= Threshold => evidence.source \in winners)
    /\ Working = {} /\ latest.score >= Threshold => latest.source \in winners

LEMMA EmitPairs ==
  ASSUME TypeOK, PairInv, NEW e \in Emitters, EmitStep(e) PROVE PairInv'
<1> USE DEF PairInv, Working, EmitAt, EmitGoes, TypeOK
<1>1. CASE EmitBatch(e)
  <2>1. emit'[e].pc = "predict" /\ \A f \in Emitters : f # e => emit'[f] = emit[f]
    BY <1>1 DEF EmitBatch
  <2>2. crossed' = {} => crossed = {} /\ \A f \in Emitters : f # e => emit[f].pc = "idle"
    BY <1>1 DEF EmitBatch
  <2>3. QED
    BY <2>1, <2>2
<1>2. CASE EmitPrediction(e)
  BY <1>2 DEF EmitPrediction
<1>3. CASE EmitScore(e)
  <2>1. /\ emit'[e].pc = "target" /\ emit'[e].batch = emit[e].batch
        /\ \A f \in Emitters : f # e => emit'[f] = emit[f]
        /\ latest'.score = Evidence(emit[e].batch).score /\ winners \subseteq winners'
        /\ Evidence(emit[e].batch).score >= Threshold => Evidence(emit[e].batch).source \in winners'
    BY <1>3 DEF EmitScore, EmitLocals
  <2>2. QED
    BY <1>3, <2>1 DEF EmitScore
<1>4. CASE EmitTarget(e)
  <2>1. latest'.source = Evidence(emit[e].batch).source /\ latest'.score = latest.score
    BY <1>4 DEF EmitTarget
  <2>2. emit'[e].pc = "idle" /\ \A f \in Emitters : f # e => emit'[f] = emit[f]
    BY <1>4 DEF EmitTarget, Ready
  <2>3. QED
    BY <1>4, <2>1, <2>2 DEF EmitTarget
<1>5. QED
  BY <1>1, <1>2, <1>3, <1>4 DEF EmitStep

LEMMA PairKeeps == TypeOK /\ PairInv /\ [Next]_vars => PairInv'
<1> SUFFICES ASSUME TypeOK, PairInv, [Next]_vars PROVE PairInv'
  OBVIOUS
<1>1. CASE UNCHANGED <<latest, gate>>
  BY <1>1 DEF PairInv, Working, EmitAt, gate
<1>2. CASE Restart
  <2>1. emit' = emit /\ latest'.score = 0 /\ (crossed' = {} => Working = {})
    BY <1>2 DEF Restart, Fresh, Working
  <2>2. QED
    BY <2>1, LevelAssumption DEF PairInv, Working, EmitAt
<1>3. CASE Crash
  BY <1>3, LevelAssumption DEF PairInv, Working, EmitAt, Crash, Fresh, Ready, gate
<1>4. CASE \E c \in Clients : AskStep(c)
  BY <1>1, <1>4 DEF AskStep, Ask, ReadScore, ReadSource, Apply, ApplyFails, Audit, AuditFails
<1>5. QED
  BY <1>1, <1>2, <1>3, <1>4, EmitPairs DEF Next, vars

(* For any emitters and batches: as long as no two emitted at once since the *)
(* session began, and none was in the middle of a batch then, the IP shown   *)
(* beside a score that allows a response won such a score                   *)
(* (live_service.py:93-94).                                                *)
THEOREM PairSafe == Spec => []PairedWhenQuiet
<1>1. Init => PairInv
  BY LevelAssumption DEF Init, PairInv, Working, EmitAt, Ready, Fresh
<1>2. PairInv => PairedWhenQuiet
  BY DEF PairInv, PairedWhenQuiet, Working
<1>3. QED
  BY <1>1, <1>2, PairKeeps, TypeCorrect, PTL DEF Spec
-----------------------------------------------------------------------------
(* The audit file *)

(* The requests that applied an action and have yet to write it down. *)
Owed(ip, action) ==
  {c \in Clients : AskAt(c, "audit") /\ ask[c].ip = ip /\ ask[c].action = action}

AuditInv ==
  \A ip \in IPs, action \in Actions :
    audited[ip][action] + Cardinality(Owed(ip, action)) <= applied[ip][action]

LEMMA OwedCounts ==
  ASSUME NEW ip, NEW action PROVE Cardinality(Owed(ip, action)) \in Nat /\ IsFiniteSet(Owed(ip, action))
<1>1. Owed(ip, action) \subseteq Clients
  BY DEF Owed
<1>2. QED
  BY <1>1, ClientAssumption, FS_Subset, FS_CardinalityType

LEMMA AuditWaits ==
  ASSUME TypeOK, AuditInv, UNCHANGED <<audited, applied>>,
         \A c \in Clients : AskAt(c, "audit")' => ask'[c] = ask[c]
  PROVE  AuditInv'
<1> SUFFICES ASSUME NEW ip \in IPs, NEW action \in Actions
             PROVE audited[ip][action] + Cardinality(Owed(ip, action)') <= applied[ip][action]
  BY DEF AuditInv
<1>1. Owed(ip, action)' \subseteq Owed(ip, action)
  BY DEF Owed, AskAt
<1>2. Cardinality(Owed(ip, action)') <= Cardinality(Owed(ip, action)) /\ Cardinality(Owed(ip, action)') \in Nat
  BY <1>1, OwedCounts, FS_Subset, FS_CardinalityType
<1>3. QED
  BY <1>2, OwedCounts DEF AuditInv, TypeOK

LEMMA AuditKeeps == TypeOK /\ AuditInv /\ [Next]_vars => AuditInv'
<1> SUFFICES ASSUME TypeOK, AuditInv, [Next]_vars PROVE AuditInv'
  OBVIOUS
<1>1. CASE UNCHANGED request
  BY <1>1, AuditWaits DEF request, AskAt
<1>2. CASE Crash
  BY <1>2, AuditWaits DEF Crash, AskAt, NoAsk
<1>3. ASSUME NEW c \in Clients,
             Ask(c) \/ ReadScore(c) \/ ReadSource(c) \/ ApplyFails(c) \/ AuditFails(c)
      PROVE AuditInv'
  <2>1. \A d \in Clients : d # c => ask'[d] = ask[d]
    BY <1>3 DEF Ask, ReadScore, ReadSource, ApplyFails, AuditFails, AskGoes, Answer, TypeOK
  <2>2. ask'[c].pc # "audit"
    <3>1. CASE Ask(c)
      <4>1. PICK action \in Actions, ip \in IPs :
              AskGoes(c, [pc |-> IF action = "block" THEN "score" ELSE "apply",
                          action |-> action, ip |-> ip, score |-> 0])
        BY <3>1 DEF Ask
      <4>2. ask'[c].pc = IF action = "block" THEN "score" ELSE "apply"
        BY <4>1 DEF AskGoes, TypeOK
      <4>3. QED
        BY <4>2
    <3>2. CASE ReadScore(c)
      BY <3>2 DEF ReadScore, AskGoes, TypeOK, AskLocals
    <3>3. CASE ReadSource(c)
      BY <3>3 DEF ReadSource, AskGoes, Answer, NoAsk, TypeOK, AskLocals
    <3>4. CASE ApplyFails(c) \/ AuditFails(c)
      BY <3>4 DEF ApplyFails, AuditFails, AskGoes, Answer, NoAsk, TypeOK
    <3>5. QED
      BY <1>3, <3>1, <3>2, <3>3, <3>4
  <2>3. UNCHANGED <<audited, applied>>
    BY <1>3 DEF Ask, ReadScore, ReadSource, ApplyFails, AuditFails
  <2>4. QED
    BY <2>1, <2>2, <2>3, AuditWaits DEF AskAt
<1>4. ASSUME NEW c \in Clients, Apply(c) PROVE AuditInv'
  <2> SUFFICES ASSUME NEW ip \in IPs, NEW action \in Actions
               PROVE audited'[ip][action] + Cardinality(Owed(ip, action)') <= applied'[ip][action]
    BY DEF AuditInv
  <2>1. c \notin Owed(ip, action) /\ audited' = audited
    BY <1>4 DEF Apply, Owed, AskAt
  <2>2. CASE ask[c].ip = ip /\ ask[c].action = action
    <3>1. Owed(ip, action)' = Owed(ip, action) \cup {c}
      BY <1>4, <2>2 DEF Apply, Owed, AskAt, AskGoes, TypeOK, AskLocals
    <3>2. applied'[ip][action] = applied[ip][action] + 1
      BY <1>4, <2>2 DEF Apply, TypeOK
    <3>3. Cardinality(Owed(ip, action)') = Cardinality(Owed(ip, action)) + 1
      BY <2>1, <3>1, OwedCounts, FS_AddElement
    <3>4. QED
      BY <2>1, <3>2, <3>3, OwedCounts DEF AuditInv, TypeOK
  <2>3. CASE ~(ask[c].ip = ip /\ ask[c].action = action)
    <3>1. Owed(ip, action)' = Owed(ip, action)
      BY <1>4, <2>3 DEF Apply, Owed, AskAt, AskGoes, TypeOK, AskLocals
    <3>2. applied'[ip][action] = applied[ip][action]
      BY <1>4, <2>3 DEF Apply, TypeOK
    <3>3. QED
      BY <2>1, <3>1, <3>2 DEF AuditInv
  <2>4. QED
    BY <2>2, <2>3
<1>5. ASSUME NEW c \in Clients, Audit(c) PROVE AuditInv'
  <2> SUFFICES ASSUME NEW ip \in IPs, NEW action \in Actions
               PROVE audited'[ip][action] + Cardinality(Owed(ip, action)') <= applied'[ip][action]
    BY DEF AuditInv
  <2>1. Owed(ip, action)' = Owed(ip, action) \ {c} /\ applied' = applied
    BY <1>5 DEF Audit, Owed, AskAt, AskGoes, Answer, NoAsk, TypeOK
  <2>2. CASE ask[c].ip = ip /\ ask[c].action = action
    <3>1. c \in Owed(ip, action)
      BY <1>5, <2>2 DEF Audit, Owed
    <3>2. audited'[ip][action] = audited[ip][action] + 1
      BY <1>5, <2>2 DEF Audit, TypeOK
    <3>3. Cardinality(Owed(ip, action)') = Cardinality(Owed(ip, action)) - 1
      BY <2>1, <3>1, OwedCounts, FS_RemoveElement
    <3>4. QED
      BY <2>1, <3>2, <3>3, OwedCounts DEF AuditInv, TypeOK
  <2>3. CASE ~(ask[c].ip = ip /\ ask[c].action = action)
    <3>1. c \notin Owed(ip, action)
      BY <2>3 DEF Owed
    <3>2. audited'[ip][action] = audited[ip][action]
      BY <1>5, <2>3 DEF Audit, TypeOK
    <3>3. Owed(ip, action)' = Owed(ip, action)
      BY <2>1, <3>1
    <3>4. QED
      BY <2>1, <3>2, <3>3 DEF AuditInv
  <2>4. QED
    BY <2>2, <2>3
<1>6. QED
  BY <1>1, <1>2, <1>3, <1>4, <1>5 DEF Next, EmitStep, AskStep, EmitBatch, EmitPrediction, EmitScore, EmitTarget,
     Restart, vars

(* Over failing commands, failing writes and crashes, for any clients at    *)
(* once: the audit file never holds more of an action on an IP than the     *)
(* firewall carried out (firewall.py:86-96).                               *)
THEOREM AuditSafe == Spec => []AuditNeverOverstates
<1>1. Init => AuditInv
  <2> SUFFICES ASSUME Init, NEW ip \in IPs, NEW action \in Actions
               PROVE audited[ip][action] + Cardinality(Owed(ip, action)) <= applied[ip][action]
    BY DEF AuditInv
  <2>1. Owed(ip, action) = {}
    BY DEF Init, Owed, AskAt, NoAsk
  <2>2. QED
    BY <2>1, FS_EmptySet DEF Init, Tally
<1>2. TypeOK /\ AuditInv => AuditNeverOverstates
  BY OwedCounts DEF AuditInv, AuditNeverOverstates, TypeOK
<1>3. QED
  BY <1>1, <1>2, AuditKeeps, TypeCorrect, PTL DEF Spec
=============================================================================
