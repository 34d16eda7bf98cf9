------------------------------ MODULE MCRules ------------------------------
(* What judges traffic, and what talks about it: the worker's rule stage,   *)
(* the verdicts of the detectors, the score of a batch of predictions and   *)
(* the chat share no state, so a behaviour is one of one of them. Of the      *)
(* verdicts' two readers neither writes what the other reads, and no property *)
(* is about both: a log has one of them, and the page a shorter one. The chat *)
(* has two questions about one source and one about another.               *)
EXTENDS RuleStage, FlowVerdicts, MCThreatScore, ChatMemory, TLC

CONSTANTS a1, a2, b1, ga, gb,
          MaxOnPage   \* flows in the log that the page reads
VARIABLE part

MCFlow(src, port, ts, big, refused) ==
  [src |-> src, dst |-> "d", port |-> port, proto |-> IF big THEN "udp" ELSE "tcp",
   ts |-> ts, big |-> big, refused |-> refused]
MCFlows ==
  {MCFlow("a", 1, 0, FALSE, FALSE), MCFlow("a", 1, 2, FALSE, FALSE), MCFlow("a", 1, 4, FALSE, FALSE),
   MCFlow("b", 1, 1, FALSE, FALSE), MCFlow("b", 3, 4, TRUE, FALSE), MCFlow("b", 2, 3, FALSE, TRUE)}
MCQueries == {[src |-> "a", dst |-> "d", port |-> 1, ts |-> 3]}

MCSourceOf == [q \in {a1, a2, b1} |-> IF q = b1 THEN gb ELSE ga]
MCSymmetry == Permutations({a1, a2})

all == <<part, stageVars, verdictVars, scoreVars, chatVars>>

OfStage(A)    == part = "stage" /\ A /\ UNCHANGED <<part, verdictVars, scoreVars, chatVars>>
OfWorker(A)   == part = "worker" /\ A /\ UNCHANGED <<part, stageVars, scoreVars, chatVars>>
OfPage(A)     == part = "page" /\ A /\ Len(log') <= MaxOnPage
                   /\ UNCHANGED <<part, stageVars, scoreVars, chatVars>>
OfScore(A)    == part = "score" /\ A /\ UNCHANGED <<part, stageVars, verdictVars, chatVars>>
OfChat(A)     == part = "chat" /\ A /\ UNCHANGED <<part, stageVars, verdictVars, scoreVars>>

MCInit ==
  /\ part \in {"stage", "worker", "page", "score", "chat"}
  /\ StageInit /\ VerdictInit /\ ChatInit
  /\ part # "chat" => rejects
  /\ IF part = "score" THEN ScoreInit ELSE ScoreInit /\ events = <<>>

MCSpec ==
  /\ MCInit
  /\ [][\/ OfStage(StageNext) \/ OfScore(ScoreNext) \/ OfChat(ChatNext)
        \/ OfWorker(FlowLogged \/ WorkerJudges)
        \/ OfPage(FlowLogged \/ QueryLogged \/ Refresh)]_all
=============================================================================
