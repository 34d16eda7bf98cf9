------------------------------- MODULE MCWeb -------------------------------
(* What the outside touches: Zeek writes the log that both processes read,   *)
(* and clients hold the websockets. The two share nothing, so a behaviour    *)
(* is one of one of them.                                                  *)
EXTENDS ConnLog, EventHub

VARIABLE part

all == <<part, logVars, hubVars>>

MCInit ==
  /\ part \in {"log", "hub"}
  /\ LogInit /\ HubInit
  /\ part # "log" => TailAt("init")

OfLog(A) == part = "log" /\ A /\ UNCHANGED <<part, hubVars>>
OfHub(A) == part = "hub" /\ A /\ UNCHANGED <<part, logVars>>

MCNext == OfLog(LogNext) \/ OfHub(HubNext)

(* The fairness of LogSpec and HubSpec *)
MCSpec ==
  /\ MCInit /\ [][MCNext]_all
  /\ WF_all(OfLog(TailStep)) /\ WF_all(OfLog(AskStep)) /\ WF_all(OfLog(Expire))
  /\ WF_all(OfHub(LoopStep))
  /\ \A c \in Clients : WF_all(OfHub(ClientReads(c) \/ ClientLeaves(c)))
=============================================================================
