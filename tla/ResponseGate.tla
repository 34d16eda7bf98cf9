---------------------------- MODULE ResponseGate ----------------------------
(***************************************************************************)
(* The response path of the backend: the threads that score packet flows   *)
(* keep LiveMonitoringService.latest_ml up to date (_on_event), and API     *)
(* clients ask confirm_response to block or unblock an IP, which goes to    *)
(* HostFirewall and its audit file (src/backend/live_service.py,            *)
(* src/response/firewall.py, src/response/policy.py).                       *)
(*                                                                         *)
(* latest_ml is a plain dict shared by all of these threads; one action is *)
(* one access to the two entries a block depends on, in program order.     *)
(* The entries that are only displayed are left out.                       *)
(***************************************************************************)
EXTENDS Naturals, Sequences, FiniteSets

CONSTANTS
  IPs,         \* source IPs
  NoIP,        \* None
  Batches,     \* sequences of predictions [ip, level]; level 0 is benign
  Emitters,    \* threads that run _emit_scored_ml
  Clients,     \* threads that serve POST /api/live/response
  Threshold,   \* the policy's threshold, in percent
  MaxBatches,  \* bound: batches scored
  MaxAsks,     \* bound: requests
  MaxRestarts  \* bound: start() calls and crashes

ASSUME IPAssumption    == NoIP \notin IPs
ASSUME LevelAssumption == Threshold \in Nat \ {0}
ASSUME ClientAssumption == IsFiniteSet(Clients)

Predictions == [ip : IPs, level : Nat]
ASSUME BatchAssumption == Batches \subseteq Seq(Predictions)

VARIABLES
  latest,     \* latest_ml["score"] and latest_ml["source_ip"]
  emit,       \* each emitter's batch and position in it
  ask,        \* each client's request and position
  rules,      \* DROP rules the host firewall holds for an IP
  audited,    \* lines of the audit file
  batches, asks, restarts,
  predicted,  \* history: IPs some ml_prediction of this process named
  winners,    \* history: IPs that won a threat_score at or above the threshold
  crossed,    \* history: emitters that began a batch while another was at one,
              \* or were at one when the session began
  applied     \* history: firewall commands that succeeded

gate    == <<emit, batches, predicted, winners, crossed>>
request == <<ask, asks, rules, audited, applied>>
vars    == <<latest, gate, request, restarts>>

Actions == {"block", "unblock"}
Fresh   == [score |-> 0, source |-> NoIP]
Ready   == [pc |-> "idle", batch |-> <<>>, next |-> 1]
NoAsk   == [pc |-> "idle", action |-> "block", ip |-> NoIP, score |-> 0]
Tally   == [ip \in IPs |-> [action \in Actions |-> 0]]

(* calculate_threat_evidence (module ThreatScore): the first prediction    *)
(* that no other outscores; a batch without a malicious one has no source. *)
Strongest(batch) ==
  {i \in DOMAIN batch : batch[i].level > 0 /\ \A j \in DOMAIN batch : batch[j].level <= batch[i].level}
Evidence(batch) ==
  IF Strongest(batch) = {} THEN Fresh
  ELSE LET i == CHOOSE i \in Strongest(batch) : \A j \in Strongest(batch) : i <= j
       IN  [score |-> batch[i].level, source |-> batch[i].ip]

Init ==
  /\ latest = Fresh
  /\ emit = [e \in Emitters |-> Ready]
  /\ ask = [c \in Clients |-> NoAsk]
  /\ rules = [ip \in IPs |-> 0]
  /\ audited = Tally /\ applied = Tally
  /\ batches = 0 /\ asks = 0 /\ restarts = 0
  /\ predicted = {} /\ winners = {} /\ crossed = {}

-----------------------------------------------------------------------------
(* _emit_scored_ml and _on_event                                           *)

EmitAt(e, pc)     == emit[e].pc = pc
EmitGoes(e, next) == emit' = [emit EXCEPT ![e] = next]

EmitBatch(e) ==
  /\ EmitAt(e, "idle")
  /\ batches < MaxBatches
  /\ batches' = batches + 1
  /\ \E b \in Batches : EmitGoes(e, [pc |-> "predict", batch |-> b, next |-> 1])
  /\ crossed' = IF \E f \in Emitters \ {e} : ~EmitAt(f, "idle") THEN crossed \cup {e} ELSE crossed
  /\ UNCHANGED <<latest, request, restarts, predicted, winners>>

(* An ml_prediction event, benign or not, names its source. *)
EmitPrediction(e) ==
  /\ EmitAt(e, "predict")
  /\ emit[e].next <= Len(emit[e].batch)
  /\ LET ip == emit[e].batch[emit[e].next].ip
     IN  /\ latest' = [latest EXCEPT !.source = ip]
         /\ predicted' = predicted \cup {ip}
  /\ EmitGoes(e, [emit[e] EXCEPT !.next = @ + 1])
  /\ UNCHANGED <<request, restarts, batches, winners, crossed>>

(* The threat_score event of the batch writes the score ... *)
EmitScore(e) ==
  /\ EmitAt(e, "predict")
  /\ emit[e].next > Len(emit[e].batch)
  /\ LET evidence == Evidence(emit[e].batch)
     IN  /\ latest' = [latest EXCEPT !.score = evidence.score]
         /\ winners' = IF evidence.score >= Threshold THEN winners \cup {evidence.source}
                       ELSE winners
  /\ EmitGoes(e, [emit[e] EXCEPT !.pc = "target"])
  /\ UNCHANGED <<request, restarts, batches, predicted, crossed>>

(* Mutant of EmitTarget: the last prediction's source stays. *)
EmitTargetForgets(e) ==
  /\ EmitAt(e, "target")
  /\ EmitGoes(e, Ready)
  /\ UNCHANGED <<latest, request, restarts, batches, predicted, winners, crossed>>

(* ... and then the response target. *)
EmitTarget(e) ==
  /\ EmitAt(e, "target")
  /\ latest' = [latest EXCEPT !.source = Evidence(emit[e].batch).source]
  /\ EmitGoes(e, Ready)
  /\ UNCHANGED <<request, restarts, batches, predicted, winners, crossed>>

-----------------------------------------------------------------------------
(* confirm_response                                                        *)

AskAt(c, pc)     == ask[c].pc = pc
AskGoes(c, next) == ask' = [ask EXCEPT ![c] = next]
Answer(c)        == AskGoes(c, NoAsk)

(* Any client may confirm any action on any IP; unblock has no condition. *)
Ask(c) ==
  /\ AskAt(c, "idle")
  /\ asks < MaxAsks
  /\ asks' = asks + 1
  /\ \E action \in Actions, ip \in IPs :
       AskGoes(c, [pc |-> IF action = "block" THEN "score" ELSE "apply",
                   action |-> action, ip |-> ip, score |-> 0])
  /\ UNCHANGED <<latest, gate, restarts, rules, audited, applied>>

ReadScore(c) ==
  /\ AskAt(c, "score")
  /\ AskGoes(c, [ask[c] EXCEPT !.pc = "source", !.score = latest.score])
  /\ UNCHANGED <<latest, gate, restarts, asks, rules, audited, applied>>

(* Mutant of ReadSource: the score alone decides. *)
ReadSourceIgnored(c) ==
  /\ AskAt(c, "source")
  /\ IF ask[c].score >= Threshold THEN AskGoes(c, [ask[c] EXCEPT !.pc = "apply"]) ELSE Answer(c)
  /\ UNCHANGED <<latest, gate, restarts, asks, rules, audited, applied>>

(* The source is read after the score; both are then compared. *)
ReadSource(c) ==
  /\ AskAt(c, "source")
  /\ IF ask[c].score >= Threshold /\ ask[c].ip = latest.source
     THEN AskGoes(c, [ask[c] EXCEPT !.pc = "apply"])
     ELSE Answer(c)
  /\ UNCHANGED <<latest, gate, restarts, asks, rules, audited, applied>>

(* HostFirewall runs the command: a block inserts one more rule, an unblock *)
(* deletes one and fails when there is none (iptables -I and -D).          *)
Apply(c) ==
  /\ AskAt(c, "apply")
  /\ LET action == ask[c].action
         ip == ask[c].ip
     IN  /\ action = "unblock" => rules[ip] > 0
         /\ rules' = [rules EXCEPT ![ip] = IF action = "block" THEN @ + 1 ELSE @ - 1]
         /\ applied' = [applied EXCEPT ![ip][action] = @ + 1]
  /\ AskGoes(c, [ask[c] EXCEPT !.pc = "audit"])
  /\ UNCHANGED <<latest, gate, restarts, asks, audited>>

(* Mutant of ApplyFails: the error is not raised. *)
ApplyFailsUnseen(c) ==
  /\ AskAt(c, "apply")
  /\ AskGoes(c, [ask[c] EXCEPT !.pc = "audit"])
  /\ UNCHANGED <<latest, gate, restarts, asks, rules, audited, applied>>

(* The command fails: FirewallActionError, nothing applied. *)
ApplyFails(c) ==
  /\ AskAt(c, "apply")
  /\ Answer(c)
  /\ UNCHANGED <<latest, gate, restarts, asks, rules, audited, applied>>

Audit(c) ==
  /\ AskAt(c, "audit")
  /\ audited' = [audited EXCEPT ![ask[c].ip][ask[c].action] = @ + 1]
  /\ Answer(c)
  /\ UNCHANGED <<latest, gate, restarts, asks, rules, applied>>

(* The audit file cannot be written: OSError, the rule stays. *)
AuditFails(c) ==
  /\ AskAt(c, "audit")
  /\ Answer(c)
  /\ UNCHANGED <<latest, gate, restarts, asks, rules, audited, applied>>

-----------------------------------------------------------------------------
(* start() gives the service a new latest_ml. Requests may be under way, and *)
(* an emitter that stop() gave up on after its time limit may be too.       *)
Restart ==
  /\ restarts < MaxRestarts
  /\ restarts' = restarts + 1
  /\ latest' = Fresh
  /\ crossed' = {e \in Emitters : ~EmitAt(e, "idle")}
  /\ UNCHANGED <<emit, batches, predicted, winners, request>>

(* The backend process dies and comes back; firewall and audit file remain. *)
Crash ==
  /\ restarts < MaxRestarts
  /\ restarts' = restarts + 1
  /\ latest' = Fresh
  /\ emit' = [e \in Emitters |-> Ready]
  /\ ask' = [c \in Clients |-> NoAsk]
  /\ predicted' = {} /\ winners' = {} /\ crossed' = {}
  /\ UNCHANGED <<batches, asks, rules, audited, applied>>

EmitStep(e) == EmitBatch(e) \/ EmitPrediction(e) \/ EmitScore(e) \/ EmitTarget(e)
AskStep(c)  == \/ Ask(c) \/ ReadScore(c) \/ ReadSource(c)
               \/ Apply(c) \/ ApplyFails(c) \/ Audit(c) \/ AuditFails(c)

Next ==
  \/ \E e \in Emitters : EmitStep(e)
  \/ \E c \in Clients : AskStep(c)
  \/ Restart \/ Crash

Spec == Init /\ [][Next]_vars

-----------------------------------------------------------------------------
(* Invariants                                                              *)

EmitLocals == [pc : {"idle", "predict", "target"}, batch : Batches \cup {<<>>},
               next : Nat \ {0}]
AskLocals  == [pc : {"idle", "score", "source", "apply", "audit"}, action : Actions,
               ip : IPs \cup {NoIP}, score : Nat]

(* The shared dict, the threads' locals and the firewall keep their shapes. *)
TypeOK ==
  /\ latest \in [score : Nat, source : IPs \cup {NoIP}]
  /\ emit \in [Emitters -> EmitLocals]
  /\ \A e \in Emitters : emit[e].pc # "idle" => emit[e].batch \in Batches
  /\ ask \in [Clients -> AskLocals]
  /\ \A c \in Clients : ask[c].pc # "idle" => ask[c].ip \in IPs
  /\ rules \in [IPs -> Nat]
  /\ audited \in [IPs -> [Actions -> Nat]] /\ applied \in [IPs -> [Actions -> Nat]]
  /\ batches \in Nat /\ asks \in Nat /\ restarts \in Nat
  /\ predicted \subseteq IPs /\ winners \subseteq IPs /\ crossed \subseteq Emitters

(* Between batches the displayed pair is the evidence of one batch: a score *)
(* that allows a response stands beside an IP that won such a score         *)
(* (live_service.py:93-94), as long as no two threads emitted at once since  *)
(* the session began, and none was in the middle of a batch then.            *)
PairedWhenQuiet ==
  crossed = {} /\ (\A e \in Emitters : EmitAt(e, "idle")) =>
    (latest.score >= Threshold => latest.source \in winners)

(* The audit file never reports an action the firewall did not take, over  *)
(* failing commands, failing writes and crashes (firewall.py:86-96).       *)
AuditNeverOverstates ==
  \A ip \in IPs, action \in Actions : audited[ip][action] <= applied[ip][action]

-----------------------------------------------------------------------------
(* Action properties                                                       *)

(* The response threshold and target are never bypassed (README.md:251): a  *)
(* rule is added only for an IP the models judged, and only in a process    *)
(* where some batch reached the threshold.                                  *)
BlocksJudgedSource ==
  \A ip \in IPs : rules'[ip] > rules[ip] => ip \in predicted /\ winners # {}
BlocksOnlyJudged == [][BlocksJudgedSource]_vars

(* "The score and response target must come from the same winning          *)
(* prediction" (live_service.py:93-94): a rule is added only for an IP that *)
(* itself won a score at or above the threshold.                            *)
BlocksOnlyWinners == [][\A ip \in IPs : rules'[ip] > rules[ip] => ip \in winners]_vars
=============================================================================
