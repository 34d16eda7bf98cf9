-------------------------- MODULE DeploymentProofs --------------------------
(***************************************************************************)
(* The sensor's promises between calls that take turns, proved for every    *)
(* set of callers and any number of calls, crashes and Ctrl+C:              *)
(* SensorInv says what holds at each position of a call, and that it is     *)
(* inductive is proved action by action.                                   *)
(***************************************************************************)
EXTENDS Deployment, FiniteSetTheorems, TLAPS

StartZone == {"verify", "watch", "launch", "settle", "reset", "attach", "sniff", "thread", "spin", "undo"}
StopZone  == {"detach", "check", "join", "joining"}
ZeekZone  == {"zstop", "zwait", "zclear"}
Positions == {"idle", "clear"} \cup StartZone \cup StopZone \cup ZeekZone

CallTypes == call \in [Callers -> [pc : Positions, next : {"idle", "launch", "stopped"}, target : Nat]]
ZeekTypes ==
  /\ zeek \in [process : Nat, live : SUBSET Nat]
  /\ zeek.process <= made /\ \A z \in zeek.live : 0 < z /\ z <= made
SvcTypes ==
  /\ svc \in [worker : Nat, workers : SUBSET Nat, capture : Nat, captures : SUBSET Nat,
              stopEvent : BOOLEAN]
  /\ svc.worker <= made /\ \A w \in svc.workers : 0 < w /\ w <= made
  /\ svc.capture <= made /\ \A p \in svc.captures : 0 < p /\ p <= made
PastTypes ==
  /\ past \in [outlived : SUBSET Nat, late : SUBSET Nat, failed : SUBSET {"worker", "rollback", "kill"},
               stopped : BOOLEAN]
  /\ \A w \in past.outlived \cup past.late : 0 < w /\ w <= made

Types ==
  /\ turns \in BOOLEAN /\ made \in Nat /\ budget \in [starts : Nat, stops : Nat]
  /\ CallTypes /\ ZeekTypes /\ SvcTypes /\ PastTypes

Lost == "worker" \in past.failed
CapturesStopped == Lost \/ svc.captures \subseteq past.late
WorkersStopped  == svc.workers \subseteq past.outlived

OneCall == \A c, d \in Callers : At(c, "idle") \/ At(d, "idle") \/ c = d

(* What holds whoever calls, *)
OfService ==
  /\ zeek.live \subseteq {zeek.process}
  /\ svc.workers \subseteq past.outlived \cup {svc.worker}
  /\ Lost \/ svc.captures \subseteq past.late \cup {svc.capture}
  /\ past.stopped => zeek.live = {} /\ WorkersStopped /\ CapturesStopped

(* at the position of a call, *)
OfCall(c) ==
  /\ At(c, "zwait") => call[c].target = zeek.process
  /\ At(c, "zclear") => zeek.live = {}
  /\ At(c, "joining") => call[c].target = svc.worker
  /\ call[c].pc \in {"clear"} \cup StartZone \cup ZeekZone => WorkersStopped
  /\ call[c].pc \in StartZone \cup ZeekZone => ~WorkerAlive
  /\ call[c].pc \in {"attach", "sniff", "thread", "spin"} => ~svc.stopEvent
  /\ ~At(c, "idle") => ~past.stopped
  /\ call[c].pc \notin {"idle", "thread", "spin", "undo", "detach"} => CapturesStopped

(* and between calls. *)
AtRest ==
  /\ CapturesStopped \/ WorkerAlive
  /\ WorkerAlive => ~svc.stopEvent

InTurns ==
  /\ OneCall /\ OfService
  /\ \A c \in Callers : OfCall(c)
  /\ Quiet => AtRest

SensorInv == Types /\ (turns => InTurns)

LEMMA SensorStarts == SensorInit => SensorInv
<1> SUFFICES ASSUME SensorInit PROVE SensorInv
  OBVIOUS
<1> USE DEF SensorInit, Idle
<1>1. Types
  BY CallsAssumption DEF Types, CallTypes, ZeekTypes, SvcTypes, PastTypes, Positions
<1>2. \A c \in Callers : At(c, "idle")
  BY DEF At
<1>3. OneCall /\ OfService /\ AtRest
  BY <1>2 DEF OneCall, OfService, AtRest, WorkerAlive, CapturesStopped, WorkersStopped
<1>4. \A c \in Callers : OfCall(c)
  BY <1>2 DEF OfCall, At, StartZone, ZeekZone
<1>5. QED
  BY <1>1, <1>3, <1>4 DEF SensorInv, InTurns
-----------------------------------------------------------------------------
(* When calls take turns, a step of one is seen by no other. *)

Moves(c) ==
  /\ \A d \in Callers \ {c} : call'[d] = call[d]
  /\ At(c, "idle") => \A d \in Callers : At(d, "idle")

LEMMA MoveKeeps ==
  ASSUME SensorInv, NEW c \in Callers, turns => Moves(c), UNCHANGED turns, Types',
         turns => OfService' /\ OfCall(c)' /\ (At(c, "idle")' => AtRest')
  PROVE  SensorInv'
<1> SUFFICES ASSUME turns PROVE InTurns'
  BY DEF SensorInv
<1>1. \A d \in Callers \ {c} : At(d, "idle")
  BY DEF SensorInv, InTurns, OneCall, Moves
<1>2. \A d \in Callers \ {c} : call'[d].pc = "idle"
  BY <1>1 DEF Moves, At
<1>3. OneCall'
  BY <1>2 DEF OneCall, At
<1>4. \A d \in Callers : OfCall(d)'
  <2>1. \A d \in Callers \ {c} : OfCall(d)'
    BY <1>2 DEF OfCall, At, StartZone, ZeekZone
  <2>2. QED
    BY <2>1
<1>5. Quiet' => AtRest'
  BY DEF Quiet
<1>6. QED
  BY <1>3, <1>4, <1>5 DEF InTurns

LEMMA QuitsTyped ==
  ASSUME CallTypes, NEW c \in Callers, NEW next \in {"idle", "launch", "stopped"}, Quits(c, next)
  PROVE  CallTypes'
<1>1. call'[c] \in [pc : Positions, next : {"idle", "launch", "stopped"}, target : Nat]
  BY DEF CallTypes, Quits, Positions, ZeekZone
<1>2. QED
  BY <1>1 DEF CallTypes, Quits

LEMMA CaptureStops ==
  ASSUME Types, StopCapture, made' = made
  PROVE  /\ SvcTypes' /\ PastTypes'
         /\ svc'.capture = 0 /\ svc'.captures \subseteq svc.captures /\ past.late \subseteq past'.late
         /\ svc.capture \in svc'.captures => svc.capture \in past'.late
         /\ svc'.worker = svc.worker /\ svc'.workers = svc.workers /\ svc'.stopEvent = svc.stopEvent
         /\ past'.outlived = past.outlived /\ past'.failed = past.failed /\ past'.stopped = past.stopped
<1> USE DEF Types, SvcTypes, PastTypes
<1>1. PICK left \in {{}, {svc.capture} \cap svc.captures} :
        /\ svc' = [svc EXCEPT !.capture = 0, !.captures = (@ \ {svc.capture}) \cup left]
        /\ past' = [past EXCEPT !.late = @ \cup left]
  BY DEF StopCapture
<1>2. left \subseteq svc.captures /\ left \subseteq {svc.capture}
  BY <1>1
<1>3. svc'.captures = (svc.captures \ {svc.capture}) \cup left /\ past'.late = past.late \cup left
  BY <1>1
<1>4. /\ svc' \in [worker : Nat, workers : SUBSET Nat, capture : Nat, captures : SUBSET Nat, stopEvent : BOOLEAN]
      /\ svc'.capture = 0 /\ svc'.worker = svc.worker /\ svc'.workers = svc.workers
      /\ svc'.stopEvent = svc.stopEvent
  BY <1>1, <1>2
<1>5. /\ past' \in [outlived : SUBSET Nat, late : SUBSET Nat, failed : SUBSET {"worker", "rollback", "kill"},
                    stopped : BOOLEAN]
      /\ past'.outlived = past.outlived /\ past'.failed = past.failed /\ past'.stopped = past.stopped
  BY <1>1, <1>2
<1>6. SvcTypes' /\ PastTypes'
  BY <1>2, <1>3, <1>4, <1>5
<1>7. QED
  BY <1>2, <1>3, <1>4, <1>5, <1>6

LEMMA StartCallKeeps == ASSUME SensorInv, NEW c \in Callers, StartCall(c) PROVE SensorInv'
<1> USE DEF StartCall, Turn, Valid, Goes, Ends, At, Idle
<1>1. Types'
  <2>1. turns' \in BOOLEAN /\ made' \in Nat /\ made' >= made /\ budget' \in [starts : Nat, stops : Nat]
    BY DEF SensorInv, Types
  <2>2. CallTypes'
    BY DEF SensorInv, Types, CallTypes, ZeekTypes, SvcTypes, Positions, StartZone, StopZone, ZeekZone
  <2>3. ZeekTypes'
    BY <2>1 DEF SensorInv, Types, CallTypes, ZeekTypes
  <2>4. SvcTypes'
    BY <2>1 DEF SensorInv, Types, SvcTypes
  <2>5. PastTypes'
    BY <2>1 DEF SensorInv, Types, CallTypes, SvcTypes, PastTypes
  <2>6. QED
    BY <2>1, <2>2, <2>3, <2>4, <2>5 DEF Types
<1>2. UNCHANGED turns /\ (turns => Moves(c))
  BY <1>1 DEF SensorInv, Types, CallTypes, Moves
<1>3. ASSUME turns PROVE OfService' /\ OfCall(c)' /\ (At(c, "idle")' => AtRest')
  <2>1. CASE call' = [call EXCEPT ![c] = Idle] /\ UNCHANGED past
    BY <1>1, <1>3, <2>1 DEF SensorInv, Types, CallTypes, ZeekTypes, SvcTypes, PastTypes, InTurns, OfService, OfCall, AtRest, CapturesStopped, WorkersStopped,
     Lost, WorkerAlive, StartZone, ZeekZone, Quiet
  <2>2. CASE Goes(c, "verify") /\ ~WorkerAlive /\ past' = [past EXCEPT !.stopped = FALSE]
    BY <1>1, <1>3, <2>2 DEF SensorInv, Types, CallTypes, ZeekTypes, SvcTypes, PastTypes, InTurns, OfService, OfCall, AtRest, CapturesStopped, WorkersStopped,
     Lost, WorkerAlive, StartZone, ZeekZone, Quiet
  <2>3. QED
    BY <2>1, <2>2
<1>4. QED
  BY <1>1, <1>2, <1>3, MoveKeeps

LEMMA VerifyKeeps == ASSUME SensorInv, NEW c \in Callers, Verify(c) PROVE SensorInv'
<1> USE DEF Verify, Spawn, Goes, Quits, ZeekRuns, Valid, At, Idle
<1>1. Types'
  <2>1. turns' \in BOOLEAN /\ made' \in Nat /\ made' >= made /\ budget' \in [starts : Nat, stops : Nat]
    BY DEF SensorInv, Types
  <2>2. CallTypes'
    BY DEF SensorInv, Types, CallTypes, ZeekTypes, SvcTypes, Positions, StartZone, StopZone, ZeekZone
  <2>3. ZeekTypes'
    BY <2>1 DEF SensorInv, Types, CallTypes, ZeekTypes
  <2>4. SvcTypes'
    BY <2>1 DEF SensorInv, Types, SvcTypes
  <2>5. PastTypes'
    BY <2>1 DEF SensorInv, Types, CallTypes, SvcTypes, PastTypes
  <2>6. QED
    BY <2>1, <2>2, <2>3, <2>4, <2>5 DEF Types
<1>2. UNCHANGED turns /\ (turns => Moves(c))
  BY <1>1 DEF SensorInv, Types, CallTypes, Moves
<1>3. ASSUME turns PROVE OfService' /\ OfCall(c)' /\ (At(c, "idle")' => AtRest')
  BY <1>1, <1>3 DEF SensorInv, Types, CallTypes, ZeekTypes, SvcTypes, PastTypes, InTurns, OfService, OfCall, AtRest, CapturesStopped, WorkersStopped,
     Lost, WorkerAlive, StartZone, ZeekZone, Quiet
<1>4. QED
  BY <1>1, <1>2, <1>3, MoveKeeps

LEMMA WatchKeeps == ASSUME SensorInv, NEW c \in Callers, Watch(c) PROVE SensorInv'
<1> USE DEF Watch, ZeekRuns, At, Idle
<1>1. Types'
  <2>1. turns' \in BOOLEAN /\ made' \in Nat /\ made' >= made /\ budget' \in [starts : Nat, stops : Nat]
    BY DEF SensorInv, Types
  <2>2. CallTypes'
    BY QuitsTyped DEF SensorInv, Types
  <2>3. ZeekTypes'
    BY <2>1 DEF SensorInv, Types, CallTypes, ZeekTypes
  <2>4. SvcTypes'
    BY <2>1 DEF SensorInv, Types, SvcTypes
  <2>5. PastTypes'
    BY <2>1 DEF SensorInv, Types, CallTypes, SvcTypes, PastTypes
  <2>6. QED
    BY <2>1, <2>2, <2>3, <2>4, <2>5 DEF Types
<1>2. UNCHANGED turns /\ (turns => Moves(c))
  BY <1>1 DEF SensorInv, Types, CallTypes, Moves, Quits
<1>3. ASSUME turns PROVE OfService' /\ OfCall(c)' /\ (At(c, "idle")' => AtRest')
  BY <1>1, <1>3 DEF SensorInv, Types, CallTypes, ZeekTypes, SvcTypes, PastTypes, InTurns, OfService, OfCall, AtRest, CapturesStopped, WorkersStopped,
     Lost, Quits, WorkerAlive, StartZone, ZeekZone, Quiet
<1>4. QED
  BY <1>1, <1>2, <1>3, MoveKeeps

LEMMA LaunchKeeps == ASSUME SensorInv, NEW c \in Callers, Launch(c) PROVE SensorInv'
<1> USE DEF Launch, Spawn, Goes, Ends, ZeekRuns, At, Idle
<1>1. Types'
  <2>1. turns' \in BOOLEAN /\ made' \in Nat /\ made' >= made /\ budget' \in [starts : Nat, stops : Nat]
    BY DEF SensorInv, Types
  <2>2. CallTypes'
    BY DEF SensorInv, Types, CallTypes, ZeekTypes, SvcTypes, Positions, StartZone, StopZone, ZeekZone
  <2>3. ZeekTypes'
    BY <2>1 DEF SensorInv, Types, CallTypes, ZeekTypes
  <2>4. SvcTypes'
    BY <2>1 DEF SensorInv, Types, SvcTypes
  <2>5. PastTypes'
    BY <2>1 DEF SensorInv, Types, CallTypes, SvcTypes, PastTypes
  <2>6. QED
    BY <2>1, <2>2, <2>3, <2>4, <2>5 DEF Types
<1>2. UNCHANGED turns /\ (turns => Moves(c))
  BY <1>1 DEF SensorInv, Types, CallTypes, Moves
<1>3. ASSUME turns PROVE OfService' /\ OfCall(c)' /\ (At(c, "idle")' => AtRest')
  BY <1>1, <1>3 DEF SensorInv, Types, CallTypes, ZeekTypes, SvcTypes, PastTypes, InTurns, OfService, OfCall, AtRest, CapturesStopped, WorkersStopped,
     Lost, WorkerAlive, StartZone, ZeekZone, Quiet
<1>4. QED
  BY <1>1, <1>2, <1>3, MoveKeeps

LEMMA SettleKeeps == ASSUME SensorInv, NEW c \in Callers, Settle(c) PROVE SensorInv'
<1> USE DEF Settle, Goes, Ends, ZeekRuns, At, Idle
<1>1. Types'
  <2>1. turns' \in BOOLEAN /\ made' \in Nat /\ made' >= made /\ budget' \in [starts : Nat, stops : Nat]
    BY DEF SensorInv, Types
  <2>2. CallTypes'
    BY DEF SensorInv, Types, CallTypes, ZeekTypes, SvcTypes, Positions, StartZone, StopZone, ZeekZone
  <2>3. ZeekTypes'
    BY <2>1 DEF SensorInv, Types, CallTypes, ZeekTypes
  <2>4. SvcTypes'
    BY <2>1 DEF SensorInv, Types, SvcTypes
  <2>5. PastTypes'
    BY <2>1 DEF SensorInv, Types, CallTypes, SvcTypes, PastTypes
  <2>6. QED
    BY <2>1, <2>2, <2>3, <2>4, <2>5 DEF Types
<1>2. UNCHANGED turns /\ (turns => Moves(c))
  BY <1>1 DEF SensorInv, Types, CallTypes, Moves
<1>3. ASSUME turns PROVE OfService' /\ OfCall(c)' /\ (At(c, "idle")' => AtRest')
  BY <1>1, <1>3 DEF SensorInv, Types, CallTypes, ZeekTypes, SvcTypes, PastTypes, InTurns, OfService, OfCall, AtRest, CapturesStopped, WorkersStopped,
     Lost, WorkerAlive, StartZone, ZeekZone, Quiet
<1>4. QED
  BY <1>1, <1>2, <1>3, MoveKeeps

LEMMA ResetSessionKeeps == ASSUME SensorInv, NEW c \in Callers, ResetSession(c) PROVE SensorInv'
<1> USE DEF ResetSession, Goes, At, Idle
<1>1. Types'
  <2>1. turns' \in BOOLEAN /\ made' \in Nat /\ made' >= made /\ budget' \in [starts : Nat, stops : Nat]
    BY DEF SensorInv, Types
  <2>2. CallTypes'
    BY DEF SensorInv, Types, CallTypes, ZeekTypes, SvcTypes, Positions, StartZone, StopZone, ZeekZone
  <2>3. ZeekTypes'
    BY <2>1 DEF SensorInv, Types, CallTypes, ZeekTypes
  <2>4. SvcTypes'
    BY <2>1 DEF SensorInv, Types, SvcTypes
  <2>5. PastTypes'
    BY <2>1 DEF SensorInv, Types, CallTypes, SvcTypes, PastTypes
  <2>6. QED
    BY <2>1, <2>2, <2>3, <2>4, <2>5 DEF Types
<1>2. UNCHANGED turns /\ (turns => Moves(c))
  BY <1>1 DEF SensorInv, Types, CallTypes, Moves
<1>3. ASSUME turns PROVE OfService' /\ OfCall(c)' /\ (At(c, "idle")' => AtRest')
  BY <1>1, <1>3 DEF SensorInv, Types, CallTypes, ZeekTypes, SvcTypes, PastTypes, InTurns, OfService, OfCall, AtRest, CapturesStopped, WorkersStopped,
     Lost, WorkerAlive, StartZone, ZeekZone, Quiet
<1>4. QED
  BY <1>1, <1>2, <1>3, MoveKeeps

LEMMA AttachKeeps == ASSUME SensorInv, NEW c \in Callers, Attach(c) PROVE SensorInv'
<1> USE DEF Attach, Goes, At, Idle
<1>1. Types'
  <2>1. turns' \in BOOLEAN /\ made' \in Nat /\ made' >= made /\ budget' \in [starts : Nat, stops : Nat]
    BY DEF SensorInv, Types
  <2>2. CallTypes'
    BY DEF SensorInv, Types, CallTypes, ZeekTypes, SvcTypes, Positions, StartZone, StopZone, ZeekZone
  <2>3. ZeekTypes'
    BY <2>1 DEF SensorInv, Types, CallTypes, ZeekTypes
  <2>4. SvcTypes'
    BY <2>1 DEF SensorInv, Types, SvcTypes
  <2>5. PastTypes'
    BY <2>1 DEF SensorInv, Types, CallTypes, SvcTypes, PastTypes
  <2>6. QED
    BY <2>1, <2>2, <2>3, <2>4, <2>5 DEF Types
<1>2. UNCHANGED turns /\ (turns => Moves(c))
  BY <1>1 DEF SensorInv, Types, CallTypes, Moves
<1>3. ASSUME turns PROVE OfService' /\ OfCall(c)' /\ (At(c, "idle")' => AtRest')
  BY <1>1, <1>3 DEF SensorInv, Types, CallTypes, ZeekTypes, SvcTypes, PastTypes, InTurns, OfService, OfCall, AtRest, CapturesStopped, WorkersStopped,
     Lost, WorkerAlive, StartZone, ZeekZone, Quiet
<1>4. QED
  BY <1>1, <1>2, <1>3, MoveKeeps

(* The three ends of packet_capture.start. *)
LEMMA SniffCases ==
  ASSUME Types, NEW c \in Callers, Sniff(c)
  PROVE  /\ UNCHANGED <<turns, zeek, made, budget>>
         /\ svc'.worker = svc.worker /\ svc'.workers = svc.workers /\ svc'.stopEvent = svc.stopEvent
         /\ past'.outlived = past.outlived /\ past'.failed = past.failed /\ past'.stopped = past.stopped
         /\ \/ /\ svc.capture # 0 /\ Goes(c, "thread") /\ past'.late = past.late
               /\ svc'.capture = svc.capture /\ svc'.captures = svc.captures \cup {svc.capture}
            \/ /\ Quits(c, "idle") /\ past'.late = past.late
               /\ svc'.capture = 0 /\ svc'.captures = svc.captures
            \/ /\ svc.capture # 0 /\ Quits(c, "idle") /\ past'.late = past.late \cup {svc.capture}
               /\ svc'.capture = 0 /\ svc'.captures = svc.captures \cup {svc.capture}
  BY DEF Sniff, Types, SvcTypes, PastTypes

LEMMA SniffKeeps == ASSUME SensorInv, NEW c \in Callers, Sniff(c) PROVE SensorInv'
<1>1. Types'
  <2>1. turns' \in BOOLEAN /\ made' = made /\ zeek' = zeek /\ budget' \in [starts : Nat, stops : Nat]
    BY DEF Sniff, SensorInv, Types
  <2>2. CallTypes'
    BY DEF Sniff, Goes, Quits, SensorInv, Types, CallTypes, Positions, StartZone, StopZone, ZeekZone
  <2>3. ZeekTypes'
    BY <2>1 DEF SensorInv, Types, ZeekTypes
  <2>4. SvcTypes'
    <3>1. svc' \in [worker : Nat, workers : SUBSET Nat, capture : Nat, captures : SUBSET Nat, stopEvent : BOOLEAN]
      <4>1. svc \in [worker : Nat, workers : SUBSET Nat, capture : Nat, captures : SUBSET Nat, stopEvent : BOOLEAN]
        BY DEF SensorInv, Types, SvcTypes
      <4>2. \/ svc' = [svc EXCEPT !.captures = @ \cup {svc.capture}]
            \/ svc' = [svc EXCEPT !.capture = 0]
            \/ svc' = [svc EXCEPT !.capture = 0, !.captures = @ \cup {svc.capture}]
        BY DEF Sniff
      <4>3. svc.captures \cup {svc.capture} \in SUBSET Nat
        BY <4>1
      <4>4. CASE svc' = [svc EXCEPT !.captures = @ \cup {svc.capture}]
        BY <4>1, <4>3, <4>4
      <4>5. CASE svc' = [svc EXCEPT !.capture = 0]
        BY <4>1, <4>5
      <4>6. CASE svc' = [svc EXCEPT !.capture = 0, !.captures = @ \cup {svc.capture}]
        BY <4>1, <4>3, <4>6
      <4>7. QED
        BY <4>2, <4>4, <4>5, <4>6
    <3>2. svc'.worker <= made /\ (\A w \in svc'.workers : 0 < w /\ w <= made) /\ svc'.capture <= made
      BY SniffCases DEF SensorInv, Types, SvcTypes
    <3>3. \A p \in svc'.captures : 0 < p /\ p <= made
      BY SniffCases DEF SensorInv, Types, SvcTypes
    <3>4. QED
      BY <2>1, <3>1, <3>2, <3>3 DEF SvcTypes
  <2>5. PastTypes'
    <3>1. past' \in [outlived : SUBSET Nat, late : SUBSET Nat, failed : SUBSET {"worker", "rollback", "kill"},
                     stopped : BOOLEAN]
      BY DEF Sniff, SensorInv, Types, SvcTypes, PastTypes
    <3>2. \A w \in past'.outlived \cup past'.late : 0 < w /\ w <= made
      BY SniffCases DEF SensorInv, Types, SvcTypes, PastTypes
    <3>3. QED
      BY <2>1, <3>1, <3>2 DEF PastTypes
  <2>6. QED
    BY <2>1, <2>2, <2>3, <2>4, <2>5 DEF SensorInv, Types
<1>2. UNCHANGED turns /\ (turns => Moves(c))
  BY DEF Sniff, Goes, Quits, SensorInv, Types, CallTypes, Moves, At
<1>3. ASSUME turns PROVE OfService' /\ OfCall(c)' /\ (At(c, "idle")' => AtRest')
  <2> USE DEF SensorInv, Types, InTurns
  <2>1. /\ At(c, "sniff") /\ ~past.stopped /\ CapturesStopped /\ WorkersStopped /\ ~WorkerAlive
        /\ ~svc.stopEvent /\ call'[c].pc \in {"thread", "zstop"}
    BY <1>3 DEF Sniff, Goes, Quits, At, CallTypes, OfCall, StartZone
  <2>2. WorkersStopped' /\ ~WorkerAlive' /\ ~svc'.stopEvent /\ ~past'.stopped /\ Lost' = Lost
    BY <2>1, SniffCases DEF WorkersStopped, WorkerAlive, Lost
  <2>3. call'[c].pc = "zstop" => CapturesStopped'
    BY <2>1, <2>2, SniffCases DEF CapturesStopped, Goes, CallTypes
  <2>4. OfService'
    BY <1>3, <2>1, <2>2, SniffCases DEF OfService, CapturesStopped, Lost
  <2>5. OfCall(c)'
    BY <2>1, <2>2, <2>3 DEF OfCall, At, StartZone, ZeekZone
  <2>6. QED
    BY <2>1, <2>4, <2>5 DEF At
<1>4. QED
  BY <1>1, <1>2, <1>3, MoveKeeps

LEMMA MakeThreadKeeps == ASSUME SensorInv, NEW c \in Callers, MakeThread(c) PROVE SensorInv'
<1> USE DEF MakeThread, Goes, At, Idle
<1>1. Types'
  <2>1. turns' \in BOOLEAN /\ made' \in Nat /\ made' >= made /\ budget' \in [starts : Nat, stops : Nat]
    BY DEF SensorInv, Types
  <2>2. CallTypes'
    BY DEF SensorInv, Types, CallTypes, ZeekTypes, SvcTypes, Positions, StartZone, StopZone, ZeekZone
  <2>3. ZeekTypes'
    BY <2>1 DEF SensorInv, Types, CallTypes, ZeekTypes
  <2>4. SvcTypes'
    BY <2>1 DEF SensorInv, Types, SvcTypes
  <2>5. PastTypes'
    BY <2>1 DEF SensorInv, Types, CallTypes, SvcTypes, PastTypes
  <2>6. QED
    BY <2>1, <2>2, <2>3, <2>4, <2>5 DEF Types
<1>2. UNCHANGED turns /\ (turns => Moves(c))
  BY <1>1 DEF SensorInv, Types, CallTypes, Moves
<1>3. ASSUME turns PROVE OfService' /\ OfCall(c)' /\ (At(c, "idle")' => AtRest')
  BY <1>1, <1>3 DEF SensorInv, Types, CallTypes, ZeekTypes, SvcTypes, PastTypes, InTurns, OfService, OfCall, AtRest, CapturesStopped, WorkersStopped,
     Lost, WorkerAlive, StartZone, ZeekZone, Quiet
<1>4. QED
  BY <1>1, <1>2, <1>3, MoveKeeps

LEMMA SpinKeeps == ASSUME SensorInv, NEW c \in Callers, Spin(c) PROVE SensorInv'
<1> USE DEF Spin, Goes, Ends, At, Idle
<1>1. Types'
  <2>1. turns' \in BOOLEAN /\ made' \in Nat /\ made' >= made /\ budget' \in [starts : Nat, stops : Nat]
    BY DEF SensorInv, Types
  <2>2. CallTypes'
    BY DEF SensorInv, Types, CallTypes, ZeekTypes, SvcTypes, Positions, StartZone, StopZone, ZeekZone
  <2>3. ZeekTypes'
    BY <2>1 DEF SensorInv, Types, CallTypes, ZeekTypes
  <2>4. SvcTypes'
    BY <2>1 DEF SensorInv, Types, SvcTypes
  <2>5. PastTypes'
    BY <2>1 DEF SensorInv, Types, CallTypes, SvcTypes, PastTypes
  <2>6. QED
    BY <2>1, <2>2, <2>3, <2>4, <2>5 DEF Types
<1>2. UNCHANGED turns /\ (turns => Moves(c))
  BY <1>1 DEF SensorInv, Types, CallTypes, Moves
<1>3. ASSUME turns PROVE OfService' /\ OfCall(c)' /\ (At(c, "idle")' => AtRest')
  <2>1. CASE svc.worker # 0 /\ Ends(c) /\ svc' = [svc EXCEPT !.workers = @ \cup {svc.worker}]
    BY <1>1, <1>3, <2>1 DEF SensorInv, Types, CallTypes, ZeekTypes, SvcTypes, PastTypes, InTurns, OfService, OfCall, AtRest, CapturesStopped, WorkersStopped,
     Lost, WorkerAlive, StartZone, ZeekZone, Quiet
  <2>2. CASE Goes(c, "undo") /\ svc' = [svc EXCEPT !.worker = 0]
    BY <1>1, <1>3, <2>2 DEF SensorInv, Types, CallTypes, ZeekTypes, SvcTypes, PastTypes, InTurns, OfService, OfCall, AtRest, CapturesStopped, WorkersStopped,
     Lost, WorkerAlive, StartZone, ZeekZone, Quiet
  <2>3. QED
    BY <2>1, <2>2
<1>4. QED
  BY <1>1, <1>2, <1>3, MoveKeeps

LEMMA UndoKeeps == ASSUME SensorInv, NEW c \in Callers, Undo(c) PROVE SensorInv'
<1> USE DEF Undo, At, Idle
<1>1. CASE Quits(c, "idle") /\ StopCapture /\ UNCHANGED <<turns, zeek, made, budget>>
  <2>1. Types'
    BY <1>1, QuitsTyped, CaptureStops DEF SensorInv, Types, ZeekTypes
  <2>2. turns => Moves(c)
    BY <1>1 DEF SensorInv, Types, CallTypes, Moves, Quits
  <2>3. ASSUME turns PROVE OfService' /\ OfCall(c)' /\ (At(c, "idle")' => AtRest')
    BY <1>1, <2>1, <2>3, CaptureStops DEF Quits, SensorInv, Types, CallTypes, ZeekTypes, SvcTypes, PastTypes, InTurns, OfService, OfCall, AtRest, CapturesStopped, WorkersStopped,
     Lost, WorkerAlive, StartZone, ZeekZone, Quiet
  <2>4. QED
    BY <1>1, <2>1, <2>2, <2>3, MoveKeeps
<1>2. CASE /\ svc.capture # 0 /\ Ends(c) /\ svc' = [svc EXCEPT !.capture = 0]
           /\ past' = [past EXCEPT !.failed = @ \cup {"rollback"}, !.late = @ \cup {svc.capture}]
           /\ UNCHANGED <<turns, zeek, made, budget>>
  <2>1. /\ past'.failed = past.failed \cup {"rollback"} /\ past'.late = past.late \cup {svc.capture}
        /\ past'.outlived = past.outlived /\ past'.stopped = past.stopped
        /\ svc'.captures = svc.captures /\ svc'.capture = 0 /\ svc'.worker = svc.worker
        /\ svc'.workers = svc.workers /\ svc'.stopEvent = svc.stopEvent
    BY <1>2 DEF SensorInv, Types, SvcTypes, PastTypes
  <2>2. CallTypes' /\ SvcTypes'
    BY <1>2 DEF SensorInv, Types, CallTypes, SvcTypes, Ends, Positions
  <2>3. PastTypes'
    <3>1. past' \in [outlived : SUBSET Nat, late : SUBSET Nat, failed : SUBSET {"worker", "rollback", "kill"},
                     stopped : BOOLEAN]
      BY <1>2 DEF SensorInv, Types, SvcTypes, PastTypes
    <3>2. QED
      BY <1>2, <2>1, <3>1 DEF SensorInv, Types, SvcTypes, PastTypes
  <2>4. Types'
    BY <1>2, <2>2, <2>3 DEF SensorInv, Types, ZeekTypes
  <2>5. turns => Moves(c)
    BY <1>2 DEF SensorInv, Types, CallTypes, Moves, Ends
  <2>6. ASSUME turns PROVE OfService' /\ OfCall(c)' /\ (At(c, "idle")' => AtRest')
    BY <1>2, <2>1, <2>4, <2>6 DEF Ends, SensorInv, Types, CallTypes, ZeekTypes, SvcTypes, PastTypes, InTurns, OfService, OfCall, AtRest, CapturesStopped, WorkersStopped,
     Lost, WorkerAlive, StartZone, ZeekZone, Quiet
  <2>7. QED
    BY <1>2, <2>4, <2>5, <2>6, MoveKeeps
<1>3. QED
  BY <1>1, <1>2

LEMMA StopCallKeeps == ASSUME SensorInv, NEW c \in Callers, StopCall(c), budget' \in [starts : Nat, stops : Nat] PROVE SensorInv'
<1> USE DEF StopCall, Turn, Goes, At, Idle
<1>1. Types'
  <2>1. turns' \in BOOLEAN /\ made' \in Nat /\ made' >= made /\ budget' \in [starts : Nat, stops : Nat]
    BY DEF SensorInv, Types
  <2>2. CallTypes'
    BY DEF SensorInv, Types, CallTypes, ZeekTypes, SvcTypes, Positions, StartZone, StopZone, ZeekZone
  <2>3. ZeekTypes'
    BY <2>1 DEF SensorInv, Types, CallTypes, ZeekTypes
  <2>4. SvcTypes'
    BY <2>1 DEF SensorInv, Types, SvcTypes
  <2>5. PastTypes'
    BY <2>1 DEF SensorInv, Types, CallTypes, SvcTypes, PastTypes
  <2>6. QED
    BY <2>1, <2>2, <2>3, <2>4, <2>5 DEF Types
<1>2. UNCHANGED turns /\ (turns => Moves(c))
  BY <1>1 DEF SensorInv, Types, CallTypes, Moves
<1>3. ASSUME turns PROVE OfService' /\ OfCall(c)' /\ (At(c, "idle")' => AtRest')
  BY <1>1, <1>3 DEF SensorInv, Types, CallTypes, ZeekTypes, SvcTypes, PastTypes, InTurns, OfService, OfCall, AtRest, CapturesStopped, WorkersStopped,
     Lost, WorkerAlive, StartZone, ZeekZone, Quiet
<1>4. QED
  BY <1>1, <1>2, <1>3, MoveKeeps

LEMMA DetachKeeps == ASSUME SensorInv, NEW c \in Callers, Detach(c) PROVE SensorInv'
<1> USE DEF Detach, Goes, At, Idle
<1>1. Types'
  <2>1. turns' \in BOOLEAN /\ made' \in Nat /\ made' >= made /\ budget' \in [starts : Nat, stops : Nat]
    BY DEF SensorInv, Types
  <2>2. CallTypes'
    BY DEF SensorInv, Types, CallTypes, ZeekTypes, SvcTypes, Positions, StartZone, StopZone, ZeekZone
  <2>3. ZeekTypes'
    BY <2>1 DEF SensorInv, Types, CallTypes, ZeekTypes
  <2>4. SvcTypes'
    BY CaptureStops DEF SensorInv
  <2>5. PastTypes'
    BY CaptureStops DEF SensorInv
  <2>6. QED
    BY <2>1, <2>2, <2>3, <2>4, <2>5 DEF Types
<1>2. UNCHANGED turns /\ (turns => Moves(c))
  BY <1>1 DEF SensorInv, Types, CallTypes, Moves
<1>3. ASSUME turns PROVE OfService' /\ OfCall(c)' /\ (At(c, "idle")' => AtRest')
  BY <1>1, <1>3, CaptureStops DEF SensorInv, Types, CallTypes, ZeekTypes, SvcTypes, PastTypes, InTurns, OfService, OfCall, AtRest, CapturesStopped, WorkersStopped,
     Lost, WorkerAlive, StartZone, ZeekZone, Quiet
<1>4. QED
  BY <1>1, <1>2, <1>3, MoveKeeps

LEMMA CheckWorkerKeeps == ASSUME SensorInv, NEW c \in Callers, CheckWorker(c) PROVE SensorInv'
<1> USE DEF CheckWorker, Goes, At, Idle
<1>1. Types'
  <2>1. turns' \in BOOLEAN /\ made' \in Nat /\ made' >= made /\ budget' \in [starts : Nat, stops : Nat]
    BY DEF SensorInv, Types
  <2>2. CallTypes'
    BY DEF SensorInv, Types, CallTypes, ZeekTypes, SvcTypes, Positions, StartZone, StopZone, ZeekZone
  <2>3. ZeekTypes'
    BY <2>1 DEF SensorInv, Types, CallTypes, ZeekTypes
  <2>4. SvcTypes'
    BY <2>1 DEF SensorInv, Types, SvcTypes
  <2>5. PastTypes'
    BY <2>1 DEF SensorInv, Types, CallTypes, SvcTypes, PastTypes
  <2>6. QED
    BY <2>1, <2>2, <2>3, <2>4, <2>5 DEF Types
<1>2. UNCHANGED turns /\ (turns => Moves(c))
  BY <1>1 DEF SensorInv, Types, CallTypes, Moves
<1>3. ASSUME turns PROVE OfService' /\ OfCall(c)' /\ (At(c, "idle")' => AtRest')
  BY <1>1, <1>3 DEF SensorInv, Types, CallTypes, ZeekTypes, SvcTypes, PastTypes, InTurns, OfService, OfCall, AtRest, CapturesStopped, WorkersStopped,
     Lost, WorkerAlive, StartZone, ZeekZone, Quiet
<1>4. QED
  BY <1>1, <1>2, <1>3, MoveKeeps

LEMMA JoinKeeps == ASSUME SensorInv, NEW c \in Callers, Join(c) PROVE SensorInv'
<1> USE DEF Join, Ends, At, Idle
<1>1. Types'
  <2>1. turns' \in BOOLEAN /\ made' \in Nat /\ made' >= made /\ budget' \in [starts : Nat, stops : Nat]
    BY DEF SensorInv, Types
  <2>2. CallTypes'
    BY DEF SensorInv, Types, CallTypes, ZeekTypes, SvcTypes, Positions, StartZone, StopZone, ZeekZone
  <2>3. ZeekTypes'
    BY <2>1 DEF SensorInv, Types, CallTypes, ZeekTypes
  <2>4. SvcTypes'
    BY <2>1 DEF SensorInv, Types, SvcTypes
  <2>5. PastTypes'
    BY <2>1 DEF SensorInv, Types, CallTypes, SvcTypes, PastTypes
  <2>6. QED
    BY <2>1, <2>2, <2>3, <2>4, <2>5 DEF Types
<1>2. UNCHANGED turns /\ (turns => Moves(c))
  BY <1>1 DEF SensorInv, Types, CallTypes, Moves
<1>3. ASSUME turns PROVE OfService' /\ OfCall(c)' /\ (At(c, "idle")' => AtRest')
  BY <1>1, <1>3 DEF SensorInv, Types, CallTypes, ZeekTypes, SvcTypes, PastTypes, InTurns, OfService, OfCall, AtRest, CapturesStopped, WorkersStopped,
     Lost, WorkerAlive, StartZone, ZeekZone, Quiet
<1>4. QED
  BY <1>1, <1>2, <1>3, MoveKeeps

LEMMA JoinedKeeps == ASSUME SensorInv, NEW c \in Callers, Joined(c) PROVE SensorInv'
<1> USE DEF Joined, Goes, At, Idle
<1>1. Types'
  <2>1. turns' \in BOOLEAN /\ made' \in Nat /\ made' >= made /\ budget' \in [starts : Nat, stops : Nat]
    BY DEF SensorInv, Types
  <2>2. CallTypes'
    BY DEF SensorInv, Types, CallTypes, ZeekTypes, SvcTypes, Positions, StartZone, StopZone, ZeekZone
  <2>3. ZeekTypes'
    BY <2>1 DEF SensorInv, Types, CallTypes, ZeekTypes
  <2>4. SvcTypes'
    BY <2>1 DEF SensorInv, Types, SvcTypes
  <2>5. PastTypes'
    BY <2>1 DEF SensorInv, Types, CallTypes, SvcTypes, PastTypes
  <2>6. QED
    BY <2>1, <2>2, <2>3, <2>4, <2>5 DEF Types
<1>2. UNCHANGED turns /\ (turns => Moves(c))
  BY <1>1 DEF SensorInv, Types, CallTypes, Moves
<1>3. ASSUME turns PROVE OfService' /\ OfCall(c)' /\ (At(c, "idle")' => AtRest')
  BY <1>1, <1>3 DEF SensorInv, Types, CallTypes, ZeekTypes, SvcTypes, PastTypes, InTurns, OfService, OfCall, AtRest, CapturesStopped, WorkersStopped,
     Lost, WorkerAlive, StartZone, ZeekZone, Quiet
<1>4. QED
  BY <1>1, <1>2, <1>3, MoveKeeps

LEMMA ClearWorkerKeeps == ASSUME SensorInv, NEW c \in Callers, ClearWorker(c) PROVE SensorInv'
<1> USE DEF ClearWorker, At, Idle
<1>1. Types'
  <2>1. turns' \in BOOLEAN /\ made' \in Nat /\ made' >= made /\ budget' \in [starts : Nat, stops : Nat]
    BY DEF SensorInv, Types
  <2>2. CallTypes'
    BY QuitsTyped DEF SensorInv, Types
  <2>3. ZeekTypes'
    BY <2>1 DEF SensorInv, Types, CallTypes, ZeekTypes
  <2>4. SvcTypes'
    BY <2>1 DEF SensorInv, Types, SvcTypes
  <2>5. PastTypes'
    BY <2>1 DEF SensorInv, Types, CallTypes, SvcTypes, PastTypes
  <2>6. QED
    BY <2>1, <2>2, <2>3, <2>4, <2>5 DEF Types
<1>2. UNCHANGED turns /\ (turns => Moves(c))
  BY <1>1 DEF SensorInv, Types, CallTypes, Moves, Quits
<1>3. ASSUME turns PROVE OfService' /\ OfCall(c)' /\ (At(c, "idle")' => AtRest')
  BY <1>1, <1>3 DEF SensorInv, Types, CallTypes, ZeekTypes, SvcTypes, PastTypes, InTurns, OfService, OfCall, AtRest, CapturesStopped, WorkersStopped,
     Lost, Quits, WorkerAlive, StartZone, ZeekZone, Quiet
<1>4. QED
  BY <1>1, <1>2, <1>3, MoveKeeps

LEMMA TerminateKeeps == ASSUME SensorInv, NEW c \in Callers, Terminate(c) PROVE SensorInv'
<1> USE DEF Terminate, Resume, ZeekRuns, At, Idle
<1>1. Types'
  <2>1. turns' \in BOOLEAN /\ made' \in Nat /\ made' >= made /\ budget' \in [starts : Nat, stops : Nat]
    BY DEF SensorInv, Types
  <2>2. CallTypes'
    BY DEF SensorInv, Types, CallTypes, ZeekTypes, SvcTypes, Positions, StartZone, StopZone, ZeekZone
  <2>3. ZeekTypes'
    BY <2>1 DEF SensorInv, Types, CallTypes, ZeekTypes
  <2>4. SvcTypes'
    BY <2>1 DEF SensorInv, Types, SvcTypes
  <2>5. PastTypes'
    BY <2>1 DEF SensorInv, Types, CallTypes, SvcTypes, PastTypes
  <2>6. QED
    BY <2>1, <2>2, <2>3, <2>4, <2>5 DEF Types
<1>2. UNCHANGED turns /\ (turns => Moves(c))
  BY <1>1 DEF SensorInv, Types, CallTypes, Moves
<1>3. ASSUME turns PROVE OfService' /\ OfCall(c)' /\ (At(c, "idle")' => AtRest')
  <2>1. CASE zeek.process = 0 /\ Resume(c)
    BY <1>1, <1>3, <2>1 DEF SensorInv, Types, CallTypes, ZeekTypes, SvcTypes, PastTypes, InTurns, OfService, OfCall, AtRest, CapturesStopped, WorkersStopped,
     Lost, WorkerAlive, StartZone, ZeekZone, Quiet
  <2>2. CASE zeek.process # 0
    BY <1>1, <1>3, <2>2 DEF SensorInv, Types, CallTypes, ZeekTypes, SvcTypes, PastTypes, InTurns, OfService, OfCall, AtRest, CapturesStopped, WorkersStopped,
     Lost, WorkerAlive, StartZone, ZeekZone, Quiet
  <2>3. QED
    BY <2>1, <2>2
<1>4. QED
  BY <1>1, <1>2, <1>3, MoveKeeps

LEMMA WaitedKeeps == ASSUME SensorInv, NEW c \in Callers, Waited(c) PROVE SensorInv'
<1> USE DEF Waited, Goes, At, Idle
<1>1. Types'
  <2>1. turns' \in BOOLEAN /\ made' \in Nat /\ made' >= made /\ budget' \in [starts : Nat, stops : Nat]
    BY DEF SensorInv, Types
  <2>2. CallTypes'
    BY DEF SensorInv, Types, CallTypes, ZeekTypes, SvcTypes, Positions, StartZone, StopZone, ZeekZone
  <2>3. ZeekTypes'
    BY <2>1 DEF SensorInv, Types, CallTypes, ZeekTypes
  <2>4. SvcTypes'
    BY <2>1 DEF SensorInv, Types, SvcTypes
  <2>5. PastTypes'
    BY <2>1 DEF SensorInv, Types, CallTypes, SvcTypes, PastTypes
  <2>6. QED
    BY <2>1, <2>2, <2>3, <2>4, <2>5 DEF Types
<1>2. UNCHANGED turns /\ (turns => Moves(c))
  BY <1>1 DEF SensorInv, Types, CallTypes, Moves
<1>3. ASSUME turns PROVE OfService' /\ OfCall(c)' /\ (At(c, "idle")' => AtRest')
  BY <1>1, <1>3 DEF SensorInv, Types, CallTypes, ZeekTypes, SvcTypes, PastTypes, InTurns, OfService, OfCall, AtRest, CapturesStopped, WorkersStopped,
     Lost, WorkerAlive, StartZone, ZeekZone, Quiet
<1>4. QED
  BY <1>1, <1>2, <1>3, MoveKeeps

LEMMA KillKeeps == ASSUME SensorInv, NEW c \in Callers, Kill(c) PROVE SensorInv'
<1> USE DEF Kill, Goes, Ends, At, Idle
<1>1. Types'
  <2>1. turns' \in BOOLEAN /\ made' \in Nat /\ made' >= made /\ budget' \in [starts : Nat, stops : Nat]
    BY DEF SensorInv, Types
  <2>2. CallTypes'
    BY DEF SensorInv, Types, CallTypes, ZeekTypes, SvcTypes, Positions, StartZone, StopZone, ZeekZone
  <2>3. ZeekTypes'
    BY <2>1 DEF SensorInv, Types, CallTypes, ZeekTypes
  <2>4. SvcTypes'
    BY <2>1 DEF SensorInv, Types, SvcTypes
  <2>5. PastTypes'
    BY <2>1 DEF SensorInv, Types, CallTypes, SvcTypes, PastTypes
  <2>6. QED
    BY <2>1, <2>2, <2>3, <2>4, <2>5 DEF Types
<1>2. UNCHANGED turns /\ (turns => Moves(c))
  BY <1>1 DEF SensorInv, Types, CallTypes, Moves
<1>3. ASSUME turns PROVE OfService' /\ OfCall(c)' /\ (At(c, "idle")' => AtRest')
  BY <1>1, <1>3 DEF SensorInv, Types, CallTypes, ZeekTypes, SvcTypes, PastTypes, InTurns, OfService, OfCall, AtRest, CapturesStopped, WorkersStopped,
     Lost, WorkerAlive, StartZone, ZeekZone, Quiet
<1>4. QED
  BY <1>1, <1>2, <1>3, MoveKeeps

LEMMA KillLateKeeps == ASSUME SensorInv, NEW c \in Callers, KillLate(c) PROVE SensorInv'
<1> USE DEF KillLate, Ends, ZeekRuns, At, Idle
<1>1. Types'
  <2>1. turns' \in BOOLEAN /\ made' \in Nat /\ made' >= made /\ budget' \in [starts : Nat, stops : Nat]
    BY DEF SensorInv, Types
  <2>2. CallTypes'
    BY DEF SensorInv, Types, CallTypes, ZeekTypes, SvcTypes, Positions, StartZone, StopZone, ZeekZone
  <2>3. ZeekTypes'
    BY <2>1 DEF SensorInv, Types, CallTypes, ZeekTypes
  <2>4. SvcTypes'
    BY <2>1 DEF SensorInv, Types, SvcTypes
  <2>5. PastTypes'
    BY <2>1 DEF SensorInv, Types, CallTypes, SvcTypes, PastTypes
  <2>6. QED
    BY <2>1, <2>2, <2>3, <2>4, <2>5 DEF Types
<1>2. UNCHANGED turns /\ (turns => Moves(c))
  BY <1>1 DEF SensorInv, Types, CallTypes, Moves
<1>3. ASSUME turns PROVE OfService' /\ OfCall(c)' /\ (At(c, "idle")' => AtRest')
  BY <1>1, <1>3 DEF SensorInv, Types, CallTypes, ZeekTypes, SvcTypes, PastTypes, InTurns, OfService, OfCall, AtRest, CapturesStopped, WorkersStopped,
     Lost, WorkerAlive, StartZone, ZeekZone, Quiet
<1>4. QED
  BY <1>1, <1>2, <1>3, MoveKeeps

LEMMA ClearZeekKeeps == ASSUME SensorInv, NEW c \in Callers, ClearZeek(c) PROVE SensorInv'
<1> USE DEF ClearZeek, Resume, At, Idle
<1>1. Types'
  <2>1. turns' \in BOOLEAN /\ made' \in Nat /\ made' >= made /\ budget' \in [starts : Nat, stops : Nat]
    BY DEF SensorInv, Types
  <2>2. CallTypes'
    BY DEF SensorInv, Types, CallTypes, ZeekTypes, SvcTypes, Positions, StartZone, StopZone, ZeekZone
  <2>3. ZeekTypes'
    BY <2>1 DEF SensorInv, Types, CallTypes, ZeekTypes
  <2>4. SvcTypes'
    BY <2>1 DEF SensorInv, Types, SvcTypes
  <2>5. PastTypes'
    BY <2>1 DEF SensorInv, Types, CallTypes, SvcTypes, PastTypes
  <2>6. QED
    BY <2>1, <2>2, <2>3, <2>4, <2>5 DEF Types
<1>2. UNCHANGED turns /\ (turns => Moves(c))
  BY <1>1 DEF SensorInv, Types, CallTypes, Moves
<1>3. ASSUME turns PROVE OfService' /\ OfCall(c)' /\ (At(c, "idle")' => AtRest')
  BY <1>1, <1>3 DEF SensorInv, Types, CallTypes, ZeekTypes, SvcTypes, PastTypes, InTurns, OfService, OfCall, AtRest, CapturesStopped, WorkersStopped,
     Lost, WorkerAlive, StartZone, ZeekZone, Quiet
<1>4. QED
  BY <1>1, <1>2, <1>3, MoveKeeps
-----------------------------------------------------------------------------
(* What the calls do not control *)

LEMMA BesideKeeps ==
  ASSUME SensorInv, UNCHANGED <<turns, call>>, Types',
         turns /\ OfService => OfService',
         ASSUME turns, OfService, NEW c \in Callers, OfCall(c) PROVE OfCall(c)',
         turns /\ OfService /\ Quiet /\ AtRest => AtRest'
  PROVE  SensorInv'
<1>1. (OneCall <=> OneCall') /\ (Quiet <=> Quiet')
  BY DEF OneCall, Quiet, At
<1>2. QED
  BY <1>1 DEF SensorInv, InTurns

LEMMA ZeekDiesKeeps == ASSUME SensorInv, NEW z \in zeek.live, ZeekDies(z) PROVE SensorInv'
<1> USE DEF ZeekDies
<1>1. zeek'.live \subseteq zeek.live /\ zeek'.process = zeek.process /\ Types'
  BY DEF SensorInv, Types, CallTypes, ZeekTypes, SvcTypes, PastTypes
<1>2. OfService => OfService'
  BY <1>1 DEF OfService, WorkersStopped, CapturesStopped, Lost
<1>3. ASSUME NEW c \in Callers, OfCall(c) PROVE OfCall(c)'
  BY <1>1, <1>3 DEF OfCall, At, WorkersStopped, CapturesStopped, Lost, WorkerAlive
<1>4. AtRest => AtRest'
  BY DEF AtRest, WorkerAlive, CapturesStopped, Lost
<1>5. QED
  BY <1>1, <1>2, <1>3, <1>4, BesideKeeps

(* Without its worker or its capture a service promises no less. *)
LEMMA LeavingKeeps ==
  ASSUME SensorInv, UNCHANGED <<turns, zeek, made, call, budget>>, PastTypes',
         NEW ws \in SUBSET svc.workers, NEW ps \in SUBSET svc.captures,
         svc' = [svc EXCEPT !.workers = ws, !.captures = ps],
         past'.outlived = past.outlived, past'.late = past.late, past.failed \subseteq past'.failed,
         past'.stopped => past.stopped,
         svc.worker \in svc.workers => svc.stopEvent \/ svc.worker \in ws \/ ps = {} \/ Lost'
  PROVE  SensorInv'
<1>1. /\ svc'.workers = ws /\ svc'.captures = ps /\ svc'.worker = svc.worker
      /\ svc'.capture = svc.capture /\ svc'.stopEvent = svc.stopEvent
  BY DEF SensorInv, Types, SvcTypes
<1>2. Types'
  BY <1>1 DEF SensorInv, Types, CallTypes, ZeekTypes, SvcTypes
<1>3. (Lost => Lost') /\ (WorkersStopped => WorkersStopped') /\ (CapturesStopped => CapturesStopped')
  BY <1>1 DEF Lost, WorkersStopped, CapturesStopped
<1>4. OfService => OfService'
  BY <1>1, <1>3 DEF OfService, Lost
<1>5. ASSUME NEW c \in Callers, OfCall(c) PROVE OfCall(c)'
  BY <1>1, <1>3, <1>5 DEF OfCall, At, WorkerAlive
<1>6. AtRest => AtRest'
  BY <1>1, <1>3 DEF AtRest, WorkerAlive, CapturesStopped, Lost
<1>7. QED
  BY <1>2, <1>4, <1>5, <1>6, BesideKeeps

LEMMA ThreadsKeep == ASSUME SensorInv, Threads PROVE SensorInv'
<1>1. PICK w \in svc.workers : WorkerEnds(w) \/ WorkerFails(w)
  BY DEF Threads
<1> DEFINE ws == svc.workers \ {w}
<1>2. ws \in SUBSET svc.workers /\ svc' = [svc EXCEPT !.workers = ws, !.captures = svc.captures]
  BY <1>1 DEF WorkerEnds, WorkerFails, SensorInv, Types, SvcTypes
<1>3. CASE WorkerEnds(w)
  BY <1>2, <1>3, LeavingKeeps DEF WorkerEnds, SensorInv, Types, PastTypes
<1>4. CASE WorkerFails(w)
  <2>1. /\ past'.outlived = past.outlived /\ past'.late = past.late /\ past'.stopped = past.stopped
        /\ past'.failed = past.failed \cup {"worker"} /\ PastTypes'
    BY <1>4 DEF WorkerFails, SensorInv, Types, PastTypes
  <2>2. QED
    BY <1>2, <1>4, <2>1, LeavingKeeps DEF WorkerFails, Lost
<1>5. QED
  BY <1>1, <1>3, <1>4

(* The backend's process ends: it is told so or crashes. *)
LEMMA GoneKeeps ==
  ASSUME SensorInv, svc' = [svc EXCEPT !.workers = {}, !.captures = {}],
         past' = past \/ past' = [past EXCEPT !.stopped = FALSE],
         UNCHANGED <<turns, zeek, made, call, budget>>
  PROVE  SensorInv'
<1>1. /\ past'.outlived = past.outlived /\ past'.late = past.late /\ past'.failed = past.failed
      /\ (past'.stopped => past.stopped) /\ PastTypes'
  BY DEF SensorInv, Types, PastTypes
<1> DEFINE none == {}
<1>2. /\ none \in SUBSET svc.workers /\ none \in SUBSET svc.captures /\ none = {}
      /\ svc' = [svc EXCEPT !.workers = none, !.captures = none]
  OBVIOUS
<1> HIDE DEF none
<1>3. QED
  BY <1>1, <1>2, LeavingKeeps

LEMMA StillKeeps == SensorInv /\ UNCHANGED sensor => SensorInv'
BY DEF sensor, SensorInv, Types, CallTypes, ZeekTypes, SvcTypes, PastTypes, InTurns, OneCall, OfService, OfCall,
       AtRest, Quiet, At, WorkerAlive, WorkersStopped, CapturesStopped, Lost
-----------------------------------------------------------------------------
LEMMA CallStepKeeps == ASSUME SensorInv, NEW c \in Callers, CallStep(c) PROVE SensorInv'
<1>1. CASE StartStep(c)
  BY <1>1, VerifyKeeps, WatchKeeps, LaunchKeeps, SettleKeeps, ResetSessionKeeps, AttachKeeps, SniffKeeps,
     MakeThreadKeeps, SpinKeeps, UndoKeeps DEF StartStep
<1>2. CASE StopStep(c)
  BY <1>2, DetachKeeps, CheckWorkerKeeps, JoinKeeps, JoinedKeeps, ClearWorkerKeeps DEF StopStep
<1>3. CASE ZeekStep(c)
  BY <1>3, TerminateKeeps, WaitedKeeps, KillKeeps, KillLateKeeps, ClearZeekKeeps DEF ZeekStep
<1>4. QED
  BY <1>1, <1>2, <1>3 DEF CallStep

LEMMA DeploymentStarts == DeploymentInit => SensorInv
BY SensorStarts DEF DeploymentInit

LEMMA DeploymentKeeps == SensorInv /\ [DeploymentNext]_all => SensorInv'
<1> SUFFICES ASSUME SensorInv, [DeploymentNext]_all PROVE SensorInv'
  OBVIOUS
<1>1. CASE UNCHANGED sensor
  BY <1>1, StillKeeps
<1>2. CASE ProcessGone
  BY <1>2, GoneKeeps DEF ProcessGone
<1>3. CASE Requests
  <2>1. CASE \E c \in Loop : StartCall(c)
    BY <2>1, StartCallKeeps DEF Callers
  <2>2. CASE /\ budget.stops > 0 /\ budget' = [budget EXCEPT !.stops = @ - 1]
             /\ \E c \in Pool \ {Lifespan} : StopCall(c)
    <3>1. budget' \in [starts : Nat, stops : Nat]
      BY <2>2 DEF SensorInv, Types
    <3>2. QED
      BY <2>2, <3>1, StopCallKeeps DEF Callers
  <2>3. QED
    BY <1>3, <2>1, <2>2 DEF Requests
<1>4. ASSUME NEW c \in Callers, Served(c) PROVE SensorInv'
  BY <1>4, CallStepKeeps DEF Served
<1>5. CASE World
  BY <1>5, ZeekDiesKeeps, ThreadsKeep DEF World
<1>6. CASE LifespanStops
  BY <1>6, StopCallKeeps, LifespanAssumption DEF LifespanStops, Callers, SensorInv, Types
<1>7. CASE BackendEnds
  BY <1>7, GoneKeeps DEF BackendEnds
<1>8. QED
  BY <1>1, <1>2, <1>3, <1>4, <1>5, <1>6, <1>7 DEF DeploymentNext, MainRuns, UserInterrupts, ChildrenRun, sensor, all

(* For any callers, calls, crashes and presses of Ctrl+C, SensorInv holds    *)
(* at every step: between calls of live_service.py:133-221 and at each      *)
(* position inside one.                                                    *)
THEOREM SensorInvariant == DeploymentSpec => []SensorInv
BY DeploymentStarts, DeploymentKeeps, PTL DEF DeploymentSpec

(* Processes, captures and workers are among those that were made.          *)
THEOREM TypesSafe == DeploymentSpec => []SensorTypeOK
<1>1. SensorInv => SensorTypeOK
  BY DEF SensorInv, Types, ZeekTypes, SvcTypes, PastTypes, SensorTypeOK
<1>2. QED
  BY <1>1, SensorInvariant, PTL

(* In turns, a stop that returned left no Zeek, and no worker or capture     *)
(* but those it gave up on (live_service.py:204-220).                       *)
THEOREM CleanSafe == DeploymentSpec => []StoppedClean
<1>1. SensorInv => StoppedClean
  BY DEF SensorInv, InTurns, OfService, StoppedClean, WorkersStopped, CapturesStopped, Lost
<1>2. QED
  BY <1>1, SensorInvariant, PTL

(* In turns, no Zeek runs that ZeekManager has forgotten, since start never *)
(* overwrites a live process (manager.py:354, 435), and at most one worker  *)
(* that stop did not give up on reads the log (live_service.py:134, 215).   *)
THEOREM OneOfEachSafe == DeploymentSpec => []OneOfEach
<1>1. SensorInv => NoOrphanZeek
  BY DEF SensorInv, InTurns, OfService, NoOrphanZeek
<1>2. SensorInv => OneWorker
  <2> SUFFICES ASSUME SensorInv, turns PROVE Cardinality(svc.workers \ past.outlived) <= 1
    BY DEF OneWorker
  <2>1. svc.workers \ past.outlived \subseteq {svc.worker}
    BY DEF SensorInv, InTurns, OfService
  <2>2. IsFiniteSet({svc.worker}) /\ Cardinality({svc.worker}) = 1
    BY FS_Singleton
  <2>3. QED
    BY <2>1, <2>2, FS_Subset, FS_CardinalityType
<1>3. SensorInv => OneOfEach
  BY <1>1, <1>2 DEF OneOfEach
<1>4. QED
  BY <1>3, SensorInvariant, PTL

(* In turns, the pipeline is reset when nothing of an earlier session is at *)
(* work (live_service.py:155-158), with the exceptions ResetFindsQuiet names:*)
(* what the gate's proof assumes as CleanStop.                              *)
THEOREM ResetsSafe == DeploymentSpec => ResetsFindQuiet
<1>1. SensorInv /\ [DeploymentNext]_all => [ResetFindsQuiet]_all
  BY DEF SensorInv, InTurns, OfCall, At, StartZone, ResetFindsQuiet, WorkersStopped, CapturesStopped, Lost
<1>2. QED
  BY <1>1, SensorInvariant, PTL DEF DeploymentSpec, ResetsFindQuiet
-----------------------------------------------------------------------------
(* All or nothing: what a call has built so far, as long as no worker died  *)
(* and no rollback or kill failed.                                         *)

NoWorker  == svc.worker = 0
NoCapture == svc.capture = 0

Built(c) ==
  /\ call[c].pc \in {"verify", "watch", "launch", "settle", "reset", "attach"} => NoWorker /\ NoCapture
  /\ call[c].pc \in {"verify", "launch"} => zeek.live = {}
  /\ call[c].pc \in {"sniff", "thread", "undo"} => NoWorker /\ ~NoCapture
  /\ At(c, "spin") => ~NoWorker /\ ~NoCapture
  /\ call[c].pc \in {"check", "join", "joining", "clear"} \cup ZeekZone => NoCapture
  /\ At(c, "join") => ~NoWorker
  /\ call[c].pc \in ZeekZone => NoWorker
  /\ At(c, "zwait") => zeek.process # 0

Whole ==
  /\ NoWorker <=> NoCapture
  /\ NoWorker => zeek.live = {}
  /\ BackendRuns => NoWorker \/ WorkerAlive

BuiltInv ==
  turns /\ past.failed = {} => (\A c \in Callers : Built(c)) /\ (Quiet => Whole)

ChildTypes == child \in [Children -> {"none", "starting", "up", "ending", "ended"}]

(* There is one backend, and it serves nothing before it is started.       *)
OneBackend ==
  /\ ChildTypes
  /\ main \in {"python", "zeek", "install", "privileges", "imports", "startBackend"} => child["backend"] = "none"
  /\ child["backend"] = "none" => NoWorker
  /\ closing # "no" => child["backend"] \in {"ending", "ended"}
  /\ closing = "returned" => child["backend"] = "ended"

LEMMA CallStepMoves ==
  ASSUME SensorInv, NEW c \in Callers, CallStep(c)
  PROVE  turns' = turns /\ ~At(c, "idle") /\ \A d \in Callers \ {c} : call'[d] = call[d]
<1> USE DEF Goes, Ends, Quits, At, Spawn, Resume, SensorInv, Types, CallTypes
<1>1. CASE StartStep(c)
  BY <1>1 DEF StartStep, Verify, Watch, Launch, Settle, ResetSession, Attach, Sniff, MakeThread, Spin, Undo
<1>2. CASE StopStep(c)
  BY <1>2 DEF StopStep, Detach, CheckWorker, Join, Joined, ClearWorker
<1>3. CASE ZeekStep(c)
  BY <1>3 DEF ZeekStep, Terminate, Waited, Kill, KillLate, ClearZeek
<1>4. QED
  BY <1>1, <1>2, <1>3 DEF CallStep

LEMMA FailuresStay ==
  ASSUME SensorInv, NEW c \in Callers, CallStep(c), past'.failed = {} PROVE past.failed = {}
<1> USE DEF SensorInv, Types, PastTypes
<1>1. CASE StartStep(c)
  BY <1>1 DEF StartStep, Verify, Watch, Launch, Settle, ResetSession, Attach, Sniff, MakeThread, Spin, Undo, StopCapture
<1>2. CASE StopStep(c)
  BY <1>2 DEF StopStep, Detach, CheckWorker, Join, Joined, ClearWorker, StopCapture
<1>3. CASE ZeekStep(c)
  BY <1>3 DEF ZeekStep, Terminate, Waited, Kill, KillLate, ClearZeek, Resume
<1>4. QED
  BY <1>1, <1>2, <1>3 DEF CallStep

LEMMA StartBuilds ==
  ASSUME SensorInv, SensorInv', NEW c \in Callers, turns, past'.failed = {}, Built(c), StartStep(c)
  PROVE  Built(c)' /\ (At(c, "idle")' => Whole')
<1> USE DEF Built, Whole, NoWorker, NoCapture, WorkerAlive, ZeekRuns, At, Goes, Ends, Quits, Idle, ZeekZone,
            SensorInv, Types, CallTypes, ZeekTypes, SvcTypes, PastTypes
<1>1. zeek.live \subseteq {zeek.process}
  BY DEF InTurns, OfService
<1>2. CASE Verify(c)
  BY <1>1, <1>2 DEF Verify, Spawn
<1>3. CASE Watch(c)
  BY <1>1, <1>3 DEF Watch
<1>4. CASE Launch(c)
  BY <1>1, <1>4 DEF Launch, Spawn
<1>5. CASE Settle(c)
  BY <1>1, <1>5 DEF Settle
<1>6. CASE ResetSession(c)
  BY <1>6 DEF ResetSession
<1>7. CASE Attach(c)
  BY <1>7 DEF Attach
<1>8. CASE Sniff(c)
  <2>0. Types /\ call[c].pc = "sniff" /\ (Goes(c, "thread") => call'[c].pc = "thread")
        /\ (Quits(c, "idle") => call'[c].pc = "zstop")
    BY <1>8 DEF Sniff
  <2> HIDE DEF SensorInv, Types, CallTypes, ZeekTypes, SvcTypes, PastTypes, Goes, Quits
  <2>1. /\ At(c, "sniff") /\ zeek' = zeek /\ svc'.worker = svc.worker
        /\ \/ call'[c].pc = "thread" /\ svc'.capture = svc.capture
           \/ call'[c].pc = "zstop" /\ svc'.capture = 0
    BY <1>8, <2>0, SniffCases
  <2>2. svc.worker = 0 /\ svc.capture # 0
    BY <2>1
  <2>3. CASE call'[c].pc = "thread" /\ svc'.capture = svc.capture
    BY <2>1, <2>2, <2>3
  <2>4. CASE call'[c].pc = "zstop" /\ svc'.capture = 0
    BY <2>1, <2>2, <2>4
  <2>5. QED
    BY <2>1, <2>3, <2>4
<1>9. CASE MakeThread(c)
  BY <1>9 DEF MakeThread
<1>10. CASE Spin(c)
  BY <1>10 DEF Spin
<1>11. CASE Undo(c)
  <2>1. ASSUME past' = [past EXCEPT !.failed = @ \cup {"rollback"}, !.late = @ \cup {svc.capture}] PROVE FALSE
    <3>1. past'.failed = past.failed \cup {"rollback"}
      BY <2>1
    <3>2. QED
      BY <3>1
  <2>2. At(c, "undo") /\ Quits(c, "idle") /\ StopCapture /\ made' = made /\ zeek' = zeek
    BY <1>11, <2>1 DEF Undo
  <2>3. svc'.capture = 0 /\ svc'.worker = svc.worker
    BY <2>2, CaptureStops
  <2>4. call'[c].pc = "zstop"
    BY <2>2
  <2>5. QED
    BY <2>2, <2>3, <2>4
<1>12. QED
  BY <1>2, <1>3, <1>4, <1>5, <1>6, <1>7, <1>8, <1>9, <1>10, <1>11 DEF StartStep

LEMMA StopTakesDown ==
  ASSUME SensorInv, SensorInv', NEW c \in Callers, turns, past'.failed = {}, Built(c), StopStep(c)
  PROVE  /\ Built(c)' /\ ~At(c, "idle")'
         /\ call'[c].pc \in StopZone \cup {"clear"} \/ (call'[c].pc = "zstop" /\ call'[c].next = "stopped")
<1> USE DEF Built, NoWorker, NoCapture, WorkerAlive, At, Goes, Ends, Quits, StopZone, ZeekZone,
            SensorInv, Types, CallTypes, SvcTypes, PastTypes
<1>1. CASE Detach(c)
  <2>1. svc'.capture = 0
    BY <1>1, CaptureStops DEF Detach
  <2>2. QED
    BY <1>1, <2>1 DEF Detach
<1>2. CASE CheckWorker(c)
  BY <1>2 DEF CheckWorker
<1>3. CASE Join(c)
  BY <1>3 DEF Join
<1>4. CASE Joined(c)
  BY <1>4 DEF Joined
<1>5. CASE ClearWorker(c)
  BY <1>5 DEF ClearWorker
<1>6. QED
  BY <1>1, <1>2, <1>3, <1>4, <1>5 DEF StopStep

(* ZeekManager.stop returns only when no Zeek runs. *)
LEMMA ZeekTakenDown ==
  ASSUME SensorInv, SensorInv', NEW c \in Callers, turns, past'.failed = {}, Built(c), ZeekStep(c)
  PROVE  /\ Built(c)' /\ (At(c, "idle")' => Whole')
         /\ At(c, "idle")' /\ call[c].next = "stopped" => past'.stopped
         /\ call'[c].pc \in ZeekZone => call'[c].next = call[c].next
         /\ call'[c].pc \in ZeekZone \cup {"idle"} \/ call[c].next = "launch"
<1> USE DEF Built, Whole, NoWorker, NoCapture, WorkerAlive, ZeekRuns, At, Goes, Ends, Idle, ZeekZone,
            SensorInv, Types, CallTypes, ZeekTypes, SvcTypes, PastTypes
<1>1. zeek.live \subseteq {zeek.process} /\ (At(c, "zclear") => zeek.live = {})
  BY DEF InTurns, OfService, OfCall
<1>2. CASE Terminate(c)
  BY <1>1, <1>2 DEF Terminate, Resume
<1>3. CASE Waited(c)
  BY <1>3 DEF Waited
<1>4. CASE Kill(c)
  BY <1>4 DEF Kill
<1>5. CASE KillLate(c)
  BY <1>5 DEF KillLate
<1>6. CASE ClearZeek(c)
  BY <1>1, <1>6 DEF ClearZeek, Resume
<1>7. QED
  BY <1>2, <1>3, <1>4, <1>5, <1>6 DEF ZeekStep

(* The lifespan's stop is the last call, and nothing runs when it returned. *)
LastCall ==
  closing # "no" /\ turns /\ past.failed = {} =>
    /\ \A c \in Callers \ {Lifespan} : At(c, "idle")
    /\ call[Lifespan].pc \in {"idle", "clear"} \cup StopZone \cup ZeekZone
    /\ call[Lifespan].pc \in ZeekZone => call[Lifespan].next = "stopped"
    /\ At(Lifespan, "idle") /\ BackendRuns => past.stopped
    /\ closing = "returned" => At(Lifespan, "idle") /\ past.stopped

SessionInv == SensorInv /\ OneBackend /\ BuiltInv /\ LastCall

LEMMA SessionStarts == DeploymentInit => SessionInv
<1> SUFFICES ASSUME DeploymentInit PROVE SessionInv
  OBVIOUS
<1> USE DEF DeploymentInit, SensorInit, LauncherInit, Children
<1>1. OneBackend
  BY DEF OneBackend, ChildTypes, NoWorker
<1>2. \A c \in Callers : At(c, "idle")
  BY DEF At, Idle
<1>3. BuiltInv
  BY <1>2 DEF BuiltInv, Built, Whole, NoWorker, NoCapture, ZeekZone, At
<1>4. QED
  BY <1>1, <1>3, DeploymentStarts DEF SessionInv, LastCall

(* What the launcher does to the backend child. *)
LEMMA BackendMoves ==
  ASSUME SensorInv, OneBackend, DeploymentNext
  PROVE  /\ OneBackend'
         /\ BackendRuns' => BackendRuns \/ child["backend"] = "none"
         /\ child["backend"] \in {"ending", "ended"} => child'["backend"] \in {"ending", "ended"}
<1> USE DEF OneBackend, ChildTypes, NoWorker, BackendRuns, Runs, Children
<1>1. CASE MainRuns
  <2>1. CASE StartBackend \/ StartDashboard
    BY <1>1, <2>1 DEF MainRuns, StartBackend, StartDashboard, StartChild, Continue, Fail, ProcessGone, sensor,
       SensorInv, Types, SvcTypes
  <2>2. CASE SignalAll \/ EndDashboard \/ EndBackend
    BY <1>1, <2>2 DEF MainRuns, SignalAll, EndDashboard, EndBackend, EndChild, Signalled, Continue, ProcessGone,
       sensor, SensorInv, Types, SvcTypes
  <2>3. CASE Python \/ FindZeek \/ Install \/ Installed \/ Privileges \/ Imports \/ AwaitBackend \/ AwaitDashboard
             \/ ListBackend \/ ListDashboard \/ WatchChildren
    <3>1. child' = child
      BY <2>3 DEF Python, FindZeek, Install, Installed, Privileges, Imports, AwaitBackend, AwaitDashboard, Await,
         ListBackend, ListDashboard, ListChild, WatchChildren
    <3>2. UNCHANGED <<sensor, closing>>
      BY <1>1, <3>1 DEF MainRuns
    <3>3. main' \in {"python", "zeek", "install", "privileges", "imports", "startBackend"} =>
            main \in {"python", "zeek", "install", "privileges", "imports", "startBackend"}
      BY <2>3 DEF Python, FindZeek, Install, Installed, Privileges, Imports, AwaitBackend, AwaitDashboard, Await,
         ListBackend, ListDashboard, ListChild, WatchChildren, Fail, Continue
    <3>4. QED
      BY <3>1, <3>2, <3>3 DEF sensor
  <2>4. QED
    BY <1>1, <2>1, <2>2, <2>3 DEF MainRuns, MainStep
<1>2. CASE UserInterrupts
  BY <1>2 DEF UserInterrupts, Interrupt, Signalled, sensor
<1>3. CASE ChildrenRun
  <2>1. main' = main /\ closing' = closing /\ svc'.worker = svc.worker
    BY <1>3 DEF ChildrenRun, ChildAnswers, ChildEnds, ChildCrashes, ProcessGone, sensor, SensorInv, Types, SvcTypes
  <2>2. PICK p \in Children : \/ child[p] \in {"starting", "up"} /\ child' = [child EXCEPT ![p] = "ended"]
                              \/ child[p] = "starting" /\ child' = [child EXCEPT ![p] = "up"]
                              \/ p # "backend" /\ child' = [child EXCEPT ![p] = "ended"]
    BY <1>3 DEF ChildrenRun, ChildAnswers, ChildEnds, ChildCrashes
  <2>3. QED
    BY <2>1, <2>2
<1>4. CASE Requests \/ (\E c \in Callers : Served(c)) \/ World
  <2>1. UNCHANGED <<launch, closing>>
    BY <1>4 DEF Requests, Served, World
  <2>2. child["backend"] = "none" => svc'.worker = svc.worker
    BY <1>4 DEF Requests, Served, World, ZeekDies
  <2>3. QED
    BY <2>1, <2>2 DEF launch
<1>5. CASE LifespanStops
  BY <1>5 DEF LifespanStops, launch
<1>6. CASE BackendEnds
  BY <1>6 DEF BackendEnds, ChildEnds
<1>7. QED
  BY <1>1, <1>2, <1>3, <1>4, <1>5, <1>6 DEF DeploymentNext

LEMMA MoveBuilds ==
  ASSUME SensorInv, BuiltInv, NEW c \in Callers, turns' = turns, turns => Moves(c),
         turns /\ past'.failed = {} => past.failed = {} /\ Built(c)' /\ (At(c, "idle")' => Whole')
  PROVE  BuiltInv'
<1> SUFFICES ASSUME turns, past'.failed = {} PROVE (\A d \in Callers : Built(d)') /\ (Quiet' => Whole')
  BY DEF BuiltInv
<1>1. \A d \in Callers \ {c} : At(d, "idle")
  BY DEF SensorInv, InTurns, OneCall, Moves
<1>2. \A d \in Callers \ {c} : call'[d].pc = "idle"
  BY <1>1 DEF Moves, At
<1>3. \A d \in Callers \ {c} : Built(d)'
  BY <1>2 DEF Built, At, ZeekZone
<1>4. QED
  BY <1>3 DEF Quiet

(* Without a call's step, what it has built stays. *)
LEMMA BesideBuilds ==
  ASSUME BuiltInv, turns' = turns, call' = call, past'.failed = {} => past.failed = {},
         svc'.worker = svc.worker, svc'.capture = svc.capture, zeek'.process = zeek.process, zeek'.live \subseteq zeek.live,
         turns /\ past'.failed = {} /\ Quiet /\ BackendRuns' => NoWorker \/ WorkerAlive'
  PROVE  BuiltInv'
<1>1. Quiet' => Quiet
  BY DEF Quiet, At
<1>2. \A c \in Callers : Built(c) => Built(c)'
  BY DEF Built, NoWorker, NoCapture, At
<1>3. turns /\ past'.failed = {} /\ Quiet /\ Whole => Whole'
  BY DEF Whole, NoWorker, NoCapture
<1>4. QED
  BY <1>1, <1>2, <1>3 DEF BuiltInv

LEMMA RequestBuilds ==
  ASSUME SensorInv, SensorInv', BuiltInv, NEW c \in Callers, StopCall(c) \/ (StartCall(c) /\ BackendRuns)
  PROVE  BuiltInv'
<1> USE DEF At, Goes, Ends, Idle, SensorInv, Types, CallTypes
<1>1. turns' = turns /\ (turns => Moves(c)) /\ At(c, "idle")
  BY DEF StartCall, StopCall, Turn, Moves
<1>2. ASSUME turns, past'.failed = {} PROVE past.failed = {} /\ Built(c)' /\ (At(c, "idle")' => Whole')
  <2>1. past.failed = {}
    BY <1>2 DEF StartCall, StopCall, PastTypes
  <2>2. Quiet /\ Whole
    BY <1>1, <1>2, <2>1 DEF Quiet, Moves, BuiltInv
  <2>3. CASE StopCall(c)
    BY <2>1, <2>3 DEF StopCall, Built, ZeekZone
  <2>4. CASE StartCall(c) /\ BackendRuns
    <3>1. UNCHANGED <<zeek, svc>>
      BY <2>4 DEF StartCall
    <3>2. CASE call'[c].pc = "verify" /\ ~WorkerAlive
      BY <2>1, <2>2, <2>4, <3>1, <3>2 DEF Built, Whole, NoWorker, NoCapture, ZeekZone
    <3>3. CASE call'[c].pc = "idle" /\ (WorkerAlive \/ \E nic \in Nics : ~Valid(nic))
      BY <2>1, <2>2, <2>4, <3>1, <3>3 DEF Built, Whole, NoWorker, NoCapture, ZeekZone, WorkerAlive
    <3>4. QED
      BY <2>4, <3>2, <3>3 DEF StartCall
  <2>5. QED
    BY <2>1, <2>3, <2>4
<1>3. QED
  BY <1>1, <1>2, MoveBuilds

LEMMA ServedBuilds ==
  ASSUME SensorInv, SensorInv', BuiltInv, NEW c \in Callers, CallStep(c) PROVE BuiltInv'
<1>1. turns' = turns /\ (turns => Moves(c)) /\ ~At(c, "idle")
  BY CallStepMoves DEF Moves
<1>2. ASSUME turns, past'.failed = {} PROVE past.failed = {} /\ Built(c)' /\ (At(c, "idle")' => Whole')
  <2>1. past.failed = {}
    BY <1>2, FailuresStay
  <2>2. Built(c)
    BY <1>2, <2>1 DEF BuiltInv
  <2>3. QED
    BY <1>2, <2>1, <2>2, StartBuilds, StopTakesDown, ZeekTakenDown DEF CallStep
<1>3. QED
  BY <1>1, <1>2, MoveBuilds

LEMMA WorldBuilds ==
  ASSUME SensorInv, BuiltInv, World PROVE BuiltInv'
<1>1. CASE \E z \in zeek.live : ZeekDies(z)
  <2>1. zeek'.process = zeek.process /\ zeek'.live \subseteq zeek.live /\ UNCHANGED <<turns, call, past, svc>>
    BY <1>1 DEF ZeekDies, SensorInv, Types, ZeekTypes
  <2>2. BackendRuns' = BackendRuns
    BY DEF World, launch, BackendRuns, Runs
  <2>3. turns /\ past'.failed = {} /\ Quiet /\ BackendRuns' => NoWorker \/ WorkerAlive'
    BY <2>1, <2>2 DEF BuiltInv, Whole, WorkerAlive
  <2>4. QED
    BY <2>1, <2>3, BesideBuilds
<1>2. CASE BackendRuns /\ Threads
  <2>1. PICK w \in svc.workers : WorkerEnds(w) \/ WorkerFails(w)
    BY <1>2 DEF Threads
  <2>2. /\ UNCHANGED <<turns, zeek, call>> /\ svc'.worker = svc.worker /\ svc'.capture = svc.capture
        /\ svc'.workers = svc.workers \ {w}
        /\ past'.failed = {} => svc.stopEvent /\ past.failed = {}
    BY <2>1 DEF WorkerEnds, WorkerFails, SensorInv, Types, SvcTypes, PastTypes
  <2>3. turns /\ past'.failed = {} /\ Quiet => NoWorker \/ WorkerAlive'
    BY <1>2, <2>2 DEF BuiltInv, Whole, WorkerAlive, SensorInv, InTurns, AtRest
  <2>4. QED
    BY <2>2, <2>3, BesideBuilds
<1>3. QED
  BY <1>1, <1>2 DEF World

(* Where only the launcher moves, or the backend's process is gone.        *)
LEMMA LauncherBuilds ==
  ASSUME SensorInv, OneBackend, BuiltInv, DeploymentNext,
         \/ UNCHANGED sensor
         \/ ProcessGone /\ ~BackendRuns'
         \/ BackendEnds
  PROVE  BuiltInv'
<1>1. /\ UNCHANGED <<turns, zeek, call>> /\ past'.failed = past.failed
      /\ svc'.worker = svc.worker /\ svc'.capture = svc.capture
  BY DEF sensor, ProcessGone, BackendEnds, SensorInv, Types, SvcTypes, PastTypes
<1>2. turns /\ past'.failed = {} /\ Quiet /\ BackendRuns' => NoWorker \/ WorkerAlive'
  <2>1. CASE UNCHANGED sensor
    <3>1. BackendRuns' => BackendRuns \/ NoWorker
      BY BackendMoves DEF OneBackend
    <3>2. WorkerAlive' = WorkerAlive
      BY <2>1 DEF sensor, WorkerAlive
    <3>3. QED
      BY <1>1, <3>1, <3>2 DEF BuiltInv, Whole
  <2>2. CASE BackendEnds
    BY <2>2 DEF BackendEnds, ChildEnds, BackendRuns, Runs, OneBackend, ChildTypes, Children
  <2>3. QED
    BY <2>1, <2>2
<1>3. QED
  BY <1>1, <1>2, BesideBuilds

(* Every step is one of these. *)
LEMMA StepsOfDeployment ==
  ASSUME OneBackend, DeploymentNext
  PROVE  \/ UNCHANGED <<sensor, closing>>
         \/ ProcessGone /\ BackendRuns /\ ~BackendRuns'
         \/ \E c \in Loop : StartCall(c) /\ child["backend"] = "up" /\ UNCHANGED <<launch, closing>>
         \/ \E c \in Pool : StopCall(c) /\ child["backend"] = "up" /\ UNCHANGED <<launch, closing>>
         \/ \E c \in Callers : CallStep(c) /\ BackendRuns /\ UNCHANGED <<launch, closing>>
         \/ World \/ LifespanStops \/ BackendEnds
<1>1. CASE MainRuns
  BY <1>1 DEF MainRuns, BackendRuns, Runs
<1>2. CASE ChildrenRun
  BY <1>2 DEF ChildrenRun, ChildCrashes, BackendRuns, Runs, OneBackend, ChildTypes, Children
<1>3. QED
  BY <1>1, <1>2 DEF DeploymentNext, UserInterrupts, Requests, Served

LEMMA LastCallKeeps ==
  ASSUME SessionInv, SensorInv', DeploymentNext PROVE LastCall'
<1> SUFFICES ASSUME closing' # "no", turns', past'.failed = {}
             PROVE  /\ \A c \in Callers \ {Lifespan} : At(c, "idle")'
                    /\ call'[Lifespan].pc \in {"idle", "clear"} \cup StopZone \cup ZeekZone
                    /\ call'[Lifespan].pc \in ZeekZone => call'[Lifespan].next = "stopped"
                    /\ At(Lifespan, "idle")' /\ BackendRuns' => past'.stopped
                    /\ closing' = "returned" => At(Lifespan, "idle")' /\ past'.stopped
  BY DEF LastCall
<1>1. SensorInv /\ OneBackend /\ LastCall /\ BuiltInv /\ Lifespan \in Callers
  BY LifespanAssumption DEF SessionInv, Callers
<1>2. CASE LifespanStops
  BY <1>1, <1>2 DEF LifespanStops, StopCall, Quiet, At, Goes, StopZone, ZeekZone, SensorInv, Types, CallTypes
<1>3. CASE closing # "no" /\ UNCHANGED <<sensor, closing>>
  <2>1. BackendRuns' => BackendRuns
    BY <1>1, <1>3, BackendMoves DEF OneBackend
  <2>2. QED
    BY <1>1, <1>3, <2>1 DEF LastCall, sensor, At
<1>4. CASE closing # "no" /\ ProcessGone /\ BackendRuns /\ ~BackendRuns'
  <2>1. UNCHANGED <<turns, call, closing>> /\ past'.failed = past.failed
    BY <1>1, <1>4 DEF ProcessGone, SensorInv, Types, PastTypes
  <2>2. closing # "returned"
    BY <1>1, <1>4 DEF OneBackend, BackendRuns, Runs
  <2>3. QED
    BY <1>1, <1>4, <2>1, <2>2 DEF LastCall, At
<1>5. ASSUME closing # "no", NEW c \in Callers, CallStep(c), BackendRuns, UNCHANGED <<launch, closing>>
      PROVE  LastCall'
  <2>1. turns /\ past.failed = {} /\ ~At(c, "idle") /\ \A d \in Callers \ {c} : call'[d] = call[d]
    BY <1>1, <1>5, CallStepMoves, FailuresStay
  <2>2. c = Lifespan /\ Built(c)
    BY <1>1, <1>5, <2>1 DEF LastCall, BuiltInv
  <2>3. \A d \in Callers \ {Lifespan} : At(d, "idle")'
    BY <1>1, <1>5, <2>1, <2>2 DEF LastCall, At
  <2>4. closing # "returned" /\ closing' = closing
    BY <1>1, <1>5 DEF OneBackend, BackendRuns, Runs
  <2>5. CASE StopStep(c)
    <3>1. /\ ~At(c, "idle")'
          /\ call'[c].pc \in StopZone \cup {"clear"} \/ (call'[c].pc = "zstop" /\ call'[c].next = "stopped")
      BY <1>1, <1>5, <2>1, <2>2, <2>5, StopTakesDown
    <3>2. QED
      BY <2>2, <2>3, <2>4, <3>1 DEF LastCall, At, StopZone, ZeekZone
  <2>6. CASE ZeekStep(c)
    <3>1. At(c, "zstop") \/ At(c, "zwait") \/ At(c, "zclear")
      BY <2>6 DEF ZeekStep, Terminate, Waited, Kill, KillLate, ClearZeek
    <3>2. call[c].next = "stopped"
      BY <1>1, <1>5, <2>1, <2>2, <3>1 DEF LastCall, At, ZeekZone
    <3>3. /\ At(c, "idle")' => past'.stopped
          /\ call'[c].pc \in ZeekZone => call'[c].next = "stopped"
          /\ call'[c].pc \in ZeekZone \cup {"idle"}
      BY <1>1, <1>5, <2>1, <2>2, <2>6, <3>2, ZeekTakenDown
    <3>4. QED
      BY <2>2, <2>3, <2>4, <3>3 DEF LastCall, At
  <2>7. CASE StartStep(c)
    <3>1. call[c].pc \in StartZone
      BY <2>7 DEF StartStep, Verify, Watch, Launch, Settle, ResetSession, Attach, Sniff, MakeThread, Spin, Undo, At,
         StartZone
    <3>2. QED
      BY <1>1, <1>5, <2>1, <2>2, <3>1 DEF LastCall, StartZone, StopZone, ZeekZone
  <2>8. QED
    BY <1>5, <2>5, <2>6, <2>7 DEF CallStep
<1>6. CASE closing # "no" /\ World
  <2>1. UNCHANGED <<turns, call, closing>> /\ past'.stopped = past.stopped /\ (past'.failed = {} => past.failed = {})
    <3>1. past = [outlived |-> past.outlived, late |-> past.late, failed |-> past.failed, stopped |-> past.stopped]
      BY <1>1 DEF SensorInv, Types, PastTypes
    <3>2. UNCHANGED closing
      BY <1>6 DEF World
    <3>3. CASE \E z \in zeek.live : ZeekDies(z)
      BY <3>2, <3>3 DEF ZeekDies
    <3>4. CASE Threads
      <4>1. CASE \E w \in svc.workers : WorkerEnds(w)
        BY <3>2, <4>1 DEF WorkerEnds
      <4>2. CASE \E w \in svc.workers : WorkerFails(w)
        BY <3>1, <3>2, <4>2 DEF WorkerFails
      <4>3. QED
        BY <3>4, <4>1, <4>2 DEF Threads
    <3>5. QED
      BY <1>6, <3>3, <3>4 DEF World
  <2>2. BackendRuns' = BackendRuns
    BY <1>6 DEF World, launch, BackendRuns, Runs
  <2>3. QED
    BY <1>1, <1>6, <2>1, <2>2 DEF LastCall, At
<1>7. CASE BackendEnds
  <2>1. UNCHANGED <<turns, call, past>> /\ Quiet /\ closing = "called" /\ BackendRuns
    BY <1>7 DEF BackendEnds, BackendRuns, Runs
  <2>2. QED
    BY <1>1, <2>1 DEF LastCall, At, Quiet
<1>8. CASE closing = "no"
  BY <1>1, <1>2, <1>8, StepsOfDeployment DEF ProcessGone, World, BackendEnds
<1>9. QED
  BY <1>1, <1>2, <1>3, <1>4, <1>5, <1>6, <1>7, <1>8, StepsOfDeployment DEF OneBackend, LastCall

LEMMA SessionKeeps == SessionInv /\ [DeploymentNext]_all => SessionInv'
<1> SUFFICES ASSUME SessionInv, [DeploymentNext]_all PROVE SessionInv'
  OBVIOUS
<1>1. SensorInv'
  BY DeploymentKeeps DEF SessionInv
<1>2. CASE UNCHANGED all
  BY <1>1, <1>2 DEF all, launch, sensor, SessionInv, OneBackend, ChildTypes, BuiltInv, Built, Whole, LastCall, Quiet, At,
     NoWorker, NoCapture, WorkerAlive, BackendRuns, Runs
<1>3. CASE DeploymentNext
  <2>1. SensorInv /\ OneBackend /\ BuiltInv /\ OneBackend' /\ LastCall'
    BY <1>1, <1>3, BackendMoves, LastCallKeeps DEF SessionInv
  <2>2. ASSUME NEW c \in Callers, StopCall(c) \/ (StartCall(c) /\ child["backend"] = "up") PROVE BuiltInv'
    BY <1>1, <2>1, <2>2, RequestBuilds DEF BackendRuns, Runs
  <2>3. ASSUME LifespanStops PROVE BuiltInv'
    BY <2>2, <2>3, LifespanAssumption DEF LifespanStops, Callers
  <2>4. BuiltInv'
    <3>1. CASE UNCHANGED <<sensor, closing>> \/ (ProcessGone /\ ~BackendRuns') \/ BackendEnds
      BY <1>3, <2>1, <3>1, LauncherBuilds
    <3>2. ASSUME NEW c \in Callers, CallStep(c) PROVE BuiltInv'
      BY <1>1, <2>1, <3>2, ServedBuilds
    <3>3. CASE World
      BY <2>1, <3>3, WorldBuilds
    <3>4. QED
      BY <1>3, <2>1, <2>2, <2>3, <3>1, <3>2, <3>3, StepsOfDeployment DEF Callers
  <2>5. QED
    BY <1>1, <2>1, <2>4 DEF SessionInv
<1>4. QED
  BY <1>2, <1>3

(* For any callers, calls, crashes and presses of Ctrl+C, a call has built  *)
(* and taken down what its position says (live_service.py:133-221), and     *)
(* the lifespan's stop is the last (main.py:64-72).                         *)
THEOREM SessionInvariant == DeploymentSpec => []SessionInv
BY SessionStarts, SessionKeeps, PTL DEF DeploymentSpec

(* In turns, whichever step of start or stop failed, the service is left    *)
(* with a worker and a capture or with neither, and without them no Zeek    *)
(* runs (live_service.py:170-200), but for the failures that the code has   *)
(* no answer to.                                                           *)
THEOREM AllOrNothingSafe == DeploymentSpec => []AllOrNothing
<1>1. SessionInv => AllOrNothing
  BY DEF SessionInv, BuiltInv, AllOrNothing, Whole, NoWorker, NoCapture
<1>2. QED
  BY <1>1, SessionInvariant, PTL

(* In turns, a backend that ended in order left no Zeek behind              *)
(* (main.py:64-72).                                                        *)
THEOREM OrderlyEndSafe == DeploymentSpec => []OrderlyEndStopsZeek
<1>1. SessionInv => OrderlyEndStopsZeek
  <2> SUFFICES ASSUME SessionInv, closing = "returned", turns, past.failed = {} PROVE past.stopped
    BY DEF SessionInv, SensorInv, InTurns, OfService, OrderlyEndStopsZeek
  <2>1. QED
    BY DEF SessionInv, LastCall
<1>2. QED
  BY <1>1, SessionInvariant, PTL

-----------------------------------------------------------------------------
(* From the installer's answer to the backend's Zeek *)

(* Where main is once Zeek was found. *)
PastZeek == {"privileges", "imports", "startBackend", "listBackend", "awaitBackend",
             "startDashboard", "listDashboard", "awaitDashboard", "watch"}

FoundInv ==
  /\ InstalledMeansFound
  /\ main \in PastZeek => ManagerFinds \/ Unusable

(* A command that counts left Zeek where ZeekManager looks, or left one     *)
(* there that lacks the execute bit.                                       *)
LEMMA CommandFinds ==
  ASSUME InstalledMeansFound, step # "done", NEW places, NEW next, NEW looked, NEW path,
         looked \subseteq {"opt", "brew", "local", "usr", "tree"}, path \subseteq host.path, next # "done",
         Command(places, path, looked, next)
  PROVE  InstalledMeansFound'
<1>1. host' = host /\ \/ files' \cap looked # {}
                      \/ (files' \ plain') \cap path # {}
                      \/ step' # "done"
                      \/ found' = FALSE
  BY DEF Command, Reports
<1>2. ASSUME files' \cap looked # {} PROVE (ManagerFinds \/ Unusable)'
  BY <1>2 DEF ManagerFinds, Unusable, LocalTree, Common, OnPath
<1>3. ASSUME (files' \ plain') \cap path # {} PROVE ManagerFinds'
  BY <1>1, <1>3 DEF ManagerFinds, OnPath
<1>4. QED
  BY <1>1, <1>2, <1>3 DEF InstalledMeansFound

LEMMA InstallerFinds == ASSUME InstalledMeansFound, step # "done", InstallerNext PROVE InstalledMeansFound'
<1>1. ASSUME NEW tool PROVE LinuxFrom(tool) # "done"
  BY DEF LinuxFrom
<1>2. CASE Ensure
  <2>1. host' = host /\ files' = files /\ plain' = plain
    BY <1>2 DEF Ensure
  <2>2. CASE OnPath \/ Known \/ LocalTree
    <3>1. (ManagerFinds \/ Unusable)'
      BY <2>1, <2>2 DEF ManagerFinds, Unusable, OnPath, Known, LocalTree, Common
    <3>2. QED
      BY <3>1 DEF InstalledMeansFound
  <2>3. CASE ~(OnPath \/ Known \/ LocalTree)
    BY <1>1, <1>2, <2>3 DEF Ensure, InstalledMeansFound
  <2>4. QED
    BY <2>2, <2>3
<1>3. CASE Bootstrap \/ Denied \/ Nothing
  BY <1>3 DEF Bootstrap, Denied, Nothing, Reports, InstalledMeansFound
<1>4. CASE Brew
  BY <1>4, CommandFinds DEF Brew
<1>5. CASE Official
  <2>1. CASE host.known
    BY <1>5, <2>1, CommandFinds DEF Official
  <2>2. CASE ~host.known
    BY <1>5, <2>2 DEF Official, InstalledMeansFound
  <2>3. QED
    BY <2>1, <2>2
<1>6. CASE Packages
  BY <1>1, <1>6, CommandFinds DEF Packages
<1>7. CASE Windows
  <2>1. CASE Has("powershell")
    BY <1>7, <2>1, CommandFinds DEF Windows
  <2>2. CASE ~Has("powershell")
    BY <1>7, <2>2 DEF Windows, Reports, InstalledMeansFound
  <2>3. QED
    BY <2>1, <2>2
<1>8. QED
  BY <1>2, <1>3, <1>4, <1>5, <1>6, <1>7 DEF InstallerNext

LEMMA SetupStays ==
  ASSUME UNCHANGED setup
  PROVE  (InstalledMeansFound <=> InstalledMeansFound') /\ (ManagerFinds \/ Unusable <=> (ManagerFinds \/ Unusable)')
<1>1. host' = host /\ files' = files /\ plain' = plain /\ step' = step /\ found' = found
  BY DEF setup
<1>2. ManagerFinds \/ Unusable <=> (ManagerFinds \/ Unusable)'
  BY <1>1 DEF ManagerFinds, Unusable, OnPath, LocalTree
<1>3. QED
  BY <1>1, <1>2 DEF InstalledMeansFound

LEMMA FoundKeeps == FoundInv /\ [DeploymentNext]_all => FoundInv'
<1> SUFFICES ASSUME FoundInv, [DeploymentNext]_all PROVE FoundInv'
  OBVIOUS
<1> USE DEF FoundInv, PastZeek
<1>1. CASE UNCHANGED setup /\ main' = main
  BY <1>1, SetupStays
<1>2. CASE UserInterrupts
  BY <1>2, SetupStays DEF UserInterrupts, Interrupt
<1>3. CASE MainStep
  <2>1. CASE Install
    BY <2>1, InstallerFinds DEF Install
  <2>2. CASE FindZeek
    <3>1. CASE LocalTree \/ OnPath
      BY <2>2, <3>1, SetupStays DEF FindZeek, Continue, ManagerFinds
    <3>2. CASE ~(LocalTree \/ OnPath)
      BY <2>2, <3>2 DEF FindZeek, Continue, InstalledMeansFound
    <3>3. QED
      BY <3>1, <3>2
  <2>3. CASE Installed
    BY <2>3, SetupStays DEF Installed, Continue, Fail, InstalledMeansFound
  <2>4. CASE Privileges
    <3>1. CASE host.root \/ env.elevated
      BY <2>4, <3>1, SetupStays DEF Privileges, Continue
    <3>2. CASE ~(host.root \/ env.elevated)
      BY <2>4, <3>2, SetupStays DEF Privileges, Continue, Fail, InstalledMeansFound
    <3>3. QED
      BY <3>1, <3>2
  <2>5. CASE Python \/ Imports \/ StartBackend \/ ListBackend \/ AwaitBackend \/ StartDashboard \/ ListDashboard
             \/ AwaitDashboard
             \/ WatchChildren \/ SignalAll \/ EndDashboard \/ EndBackend
    <3>1. UNCHANGED setup
      BY <2>5 DEF Python, Imports, StartBackend, AwaitBackend, StartDashboard, AwaitDashboard, Await, StartChild,
         ListBackend, ListDashboard, ListChild,
         WatchChildren, SignalAll, EndDashboard, EndBackend, EndChild
    <3>2. main' \notin PastZeek \/ main \in PastZeek
      BY <2>5 DEF Python, Imports, StartBackend, AwaitBackend, StartDashboard, AwaitDashboard, Await, StartChild,
         ListBackend, ListDashboard, ListChild,
         WatchChildren, SignalAll, EndDashboard, EndBackend, EndChild, Fail, Continue
    <3>3. QED
      BY <3>1, <3>2, SetupStays
  <2>6. QED
    BY <1>3, <2>1, <2>2, <2>3, <2>4, <2>5 DEF MainStep
<1>4. QED
  BY <1>1, <1>2, <1>3 DEF DeploymentNext, MainRuns, ChildrenRun, ChildAnswers, ChildEnds, ChildCrashes,
     Requests, Served, World, LifespanStops, BackendEnds, all, launch

(* On any host, whatever its installers do and sudo makes of PATH, the      *)
(* installer claims only a Zeek that the backend finds, and the launcher    *)
(* gets to its watch only with one (installer.py:82-108, app.py:121-147),   *)
(* unless a zeek in a standard place lacks the execute bit, which the        *)
(* installer does not look at and the manager does (manager.py:100).        *)
THEOREM ZeekFoundSafe == DeploymentSpec => []ZeekIsFound
<1>1. DeploymentInit => FoundInv
  BY DEF DeploymentInit, LauncherInit, InstallerInit, FoundInv, PastZeek, InstalledMeansFound
<1>2. FoundInv => ZeekIsFound
  BY DEF FoundInv, PastZeek, ZeekIsFound, ReadyMeansSensor
<1>3. QED
  BY <1>1, <1>2, FoundKeeps, PTL DEF DeploymentSpec

-----------------------------------------------------------------------------
(* The launcher's children: whom a finished step of the shutdown waited for *)
(* has ended, nobody starts a child afterwards, and a child is missing in    *)
(* the list only until main appends it, or when a Ctrl+C told it to end.     *)

AboutToList == CASE main = "listBackend" -> {"backend"} [] main = "listDashboard" -> {"dashboard"} [] OTHER -> {}

ListedOrEnding == \A p \in Children : Runs(p) => p \in listed \cup AboutToList \/ child[p] = "ending"

ShutdownInv ==
  /\ ChildTypes
  /\ ListedOrEnding
  /\ main = "endBackend" => ~Runs("dashboard") \/ "dashboard" \notin listed
  /\ NoChildLeft

LEMMA ShutdownKeeps == ShutdownInv /\ [DeploymentNext]_all => ShutdownInv'
<1> SUFFICES ASSUME ShutdownInv, [DeploymentNext]_all PROVE ShutdownInv'
  OBVIOUS
<1> USE DEF ShutdownInv, ChildTypes, NoChildLeft, ListedOrEnding, AboutToList, Runs, Children
<1>1. CASE MainStep
  <2>1. CASE StartBackend \/ StartDashboard
    BY <2>1 DEF StartBackend, StartDashboard, StartChild, Continue, Fail
  <2>2. CASE ListBackend \/ ListDashboard
    BY <2>2 DEF ListBackend, ListDashboard, ListChild, Continue
  <2>3. CASE SignalAll
    BY <2>3 DEF SignalAll, Signalled, Continue
  <2>4. CASE EndDashboard
    BY <2>4 DEF EndDashboard, EndChild, Continue
  <2>5. CASE EndBackend
    BY <2>5 DEF EndBackend, EndChild, Continue
  <2>6. CASE Python \/ FindZeek \/ Install \/ Installed \/ Privileges \/ Imports \/ AwaitBackend \/ AwaitDashboard
             \/ WatchChildren
    <3>1. child' = child /\ listed' = listed
      BY <2>6 DEF Python, FindZeek, Install, Installed, Privileges, Imports, AwaitBackend, AwaitDashboard, Await,
         WatchChildren
    <3>2. main \notin {"listBackend", "listDashboard", "endBackend", "done"}
          /\ main' \notin {"endBackend", "done"}
      BY <2>6 DEF Python, FindZeek, Install, Installed, Privileges, Imports, AwaitBackend, AwaitDashboard, Await,
         WatchChildren, Fail, Continue
    <3>3. QED
      BY <3>1, <3>2
  <2>7. QED
    BY <1>1, <2>1, <2>2, <2>3, <2>4, <2>5, <2>6 DEF MainStep
<1>2. CASE UserInterrupts
  BY <1>2 DEF UserInterrupts, Interrupt, Signalled
<1>3. CASE \E p \in Children : ChildAnswers(p) \/ ChildEnds(p) \/ ChildCrashes(p)
  BY <1>3 DEF ChildAnswers, ChildEnds, ChildCrashes
<1>4. CASE UNCHANGED launch
  BY <1>4 DEF launch
<1>5. QED
  BY <1>1, <1>2, <1>3, <1>4 DEF DeploymentNext, MainRuns, ChildrenRun, Requests, Served, World, LifespanStops,
     BackendEnds, all, Children

(* Whatever failed, crashed or was interrupted before, when the launcher     *)
(* returns every child it has listed has ended, and one that a Ctrl+C kept    *)
(* from the list has a signal to end; only a Ctrl+C in the shutdown itself or  *)
(* a last wait that times out leaves one behind (app.py:167-178, 187-192,     *)
(* 227-228).                                                               *)
THEOREM NoChildLeftSafe == DeploymentSpec => []NoChildLeft
<1>1. DeploymentInit => ShutdownInv
  BY DEF DeploymentInit, LauncherInit, ShutdownInv, ChildTypes, ListedOrEnding, Runs, NoChildLeft, Children
<1>2. ShutdownInv => NoChildLeft
  BY DEF ShutdownInv
<1>3. QED
  BY <1>1, <1>2, ShutdownKeeps, PTL DEF DeploymentSpec

-----------------------------------------------------------------------------
(* A call of start or stop goes forward only: what is left of it, in steps   *)
(* of its own. The zeek.stop that ends the check of a start is followed by    *)
(* the launch and all that comes after it.                                 *)

AfterZeek(c) == IF call[c].next = "launch" THEN 11 ELSE 0

Left(c) ==
  CASE At(c, "idle")   -> 0
    [] At(c, "zclear") -> AfterZeek(c) + 1
    [] At(c, "zwait")  -> AfterZeek(c) + 2
    [] At(c, "zstop")  -> AfterZeek(c) + 3
    [] At(c, "undo") \/ At(c, "clear")    -> 4
    [] At(c, "spin") \/ At(c, "joining")  -> 5
    [] At(c, "thread") \/ At(c, "join")   -> 6
    [] At(c, "sniff") \/ At(c, "check")   -> 7
    [] At(c, "attach") \/ At(c, "detach") -> 8
    [] At(c, "reset")  -> 9
    [] At(c, "settle") -> 10
    [] At(c, "launch") -> 11
    [] At(c, "watch")  -> 15
    [] At(c, "verify") -> 16

(* A call has a bounded number of steps left; each of its own makes it       *)
(* fewer, and nothing else changes it.                                     *)
CallsGoForward ==
  \A c \in Callers : ~At(c, "idle") =>
    /\ Left(c) \in 1..16
    /\ IF Served(c) THEN Left(c)' < Left(c) ELSE Left(c)' = Left(c)

LEMMA StepsShorten ==
  ASSUME SensorInv, NEW c \in Callers, CallStep(c) PROVE Left(c)' < Left(c)
<1> USE DEF Left, AfterZeek, At, Goes, Ends, Quits, Idle, SensorInv, Types, CallTypes
<1>1. CASE StartStep(c)
  <2>1. CASE Verify(c)
    BY <2>1 DEF Verify, Spawn
  <2>2. CASE Watch(c)
    BY <2>2 DEF Watch
  <2>3. CASE Launch(c)
    BY <2>3 DEF Launch, Spawn
  <2>4. CASE Settle(c)
    BY <2>4 DEF Settle
  <2>5. CASE ResetSession(c) \/ Attach(c) \/ MakeThread(c)
    BY <2>5 DEF ResetSession, Attach, MakeThread
  <2>6. CASE Sniff(c)
    BY <2>6 DEF Sniff
  <2>7. CASE Spin(c)
    BY <2>7 DEF Spin
  <2>8. CASE Undo(c)
    BY <2>8 DEF Undo
  <2>9. QED
    BY <1>1, <2>1, <2>2, <2>3, <2>4, <2>5, <2>6, <2>7, <2>8 DEF StartStep
<1>2. CASE StopStep(c)
  <2>1. CASE Detach(c) \/ CheckWorker(c)
    BY <2>1 DEF Detach, CheckWorker
  <2>2. CASE Join(c)
    BY <2>2 DEF Join
  <2>3. CASE Joined(c) \/ ClearWorker(c)
    BY <2>3 DEF Joined, ClearWorker
  <2>4. QED
    BY <1>2, <2>1, <2>2, <2>3 DEF StopStep
<1>3. CASE ZeekStep(c)
  <2>1. CASE Terminate(c)
    BY <2>1 DEF Terminate, Resume
  <2>2. CASE Waited(c) \/ Kill(c) \/ KillLate(c)
    BY <2>2 DEF Waited, Kill, KillLate
  <2>3. CASE ClearZeek(c)
    BY <2>3 DEF ClearZeek, Resume
  <2>4. QED
    BY <1>3, <2>1, <2>2, <2>3 DEF ZeekStep
<1>4. QED
  BY <1>1, <1>2, <1>3 DEF CallStep

(* In turns or not, every step of a call brings it nearer to its end, no      *)
(* step of any other call, thread or process takes it back, and a call has  *)
(* at most 16 steps: start's check and launch, each wait and the rollback    *)
(* included (live_service.py:133-220, manager.py:345-467).                   *)
THEOREM CallsAdvance == DeploymentSpec => [][CallsGoForward]_all
<1>1. SensorInv /\ [DeploymentNext]_all => [CallsGoForward]_all
  <2> SUFFICES ASSUME SensorInv, [DeploymentNext]_all, NEW c \in Callers, ~At(c, "idle")
               PROVE  /\ Left(c) \in 1..16
                      /\ IF Served(c) THEN Left(c)' < Left(c) ELSE Left(c)' = Left(c)
    BY DEF CallsGoForward
  <2>1. Left(c) \in 1..16
    BY DEF Left, AfterZeek, At, SensorInv, Types, CallTypes, Positions, StartZone, StopZone, ZeekZone
  <2>2. call'[c] = call[c] => Left(c)' = Left(c)
    BY DEF Left, AfterZeek, At
  <2>3. Served(c) => Left(c)' < Left(c)
    BY StepsShorten DEF Served
  <2>4. CASE \E d \in Callers \ {c} : Served(d)
    <3>1. call'[c] = call[c]
      BY <2>4, CallStepMoves DEF Served
    <3>2. QED
      BY <2>1, <2>2, <2>3, <3>1
  <2>5. CASE ~\E d \in Callers : Served(d)
    <3>1. call'[c] = call[c]
      BY <2>5 DEF DeploymentNext, MainRuns, UserInterrupts, ChildrenRun, Requests, World, LifespanStops, BackendEnds,
         ProcessGone, sensor, all, StartCall, StopCall, Goes, Ends, At, Idle, Threads, WorkerEnds, WorkerFails, ZeekDies,
         SensorInv, Types, CallTypes
    <3>2. QED
      BY <2>1, <2>2, <2>5, <3>1
  <2>6. QED
    BY <2>1, <2>3, <2>4, <2>5
<1>2. QED
  BY <1>1, SensorInvariant, PTL DEF DeploymentSpec

=============================================================================
