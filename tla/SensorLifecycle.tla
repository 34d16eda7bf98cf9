-------------------------- MODULE SensorLifecycle --------------------------
(***************************************************************************)
(* LiveMonitoringService.start and stop (backend/live_service.py) over      *)
(* ZeekManager (src/zeek/manager.py) and LivePacketCapture: the Zeek         *)
(* process, the packet capture and the worker thread of a session.          *)
(*                                                                         *)
(* start runs on the event loop, one call at a time; stop runs in pool      *)
(* threads. One action is one access to the service's attributes, in the   *)
(* order of the code. turns = TRUE lets one call end before another begins, *)
(* turns = FALSE is what the threads may do. Zeek processes, captures and   *)
(* workers are numbered; 0 is None.                                        *)
(***************************************************************************)
EXTENDS Naturals, FiniteSets

CONSTANTS
  Loop,      \* callers of start: the event loop
  Pool,      \* callers of stop: pool threads, and the lifespan at shutdown
  Budgets    \* bound: the calls of start and stop there may be, [starts, stops]

ASSUME CallerAssumption == Loop \cap Pool = {}
ASSUME CallsAssumption  == Budgets \subseteq [starts : Nat, stops : Nat]

Callers == Loop \cup Pool
(* What the operating system may say of the selected interface. *)
Nics    == {"up", "unknown", "down", "absent", "loopback"}

VARIABLES
  turns,  \* chosen once: calls do not overlap
  zeek,   \* [process |-> ZeekManager.process, live |-> Zeek processes that run]
  made,   \* objects made so far
  svc,    \* worker, packet_capture, stop_event and what of them still runs
  call,   \* each caller's position, what follows zeek.stop, what it waits for
  budget, \* calls of start and stop left
  past    \* history, see SensorInit

sensor == <<turns, zeek, made, svc, call, budget, past>>

Idle == [pc |-> "idle", next |-> "idle", target |-> 0]

SensorInit ==
  /\ turns \in BOOLEAN
  /\ zeek = [process |-> 0, live |-> {}]
  /\ made = 0
  /\ svc = [worker |-> 0, workers |-> {}, capture |-> 0, captures |-> {}, stopEvent |-> FALSE]
  /\ call = [c \in Callers |-> Idle]
  /\ budget \in Budgets
  /\ past = [outlived |-> {}, \* workers that stop stopped waiting for
             late |-> {},     \* captures that went on after their stop, or got none
             failed |-> {},   \* failures that the code has no answer to
             stopped |-> TRUE] \* the last call was a stop that returned, or there was none

-----------------------------------------------------------------------------
At(c, pc)   == call[c].pc = pc
Goes(c, pc) == call' = [call EXCEPT ![c].pc = pc]
Ends(c)     == call' = [call EXCEPT ![c] = Idle]
Quits(c, next) == call' = [call EXCEPT ![c].pc = "zstop", ![c].next = next]
Turn(c)     == turns => \A d \in Callers \ {c} : At(d, "idle")

WorkerAlive == svc.worker \in svc.workers
ZeekRuns    == zeek.process \in zeek.live

(* list_interface_details and validate_interface: an interface is good for *)
(* capture when it is listed, up or in an unknown state, and no loopback.   *)
IsUp(nic)  == nic \in {"up", "unknown", "loopback"}
Valid(nic) == nic # "absent" /\ nic # "loopback" /\ IsUp(nic)

(* ZeekManager.start: another validation, as the interface may change any  *)
(* time, and Popen: the new process is running or already dead.            *)
Spawn(c, next) ==
  /\ \E nic \in Nics : Valid(nic)
  /\ made' = made + 1
  /\ \E live \in {zeek.live, zeek.live \cup {made + 1}} :
       zeek' = [process |-> made + 1, live |-> live]
  /\ Goes(c, next)

-----------------------------------------------------------------------------
(* start                                                                   *)

StartCall(c) ==
  /\ At(c, "idle") /\ Turn(c) /\ budget.starts > 0
  /\ budget' = [budget EXCEPT !.starts = @ - 1]
  /\ \E nic \in Nics :
       IF WorkerAlive \/ ~Valid(nic) THEN Ends(c) /\ UNCHANGED past
       ELSE Goes(c, "verify") /\ past' = [past EXCEPT !.stopped = FALSE]
  /\ UNCHANGED <<turns, zeek, made, svc>>

(* verify_live_capture: a running Zeek is taken for ready and left alone;  *)
(* otherwise one is started for a check.                                   *)
Verify(c) ==
  /\ At(c, "verify")
  /\ \/ ZeekRuns /\ Goes(c, "launch") /\ UNCHANGED <<zeek, made>>
     \/ ~ZeekRuns /\ Spawn(c, "watch")
     \/ ~ZeekRuns /\ Quits(c, "idle") /\ UNCHANGED <<zeek, made>>
  /\ UNCHANGED <<turns, svc, budget, past>>

(* ... watched until its log appears or the time is up, and stopped. *)
Watch(c) ==
  /\ At(c, "watch")
  /\ Quits(c, IF ZeekRuns THEN "launch" ELSE "idle")
  /\ UNCHANGED <<turns, zeek, made, svc, budget, past>>

(* zeek.start for the session; it refuses when Zeek runs or cannot start. *)
Launch(c) ==
  /\ At(c, "launch")
  /\ \/ ~ZeekRuns /\ Spawn(c, "settle")
     \/ Ends(c) /\ UNCHANGED <<zeek, made>>
  /\ UNCHANGED <<turns, svc, budget, past>>

Settle(c) ==
  /\ At(c, "settle")
  /\ IF ZeekRuns THEN Goes(c, "reset") /\ UNCHANGED zeek
     ELSE Ends(c) /\ zeek' = [zeek EXCEPT !.process = 0]
  /\ UNCHANGED <<turns, made, svc, budget, past>>

(* stop_event.clear, pipeline.reset, a fresh latest_ml. *)
ResetSession(c) ==
  /\ At(c, "reset")
  /\ svc' = [svc EXCEPT !.stopEvent = FALSE]
  /\ Goes(c, "attach")
  /\ UNCHANGED <<turns, zeek, made, budget, past>>

Attach(c) ==
  /\ At(c, "attach")
  /\ made' = made + 1
  /\ svc' = [svc EXCEPT !.capture = made + 1]
  /\ Goes(c, "sniff")
  /\ UNCHANGED <<turns, zeek, budget, past>>

(* Mutant of Sniff: a capture that cannot start leaves Zeek running. *)
SniffOnly(c) ==
  /\ At(c, "sniff")
  /\ \/ svc.capture # 0 /\ Goes(c, "thread")
        /\ svc' = [svc EXCEPT !.captures = @ \cup {svc.capture}]
     \/ Ends(c) /\ svc' = [svc EXCEPT !.capture = 0]
  /\ UNCHANGED <<turns, zeek, made, budget, past>>

(* packet_capture.start: sniffer and monitor run, or Zeek is stopped again. *)
(* A sniffer whose monitor thread cannot be started runs on: the service     *)
(* drops the capture without a stop.                                       *)
Sniff(c) ==
  /\ At(c, "sniff")
  /\ \/ /\ svc.capture # 0 /\ Goes(c, "thread")
        /\ svc' = [svc EXCEPT !.captures = @ \cup {svc.capture}]
        /\ UNCHANGED past
     \/ Quits(c, "idle") /\ svc' = [svc EXCEPT !.capture = 0] /\ UNCHANGED past
     \/ /\ svc.capture # 0 /\ Quits(c, "idle")
        /\ svc' = [svc EXCEPT !.capture = 0, !.captures = @ \cup {svc.capture}]
        /\ past' = [past EXCEPT !.late = @ \cup {svc.capture}]
  /\ UNCHANGED <<turns, zeek, made, budget>>

MakeThread(c) ==
  /\ At(c, "thread")
  /\ made' = made + 1
  /\ svc' = [svc EXCEPT !.worker = made + 1]
  /\ Goes(c, "spin")
  /\ UNCHANGED <<turns, zeek, budget, past>>

(* worker.start: the session runs, or everything is taken back. *)
Spin(c) ==
  /\ At(c, "spin")
  /\ \/ svc.worker # 0 /\ Ends(c) /\ svc' = [svc EXCEPT !.workers = @ \cup {svc.worker}]
     \/ Goes(c, "undo") /\ svc' = [svc EXCEPT !.worker = 0]
  /\ UNCHANGED <<turns, zeek, made, budget, past>>

(* packet_capture.stop and packet_capture = None. The capture ends, or goes *)
(* on: a monitor whose join times out, a sniffer not yet running.          *)
StopCapture ==
  \E left \in {{}, {svc.capture} \cap svc.captures} :
    /\ svc' = [svc EXCEPT !.capture = 0, !.captures = (@ \ {svc.capture}) \cup left]
    /\ past' = [past EXCEPT !.late = @ \cup left]

(* The rollback; the sniffer's stop may raise, and Zeek is left running. *)
Undo(c) ==
  /\ At(c, "undo")
  /\ \/ Quits(c, "idle") /\ StopCapture
     \/ svc.capture # 0 /\ Ends(c) /\ svc' = [svc EXCEPT !.capture = 0]
        /\ past' = [past EXCEPT !.failed = @ \cup {"rollback"}, !.late = @ \cup {svc.capture}]
  /\ UNCHANGED <<turns, zeek, made, budget>>

-----------------------------------------------------------------------------
(* stop                                                                    *)

StopCall(c) ==
  /\ At(c, "idle") /\ Turn(c)
  /\ svc' = [svc EXCEPT !.stopEvent = TRUE]
  /\ past' = [past EXCEPT !.stopped = FALSE]
  /\ Goes(c, "detach")
  /\ UNCHANGED <<turns, zeek, made>>

(* Mutant of Detach: the capture is dropped, not stopped. *)
DetachForgets(c) ==
  /\ At(c, "detach")
  /\ svc' = [svc EXCEPT !.capture = 0]
  /\ Goes(c, "check")
  /\ UNCHANGED <<turns, zeek, made, budget, past>>

(* An exception of packet_capture.stop is caught; the capture's sniffer is  *)
(* dropped all the same.                                                   *)
Detach(c) ==
  /\ At(c, "detach")
  /\ StopCapture
  /\ Goes(c, "check")
  /\ UNCHANGED <<turns, zeek, made, budget>>

(* Mutant of CheckWorker: the worker is not waited for. *)
CheckWorkerNot(c) ==
  /\ At(c, "check")
  /\ Goes(c, "clear")
  /\ UNCHANGED <<turns, zeek, made, svc, budget, past>>

CheckWorker(c) ==
  /\ At(c, "check")
  /\ Goes(c, IF WorkerAlive THEN "join" ELSE "clear")
  /\ UNCHANGED <<turns, zeek, made, svc, budget, past>>

(* self.worker is read again: None after another stop, an AttributeError. *)
Join(c) ==
  /\ At(c, "join")
  /\ IF svc.worker = 0 THEN Ends(c)
     ELSE call' = [call EXCEPT ![c].pc = "joining", ![c].target = svc.worker]
  /\ UNCHANGED <<turns, zeek, made, svc, budget, past>>

(* Mutant of Joined: a join without a time limit. *)
JoinedOnly(c) ==
  /\ At(c, "joining") /\ call[c].target \notin svc.workers
  /\ Goes(c, "clear")
  /\ UNCHANGED <<turns, zeek, made, svc, budget, past>>

(* The worker ended, or three seconds passed. *)
Joined(c) ==
  /\ At(c, "joining")
  /\ past' = [past EXCEPT !.outlived = @ \cup ({call[c].target} \cap svc.workers)]
  /\ Goes(c, "clear")
  /\ UNCHANGED <<turns, zeek, made, svc, budget>>

ClearWorker(c) ==
  /\ At(c, "clear")
  /\ svc' = [svc EXCEPT !.worker = 0]
  /\ Quits(c, "stopped")
  /\ UNCHANGED <<turns, zeek, made, budget, past>>

-----------------------------------------------------------------------------
(* ZeekManager.stop, and what its caller does next                         *)

Resume(c) ==
  LET next == call[c].next
  IN  /\ call' = [call EXCEPT ![c] = [Idle EXCEPT !.pc = IF next = "stopped" THEN "idle" ELSE next]]
      /\ past' = [past EXCEPT !.stopped = (next = "stopped") \/ @]

Terminate(c) ==
  /\ At(c, "zstop")
  /\ IF zeek.process = 0 THEN Resume(c)
     ELSE /\ call' = [call EXCEPT ![c].pc = IF ZeekRuns THEN "zwait" ELSE "zclear",
                                  ![c].target = zeek.process]
          /\ UNCHANGED past
  /\ UNCHANGED <<turns, zeek, made, svc, budget>>

(* SIGTERM works in time, *)
Waited(c) ==
  /\ At(c, "zwait")
  /\ zeek' = [zeek EXCEPT !.live = @ \ {call[c].target}]
  /\ Goes(c, "zclear")
  /\ UNCHANGED <<turns, made, svc, budget, past>>

(* Mutant of Kill: nobody kills it. *)
KillNot(c) ==
  /\ At(c, "zwait")
  /\ Goes(c, "zclear")
  /\ UNCHANGED <<turns, zeek, made, svc, budget, past>>

(* or SIGKILL does, to whatever process is set by then; *)
Kill(c) ==
  /\ At(c, "zwait")
  /\ IF zeek.process = 0 THEN Ends(c) /\ UNCHANGED zeek
     ELSE zeek' = [zeek EXCEPT !.live = @ \ {zeek.process}] /\ Goes(c, "zclear")
  /\ UNCHANGED <<turns, made, svc, budget, past>>

(* or not even that within two seconds: TimeoutExpired, process stays set. *)
KillLate(c) ==
  /\ At(c, "zwait") /\ ZeekRuns
  /\ Ends(c)
  /\ past' = [past EXCEPT !.failed = @ \cup {"kill"}]
  /\ UNCHANGED <<turns, zeek, made, svc, budget>>

ClearZeek(c) ==
  /\ At(c, "zclear")
  /\ zeek' = [zeek EXCEPT !.process = 0]
  /\ Resume(c)
  /\ UNCHANGED <<turns, made, svc, budget>>

-----------------------------------------------------------------------------
(* What the calls do not control                                           *)

ZeekDies(z) ==
  /\ z \in zeek.live
  /\ zeek' = [zeek EXCEPT !.live = @ \ {z}]
  /\ UNCHANGED <<turns, made, svc, call, budget, past>>

(* LiveZeekReader.run sees the stop event. *)
WorkerEnds(w) ==
  /\ w \in svc.workers /\ svc.stopEvent
  /\ svc' = [svc EXCEPT !.workers = @ \ {w}]
  /\ UNCHANGED <<turns, zeek, made, call, budget, past>>

(* An exception ends the worker; Zeek and the capture go on. *)
WorkerFails(w) ==
  /\ w \in svc.workers /\ ~svc.stopEvent
  /\ svc' = [svc EXCEPT !.workers = @ \ {w}]
  /\ past' = [past EXCEPT !.failed = @ \cup {"worker"}]
  /\ UNCHANGED <<turns, zeek, made, call, budget>>

StartStep(c) == \/ Verify(c) \/ Watch(c) \/ Launch(c) \/ Settle(c) \/ ResetSession(c)
                \/ Attach(c) \/ Sniff(c) \/ MakeThread(c) \/ Spin(c) \/ Undo(c)
StopStep(c)  == Detach(c) \/ CheckWorker(c) \/ Join(c) \/ Joined(c) \/ ClearWorker(c)
ZeekStep(c)  == Terminate(c) \/ Waited(c) \/ Kill(c) \/ KillLate(c) \/ ClearZeek(c)
CallStep(c)  == StartStep(c) \/ StopStep(c) \/ ZeekStep(c)

Threads == \E w \in svc.workers : WorkerEnds(w) \/ WorkerFails(w)

-----------------------------------------------------------------------------
Quiet == \A c \in Callers : At(c, "idle")

SensorTypeOK ==
  /\ turns \in BOOLEAN /\ made \in Nat
  /\ zeek.process \in 0..made /\ zeek.live \subseteq 1..made
  /\ svc.worker \in 0..made /\ svc.workers \subseteq 1..made
  /\ svc.capture \in 0..made /\ svc.captures \subseteq 1..made
  /\ svc.stopEvent \in BOOLEAN
  /\ past.outlived \subseteq 1..made /\ past.late \subseteq 1..made

(* After a stop that returned nothing of the service runs any more: no     *)
(* Zeek, and no capture or worker but those that outlived the time stop     *)
(* gives them (main.py:149-153, live_service.py:204-220), and a capture      *)
(* whose start failed half-way (172-175). A session whose worker died by    *)
(* itself is not promised that: a start beside it drops its capture without *)
(* a stop.                                                                  *)
StoppedClean ==
  turns /\ Quiet /\ past.stopped =>
    /\ zeek.live = {}
    /\ svc.workers \subseteq past.outlived
    /\ svc.captures \subseteq past.late \/ "worker" \in past.failed

(* Between calls the service runs as a whole or not at all, whichever step *)
(* of a start or a stop failed (live_service.py:170-200): worker and capture *)
(* are both there or neither is, and no Zeek runs without them. Exceptions: *)
(* a worker that died, a rollback or a kill that failed itself.             *)
AllOrNothing ==
  turns /\ Quiet /\ past.failed = {} =>
    /\ svc.worker # 0 <=> svc.capture # 0
    /\ zeek.live # {} => svc.worker # 0

(* Every Zeek that runs is the one ZeekManager can stop: the check's       *)
(* process is gone before the session's is started (manager.py:354, 435).   *)
NoOrphanZeek == turns => zeek.live \subseteq {zeek.process}

(* One worker at a time reads the log, but for those stop gave up on       *)
(* (live_service.py:134, 215).                                             *)
OneWorker == turns => Cardinality(svc.workers \ past.outlived) <= 1

(* What a session owns exists once, and the service holds on to it.         *)
OneOfEach == NoOrphanZeek /\ OneWorker

(* reset runs when no worker and no capture of an earlier session is at    *)
(* work, except those stop gave up on, a capture whose start failed half-way *)
(* and that of a session whose worker died (live_service.py:155-158,         *)
(* 172-175). This is the clean stop that PacketGate's proof assumes.        *)
ResetFindsQuiet ==
  \A c \in Callers : turns /\ At(c, "reset") /\ call'[c].pc = "attach" =>
    /\ svc.workers \subseteq past.outlived
    /\ svc.captures \subseteq past.late \/ "worker" \in past.failed
=============================================================================
