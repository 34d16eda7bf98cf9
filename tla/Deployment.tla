----------------------------- MODULE Deployment -----------------------------
(***************************************************************************)
(* The launcher and the sensor together: the backend child of Launcher is  *)
(* the process in which SensorLifecycle's calls and threads run. It serves  *)
(* start and stop while it is up; told to end, it finishes the calls under  *)
(* way and its lifespan calls stop once more (main.py:64-72). When it ends, *)
(* or is killed, its threads are gone, but not a Zeek process: that one has *)
(* a session of its own (manager.py:379).                                  *)
(***************************************************************************)
EXTENDS SensorLifecycle, Launcher

CONSTANT Lifespan \* the caller of stop at shutdown
ASSUME LifespanAssumption == Lifespan \in Pool

VARIABLE closing \* the lifespan's call: "no", "called", "returned"

all == <<sensor, launch, closing>>

BackendRuns == Runs("backend")

DeploymentInit == SensorInit /\ LauncherInit /\ closing = "no"

(* The backend process is gone: its threads with it, Zeek is not. *)
ProcessGone ==
  /\ svc' = [svc EXCEPT !.workers = {}, !.captures = {}]
  /\ past' = [past EXCEPT !.stopped = FALSE]
  /\ UNCHANGED <<turns, zeek, made, call, budget, closing>>

(* A step of main; the SIGKILL of a backend that takes too long is one. *)
MainRuns ==
  /\ MainStep
  /\ IF BackendRuns /\ child'["backend"] = "ended" THEN ProcessGone ELSE UNCHANGED <<sensor, closing>>

UserInterrupts == Interrupt /\ UNCHANGED <<sensor, closing>>

ChildrenRun ==
  \/ \E p \in Children : ChildAnswers(p) /\ UNCHANGED <<sensor, closing>>
  \/ ChildEnds("dashboard") /\ UNCHANGED <<sensor, closing>>
  \/ ChildCrashes("dashboard") /\ UNCHANGED <<sensor, closing>>
  \/ ChildCrashes("backend") /\ ProcessGone

Requests ==
  /\ child["backend"] = "up"
  /\ \/ \E c \in Loop : StartCall(c)
     \/ /\ budget.stops > 0
        /\ budget' = [budget EXCEPT !.stops = @ - 1]
        /\ \E c \in Pool \ {Lifespan} : StopCall(c)
  /\ UNCHANGED <<launch, closing>>

Served(c) == BackendRuns /\ CallStep(c) /\ UNCHANGED <<launch, closing>>

World ==
  /\ \/ \E z \in zeek.live : ZeekDies(z)
     \/ BackendRuns /\ Threads
  /\ UNCHANGED <<launch, closing>>

(* Mutant of LifespanStops: the lifespan does not stop the monitor. *)
LifespanSkips ==
  /\ child["backend"] = "ending" /\ closing = "no" /\ Quiet
  /\ closing' = "called"
  /\ UNCHANGED <<launch, sensor>>

LifespanStops ==
  /\ child["backend"] = "ending" /\ closing = "no" /\ Quiet
  /\ closing' = "called"
  /\ StopCall(Lifespan)
  /\ UNCHANGED <<launch, budget>>

(* The orderly end of the backend. *)
BackendEnds ==
  /\ child["backend"] = "ending" /\ closing = "called" /\ Quiet
  /\ ChildEnds("backend")
  /\ svc' = [svc EXCEPT !.workers = {}, !.captures = {}]
  /\ closing' = "returned"
  /\ UNCHANGED <<turns, zeek, made, call, budget, past>>

DeploymentNext ==
  \/ MainRuns \/ UserInterrupts \/ ChildrenRun \/ Requests
  \/ \E c \in Callers : Served(c)
  \/ World \/ LifespanStops \/ BackendEnds

(* Every thread inside a call goes on, and so does the launcher. *)
DeploymentSpec ==
  /\ DeploymentInit /\ [][DeploymentNext]_all
  /\ WF_all(MainRuns)
  /\ \A c \in Callers : WF_all(Served(c))

-----------------------------------------------------------------------------
(* ResetFindsQuiet of SensorLifecycle, at every step. *)
ResetsFindQuiet == [][ResetFindsQuiet]_all

(* Every call of start and stop returns or raises, in turns or not, or the *)
(* process ends: each wait has a time limit.                               *)
CallsReturn == \A c \in Callers : []<>(At(c, "idle") \/ ~BackendRuns)

(* With calls in turn, a backend that ended in order leaves no Zeek behind:  *)
(* its last stop comes after the call that was under way when it was told to *)
(* end (main.py:64-72), unless stop failed.                                *)
OrderlyEndStopsZeek == closing = "returned" /\ turns /\ past.failed = {} => zeek.live = {}

(* "Press Ctrl+C to stop everything." (app.py:215): after one Ctrl+C in the *)
(* watch the launcher returns with nothing left running.                   *)
CtrlCStopsEverything == main = "done" /\ returned = "0" => zeek.live = {}
=============================================================================
