------------------------------ MODULE Launcher ------------------------------
(***************************************************************************)
(* The launcher (app.py): preflight (Python environment, Zeek, privileges,  *)
(* imports), backend, dashboard, a watch over both, and the shutdown. The   *)
(* launcher restarts itself inside the virtual environment and again with  *)
(* capture privileges; each time main begins anew.                         *)
(*                                                                         *)
(* A child is none, starting, up (it answers its URL), ending (it has a     *)
(* signal to end) or ended. The backend's own work is in SensorLifecycle;   *)
(* module Deployment puts the two together.                                *)
(***************************************************************************)
EXTENDS Installer

CONSTANT Troubles \* bound: the presses of Ctrl+C and crashes of children there may be
ASSUME TroubleAssumption == Troubles \subseteq [presses : Nat, crashes : Nat]

Children == {"backend", "dashboard"}

VARIABLES
  main,     \* position of main
  env,      \* [venv, deps, elevated]: what preflight has arranged
  child,    \* state of each child
  listed,   \* the children in the list processes
  returned, \* main's result, or "raised"
  trouble   \* presses of Ctrl+C and crashes of children left

launch == <<setup, main, env, child, listed, returned, trouble>>

LauncherInit ==
  /\ InstallerInit
  /\ main = "python"
  /\ env \in [venv : BOOLEAN, deps : BOOLEAN, elevated : {FALSE}]
  /\ child = [p \in Children |-> "none"] /\ listed = {}
  /\ returned = "no" /\ trouble \in Troubles

Runs(p) == child[p] \in {"starting", "up", "ending"}
Signalled(state) == IF state \in {"starting", "up"} THEN "ending" ELSE state

(* An exception in main's try: an error message, result 1, the shutdown. *)
Fail == main' = "terminate" /\ returned' = "1"
Continue(next) == main' = next /\ UNCHANGED returned

(* ensure_python_environment *)
Python ==
  /\ main = "python"
  /\ \/ ~env.venv /\ Continue("python") /\ env' = [env EXCEPT !.venv = TRUE]
     \/ env.venv /\ Continue("zeek") /\ env' = [env EXCEPT !.deps = TRUE]
     \/ ~(env.venv /\ env.deps) /\ Fail /\ UNCHANGED env
  /\ UNCHANGED <<setup, child, listed, trouble>>

FindZeek ==
  /\ main = "zeek"
  /\ IF LocalTree \/ OnPath THEN Continue("privileges") /\ UNCHANGED setup
     ELSE Continue("install") /\ step' = "ensure" /\ UNCHANGED <<host, files, plain, found>>
  /\ UNCHANGED <<env, child, listed, trouble>>

Install ==
  /\ main = "install" /\ step # "done"
  /\ InstallerNext
  /\ UNCHANGED <<main, env, child, listed, returned, trouble>>

Installed ==
  /\ main = "install" /\ step = "done"
  /\ IF found THEN Continue("privileges") ELSE Fail
  /\ UNCHANGED <<setup, env, child, listed, trouble>>

(* ensure_capture_privileges: a new launcher with privileges starts over;   *)
(* sudo may use a PATH of its own. Or the user refuses.                     *)
Privileges ==
  /\ main = "privileges"
  /\ IF host.root \/ env.elevated THEN Continue("imports") /\ UNCHANGED <<setup, env>>
     ELSE \/ /\ host.system = "Windows" \/ Has("sudo")
             /\ Continue("python")
             /\ env' = [env EXCEPT !.elevated = TRUE]
             /\ \E path \in {host.path, host.path \cap {"local", "usr"}} :
                  host' = [host EXCEPT !.root = TRUE, !.path = path]
             /\ step' = "off" /\ found' = FALSE /\ UNCHANGED <<files, plain>>
          \/ Fail /\ UNCHANGED <<setup, env>>
  /\ UNCHANGED <<child, listed, trouble>>

Imports ==
  /\ main = "imports"
  /\ Continue("startBackend") \/ Fail
  /\ UNCHANGED <<setup, env, child, listed, trouble>>

(* Popen: the child runs, or it cannot be started. *)
StartChild(p, at, next) ==
  /\ main = at
  /\ \/ Continue(next) /\ child' = [child EXCEPT ![p] = "starting"]
     \/ Fail /\ UNCHANGED child
  /\ UNCHANGED <<setup, env, listed, trouble>>

StartBackend   == StartChild("backend", "startBackend", "listBackend")
StartDashboard == StartChild("dashboard", "startDashboard", "listDashboard")

(* processes.append *)
ListChild(p, at, next) ==
  /\ main = at
  /\ Continue(next)
  /\ listed' = listed \cup {p}
  /\ UNCHANGED <<setup, env, child, trouble>>

ListBackend   == ListChild("backend", "listBackend", "awaitBackend")
ListDashboard == ListChild("dashboard", "listDashboard", "awaitDashboard")

(* wait_for_url: the child ended, or its URL answers, or the time is up.   *)
(* Another server may answer in place of the child.                        *)
Await(p, at, next) ==
  /\ main = at
  /\ IF child[p] = "ended" THEN Fail ELSE Continue(next) \/ Fail
  /\ UNCHANGED <<setup, env, child, listed, trouble>>

AwaitBackend   == Await("backend", "awaitBackend", "startDashboard")
AwaitDashboard == Await("dashboard", "awaitDashboard", "watch")

(* Mutant of WatchChildren: it only looks at the dashboard. *)
WatchDashboard ==
  /\ main = "watch" /\ child["dashboard"] = "ended"
  /\ Fail
  /\ UNCHANGED <<setup, env, child, listed, trouble>>

(* Every second: has a child ended? *)
WatchChildren ==
  /\ main = "watch" /\ \E p \in Children : child[p] = "ended"
  /\ Fail
  /\ UNCHANGED <<setup, env, child, listed, trouble>>

(* Ctrl+C reaches the launcher and the children's process group. In the    *)
(* shutdown nobody catches it; before a child is listed, the shutdown knows  *)
(* nothing of that child.                                                  *)
Interrupt ==
  /\ main # "done" /\ trouble.presses > 0
  /\ trouble' = [trouble EXCEPT !.presses = @ - 1]
  /\ child' = [p \in Children |-> Signalled(child[p])]
  /\ IF main \in {"terminate", "endDashboard", "endBackend"}
     THEN main' = "done" /\ returned' = "raised"
     ELSE main' = "terminate" /\ returned' = "0"
  /\ UNCHANGED <<setup, env, listed>>

(* shutdown: SIGTERM to both, then wait for the dashboard and the backend. *)
SignalAll ==
  /\ main = "terminate"
  /\ Continue("endDashboard")
  /\ child' = [p \in Children |-> IF p \in listed THEN Signalled(child[p]) ELSE child[p]]
  /\ UNCHANGED <<setup, env, listed, trouble>>

(* Five seconds, then SIGKILL: nothing of the child runs in the end. But the *)
(* last wait may time out as well, and then the shutdown is over.          *)
EndChild(p, at, next) ==
  /\ main = at
  /\ IF p \in listed /\ Runs(p)
     THEN /\ Continue(next) \/ (main' = "done" /\ returned' = "raised")
          /\ child' = [child EXCEPT ![p] = "ended"]
     ELSE Continue(next) /\ UNCHANGED child
  /\ UNCHANGED <<setup, env, listed, trouble>>

EndDashboard == EndChild("dashboard", "endDashboard", "endBackend")
EndBackend   == EndChild("backend", "endBackend", "done")

(* What a child does: it answers, or it ends, asked to or not. *)
ChildAnswers(p) ==
  /\ child[p] = "starting"
  /\ child' = [child EXCEPT ![p] = "up"]
  /\ UNCHANGED <<setup, main, env, listed, returned, trouble>>

ChildEnds(p) ==
  /\ child[p] = "ending"
  /\ child' = [child EXCEPT ![p] = "ended"]
  /\ UNCHANGED <<setup, main, env, listed, returned, trouble>>

ChildCrashes(p) ==
  /\ child[p] \in {"starting", "up"} /\ trouble.crashes > 0
  /\ trouble' = [trouble EXCEPT !.crashes = @ - 1]
  /\ child' = [child EXCEPT ![p] = "ended"]
  /\ UNCHANGED <<setup, main, env, listed, returned>>

MainStep == \/ Python \/ FindZeek \/ Install \/ Installed \/ Privileges \/ Imports
            \/ StartBackend \/ ListBackend \/ AwaitBackend
            \/ StartDashboard \/ ListDashboard \/ AwaitDashboard
            \/ WatchChildren \/ SignalAll \/ EndDashboard \/ EndBackend

-----------------------------------------------------------------------------
(* Once the user is told to start live monitoring, ZeekManager in the       *)
(* backend finds a Zeek: whatever sudo made of PATH (app.py:121-147, 212).  *)
ReadyMeansSensor == main = "watch" => ManagerFinds \/ Unusable

(* The path from the installer's answer to the sensor's Zeek holds at both   *)
(* ends, but for a zeek in a standard place that lacks the execute bit.      *)
ZeekIsFound == InstalledMeansFound /\ ReadyMeansSensor

(* When main returns, every child it has listed has ended, and one that a    *)
(* Ctrl+C kept from the list was told to end by it (app.py:167-178, 187-192, *)
(* 227-228). Excepted are an interrupted shutdown and one whose last wait    *)
(* for a killed child timed out.                                           *)
NoChildLeft ==
  main = "done" /\ returned # "raised" =>
    \A p \in Children : Runs(p) => p \notin listed /\ child[p] = "ending"

(* A child that ends while the launcher watches ends the launcher, and a   *)
(* shutdown that began comes to its end and leaves no child                 *)
(* (app.py:167-178, 217-228).                                              *)
LauncherEnds ==
  main = "terminate" \/ (main = "watch" /\ \E p \in Children : child[p] = "ended")
    ~> main = "done" /\ NoChildLeft
=============================================================================
