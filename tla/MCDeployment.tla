---------------------------- MODULE MCDeployment ----------------------------
(* Every host and every outcome of preflight without live monitoring; on    *)
(* one host where preflight finds everything in place, one session with    *)
(* crashes and interruptions, and two sessions without.                    *)
EXTENDS Deployment

H(system, tools, path, root, known) ==
  [system |-> system, tools |-> tools, path |-> path, root |-> root, known |-> known]

MCHosts ==
  { H("Linux", {}, {"usr"}, TRUE, TRUE),
    H("Linux", {"sudo", "apt-get", "dnf"}, {"usr", "other"}, FALSE, TRUE),
    H("Linux", {"sudo", "apt-get", "pacman"}, {"usr"}, FALSE, FALSE),
    H("Linux", {"apt-get"}, {"usr"}, FALSE, TRUE),
    H("Darwin", {"sudo", "curl"}, {"usr"}, FALSE, FALSE),
    H("Darwin", {"sudo", "brew"}, {"brew"}, FALSE, FALSE),
    H("Windows", {"powershell"}, {}, FALSE, FALSE),
    H("Windows", {}, {"other"}, FALSE, FALSE),
    H("other", {}, {}, TRUE, FALSE) }

Server    == H("Linux", {}, {"usr"}, TRUE, TRUE)
Calls(starts, stops) == [starts |-> starts, stops |-> stops]
MCBudgets == {Calls(0, 0), Calls(1, 1), Calls(2, 1)}
MCTroubles == [presses : 0..1, crashes : 0..1]
Trouble(presses, crashes) == trouble = [presses |-> presses, crashes |-> crashes]

MCInit ==
  /\ DeploymentInit
  /\ \/ budget.starts = 0 /\ turns /\ Trouble(1, 1) /\ ~env.venv /\ ~env.deps
     \/ /\ host = Server /\ files = {"usr"} /\ plain = {} /\ env.venv /\ env.deps
        /\ \/ budget.starts = 1 /\ Trouble(1, 0)
           \/ budget.starts = 2 /\ Trouble(0, 0) /\ turns

MCSpec ==
  /\ MCInit /\ [][DeploymentNext]_all
  /\ WF_all(MainRuns)
  /\ \A c \in Callers : WF_all(Served(c))
=============================================================================
