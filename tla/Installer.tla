----------------------------- MODULE Installer -----------------------------
(***************************************************************************)
(* ZeekInstaller.ensure (src/zeek/installer.py): find Zeek, or install it   *)
(* with what the host offers; and ZeekManager._find_zeek                    *)
(* (src/zeek/manager.py), which looks for it later in the backend.          *)
(*                                                                         *)
(* A host is [system, tools, path, root, known]: the platform, the programs *)
(* on it, the places PATH lists, root privileges, and whether the           *)
(* distribution is one the Zeek project packages for. Any command may fail, *)
(* and may leave Zeek behind all the same. A binary may lack the execute     *)
(* bit: which() and the manager's last look skip it, is_file() does not. On   *)
(* Windows there is no such bit.                                            *)
(***************************************************************************)
EXTENDS Naturals

CONSTANT Hosts \* hosts the launcher may find itself on

(* Where a zeek binary may be: /opt/zeek, Homebrew's prefix, /usr/local,    *)
(* /usr, the project's .third_party tree, some other directory.            *)
Places == {"opt", "brew", "local", "usr", "tree", "other"}
Common == {"opt", "brew", "local", "usr"} \* COMMON_ZEEK_PATHS

VARIABLES
  host,  \* a member of Hosts; bootstrapping adds Homebrew to its tools
  files, \* places that hold a zeek binary
  plain, \* those of them where it is not executable
  step,  \* position in ensure
  found  \* InstallResult.installed

setup == <<host, files, plain, step, found>>

InstallerInit ==
  /\ host \in Hosts
  /\ files \in {{}} \cup {{place} : place \in Places}
  /\ plain \in {{}, files} /\ (host.system = "Windows" => plain = {})
  /\ step = "off" /\ found = FALSE

Has(tool)   == tool \in host.tools
OnPath      == (files \ plain) \cap host.path # {}
Known       == files \cap {"opt", "local", "usr"} # {}
LocalTree   == "tree" \in files
Privileged  == host.root \/ Has("sudo")

(* Mutant of ManagerFinds: Homebrew's prefix is not among the paths. *)
ManagerFindsNoBrew == OnPath \/ LocalTree \/ (files \ plain) \cap (Common \ {"brew"}) # {}

(* ZeekManager._find_zeek: PATH, the project's tree, COMMON_ZEEK_PATHS; an   *)
(* executable one on PATH and of those, any file in the tree.              *)
ManagerFinds == OnPath \/ LocalTree \/ (files \ plain) \cap Common # {}

Reports(installed) == step' = "done" /\ found' = installed

LinuxFrom(tool) ==
  CASE tool = "official" /\ Has("apt-get") -> "official"
    [] tool \in {"official", "dnf"} /\ Has("dnf") -> "dnf"
    [] tool \in {"official", "dnf", "pacman"} /\ Has("pacman") -> "pacman"
    [] OTHER -> "nothing"

Ensure ==
  /\ step = "ensure"
  /\ IF OnPath \/ Known \/ LocalTree THEN Reports(TRUE)
     ELSE /\ step' = CASE host.system = "Darwin" -> IF Has("brew") THEN "brew" ELSE "bootstrap"
                       [] host.system = "Linux" -> LinuxFrom("official")
                       [] host.system = "Windows" -> "windows"
                       [] OTHER -> "nothing"
          /\ UNCHANGED found
  /\ UNCHANGED <<host, files, plain>>

(* A command that may put Zeek in one of some places; it counts when it    *)
(* returns 0 and Zeek is then found, by which() or as a file where the code   *)
(* looks for one, otherwise the next step is tried.                        *)
Command(places, path, looked, next) ==
  /\ \E more \in {{}} \cup {{place} : place \in places} :
       files' = files \cup more /\ plain' = plain \ more
  /\ \E zero \in BOOLEAN :
       IF zero /\ (files' \cap looked # {} \/ (files' \ plain') \cap path # {}) THEN Reports(TRUE)
       ELSE IF next = "nothing" THEN Reports(FALSE)
       ELSE step' = next /\ UNCHANGED found
  /\ UNCHANGED host

(* _install_homebrew *)
Bootstrap ==
  /\ step = "bootstrap"
  /\ \/ Has("curl") /\ step' = "brew" /\ host' = [host EXCEPT !.tools = @ \cup {"brew"}]
        /\ UNCHANGED found
     \/ Reports(FALSE) /\ UNCHANGED host
  /\ UNCHANGED <<files, plain>>

Brew ==
  /\ step = "brew"
  /\ Command({"brew", "local"}, host.path, {"brew", "local"}, "nothing")

(* _install_linux: without root and sudo every command raises. *)
Denied ==
  /\ step \in {"official", "apt", "dnf", "pacman"} /\ ~Privileged
  /\ Reports(FALSE)
  /\ UNCHANGED <<host, files, plain>>

Official ==
  /\ step = "official" /\ (Privileged \/ ~host.known)
  /\ IF host.known THEN Command({"opt", "usr"}, host.path, {"opt"}, "apt")
     ELSE step' = "apt" /\ UNCHANGED <<host, files, plain, found>>

Packages ==
  /\ Privileged
  /\ \/ step = "apt" /\ Command({"opt", "usr"}, host.path, {"tree"}, LinuxFrom("dnf"))
     \/ step = "dnf" /\ Command({"usr"}, host.path, {}, LinuxFrom("pacman"))
     \/ step = "pacman" /\ Command({"usr"}, host.path, {}, "nothing")

(* _run_windows_setup *)
Windows ==
  /\ step = "windows"
  /\ IF Has("powershell") THEN Command({"tree"}, {}, {"tree"}, "nothing")
     ELSE Reports(FALSE) /\ UNCHANGED <<host, files, plain>>

Nothing == step = "nothing" /\ Reports(FALSE) /\ UNCHANGED <<host, files, plain>>

InstallerNext == Ensure \/ Bootstrap \/ Brew \/ Denied \/ Official \/ Packages \/ Windows \/ Nothing

(* A zeek in a standard place that nobody can execute: the installer takes   *)
(* it for installed (is_file, installer.py:78, 191), which the manager does   *)
(* not (manager.py:100). A command that then installs another clears it only *)
(* where that one lies.                                                     *)
Unusable == plain \cap Common # {}

(* What the installer calls installed the backend's ZeekManager finds,     *)
(* wherever a package put it and whatever PATH lists (installer.py:82-108,  *)
(* manager.py:78-102), unless a zeek without the execute bit deceived it.   *)
InstalledMeansFound == step = "done" /\ found => ManagerFinds \/ Unusable
=============================================================================
