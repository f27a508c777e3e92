-------------------------------- MODULE Peers --------------------------------
(***************************************************************************)
(* clippo-ipc's peer.rs: whom clippo's processes take for one of their     *)
(* own.  A process is what can be found out about it from its connection   *)
(* to the bus: its pid, or {}; whether its root has a .flatpak-info; and   *)
(* what /proc says it is running, or {}.                                   *)
(***************************************************************************)

Binaries  == {"clippod", "clippo", "clippo-applet"}
SystemBin == {"/usr/bin", "/usr/local/bin"}

(* installed: the binaries beside the running one, in ~/.local/bin and in  *)
(* the system's directories; {} if there is no such directory.             *)
Installed(beside, home) == {[dir |-> dir, name |-> name] : dir \in beside \cup home \cup SystemBin, name \in Binaries}

(* from_paths: what /proc would show of them, as it follows links.         *)
Policy(paths, links) == {IF path \in DOMAIN links THEN links[path] ELSE path : path \in paths}

(* judge_with: every failure is a refusal, and a sandbox is one whatever   *)
(* the process seems to run.                                               *)
Judge(process, policy) ==
  IF process.pid = {} THEN "no pid"
  ELSE IF process.sandboxed THEN "sandboxed"
  ELSE IF process.exe = {} THEN "no exe"
  ELSE IF ~(process.exe \subseteq policy) THEN "not allowlisted"
  ELSE "peer"

(* owner_of, of the processes that have the name: none or one.             *)
OwnerOf(holders, policy) ==
  IF holders = {} THEN "absent"
  ELSE IF \A process \in holders : Judge(process, policy) = "peer" THEN "trusted" ELSE "untrusted"

(* vet: a member that types is for callers that are known; a message with  *)
(* no sender has none.                                                     *)
Vetted(senders, policy) == OwnerOf(senders, policy) = "trusted"
=============================================================================
