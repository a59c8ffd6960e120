------------------------------ MODULE MCLaunch ------------------------------
(***************************************************************************)
(* An instance for TLC of Launch, and one of PatchCache, whose patchers a  *)
(* launch or a caller of its own starts.  What those two share is a        *)
(* directory that a launch makes for itself, so a behaviour is of one or   *)
(* the other: of two launches, whose profiles differ or are one, or of the *)
(* patchers.                                                               *)
(***************************************************************************)
EXTENDS Launch, PatchPart, TLC

VARIABLE part

\* A launch on the user's directory beside those that have a profile of their own.
Pair == {CHOOSE l \in Shared : TRUE} \cup (Launches \ Shared)

\* Two launches on one directory find no Chrome of its user there, but maybe its lock.
HostInit ==
  /\ part \in {"launch", "patch"} /\ Patch!Init /\ ChromeInit
  /\ port[User] \in {0, 1} /\ file[User] \in 0..(port[User] + 1) \* for ports are alike
  /\ \/ part = "launch" /\ LaunchInit(Pair)
     \/ part = "launch" /\ LaunchInit(Shared) /\ proc[User] = "dead" /\ file[User] = 0
     \/ part = "patch" /\ LaunchInit({}) /\ proc[User] = "dead" /\ lock = Nobody /\ file[User] = 0

HostNext ==
  /\ UNCHANGED part
  /\ \/ part = "launch" /\ Next /\ UNCHANGED patchVars
     \/ part = "patch" /\ Patch!Next /\ UNCHANGED vars
     \/ part = "patch" /\ (\A p \in Patchers : pc[p] = "done") /\ UNCHANGED <<vars, patchVars>>

HostSpec == HostInit /\ [][HostNext]_<<part, vars, patchVars>> /\ Fairness

\* A launch that spawned a Chrome looks for the endpoint of that one: "Discovery must only
\* consume the endpoint written by the process we are about to spawn" (process.rs:142-143).
DiscoveryIsOwn ==
  \A l \in Launches : worker[l] = "dial" /\ child[l] = "worker" => seen[l] = port[l]
=============================================================================
