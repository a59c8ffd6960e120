------------------------------- MODULE IdlePart -------------------------------
(***************************************************************************)
(* NetworkIdle as a part that may stand beside another, with names of its  *)
(* own for what others call the same, and what it promises.                *)
(***************************************************************************)
CONSTANTS Requests, MaxActive, Idle, Timeout, Waiters, MaxDoc, Backlog, MaxTime
VARIABLES
  doc, loading, made, live, cut, domain, channel, fresh, setup, reply, caller, route, ledger,
  wait, detaching, down, now, busyAt

Net == INSTANCE NetworkIdle WITH answer <- reply, lost <- down

ASSUME IdleAssumption == Net!IdleConstants

IdleSpec == Net!Spec

\* No wait sleeps on stale grounds: unless it is about to be woken, nothing has failed
\* and its timer is the one the ledger of now asks for (wake, changed, disconnect).
SleepsOnTheTruth == Net!SleepsOnTheTruth
\* The session's route belongs to a monitor, to the task that sets one up or to the one
\* that detaches it (the owned initialization, Drop for NetworkMonitor).
RouteHasOwner == Net!RouteHasOwner
\* A wait that succeeds is right about Chrome and has waited its quiet period (wait).
IdleHonest == Net!IdleHonest
=============================================================================
