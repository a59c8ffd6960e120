----------------------------- MODULE HeaderScope -----------------------------
(***************************************************************************)
(* Temporary headers of one target (src/src/cdp/headers.rs) and the        *)
(* commands they fence (Session::send, send_tracked, navigation_guard).    *)
(* A scope sets headers, navigates and has them cleared by a detached      *)
(* task, also when its future is cancelled.  Every command waits for the   *)
(* latest cleanup; navigation and header changes hold the serial lock;     *)
(* clear_extra_headers recovers from a cleanup that failed.                *)
(*                                                                         *)
(* Commands reach Chrome in the order they were written, so a header       *)
(* change is modelled where its frame is written; its reply may be lost.   *)
(***************************************************************************)
EXTENDS Naturals, Sequences

CONSTANTS
  Users,     \* futures using the target, one operation each
  Sessions,  \* attachments to the target
  Free,      \* the serial lock is not held
  Task,      \* the cleanup task, as a holder of the lock
  NoUser     \* no temporary headers are set

ASSUME HeaderAssumption ==
  /\ Free \notin Users /\ Task \notin Users /\ Free # Task
  /\ NoUser \notin Users

VARIABLES
  pc, op, at,  \* each user's place, operation and attachment
  seen,        \* the cleanup its wait() subscribed to, 0 before it looked
  serial,      \* HeaderState.serial
  gens,        \* the cleanups scheduled so far; the last is HeaderState.cleanup
  task, todo,  \* the cleanup task and the sessions it has not cleared
  on           \* the scope whose headers each session carries in Chrome

userVars == <<pc, op, at, seen>>
taskVars == <<gens, task, todo>>
vars == <<userVars, serial, taskVars, on>>

Ops == {"send", "navigate", "set", "scope", "clear"}
Fences == {"fence", "refence", "recover", "finishing"}
InScope == {"scoped", "armed"}
Pcs == Fences \cup InScope \cup {"idle", "queue", "sending", "done"}
Results == {"pending", "ok", "failed"}

Latest == Len(gens)

Init ==
  /\ pc = [u \in Users |-> "idle"]
  /\ op = [u \in Users |-> "send"]
  /\ at \in [Users -> Sessions]
  /\ seen = [u \in Users |-> 0]
  /\ serial = Free
  /\ gens = <<>> /\ task = "none" /\ todo = {}
  /\ on = [s \in Sessions |-> NoUser]

Goto(u, l) == pc' = [pc EXCEPT ![u] = l]
SerialWithout(u) == IF serial = u THEN Free ELSE serial

\* HeaderState::schedule. Without a runtime the cleanup fails at once and the
\* lock goes with it.
Schedule(S, runtime) ==
  /\ gens' = Append(gens, [sessions |-> S, result |-> IF runtime THEN "pending" ELSE "failed"])
  /\ task' = IF runtime THEN "clearing" ELSE "none"
  /\ todo' = IF runtime THEN S ELSE {}
  /\ serial' = IF runtime THEN Task ELSE Free

\* clear() takes the lock before it looks at earlier failures; everything else
\* looks first.
Begin(u, o) ==
  /\ pc[u] = "idle"
  /\ op' = [op EXCEPT ![u] = o]
  /\ Goto(u, IF o = "clear" THEN "queue" ELSE "fence")
  /\ UNCHANGED <<at, seen, serial, taskVars, on>>

-----------------------------------------------------------------------------
(* HeaderState::wait. *)

\* Subscribe to the latest cleanup: at first, and again when the one waited for
\* has ended and is no longer the latest.
Look(u) ==
  /\ pc[u] \in Fences /\ seen[u] # Latest
  /\ seen[u] # 0 => gens[seen[u]].result # "pending"
  /\ seen' = [seen EXCEPT ![u] = Latest]
  /\ UNCHANGED <<pc, op, at, serial, taskVars, on>>

\* Mutant: the cleanup waited for is not compared with the latest one.
WaitedForAny(u, r) ==
  \/ Latest = 0 /\ r = "ok"
  \/ seen[u] # 0 /\ gens[seen[u]].result = r

\* wait() returns: there was nothing to wait for, or the latest cleanup ended.
Waited(u, r) ==
  \/ Latest = 0 /\ r = "ok"
  \/ seen[u] # 0 /\ seen[u] = Latest /\ gens[Latest].result = r

\* Where a user goes with the serial lock: lock() waits a second time.
Admitted(u) == IF op[u] = "clear" THEN "recover" ELSE "refence"

AcquireSerial(u) ==
  /\ pc[u] = "queue" /\ serial = Free
  /\ serial' = u
  /\ Goto(u, Admitted(u))
  /\ UNCHANGED <<op, at, seen, taskVars, on>>

\* The wait() of Session::send, and the first of lock().
PassFence(u) ==
  /\ pc[u] = "fence"
  /\ \/ Waited(u, "ok") /\ Goto(u, IF op[u] = "send" THEN "sending" ELSE "queue")
     \/ Waited(u, "failed") /\ Goto(u, "done")
  /\ seen' = [seen EXCEPT ![u] = 0]
  /\ UNCHANGED <<op, at, serial, taskVars, on>>

\* The second wait() of lock(), with the serial lock held.
PassRefence(u) ==
  /\ pc[u] = "refence"
  /\ \/ /\ Waited(u, "ok")
        /\ Goto(u, IF op[u] = "scope" THEN "scoped" ELSE "sending")
        /\ UNCHANGED serial
     \/ /\ Waited(u, "failed")
        /\ Goto(u, "done") /\ serial' = SerialWithout(u)
  /\ seen' = [seen EXCEPT ![u] = 0]
  /\ UNCHANGED <<op, at, taskVars, on>>

-----------------------------------------------------------------------------
(* Commands, scopes and recovery. *)

\* A command, a locked navigation or set_extra_headers reaches Chrome or fails.
Send(u) ==
  /\ pc[u] = "sending"
  /\ \/ UNCHANGED on
     \/ op[u] = "set" /\ on' = [on EXCEPT ![at[u]] = NoUser]
  /\ serial' = SerialWithout(u)
  /\ Goto(u, "done")
  /\ UNCHANGED <<op, at, seen, taskVars>>

\* NavigateWithHeaders: the headers are written; what the scope does next, its
\* navigation included, happens under them.
SetScoped(u) ==
  /\ pc[u] = "scoped"
  /\ on' = [on EXCEPT ![at[u]] = u]
  /\ Goto(u, "armed")
  /\ UNCHANGED <<op, at, seen, serial, taskVars>>

\* TemporaryHeaders::finish, after success and after any error.
Finish(u) ==
  /\ pc[u] \in InScope
  /\ Schedule({at[u]}, TRUE)
  /\ Goto(u, "finishing")
  /\ UNCHANGED <<op, at, seen, on>>

\* Mutant: recovery clears the caller's attachment only.
OwnSession(u) == {at[u]}

\* The sessions clear() restores: those a failed cleanup left and its own.
SessionsToClear(u) ==
  (IF Waited(u, "failed") THEN gens[Latest].sessions ELSE {}) \cup {at[u]}

Recover(u) ==
  /\ pc[u] = "recover"
  /\ \E r \in {"ok", "failed"} : Waited(u, r)
  /\ Schedule(SessionsToClear(u), TRUE)
  /\ seen' = [seen EXCEPT ![u] = 0]
  /\ Goto(u, "finishing")
  /\ UNCHANGED <<op, at, on>>

\* finish() reports what its cleanup, or a later one, came to.
Finished(u) ==
  /\ pc[u] = "finishing"
  /\ \E r \in {"ok", "failed"} : Waited(u, r)
  /\ seen' = [seen EXCEPT ![u] = 0]
  /\ Goto(u, "done")
  /\ UNCHANGED <<op, at, serial, taskVars, on>>

\* The future is dropped: a scope schedules its cleanup, on or off a runtime, and
\* any other holder gives the lock back.
Cancel(u) ==
  /\ pc[u] \notin {"idle", "done"}
  /\ Goto(u, "done")
  /\ IF pc[u] \in InScope
     THEN \E runtime \in BOOLEAN : Schedule({at[u]}, runtime)
     ELSE serial' = SerialWithout(u) /\ UNCHANGED taskVars
  /\ seen' = [seen EXCEPT ![u] = 0]
  /\ UNCHANGED <<op, at, on>>

-----------------------------------------------------------------------------
(* The cleanup task. *)

Publish(r) == gens' = [gens EXCEPT ![Latest].result = r]

CleanSession(s) ==
  /\ task = "clearing" /\ s \in todo
  /\ on' = [on EXCEPT ![s] = NoUser]
  /\ todo' = todo \ {s}
  /\ UNCHANGED <<userVars, serial, gens, task>>

CleanDone ==
  /\ task = "clearing" /\ todo = {}
  /\ Publish("ok")
  /\ task' = "published"
  /\ UNCHANGED <<userVars, serial, todo, on>>

\* Mutant: the restoration has no deadline, only rejected commands end it.
CleanFailRejected ==
  /\ task = "clearing" /\ todo = {}
  /\ Publish("failed")
  /\ task' = "published" /\ todo' = {}
  /\ UNCHANGED <<userVars, serial, on>>

\* A rejected command, the five-second deadline, or the task is dropped.
CleanFail ==
  /\ task = "clearing"
  /\ Publish("failed")
  /\ task' = "published" /\ todo' = {}
  /\ UNCHANGED <<userVars, serial, on>>

\* drop(lock), after the result is visible.
CleanRelease ==
  /\ task = "published"
  /\ serial' = Free /\ task' = "none"
  /\ UNCHANGED <<userVars, gens, todo, on>>

-----------------------------------------------------------------------------

AllDone ==
  /\ \A u \in Users : pc[u] = "done"
  /\ task = "none"
  /\ UNCHANGED vars

UserNext(u) ==
  \/ \E o \in Ops : Begin(u, o)
  \/ Look(u) \/ AcquireSerial(u) \/ PassFence(u) \/ PassRefence(u)
  \/ Send(u) \/ SetScoped(u) \/ Finish(u) \/ Recover(u) \/ Finished(u) \/ Cancel(u)

TaskNext ==
  \/ \E s \in Sessions : CleanSession(s)
  \/ CleanDone \/ CleanFail \/ CleanRelease

Next == (\E u \in Users : UserNext(u)) \/ TaskNext \/ AllDone

\* Commands and the cleanup have deadlines; the runtime polls who can go on.
Fairness ==
  /\ \A u \in Users :
       /\ WF_vars(Look(u)) /\ WF_vars(AcquireSerial(u))
       /\ WF_vars(PassFence(u)) /\ WF_vars(PassRefence(u)) /\ WF_vars(Send(u))
       /\ WF_vars(Finish(u)) /\ WF_vars(Recover(u)) /\ WF_vars(Finished(u))
  /\ WF_vars(CleanDone) /\ WF_vars(CleanFail) /\ WF_vars(CleanRelease)

Spec == Init /\ [][Next]_vars
FairSpec == Spec /\ Fairness

-----------------------------------------------------------------------------
(* Properties. *)

\* Types, and the lock belongs to the cleanup task exactly while it runs.
TypeOK ==
  /\ pc \in [Users -> Pcs] /\ op \in [Users -> Ops] /\ at \in [Users -> Sessions]
  /\ seen \in [Users -> Nat]
  /\ serial \in Users \cup {Free, Task}
  /\ gens \in Seq([sessions : SUBSET Sessions, result : Results])
  /\ task \in {"none", "clearing", "published"} /\ todo \subseteq Sessions
  /\ serial = Task <=> task # "none"
  /\ on \in [Sessions -> Users \cup {NoUser}]

\* Headers of a scope that has ended, still set in Chrome.
Residue(s) == on[s] # NoUser /\ pc[on[s]] \notin InScope

\* Whatever was cancelled, failed or half recovered, headers left in Chrome are
\* known to the latest cleanup, which has not succeeded: recovery will clear them
\* on the attachment that set them (HeaderState::schedule, clear).
ResidueTracked ==
  \A s \in Sessions : Residue(s) =>
    Latest # 0 /\ s \in gens[Latest].sessions /\ gens[Latest].result # "ok"

\* A navigation or a header change never runs under another scope's headers
\* (HeaderState::lock waits before and after it takes the lock).
NavigationClean ==
  \A u \in Users :
    pc[u] \in InScope \/ (pc[u] = "sending" /\ op[u] # "send") =>
      \A s \in Sessions : on[s] \in {u, NoUser}

\* Any other command is let through only while no ended scope has left headers
\* behind, also when a second scope is cancelled while it waits for the first
\* one's cleanup (HeaderState::wait, Session::send).
FencePassesClean ==
  [][\A u \in Users : pc[u] = "fence" /\ pc'[u] = "sending" =>
       \A s \in Sessions : ~Residue(s)]_vars

\* Every operation ends: no waiter is fenced for ever by a cleanup that Chrome
\* never answers (CLEANUP_TIMEOUT).
EveryOperationEnds == \A u \in Users : pc[u] # "idle" ~> pc[u] = "done"

\* Headers of a scope that ended are neither forgotten nor met by another's navigation.
HeadersClean == TypeOK /\ ResidueTracked /\ NavigationClean
=============================================================================
