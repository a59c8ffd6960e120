------------------------------ MODULE HeldInput ------------------------------
(***************************************************************************)
(* The keys and buttons of one target that Chrome holds down and the       *)
(* ledger eoka keeps of them (HeldInputState, src/src/page/input.rs), as   *)
(* used by explicit presses and releases, release_all_inputs, human drags  *)
(* (stealth/human/drag.rs), shadow clicks (page/frames.rs) and actions     *)
(* (action/runner.rs) with their gate, receipts and cleanup tasks.         *)
(*                                                                         *)
(* Any future may be dropped where it awaits.  Frames reach Chrome in the  *)
(* order they are written, so an input takes effect where its frame is     *)
(* written; its reply may fail or never come.                              *)
(***************************************************************************)
EXTENDS Naturals, Sequences, FiniteSets

CONSTANTS
  Futures,  \* callers' futures, one operation each
  Inputs,   \* keys and buttons
  Left,     \* the button of drags and shadow clicks
  Ops,      \* the operations of this instance
  Nobody    \* neither holds nor pressed

Actions == {"click", "double", "text"}
ASSUME HeldAssumption ==
  /\ Left \in Inputs /\ Nobody \notin Futures
  /\ Ops \subseteq Actions \cup {"down", "up", "release", "drag", "shadow"}

VARIABLES
  pc, op, input,  \* each future's place, operation and input
  step,           \* the command of the operation it is at
  todo,           \* what its sweep has still to release
  task,           \* it was dropped and a spawned task goes on in its place
  ledger,         \* HeldInputState: who reserved each input
  lock,           \* who holds the ledger's mutex
  gate,           \* ActionState.gate
  failed,         \* ActionState.cleanup_failed
  drags,          \* pending_releases: what became of each drag's release
  disp, receipt,  \* an action's DispatchState, and the receipt it returned
  pressed,        \* who pressed the inputs Chrome holds down
  did,            \* the steps of an action that reached Chrome, in order
  lost            \* inputs taken from the ledger by a command that failed

futureVars == <<op, input, step, todo, task>>
shared == <<lock, gate, failed, drags>>
actionVars == <<disp, receipt>>
chrome == <<pressed, did, lost>>
vars == <<pc, futureVars, ledger, shared, actionVars, chrome>>

Pcs == {"idle", "gate", "settle", "wait", "settled", "prepare", "check", "reserve",
        "send", "refused", "reply", "sweep", "verify", "done"}
NoReceipt == [given |-> FALSE, notDispatched |-> FALSE, pending |-> FALSE]

Init ==
  /\ pc = [f \in Futures |-> "idle"]
  /\ op = [f \in Futures |-> "up"]
  /\ input = [f \in Futures |-> Left]
  /\ step = [f \in Futures |-> 1]
  /\ todo = [f \in Futures |-> {}]
  /\ task = [f \in Futures |-> FALSE]
  /\ ledger = [i \in Inputs |-> Nobody]
  /\ lock = Nobody /\ gate = Nobody /\ failed = FALSE
  /\ drags = [f \in Futures |-> "none"]
  /\ disp = [f \in Futures |-> "NotSent"]
  /\ receipt = [f \in Futures |-> NoReceipt]
  /\ pressed = [i \in Inputs |-> Nobody]
  /\ did = [f \in Futures |-> <<>>]
  /\ lost = {}

Goto(f, l) == pc' = [pc EXCEPT ![f] = l]
Held == {i \in Inputs : ledger[i] # Nobody}

Without(f, holder) == IF holder = f THEN Nobody ELSE holder
Unlock(f) == lock' = Without(f, lock)
OpenGate(f) == gate' = Without(f, gate)

\* The commands of an operation; "text" inserts one character at a time.
Commands(f) ==
  CASE op[f] \in {"click", "shadow", "drag"} -> <<"down", "up">>
    [] op[f] = "double" -> <<"down", "up", "down", "up">>
    [] op[f] = "text"   -> <<"text", "text">>
    [] op[f] = "down"   -> <<"down">>
    [] OTHER            -> <<"up">>

Sweeping(f) == op[f] = "release" \/ (task[f] /\ op[f] \in Actions)
Command(f) == IF task[f] THEN "up" ELSE Commands(f)[step[f]]

Begin(f, o, i) ==
  /\ pc[f] = "idle" /\ o \in Ops
  /\ o \in {"drag", "shadow"} => i = Left
  /\ op' = [op EXCEPT ![f] = o]
  /\ input' = [input EXCEPT ![f] = i]
  /\ Goto(f, CASE o \in Actions \cup {"shadow"} -> "gate"
               [] o = "drag" -> "settle"
               [] OTHER -> "wait")
  /\ UNCHANGED <<step, todo, task, ledger, shared, actionVars, chrome>>

-----------------------------------------------------------------------------
(* Commands.  Tokens of an action are marked before the frame is written.   *)

\* DispatchState of the action when it writes a frame.
Marked(f) == IF op[f] \in Actions /\ ~task[f] THEN "MayHaveBeenSent" ELSE disp[f]

\* The frame is written; Chrome may refuse it.
Write(f) ==
  /\ pc[f] = "send"
  /\ disp' = [disp EXCEPT ![f] = Marked(f)]
  /\ \/ /\ Command(f) = "down" /\ pressed' = [pressed EXCEPT ![input[f]] = f]
        /\ UNCHANGED lost
     \/ /\ Command(f) = "up" /\ pressed' = [pressed EXCEPT ![input[f]] = Nobody]
        /\ lost' = lost \ {input[f]}
     \/ Command(f) = "text" /\ UNCHANGED <<pressed, lost>>
  /\ did' = IF op[f] \in Actions /\ ~task[f]
            THEN [did EXCEPT ![f] = Append(@, step[f])] ELSE did
  /\ Goto(f, "reply")
  /\ UNCHANGED <<futureVars, ledger, shared, receipt>>

\* Chrome answers with an error without doing anything.
WriteRefused(f) ==
  /\ pc[f] = "send"
  /\ disp' = [disp EXCEPT ![f] = Marked(f)]
  /\ Goto(f, "refused")
  /\ UNCHANGED <<futureVars, ledger, shared, receipt, chrome>>

Awaiting == {"send", "refused", "reply"}

\* A command ends: with its reply, or with an error before or after its frame
\* was written.
Ended(f, ok) == pc[f] = "reply" \/ (~ok /\ pc[f] \in {"send", "refused"})

-----------------------------------------------------------------------------
(* coordinated_mouse_down, coordinated_key_down and the releases; a shadow    *)
(* click presses and releases with the gate held.                           *)

Explicit(f) == op[f] \in {"down", "up", "shadow"}

\* HeldInputGuard::drop: a shadow click that fails or is dropped after its guard
\* was made releases everything in a task.
ShadowFails(f) ==
  /\ op' = [op EXCEPT ![f] = "release"]
  /\ task' = [task EXCEPT ![f] = TRUE]
  /\ Goto(f, "wait")
  /\ OpenGate(f)
  /\ UNCHANGED <<input, step, todo>>

\* The operation returns to its caller.
Return(f, ok) ==
  \/ /\ op[f] \in {"down", "up"} /\ Goto(f, "done")
     /\ UNCHANGED <<futureVars, gate>>
  \/ /\ op[f] = "shadow" /\ ok /\ step[f] = 1
     /\ step' = [step EXCEPT ![f] = 2] /\ Goto(f, "wait")
     /\ UNCHANGED <<op, input, todo, task, gate>>
  \/ /\ op[f] = "shadow" /\ ok /\ step[f] = 2
     /\ Goto(f, "done") /\ OpenGate(f) /\ UNCHANGED futureVars
  \/ op[f] = "shadow" /\ ~ok /\ ShadowFails(f)

\* The input is held exactly when it is to be released.
Legal(f) == (ledger[input[f]] = Nobody) = (Command(f) = "down")

\* reserve_mouse_down, reserve_key_down: reserve before dispatch.
Reserved(f) ==
  IF Command(f) = "down" THEN [ledger EXCEPT ![input[f]] = f] ELSE ledger

ExplicitBegin(f) ==
  /\ pc[f] = "wait" /\ lock = Nobody /\ Explicit(f)
  /\ \/ /\ Legal(f)
        /\ lock' = f /\ ledger' = Reserved(f) /\ Goto(f, "send")
        /\ UNCHANGED <<futureVars, gate>>
     \/ ~Legal(f) /\ Return(f, FALSE) /\ UNCHANGED <<lock, ledger>>
  /\ UNCHANGED <<failed, drags, actionVars, chrome>>

\* A press keeps its reservation only when it succeeds; a release gives it up
\* whatever the reply.
ExplicitEnd(f, ok) ==
  /\ Explicit(f) /\ Ended(f, ok)
  /\ ledger' = IF ok /\ Command(f) = "down" THEN ledger
               ELSE [ledger EXCEPT ![input[f]] = Nobody]
  /\ lost' = IF ok THEN lost ELSE lost \cup {input[f]}
  /\ Unlock(f) /\ Return(f, ok)
  /\ UNCHANGED <<failed, drags, actionVars, pressed, did>>

-----------------------------------------------------------------------------
(* Sweeps: release_all_inputs, and the cleanup task of an action.           *)

SweepBegin(f) ==
  /\ pc[f] = "wait" /\ lock = Nobody /\ op[f] = "release"
  /\ lock' = f
  /\ todo' = [todo EXCEPT ![f] = Held]
  /\ Goto(f, "sweep")
  /\ UNCHANGED <<op, input, step, task, ledger, gate, failed, drags, actionVars, chrome>>

SweepNext(f, i) ==
  /\ pc[f] = "sweep" /\ i \in todo[f]
  /\ input' = [input EXCEPT ![f] = i]
  /\ Goto(f, "send")
  /\ UNCHANGED <<op, step, todo, task, ledger, shared, actionVars, chrome>>

\* A sweep of release_all_inputs goes on after an error; a cleanup task stops.
\* What a sweep could not release stays in the ledger.
SweepReply(f, ok) ==
  /\ Sweeping(f) /\ Ended(f, ok)
  /\ ledger' = IF ok THEN [ledger EXCEPT ![input[f]] = Nobody] ELSE ledger
  /\ todo' = [todo EXCEPT ![f] = IF ok \/ op[f] = "release" THEN @ \ {input[f]} ELSE {}]
  /\ Goto(f, "sweep")
  /\ UNCHANGED <<op, input, step, task, shared, actionVars, chrome>>

\* cleanup_failed after a sweep: cleared by one that left nothing it should
\* have released, set by a cleanup task that did not finish.
SweepVerdict(f) ==
  IF Held = {} THEN FALSE ELSE IF op[f] = "release" THEN failed ELSE TRUE

SweepEnd(f) ==
  /\ pc[f] = "sweep" /\ todo[f] = {}
  /\ failed' = SweepVerdict(f)
  /\ Unlock(f) /\ OpenGate(f) /\ Goto(f, "done")
  /\ UNCHANGED <<futureVars, ledger, drags, actionVars, chrome>>

\* The five seconds of a cleanup task are over.
CleanupTimeout(f) ==
  /\ task[f] /\ op[f] \in Actions /\ pc[f] \in Awaiting
  /\ failed' = TRUE
  /\ Unlock(f) /\ OpenGate(f) /\ Goto(f, "done")
  /\ UNCHANGED <<futureVars, ledger, drags, actionVars, chrome>>

-----------------------------------------------------------------------------
(* Human drags, all on one helper.  The ledger's lock is kept from before the  *)
(* approach to the release, and by the task that releases a dropped drag.   *)

\* Mutant: a release that ended in an error is still waited for.
UnsettledForEver == {g \in Futures : drags[g] # "none"}

\* finish_releases waits for these and takes the results of all.
Unsettled == {g \in Futures : drags[g] = "task"}

\* finish_drag_cleanup before and after the lock is taken.
DragSettle(f) ==
  /\ pc[f] \in {"settle", "settled"} /\ Unsettled = {}
  /\ drags' = [g \in Futures |-> "none"]
  /\ IF \E g \in Futures : drags[g] = "failed"
     THEN Goto(f, "done") /\ Unlock(f)
     ELSE Goto(f, IF pc[f] = "settle" THEN "wait" ELSE "reserve") /\ UNCHANGED lock
  /\ UNCHANGED <<futureVars, ledger, gate, failed, actionVars, chrome>>

DragAcquire(f) ==
  /\ pc[f] = "wait" /\ lock = Nobody /\ op[f] = "drag"
  /\ \/ ledger[Left] = Nobody /\ lock' = f /\ Goto(f, "settled")
     \/ ledger[Left] # Nobody /\ Goto(f, "done") /\ UNCHANGED lock
  /\ UNCHANGED <<futureVars, ledger, gate, failed, drags, actionVars, chrome>>

DragPress(f) ==
  /\ pc[f] = "reserve"
  /\ ledger' = Reserved(f) /\ Goto(f, "send")
  /\ UNCHANGED <<futureVars, shared, actionVars, chrome>>

\* The press returned, or a movement after it failed: the button is released.
DragRelease(f) ==
  /\ op[f] = "drag" /\ step[f] = 1
  /\ Ended(f, TRUE) \/ Ended(f, FALSE)
  /\ step' = [step EXCEPT ![f] = 2] /\ Goto(f, "send")
  /\ UNCHANGED <<op, input, todo, task, ledger, shared, actionVars, chrome>>

\* DragInput::release ends; its caller or a later one learns of an error.
DragReleased(f, ok) ==
  /\ op[f] = "drag" /\ step[f] = 2 /\ Ended(f, ok)
  /\ ledger' = [ledger EXCEPT ![Left] = Nobody]
  /\ lost' = IF ok THEN lost ELSE lost \cup {Left}
  /\ drags' = [drags EXCEPT ![f] = IF ok THEN "none" ELSE "failed"]
  /\ Unlock(f) /\ Goto(f, "done")
  /\ UNCHANGED <<futureVars, gate, failed, actionVars, pressed, did>>

\* Its three seconds are over: the reservation stays.
DragTimeout(f) ==
  /\ op[f] = "drag" /\ step[f] = 2 /\ pc[f] \in Awaiting
  /\ drags' = [drags EXCEPT ![f] = "failed"]
  /\ Unlock(f) /\ Goto(f, "done")
  /\ UNCHANGED <<futureVars, ledger, gate, failed, actionVars, chrome>>

\* Drop for DragRelease, armed from the press on.
DragDrop(f) ==
  /\ op[f] = "drag" /\ ~task[f]
  /\ \/ /\ pc[f] \in Awaiting
        /\ task' = [task EXCEPT ![f] = TRUE]
        /\ step' = [step EXCEPT ![f] = 2]
        /\ drags' = [drags EXCEPT ![f] = "task"]
        /\ Goto(f, "send") /\ UNCHANGED lock
     \/ /\ pc[f] \in Awaiting \* there is no runtime to release it
        /\ drags' = [drags EXCEPT ![f] = "failed"]
        /\ Unlock(f) /\ Goto(f, "done") /\ UNCHANGED <<task, step>>
     \/ /\ pc[f] \in {"settle", "wait", "settled", "reserve"}
        /\ Unlock(f) /\ Goto(f, "done") /\ UNCHANGED <<task, step, drags>>
  /\ UNCHANGED <<op, input, todo, ledger, gate, failed, actionVars, chrome>>

-----------------------------------------------------------------------------
(* Actions: run_action, perform, and shadow clicks up to their press.       *)

Give(f, pending) ==
  receipt' = [receipt EXCEPT ![f] =
    [given |-> TRUE, notDispatched |-> disp[f] = "NotSent", pending |-> pending]]

TakeGate(f) ==
  /\ pc[f] = "gate" /\ gate = Nobody
  /\ \/ ~failed /\ gate' = f /\ UNCHANGED receipt
        /\ Goto(f, IF op[f] = "shadow" THEN "check" ELSE "wait")
     \/ /\ failed /\ UNCHANGED gate /\ Goto(f, "done")
        /\ IF op[f] = "shadow" THEN UNCHANGED receipt ELSE Give(f, FALSE)
  /\ UNCHANGED <<futureVars, ledger, lock, failed, drags, disp, chrome>>

ShadowFound(f) ==
  /\ op[f] = "shadow" /\ pc[f] = "check"
  /\ Goto(f, "wait")
  /\ UNCHANGED <<futureVars, ledger, shared, actionVars, chrome>>

\* Mutant: the action starts while something is held.
MayActHolding == TRUE

\* ActionInput::acquire.
MayAct == Held = {}

ActionAcquire(f) ==
  /\ pc[f] = "wait" /\ lock = Nobody /\ op[f] \in Actions
  /\ IF MayAct THEN lock' = f /\ Goto(f, "prepare") /\ UNCHANGED <<gate, receipt>>
     ELSE OpenGate(f) /\ Goto(f, "done") /\ Give(f, FALSE) /\ UNCHANGED lock
  /\ UNCHANGED <<futureVars, ledger, failed, drags, disp, chrome>>

Prepare(f) ==
  /\ pc[f] = "prepare"
  /\ Goto(f, "check")
  /\ UNCHANGED <<futureVars, ledger, shared, actionVars, chrome>>

\* The target still receives input, or the next click of a double click begins.
Dispatch(f) ==
  /\ pc[f] = "check" /\ op[f] \in Actions
  /\ ledger' = Reserved(f) /\ Goto(f, "send")
  /\ UNCHANGED <<futureVars, shared, actionVars, chrome>>

\* Mutant: whatever was dispatched, a changed target is tried again.
MayRetryAlways(f) == TRUE
MayRetry(f) == disp[f] = "NotSent"

\* The check finds the target changed: actionability_changed.
Retry(f) ==
  /\ pc[f] = "check" /\ op[f] \in Actions
  /\ step[f] = 1 \/ op[f] = "text"
  /\ MayRetry(f)
  /\ step' = [step EXCEPT ![f] = 1] /\ Goto(f, "prepare")
  /\ UNCHANGED <<op, input, todo, task, ledger, shared, actionVars, chrome>>

\* Verification::Noop: the field has the value already.
AlreadySatisfied(f) ==
  /\ pc[f] = "check" /\ op[f] = "text" /\ step[f] = 1
  /\ Goto(f, "verify")
  /\ UNCHANGED <<futureVars, ledger, shared, actionVars, chrome>>

\* Dispatch::send is acknowledged.
Acknowledge(f) ==
  /\ op[f] \in Actions /\ ~task[f] /\ Ended(f, TRUE)
  /\ disp' = [disp EXCEPT ![f] = "Acknowledged"]
  /\ ledger' = IF Command(f) = "up" THEN [ledger EXCEPT ![input[f]] = Nobody] ELSE ledger
  /\ IF step[f] = Len(Commands(f)) THEN Goto(f, "verify") /\ UNCHANGED step
     ELSE /\ step' = [step EXCEPT ![f] = @ + 1]
          /\ Goto(f, IF Command(f) = "down" THEN "send" ELSE "check")
  /\ UNCHANGED <<op, input, todo, task, shared, receipt, chrome>>

Verified(f) ==
  /\ pc[f] = "verify"
  /\ Give(f, FALSE)
  /\ Unlock(f) /\ OpenGate(f) /\ Goto(f, "done")
  /\ UNCHANGED <<futureVars, ledger, failed, drags, disp, chrome>>

\* Whether the reservations of an ending action are discarded.
Unsent(f) == disp[f] = "NotSent"

\* An action ends before its result is verified: an error or the deadline, with
\* a receipt, or its future is dropped. What it holds is released by a task that
\* keeps gate and ledger, unless there is no runtime.
ActionEnds(f, told) ==
  /\ op[f] \in Actions /\ ~task[f]
  /\ pc[f] \in Awaiting \cup {"gate", "wait", "prepare", "check", "verify"}
  /\ LET kept == IF Unsent(f) THEN {} ELSE Held
     IN  IF lock = f /\ kept # {}
         THEN /\ failed' = TRUE
              /\ IF told THEN Give(f, TRUE) ELSE UNCHANGED receipt
              /\ UNCHANGED ledger
              /\ \/ /\ task' = [task EXCEPT ![f] = TRUE]
                    /\ todo' = [todo EXCEPT ![f] = kept]
                    /\ Goto(f, "sweep") /\ UNCHANGED <<lock, gate>>
                 \/ /\ Unlock(f) /\ OpenGate(f) /\ Goto(f, "done")
                    /\ UNCHANGED <<task, todo>>
         ELSE /\ ledger' = IF lock = f THEN [i \in Inputs |-> Nobody] ELSE ledger
              /\ Unlock(f) /\ OpenGate(f) /\ Goto(f, "done")
              /\ IF told THEN Give(f, FALSE) ELSE UNCHANGED receipt
              /\ UNCHANGED <<task, todo, failed>>
  /\ UNCHANGED <<op, input, step, drags, disp, chrome>>

-----------------------------------------------------------------------------
(* Other futures dropped by their callers.                                  *)

\* Mutant: a dropped press takes its reservation along.
LedgerDropped(f) ==
  IF pc[f] \in Awaiting THEN [ledger EXCEPT ![input[f]] = Nobody] ELSE ledger

\* Reservations outlive the future that made them.
LedgerAfterDrop(f) == ledger

Drop(f) ==
  /\ op[f] \in {"down", "up", "release"} /\ ~task[f]
  /\ pc[f] \in Awaiting \cup {"wait"}
  /\ ledger' = LedgerAfterDrop(f)
  /\ Unlock(f) /\ Goto(f, "done")
  /\ UNCHANGED <<futureVars, gate, failed, drags, actionVars, chrome>>

\* The deadline of a shadow click, or its future is dropped.
ShadowDrop(f) ==
  /\ op[f] = "shadow" /\ pc[f] \in Awaiting \cup {"gate", "check", "wait"}
  /\ Unlock(f)
  /\ \/ pc[f] \notin {"gate", "check"} /\ ShadowFails(f)
     \/ Goto(f, "done") /\ OpenGate(f) /\ UNCHANGED futureVars
  /\ UNCHANGED <<ledger, failed, drags, actionVars, chrome>>

-----------------------------------------------------------------------------
Finished == (\A f \in Futures : pc[f] = "done") /\ UNCHANGED vars

HeldNext(f) ==
  \/ Write(f) \/ WriteRefused(f)
  \/ ExplicitBegin(f) \/ \E ok \in BOOLEAN : ExplicitEnd(f, ok)
  \/ SweepBegin(f) \/ \E i \in Inputs : SweepNext(f, i)
  \/ \E ok \in BOOLEAN : SweepReply(f, ok)
  \/ SweepEnd(f)

DragNext(f) ==
  \/ DragSettle(f) \/ DragAcquire(f) \/ DragPress(f) \/ DragRelease(f)
  \/ \E ok \in BOOLEAN : DragReleased(f, ok)

ActionNext(f) ==
  \/ TakeGate(f) \/ ShadowFound(f) \/ ActionAcquire(f) \/ Prepare(f) \/ Dispatch(f)
  \/ Retry(f) \/ AlreadySatisfied(f) \/ Acknowledge(f) \/ Verified(f)

Deadline(f) ==
  \/ ActionEnds(f, TRUE) \/ ShadowDrop(f) \/ CleanupTimeout(f) \/ DragTimeout(f)

Next ==
  \/ \E f \in Futures :
       \/ \E o \in Ops, i \in Inputs : Begin(f, o, i)
       \/ HeldNext(f) \/ DragNext(f) \/ ActionNext(f) \/ Deadline(f)
       \/ Drop(f) \/ DragDrop(f) \/ ActionEnds(f, FALSE)
  \/ Finished

Spec == Init /\ [][Next]_vars

\* Futures are polled, commands and tasks have deadlines and so have actions.
Fairness == \A f \in Futures :
  /\ WF_vars(HeldNext(f) \/ DragNext(f) \/ ActionNext(f))
  /\ WF_vars(Deadline(f))
FairSpec == Spec /\ Fairness

-----------------------------------------------------------------------------
(* Properties.                                                              *)

\* Every variable keeps its type, and whoever dispatches input holds the ledger.
TypeOK ==
  /\ pc \in [Futures -> Pcs]
  /\ op \in [Futures -> Ops \cup {"up", "release"}]
  /\ input \in [Futures -> Inputs]
  /\ step \in [Futures -> 1..4]
  /\ todo \in [Futures -> SUBSET Inputs]
  /\ task \in [Futures -> BOOLEAN]
  /\ ledger \in [Inputs -> Futures \cup {Nobody}]
  /\ lock \in Futures \cup {Nobody}
  /\ gate \in Futures \cup {Nobody}
  /\ failed \in BOOLEAN
  /\ drags \in [Futures -> {"none", "task", "failed"}]
  /\ disp \in [Futures -> {"NotSent", "MayHaveBeenSent", "Acknowledged"}]
  /\ receipt \in [Futures -> [given: BOOLEAN, notDispatched: BOOLEAN, pending: BOOLEAN]]
  /\ pressed \in [Inputs -> Futures \cup {Nobody}]
  /\ \A f \in Futures : did[f] \in Seq(1..4)
  /\ lost \subseteq Inputs
  /\ \A f \in Futures : pc[f] \in Awaiting => lock = f

\* What Chrome holds down is in the ledger, so that release_all_inputs can
\* release it, wherever futures were dropped; except what a failing command gave up.
PressedTracked ==
  \A i \in Inputs : pressed[i] # Nobody => ledger[i] # Nobody \/ i \in lost

\* Input of an action that ended without releasing it keeps every later action out.
ResidueBlocksActions ==
  \A i \in Inputs :
    LET f == ledger[i] IN
    f # Nobody => (op[f] \in Actions /\ pc[f] = "done" => failed)

\* An action sends input only while nothing of anyone else is held down.
ActionsAlone ==
  [][\A f \in Futures : did'[f] # did[f] =>
       \A i \in Inputs : pressed[i] \in {Nobody, f} \/ i \in lost]_vars

\* A receipt that says "not dispatched" is of an action none of whose input reached
\* Chrome, then or later; one without cleanup pending leaves nothing pressed.
ReceiptHonest ==
  \A f \in Futures : receipt[f].given =>
    /\ receipt[f].notDispatched => did[f] = <<>>
    /\ receipt[f].pending \/ \A i \in Inputs : pressed[i] # f

\* However often an action is retried, each of its inputs reaches Chrome once at most.
NoReplay ==
  \A f \in Futures : \A m, n \in DOMAIN did[f] : m # n => did[f][m] # did[f][n]

\* Every operation ends: gate, ledger and drag cleanups never wait for each other.
EveryFutureEnds == \A f \in Futures : (pc[f] # "idle") ~> (pc[f] = "done")

\* What is held down is known, and keeps out whoever could not release it.
InputTracked == TypeOK /\ PressedTracked /\ ResidueBlocksActions

\* The receipt that a retry goes by is honest, and so no input is sent twice.
ReceiptTrue == ReceiptHonest /\ NoReplay
=============================================================================
