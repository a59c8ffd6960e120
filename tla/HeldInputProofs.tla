---------------------------- MODULE HeldInputProofs ----------------------------
(***************************************************************************)
(* The ledger of what Chrome holds down, the receipts of actions and their  *)
(* exclusion, for any futures, inputs and operations of HeldInput.         *)
(*                                                                         *)
(* The invariant says of each future where it may be, what it has reserved *)
(* and pressed, and who holds the ledger's mutex.  A step of one future    *)
(* changes nothing that the invariant says of another (Spared), so each    *)
(* action is proved to keep the invariant of its own future.               *)
(***************************************************************************)
EXTENDS HeldInput, TLAPS

\* What actions tell their callers.
Receipts == [given: BOOLEAN, notDispatched: BOOLEAN, pending: BOOLEAN]

\* The types of the variables.
Typed ==
  /\ pc \in [Futures -> Pcs] /\ op \in [Futures -> Ops \cup {"up", "release"}]
  /\ input \in [Futures -> Inputs] /\ step \in [Futures -> 1..4]
  /\ todo \in [Futures -> SUBSET Inputs] /\ task \in [Futures -> BOOLEAN]
  /\ ledger \in [Inputs -> Futures \cup {Nobody}]
  /\ lock \in Futures \cup {Nobody} /\ gate \in Futures \cup {Nobody} /\ failed \in BOOLEAN
  /\ drags \in [Futures -> {"none", "task", "failed"}]
  /\ disp \in [Futures -> {"NotSent", "MayHaveBeenSent", "Acknowledged"}]
  /\ receipt \in [Futures -> Receipts]
  /\ pressed \in [Inputs -> Futures \cup {Nobody}]
  /\ did \in [Futures -> Seq(1..4)] /\ lost \subseteq Inputs

\* Who holds the ledger's mutex, by where it is.
Holds(f) ==
  \/ pc[f] \in Awaiting \cup {"sweep", "prepare", "verify", "settled", "reserve"}
  \/ pc[f] = "check" /\ op[f] # "shadow"

\* An action that has the ledger and was not dropped.
Acting(f) == op[f] \in Actions /\ ~task[f] /\ Holds(f)

\* Nothing was written yet, and nothing reserved.
Untouched(f) == disp[f] = "NotSent" /\ \A i \in Inputs : ledger[i] # f

\* Which operations are where, and the command they are at.
Placed(f) ==
  /\ lock = f <=> Holds(f)
  /\ pc[f] = "idle" =>
       /\ op[f] = "up" /\ step[f] = 1 /\ ~task[f] /\ ~receipt[f].given
       /\ Untouched(f) /\ did[f] = <<>> /\ \A i \in Inputs : pressed[i] # f
  /\ op[f] \in {"drag", "shadow"} => input[f] = Left
  /\ ~task[f] => step[f] \in DOMAIN Commands(f)
  /\ task[f] => op[f] \in Actions \cup {"drag", "release"}
  /\ task[f] /\ op[f] # "release" => pc[f] \in Awaiting \cup {"sweep", "done"}
  /\ pc[f] = "sweep" => Sweeping(f)
  /\ pc[f] \in {"prepare", "verify"} => op[f] \in Actions
  /\ pc[f] \in {"gate", "check"} => op[f] \in Actions \cup {"shadow"}
  /\ pc[f] \in {"settle", "settled", "reserve"} => op[f] = "drag"
  /\ op[f] = "drag" /\ pc[f] \in {"settle", "wait", "settled", "reserve"} => step[f] = 1

\* What a command that is on its way has reserved, and has done once it is written.
Commanded(f) ==
  /\ pc[f] \in Awaiting /\ Command(f) = "down" => ledger[input[f]] = f
  /\ pc[f] = "reply" /\ Command(f) = "up" => pressed[input[f]] = Nobody

\* An action that has the ledger has it alone.
Alone(f) ==
  Acting(f) => \A i \in Inputs :
    /\ ledger[i] # Nobody =>
         ledger[i] = f /\ i = input[f] /\ pc[f] \in Awaiting /\ Command(f) # "text"
    /\ pressed[i] \in {Nobody, f} \/ i \in lost

\* What an action has pressed, it has reserved; before it has the ledger, it has neither.
Owned(f) ==
  op[f] \in Actions =>
    /\ pc[f] \in {"gate", "wait"} => Untouched(f)
    /\ disp[f] = "NotSent" => did[f] = <<>> /\ \A i \in Inputs : pressed[i] # f
    /\ \A i \in Inputs : pressed[i] = f => ledger[i] = f \/ task[f] \/ pc[f] = "done"
    /\ \A i \in Inputs : ledger[i] = f => pc[f] \in Awaiting \cup {"sweep"} \/ failed

\* The steps sent are those before the one it is at, each once.
Counted(f) ==
  /\ \A m, n \in DOMAIN did[f] : m # n => did[f][m] # did[f][n]
  /\ op[f] \in Actions /\ ~task[f] /\ pc[f] # "done" =>
       \A m \in DOMAIN did[f] :
         did[f][m] < step[f] \/ (did[f][m] = step[f] /\ pc[f] \in {"reply", "verify"})

\* A receipt is the last thing of an action, or leaves a task behind.
Honest(f) ==
  receipt[f].given =>
    /\ pc[f] = "done" \/ task[f]
    /\ receipt[f].notDispatched => did[f] = <<>>
    /\ receipt[f].pending \/ \A i \in Inputs : pressed[i] # f

\* All that is said of one future.
FutureInv(f) == Placed(f) /\ Commanded(f) /\ Alone(f) /\ Owned(f) /\ Counted(f) /\ Honest(f)

\* The inductive invariant, beside the types.
Inv == PressedTracked /\ \A f \in Futures : FutureInv(f)

\* The own variables of a future.
Same(g) ==
  UNCHANGED <<pc[g], op[g], input[g], step[g], task[g], disp[g], receipt[g], did[g]>>

\* What a step of one future is to another.
Spared(g) ==
  /\ Same(g) /\ (lock' = g <=> lock = g)
  /\ lock = g => UNCHANGED <<ledger, pressed, lost>>
  /\ \A i \in Inputs : (ledger'[i] = g => ledger[i] = g) /\ (pressed'[i] = g => pressed[i] = g)
  /\ failed => failed' \/ \A i \in Inputs : ledger'[i] = Nobody

\* A future that is spared keeps its invariant.
LEMMA SparedKept ==
  ASSUME NEW g \in Futures, Typed, FutureInv(g), Spared(g)
  PROVE  FutureInv(g)'
<1> USE HeldAssumption
<1>0. /\ Holds(g)' <=> Holds(g)
      /\ Acting(g)' <=> Acting(g)
      /\ Sweeping(g)' <=> Sweeping(g)
      /\ Command(g)' = Command(g) /\ Commands(g)' = Commands(g)
  BY DEF Spared, Same, Holds, Acting, Command, Commands, Sweeping
<1>1. Placed(g)'
  BY <1>0 DEF FutureInv, Spared, Same, Placed, Untouched
<1>2. Commanded(g)'
  <2>1. CASE pc[g] \in Awaiting
    <3>1. lock = g /\ UNCHANGED <<ledger, pressed>>
      BY <2>1 DEF FutureInv, Spared, Placed, Holds
    <3>2. Command(g)' = Command(g) /\ UNCHANGED <<pc[g], input[g]>>
      BY <1>0 DEF Spared, Same
    <3> QED
      BY <3>1, <3>2 DEF FutureInv, Commanded
  <2>2. CASE pc[g] \notin Awaiting
    BY <2>2 DEF Spared, Same, Commanded, Awaiting
  <2> QED
    BY <2>1, <2>2
<1>3. Alone(g)'
  BY <1>0 DEF FutureInv, Spared, Same, Placed, Alone, Acting
<1>4. Owned(g)'
  BY <1>0 DEF FutureInv, Spared, Same, Placed, Owned, Untouched, Typed, Pcs, Holds, Awaiting,
     Actions
<1>5. Counted(g)'
  BY DEF FutureInv, Spared, Same, Counted
<1>6. Honest(g)'
  BY DEF FutureInv, Spared, Same, Honest
<1> QED
  BY <1>1, <1>2, <1>3, <1>4, <1>5, <1>6 DEF FutureInv

-----------------------------------------------------------------------------
(* Commands, explicit presses and releases, and sweeps.                     *)

LEMMA WriteKeeps ==
  ASSUME Typed, Inv, NEW f \in Futures, Write(f)
  PROVE  Typed' /\ Inv'
<1> USE HeldAssumption DEF Write, Marked, Command, Actions, Goto, futureVars, shared, Commands
<1>0. FutureInv(f)
  BY DEF Inv
<1>1. Typed'
  <2>1. \E p \in Pcs : Goto(f, p)
    BY DEF Pcs
  <2>2. \E n \in 1..4 : step' = [step EXCEPT ![f] = n]
    BY DEF Typed
  <2>3. UNCHANGED receipt \/ \E r \in Receipts : receipt' = [receipt EXCEPT ![f] = r]
    OBVIOUS
  <2>4. ledger' \in [Inputs -> Futures \cup {Nobody}]
    BY DEF Typed
  <2>5. /\ todo' \in [Futures -> SUBSET Inputs]
        /\ op' \in [Futures -> Ops \cup {"up", "release"}]
    BY DEF Typed
  <2>6. /\ pc' \in [Futures -> Pcs] /\ step' \in [Futures -> 1..4]
        /\ receipt' \in [Futures -> Receipts]
    BY <2>1, <2>2, <2>3 DEF Goto, Typed
  <2>7. /\ input' \in [Futures -> Inputs] /\ task' \in [Futures -> BOOLEAN]
        /\ drags' \in [Futures -> {"none", "task", "failed"}]
    BY DEF Typed
  <2>8. lock' \in Futures \cup {Nobody} /\ gate' \in Futures \cup {Nobody} /\ failed' \in BOOLEAN
    BY DEF Typed
  <2>9. /\ disp' \in [Futures -> {"NotSent", "MayHaveBeenSent", "Acknowledged"}]
        /\ pressed' \in [Inputs -> Futures \cup {Nobody}]
        /\ did' \in [Futures -> Seq(1..4)] /\ lost' \subseteq Inputs
    BY DEF Typed, Pcs, Receipts
  <2> QED
    BY <2>4, <2>5, <2>6, <2>7, <2>8, <2>9 DEF Typed
<1>2. \A g \in Futures \ {f} : Spared(g)
  BY <1>0 DEF Spared, Typed, FutureInv, Placed, Same, Holds, Awaiting
<1>3. Placed(f)'
  BY <1>0 DEF Placed, FutureInv, Holds, Awaiting
<1>4. Commanded(f)'
  BY <1>0 DEF Commanded, Typed, FutureInv, Awaiting
<1>5. Alone(f)'
  BY <1>0 DEF Alone, Typed, FutureInv, Acting, Awaiting, Holds
<1>6. Owned(f)'
  BY <1>0 DEF Owned, Typed, FutureInv, Commanded, Awaiting
<1>7. Counted(f)'
  BY <1>0 DEF Counted, Typed, FutureInv
<1>8. Honest(f)'
  BY <1>0 DEF Honest, Typed, FutureInv
<1>9. PressedTracked'
  BY <1>0 DEF PressedTracked, Inv, Typed, FutureInv, Commanded, Awaiting
<1> QED
  BY <1>1, <1>2, <1>3, <1>4, <1>5, <1>6, <1>7, <1>8, <1>9, SparedKept DEF Inv, FutureInv

LEMMA WriteRefusedKeeps ==
  ASSUME Typed, Inv, NEW f \in Futures, WriteRefused(f)
  PROVE  Typed' /\ Inv'
<1> USE HeldAssumption DEF WriteRefused, Marked, Goto, futureVars, shared, chrome, Actions
<1>0. FutureInv(f)
  BY DEF Inv
<1>1. Typed'
  BY DEF Typed, Pcs
<1>2. \A g \in Futures \ {f} : Spared(g)
  BY DEF Spared, Same
<1>3. FutureInv(f)'
  BY <1>0, <1>1 DEF FutureInv, Typed, Placed, Commanded, Alone, Owned, Counted, Honest, Holds,
     Commands, Awaiting, Command, Acting
<1>9. PressedTracked'
  BY DEF PressedTracked, Inv
<1> QED
  BY <1>1, <1>2, <1>3, <1>9, SparedKept DEF Inv, FutureInv

LEMMA ExplicitBeginKeeps ==
  ASSUME Typed, Inv, NEW f \in Futures, ExplicitBegin(f)
  PROVE  Typed' /\ Inv'
<1> USE HeldAssumption DEF ExplicitBegin, Explicit, Legal, Reserved, Goto, futureVars, Return,
        actionVars, chrome, Command, OpenGate, ShadowFails, Commands, Without
<1>0. FutureInv(f)
  BY DEF Inv
<1>1. Typed'
  <2>1. \E p \in Pcs : Goto(f, p)
    BY DEF Pcs
  <2>2. \E n \in 1..4 : step' = [step EXCEPT ![f] = n]
    BY DEF Typed
  <2>3. UNCHANGED receipt \/ \E r \in Receipts : receipt' = [receipt EXCEPT ![f] = r]
    OBVIOUS
  <2>4. ledger' \in [Inputs -> Futures \cup {Nobody}]
    <3>1. ledger' \in {ledger, [ledger EXCEPT ![input[f]] = f]}
      OBVIOUS
    <3> HIDE DEF ExplicitBegin
    <3> QED
      BY <3>1 DEF Typed
  <2>5. /\ todo' \in [Futures -> SUBSET Inputs]
        /\ op' \in [Futures -> Ops \cup {"up", "release"}]
    BY DEF Typed, NoReceipt, Receipts
  <2>6. /\ pc' \in [Futures -> Pcs] /\ step' \in [Futures -> 1..4]
        /\ receipt' \in [Futures -> Receipts]
    BY <2>1, <2>2, <2>3 DEF Goto, Typed
  <2>7. /\ input' \in [Futures -> Inputs] /\ task' \in [Futures -> BOOLEAN]
        /\ drags' \in [Futures -> {"none", "task", "failed"}]
    BY DEF Typed, Pcs, NoReceipt, Receipts
  <2>8. lock' \in Futures \cup {Nobody} /\ gate' \in Futures \cup {Nobody} /\ failed' \in BOOLEAN
    BY DEF Typed
  <2>9. /\ disp' \in [Futures -> {"NotSent", "MayHaveBeenSent", "Acknowledged"}]
        /\ pressed' \in [Inputs -> Futures \cup {Nobody}]
        /\ did' \in [Futures -> Seq(1..4)] /\ lost' \subseteq Inputs
    BY DEF Typed
  <2> QED
    BY <2>4, <2>5, <2>6, <2>7, <2>8, <2>9 DEF Typed
<1>2. \A g \in Futures \ {f} : Spared(g)
  BY DEF Spared, Typed, Same
<1>3. FutureInv(f)'
  BY <1>0, <1>1 DEF FutureInv, Typed, Placed, Commanded, Alone, Owned, Counted, Honest, Holds,
     Actions, Awaiting, Acting
<1>9. PressedTracked'
  BY DEF PressedTracked, Inv, Typed
<1> QED
  BY <1>1, <1>2, <1>3, <1>9, SparedKept DEF Inv, FutureInv

LEMMA ExplicitEndKeeps ==
  ASSUME Typed, Inv, NEW f \in Futures, NEW ok \in BOOLEAN, ExplicitEnd(f, ok)
  PROVE  Typed' /\ Inv'
<1> USE HeldAssumption DEF ExplicitEnd, Explicit, Ended, Command, Unlock, Return, actionVars,
        Commands,
        Without, Goto, futureVars, OpenGate, ShadowFails
<1>0. FutureInv(f)
  BY DEF Inv
<1>1. Typed'
  <2>1. \E p \in Pcs : Goto(f, p)
    BY DEF Pcs
  <2>2. \E n \in 1..4 : step' = [step EXCEPT ![f] = n]
    BY DEF Typed
  <2>3. UNCHANGED receipt \/ \E r \in Receipts : receipt' = [receipt EXCEPT ![f] = r]
    OBVIOUS
  <2>4. ledger' \in [Inputs -> Futures \cup {Nobody}]
    BY DEF Typed
  <2>5. /\ todo' \in [Futures -> SUBSET Inputs]
        /\ op' \in [Futures -> Ops \cup {"up", "release"}]
    BY DEF Typed, Pcs, NoReceipt, Receipts
  <2>6. /\ pc' \in [Futures -> Pcs] /\ step' \in [Futures -> 1..4]
        /\ receipt' \in [Futures -> Receipts]
    BY <2>1, <2>2, <2>3 DEF Goto, Typed
  <2>7. /\ input' \in [Futures -> Inputs] /\ task' \in [Futures -> BOOLEAN]
        /\ drags' \in [Futures -> {"none", "task", "failed"}]
    BY DEF Typed, Pcs, NoReceipt, Receipts
  <2>8. lock' \in Futures \cup {Nobody} /\ gate' \in Futures \cup {Nobody} /\ failed' \in BOOLEAN
    BY DEF Typed
  <2>9. /\ disp' \in [Futures -> {"NotSent", "MayHaveBeenSent", "Acknowledged"}]
        /\ pressed' \in [Inputs -> Futures \cup {Nobody}]
        /\ did' \in [Futures -> Seq(1..4)] /\ lost' \subseteq Inputs
    BY DEF Typed
  <2> QED
    BY <2>4, <2>5, <2>6, <2>7, <2>8, <2>9 DEF Typed
<1>2. \A g \in Futures \ {f} : Spared(g)
  BY <1>0 DEF Spared, Typed, FutureInv, Placed, Same, Holds, Awaiting
<1>3. Placed(f)'
  BY <1>0 DEF Placed, Typed, FutureInv, Holds, Actions, Awaiting, Sweeping
<1>4. Commanded(f)'
  BY <1>0 DEF Commanded, Typed, Awaiting
<1>5. Alone(f)'
  BY <1>0 DEF Alone, Typed, Acting, Actions
<1>6. Owned(f)'
  BY <1>0 DEF Owned, Typed, Actions
<1>7. Counted(f)'
  BY <1>0 DEF Counted, Typed, FutureInv, Actions
<1>8. Honest(f)'
  BY <1>0 DEF Honest, Typed, FutureInv
<1>9. PressedTracked'
  BY <1>0 DEF PressedTracked, Inv, FutureInv, Commanded, Placed
<1> QED
  BY <1>1, <1>2, <1>3, <1>4, <1>5, <1>6, <1>7, <1>8, <1>9, SparedKept DEF Inv, FutureInv

LEMMA SweepBeginKeeps ==
  ASSUME Typed, Inv, NEW f \in Futures, SweepBegin(f)
  PROVE  Typed' /\ Inv'
<1> USE HeldAssumption DEF SweepBegin, Held, Goto, actionVars, chrome
<1>0. FutureInv(f)
  BY DEF Inv
<1>1. Typed'
  BY DEF Typed, Pcs
<1>2. \A g \in Futures \ {f} : Spared(g)
  BY DEF Spared, Same
<1>3. FutureInv(f)'
  BY <1>0, <1>1 DEF FutureInv, Typed, Placed, Commanded, Alone, Owned, Counted, Honest, Holds,
     Commands, Actions, Awaiting, Sweeping, Acting
<1>9. PressedTracked'
  BY DEF PressedTracked, Inv
<1> QED
  BY <1>1, <1>2, <1>3, <1>9, SparedKept DEF Inv, FutureInv

LEMMA SweepNextKeeps ==
  ASSUME Typed, Inv, NEW f \in Futures, NEW i \in Inputs, SweepNext(f, i)
  PROVE  Typed' /\ Inv'
<1> USE HeldAssumption DEF SweepNext, Goto, shared, actionVars, chrome
<1>0. FutureInv(f)
  BY DEF Inv
<1>1. Typed'
  BY DEF Typed, Pcs
<1>2. \A g \in Futures \ {f} : Spared(g)
  BY DEF Spared, Same
<1>3. FutureInv(f)'
  BY <1>0, <1>1 DEF FutureInv, Typed, Placed, Commanded, Alone, Owned, Counted, Honest, Holds,
     Commands, Actions, Awaiting, Sweeping, Command, Acting
<1>9. PressedTracked'
  BY DEF PressedTracked, Inv
<1> QED
  BY <1>1, <1>2, <1>3, <1>9, SparedKept DEF Inv, FutureInv

LEMMA SweepReplyKeeps ==
  ASSUME Typed, Inv, NEW f \in Futures, NEW ok \in BOOLEAN, SweepReply(f, ok)
  PROVE  Typed' /\ Inv'
<1> USE HeldAssumption DEF SweepReply, Sweeping, Ended, Goto, shared, actionVars, chrome, Actions
<1>0. FutureInv(f)
  BY DEF Inv
<1>1. Typed'
  BY DEF Typed, Pcs
<1>2. \A g \in Futures \ {f} : Spared(g)
  BY <1>0 DEF Spared, FutureInv, Placed, Same, Holds, Awaiting
<1>3. Placed(f)'
  BY <1>0 DEF Placed, FutureInv, Holds, Commands, Awaiting
<1>4. Commanded(f)'
  BY <1>0 DEF Commanded, Typed, Awaiting
<1>5. Alone(f)'
  BY <1>0 DEF Alone, Acting
<1>6. Owned(f)'
  BY <1>0 DEF Owned, FutureInv
<1>7. Counted(f)'
  BY <1>0 DEF Counted, FutureInv
<1>8. Honest(f)'
  BY <1>0 DEF Honest, FutureInv
<1>9. PressedTracked'
  BY <1>0 DEF PressedTracked, Inv, FutureInv, Commanded, Placed, Command, Commands
<1> QED
  BY <1>1, <1>2, <1>3, <1>4, <1>5, <1>6, <1>7, <1>8, <1>9, SparedKept DEF Inv, FutureInv

LEMMA SweepEndKeeps ==
  ASSUME Typed, Inv, NEW f \in Futures, SweepEnd(f)
  PROVE  Typed' /\ Inv'
<1> USE HeldAssumption DEF SweepEnd, SweepVerdict, Unlock, OpenGate, Goto, futureVars, actionVars,
        chrome, Held, Without
<1>0. FutureInv(f)
  BY DEF Inv
<1>1. Typed'
  BY DEF Typed, Pcs, NoReceipt, Receipts
<1>2. \A g \in Futures \ {f} : Spared(g)
  BY DEF Spared, Same
<1>3. FutureInv(f)'
  BY <1>0, <1>1 DEF FutureInv, Typed, Placed, Commanded, Alone, Owned, Counted, Honest, Holds,
     Commands, Actions, Awaiting, Acting
<1>9. PressedTracked'
  BY DEF PressedTracked, Inv
<1> QED
  BY <1>1, <1>2, <1>3, <1>9, SparedKept DEF Inv, FutureInv

-----------------------------------------------------------------------------
(* Human drags.                                                             *)

LEMMA DragSettleKeeps ==
  ASSUME Typed, Inv, NEW f \in Futures, DragSettle(f)
  PROVE  Typed' /\ Inv'
<1> USE HeldAssumption DEF DragSettle, Unsettled, Goto, Unlock, futureVars, actionVars, chrome,
        Without
<1>0. FutureInv(f)
  BY DEF Inv
<1>1. Typed'
  <2>1. \E p \in Pcs : Goto(f, p)
    BY DEF Pcs
  <2>2. \E n \in 1..4 : step' = [step EXCEPT ![f] = n]
    BY DEF Typed
  <2>3. UNCHANGED receipt \/ \E r \in Receipts : receipt' = [receipt EXCEPT ![f] = r]
    OBVIOUS
  <2>4. ledger' \in [Inputs -> Futures \cup {Nobody}]
    BY DEF Typed
  <2>5. /\ todo' \in [Futures -> SUBSET Inputs]
        /\ op' \in [Futures -> Ops \cup {"up", "release"}]
    BY DEF Typed
  <2>6. /\ pc' \in [Futures -> Pcs] /\ step' \in [Futures -> 1..4]
        /\ receipt' \in [Futures -> Receipts]
    BY <2>1, <2>2, <2>3 DEF Goto, Typed
  <2>7. /\ input' \in [Futures -> Inputs] /\ task' \in [Futures -> BOOLEAN]
        /\ drags' \in [Futures -> {"none", "task", "failed"}]
    BY DEF Typed
  <2>8. lock' \in Futures \cup {Nobody} /\ gate' \in Futures \cup {Nobody} /\ failed' \in BOOLEAN
    BY DEF Typed
  <2>9. /\ disp' \in [Futures -> {"NotSent", "MayHaveBeenSent", "Acknowledged"}]
        /\ pressed' \in [Inputs -> Futures \cup {Nobody}]
        /\ did' \in [Futures -> Seq(1..4)] /\ lost' \subseteq Inputs
    BY DEF Typed
  <2> QED
    BY <2>4, <2>5, <2>6, <2>7, <2>8, <2>9 DEF Typed
<1>2. \A g \in Futures \ {f} : Spared(g)
  BY DEF Spared, Typed, Same
<1>3. FutureInv(f)'
  BY <1>0, <1>1 DEF FutureInv, Typed, Placed, Commanded, Alone, Owned, Counted, Honest, Holds,
     Commands, Actions, Awaiting, Acting
<1>9. PressedTracked'
  BY DEF PressedTracked, Inv
<1> QED
  BY <1>1, <1>2, <1>3, <1>9, SparedKept DEF Inv, FutureInv

LEMMA DragAcquireKeeps ==
  ASSUME Typed, Inv, NEW f \in Futures, DragAcquire(f)
  PROVE  Typed' /\ Inv'
<1> USE HeldAssumption DEF DragAcquire, Goto, futureVars, actionVars, chrome
<1>0. FutureInv(f)
  BY DEF Inv
<1>1. Typed'
  BY DEF Typed, Pcs, NoReceipt, Receipts
<1>2. \A g \in Futures \ {f} : Spared(g)
  BY DEF Spared, Typed, Same
<1>3. FutureInv(f)'
  BY <1>0, <1>1 DEF FutureInv, Typed, Placed, Commanded, Alone, Owned, Counted, Honest, Holds,
     Commands, Actions, Awaiting, Acting
<1>9. PressedTracked'
  BY DEF PressedTracked, Inv
<1> QED
  BY <1>1, <1>2, <1>3, <1>9, SparedKept DEF Inv, FutureInv

LEMMA DragPressKeeps ==
  ASSUME Typed, Inv, NEW f \in Futures, DragPress(f)
  PROVE  Typed' /\ Inv'
<1> USE HeldAssumption DEF DragPress, Reserved, Goto, futureVars, shared, actionVars, chrome,
        Command,
        Commands
<1>0. FutureInv(f)
  BY DEF Inv
<1>1. Typed'
  BY DEF Typed, Pcs
<1>2. \A g \in Futures \ {f} : Spared(g)
  BY <1>0 DEF Spared, FutureInv, Placed, Same, Holds
<1>3. FutureInv(f)'
  BY <1>0, <1>1 DEF FutureInv, Typed, Placed, Commanded, Alone, Owned, Counted, Honest, Holds,
     Awaiting, Acting
<1>9. PressedTracked'
  BY DEF PressedTracked, Inv
<1> QED
  BY <1>1, <1>2, <1>3, <1>9, SparedKept DEF Inv, FutureInv

LEMMA DragReleaseKeeps ==
  ASSUME Typed, Inv, NEW f \in Futures, DragRelease(f)
  PROVE  Typed' /\ Inv'
<1> USE HeldAssumption DEF DragRelease, Ended, Goto, shared, actionVars, chrome
<1>0. FutureInv(f)
  BY DEF Inv
<1>1. Typed'
  BY DEF Typed, Pcs
<1>2. \A g \in Futures \ {f} : Spared(g)
  BY DEF Spared, Same
<1>3. FutureInv(f)'
  BY <1>0, <1>1 DEF FutureInv, Typed, Placed, Commanded, Alone, Owned, Counted, Honest, Holds,
     Commands, Actions, Awaiting, Command, Acting
<1>9. PressedTracked'
  BY DEF PressedTracked, Inv
<1> QED
  BY <1>1, <1>2, <1>3, <1>9, SparedKept DEF Inv, FutureInv

LEMMA DragReleasedKeeps ==
  ASSUME Typed, Inv, NEW f \in Futures, NEW ok \in BOOLEAN, DragReleased(f, ok)
  PROVE  Typed' /\ Inv'
<1> USE HeldAssumption DEF DragReleased, Ended, Unlock, Goto, futureVars, actionVars, Without
<1>0. FutureInv(f)
  BY DEF Inv
<1>1. Typed'
  BY DEF Typed, Pcs
<1>2. \A g \in Futures \ {f} : Spared(g)
  BY <1>0 DEF Spared, Typed, FutureInv, Placed, Same, Holds, Awaiting
<1>3. FutureInv(f)'
  BY <1>0, <1>1 DEF FutureInv, Typed, Placed, Commanded, Alone, Owned, Counted, Honest, Holds,
     Commands, Actions, Awaiting, Acting
<1>9. PressedTracked'
  BY <1>0 DEF PressedTracked, Inv, Typed, FutureInv, Commanded, Placed, Command, Commands
<1> QED
  BY <1>1, <1>2, <1>3, <1>9, SparedKept DEF Inv, FutureInv

-----------------------------------------------------------------------------
(* Actions, and shadow clicks up to their press.                            *)

LEMMA TakeGateKeeps ==
  ASSUME Typed, Inv, NEW f \in Futures, TakeGate(f)
  PROVE  Typed' /\ Inv'
<1> USE HeldAssumption DEF TakeGate, Goto, Give, futureVars, chrome
<1>0. FutureInv(f)
  BY DEF Inv
<1>1. Typed'
  <2>1. \E p \in Pcs : Goto(f, p)
    BY DEF Pcs
  <2>2. \E n \in 1..4 : step' = [step EXCEPT ![f] = n]
    BY DEF Typed
  <2>3. UNCHANGED receipt \/ \E r \in Receipts : receipt' = [receipt EXCEPT ![f] = r]
    BY DEF Typed, Receipts, Pcs, NoReceipt
  <2>4. ledger' \in [Inputs -> Futures \cup {Nobody}]
    BY DEF Typed
  <2>5. /\ todo' \in [Futures -> SUBSET Inputs]
        /\ op' \in [Futures -> Ops \cup {"up", "release"}]
    BY DEF Typed
  <2>6. /\ pc' \in [Futures -> Pcs] /\ step' \in [Futures -> 1..4]
        /\ receipt' \in [Futures -> Receipts]
    <3> HIDE DEF TakeGate
    <3>1. pc' \in [Futures -> Pcs]
      BY <2>1 DEF Goto, Typed
    <3>2. step' \in [Futures -> 1..4]
      BY <2>2 DEF Typed
    <3>3. receipt' \in [Futures -> Receipts]
      BY <2>3 DEF Typed
    <3> QED
      BY <3>1, <3>2, <3>3
  <2>7. /\ input' \in [Futures -> Inputs] /\ task' \in [Futures -> BOOLEAN]
        /\ drags' \in [Futures -> {"none", "task", "failed"}]
    BY DEF Typed
  <2>8. lock' \in Futures \cup {Nobody} /\ gate' \in Futures \cup {Nobody} /\ failed' \in BOOLEAN
    BY DEF Typed
  <2>9. /\ disp' \in [Futures -> {"NotSent", "MayHaveBeenSent", "Acknowledged"}]
        /\ pressed' \in [Inputs -> Futures \cup {Nobody}]
        /\ did' \in [Futures -> Seq(1..4)] /\ lost' \subseteq Inputs
    BY DEF Typed
  <2> QED
    BY <2>4, <2>5, <2>6, <2>7, <2>8, <2>9 DEF Typed
<1>2. \A g \in Futures \ {f} : Spared(g)
  BY DEF Spared, Typed, Same
<1>3. FutureInv(f)'
  BY <1>0, <1>1 DEF FutureInv, Typed, Placed, Commanded, Alone, Owned, Counted, Honest, Holds,
     Untouched, Commands, Actions, Awaiting, Acting
<1>9. PressedTracked'
  BY DEF PressedTracked, Inv
<1> QED
  BY <1>1, <1>2, <1>3, <1>9, SparedKept DEF Inv, FutureInv

LEMMA ShadowFoundKeeps ==
  ASSUME Typed, Inv, NEW f \in Futures, ShadowFound(f)
  PROVE  Typed' /\ Inv'
<1> USE HeldAssumption DEF ShadowFound, Goto, futureVars, shared, actionVars, chrome
<1>0. FutureInv(f)
  BY DEF Inv
<1>1. Typed'
  BY DEF Typed, Pcs
<1>2. \A g \in Futures \ {f} : Spared(g)
  BY DEF Spared, Same
<1>3. Placed(f)'
  BY <1>0 DEF Placed, FutureInv, Holds, Commands, Awaiting
<1>4. Commanded(f)'
  BY <1>0 DEF Commanded, Awaiting
<1>5. Alone(f)'
  BY <1>0 DEF Alone, Acting, Actions
<1>6. Owned(f)'
  BY <1>0 DEF Owned, Actions
<1>7. Counted(f)'
  BY <1>0 DEF Counted, FutureInv
<1>8. Honest(f)'
  BY <1>0 DEF Honest, FutureInv
<1>9. PressedTracked'
  BY DEF PressedTracked, Inv
<1> QED
  BY <1>1, <1>2, <1>3, <1>4, <1>5, <1>6, <1>7, <1>8, <1>9, SparedKept DEF Inv, FutureInv

LEMMA ActionAcquireKeeps ==
  ASSUME Typed, Inv, NEW f \in Futures, ActionAcquire(f)
  PROVE  Typed' /\ Inv'
<1> USE HeldAssumption DEF ActionAcquire, Actions, MayAct, Goto, OpenGate, Give, futureVars, chrome,
        Held, Without
<1>0. FutureInv(f)
  BY DEF Inv
<1>1. Typed'
  <2>1. \E p \in Pcs : Goto(f, p)
    BY DEF Pcs
  <2>2. \E n \in 1..4 : step' = [step EXCEPT ![f] = n]
    BY DEF Typed
  <2>3. UNCHANGED receipt \/ \E r \in Receipts : receipt' = [receipt EXCEPT ![f] = r]
    BY DEF Typed, Receipts, Pcs, NoReceipt
  <2>4. ledger' \in [Inputs -> Futures \cup {Nobody}]
    BY DEF Typed
  <2>5. /\ todo' \in [Futures -> SUBSET Inputs]
        /\ op' \in [Futures -> Ops \cup {"up", "release"}]
    BY DEF Typed
  <2>6. /\ pc' \in [Futures -> Pcs] /\ step' \in [Futures -> 1..4]
        /\ receipt' \in [Futures -> Receipts]
    <3> HIDE DEF ActionAcquire
    <3>1. pc' \in [Futures -> Pcs]
      BY <2>1 DEF Goto, Typed
    <3>2. step' \in [Futures -> 1..4]
      BY <2>2 DEF Typed
    <3>3. receipt' \in [Futures -> Receipts]
      BY <2>3 DEF Typed
    <3> QED
      BY <3>1, <3>2, <3>3
  <2>7. /\ input' \in [Futures -> Inputs] /\ task' \in [Futures -> BOOLEAN]
        /\ drags' \in [Futures -> {"none", "task", "failed"}]
    BY DEF Typed
  <2>8. lock' \in Futures \cup {Nobody} /\ gate' \in Futures \cup {Nobody} /\ failed' \in BOOLEAN
    BY DEF Typed
  <2>9. /\ disp' \in [Futures -> {"NotSent", "MayHaveBeenSent", "Acknowledged"}]
        /\ pressed' \in [Inputs -> Futures \cup {Nobody}]
        /\ did' \in [Futures -> Seq(1..4)] /\ lost' \subseteq Inputs
    BY DEF Typed
  <2> QED
    BY <2>4, <2>5, <2>6, <2>7, <2>8, <2>9 DEF Typed
<1>2. \A g \in Futures \ {f} : Spared(g)
  BY DEF Spared, Typed, Same
<1>3. Placed(f)'
  BY <1>0 DEF Placed, Typed, FutureInv, Holds, Commands, Awaiting
<1>4. Commanded(f)'
  BY <1>0 DEF Commanded, Typed, Awaiting
<1>5. Alone(f)'
  <2>1. CASE MayAct
    <3>1. \A i \in Inputs : ledger'[i] = Nobody /\ (pressed'[i] = Nobody \/ i \in lost')
      BY <2>1 DEF Inv, PressedTracked, Typed
    <3> QED
      BY <3>1 DEF Alone
  <2>2. CASE ~MayAct
    <3>1. pc'[f] = "done"
      BY <2>2 DEF Typed
    <3> QED
      BY <3>1 DEF Alone, Acting, Holds, Awaiting
  <2> QED
    BY <2>1, <2>2
<1>6. Owned(f)'
  BY <1>0 DEF Owned, FutureInv, Untouched
<1>7. Counted(f)'
  BY <1>0 DEF Counted, FutureInv
<1>8. Honest(f)'
  <2>1. did'[f] = did[f] /\ UNCHANGED <<pressed, task>> /\ op[f] \in Actions /\ pc[f] = "wait"
    OBVIOUS
  <2>2. disp[f] = "NotSent" /\ did[f] = <<>> /\ \A i \in Inputs : pressed[i] # f
    BY <1>0, <2>1 DEF FutureInv, Owned, Untouched
  <2>3. pc'[f] = "done" \/ UNCHANGED receipt
    BY DEF Typed
  <2> QED
    BY <1>0, <2>1, <2>2, <2>3 DEF FutureInv, Honest
<1>9. PressedTracked'
  BY DEF PressedTracked, Inv
<1> QED
  BY <1>1, <1>2, <1>3, <1>4, <1>5, <1>6, <1>7, <1>8, <1>9, SparedKept DEF Inv, FutureInv

LEMMA PrepareKeeps ==
  ASSUME Typed, Inv, NEW f \in Futures, Prepare(f)
  PROVE  Typed' /\ Inv'
<1> USE HeldAssumption DEF Prepare, Goto, futureVars, shared, actionVars, chrome
<1>0. FutureInv(f)
  BY DEF Inv
<1>1. Typed'
  BY DEF Typed, Pcs
<1>2. \A g \in Futures \ {f} : Spared(g)
  BY DEF Spared, Same
<1>3. FutureInv(f)'
  BY <1>0, <1>1 DEF FutureInv, Typed, Placed, Commanded, Alone, Owned, Counted, Honest, Holds,
     Commands, Actions, Awaiting, Acting
<1>9. PressedTracked'
  BY DEF PressedTracked, Inv
<1> QED
  BY <1>1, <1>2, <1>3, <1>9, SparedKept DEF Inv, FutureInv

LEMMA DispatchKeeps ==
  ASSUME Typed, Inv, NEW f \in Futures, Dispatch(f)
  PROVE  Typed' /\ Inv'
<1> USE HeldAssumption DEF Dispatch, Actions, Reserved, Goto, futureVars, shared, actionVars,
        chrome,
        Command, Commands
<1>0. FutureInv(f)
  BY DEF Inv
<1>1. Typed'
  BY DEF Typed, Pcs
<1>2. \A g \in Futures \ {f} : Spared(g)
  BY <1>0 DEF Spared, FutureInv, Placed, Same, Holds
<1>3. Placed(f)'
  BY <1>0 DEF Placed, FutureInv, Holds, Awaiting
<1>4. Commanded(f)'
  BY <1>0 DEF Commanded, Typed
<1>5. Alone(f)'
  BY <1>0 DEF Alone, Typed, FutureInv, Acting, Holds
<1>6. Owned(f)'
  BY <1>0 DEF Owned, Typed, FutureInv, Awaiting
<1>7. Counted(f)'
  BY <1>0 DEF Counted, FutureInv
<1>8. Honest(f)'
  BY <1>0 DEF Honest, FutureInv
<1>9. PressedTracked'
  BY DEF PressedTracked, Inv
<1> QED
  BY <1>1, <1>2, <1>3, <1>4, <1>5, <1>6, <1>7, <1>8, <1>9, SparedKept DEF Inv, FutureInv

LEMMA RetryKeeps ==
  ASSUME Typed, Inv, NEW f \in Futures, Retry(f)
  PROVE  Typed' /\ Inv'
<1> USE HeldAssumption DEF Retry, Actions, MayRetry, Goto, shared, actionVars, chrome
<1>0. FutureInv(f)
  BY DEF Inv
<1>1. Typed'
  BY DEF Typed, Pcs
<1>2. \A g \in Futures \ {f} : Spared(g)
  BY DEF Spared, Same
<1>3. FutureInv(f)'
  BY <1>0, <1>1 DEF FutureInv, Typed, Placed, Commanded, Alone, Owned, Counted, Honest, Holds,
     Commands, Awaiting, Acting
<1>9. PressedTracked'
  BY DEF PressedTracked, Inv
<1> QED
  BY <1>1, <1>2, <1>3, <1>9, SparedKept DEF Inv, FutureInv

LEMMA AlreadySatisfiedKeeps ==
  ASSUME Typed, Inv, NEW f \in Futures, AlreadySatisfied(f)
  PROVE  Typed' /\ Inv'
<1> USE HeldAssumption DEF AlreadySatisfied, Goto, futureVars, shared, actionVars, chrome
<1>0. FutureInv(f)
  BY DEF Inv
<1>1. Typed'
  BY DEF Typed, Pcs
<1>2. \A g \in Futures \ {f} : Spared(g)
  BY DEF Spared, Same
<1>3. FutureInv(f)'
  BY <1>0, <1>1 DEF FutureInv, Typed, Placed, Commanded, Alone, Owned, Counted, Honest, Holds,
     Commands, Awaiting, Acting
<1>9. PressedTracked'
  BY DEF PressedTracked, Inv
<1> QED
  BY <1>1, <1>2, <1>3, <1>9, SparedKept DEF Inv, FutureInv

LEMMA AcknowledgeKeeps ==
  ASSUME Typed, Inv, NEW f \in Futures, Acknowledge(f)
  PROVE  Typed' /\ Inv'
<1> USE HeldAssumption DEF Acknowledge, Actions, Ended, Command, Commands, Goto, shared, chrome
<1>0. FutureInv(f)
  BY DEF Inv
<1>1. Typed'
  <2>1. \E p \in Pcs : Goto(f, p)
    BY DEF Pcs
  <2>2. \E n \in 1..4 : step' = [step EXCEPT ![f] = n]
    BY <1>0 DEF Typed, FutureInv, Placed
  <2>3. UNCHANGED receipt \/ \E r \in Receipts : receipt' = [receipt EXCEPT ![f] = r]
    OBVIOUS
  <2>4. ledger' \in [Inputs -> Futures \cup {Nobody}]
    BY DEF Typed
  <2>5. /\ todo' \in [Futures -> SUBSET Inputs]
        /\ op' \in [Futures -> Ops \cup {"up", "release"}]
    BY DEF Typed
  <2>6. /\ pc' \in [Futures -> Pcs] /\ step' \in [Futures -> 1..4]
        /\ receipt' \in [Futures -> Receipts]
    <3> HIDE DEF Acknowledge
    <3>1. pc' \in [Futures -> Pcs]
      BY <2>1 DEF Goto, Typed
    <3>2. step' \in [Futures -> 1..4]
      BY <2>2 DEF Typed
    <3>3. receipt' \in [Futures -> Receipts]
      BY <2>3 DEF Typed
    <3> QED
      BY <3>1, <3>2, <3>3
  <2>7. /\ input' \in [Futures -> Inputs] /\ task' \in [Futures -> BOOLEAN]
        /\ drags' \in [Futures -> {"none", "task", "failed"}]
    BY DEF Typed
  <2>8. lock' \in Futures \cup {Nobody} /\ gate' \in Futures \cup {Nobody} /\ failed' \in BOOLEAN
    BY DEF Typed
  <2>9. /\ disp' \in [Futures -> {"NotSent", "MayHaveBeenSent", "Acknowledged"}]
        /\ pressed' \in [Inputs -> Futures \cup {Nobody}]
        /\ did' \in [Futures -> Seq(1..4)] /\ lost' \subseteq Inputs
    BY DEF Typed
  <2> QED
    BY <2>4, <2>5, <2>6, <2>7, <2>8, <2>9 DEF Typed
<1>2. \A g \in Futures \ {f} : Spared(g)
  BY <1>0 DEF Spared, Typed, FutureInv, Placed, Same, Holds, Awaiting
<1>3. Placed(f)'
  BY <1>0 DEF Placed, Typed, FutureInv, Holds, Awaiting
<1>4. Commanded(f)'
  BY <1>0 DEF Commanded, Typed, FutureInv, Awaiting
<1>5. Alone(f)'
  BY <1>0 DEF Alone, Typed, FutureInv, Placed, Acting, Awaiting, Holds
<1>6. Owned(f)'
  BY <1>0 DEF Owned, Typed, FutureInv, Placed, Commanded, Alone, Awaiting, Holds, Acting
<1>7. Counted(f)'
  <2>1. /\ op[f] \in Actions /\ ~task[f] /\ pc[f] = "reply" /\ UNCHANGED <<op, task, did>>
        /\ did[f] \in Seq(1..4) /\ step[f] \in 1..4
    BY DEF Typed
  <2>2. \/ step' = step /\ pc'[f] = "verify"
        \/ step'[f] = step[f] + 1
    BY DEF Typed
  <2> HIDE DEF Acknowledge
  <2>3. \A m \in DOMAIN did[f] : did[f][m] \in 1..4 /\ did[f][m] <= step[f]
    BY <1>0, <2>1 DEF FutureInv, Counted
  <2> QED
    BY <1>0, <2>1, <2>2, <2>3 DEF FutureInv, Counted
<1>8. Honest(f)'
  BY <1>0 DEF Honest, FutureInv
<1>9. PressedTracked'
  BY <1>0 DEF PressedTracked, Inv, FutureInv, Commanded
<1> QED
  BY <1>1, <1>2, <1>3, <1>4, <1>5, <1>6, <1>7, <1>8, <1>9, SparedKept DEF Inv, FutureInv

LEMMA VerifiedKeeps ==
  ASSUME Typed, Inv, NEW f \in Futures, Verified(f)
  PROVE  Typed' /\ Inv'
<1> USE HeldAssumption DEF Verified, Give, Unlock, OpenGate, Goto, futureVars, chrome, Without
<1>0. FutureInv(f)
  BY DEF Inv
<1>1. Typed'
  BY DEF Typed, Pcs, Receipts
<1>2. \A g \in Futures \ {f} : Spared(g)
  BY DEF Spared, Same
<1>3. FutureInv(f)'
  BY <1>0, <1>1 DEF FutureInv, Typed, Placed, Commanded, Alone, Owned, Counted, Honest, Holds,
     Commands, Actions, Awaiting, Acting
<1>9. PressedTracked'
  BY DEF PressedTracked, Inv
<1> QED
  BY <1>1, <1>2, <1>3, <1>9, SparedKept DEF Inv, FutureInv

-----------------------------------------------------------------------------
(* Deadlines, dropped futures, and the beginning.                           *)

LEMMA ActionEndsKeeps ==
  ASSUME Typed, Inv, NEW f \in Futures, NEW ok \in BOOLEAN, ActionEnds(f, ok)
  PROVE  Typed' /\ Inv'
<1> USE HeldAssumption DEF ActionEnds, Actions, Awaiting, Unsent, Held, Give, Goto, Unlock,
        OpenGate,
        chrome, Without
<1>0. FutureInv(f)
  BY DEF Inv
<1>1. Typed'
  <2>1. \E p \in Pcs : Goto(f, p)
    BY DEF Pcs
  <2>2. \E n \in 1..4 : step' = [step EXCEPT ![f] = n]
    BY DEF Typed
  <2>3. UNCHANGED receipt \/ \E r \in Receipts : receipt' = [receipt EXCEPT ![f] = r]
    BY DEF Typed, Receipts, Pcs, NoReceipt
  <2>4. ledger' \in [Inputs -> Futures \cup {Nobody}]
    BY DEF Typed
  <2>5. /\ todo' \in [Futures -> SUBSET Inputs]
        /\ op' \in [Futures -> Ops \cup {"up", "release"}]
    BY <1>0 DEF Typed, Receipts, FutureInv, Placed, Untouched, Commands, Sweeping
  <2>6. /\ pc' \in [Futures -> Pcs] /\ step' \in [Futures -> 1..4]
        /\ receipt' \in [Futures -> Receipts]
    <3> HIDE DEF ActionEnds
    <3>1. pc' \in [Futures -> Pcs]
      BY <2>1 DEF Goto, Typed
    <3>2. step' \in [Futures -> 1..4]
      BY <2>2 DEF Typed
    <3>3. receipt' \in [Futures -> Receipts]
      BY <2>3 DEF Typed
    <3> QED
      BY <3>1, <3>2, <3>3
  <2>7. /\ input' \in [Futures -> Inputs] /\ task' \in [Futures -> BOOLEAN]
        /\ drags' \in [Futures -> {"none", "task", "failed"}]
    BY DEF Typed, Pcs, NoReceipt, Receipts
  <2>8. lock' \in Futures \cup {Nobody} /\ gate' \in Futures \cup {Nobody} /\ failed' \in BOOLEAN
    BY DEF Typed, Pcs, NoReceipt, Receipts
  <2>9. /\ disp' \in [Futures -> {"NotSent", "MayHaveBeenSent", "Acknowledged"}]
        /\ pressed' \in [Inputs -> Futures \cup {Nobody}]
        /\ did' \in [Futures -> Seq(1..4)] /\ lost' \subseteq Inputs
    BY DEF Typed
  <2> QED
    BY <2>4, <2>5, <2>6, <2>7, <2>8, <2>9 DEF Typed
<1>2. \A g \in Futures \ {f} : Spared(g)
  BY DEF Spared, Typed, Same
<1>3. Placed(f)'
  BY <1>0 DEF Placed, Typed, FutureInv, Holds, Commands, Sweeping
<1>4. Commanded(f)'
  BY <1>0 DEF Commanded, Typed
<1>5. Alone(f)'
  BY <1>0 DEF Alone, Typed, Acting, Holds
<1>6. Owned(f)'
  BY <1>0 DEF Owned, Typed, FutureInv, Placed, Holds
<1>7. Counted(f)'
  BY <1>0 DEF Counted, Typed, FutureInv
<1>8. Honest(f)'
  <2>1. op[f] \in Actions /\ ~task[f] /\ UNCHANGED <<pressed, did>>
    OBVIOUS
  <2>2. \/ UNCHANGED receipt
        \/ \E pending \in BOOLEAN :
             Give(f, pending) /\ (pending \/ lock # f \/ Unsent(f) \/ Held = {})
    OBVIOUS
  <2>3. pc'[f] = "done" \/ task'[f]
    BY DEF Typed
  <2>4. disp[f] = "NotSent" => did[f] = <<>> /\ \A i \in Inputs : pressed[i] # f
    BY <1>0, <2>1 DEF FutureInv, Owned
  <2>5. lock # f => disp[f] = "NotSent"
    BY <1>0, <2>1 DEF FutureInv, Placed, Owned, Untouched, Holds
  <2>6. Held = {} /\ pc[f] # "done" => \A i \in Inputs : pressed[i] # f
    BY <1>0, <2>1 DEF FutureInv, Owned
  <2>7. pc[f] # "done"
    OBVIOUS
  <2> QED
    BY <1>0, <2>1, <2>2, <2>3, <2>4, <2>5, <2>6, <2>7
       DEF FutureInv, Honest, Typed
<1>9. PressedTracked'
  BY <1>0 DEF PressedTracked, Inv, Typed, FutureInv, Placed, Commanded, Alone, Owned, Acting
<1> QED
  BY <1>1, <1>2, <1>3, <1>4, <1>5, <1>6, <1>7, <1>8, <1>9, SparedKept DEF Inv, FutureInv

LEMMA ShadowDropKeeps ==
  ASSUME Typed, Inv, NEW f \in Futures, ShadowDrop(f)
  PROVE  Typed' /\ Inv'
<1> USE HeldAssumption DEF ShadowDrop, Awaiting, Unlock, ShadowFails, Goto, OpenGate, futureVars,
        actionVars, chrome, Without
<1>0. FutureInv(f)
  BY DEF Inv
<1>1. Typed'
  BY DEF Typed, Pcs, NoReceipt, Receipts
<1>2. \A g \in Futures \ {f} : Spared(g)
  BY DEF Spared, Typed, Same
<1>3. FutureInv(f)'
  BY <1>0, <1>1 DEF FutureInv, Typed, Placed, Commanded, Alone, Owned, Counted, Honest, Holds,
     Commands, Actions, Acting
<1>9. PressedTracked'
  BY DEF PressedTracked, Inv
<1> QED
  BY <1>1, <1>2, <1>3, <1>9, SparedKept DEF Inv, FutureInv

LEMMA CleanupTimeoutKeeps ==
  ASSUME Typed, Inv, NEW f \in Futures, CleanupTimeout(f)
  PROVE  Typed' /\ Inv'
<1> USE HeldAssumption DEF CleanupTimeout, Actions, Awaiting, Unlock, OpenGate, Goto, futureVars,
        actionVars, chrome, Without
<1>0. FutureInv(f)
  BY DEF Inv
<1>1. Typed'
  BY DEF Typed, Pcs
<1>2. \A g \in Futures \ {f} : Spared(g)
  BY DEF Spared, Same
<1>3. FutureInv(f)'
  BY <1>0, <1>1 DEF FutureInv, Typed, Placed, Commanded, Alone, Owned, Counted, Honest, Holds,
     Acting
<1>9. PressedTracked'
  BY DEF PressedTracked, Inv
<1> QED
  BY <1>1, <1>2, <1>3, <1>9, SparedKept DEF Inv, FutureInv

LEMMA DragTimeoutKeeps ==
  ASSUME Typed, Inv, NEW f \in Futures, DragTimeout(f)
  PROVE  Typed' /\ Inv'
<1> USE HeldAssumption DEF DragTimeout, Awaiting, Unlock, Goto, futureVars, actionVars, chrome,
        Without
<1>0. FutureInv(f)
  BY DEF Inv
<1>1. Typed'
  BY DEF Typed, Pcs
<1>2. \A g \in Futures \ {f} : Spared(g)
  BY DEF Spared, Same
<1>3. FutureInv(f)'
  BY <1>0, <1>1 DEF FutureInv, Typed, Placed, Commanded, Alone, Owned, Counted, Honest, Holds,
     Commands, Actions, Acting
<1>9. PressedTracked'
  BY DEF PressedTracked, Inv
<1> QED
  BY <1>1, <1>2, <1>3, <1>9, SparedKept DEF Inv, FutureInv

LEMMA DropKeeps ==
  ASSUME Typed, Inv, NEW f \in Futures, Drop(f)
  PROVE  Typed' /\ Inv'
<1> USE HeldAssumption DEF Drop, Awaiting, LedgerAfterDrop, Unlock, Goto, futureVars, actionVars,
        chrome, Without
<1>0. FutureInv(f)
  BY DEF Inv
<1>1. Typed'
  BY DEF Typed, Pcs
<1>2. \A g \in Futures \ {f} : Spared(g)
  BY DEF Spared, Same
<1>3. FutureInv(f)'
  BY <1>0, <1>1 DEF FutureInv, Typed, Placed, Commanded, Alone, Owned, Counted, Honest, Holds,
     Commands, Actions, Acting
<1>9. PressedTracked'
  BY DEF PressedTracked, Inv
<1> QED
  BY <1>1, <1>2, <1>3, <1>9, SparedKept DEF Inv, FutureInv

LEMMA DragDropKeeps ==
  ASSUME Typed, Inv, NEW f \in Futures, DragDrop(f)
  PROVE  Typed' /\ Inv'
<1> USE HeldAssumption DEF DragDrop, Awaiting, Goto, Unlock, actionVars, chrome, Without
<1>0. FutureInv(f)
  BY DEF Inv
<1>1. Typed'
  <2>1. \E p \in Pcs : Goto(f, p)
    BY DEF Pcs
  <2>2. \E n \in 1..4 : step' = [step EXCEPT ![f] = n]
    BY DEF Typed
  <2>3. UNCHANGED receipt \/ \E r \in Receipts : receipt' = [receipt EXCEPT ![f] = r]
    OBVIOUS
  <2>4. ledger' \in [Inputs -> Futures \cup {Nobody}]
    BY DEF Typed
  <2>5. /\ todo' \in [Futures -> SUBSET Inputs]
        /\ op' \in [Futures -> Ops \cup {"up", "release"}]
    BY DEF Typed
  <2>6. /\ pc' \in [Futures -> Pcs] /\ step' \in [Futures -> 1..4]
        /\ receipt' \in [Futures -> Receipts]
    BY <2>1, <2>2, <2>3 DEF Goto, Typed
  <2>7. /\ input' \in [Futures -> Inputs] /\ task' \in [Futures -> BOOLEAN]
        /\ drags' \in [Futures -> {"none", "task", "failed"}]
    BY DEF Typed, Pcs, NoReceipt, Receipts
  <2>8. lock' \in Futures \cup {Nobody} /\ gate' \in Futures \cup {Nobody} /\ failed' \in BOOLEAN
    BY DEF Typed
  <2>9. /\ disp' \in [Futures -> {"NotSent", "MayHaveBeenSent", "Acknowledged"}]
        /\ pressed' \in [Inputs -> Futures \cup {Nobody}]
        /\ did' \in [Futures -> Seq(1..4)] /\ lost' \subseteq Inputs
    BY DEF Typed
  <2> QED
    BY <2>4, <2>5, <2>6, <2>7, <2>8, <2>9 DEF Typed
<1>2. \A g \in Futures \ {f} : Spared(g)
  BY DEF Spared, Typed, Same
<1>3. FutureInv(f)'
  BY <1>0, <1>1 DEF FutureInv, Typed, Placed, Commanded, Alone, Owned, Counted, Honest, Holds,
     Commands, Actions, Sweeping, Command, Acting
<1>9. PressedTracked'
  BY DEF PressedTracked, Inv
<1> QED
  BY <1>1, <1>2, <1>3, <1>9, SparedKept DEF Inv, FutureInv

LEMMA BeginKeeps ==
  ASSUME Typed, Inv, NEW f \in Futures, NEW o \in Ops, NEW i \in Inputs, Begin(f, o, i)
  PROVE  Typed' /\ Inv'
<1> USE HeldAssumption DEF Begin, Goto, Actions, shared, actionVars, chrome
<1>0. FutureInv(f)
  BY DEF Inv
<1>1. Typed'
  BY DEF Typed, Pcs
<1>2. \A g \in Futures \ {f} : Spared(g)
  BY DEF Spared, Same
<1>3. FutureInv(f)'
  BY <1>0, <1>1 DEF FutureInv, Typed, Placed, Commanded, Alone, Owned, Counted, Honest, Holds,
     Untouched, Commands, Awaiting, Acting
<1>9. PressedTracked'
  BY DEF PressedTracked, Inv
<1> QED
  BY <1>1, <1>2, <1>3, <1>9, SparedKept DEF Inv, FutureInv

-----------------------------------------------------------------------------
(* The invariant of the whole, and what follows from it.                    *)

LEMMA InitKeeps ==
  ASSUME Init  PROVE  Typed /\ Inv
<1> USE HeldAssumption DEF Init
<1>1. Typed
  <2>1. did \in [Futures -> Seq(1..4)]
    BY <<>> \in Seq(1..4)
  <2>2. receipt \in [Futures -> Receipts]
    BY DEF NoReceipt, Receipts
  <2>3. pc \in [Futures -> Pcs]
    BY DEF Pcs
  <2>4. /\ op \in [Futures -> Ops \cup {"up", "release"}] /\ input \in [Futures -> Inputs]
        /\ step \in [Futures -> 1..4]
    OBVIOUS
  <2>6. /\ todo \in [Futures -> SUBSET Inputs] /\ task \in [Futures -> BOOLEAN]
        /\ lock \in Futures \cup {Nobody} /\ gate \in Futures \cup {Nobody} /\ failed \in BOOLEAN
    OBVIOUS
  <2>5. /\ drags \in [Futures -> {"none", "task", "failed"}]
        /\ disp \in [Futures -> {"NotSent", "MayHaveBeenSent", "Acknowledged"}]
        /\ ledger \in [Inputs -> Futures \cup {Nobody}]
        /\ pressed \in [Inputs -> Futures \cup {Nobody}] /\ lost \subseteq Inputs
    OBVIOUS
  <2> QED
    BY <2>1, <2>2, <2>3, <2>4, <2>5, <2>6 DEF Typed
<1>2. PressedTracked
  BY DEF PressedTracked
<1>3. ASSUME NEW f \in Futures  PROVE  FutureInv(f)
  <2>1. ~Holds(f) /\ pc[f] = "idle" /\ op[f] = "up" /\ ~task[f] /\ step[f] = 1
    BY DEF Holds, Awaiting
  <2>2. Placed(f)
    BY <2>1 DEF Placed, Untouched, Commands, Actions, NoReceipt, Awaiting
  <2>3. Commanded(f) /\ Alone(f) /\ Owned(f) /\ Counted(f) /\ Honest(f)
    BY <2>1 DEF Commanded, Alone, Acting, Owned, Counted, Honest, Actions, NoReceipt, Awaiting
  <2> QED
    BY <2>2, <2>3 DEF FutureInv
<1> QED
  BY <1>1, <1>2, <1>3 DEF Inv

LEMMA StutterKeeps ==
  ASSUME Typed, Inv, UNCHANGED vars  PROVE  Typed' /\ Inv'
<1> USE DEF vars, futureVars, shared, actionVars, chrome
<1>1. Typed'
  BY DEF Typed
<1>2. PressedTracked'
  BY DEF Inv, PressedTracked
<1>3. ASSUME NEW g \in Futures  PROVE  FutureInv(g)'
  <2>1. Spared(g)
    BY DEF Spared, Same
  <2> QED
    BY <2>1, SparedKept DEF Inv
<1> QED
  BY <1>1, <1>2, <1>3 DEF Inv

LEMMA NextKeeps ==
  ASSUME Typed, Inv, [Next]_vars  PROVE  Typed' /\ Inv'
<1>1. CASE UNCHANGED vars
  BY <1>1, StutterKeeps
<1>2. ASSUME NEW f \in Futures, NEW o \in Ops, NEW i \in Inputs, Begin(f, o, i)
      PROVE  Typed' /\ Inv'
  BY <1>2, BeginKeeps
<1>3. ASSUME NEW f \in Futures, HeldNext(f)  PROVE  Typed' /\ Inv'
  BY <1>3, WriteKeeps, WriteRefusedKeeps, ExplicitBeginKeeps, ExplicitEndKeeps, SweepBeginKeeps,
     SweepNextKeeps, SweepReplyKeeps, SweepEndKeeps DEF HeldNext
<1>4. ASSUME NEW f \in Futures, DragNext(f)  PROVE  Typed' /\ Inv'
  BY <1>4, DragSettleKeeps, DragAcquireKeeps, DragPressKeeps, DragReleaseKeeps, DragReleasedKeeps
     DEF DragNext
<1>5. ASSUME NEW f \in Futures, ActionNext(f)  PROVE  Typed' /\ Inv'
  BY <1>5, TakeGateKeeps, ShadowFoundKeeps, ActionAcquireKeeps, PrepareKeeps, DispatchKeeps,
     RetryKeeps, AlreadySatisfiedKeeps, AcknowledgeKeeps, VerifiedKeeps DEF ActionNext
<1>6. ASSUME NEW f \in Futures, Deadline(f)  PROVE  Typed' /\ Inv'
  BY <1>6, ActionEndsKeeps, ShadowDropKeeps, CleanupTimeoutKeeps, DragTimeoutKeeps DEF Deadline
<1>7. ASSUME NEW f \in Futures, Drop(f) \/ DragDrop(f) \/ ActionEnds(f, FALSE)
      PROVE  Typed' /\ Inv'
  BY <1>7, DropKeeps, DragDropKeeps, ActionEndsKeeps
<1> QED
  BY <1>1, <1>2, <1>3, <1>4, <1>5, <1>6, <1>7 DEF Next, Finished

LEMMA InvHolds == Spec => [](Typed /\ Inv)
<1>1. Init => Typed /\ Inv
  BY InitKeeps
<1>2. Typed /\ Inv /\ [Next]_vars => (Typed /\ Inv)'
  BY NextKeeps
<1> QED
  BY <1>1, <1>2, PTL DEF Spec

\* Whatever futures, inputs and operations there are, and wherever futures are
\* dropped: whoever dispatches input holds the ledger's mutex, what Chrome holds
\* down is in the ledger unless a failing command gave it up, and the residue of an
\* action that ended keeps every later action out.
THEOREM InputKept == Spec => []InputTracked
<1>1. ASSUME Typed, Inv  PROVE  InputTracked
  <2>1. ASSUME NEW f \in Futures, pc[f] \in Awaiting  PROVE  lock = f
    BY <1>1, <2>1 DEF Inv, FutureInv, Placed, Holds
  <2>2. TypeOK
    BY <1>1, <2>1 DEF Typed, TypeOK, Receipts
  <2>3. ResidueBlocksActions
    <3>1. ASSUME NEW i \in Inputs, ledger[i] # Nobody, op[ledger[i]] \in Actions,
                 pc[ledger[i]] = "done"
          PROVE  failed
      <4>1. ledger[i] \in Futures
        BY <1>1, <3>1 DEF Typed
      <4>2. Owned(ledger[i])
        BY <1>1, <4>1 DEF Inv, FutureInv
      <4> QED
        BY <3>1, <4>2 DEF Owned, Awaiting
    <3> QED
      BY <3>1 DEF ResidueBlocksActions
  <2> QED
    BY <1>1, <2>2, <2>3 DEF Inv, InputTracked
<1> QED
  BY <1>1, InvHolds, PTL

\* A receipt that says an action was not dispatched is never belied by Chrome, one
\* without cleanup pending leaves nothing of the action pressed, and a retried action
\* sends none of its inputs twice.
THEOREM ReceiptsTrue == Spec => []ReceiptTrue
<1>1. ASSUME Inv  PROVE  ReceiptTrue
  BY <1>1 DEF Inv, FutureInv, Honest, Counted, ReceiptTrue, ReceiptHonest, NoReplay
<1> QED
  BY <1>1, InvHolds, PTL

\* Only a frame that is written changes what an action has done.
LEMMA OnlyWriteDoes ==
  ASSUME Next, did' # did
  PROVE  \E f \in Futures : Write(f)
<1> USE DEF vars, futureVars, shared, actionVars, chrome
<1>1. ~Finished
  BY DEF Finished
<1>2. ASSUME NEW f \in Futures, HeldNext(f)  PROVE  Write(f)
  BY <1>2 DEF HeldNext, WriteRefused, ExplicitBegin, ExplicitEnd, SweepBegin, SweepNext,
     SweepReply, SweepEnd
<1>3. ASSUME NEW f \in Futures  PROVE  ~DragNext(f)
  BY DEF DragNext, DragSettle, DragAcquire, DragPress, DragRelease, DragReleased
<1>4. ASSUME NEW f \in Futures  PROVE  ~ActionNext(f)
  BY DEF ActionNext, TakeGate, ShadowFound, ActionAcquire, Prepare, Dispatch, Retry,
     AlreadySatisfied, Acknowledge, Verified
<1>5. ASSUME NEW f \in Futures  PROVE  ~Deadline(f) /\ ~ActionEnds(f, FALSE)
  BY DEF Deadline, ActionEnds, ShadowDrop, CleanupTimeout, DragTimeout
<1>6. ASSUME NEW f \in Futures  PROVE  ~Drop(f) /\ ~DragDrop(f)
  BY DEF Drop, DragDrop
<1>7. ASSUME NEW f \in Futures, NEW o \in Ops, NEW i \in Inputs  PROVE  ~Begin(f, o, i)
  BY DEF Begin
<1> QED
  BY <1>1, <1>2, <1>3, <1>4, <1>5, <1>6, <1>7 DEF Next

\* An action writes input only while nothing that anyone else pressed is held down:
\* it took the mutex of an empty ledger, and every press goes through the ledger.
THEOREM ActsAlone == Spec => ActionsAlone
<1>1. ASSUME Typed, Inv, [Next]_vars, NEW f \in Futures, did'[f] # did[f], NEW i \in Inputs
      PROVE  pressed[i] \in {Nobody, f} \/ i \in lost
  <2>1. PICK g \in Futures : Write(g)
    BY <1>1, OnlyWriteDoes DEF vars, chrome
  <2>2. g = f /\ op[f] \in Actions /\ ~task[f] /\ pc[f] = "send"
    BY <1>1, <2>1 DEF Write, Typed
  <2>3. Acting(f)
    BY <2>2 DEF Acting, Holds, Awaiting
  <2> QED
    BY <1>1, <2>3 DEF Inv, FutureInv, Alone
<1>2. Typed /\ Inv /\ [Next]_vars =>
        [\A f \in Futures : did'[f] # did[f] =>
           \A i \in Inputs : pressed[i] \in {Nobody, f} \/ i \in lost]_vars
  BY <1>1
<1> QED
  BY <1>2, InvHolds, PTL DEF Spec, ActionsAlone
===============================================================================
