-------------------------- MODULE PageStateProofs --------------------------
(***************************************************************************)
(* Theorems about what the connections of a tab share.  HeaderScope, for   *)
(* any number of futures and attachments: types, and that headers an ended *)
(* scope left in Chrome are known to the latest cleanup, which keeps       *)
(* commands and navigations from running under them.  Viewport, for any    *)
(* number of connections and callers: one controller, one command at a     *)
(* time, and true metrics.  Fairness plays no part.                        *)
(***************************************************************************)
EXTENDS HeaderScope, ViewportPart, TLAPS

\* Whose place implies that the serial lock is theirs.
Holds(u) ==
  pc[u] \in {"refence", "recover"} \cup InScope \/ (pc[u] = "sending" /\ op[u] # "send")

SerialHeld == \A u \in Users : Holds(u) => serial = u

\* A running scope set its headers on its own attachment.
ScopedAt == \A s \in Sessions : on[s] \in Users /\ pc[on[s]] \in InScope => at[on[s]] = s

\* What is left to clear is what the running cleanup has still to do.
ClearingKnown ==
  task = "clearing" => Latest # 0 /\ \A s \in Sessions : Residue(s) => s \in todo

ResidueInv == SerialHeld /\ ScopedAt /\ ClearingKnown /\ ResidueTracked /\ NavigationClean

Gens == [sessions : SUBSET Sessions, result : Results]

-----------------------------------------------------------------------------
(* The list of cleanups.                                                    *)

\* Scheduling makes the new cleanup the latest one.
LEMMA ScheduledLatest ==
  ASSUME gens \in Seq(Gens), NEW S \in SUBSET Sessions, NEW runtime \in BOOLEAN,
         Schedule(S, runtime)
  PROVE  /\ gens' \in Seq(Gens) /\ Latest' # 0
         /\ gens'[Latest'].sessions = S
         /\ gens'[Latest'].result = IF runtime THEN "pending" ELSE "failed"
<1> DEFINE g == [sessions |-> S, result |-> IF runtime THEN "pending" ELSE "failed"]
<1>1. g \in Gens
  BY DEF Gens, Results
<1>2. gens' = Append(gens, g)
  BY DEF Schedule
<1> HIDE DEF g
<1>3. gens' \in Seq(Gens) /\ Len(gens') = Len(gens) + 1 /\ gens'[Len(gens) + 1] = g
  BY <1>1, <1>2
<1> QED
  BY <1>3 DEF Latest, g

\* Publishing keeps the list and changes the latest result only.
LEMMA PublishedLatest ==
  ASSUME gens \in Seq(Gens), Latest # 0, NEW r \in Results, Publish(r)
  PROVE  /\ gens' \in Seq(Gens) /\ Latest' = Latest
         /\ gens'[Latest].sessions = gens[Latest].sessions
         /\ gens'[Latest].result = r
<1>1. Latest \in 1..Len(gens) /\ \A i \in 1..Len(gens) : gens[i] \in Gens
  BY DEF Latest
<1>2. gens' = [gens EXCEPT ![Latest] = [gens[Latest] EXCEPT !.result = r]]
  BY DEF Publish
<1>3. [gens[Latest] EXCEPT !.result = r] \in Gens
  BY <1>1 DEF Gens
<1>4. gens' \in Seq(Gens) /\ Len(gens') = Len(gens)
        /\ gens'[Latest] = [gens[Latest] EXCEPT !.result = r]
  BY <1>1, <1>2, <1>3
<1> QED
  BY <1>1, <1>4 DEF Latest, Gens

-----------------------------------------------------------------------------
(* Types.                                                                   *)

\* What recovery restores are attachments.
LEMMA ClearsSessions ==
  ASSUME TypeOK, NEW u \in Users
  PROVE  SessionsToClear(u) \in SUBSET Sessions
<1>1. CASE Waited(u, "failed")
  <2>0. gens \in Seq(Gens)
    BY DEF TypeOK, Gens
  <2>1. Latest \in 1..Len(gens) /\ gens[Latest] \in Gens
    <3>1. Latest # 0
      BY <1>1 DEF Waited
    <3> QED
      BY <2>0, <3>1 DEF Latest
  <2>2. gens[Latest].sessions \in SUBSET Sessions
    BY <2>1 DEF Gens
  <2>3. at[u] \in Sessions
    BY DEF TypeOK
  <2> QED
    BY <1>1, <2>2, <2>3 DEF SessionsToClear
<1>2. CASE ~Waited(u, "failed")
  BY <1>2 DEF SessionsToClear, TypeOK
<1> QED
  BY <1>1, <1>2

LEMMA TypeUser == ASSUME TypeOK, SerialHeld, NEW u \in Users, UserNext(u) PROVE TypeOK'
<1> USE HeaderAssumption DEF TypeOK, Pcs, Fences, InScope, Goto, userVars, taskVars
<1>g. gens \in Seq(Gens)
  BY DEF Gens
<1>1. CASE \E o \in Ops : Begin(u, o)
  BY <1>1 DEF Begin
<1>2. CASE Look(u)
  BY <1>2 DEF Look, Latest
<1>3. CASE AcquireSerial(u)
  BY <1>3 DEF AcquireSerial, Admitted
<1>4. CASE PassFence(u)
  BY <1>4 DEF PassFence
<1>5. CASE PassRefence(u)
  <2>1. serial' \in {serial, SerialWithout(u)} /\ UNCHANGED <<op, at, taskVars, on>>
    BY <1>5 DEF PassRefence
  <2>2. pc' \in [Users -> Pcs] /\ seen' \in [Users -> Nat]
    BY <1>5 DEF PassRefence
  <2> QED
    BY <2>1, <2>2 DEF SerialWithout
<1>6. CASE Send(u)
  BY <1>6 DEF Send, SerialWithout
<1>7. CASE SetScoped(u)
  BY <1>7 DEF SetScoped
<1>8. CASE Finish(u)
  <2>1. gens' \in Seq(Gens)
    BY <1>8, <1>g, ScheduledLatest DEF Finish
  <2> QED
    BY <2>1, <1>8 DEF Finish, Schedule, Gens
<1>9. CASE Recover(u)
  <2>1. SessionsToClear(u) \in SUBSET Sessions
    BY ClearsSessions
  <2>2. gens' \in Seq(Gens)
    BY <2>1, <1>9, <1>g, ScheduledLatest DEF Recover
  <2> QED
    BY <2>1, <2>2, <1>9 DEF Recover, Schedule, Gens
<1>10. CASE Finished(u)
  BY <1>10 DEF Finished
<1>11. CASE Cancel(u)
  <2>1. CASE pc[u] \in InScope
    <3>1. PICK runtime \in BOOLEAN : Schedule({at[u]}, runtime)
      BY <1>11, <2>1 DEF Cancel
    <3>2. gens' \in Seq(Gens)
      BY <3>1, <1>g, ScheduledLatest
    <3> QED
      BY <3>1, <3>2, <1>11 DEF Cancel, Schedule, Gens
  <2>2. CASE pc[u] \notin InScope
    BY <2>2, <1>11 DEF Cancel, SerialWithout
  <2> QED
    BY <2>1, <2>2
<1> QED
  BY <1>1, <1>2, <1>3, <1>4, <1>5, <1>6, <1>7, <1>8, <1>9, <1>10, <1>11 DEF UserNext

LEMMA TypeTask == ASSUME TypeOK, ClearingKnown, TaskNext PROVE TypeOK'
<1> USE HeaderAssumption DEF TypeOK, userVars
<1>g. gens \in Seq(Gens)
  BY DEF Gens
<1>1. CASE \E s \in Sessions : CleanSession(s)
  BY <1>1 DEF CleanSession
<1>2. CASE CleanDone
  <2>1. gens' \in Seq(Gens)
    BY <1>2, <1>g, PublishedLatest DEF CleanDone, ClearingKnown, Results
  <2> QED
    BY <2>1, <1>2 DEF CleanDone, Gens
<1>3. CASE CleanFail
  <2>1. gens' \in Seq(Gens)
    BY <1>3, <1>g, PublishedLatest DEF CleanFail, ClearingKnown, Results
  <2> QED
    BY <2>1, <1>3 DEF CleanFail, Gens
<1>4. CASE CleanRelease
  BY <1>4 DEF CleanRelease
<1> QED
  BY <1>1, <1>2, <1>3, <1>4 DEF TaskNext

-----------------------------------------------------------------------------
(* What a user may conclude.                                                *)

\* A wait() that returns Ok: no ended scope has left headers.
LEMMA WaitedClean ==
  ASSUME ResidueTracked, NEW u \in Users, Waited(u, "ok")
  PROVE  \A s \in Sessions : ~Residue(s)
  BY DEF Waited, ResidueTracked

\* Who then holds the serial lock outside a scope finds no headers at all.
LEMMA RefencedClean ==
  ASSUME TypeOK, ResidueInv, NEW u \in Users, pc[u] = "refence", Waited(u, "ok")
  PROVE  \A s \in Sessions : on[s] = NoUser
<1> SUFFICES ASSUME NEW s \in Sessions, on[s] # NoUser PROVE FALSE
  OBVIOUS
<1>1. on[s] \in Users /\ pc[on[s]] \in InScope
  BY WaitedClean DEF Residue, ResidueInv, TypeOK
<1>2. serial = on[s] /\ serial = u
  BY <1>1 DEF ResidueInv, SerialHeld, Holds
<1> QED
  BY <1>1, <1>2 DEF InScope

-----------------------------------------------------------------------------
(* Headers left behind are tracked.                                         *)

\* A scope ends with a cleanup of its own attachment, where all that is set is its own.
LEMMA ScopeEnds ==
  ASSUME TypeOK, ResidueInv, NEW u \in Users, pc[u] \in InScope, NEW runtime \in BOOLEAN,
         Schedule({at[u]}, runtime), NEW l \in {"finishing", "done"}, Goto(u, l),
         UNCHANGED <<op, at, on>>
  PROVE  ResidueInv'
<1> USE HeaderAssumption DEF ResidueInv, TypeOK
<1>1. serial = u /\ serial' \notin Users
  BY DEF SerialHeld, Holds, Schedule
<1>2. \A s \in Sessions : on[s] \in {u, NoUser}
  BY DEF NavigationClean
<1>3. \A s \in Sessions : on[s] = u => s = at[u]
  BY DEF ScopedAt
<1>4. \A v \in Users : pc'[v] = IF v = u THEN l ELSE pc[v]
  BY DEF Goto
<1>5. \A v \in Users : ~Holds(v)'
  <2> TAKE v \in Users
  <2>1. CASE v = u
    BY <2>1, <1>4 DEF Holds, InScope
  <2>2. CASE v # u
    BY <2>2, <1>4, <1>1 DEF Holds, SerialHeld
  <2> QED
    BY <2>1, <2>2
<1>6. \A s \in Sessions : Residue(s)' => s = at[u]
  BY <1>2, <1>3 DEF Residue
<1>7. gens' \in Seq(Gens) /\ Latest' # 0 /\ gens'[Latest'].sessions = {at[u]}
        /\ gens'[Latest'].result # "ok"
  <2>1. gens \in Seq(Gens) /\ {at[u]} \in SUBSET Sessions
    BY DEF Gens
  <2>2. /\ gens' \in Seq(Gens) /\ Latest' # 0 /\ gens'[Latest'].sessions = {at[u]}
        /\ gens'[Latest'].result = (IF runtime THEN "pending" ELSE "failed")
    BY <2>1, ScheduledLatest
  <2> QED
    BY <2>2
<1>8. SerialHeld'
  BY <1>5 DEF SerialHeld
<1>9. ScopedAt'
  BY <1>5 DEF ScopedAt, Holds
<1>10. ClearingKnown'
  BY <1>6, <1>7 DEF ClearingKnown, Schedule
<1>11. ResidueTracked'
  BY <1>6, <1>7 DEF ResidueTracked
<1>12. NavigationClean'
  BY <1>5 DEF NavigationClean, Holds
<1> QED
  BY <1>8, <1>9, <1>10, <1>11, <1>12

LEMMA ResidueUser ==
  ASSUME TypeOK, ResidueInv, NEW u \in Users, UserNext(u)
  PROVE  ResidueInv'
<1> USE HeaderAssumption DEF TypeOK, ResidueInv
<1> DEFINE Same == UNCHANGED <<at, taskVars, on>>
                   /\ \A v \in Users : v # u => pc'[v] = pc[v] /\ op'[v] = op[v]
                                               /\ (serial = v <=> serial' = v)
\* A step of u that starts and ends outside a scope and leaves cleanups and headers alone.
<1>s. ASSUME Same, pc[u] \notin InScope, pc'[u] \notin InScope,
             Holds(u)' => serial' = u,
             pc'[u] = "sending" /\ op'[u] # "send" => \A s \in Sessions : on[s] = NoUser
      PROVE ResidueInv'
  <2>1. \A s \in Sessions : Residue(s)' = Residue(s)
    BY <1>s DEF Residue
  <2>2. SerialHeld'
    BY <1>s DEF SerialHeld, Holds
  <2>3. ScopedAt'
    BY <1>s DEF ScopedAt
  <2>4. ClearingKnown' /\ ResidueTracked'
    BY <1>s, <2>1 DEF ClearingKnown, ResidueTracked, Latest, taskVars
  <2>5. NavigationClean'
    BY <1>s DEF NavigationClean
  <2> QED
    BY <2>2, <2>3, <2>4, <2>5
<1>1. CASE \E o \in Ops : Begin(u, o)
  BY <1>1, <1>s DEF Begin, Goto, InScope, Holds, taskVars
<1>2. CASE Look(u)
  BY <1>2 DEF Look, SerialHeld, Holds, ScopedAt, ClearingKnown, ResidueTracked,
              NavigationClean, Residue, Latest, taskVars
<1>3. CASE AcquireSerial(u)
  BY <1>3, <1>s DEF AcquireSerial, Admitted, Goto, InScope, Holds, taskVars
<1>4. CASE PassFence(u)
  BY <1>4, <1>s DEF PassFence, Goto, InScope, Holds, taskVars
<1>5. CASE PassRefence(u)
  <2>1. CASE Waited(u, "failed") /\ Goto(u, "done")
    BY <2>1, <1>5, <1>s DEF PassRefence, Goto, InScope, Holds, taskVars, SerialWithout
  <2>2. CASE Waited(u, "ok") /\ op[u] # "scope" /\ Goto(u, "sending") /\ UNCHANGED serial
    BY <2>2, <1>5, <1>s, RefencedClean
       DEF PassRefence, Goto, InScope, Holds, taskVars, SerialHeld
  <2>3. CASE Waited(u, "ok") /\ op[u] = "scope" /\ Goto(u, "scoped") /\ UNCHANGED serial
    <3>1. \A s \in Sessions : on[s] = NoUser
      BY <2>3, <1>5, RefencedClean DEF PassRefence
    <3>2. UNCHANGED <<op, at, on, serial>> /\ serial = u
      BY <2>3, <1>5 DEF PassRefence, SerialHeld, Holds
    <3>3. \A v \in Users : v # u => pc'[v] = pc[v]
      BY <2>3 DEF Goto
    <3> QED
      BY <3>1, <3>2, <3>3, <1>5 DEF PassRefence, SerialHeld, Holds, ScopedAt,
         ClearingKnown, ResidueTracked, NavigationClean, Residue, Latest, taskVars
  <2> QED
    BY <1>5, <2>1, <2>2, <2>3 DEF PassRefence
<1>6. CASE Send(u)
  <2>1. \A v \in Users : pc'[v] = IF v = u THEN "done" ELSE pc[v]
    BY <1>6 DEF Send, Goto
  <2>2. \A s \in Sessions : on'[s] \in {on[s], NoUser}
    BY <1>6 DEF Send
  <2>3. UNCHANGED <<op, at, taskVars>> /\ serial' = SerialWithout(u) /\ pc[u] = "sending"
    BY <1>6 DEF Send
  <2>4. \A s \in Sessions : Residue(s)' => Residue(s)
    BY <2>1, <2>2, <2>3 DEF Residue, InScope
  <2>5. SerialHeld'
    BY <2>1, <2>3 DEF SerialHeld, Holds, InScope, SerialWithout
  <2>6. ScopedAt'
    BY <2>1, <2>2, <2>3 DEF ScopedAt, InScope
  <2>7. ClearingKnown' /\ ResidueTracked'
    BY <2>3, <2>4 DEF ClearingKnown, ResidueTracked, Latest, taskVars
  <2>8. NavigationClean'
    BY <2>1, <2>2, <2>3 DEF NavigationClean, InScope
  <2> QED
    BY <2>5, <2>6, <2>7, <2>8
<1>7. CASE SetScoped(u)
  <2>1. pc[u] \in InScope /\ serial = u /\ UNCHANGED <<op, at, serial, taskVars>>
    BY <1>7 DEF SetScoped, InScope, SerialHeld, Holds
  <2>2. \A v \in Users : pc'[v] = IF v = u THEN "armed" ELSE pc[v]
    BY <1>7 DEF SetScoped, Goto
  <2>3. \A s \in Sessions : on'[s] = IF s = at[u] THEN u ELSE on[s]
    BY <1>7 DEF SetScoped
  <2>4. \A s \in Sessions : Residue(s)' => Residue(s)
    BY <2>1, <2>2, <2>3 DEF Residue, InScope
  <2>5. SerialHeld'
    BY <2>1, <2>2 DEF SerialHeld, Holds
  <2>6. ScopedAt'
    BY <2>1, <2>2, <2>3 DEF ScopedAt, InScope
  <2>7. ClearingKnown' /\ ResidueTracked'
    BY <2>1, <2>4 DEF ClearingKnown, ResidueTracked, Latest, taskVars
  <2>8. NavigationClean'
    BY <2>1, <2>2, <2>3 DEF NavigationClean, SerialHeld, Holds
  <2> QED
    BY <2>5, <2>6, <2>7, <2>8
<1>8. CASE Finish(u)
  BY <1>8, ScopeEnds DEF Finish
<1>9. CASE Recover(u)
  <2>1. pc[u] = "recover" /\ serial = u /\ task = "none" /\ UNCHANGED <<op, at, on>>
    BY <1>9 DEF Recover, SerialHeld, Holds
  <2>2. \A v \in Users : pc'[v] = IF v = u THEN "finishing" ELSE pc[v]
    BY <1>9 DEF Recover, Goto
  <2>3. SessionsToClear(u) \in SUBSET Sessions /\ gens \in Seq(Gens)
    BY ClearsSessions DEF Gens
  <2>4. gens' \in Seq(Gens) /\ Latest' # 0 /\ gens'[Latest'].sessions = SessionsToClear(u)
          /\ gens'[Latest'].result # "ok" /\ serial' \notin Users /\ todo' = SessionsToClear(u)
    BY <2>3, <1>9, ScheduledLatest DEF Recover, Schedule
  <2>5. \A s \in Sessions : Residue(s)' => Residue(s)
    BY <2>1, <2>2 DEF Residue, InScope
  <2>6. \A s \in Sessions : Residue(s) => s \in SessionsToClear(u)
    BY <1>9 DEF Recover, Waited, ResidueTracked, SessionsToClear
  <2>7. \A v \in Users : ~Holds(v)'
    BY <2>1, <2>2 DEF Holds, SerialHeld, InScope
  <2>8. SerialHeld' /\ ScopedAt' /\ NavigationClean'
    BY <2>7 DEF SerialHeld, ScopedAt, NavigationClean, Holds
  <2>9. ClearingKnown' /\ ResidueTracked'
    BY <2>4, <2>5, <2>6 DEF ClearingKnown, ResidueTracked
  <2> QED
    BY <2>8, <2>9
<1>10. CASE Finished(u)
  BY <1>10, <1>s DEF Finished, Goto, InScope, Holds, taskVars
<1>11. CASE Cancel(u)
  <2>1. CASE pc[u] \in InScope
    <3>1. PICK runtime \in BOOLEAN : Schedule({at[u]}, runtime)
      BY <1>11, <2>1 DEF Cancel
    <3> QED
      BY <3>1, <2>1, <1>11, ScopeEnds DEF Cancel
  <2>2. CASE pc[u] \notin InScope
    BY <2>2, <1>11, <1>s DEF Cancel, Goto, InScope, Holds, SerialWithout, taskVars
  <2> QED
    BY <2>1, <2>2
<1> QED
  BY <1>1, <1>2, <1>3, <1>4, <1>5, <1>6, <1>7, <1>8, <1>9, <1>10, <1>11 DEF UserNext

LEMMA ResidueTask == ASSUME TypeOK, ResidueInv, TaskNext PROVE ResidueInv'
<1> USE HeaderAssumption DEF TypeOK, ResidueInv
<1>g. gens \in Seq(Gens)
  BY DEF Gens
<1>u. UNCHANGED userVars
  BY DEF TaskNext, CleanSession, CleanDone, CleanFail, CleanRelease
<1>p. \A s \in Sessions : on'[s] \in {on[s], NoUser}
  BY DEF TaskNext, CleanSession, CleanDone, CleanFail, CleanRelease
<1>r. \A s \in Sessions : Residue(s)' => Residue(s)
  BY <1>u, <1>p DEF Residue, userVars
<1>1. SerialHeld'
  <2>1. \A u \in Users : Holds(u)' => Holds(u) /\ serial = u
    BY <1>u DEF Holds, SerialHeld, userVars
  <2>2. UNCHANGED serial \/ serial = Task
    BY DEF TaskNext, CleanSession, CleanDone, CleanFail, CleanRelease
  <2> QED
    BY <2>1, <2>2 DEF SerialHeld
<1>2. ScopedAt' /\ NavigationClean'
  BY <1>u, <1>p DEF ScopedAt, NavigationClean, userVars
<1>3. ClearingKnown' /\ ResidueTracked'
  <2>1. CASE \E s \in Sessions : CleanSession(s)
    <3>1. PICK s \in Sessions : CleanSession(s)
      BY <2>1
    <3>2. ~Residue(s)' /\ UNCHANGED <<gens, task>> /\ todo' = todo \ {s}
      BY <3>1 DEF CleanSession, Residue
    <3> QED
      BY <3>2, <1>r DEF ClearingKnown, ResidueTracked, Latest
  <2>2. CASE CleanDone
    <3>1. \A s \in Sessions : ~Residue(s)
      BY <2>2 DEF CleanDone, ClearingKnown
    <3> QED
      BY <3>1, <1>r, <2>2 DEF CleanDone, ClearingKnown, ResidueTracked
  <2>3. CASE CleanFail
    <3>1. Latest' = Latest /\ gens'[Latest].sessions = gens[Latest].sessions
            /\ gens'[Latest].result = "failed"
      BY <2>3, <1>g, PublishedLatest DEF CleanFail, ClearingKnown, Results
    <3> QED
      BY <3>1, <1>r, <2>3 DEF CleanFail, ClearingKnown, ResidueTracked
  <2>4. CASE CleanRelease
    BY <1>r, <2>4 DEF CleanRelease, ClearingKnown, ResidueTracked, Latest
  <2> QED
    BY <2>1, <2>2, <2>3, <2>4 DEF TaskNext
<1> QED
  BY <1>1, <1>2, <1>3

-----------------------------------------------------------------------------
(* The theorems.                                                            *)

LEMMA HeaderInvariant == Spec => [](TypeOK /\ ResidueInv)
<1>1. Init => TypeOK /\ ResidueInv
  BY HeaderAssumption DEF Init, TypeOK, ResidueInv, SerialHeld, Holds, ScopedAt, ClearingKnown,
     ResidueTracked, NavigationClean, Residue, Pcs, Fences, InScope, Ops
<1>2. TypeOK /\ ResidueInv /\ [Next]_vars => (TypeOK /\ ResidueInv)'
  <2> SUFFICES ASSUME TypeOK, ResidueInv, [Next]_vars PROVE (TypeOK /\ ResidueInv)'
    OBVIOUS
  <2>1. CASE \E u \in Users : UserNext(u)
    BY <2>1, TypeUser, ResidueUser DEF ResidueInv
  <2>2. CASE TaskNext
    BY <2>2, TypeTask, ResidueTask DEF ResidueInv
  <2>3. CASE UNCHANGED vars
    BY <2>3 DEF vars, userVars, taskVars, TypeOK, ResidueInv, SerialHeld, Holds, ScopedAt,
       ClearingKnown, ResidueTracked, NavigationClean, Residue, Latest
  <2> QED
    BY <2>1, <2>2, <2>3 DEF Next, AllDone
<1> QED
  BY <1>1, <1>2, PTL DEF Spec

\* Every variable keeps its type, and the lock is the cleanup task's exactly while it
\* runs (HeaderState).
THEOREM HeaderTypes == Spec => []TypeOK
<1> QED
  BY HeaderInvariant, PTL

\* Headers an ended scope left in Chrome are known to the latest cleanup, which has not
\* succeeded, for any number of scopes and attachments (schedule, clear, finish, Drop).
THEOREM HeadersNeverForgotten == Spec => []ResidueTracked
<1>1. ResidueInv => ResidueTracked
  BY DEF ResidueInv
<1> QED
  BY <1>1, HeaderInvariant, PTL

\* Navigations and header changes run under their own scope's headers only
\* (HeaderState::lock).
THEOREM NavigationsClean == Spec => []NavigationClean
<1>1. ResidueInv => NavigationClean
  BY DEF ResidueInv
<1> QED
  BY <1>1, HeaderInvariant, PTL

\* Headers of an ended scope are neither forgotten nor met by another's navigation: the
\* facts that the run headers checks together (HeaderState).
THEOREM HeadersStayClean == Spec => []HeadersClean
<1>1. TypeOK /\ ResidueTracked /\ NavigationClean => HeadersClean
  BY DEF HeadersClean
<1> QED
  BY <1>1, HeaderTypes, HeadersNeverForgotten, NavigationsClean, PTL

\* A fenced command is let through only while no ended scope has left headers behind
\* (HeaderState::wait).
THEOREM FenceIsClean == Spec => FencePassesClean
<1> DEFINE Clean == \A u \in Users : pc[u] = "fence" /\ pc'[u] = "sending" =>
                      \A s \in Sessions : ~Residue(s)
<1>1. TypeOK /\ ResidueInv /\ [Next]_vars => [Clean]_vars
  <2> SUFFICES ASSUME TypeOK, ResidueInv, Next, NEW u \in Users,
                      pc[u] = "fence", pc'[u] = "sending"
               PROVE  \A s \in Sessions : ~Residue(s)
    BY DEF vars
  <2>1. PICK v \in Users : UserNext(v)
    BY DEF Next, TaskNext, CleanSession, CleanDone, CleanFail, CleanRelease, AllDone, vars,
       userVars
  <2>2. v = u
    BY <2>1 DEF TypeOK, UserNext, Begin, Look, AcquireSerial, PassFence, PassRefence, Send,
       SetScoped, Finish, Recover, Finished, Cancel, Goto
  <2>3. PassFence(u)
    BY <2>1, <2>2 DEF TypeOK, UserNext, Begin, Look, AcquireSerial, PassRefence, Send,
       SetScoped, Finish, Recover, Finished, Cancel, Goto, InScope
  <2>4. Waited(u, "ok")
    BY <2>3 DEF TypeOK, PassFence, Goto
  <2> QED
    BY <2>4, WaitedClean DEF ResidueInv
<1> QED
  BY <1>1, HeaderInvariant, PTL DEF Spec, FencePassesClean

-----------------------------------------------------------------------------
(* The viewport: the metrics, the guard and Chrome's sessions of one tab.   *)

WireSet ==
  [cmd: {"none", "set", "prime", "clear", "capture"}, sess: View!TabSessions \cup {None},
   arg: Sizes \cup {None}, phase: {"none", "sent", "capturing", "ok", "refused"}]

\* A command on a connection is for one of its sessions.
Carried(c) ==
  View!Pending(c) =>
    /\ vwire[c].cmd # "none" /\ vwire[c].sess \in View!TabSessions /\ vwire[c].sess[1] = c
    /\ vwire[c].cmd = "set" => vwire[c].arg # None

Typed ==
  /\ View!TypeOK /\ vwire \in [Conns -> WireSet]
  /\ \A c \in Conns : Carried(c)

\* What a caller holds: the guard from its turn until its call or its task ends.
Guards(f) ==
  /\ vtask[f] # "none" => guard = f /\ vpc[f] \in {"wait", "done"} /\ controller # None
  /\ vpc[f] \in {"connect", "attach"} => guard = f /\ vtask[f] = "none"
  /\ guard = f => vtask[f] # "none" \/ vpc[f] \in {"connect", "attach"}
  /\ vpc[f] = "wait" => vtask[f] # "none"
  /\ vpc[f] \in {"idle", "guard", "connect", "attach"} => step[f] = 1
  /\ vpc[f] \notin {"idle", "done"} => Conn[f] \in joined
  /\ vpc[f] = "attach" => ~View!Alive(f)
  /\ step[f] <= Len(View!Commands(f))
  /\ vop[f] = "set" => arg[f] # None \/ vpc[f] = "idle"

\* The state knows nothing without a controller, and one whose connection is open is
\* upheld by it.
Upholding == controller = None => metrics = None
UpheldBy == controller # None /\ controller[1] \in open => controller[1] \in joined

\* What Chrome makes of the guard's command, once it has.
Answered(w) ==
  /\ w.cmd = View!Command(guard) /\ w.arg = arg[guard]
  /\ w.phase \in {"sent", "refused"} \/ w.cmd = "capture" =>
       doubt \/ w.cmd = "clear" \/ over[controller] = metrics
  /\ w.phase = "ok" => (w.cmd = "set" => over[controller] = arg[guard])
                    /\ (w.cmd = "clear" => over[controller] = None)
  /\ w.phase = "capturing" => w.cmd = "capture"
Answering == \A c \in open : View!Pending(c) => Answered(vwire[c])

ViewInv ==
  /\ Typed /\ (\A f \in Viewers : Guards(f)) /\ Upholding /\ UpheldBy
  /\ View!OneCommandAtATime /\ View!OneController /\ View!MetricsTrue /\ Answering

\* A connection takes up the tab's shared state.
LEMMA JoinStep ==
  ASSUME View!ViewportConstants, ViewInv, NEW c \in Conns, View!Join(c)
  PROVE  ViewInv'
<1> USE DEF View!ViewportConstants
<1>1. Typed'
  BY DEF ViewInv, View!Join, View!calls, View!chrome, Typed, View!TypeOK, Carried, View!Pending
<1>2. (\A g \in Viewers : Guards(g))'
  BY DEF ViewInv, View!Join, View!calls, Typed, View!TypeOK, Guards, View!Alive,
     View!Controller, View!Commands
<1>3. Upholding' /\ UpheldBy'
  BY DEF ViewInv, View!Join, Upholding, UpheldBy
<1>4. View!OneCommandAtATime'
  BY DEF ViewInv, View!Join, View!calls, View!chrome, View!TypeOK, View!OneCommandAtATime,
     View!Pending
<1>5. View!OneController' /\ View!MetricsTrue' /\ Answering'
  BY DEF ViewInv, View!Join, View!calls, View!chrome, View!TypeOK, View!OneCommandAtATime,
     View!OneController, View!Pending, View!MetricsTrue, Answering, Answered, View!Command,
     View!Commands
<1> QED BY <1>1, <1>2, <1>3, <1>4, <1>5 DEF ViewInv

\* The last handle of a connection goes; no task of the tab is using it.
LEMMA LeaveStep ==
  ASSUME View!ViewportConstants, ViewInv, NEW c \in Conns, View!Leave(c)
  PROVE  ViewInv'
<1> USE DEF View!ViewportConstants
<1>1. Typed'
  BY DEF ViewInv, View!Leave, View!calls, View!chrome, Typed, View!TypeOK, Carried,
     View!Pending, View!Upheld
<1>2. (\A g \in Viewers : Guards(g))'
  BY DEF ViewInv, View!Leave, View!calls, Typed, View!TypeOK, Guards, View!Alive,
     View!Controller, View!Commands, View!Busy, View!Upheld
<1>3. Upholding' /\ UpheldBy'
  BY DEF ViewInv, View!Leave, Upholding, View!Upheld, UpheldBy
<1>4. View!OneCommandAtATime'
  BY DEF ViewInv, View!Leave, View!calls, View!chrome, View!TypeOK, View!OneCommandAtATime,
     View!Pending, View!Upheld
<1>5. View!OneController' /\ View!MetricsTrue' /\ Answering'
  BY DEF ViewInv, View!Leave, View!calls, View!chrome, View!TypeOK, UpheldBy,
     View!OneCommandAtATime, View!OneController, View!Pending, View!Upheld, View!MetricsTrue,
     Answering, Answered, View!Command, View!Commands
<1> QED BY <1>1, <1>2, <1>3, <1>4, <1>5 DEF ViewInv

\* A closed connection ends no claim by itself: what it said stays as it was.
LEMMA CloseStep ==
  ASSUME View!ViewportConstants, ViewInv, NEW c \in Conns, View!Close(c)
  PROVE  ViewInv'
<1> USE DEF View!ViewportConstants
<1>1. Typed'
  BY DEF ViewInv, View!Close, View!state, View!calls, View!chrome, Typed, View!TypeOK, Carried,
     View!Pending
<1>2. (\A g \in Viewers : Guards(g))'
  BY DEF ViewInv, View!Close, View!state, View!calls, Typed, View!TypeOK, Guards, View!Alive,
     View!Controller, View!Commands
<1>3. Upholding' /\ UpheldBy'
  BY DEF ViewInv, View!Close, View!state, Upholding, UpheldBy
<1>4. View!OneCommandAtATime'
  BY DEF ViewInv, View!Close, View!state, View!calls, View!chrome, View!TypeOK,
     View!OneCommandAtATime, View!Pending
<1>5. View!OneController' /\ View!MetricsTrue' /\ Answering'
  BY DEF ViewInv, View!Close, View!state, View!calls, View!chrome, View!TypeOK,
     View!OneCommandAtATime, View!OneController, View!Pending, View!MetricsTrue, Answering,
     Answered, View!Command, View!Commands
<1> QED BY <1>1, <1>2, <1>3, <1>4, <1>5 DEF ViewInv

\* Chrome carries out the command it has: the metrics of one session change.
LEMMA ChromeDoesStep ==
  ASSUME View!ViewportConstants, ViewInv, NEW c \in Conns, View!ChromeDoes(c)
  PROVE  ViewInv'
<1> USE DEF View!ViewportConstants
<1>1. Typed'
  BY SMTT(30) DEF ViewInv, View!ChromeDoes, View!state, View!calls, Typed, View!TypeOK, Carried,
     View!Pending, WireSet, View!TabSessions, View!Metrics
<1>2. (\A g \in Viewers : Guards(g))'
  BY DEF ViewInv, View!ChromeDoes, View!state, View!calls, Typed, View!TypeOK, Guards,
     View!Alive, View!Controller, View!Commands
<1>3. Upholding' /\ UpheldBy'
  BY DEF ViewInv, View!ChromeDoes, View!state, Upholding, UpheldBy
<1>4. View!OneCommandAtATime'
  BY DEF ViewInv, View!ChromeDoes, View!state, View!calls, Typed, View!TypeOK,
     View!OneCommandAtATime, View!Pending, Carried, WireSet, View!Metrics
<1>5. View!OneController'
  <2> SUFFICES ASSUME NEW s \in View!TabSessions, over'[s] # None
               PROVE  s = controller \/ s[1] \notin open
    BY DEF View!OneController, View!ChromeDoes, View!state
  <2>1. CASE s # vwire[c].sess
    BY <2>1 DEF ViewInv, View!ChromeDoes, View!OneController
  <2>2. CASE s = vwire[c].sess
    BY <2>2 DEF ViewInv, View!ChromeDoes, Typed, Carried, View!Pending, View!OneCommandAtATime
  <2> QED BY <2>1, <2>2
<1>6. View!MetricsTrue' /\ Answering'
  BY DEF ViewInv, View!ChromeDoes, View!state, View!calls, Typed, View!TypeOK,
     View!OneCommandAtATime, View!Pending, Carried, View!MetricsTrue, Answering, Answered,
     View!Command, View!Commands, View!Metrics
<1> QED BY <1>1, <1>2, <1>3, <1>4, <1>5, <1>6 DEF ViewInv

\* The end of a capture changes no session's metrics.
LEMMA ChromeCapturedStep ==
  ASSUME View!ViewportConstants, ViewInv, NEW c \in Conns, View!ChromeCaptured(c)
  PROVE  ViewInv'
<1> USE DEF View!ViewportConstants
<1>1. Typed'
  <2>1. vwire' \in [Conns -> WireSet]
    BY DEF ViewInv, View!ChromeCaptured, Typed, WireSet
  <2>2. \A d \in Conns : Carried(d)'
    BY DEF ViewInv, View!ChromeCaptured, View!state, View!calls, Typed, Carried, View!Pending
  <2>3. \A d \in Conns : vwire'[d].phase \in {"none", "sent", "capturing", "ok", "refused"}
    BY <2>1 DEF WireSet
  <2> QED BY <2>1, <2>2, <2>3 DEF ViewInv, View!ChromeCaptured, View!state, View!calls, Typed, View!TypeOK
<1>2. (\A g \in Viewers : Guards(g))'
  BY DEF ViewInv, View!ChromeCaptured, View!state, View!calls, Typed, View!TypeOK, Guards,
     View!Alive, View!Controller, View!Commands
<1>3. Upholding' /\ UpheldBy'
  BY DEF ViewInv, View!ChromeCaptured, View!state, Upholding, UpheldBy
<1>4. View!OneCommandAtATime'
  BY DEF ViewInv, View!ChromeCaptured, View!state, View!calls, Typed, View!TypeOK,
     View!OneCommandAtATime, View!Pending, Carried
<1>5. View!OneController' /\ View!MetricsTrue' /\ Answering'
  BY DEF ViewInv, View!ChromeCaptured, View!state, View!calls, View!TypeOK,
     View!OneCommandAtATime, View!OneController, View!Pending, View!MetricsTrue, Answering,
     Answered, View!Command, View!Commands
<1> QED BY <1>1, <1>2, <1>3, <1>4, <1>5 DEF ViewInv

\* A refused command leaves the metrics.
LEMMA ChromeRefusesStep ==
  ASSUME View!ViewportConstants, ViewInv, NEW c \in Conns, View!ChromeRefuses(c)
  PROVE  ViewInv'
<1> USE DEF View!ViewportConstants
<1>1. Typed'
  BY SMTT(30) DEF ViewInv, View!ChromeRefuses, View!state, View!calls, Typed, View!TypeOK, Carried,
     View!Pending, WireSet
<1>2. (\A g \in Viewers : Guards(g))'
  BY DEF ViewInv, View!ChromeRefuses, View!state, View!calls, Typed, View!TypeOK, Guards,
     View!Alive, View!Controller, View!Commands
<1>3. Upholding' /\ UpheldBy'
  BY DEF ViewInv, View!ChromeRefuses, View!state, Upholding, UpheldBy
<1>4. View!OneCommandAtATime'
  BY DEF ViewInv, View!ChromeRefuses, View!state, View!calls, View!TypeOK,
     View!OneCommandAtATime, View!Pending
<1>5. View!OneController' /\ View!MetricsTrue' /\ Answering'
  BY DEF ViewInv, View!ChromeRefuses, View!state, View!calls, View!TypeOK,
     View!OneCommandAtATime, View!OneController, View!Pending, View!MetricsTrue, Answering,
     Answered, View!Command, View!Commands
<1> QED BY <1>1, <1>2, <1>3, <1>4, <1>5 DEF ViewInv

\* Chrome forgets the sessions of a connection that nobody counts on.
LEMMA UnlinkStep ==
  ASSUME View!ViewportConstants, ViewInv, NEW c \in Conns, View!Unlink(c)
  PROVE  ViewInv'
<1> USE DEF View!ViewportConstants
<1>1. Typed'
  BY DEF ViewInv, View!Unlink, View!state, View!calls, Typed, View!TypeOK, Carried,
     View!Pending, WireSet, View!Idle
<1>2. (\A g \in Viewers : Guards(g))'
  BY DEF ViewInv, View!Unlink, View!state, View!calls, Typed, View!TypeOK, Guards, View!Alive,
     View!Controller, View!Commands
<1>3. Upholding' /\ UpheldBy'
  BY DEF ViewInv, View!Unlink, View!state, Upholding, UpheldBy
<1>4. View!OneCommandAtATime'
  BY DEF ViewInv, View!Unlink, View!state, View!calls, View!TypeOK, View!OneCommandAtATime,
     View!Pending, View!Idle
<1>5. View!OneController' /\ View!MetricsTrue' /\ Answering'
  BY DEF ViewInv, View!Unlink, View!state, View!calls, Typed, View!TypeOK,
     View!OneCommandAtATime, View!OneController, View!Pending, Carried, View!MetricsTrue,
     Answering, Answered, View!Command, View!Commands, WireSet
<1> QED BY <1>1, <1>2, <1>3, <1>4, <1>5 DEF ViewInv

\* A call begins without the guard.
LEMMA BeginStep ==
  ASSUME View!ViewportConstants, ViewInv, NEW f \in Viewers, NEW o \in {"set", "reset",
           "shot"}, NEW m \in Sizes \cup {None}, View!Begin(f, o, m)
  PROVE  ViewInv'
<1> USE DEF View!ViewportConstants
<1>1. Typed'
  BY DEF ViewInv, View!Begin, View!state, View!chrome, Typed, View!TypeOK, Carried, View!Pending
<1>2. (\A g \in Viewers : Guards(g))'
  BY DEF ViewInv, View!Begin, View!state, Typed, View!TypeOK, Guards, View!Alive,
     View!Controller, View!Commands
<1>3. Upholding' /\ UpheldBy'
  BY DEF ViewInv, View!Begin, View!state, Upholding, UpheldBy
<1>4. View!OneCommandAtATime'
  BY DEF ViewInv, View!Begin, View!state, View!chrome, View!TypeOK, View!OneCommandAtATime,
     View!Pending
<1>5. View!OneController' /\ View!MetricsTrue' /\ Answering'
  BY DEF ViewInv, View!Begin, View!state, View!chrome, View!TypeOK, Guards,
     View!OneCommandAtATime, View!OneController, View!Pending, View!MetricsTrue, Answering,
     Answered, View!Command, View!Commands
<1> QED BY <1>1, <1>2, <1>3, <1>4, <1>5 DEF ViewInv

\* The guard is taken when it is free.
LEMMA AcquireStep ==
  ASSUME View!ViewportConstants, ViewInv, NEW f \in Viewers, View!Acquire(f)
  PROVE  ViewInv'
<1> USE DEF View!ViewportConstants
<1>1. Typed'
  BY DEF ViewInv, View!Acquire, View!chrome, Typed, View!TypeOK, Carried, View!Pending
<1>2. (\A g \in Viewers : Guards(g))'
  BY DEF ViewInv, View!Acquire, Typed, View!TypeOK, Guards, View!Commands
<1>3. Upholding' /\ UpheldBy'
  BY DEF ViewInv, View!Acquire, Upholding, UpheldBy
<1>4. View!OneCommandAtATime'
  BY DEF ViewInv, View!Acquire, View!chrome, View!TypeOK, View!OneCommandAtATime, View!Pending
<1>5. View!OneController' /\ View!MetricsTrue' /\ Answering'
  BY DEF ViewInv, View!Acquire, View!chrome, Guards, View!OneCommandAtATime,
     View!OneController, View!Pending, View!MetricsTrue, Answering
<1> QED BY <1>1, <1>2, <1>3, <1>4, <1>5 DEF ViewInv

\* A deadline leaves the guard with the task, if there is one.
LEMMA DeadlineStep ==
  ASSUME View!ViewportConstants, ViewInv, NEW f \in Viewers, View!Deadline(f)
  PROVE  ViewInv'
<1> USE DEF View!ViewportConstants
<1>1. Typed'
  BY DEF ViewInv, View!Deadline, View!chrome, Typed, View!TypeOK, Carried, View!Pending,
     View!Returns, View!GuardAfter, View!Upheld
<1>2. (\A g \in Viewers : Guards(g))'
  BY DEF ViewInv, View!Deadline, Typed, View!TypeOK, Guards, View!Alive, View!Controller,
     View!Commands, View!Timed, View!Returns, View!GuardAfter, View!Upheld
<1>3. Upholding' /\ UpheldBy'
  BY DEF ViewInv, View!Deadline, Upholding, View!Upheld, UpheldBy
<1>4. View!OneCommandAtATime'
  BY DEF ViewInv, View!Deadline, View!chrome, View!TypeOK, View!OneCommandAtATime,
     View!Pending, View!Returns, View!GuardAfter, View!Upheld
<1>5. View!OneController' /\ View!MetricsTrue' /\ Answering'
  BY DEF ViewInv, View!Deadline, View!chrome, View!TypeOK, UpheldBy, View!OneCommandAtATime,
     View!OneController, View!Pending, View!GuardAfter, View!Upheld, View!MetricsTrue,
     Answering, Answered, View!Command, View!Commands
<1> QED BY <1>1, <1>2, <1>3, <1>4, <1>5 DEF ViewInv

\* The task starts at a controller whose connection is open.
LEMMA ConnectStep ==
  ASSUME View!ViewportConstants, ViewInv, NEW f \in Viewers, View!Connect(f)
  PROVE  ViewInv'
<1> USE DEF View!ViewportConstants
<1>1. Typed'
  BY SMTT(60)
     DEF ViewInv, View!Connect, View!chrome, Typed, View!TypeOK, Carried, View!Pending,
         View!TabSessions, View!Start, View!Controller
<1>2. (\A g \in Viewers : Guards(g))'
  BY DEF ViewInv, View!Connect, Typed, View!TypeOK, Guards, View!Alive, View!Controller,
     View!Commands, View!TabSessions, View!Start
<1>3. Upholding' /\ UpheldBy'
  BY DEF ViewInv, View!Connect, View!chrome, Guards, Upholding, View!Controller, UpheldBy
<1>4. View!OneCommandAtATime'
  <2>1. View!TypeOK'
    BY <1>1 DEF Typed
  <2>2. (\A c \in open : View!Pending(c) =>
          /\ guard # None /\ vtask[guard] = "reply" /\ vwire[c].sess = controller
          /\ \A d \in open : View!Pending(d) => c = d)'
    BY DEF ViewInv, View!Connect, View!chrome, Guards, View!OneCommandAtATime, View!Pending
  <2> QED BY <2>1, <2>2 DEF View!OneCommandAtATime
<1>5. View!OneController' /\ View!MetricsTrue' /\ Answering'
  BY DEF ViewInv, View!Connect, View!chrome, Guards, View!Controller, View!TabSessions,
     View!OneCommandAtATime, View!OneController, View!Pending, Upholding, View!MetricsTrue,
     Answering
<1> QED BY <1>1, <1>2, <1>3, <1>4, <1>5 DEF ViewInv

\* Without a controller the call ends and gives the guard back.
LEMMA ConnectFailsStep ==
  ASSUME View!ViewportConstants, ViewInv, NEW f \in Viewers, View!ConnectFails(f)
  PROVE  ViewInv'
<1> USE DEF View!ViewportConstants
<1>1. Typed'
  BY DEF ViewInv, View!ConnectFails, View!chrome, Typed, View!TypeOK, Carried, View!Pending,
     View!Returns
<1>2. (\A g \in Viewers : Guards(g))'
  BY DEF ViewInv, View!ConnectFails, Typed, View!TypeOK, Guards, View!Commands, View!Returns
<1>3. Upholding' /\ UpheldBy'
  BY DEF ViewInv, View!ConnectFails, Upholding, UpheldBy
<1>4. View!OneCommandAtATime'
  BY DEF ViewInv, View!ConnectFails, View!chrome, View!TypeOK, Guards, View!OneCommandAtATime,
     View!Pending, View!Returns
<1>5. View!OneController' /\ View!MetricsTrue' /\ Answering'
  BY DEF ViewInv, View!ConnectFails, View!chrome, Guards, View!OneCommandAtATime,
     View!OneController, View!Pending, View!MetricsTrue, Answering
<1> QED BY <1>1, <1>2, <1>3, <1>4, <1>5 DEF ViewInv

\* A new controller takes over from one whose connection is not open.
LEMMA AttachedStep ==
  ASSUME View!ViewportConstants, ViewInv, NEW f \in Viewers, View!Attached(f)
  PROVE  ViewInv'
<1> USE DEF View!ViewportConstants
<1>1. Typed'
  <2>1. /\ joined' \subseteq Conns /\ open' \subseteq linked' /\ linked' \subseteq Conns
        /\ controller' \in View!TabSessions \cup {None} /\ metrics' \in Sizes \cup {None}
        /\ guard' \in Viewers \cup {None} /\ doubt' \in BOOLEAN
    BY DEF ViewInv, View!Attached, View!chrome, Typed, View!TypeOK, View!TabSessions,
       View!MetricsOfNew
  <2>2. /\ vpc' \in [Viewers -> {"idle", "guard", "connect", "attach", "wait", "done"}]
        /\ vtask' \in [Viewers -> {"none", "write", "reply"}]
        /\ result' \in [Viewers -> {"none", "ok", "err"}]
        /\ step' \in [Viewers -> 1..3] /\ wrote' \in [Viewers -> BOOLEAN]
        /\ vop' \in [Viewers -> {"set", "reset", "shot"}]
        /\ arg' \in [Viewers -> Sizes \cup {None}]
    BY DEF ViewInv, View!Attached, Typed, View!TypeOK, View!Start
  <2>3. vwire' \in [Conns -> WireSet]
    BY DEF ViewInv, View!Attached, View!chrome, Typed
  <2>4. over' \in [View!TabSessions -> Sizes \cup {None, Native}]
    BY DEF ViewInv, View!Attached, View!chrome, Typed, View!TypeOK
  <2>5. \A c \in Conns : Carried(c)'
    BY DEF ViewInv, View!Attached, View!chrome, Typed, Carried, View!Pending
  <2> QED BY <2>1, <2>2, <2>3, <2>4, <2>5 DEF Typed, View!TypeOK, WireSet
<1>2. (\A g \in Viewers : Guards(g))'
  BY DEF ViewInv, View!Attached, Typed, View!TypeOK, Guards, View!Commands, View!TabSessions,
     View!Start
<1>3. Upholding' /\ UpheldBy'
  BY DEF ViewInv, View!Attached, Guards, Upholding, View!MetricsOfNew, UpheldBy
<1>4. View!OneCommandAtATime'
  <2>1. View!TypeOK'
    BY <1>1 DEF Typed
  <2>2. (\A c \in open : View!Pending(c) =>
          /\ guard # None /\ vtask[guard] = "reply" /\ vwire[c].sess = controller
          /\ \A d \in open : View!Pending(d) => c = d)'
    BY DEF ViewInv, View!Attached, View!chrome, Guards, View!OneCommandAtATime, View!Pending
  <2> QED BY <2>1, <2>2 DEF View!OneCommandAtATime
<1>5. View!OneController' /\ View!MetricsTrue' /\ Answering'
  BY DEF ViewInv, View!Attached, View!chrome, Guards, View!Alive, View!Controller,
     View!TabSessions, View!OneCommandAtATime, View!OneController, View!Pending,
     View!MetricsOfNew, View!MetricsTrue, Answering
<1> QED BY <1>1, <1>2, <1>3, <1>4, <1>5 DEF ViewInv

\* The guard's command is the only one Chrome has.
LEMMA WriteStep ==
  ASSUME View!ViewportConstants, ViewInv, NEW f \in Viewers, NEW ok \in BOOLEAN, View!Write(f,
           ok)
  PROVE  ViewInv'
<1> USE DEF View!ViewportConstants
<1>1. Typed'
  <2>1. /\ joined' \subseteq Conns /\ open' \subseteq linked' /\ linked' \subseteq Conns
        /\ controller' \in View!TabSessions \cup {None} /\ metrics' \in Sizes \cup {None}
        /\ guard' \in Viewers \cup {None} /\ doubt' \in BOOLEAN
    BY DEF ViewInv, View!Write, View!state, Typed, View!TypeOK
  <2>2. /\ vpc' \in [Viewers -> {"idle", "guard", "connect", "attach", "wait", "done"}]
        /\ vtask' \in [Viewers -> {"none", "write", "reply"}]
        /\ result' \in [Viewers -> {"none", "ok", "err"}]
        /\ step' \in [Viewers -> 1..3] /\ wrote' \in [Viewers -> BOOLEAN]
        /\ vop' \in [Viewers -> {"set", "reset", "shot"}]
        /\ arg' \in [Viewers -> Sizes \cup {None}]
    BY DEF ViewInv, View!Write, Typed, View!TypeOK
  <2>3. vwire' \in [Conns -> WireSet]
    BY DEF ViewInv, View!Write, Typed, View!TypeOK, Guards, WireSet, View!Command, View!Commands
  <2>4. over' \in [View!TabSessions -> Sizes \cup {None, Native}]
    BY DEF ViewInv, View!Write, Typed, View!TypeOK
  <2>5. \A c \in Conns : Carried(c)'
    BY DEF ViewInv, View!Write, View!state, Typed, View!TypeOK, Guards, Carried, View!Pending,
       View!Command, View!Commands
  <2> QED BY <2>1, <2>2, <2>3, <2>4, <2>5 DEF Typed, View!TypeOK, WireSet
<1>2. (\A g \in Viewers : Guards(g))'
  BY DEF ViewInv, View!Write, View!state, Typed, View!TypeOK, Guards, View!Commands
<1>3. Upholding' /\ UpheldBy'
  BY DEF ViewInv, View!Write, View!state, Upholding, UpheldBy
<1>4. View!OneCommandAtATime'
  BY DEF ViewInv, View!Write, View!state, View!TypeOK, Guards, View!OneCommandAtATime,
     View!Pending
<1>5. View!OneController' /\ View!MetricsTrue' /\ Answering'
  BY DEF ViewInv, View!Write, View!state, Typed, View!TypeOK, Guards, View!OneCommandAtATime,
     View!OneController, View!Pending, View!MetricsTrue, Answering, Answered, View!Command,
     View!Commands
<1> QED BY <1>1, <1>2, <1>3, <1>4, <1>5 DEF ViewInv

\* A command that was not written leaves a primed session in doubt, no other.
LEMMA WriteFailsStep ==
  ASSUME View!ViewportConstants, ViewInv, NEW f \in Viewers, View!WriteFails(f)
  PROVE  ViewInv'
<1> USE DEF View!ViewportConstants
<1>1. Typed'
  <2>1. /\ joined' \subseteq Conns /\ open' \subseteq linked' /\ linked' \subseteq Conns
        /\ controller' \in View!TabSessions \cup {None} /\ metrics' \in Sizes \cup {None}
        /\ guard' \in Viewers \cup {None} /\ doubt' \in BOOLEAN
    BY DEF ViewInv, View!WriteFails, View!chrome, Typed, View!TypeOK, View!Fails, View!Ends,
       View!Upheld
  <2>2. /\ vpc' \in [Viewers -> {"idle", "guard", "connect", "attach", "wait", "done"}]
        /\ vtask' \in [Viewers -> {"none", "write", "reply"}]
        /\ result' \in [Viewers -> {"none", "ok", "err"}]
        /\ step' \in [Viewers -> 1..3] /\ wrote' \in [Viewers -> BOOLEAN]
        /\ vop' \in [Viewers -> {"set", "reset", "shot"}]
        /\ arg' \in [Viewers -> Sizes \cup {None}]
    BY DEF ViewInv, View!WriteFails, Typed, View!TypeOK, View!Fails, View!Ends, View!Returns
  <2>3. vwire' \in [Conns -> WireSet]
    BY DEF ViewInv, View!WriteFails, View!chrome, Typed
  <2>4. over' \in [View!TabSessions -> Sizes \cup {None, Native}]
    BY DEF ViewInv, View!WriteFails, View!chrome, Typed, View!TypeOK
  <2>5. \A c \in Conns : Carried(c)'
    BY DEF ViewInv, View!WriteFails, View!chrome, Typed, Carried, View!Pending
  <2> QED BY <2>1, <2>2, <2>3, <2>4, <2>5 DEF Typed, View!TypeOK, WireSet
<1>2. (\A g \in Viewers : Guards(g))'
  BY DEF ViewInv, View!WriteFails, Typed, View!TypeOK, Guards, View!Commands, View!Fails,
     View!Ends, View!Returns
<1>3. Upholding' /\ UpheldBy'
  BY DEF ViewInv, View!WriteFails, Upholding, View!Fails, View!Upheld, UpheldBy
<1>4. View!OneCommandAtATime'
  <2>1. View!TypeOK'
    BY <1>1 DEF Typed
  <2>2. (\A c \in open : View!Pending(c) =>
          /\ guard # None /\ vtask[guard] = "reply" /\ vwire[c].sess = controller
          /\ \A d \in open : View!Pending(d) => c = d)'
    BY DEF ViewInv, View!WriteFails, View!chrome, Guards, View!OneCommandAtATime, View!Pending
  <2> QED BY <2>1, <2>2 DEF View!OneCommandAtATime
<1>5. View!OneController' /\ Answering'
  BY DEF ViewInv, View!WriteFails, View!chrome, Guards, UpheldBy, View!OneCommandAtATime,
     View!OneController, View!Pending, View!Fails, View!Upheld, Answering
<1>6. View!MetricsTrue'
  <2>1. CASE controller' = None
    BY <2>1 DEF View!MetricsTrue
  <2>2. CASE controller' = controller /\ metrics' = metrics
    <3>1. doubt' \/ ~\E g \in Viewers : vtask[g] = "write" /\ View!Command(g) = "clear"
      BY DEF ViewInv, Guards, View!WriteFails
    <3> QED BY <2>2, <3>1 DEF ViewInv, View!WriteFails, View!MetricsTrue, View!chrome,
         View!Pending
  <2> QED BY <2>1, <2>2 DEF View!WriteFails, View!Fails, View!Upheld
<1> QED BY <1>1, <1>2, <1>3, <1>4, <1>5, <1>6 DEF ViewInv

\* What the reply tells is what Chrome made of the command.
LEMMA ReplyStep ==
  ASSUME View!ViewportConstants, ViewInv, NEW f \in Viewers, View!Reply(f)
  PROVE  ViewInv'
<1> USE DEF View!ViewportConstants
<1>1. Typed'
  <2> View!Learnt(f) \in Sizes \cup {None}
    BY DEF ViewInv, Typed, View!TypeOK, View!Learnt
  <2> HIDE DEF View!Learnt
  <2>1. /\ joined' \subseteq Conns /\ open' \subseteq linked' /\ linked' \subseteq Conns
        /\ controller' \in View!TabSessions \cup {None} /\ metrics' \in Sizes \cup {None}
        /\ guard' \in Viewers \cup {None} /\ doubt' \in BOOLEAN
    BY DEF ViewInv, View!Reply, Typed, View!TypeOK, View!Fails, View!Ends, View!Upheld
  <2>0. step' \in [Viewers -> 1..3]
    <3>1. step[f] < Len(View!Commands(f)) => step[f] + 1 \in 1..3
      BY DEF ViewInv, Typed, View!TypeOK, View!Commands
    <3> HIDE DEF View!Learnt, View!Commands
    <3> QED BY <3>1 DEF ViewInv, Typed, View!TypeOK, View!Reply, View!Fails
  <2>2. /\ vpc' \in [Viewers -> {"idle", "guard", "connect", "attach", "wait", "done"}]
        /\ vtask' \in [Viewers -> {"none", "write", "reply"}]
        /\ result' \in [Viewers -> {"none", "ok", "err"}]
        /\ step' \in [Viewers -> 1..3] /\ wrote' \in [Viewers -> BOOLEAN]
        /\ vop' \in [Viewers -> {"set", "reset", "shot"}]
        /\ arg' \in [Viewers -> Sizes \cup {None}]
    BY <2>0, ZenonT(60) DEF ViewInv, View!Reply, Typed, View!TypeOK, View!Fails, View!Ends, View!Returns
  <2>3. vwire' \in [Conns -> WireSet]
    BY DEF ViewInv, View!Reply, Typed, WireSet, View!Idle
  <2>4. over' \in [View!TabSessions -> Sizes \cup {None, Native}]
    BY DEF ViewInv, View!Reply, Typed, View!TypeOK
  <2>5. \A c \in Conns : Carried(c)'
    BY DEF ViewInv, View!Reply, Typed, Carried, View!Pending, View!Idle
  <2> QED BY <2>1, <2>2, <2>3, <2>4, <2>5 DEF Typed, View!TypeOK, WireSet
<1>2. (\A g \in Viewers : Guards(g))'
  BY DEF ViewInv, View!Reply, Typed, View!TypeOK, Guards, View!Commands, View!Fails, View!Ends,
     View!Returns
<1>3. Upholding' /\ UpheldBy'
  BY DEF ViewInv, View!Reply, Guards, Upholding, View!Fails, View!Upheld, UpheldBy
<1>4. View!OneCommandAtATime'
  <2>1. View!TypeOK'
    BY <1>1 DEF Typed
  <2>2. (\A c \in open : View!Pending(c) =>
          /\ guard # None /\ vtask[guard] = "reply" /\ vwire[c].sess = controller
          /\ \A d \in open : View!Pending(d) => c = d)'
    BY DEF ViewInv, View!Reply, Typed, View!TypeOK, View!OneCommandAtATime, View!Pending,
       Carried, View!Idle
  <2> QED BY <2>1, <2>2 DEF View!OneCommandAtATime
<1>5. View!OneController' /\ Answering'
  BY DEF ViewInv, View!Reply, Typed, View!TypeOK, UpheldBy, View!OneCommandAtATime,
     View!OneController, View!Pending, Carried, View!Fails, View!Upheld, Answering, View!Idle
<1>6. View!MetricsTrue'
  <2> DEFINE w == vwire[controller[1]]
  <2>0. /\ controller \in View!TabSessions /\ guard = f /\ View!Pending(controller[1])
        /\ \A g \in Viewers : vtask[g] = "write" => g = f
    BY DEF ViewInv, Typed, View!TypeOK, Guards, View!Reply, View!Pending
  <2>1. CASE controller' = None
    BY <2>1 DEF View!MetricsTrue
  <2>2. CASE controller[1] \notin open
    BY <2>2, <2>0 DEF View!MetricsTrue, View!Reply, View!Fails, View!Upheld
  <2>3. CASE controller[1] \in open /\ ~(w.phase = "ok" /\ wrote[f]) /\ controller' = controller
    <3>1. Answered(w)
      BY <2>0, <2>3 DEF ViewInv, Answering
    <3> QED BY <2>0, <2>3, <3>1 DEF View!MetricsTrue, View!Reply, View!Fails, View!Upheld,
         Answered
  <2>4. CASE controller[1] \in open /\ w.phase = "ok" /\ wrote[f] /\ controller' = controller
    <3>1. Answered(w)
      BY <2>0, <2>4 DEF ViewInv, Answering
    <3>2. over' = over /\ open' = open /\ controller' # None
      BY <2>0, <2>4 DEF View!Reply
    <3>3. CASE step[f] < Len(View!Commands(f))
      <4>1. /\ vtask' = [vtask EXCEPT ![f] = "write"] /\ metrics' = View!Learnt(f)
            /\ step' = [step EXCEPT ![f] = @ + 1] /\ vop' = vop
        BY <2>4, <3>3 DEF View!Reply
      <4>2. CASE View!Command(f) = "prime"
        <5>1. vop[f] = "reset" /\ step[f] = 1
          BY <4>2 DEF ViewInv, Typed, View!TypeOK, Guards, View!Command, View!Commands
        <5>2. View!Command(f)' = "clear" /\ vtask'[f] = "write"
          BY <4>1, <5>1 DEF ViewInv, Typed, View!TypeOK, View!Command, View!Commands
        <5> QED BY <5>2 DEF View!MetricsTrue
      <4>3. CASE View!Command(f) = "clear"
        BY <2>0, <2>4, <3>1, <3>2, <4>1, <4>3 DEF Answered, View!Learnt, View!MetricsTrue
      <4>4. View!Command(f) \in {"prime", "clear"}
        BY <3>3 DEF ViewInv, Typed, View!TypeOK, View!Command, View!Commands
      <4> QED BY <4>2, <4>3, <4>4
    <3>4. CASE ~(step[f] < Len(View!Commands(f)))
      <4>1. metrics' = View!Learnt(f) /\ doubt' = (doubt /\ View!Command(f) \notin {"set", "clear"})
        BY <2>0, <2>4, <3>2, <3>4 DEF View!Reply, View!Upheld
      <4>2. View!Command(f) \in {"set", "capture"}
        BY <3>4 DEF ViewInv, Typed, View!TypeOK, Guards, View!Command, View!Commands
      <4> QED BY <2>0, <2>4, <3>1, <3>2, <4>1, <4>2 DEF Answered, View!Learnt, View!MetricsTrue
    <3> QED BY <3>3, <3>4
  <2> QED BY <2>1, <2>2, <2>3, <2>4 DEF View!Reply, View!Fails, View!Upheld
<1> QED BY <1>1, <1>2, <1>3, <1>4, <1>5, <1>6 DEF ViewInv

\* The end of the connection ends the task, and the claim.
LEMMA DisconnectedStep ==
  ASSUME View!ViewportConstants, ViewInv, NEW f \in Viewers, View!Disconnected(f)
  PROVE  ViewInv'
<1> USE DEF View!ViewportConstants
<1>1. Typed'
  <2>1. /\ joined' \subseteq Conns /\ open' \subseteq linked' /\ linked' \subseteq Conns
        /\ controller' \in View!TabSessions \cup {None} /\ metrics' \in Sizes \cup {None}
        /\ guard' \in Viewers \cup {None} /\ doubt' \in BOOLEAN
    BY DEF ViewInv, View!Disconnected, View!chrome, Typed, View!TypeOK, View!Fails, View!Ends,
       View!Upheld
  <2>2. /\ vpc' \in [Viewers -> {"idle", "guard", "connect", "attach", "wait", "done"}]
        /\ vtask' \in [Viewers -> {"none", "write", "reply"}]
        /\ result' \in [Viewers -> {"none", "ok", "err"}]
        /\ step' \in [Viewers -> 1..3] /\ wrote' \in [Viewers -> BOOLEAN]
        /\ vop' \in [Viewers -> {"set", "reset", "shot"}]
        /\ arg' \in [Viewers -> Sizes \cup {None}]
    BY DEF ViewInv, View!Disconnected, Typed, View!TypeOK, View!Fails, View!Ends, View!Returns
  <2>3. vwire' \in [Conns -> WireSet]
    BY DEF ViewInv, View!Disconnected, View!chrome, Typed
  <2>4. over' \in [View!TabSessions -> Sizes \cup {None, Native}]
    BY DEF ViewInv, View!Disconnected, View!chrome, Typed, View!TypeOK
  <2>5. \A c \in Conns : Carried(c)'
    BY DEF ViewInv, View!Disconnected, View!chrome, Typed, Carried, View!Pending
  <2> QED BY <2>1, <2>2, <2>3, <2>4, <2>5 DEF Typed, View!TypeOK, WireSet
<1>2. (\A g \in Viewers : Guards(g))'
  BY DEF ViewInv, View!Disconnected, Typed, View!TypeOK, Guards, View!Commands, View!Fails,
     View!Ends, View!Returns
<1>3. Upholding' /\ UpheldBy'
  BY DEF ViewInv, View!Disconnected, Upholding, View!Fails, View!Upheld, UpheldBy
<1>4. View!OneCommandAtATime'
  <2>1. View!TypeOK'
    BY <1>1 DEF Typed
  <2>2. (\A c \in open : View!Pending(c) =>
          /\ guard # None /\ vtask[guard] = "reply" /\ vwire[c].sess = controller
          /\ \A d \in open : View!Pending(d) => c = d)'
    BY DEF ViewInv, View!Disconnected, View!chrome, Typed, View!TypeOK, View!OneCommandAtATime,
       View!Pending, Carried
  <2> QED BY <2>1, <2>2 DEF View!OneCommandAtATime
<1>5. View!OneController' /\ View!MetricsTrue' /\ Answering'
  BY DEF ViewInv, View!Disconnected, View!chrome, Typed, View!TypeOK, View!OneCommandAtATime,
     View!OneController, View!Pending, Carried, View!MetricsTrue, Answering
<1> QED BY <1>1, <1>2, <1>3, <1>4, <1>5 DEF ViewInv

\* Before anything is done, nothing is held and Chrome shows the tab as it is.
LEMMA ViewInvInit ==
  ASSUME View!ViewportConstants, View!Init
  PROVE  ViewInv
<1>1. Typed
  <2>1. View!TypeOK
    <3>1. \A c \in Conns : vwire[c].phase = "none"
      BY DEF View!Init, View!Idle
    <3>2. wrote \in [Viewers -> BOOLEAN]
      BY DEF View!Init
    <3>3. doubt \in BOOLEAN
      BY DEF View!Init
    <3>4. step \in [Viewers -> 1..3] /\ over \in [View!TabSessions -> Sizes \cup {None, Native}]
      BY DEF View!Init
    <3> QED BY <3>1, <3>2, <3>3, <3>4 DEF View!Init, View!TypeOK
  <2> QED BY <2>1, SMT DEF View!Init, Typed, Carried, View!Pending, WireSet, View!Idle
<1>2. \A f \in Viewers : Guards(f)
  BY DEF View!ViewportConstants, View!Init, Guards, View!Commands
<1>3. Upholding /\ UpheldBy /\ View!OneController /\ View!MetricsTrue
  BY DEF View!Init, Upholding, UpheldBy, View!OneController, View!MetricsTrue
<1>4. View!OneCommandAtATime /\ Answering
  BY <1>1, SMT DEF View!Init, Typed, View!OneCommandAtATime, Answering, View!Pending, View!Idle
<1> QED BY <1>1, <1>2, <1>3, <1>4 DEF ViewInv

\* Every step keeps it.
LEMMA ViewInvStep ==
  ASSUME View!ViewportConstants, ViewInv, [View!Next]_View!vars
  PROVE  ViewInv'
<1>1. CASE UNCHANGED View!vars
  BY <1>1, SMT
     DEF View!vars, View!state, View!calls, View!chrome, ViewInv, Typed, View!TypeOK, Carried,
         View!Pending, Guards, View!Alive, View!Controller, View!Commands, Upholding, UpheldBy,
         View!OneCommandAtATime, View!OneController, View!MetricsTrue, View!Command,
         Answering, Answered
<1>2. ASSUME NEW f \in Viewers, View!CallerNext(f)
      PROVE  ViewInv'
  BY <1>2, BeginStep, AcquireStep, DeadlineStep, ConnectStep, ConnectFailsStep, AttachedStep,
     WriteStep, WriteFailsStep, ReplyStep, DisconnectedStep DEF View!CallerNext
<1>3. ASSUME NEW c \in Conns, View!ConnNext(c)
      PROVE  ViewInv'
  BY <1>3, JoinStep, LeaveStep, CloseStep, ChromeDoesStep, ChromeCapturedStep,
     ChromeRefusesStep, UnlinkStep DEF View!ConnNext
<1> QED BY <1>1, <1>2, <1>3 DEF View!Next

\* The invariant of the viewport.
LEMMA ViewInvHolds ==
  ASSUME View!ViewportConstants
  PROVE  View!Spec => []ViewInv
<1>1. View!Init => ViewInv
  BY ViewInvInit
<1>2. ViewInv /\ [View!Next]_View!vars => ViewInv'
  BY ViewInvStep
<1> QED BY <1>1, <1>2, PTL DEF View!Spec

\* Whatever callers time out, are dropped or lose their connection, Chrome has one command
\* of a tab's viewport at a time, the guard's, and one session of an open connection has
\* metrics (ViewportState; capture_screenshot).
THEOREM ViewportOwnedByOne == View!Spec => []ViewportOwned
<1>1. ViewInv => ViewportOwned
  BY DEF ViewInv, ViewportOwned, View!ViewportOwned
<1> QED BY <1>1, ViewInvHolds, ViewportAssumption, PTL

\* The metrics that ViewportState remembers are Chrome's, unless a command failed after
\* it was written and none has succeeded since (complete_command).
THEOREM MetricsAreTrue == View!Spec => []MetricsTrue
<1>1. ViewInv => MetricsTrue
  BY DEF ViewInv, MetricsTrue
<1> QED BY <1>1, ViewInvHolds, ViewportAssumption, PTL
=============================================================================
