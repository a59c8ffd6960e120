--------------------------- MODULE TransportProofs ---------------------------
(* Invariants of the command transport and its refinement of CommandContract. *)
EXTENDS Transport, TLAPS

USE DEF callerVars, cmdVars, idVars, mapVars, frameVars, readerVars, closeVars

-----------------------------------------------------------------------------
(* Type correctness: each action, and under it each group it disturbs. *)

LEMMA CallerTypeStep ==
  ASSUME TypeOK, NEW c \in Callers
  PROVE  CallerNext(c) => TypeOK'
<1> USE DEF TypeOK, TypeCommands, TypeMaps, TypeFrames, TypeTasks, CallerPcs,
            Registered, Awaiting, Kinds, Outcomes, ReaderPcs, ClosePcs, Frames
<1>1. ASSUME NEW k \in Kinds, NEW t \in Tokens \cup {NoToken}, NEW s \in Sessions \cup {NoSession},
             Start(c, k, t, s) PROVE TypeOK'
  <2>1. kind' \in [Callers -> Kinds] /\ tok' \in [Callers -> Tokens \cup {NoToken}]
    BY <1>1 DEF Start
  <2>2. sess' \in [Callers -> Sessions \cup {NoSession}] /\ id' \in [Callers -> Nat]
    BY <1>1 DEF Start
  <2>3. nextId' \in Nat \ {0} /\ token' \in [Tokens -> 0..2]
    BY <1>1 DEF Start
  <2>4. pc' \in [Callers -> CallerPcs] /\ outcome' \in [Callers -> Outcomes]
    BY <1>1 DEF Start, Refuse
  <2>5. TypeMaps' /\ TypeFrames' /\ TypeTasks'
    BY <1>1 DEF Start
  <2>6. QED
    BY <2>1, <2>2, <2>3, <2>4, <2>5
<1>2. ASSUME AssignId(c) PROVE TypeOK'
  <2>1. id' \in [Callers -> Nat] /\ nextId' \in Nat \ {0}
    BY <1>2 DEF AssignId
  <2>2. TypeCommands'
    BY <1>2, <2>1 DEF AssignId, Refuse
  <2>3. TypeMaps' /\ TypeFrames' /\ TypeTasks'
    BY <1>2 DEF AssignId
  <2>4. QED
    BY <2>1, <2>2, <2>3
<1>3. ASSUME Register(c) PROVE TypeOK'
  <2>1. TypeCommands'
    BY <1>3 DEF Register, Refuse
  <2>2. routes' = routes \/ routes' = [s \in Sessions |-> IF kind[c] = "completion" /\ s = sess[c]
                                                   THEN id[c] ELSE routes[s]]
    BY <1>3 DEF Register
  <2>3. routes' \in [Sessions -> Nat]
    BY <1>3, <2>2
  <2>4. TypeMaps'
    BY <1>3, <2>3 DEF Register
  <2>5. TypeFrames' /\ TypeTasks'
    BY <1>3 DEF Register
  <2>6. QED
    BY <2>1, <2>2, <2>3, <2>4, <2>5
<1>4. ASSUME LockWriter(c) PROVE TypeOK'
  <2>1. TypeCommands'
    BY <1>4 DEF LockWriter, Settle
  <2>2. TypeMaps'
    BY <1>4 DEF LockWriter, Settle
  <2>3. TypeFrames' /\ TypeTasks'
    BY <1>4 DEF LockWriter, Settle, WriterWithout
  <2>4. QED
    BY <2>1, <2>2, <2>3
<1>5. ASSUME MarkDispatched(c) PROVE TypeOK'
  BY <1>5 DEF MarkDispatched
<1>6. ASSUME StartSend(c) PROVE TypeOK'
  BY <1>6 DEF StartSend, Frame
<1>7. ASSUME FlushDone(c) PROVE TypeOK'
  BY <1>7 DEF FlushDone, WriterWithout
<1>8. ASSUME WriteError(c) PROVE TypeOK'
  <2>1. TypeCommands'
    BY <1>8 DEF WriteError, WriteEnded, Settle
  <2>2. TypeMaps'
    BY <1>8 DEF WriteError, WriteEnded, Settle
  <2>3. TypeFrames' /\ TypeTasks'
    BY <1>8 DEF WriteError, WriteEnded, Settle, WriterWithout
  <2>4. QED
    BY <2>1, <2>2, <2>3
<1>9. ASSUME Receive(c) PROVE TypeOK'
  BY <1>9 DEF Receive, Settle, WriterWithout
<1>10. ASSUME Timeout(c) PROVE TypeOK'
  <2>1. TypeCommands'
    BY <1>10 DEF Timeout, WriteEnded, Settle
  <2>2. TypeMaps'
    BY <1>10 DEF Timeout, WriteEnded, Settle
  <2>3. TypeFrames' /\ TypeTasks'
    BY <1>10 DEF Timeout, WriteEnded, Settle, WriterWithout
  <2>4. QED
    BY <2>1, <2>2, <2>3
<1>11. ASSUME Cancel(c) PROVE TypeOK'
  BY <1>11 DEF Cancel, Settle, Awaiting, WriterWithout
<1>12. ASSUME Unroute(c) PROVE TypeOK'
  BY <1>12 DEF Unroute, RoutesAfterDrop
<1>13. QED
  BY <1>1, <1>2, <1>3, <1>4, <1>5, <1>6, <1>7, <1>8, <1>9, <1>10, <1>11, <1>12 DEF
     CallerNext

LEMMA ReaderTypeStep ==
  ASSUME TypeOK
  PROVE  ReaderNext => TypeOK'
<1> USE DEF TypeOK, TypeCommands, TypeMaps, TypeFrames, TypeTasks, CallerPcs,
            Registered, Awaiting, Kinds, Outcomes, ReaderPcs, ClosePcs, Frames
<1>1. ASSUME NEW f \in wire, ReaderResponse(f) PROVE TypeOK'
  BY <1>1 DEF ReaderResponse, Deliver, EntriesOf
<1>2. ASSUME NEW s \in Sessions, ReaderDetach(s) PROVE TypeOK'
  BY <1>2 DEF ReaderDetach
<1>3. ASSUME ReaderFailDetached PROVE TypeOK'
  BY <1>3 DEF ReaderFailDetached, Deliver, EntriesOf
<1>4. ASSUME ReaderAutoReply PROVE TypeOK'
  BY <1>4 DEF ReaderAutoReply
<1>5. ASSUME ReaderAutoWrite PROVE TypeOK'
  <2>1. AutoFrame \in Frames
    BY TransportAssumption DEF AutoFrame
  <2>2. Append(sink, AutoFrame) \in Seq(Frames)
    BY <2>1
  <2>3. TypeFrames'
    BY <1>5, <2>2 DEF ReaderAutoWrite, WriterWithout
  <2>4. TypeTasks'
    BY <1>5 DEF ReaderAutoWrite
  <2>5. TypeCommands' /\ TypeMaps'
    BY <1>5 DEF ReaderAutoWrite
  <2>6. QED
    BY <2>3, <2>4, <2>5
<1>6. ASSUME ReaderAutoFail PROVE TypeOK'
  BY <1>6 DEF ReaderAutoFail, WriterWithout
<1>7. ASSUME ReaderStop PROVE TypeOK'
  BY <1>7 DEF ReaderStop
<1>8. ASSUME ReaderUnplug PROVE TypeOK'
  BY <1>8 DEF ReaderUnplug
<1>9. ASSUME ReaderDrain PROVE TypeOK'
  BY <1>9 DEF ReaderDrain, Deliver
<1>10. ASSUME ReaderAborted PROVE TypeOK'
  BY <1>10 DEF ReaderAborted, WriterWithout
<1>11. QED
  BY <1>1, <1>2, <1>3, <1>4, <1>5, <1>6, <1>7, <1>8, <1>9, <1>10 DEF ReaderNext

LEMMA CloseTypeStep ==
  ASSUME TypeOK
  PROVE  CloseNext => TypeOK'
<1> USE DEF TypeOK, TypeCommands, TypeMaps, TypeFrames, TypeTasks, CallerPcs,
            Registered, Awaiting, Kinds, Outcomes, ReaderPcs, ClosePcs, Frames
<1>1. ASSUME CloseBegin PROVE TypeOK'
  BY <1>1 DEF CloseBegin
<1>2. ASSUME CloseLock PROVE TypeOK'
  BY <1>2 DEF CloseLock
<1>3. ASSUME CloseFrameOver PROVE TypeOK'
  BY <1>3 DEF CloseFrameOver, WriterWithout
<1>4. ASSUME CloseCancel PROVE TypeOK'
  BY <1>4 DEF CloseCancel, WriterWithout
<1>5. ASSUME CloseUnplug PROVE TypeOK'
  BY <1>5 DEF CloseUnplug
<1>6. ASSUME CloseDrain PROVE TypeOK'
  BY <1>6 DEF CloseDrain, Deliver
<1>7. ASSUME DropBegin PROVE TypeOK'
  BY <1>7 DEF DropBegin
<1>8. QED
  BY <1>1, <1>2, <1>3, <1>4, <1>5, <1>6, <1>7 DEF CloseNext

LEMMA TypeStep == ASSUME TypeOK PROVE [Next]_vars => TypeOK'
<1>1. ASSUME PushFrame
      PROVE TypeOK'
  <2>1. Head(sink) \in Frames /\ Tail(sink) \in Seq(Frames)
    BY <1>1 DEF PushFrame, TypeOK, TypeFrames
  <2>2. TypeFrames'
    BY <1>1, <2>1 DEF PushFrame, TypeOK, TypeFrames
  <2>3. TypeCommands' /\ TypeMaps' /\ TypeTasks'
    BY <1>1 DEF PushFrame, TypeOK, TypeCommands, TypeMaps, TypeTasks
  <2>4. QED
    BY <2>2, <2>3 DEF TypeOK
<1>2. CASE UNCHANGED vars
  BY <1>2 DEF vars, TypeOK, TypeCommands, TypeMaps, TypeFrames, TypeTasks
<1>3. CASE \E c \in Callers : CallerNext(c)
  BY <1>3, CallerTypeStep
<1>4. CASE ReaderNext
  BY <1>4, ReaderTypeStep
<1>5. CASE CloseNext
  BY <1>5, CloseTypeStep
<1>6. CASE Finished
  BY <1>2, <1>6 DEF Finished
<1>7. QED
  BY <1>1, <1>2, <1>3, <1>4, <1>5, <1>6 DEF Next

\* Every variable of the transport keeps its type.
THEOREM TypeCorrect == Spec => []TypeOK
<1>1. Init => TypeOK
  <2> SUFFICES ASSUME Init PROVE TypeOK
    OBVIOUS
  <2>1. TypeCommands
    BY DEF Init, TypeCommands, CallerPcs, Kinds, Outcomes
  <2>2. TypeMaps
    BY DEF Init, TypeMaps
  <2>3. TypeFrames
    BY DEF Init, TypeFrames
  <2>4. TypeTasks
    BY DEF Init, TypeTasks, ReaderPcs, ClosePcs
  <2>5. QED
    BY <2>1, <2>2, <2>3, <2>4 DEF TypeOK
<1>2. QED
  BY <1>1, TypeStep, PTL DEF Spec

-----------------------------------------------------------------------------
(* The pending map: who owns an entry, and why a drained map stays empty. *)

\* Ids come from one counter, so no two commands share one.
IdsUnique ==
  /\ \A c \in Callers : id[c] < nextId
  /\ \A c \in Callers : pc[c] \in {"idle", "claimed"} => id[c] = 0
  /\ \A c \in Callers : pc[c] \in Registered \cup {"numbered"} => id[c] # 0
  /\ \A c, d \in Callers : id[c] = id[d] /\ id[c] # 0 => c = d

\* A map entry belongs to a future that still owns its registration.
PendingOwned ==
  \A p \in pending : p.id = id[p.to] /\ pc[p.to] \in Registered

\* Both ends of the transport store closed before they drain the map.
ClosedFirst ==
  rpc \in {"stopped", "unplugged", "finished"} \/ kpc # "open" => closed

MapInv == IdsUnique /\ PendingOwned /\ ClosedFirst /\ WaiterCovered /\ DrainedStaysEmpty

LEMMA CallerMapStep ==
  ASSUME TypeOK, MapInv, NEW c \in Callers
  PROVE  CallerNext(c) => MapInv'
<1> USE DEF MapInv, IdsUnique, PendingOwned, ClosedFirst, WaiterCovered,
            DrainedStaysEmpty, IsClosed, Registered, TypeOK, TypeCommands, TypeMaps
<1>1. ASSUME NEW k \in Kinds, NEW t \in Tokens \cup {NoToken}, NEW s \in Sessions \cup {NoSession},
             Start(c, k, t, s) PROVE MapInv'
  BY <1>1 DEF Start, Refuse
<1>2. ASSUME AssignId(c) PROVE MapInv'
  BY <1>2 DEF AssignId, Refuse
<1>3. ASSUME Register(c) PROVE MapInv'
  BY <1>3 DEF Register, Refuse, MayRegister
<1>4. ASSUME LockWriter(c) PROVE MapInv'
  BY <1>4 DEF LockWriter, Settle
<1>5. ASSUME MarkDispatched(c) PROVE MapInv'
  BY <1>5 DEF MarkDispatched
<1>6. ASSUME StartSend(c) PROVE MapInv'
  BY <1>6 DEF StartSend
<1>7. ASSUME FlushDone(c) PROVE MapInv'
  BY <1>7 DEF FlushDone
<1>8. ASSUME WriteError(c) PROVE MapInv'
  BY <1>8 DEF WriteError, WriteEnded, Settle
<1>9. ASSUME Receive(c) PROVE MapInv'
  BY <1>9 DEF Receive, Settle
<1>10. ASSUME Timeout(c) PROVE MapInv'
  BY <1>10 DEF Timeout, WriteEnded, Settle, Awaiting
<1>11. ASSUME Cancel(c) PROVE MapInv'
  BY <1>11 DEF Cancel, Settle, Awaiting
<1>12. ASSUME Unroute(c) PROVE MapInv'
  BY <1>12 DEF Unroute
<1>13. QED
  BY <1>1, <1>2, <1>3, <1>4, <1>5, <1>6, <1>7, <1>8, <1>9, <1>10, <1>11, <1>12 DEF
     CallerNext

LEMMA ReaderMapStep ==
  ASSUME TypeOK, MapInv
  PROVE  ReaderNext => MapInv'
<1> USE DEF MapInv, IdsUnique, PendingOwned, ClosedFirst, WaiterCovered,
            DrainedStaysEmpty, IsClosed, Registered, TypeOK, TypeCommands, TypeMaps
<1>1. ASSUME NEW f \in wire, ReaderResponse(f) PROVE MapInv'
  BY <1>1 DEF ReaderResponse, Deliver, EntriesOf
<1>2. ASSUME NEW s \in Sessions, ReaderDetach(s) PROVE MapInv'
  BY <1>2 DEF ReaderDetach
<1>3. ASSUME ReaderFailDetached PROVE MapInv'
  BY <1>3 DEF ReaderFailDetached, Deliver, EntriesOf
<1>4. ASSUME ReaderAutoReply PROVE MapInv'
  BY <1>4 DEF ReaderAutoReply
<1>5. ASSUME ReaderAutoWrite PROVE MapInv'
  BY <1>5 DEF ReaderAutoWrite
<1>6. ASSUME ReaderAutoFail PROVE MapInv'
  BY <1>6 DEF ReaderAutoFail
<1>7. ASSUME ReaderStop PROVE MapInv'
  BY <1>7 DEF ReaderStop
<1>8. ASSUME ReaderUnplug PROVE MapInv'
  BY <1>8 DEF ReaderUnplug
<1>9. ASSUME ReaderDrain PROVE MapInv'
  BY <1>9 DEF ReaderDrain, Deliver
<1>10. ASSUME ReaderAborted PROVE MapInv'
  BY <1>10 DEF ReaderAborted
<1>11. QED
  BY <1>1, <1>2, <1>3, <1>4, <1>5, <1>6, <1>7, <1>8, <1>9, <1>10 DEF ReaderNext

LEMMA CloseMapStep ==
  ASSUME TypeOK, MapInv
  PROVE  CloseNext => MapInv'
<1> USE DEF MapInv, IdsUnique, PendingOwned, ClosedFirst, WaiterCovered,
            DrainedStaysEmpty, IsClosed, Registered, TypeOK, TypeCommands, TypeMaps
<1>1. ASSUME CloseBegin PROVE MapInv'
  BY <1>1 DEF CloseBegin
<1>2. ASSUME CloseLock PROVE MapInv'
  BY <1>2 DEF CloseLock
<1>3. ASSUME CloseFrameOver PROVE MapInv'
  BY <1>3 DEF CloseFrameOver
<1>4. ASSUME CloseCancel PROVE MapInv'
  BY <1>4 DEF CloseCancel
<1>5. ASSUME CloseUnplug PROVE MapInv'
  BY <1>5 DEF CloseUnplug
<1>6. ASSUME CloseDrain PROVE MapInv'
  BY <1>6 DEF CloseDrain, Deliver
<1>7. ASSUME DropBegin PROVE MapInv'
  BY <1>7 DEF DropBegin
<1>8. QED
  BY <1>1, <1>2, <1>3, <1>4, <1>5, <1>6, <1>7 DEF CloseNext

LEMMA MapStep == ASSUME TypeOK, MapInv PROVE [Next]_vars => MapInv'
<1> USE DEF MapInv, IdsUnique, PendingOwned, ClosedFirst, WaiterCovered, DrainedStaysEmpty
<1>1. CASE UNCHANGED vars
  BY <1>1 DEF vars
<1>2. ASSUME PushFrame PROVE MapInv'
  BY <1>2 DEF PushFrame
<1>3. CASE \E c \in Callers : CallerNext(c)
  BY <1>3, CallerMapStep
<1>4. CASE ReaderNext
  BY <1>4, ReaderMapStep
<1>5. CASE CloseNext
  BY <1>5, CloseMapStep
<1>6. CASE Finished
  BY <1>1, <1>6 DEF Finished
<1>7. QED
  BY <1>1, <1>2, <1>3, <1>4, <1>5, <1>6 DEF Next

LEMMA MapInit == Init => MapInv
  BY DEF Init, MapInv, IdsUnique, PendingOwned, ClosedFirst, WaiterCovered,
         DrainedStaysEmpty, Registered

LEMMA MapInvariant == Spec => []MapInv
<1>1. QED
  BY MapInit, MapStep, TypeCorrect, PTL DEF Spec

\* A caller that waits for a reply can still get one, for any number of callers,
\* sessions and tokens and any interleaving with the reader and close().
THEOREM NoLostWaiter == Spec => []WaiterCovered
<1>1. MapInv => WaiterCovered
  BY DEF MapInv
<1>2. QED
  BY <1>1, MapInvariant, PTL

\* After fail_pending no registration is added, so nothing waits on a dead map.
THEOREM NoLateRegistration == Spec => []DrainedStaysEmpty
<1>1. MapInv => DrainedStaysEmpty
  BY DEF MapInv
<1>2. QED
  BY <1>1, MapInvariant, PTL

\* Nobody waits for a reply that no one is left to deliver: the three facts the run
\* transport_commands checks together (prepare_command, fail_pending, Registration's drop).
THEOREM NobodyWaitsForever == Spec => []NoWaiterLost
<1>1. TypeOK /\ WaiterCovered /\ DrainedStaysEmpty => NoWaiterLost
  BY DEF NoWaiterLost
<1>2. QED
  BY <1>1, TypeCorrect, NoLostWaiter, NoLateRegistration, PTL

-----------------------------------------------------------------------------
(* The completion routes of the sessions. *)

\* A native completion names its session, and the reader fails one command at a time.
RoutesOwned ==
  /\ \A c \in Callers : kind[c] = "completion" => sess[c] \in Sessions
  /\ rpc # "detach" => detaching = 0

\* Whose route a session's is: a command that has not given it back.
Routed(s) ==
  routes[s] # 0 =>
    \E c \in Callers :
      /\ kind[c] = "completion" /\ sess[c] = s /\ id[c] = routes[s]
      /\ pc[c] \in Registered \cup {"unrouting"}

\* A pending native completion is one that a detach event finds.
Found(c) ==
  kind[c] = "completion" /\ [id |-> id[c], to |-> c] \in pending =>
    routes[sess[c]] = id[c] \/ detaching = id[c]

RouteInv ==
  RoutesOwned /\ (\A c \in Callers : Found(c)) /\ (\A s \in Sessions : Routed(s))

\* A step that touches neither routes nor ids keeps them while it adds no entry, and no
\* command leaves but by way of "unrouting".
LEMMA RoutesKept ==
  ASSUME TypeOK, RouteInv, UNCHANGED <<kind, sess, id, routes, detaching>>,
         rpc' = "detach" <=> rpc = "detach", pending' \subseteq pending,
         \A c \in Callers : kind[c] = "completion" /\ pc[c] \in Registered \cup {"unrouting"} =>
           pc'[c] \in Registered \cup {"unrouting"}
  PROVE  RouteInv'
<1>1. RoutesOwned'
  BY DEF RouteInv, RoutesOwned
<1>2. ASSUME NEW c \in Callers PROVE Found(c)'
  BY DEF RouteInv, Found
<1>3. ASSUME NEW s \in Sessions PROVE Routed(s)'
  BY DEF RouteInv, Routed
<1> QED
  BY <1>1, <1>2, <1>3 DEF RouteInv

LEMMA CallerRouteStep ==
  ASSUME TypeOK, MapInv, RouteInv, NEW c \in Callers
  PROVE  CallerNext(c) => RouteInv'
<1> USE DEF TypeOK, TypeCommands, TypeMaps, Registered
<1>1. ASSUME NEW k \in Kinds, NEW t \in Tokens \cup {NoToken}, NEW s \in Sessions \cup {NoSession},
             Start(c, k, t, s) PROVE RouteInv'
  <2>1. /\ pc[c] = "idle" /\ UNCHANGED <<id, routes, pending, detaching, rpc>>
        /\ kind' = [kind EXCEPT ![c] = k] /\ sess' = [sess EXCEPT ![c] = s]
        /\ k = "completion" => s \in Sessions
        /\ \A d \in Callers \ {c} : pc'[d] = pc[d]
    BY <1>1 DEF Start, Refuse
  <2>2. \A p \in pending : p.to # c
    BY <2>1 DEF MapInv, PendingOwned
  <2>3. RoutesOwned'
    BY <2>1 DEF RouteInv, RoutesOwned
  <2>4. ASSUME NEW d \in Callers PROVE Found(d)'
    BY <2>1, <2>2 DEF RouteInv, Found
  <2>5. ASSUME NEW q \in Sessions PROVE Routed(q)'
    BY <2>1 DEF RouteInv, Routed
  <2> QED
    BY <2>3, <2>4, <2>5 DEF RouteInv
<1>2. ASSUME AssignId(c) PROVE RouteInv'
  <2>1. /\ pc[c] = "claimed" /\ UNCHANGED <<kind, sess, routes, pending, detaching, rpc>>
        /\ \A d \in Callers \ {c} : pc'[d] = pc[d] /\ id'[d] = id[d]
    BY <1>2 DEF AssignId, Refuse
  <2>2. \A p \in pending : p.to # c
    BY <2>1 DEF MapInv, PendingOwned
  <2>3. RoutesOwned'
    BY <2>1 DEF RouteInv, RoutesOwned
  <2>4. ASSUME NEW d \in Callers PROVE Found(d)'
    BY <2>1, <2>2 DEF RouteInv, Found
  <2>5. ASSUME NEW q \in Sessions PROVE Routed(q)'
    BY <2>1 DEF RouteInv, Routed
  <2> QED
    BY <2>3, <2>4, <2>5 DEF RouteInv
<1>3. ASSUME Register(c) PROVE RouteInv'
  <2>0. pc[c] = "numbered" /\ id[c] # 0 /\ UNCHANGED <<kind, sess, id, detaching, rpc>>
    BY <1>3 DEF Register, MapInv, IdsUnique
  <2>1. CASE MayRegister(c)
    <3>1. /\ pending' = {p \in pending : p.id # id[c]} \cup {[id |-> id[c], to |-> c]}
          /\ routes' = [s \in Sessions |->
                          IF kind[c] = "completion" /\ s = sess[c] THEN id[c] ELSE routes[s]]
          /\ pc' = [pc EXCEPT ![c] = "queued"]
          /\ kind[c] = "completion" => routes[sess[c]] = 0
      BY <1>3, <2>1 DEF Register, MayRegister
    <3>2. RoutesOwned'
      BY <2>0 DEF RouteInv, RoutesOwned
    <3>3. ASSUME NEW d \in Callers PROVE Found(d)'
      <4>1. CASE d = c
        BY <2>0, <3>1, <4>1 DEF RouteInv, RoutesOwned, Found
      <4>2. CASE d # c
        <5>1. [id |-> id[d], to |-> d] \in pending' => [id |-> id[d], to |-> d] \in pending
          BY <3>1, <4>2
        <5>2. [id |-> id[d], to |-> d] \in pending => id[d] # 0
          BY DEF MapInv, PendingOwned, IdsUnique
        <5> QED
          BY <2>0, <3>1, <5>1, <5>2 DEF RouteInv, RoutesOwned, Found
      <4> QED
        BY <4>1, <4>2
    <3>4. ASSUME NEW q \in Sessions PROVE Routed(q)'
      <4>1. CASE kind[c] = "completion" /\ q = sess[c]
        BY <2>0, <3>1, <4>1 DEF Routed
      <4>2. CASE ~(kind[c] = "completion" /\ q = sess[c])
        BY <2>0, <3>1, <4>2 DEF RouteInv, Routed
      <4> QED
        BY <4>1, <4>2
    <3> QED
      BY <3>2, <3>3, <3>4 DEF RouteInv
  <2>2. CASE ~MayRegister(c)
    BY <1>3, <2>0, <2>2, RoutesKept DEF Register, Refuse
  <2> QED
    BY <2>1, <2>2
<1>4. ASSUME LockWriter(c) PROVE RouteInv'
  BY <1>4, RoutesKept DEF LockWriter, Settle
<1>5. ASSUME MarkDispatched(c) PROVE RouteInv'
  BY <1>5, RoutesKept DEF MarkDispatched
<1>6. ASSUME StartSend(c) PROVE RouteInv'
  BY <1>6, RoutesKept DEF StartSend
<1>7. ASSUME FlushDone(c) PROVE RouteInv'
  BY <1>7, RoutesKept DEF FlushDone
<1>8. ASSUME WriteError(c) PROVE RouteInv'
  BY <1>8, RoutesKept DEF WriteError, WriteEnded, Settle
<1>9. ASSUME Receive(c) PROVE RouteInv'
  BY <1>9, RoutesKept DEF Receive, Settle
<1>10. ASSUME Timeout(c) PROVE RouteInv'
  BY <1>10, RoutesKept DEF Timeout, WriteEnded, Settle
<1>11. ASSUME Cancel(c) PROVE RouteInv'
  BY <1>11, RoutesKept DEF Cancel, Settle
<1>12. ASSUME Unroute(c) PROVE RouteInv'
  <2>1. /\ pc[c] = "unrouting" /\ UNCHANGED <<kind, sess, id, pending, detaching, rpc>>
        /\ routes' = [s \in Sessions |-> IF s = sess[c] /\ routes[s] = id[c] THEN 0 ELSE routes[s]]
        /\ pc' = [pc EXCEPT ![c] = "done"]
    BY <1>12 DEF Unroute, RoutesAfterDrop
  <2>2. RoutesOwned'
    BY <2>1 DEF RouteInv, RoutesOwned
  <2>3. ASSUME NEW d \in Callers PROVE Found(d)'
    <3>1. [id |-> id[d], to |-> d] \in pending => d # c /\ id[d] # 0
      BY <2>1 DEF MapInv, PendingOwned, IdsUnique
    <3>2. [id |-> id[d], to |-> d] \in pending => id[d] # id[c]
      BY <3>1 DEF MapInv, IdsUnique
    <3> QED
      BY <2>1, <3>2 DEF RouteInv, RoutesOwned, Found
  <2>4. ASSUME NEW q \in Sessions PROVE Routed(q)'
    BY <2>1 DEF RouteInv, Routed
  <2> QED
    BY <2>2, <2>3, <2>4 DEF RouteInv
<1>13. QED
  BY <1>1, <1>2, <1>3, <1>4, <1>5, <1>6, <1>7, <1>8, <1>9, <1>10, <1>11, <1>12 DEF
     CallerNext

LEMMA ReaderRouteStep ==
  ASSUME TypeOK, MapInv, RouteInv
  PROVE  ReaderNext => RouteInv'
<1>1. ASSUME NEW f \in wire, ReaderResponse(f) PROVE RouteInv'
  BY <1>1, RoutesKept DEF ReaderResponse, Deliver, EntriesOf
<1>2. ASSUME NEW s \in Sessions, ReaderDetach(s) PROVE RouteInv'
  <2>1. /\ UNCHANGED <<pc, kind, sess, id, pending>> /\ detaching = 0
        /\ routes' = [routes EXCEPT ![s] = 0] /\ detaching' = routes[s]
        /\ routes \in [Sessions -> Nat]
        /\ rpc' # "detach" => routes[s] = 0
    BY <1>2 DEF ReaderDetach, RouteInv, RoutesOwned, TypeOK, TypeMaps
  <2>2. RoutesOwned'
    BY <2>1 DEF RouteInv, RoutesOwned
  <2>3. ASSUME NEW d \in Callers PROVE Found(d)'
    <3>1. [id |-> id[d], to |-> d] \in pending => id[d] # 0
      BY DEF MapInv, PendingOwned, IdsUnique
    <3> QED
      BY <2>1, <3>1 DEF RouteInv, RoutesOwned, Found
  <2>4. ASSUME NEW q \in Sessions PROVE Routed(q)'
    BY <2>1 DEF RouteInv, Routed
  <2> QED
    BY <2>2, <2>3, <2>4 DEF RouteInv
<1>3. ASSUME ReaderFailDetached PROVE RouteInv'
  <2>1. /\ UNCHANGED <<pc, kind, sess, id, routes>> /\ detaching' = 0
        /\ pending' = {p \in pending : p.id # detaching}
    BY <1>3 DEF ReaderFailDetached, Deliver, EntriesOf
  <2>2. RoutesOwned'
    BY <2>1 DEF RouteInv, RoutesOwned
  <2>3. ASSUME NEW d \in Callers PROVE Found(d)'
    BY <2>1 DEF RouteInv, Found
  <2>4. ASSUME NEW q \in Sessions PROVE Routed(q)'
    BY <2>1 DEF RouteInv, Routed
  <2> QED
    BY <2>2, <2>3, <2>4 DEF RouteInv
<1>4. ASSUME ReaderAutoReply PROVE RouteInv'
  BY <1>4, RoutesKept DEF ReaderAutoReply
<1>5. ASSUME ReaderAutoWrite PROVE RouteInv'
  BY <1>5, RoutesKept DEF ReaderAutoWrite
<1>6. ASSUME ReaderAutoFail PROVE RouteInv'
  BY <1>6, RoutesKept DEF ReaderAutoFail
<1>7. ASSUME ReaderStop PROVE RouteInv'
  BY <1>7, RoutesKept DEF ReaderStop
<1>8. ASSUME ReaderUnplug PROVE RouteInv'
  BY <1>8, RoutesKept DEF ReaderUnplug
<1>9. ASSUME ReaderDrain PROVE RouteInv'
  BY <1>9, RoutesKept DEF ReaderDrain, Deliver
<1>10. ASSUME ReaderAborted PROVE RouteInv'
  BY <1>10, RoutesKept DEF ReaderAborted
<1>11. QED
  BY <1>1, <1>2, <1>3, <1>4, <1>5, <1>6, <1>7, <1>8, <1>9, <1>10 DEF ReaderNext

LEMMA RouteStep == ASSUME TypeOK, MapInv, RouteInv PROVE [Next]_vars => RouteInv'
<1>1. CASE UNCHANGED vars
  BY <1>1, RoutesKept DEF vars
<1>2. ASSUME PushFrame PROVE RouteInv'
  BY <1>2, RoutesKept DEF PushFrame
<1>3. CASE \E c \in Callers : CallerNext(c)
  BY <1>3, CallerRouteStep
<1>4. CASE ReaderNext
  BY <1>4, ReaderRouteStep
<1>5. CASE CloseNext
  BY <1>5, RoutesKept DEF CloseNext, CloseBegin, CloseLock, CloseFrameOver, CloseCancel,
     CloseUnplug, CloseDrain, DropBegin, Deliver
<1>6. CASE Finished
  BY <1>1, <1>6 DEF Finished
<1>7. QED
  BY <1>1, <1>2, <1>3, <1>4, <1>5, <1>6 DEF Next

\* A session's detach event finds the native completion that is pending for it, and no
\* route outlives its command, however detaches, replies, drops and drains interleave
\* (prepare_command, PendingRegistration::drop, reader.rs detachedFromTarget).
THEOREM RoutesAgree == Spec => []RoutesMatchPending
<1>1. Init => RouteInv
  BY DEF Init, RouteInv, RoutesOwned, Found, Routed
<1>2. RouteInv => RoutesMatchPending
  BY DEF RouteInv, Found, Routed, RoutesMatchPending
<1>3. QED
  BY <1>1, <1>2, RouteStep, TypeCorrect, MapInvariant, PTL DEF Spec

-----------------------------------------------------------------------------
(* Frames, tokens and replies. *)

FrameTrue(f) ==
  IF f.from = ReaderTask THEN f.id > AutoBase
  ELSE f = Frame(f.from) /\ f.id # 0

\* A frame in the sink or beyond is the one its author made.
FramesTrue ==
  /\ \A f \in AllFrames : FrameTrue(f)
  /\ answered \subseteq wire
  /\ rpc \in {"autoLock", "autoSend"} => autos > 0

\* How far a caller must have come for its frame to exist, and to have ended.
CallerStages ==
  \A c \in Callers :
    /\ Written(c) => pc[c] \in {"flushing", "waiting", "unrouting", "done"}
    /\ outcome[c] = "none" <=> pc[c] \notin {"unrouting", "done"}
    /\ outcome[c] \in {"refused", "blocked"} => ~Written(c)

\* A caller that went past the claim holds its token.
Holds(c) == pc[c] = "claimed" \/ id[c] # 0

TokensHeld ==
  /\ \A c \in Callers : Holds(c) /\ tok[c] \in Tokens => token[tok[c]] # 0
  /\ \A c, d \in Callers : c # d /\ Holds(c) /\ Holds(d) /\ tok[c] = tok[d] => tok[c] = NoToken
  /\ \A c \in Callers : (pc[c] \in {"marked", "flushing"} \/ Written(c)) /\ tok[c] # NoToken
       => token[tok[c]] = 2

\* Below the automatic ids a reply can only be matched to its own frame.
ReplyInv == nextId <= AutoBase + 1 => ReplyIsOwn

DispatchInv == FramesTrue /\ CallerStages /\ TokensHeld /\ ReplyInv

\* start_send adds one frame; flushing moves frames without losing one.
LEMMA AppendFrames ==
  ASSUME TypeFrames, NEW f \in Frames, sink' = Append(sink, f), wire' = wire
  PROVE  AllFrames' = AllFrames \cup {f}
<1>1. Len(sink') = Len(sink) + 1 /\ sink'[Len(sink) + 1] = f
  BY DEF TypeFrames
<1>2. \A k \in 1..Len(sink) : sink'[k] = sink[k]
  BY DEF TypeFrames
<1>3. Len(sink) \in Nat
  BY DEF TypeFrames
<1>4. QED
  BY <1>1, <1>2, <1>3 DEF AllFrames

LEMMA FramesTyped == TypeFrames => AllFrames \subseteq Frames
  BY DEF TypeFrames, AllFrames

LEMMA PushFrames == ASSUME TypeFrames, PushFrame PROVE AllFrames' = AllFrames
<1>1. sink # <<>> /\ sink' = Tail(sink) /\ wire' = wire \cup {Head(sink)}
  BY DEF PushFrame
<1>2. Len(sink) \in Nat \ {0} /\ Head(sink) = sink[1] /\ Len(sink') = Len(sink) - 1
  BY <1>1 DEF TypeFrames
<1>3. \A k \in 1..Len(sink') : sink'[k] = sink[k + 1]
  BY <1>1, <1>2 DEF TypeFrames
<1>4. \A k \in 2..Len(sink) : k - 1 \in 1..Len(sink') /\ sink'[k - 1] = sink[k]
  BY <1>2, <1>3
<1>5. ASSUME NEW f \in AllFrames PROVE f \in AllFrames'
  <2>1. CASE f \in wire
    BY <1>1, <2>1 DEF AllFrames
  <2>2. ASSUME NEW k \in 1..Len(sink), f = sink[k] PROVE f \in AllFrames'
    <3>1. CASE k = 1
      BY <1>1, <1>2, <2>2, <3>1 DEF AllFrames
    <3>2. CASE k # 1
      BY <1>4, <2>2, <3>2, <1>2 DEF AllFrames
    <3>3. QED
      BY <3>1, <3>2
  <2>3. QED
    BY <2>1, <2>2 DEF AllFrames
<1>6. ASSUME NEW f \in AllFrames' PROVE f \in AllFrames
  BY <1>1, <1>2, <1>3 DEF AllFrames
<1>7. QED
  BY <1>5, <1>6

LEMMA CallerDispatchStep ==
  ASSUME TypeOK, MapInv, DispatchInv, NEW c \in Callers
  PROVE  CallerNext(c) => DispatchInv'
<1> USE TransportAssumption DEF DispatchInv, FramesTrue, FrameTrue, Frame,
            CallerStages, TokensHeld, Holds, ReplyInv, ReplyIsOwn, Written, MapInv,
            IdsUnique, PendingOwned, Registered, TypeOK, TypeCommands, TypeMaps,
            TypeFrames, Frames
<1>1. ASSUME NEW k \in Kinds, NEW t \in Tokens \cup {NoToken}, NEW s \in Sessions \cup {NoSession},
             Start(c, k, t, s) PROVE DispatchInv'
  <2>1. AllFrames' = AllFrames
    BY <1>1 DEF Start, AllFrames
  <2>2. FramesTrue'
    BY <1>1, <2>1 DEF Start, Refuse, CanClaim
  <2>3. CallerStages'
    BY <1>1, <2>1 DEF Start, Refuse, CanClaim
  <2>4. TokensHeld'
    BY <1>1, <2>1 DEF Start, Refuse, CanClaim
  <2>5. ReplyInv'
    BY <1>1, <2>1 DEF Start, Refuse, CanClaim
  <2>6. QED
    BY <2>2, <2>3, <2>4, <2>5
<1>2. ASSUME AssignId(c) PROVE DispatchInv'
  <2>1. /\ AllFrames' = AllFrames /\ wire' = wire /\ answered' = answered /\ mail' = mail
        /\ rpc' = rpc /\ autos' = autos
    BY <1>2 DEF AssignId, AllFrames
  <2>2. pc[c] = "claimed" /\ id[c] = 0
    BY <1>2 DEF AssignId
  <2>3. \A f \in AllFrames : f \in Frames /\ f.from # c
    BY <2>2, FramesTyped
  <2>4. \A d \in Callers \ {c} : /\ id'[d] = id[d] /\ pc'[d] = pc[d]
                                /\ outcome'[d] = outcome[d]
    BY <1>2 DEF AssignId, Refuse
  <2>5. \/ pc'[c] = "numbered" /\ outcome'[c] = outcome[c]
        \/ pc'[c] = "done" /\ outcome'[c] = "refused"
    <3>1. CASE IsClosed
      BY <1>2, <3>1 DEF AssignId, Refuse
    <3>2. CASE ~IsClosed
      BY <1>2, <3>2 DEF AssignId
    <3>3. QED
      BY <3>1, <3>2
  <2>6. ~Written(c) /\ ~Written(c)'
    BY <2>1, <2>3
  <2>7. \A d \in Callers \ {c} : Written(d)' <=> Written(d)
    BY <2>1, <2>4
  <2>8. kind' = kind /\ tok' = tok /\ token' = token
    BY <1>2 DEF AssignId
  <2>9. FramesTrue'
    BY <2>1, <2>3, <2>4
  <2>10. CallerStages'
    BY <2>2, <2>4, <2>5, <2>6, <2>7
  <2>11. TokensHeld'
    <3>1. \A d \in Callers : Holds(d)' => Holds(d)
      BY <2>2, <2>4
    <3>2. \A d \in Callers : Written(d)' => Written(d)
      BY <2>6, <2>7
    <3>3. \A d \in Callers : pc'[d] \in {"marked", "flushing"} => pc[d] = pc'[d]
      BY <2>4, <2>5
    <3>4. QED
      BY <3>1, <3>2, <3>3, <2>8
  <2>12. ReplyInv'
    <3>1. nextId' <= AutoBase + 1 => nextId <= AutoBase + 1
      BY <1>2 DEF AssignId
    <3>2. nextId' <= AutoBase + 1 => mail[c] # "reply"
      <4>1. Frame(c) \notin answered
        BY <2>3 DEF AllFrames
      <4>2. QED
        BY <3>1, <4>1
    <3>3. outcome'[c] # "reply"
      BY <2>5, <2>2
    <3>4. QED
      BY <3>1, <3>2, <3>3, <2>1, <2>4
  <2>13. QED
    BY <2>9, <2>10, <2>11, <2>12
<1>3. ASSUME Register(c) PROVE DispatchInv'
  <2>1. AllFrames' = AllFrames
    BY <1>3 DEF Register, AllFrames
  <2>2. FramesTrue'
    BY <1>3, <2>1 DEF Register, Refuse, MayRegister
  <2>3. CallerStages'
    <3>1. \A d \in Callers : Written(d)' <=> Written(d)
      BY <1>3, <2>1 DEF Register
    <3> HIDE DEF MapInv, Written, FramesTrue, TokensHeld, ReplyInv
    <3>2. QED
      BY <1>3, <3>1 DEF Register, Refuse, MayRegister
  <2>4. TokensHeld'
    BY <1>3, <2>1 DEF Register, Refuse, MayRegister
  <2>5. ReplyInv'
    BY <1>3, <2>1 DEF Register, Refuse, MayRegister
  <2>6. QED
    BY <2>2, <2>3, <2>4, <2>5
<1>4. ASSUME LockWriter(c) PROVE DispatchInv'
  <2>1. AllFrames' = AllFrames
    BY <1>4 DEF LockWriter, AllFrames
  <2>2. FramesTrue'
    BY <1>4, <2>1 DEF LockWriter, Settle
  <2>3. CallerStages'
    BY <1>4, <2>1 DEF LockWriter, Settle
  <2>4. TokensHeld'
    BY <1>4, <2>1 DEF LockWriter, Settle
  <2>5. ReplyInv'
    BY <1>4, <2>1 DEF LockWriter, Settle
  <2>6. QED
    BY <2>2, <2>3, <2>4, <2>5
<1>5. ASSUME MarkDispatched(c) PROVE DispatchInv'
  <2>1. AllFrames' = AllFrames
    BY <1>5 DEF MarkDispatched, AllFrames
  <2>2. QED
    BY <1>5, <2>1 DEF MarkDispatched
<1>6. ASSUME StartSend(c) PROVE DispatchInv'
  <2>1. AllFrames' = AllFrames \cup {Frame(c)}
    BY <1>6, AppendFrames DEF StartSend
  <2>2. QED
    BY <1>6, <2>1 DEF StartSend
<1>7. ASSUME FlushDone(c) PROVE DispatchInv'
  <2>1. AllFrames' = AllFrames
    BY <1>7 DEF FlushDone, AllFrames
  <2>2. QED
    BY <1>7, <2>1 DEF FlushDone
<1>8. ASSUME WriteError(c) PROVE DispatchInv'
  <2>1. AllFrames' = AllFrames
    BY <1>8 DEF WriteError, AllFrames
  <2>2. FramesTrue'
    BY <1>8, <2>1 DEF WriteError, WriteEnded, Settle
  <2>3. CallerStages'
    <3>1. \A d \in Callers : Written(d)' <=> Written(d)
      BY <1>8, <2>1 DEF WriteError
    <3> HIDE DEF MapInv, Written, FramesTrue, TokensHeld, ReplyInv
    <3>2. QED
      BY <1>8, <3>1 DEF WriteError, WriteEnded, Settle
  <2>4. TokensHeld'
    BY <1>8, <2>1 DEF WriteError, WriteEnded, Settle
  <2>5. ReplyInv'
    BY <1>8, <2>1 DEF WriteError, WriteEnded, Settle
  <2>6. QED
    BY <2>2, <2>3, <2>4, <2>5
<1>9. ASSUME Receive(c) PROVE DispatchInv'
  <2>1. AllFrames' = AllFrames
    BY <1>9 DEF Receive, AllFrames
  <2>2. QED
    BY <1>9, <2>1 DEF Receive, Settle
<1>10. ASSUME Timeout(c) PROVE DispatchInv'
  <2>1. AllFrames' = AllFrames
    BY <1>10 DEF Timeout, AllFrames
  <2>2. FramesTrue'
    BY <1>10, <2>1 DEF Timeout, WriteEnded, Settle, Awaiting
  <2>3. CallerStages'
    <3>1. \A d \in Callers : Written(d)' <=> Written(d)
      BY <1>10, <2>1 DEF Timeout
    <3> HIDE DEF MapInv, Written, FramesTrue, TokensHeld, ReplyInv
    <3>2. QED
      BY <1>10, <3>1 DEF Timeout, WriteEnded, Settle, Awaiting
  <2>4. TokensHeld'
    BY <1>10, <2>1 DEF Timeout, WriteEnded, Settle, Awaiting
  <2>5. ReplyInv'
    BY <1>10, <2>1 DEF Timeout, WriteEnded, Settle, Awaiting
  <2>6. QED
    BY <2>2, <2>3, <2>4, <2>5
<1>11. ASSUME Cancel(c) PROVE DispatchInv'
  <2>1. AllFrames' = AllFrames
    BY <1>11 DEF Cancel, AllFrames
  <2>2. QED
    BY <1>11, <2>1 DEF Cancel, Settle, Awaiting
<1>12. ASSUME Unroute(c) PROVE DispatchInv'
  <2>1. AllFrames' = AllFrames
    BY <1>12 DEF Unroute, AllFrames
  <2>2. FramesTrue'
    BY <1>12, <2>1 DEF Unroute
  <2>3. CallerStages'
    <3>1. pc[c] = "unrouting" /\ pc' = [pc EXCEPT ![c] = "done"] /\ outcome' = outcome
      BY <1>12 DEF Unroute
    <3>2. \A d \in Callers : Written(d)' <=> Written(d)
      BY <1>12, <2>1 DEF Unroute
    <3>3. QED
      BY <3>1, <3>2
  <2>4. TokensHeld'
    BY <1>12, <2>1 DEF Unroute
  <2>5. ReplyInv'
    BY <1>12, <2>1 DEF Unroute
  <2>6. QED
    BY <2>2, <2>3, <2>4, <2>5
<1>13. QED
  BY <1>1, <1>2, <1>3, <1>4, <1>5, <1>6, <1>7, <1>8, <1>9, <1>10, <1>11, <1>12 DEF
     CallerNext

LEMMA ReaderDispatchStep ==
  ASSUME TypeOK, MapInv, DispatchInv
  PROVE  ReaderNext => DispatchInv'
<1> USE TransportAssumption DEF DispatchInv, FramesTrue, FrameTrue, Frame,
            CallerStages, TokensHeld, Holds, ReplyInv, ReplyIsOwn, Written, MapInv,
            IdsUnique, PendingOwned, Registered, TypeOK, TypeCommands, TypeMaps,
            TypeFrames, Frames
<1>1. ASSUME NEW f \in wire, ReaderResponse(f) PROVE DispatchInv'
  <2>1. AllFrames' = AllFrames
    BY <1>1 DEF ReaderResponse, AllFrames
  <2>2. FramesTrue'
    BY <1>1, <2>1 DEF ReaderResponse, Deliver, EntriesOf
  <2>3. CallerStages'
    BY <1>1, <2>1 DEF ReaderResponse, Deliver, EntriesOf
  <2>4. TokensHeld'
    BY <1>1, <2>1 DEF ReaderResponse, Deliver, EntriesOf
  <2>5. ReplyInv'
    <3>1. SUFFICES ASSUME nextId <= AutoBase + 1, NEW c \in Callers,
                          outcome[c] = "reply" \/ mail'[c] = "reply"
                   PROVE  Frame(c) \in answered'
      BY <1>1 DEF ReaderResponse
    <3>2. answered' = answered \cup {f} /\ f \in AllFrames /\ f \in Frames
      BY <1>1 DEF ReaderResponse, AllFrames
    <3>3. CASE outcome[c] = "reply" \/ mail[c] = "reply"
      BY <3>1, <3>2, <3>3
    <3>4. ASSUME NEW p \in pending, p.to = c, p.id = f.id PROVE Frame(c) \in answered'
      <4>1. f.id = id[c] /\ id[c] # 0 /\ id[c] < nextId
        BY <3>4
      <4>2. f.from # ReaderTask
        BY <4>1, <3>1, <3>2
      <4>3. f = Frame(f.from) /\ f.from \in Callers
        BY <4>2, <3>2
      <4>4. f.from = c
        BY <4>1, <4>3
      <4>5. QED
        BY <4>3, <4>4, <3>2
    <3>5. QED
      BY <1>1, <3>1, <3>3, <3>4 DEF ReaderResponse, Deliver, EntriesOf
  <2>6. QED
    BY <2>2, <2>3, <2>4, <2>5
<1>2. ASSUME NEW s \in Sessions, ReaderDetach(s) PROVE DispatchInv'
  <2>1. AllFrames' = AllFrames
    BY <1>2 DEF ReaderDetach, AllFrames
  <2>2. QED
    BY <1>2, <2>1 DEF ReaderDetach
<1>3. ASSUME ReaderFailDetached PROVE DispatchInv'
  <2>1. AllFrames' = AllFrames
    BY <1>3 DEF ReaderFailDetached, AllFrames
  <2>2. QED
    BY <1>3, <2>1 DEF ReaderFailDetached, Deliver, EntriesOf
<1>4. ASSUME ReaderAutoReply PROVE DispatchInv'
  <2>1. AllFrames' = AllFrames
    BY <1>4 DEF ReaderAutoReply, AllFrames
  <2>2. QED
    BY <1>4, <2>1 DEF ReaderAutoReply
<1>5. ASSUME ReaderAutoWrite PROVE DispatchInv'
  <2>1. AutoFrame \in Frames /\ wire' = wire
    BY <1>5 DEF ReaderAutoWrite, AutoFrame
  <2>2. CASE sink' = sink
    BY <1>5, <2>1, <2>2 DEF ReaderAutoWrite, AllFrames
  <2>3. CASE rpc = "autoSend" /\ sink' = Append(sink, AutoFrame)
    <3>1. AllFrames' = AllFrames \cup {AutoFrame}
      BY <2>1, <2>3, AppendFrames
    <3>2. FrameTrue(AutoFrame)
      BY <2>3 DEF AutoFrame
    <3>3. \A c \in Callers : Written(c)' <=> Written(c)
      BY <1>5, <3>1 DEF ReaderAutoWrite, AutoFrame
    <3>4. FramesTrue'
      BY <1>5, <3>1, <3>2 DEF ReaderAutoWrite
    <3>5. CallerStages' /\ TokensHeld' /\ ReplyInv'
      BY <1>5, <3>3 DEF ReaderAutoWrite
    <3>6. QED
      BY <3>4, <3>5
  <2>4. QED
    BY <1>5, <2>2, <2>3 DEF ReaderAutoWrite
<1>6. ASSUME ReaderAutoFail PROVE DispatchInv'
  <2>1. AllFrames' = AllFrames
    BY <1>6 DEF ReaderAutoFail, AllFrames
  <2>2. QED
    BY <1>6, <2>1 DEF ReaderAutoFail
<1>7. ASSUME ReaderStop PROVE DispatchInv'
  <2>1. AllFrames' = AllFrames
    BY <1>7 DEF ReaderStop, AllFrames
  <2>2. QED
    BY <1>7, <2>1 DEF ReaderStop
<1>8. ASSUME ReaderUnplug PROVE DispatchInv'
  <2>1. AllFrames' = AllFrames
    BY <1>8 DEF ReaderUnplug, AllFrames
  <2>2. QED
    BY <1>8, <2>1 DEF ReaderUnplug
<1>9. ASSUME ReaderDrain PROVE DispatchInv'
  <2>1. AllFrames' = AllFrames
    BY <1>9 DEF ReaderDrain, AllFrames
  <2>2. QED
    BY <1>9, <2>1 DEF ReaderDrain, Deliver
<1>10. ASSUME ReaderAborted PROVE DispatchInv'
  <2>1. AllFrames' = AllFrames
    BY <1>10 DEF ReaderAborted, AllFrames
  <2>2. QED
    BY <1>10, <2>1 DEF ReaderAborted
<1>11. QED
  BY <1>1, <1>2, <1>3, <1>4, <1>5, <1>6, <1>7, <1>8, <1>9, <1>10 DEF ReaderNext

LEMMA CloseDispatchStep ==
  ASSUME TypeOK, MapInv, DispatchInv
  PROVE  CloseNext => DispatchInv'
<1> USE TransportAssumption DEF DispatchInv, FramesTrue, FrameTrue, Frame,
            CallerStages, TokensHeld, Holds, ReplyInv, ReplyIsOwn, Written, MapInv,
            IdsUnique, PendingOwned, Registered, TypeOK, TypeCommands, TypeMaps,
            TypeFrames, Frames
<1>1. ASSUME CloseBegin PROVE DispatchInv'
  <2>1. AllFrames' = AllFrames
    BY <1>1 DEF CloseBegin, AllFrames
  <2>2. QED
    BY <1>1, <2>1 DEF CloseBegin
<1>2. ASSUME CloseLock PROVE DispatchInv'
  <2>1. AllFrames' = AllFrames
    BY <1>2 DEF CloseLock, AllFrames
  <2>2. QED
    BY <1>2, <2>1 DEF CloseLock
<1>3. ASSUME CloseFrameOver PROVE DispatchInv'
  <2>1. AllFrames' = AllFrames
    BY <1>3 DEF CloseFrameOver, AllFrames
  <2>2. QED
    BY <1>3, <2>1 DEF CloseFrameOver
<1>4. ASSUME CloseCancel PROVE DispatchInv'
  <2>1. AllFrames' = AllFrames
    BY <1>4 DEF CloseCancel, AllFrames
  <2>2. QED
    BY <1>4, <2>1 DEF CloseCancel
<1>5. ASSUME CloseUnplug PROVE DispatchInv'
  <2>1. AllFrames' = AllFrames
    BY <1>5 DEF CloseUnplug, AllFrames
  <2>2. QED
    BY <1>5, <2>1 DEF CloseUnplug
<1>6. ASSUME CloseDrain PROVE DispatchInv'
  <2>1. AllFrames' = AllFrames
    BY <1>6 DEF CloseDrain, AllFrames
  <2>2. QED
    BY <1>6, <2>1 DEF CloseDrain, Deliver
<1>7. ASSUME DropBegin PROVE DispatchInv'
  <2>1. AllFrames' = AllFrames
    BY <1>7 DEF DropBegin, AllFrames
  <2>2. QED
    BY <1>7, <2>1 DEF DropBegin
<1>8. QED
  BY <1>1, <1>2, <1>3, <1>4, <1>5, <1>6, <1>7 DEF CloseNext

LEMMA DispatchStep == ASSUME TypeOK, MapInv, DispatchInv PROVE [Next]_vars => DispatchInv'
<1>1. CASE UNCHANGED vars
  <2>1. AllFrames' = AllFrames
    BY <1>1 DEF vars, AllFrames
  <2>2. QED
    BY <1>1, <2>1 DEF vars, DispatchInv, FramesTrue, FrameTrue, Frame, CallerStages,
                      TokensHeld, Holds, ReplyInv, ReplyIsOwn, Written
<1>2. ASSUME PushFrame PROVE DispatchInv'
  <2>1. AllFrames' = AllFrames
    BY <1>2, PushFrames DEF TypeOK
  <2>2. wire \subseteq wire'
    BY <1>2 DEF PushFrame
  <2>3. QED
    BY <1>2, <2>1, <2>2 DEF PushFrame, DispatchInv, FramesTrue, FrameTrue, Frame,
                      CallerStages, TokensHeld, Holds, ReplyInv, ReplyIsOwn, Written
<1>3. CASE \E c \in Callers : CallerNext(c)
  BY <1>3, CallerDispatchStep
<1>4. CASE ReaderNext
  BY <1>4, ReaderDispatchStep
<1>5. CASE CloseNext
  BY <1>5, CloseDispatchStep
<1>6. CASE Finished
  BY <1>1, <1>6 DEF Finished
<1>7. QED
  BY <1>1, <1>2, <1>3, <1>4, <1>5, <1>6 DEF Next

LEMMA DispatchInit == Init => DispatchInv
<1> SUFFICES ASSUME Init PROVE DispatchInv
  OBVIOUS
<1>1. AllFrames = {}
  BY DEF Init, AllFrames
<1>2. QED
  BY <1>1 DEF Init, DispatchInv, FramesTrue, CallerStages, TokensHeld, Holds, ReplyInv,
              ReplyIsOwn, Written

LEMMA DispatchInvariant == Spec => []DispatchInv
  BY DispatchInit, DispatchStep, TypeCorrect, MapInvariant, PTL DEF Spec

\* may_have_been_sent is never wrong about a frame, and a shared token sends one
\* frame, for any number of callers and tokens.
THEOREM TokensTellTheTruth == Spec => []DispatchObserved
<1>1. TypeOK /\ DispatchInv => DispatchObserved
  <2> SUFFICES ASSUME TypeOK, DispatchInv, NEW c \in Callers, Written(c), tok[c] # NoToken
               PROVE  /\ token[tok[c]] = 2
                      /\ \A d \in Callers \ {c} : tok[d] = tok[c] => ~Written(d)
    BY DEF DispatchObserved
  <2>1. token[tok[c]] = 2
    BY DEF DispatchInv, TokensHeld
  <2>2. \A d \in Callers : Written(d) => Holds(d)
    BY TransportAssumption
       DEF DispatchInv, FramesTrue, FrameTrue, Written, Frame, Holds
  <2>3. QED
    BY <2>1, <2>2 DEF DispatchInv, TokensHeld
<1>2. QED
  BY <1>1, TypeCorrect, DispatchInvariant, PTL

\* As long as the main ids stay below the automatic ones, no caller is handed
\* the answer to another command.
THEOREM RepliesAreOwn == Spec => [](nextId <= AutoBase + 1 => ReplyIsOwn)
<1>1. DispatchInv => (nextId <= AutoBase + 1 => ReplyIsOwn)
  BY DEF DispatchInv, ReplyInv
<1>2. QED
  BY <1>1, DispatchInvariant, PTL


-----------------------------------------------------------------------------
(* The transport implements the contract of a single command. *)

LEMMA Stutters ==
  ASSUME UNCHANGED <<outcome, tok, id, answered>>, AllFrames' = AllFrames,
         \A c \in Callers : pc'[c] = "idle" <=> pc[c] = "idle"
  PROVE  UNCHANGED Contract!contractVars
<1>1. Status' = Status
  BY DEF Status
<1>2. Sent' = Sent /\ Replied' = Replied
  BY DEF Sent, Replied, Written, Frame
<1>3. QED
  BY <1>1, <1>2 DEF Contract!contractVars

LEMMA Ends ==
  ASSUME TypeOK, NEW c \in Callers, NEW o \in Outcomes \ {"none"},
         pc[c] # "idle", outcome[c] = "none", pc'[c] # "idle",
         \A d \in Callers \ {c} : pc'[d] = pc[d],
         outcome' = [outcome EXCEPT ![c] = o],
         UNCHANGED <<tok, id, answered>>, AllFrames' = AllFrames,
         o = "reply" => Frame(c) \in answered,
         o \in {"refused", "blocked"} => ~Written(c)
  PROVE  Contract!Next
<1>1. Status[c] = "open" /\ Status' = [Status EXCEPT ![c] = "settled"]
  BY DEF Status, TypeOK, TypeCommands
<1>2. Sent' = Sent /\ Replied' = Replied
  BY DEF Sent, Replied, Written, Frame
<1>3. o = "reply" => c \in Replied
  BY DEF Replied
<1>4. o \in {"refused", "blocked"} => c \notin Sent
  BY DEF Sent
<1>5. Contract!End(c, o)
  BY <1>1, <1>2, <1>3, <1>4 DEF Contract!End
<1>6. QED
  BY <1>5 DEF Contract!Next, Contract!Endings, Outcomes


ContractStep == Contract!Next \/ UNCHANGED Contract!contractVars

\* Settle, or a write that ended but left the registration with its caller.
LEMMA SettleStep ==
  ASSUME TypeOK, DispatchInv, NEW c \in Callers, NEW o \in Outcomes \ {"none"},
         pc[c] \in Registered, Settle(c, o) \/ WriteEnded(c, o),
         UNCHANGED <<tok, id, answered>>, AllFrames' = AllFrames,
         o = "reply" => Frame(c) \in answered, o \notin {"refused", "blocked"}
  PROVE  ContractStep
<1>1. outcome[c] = "none" /\ pc[c] # "idle"
  BY DEF DispatchInv, CallerStages, Registered
<1>2. CASE Settle(c, o)
  <2>1. /\ pc'[c] # "idle" /\ outcome' = [outcome EXCEPT ![c] = o]
        /\ \A d \in Callers \ {c} : pc'[d] = pc[d]
    BY <1>2 DEF Settle, TypeOK, TypeCommands
  <2>2. QED
    BY <1>1, <2>1, Ends DEF ContractStep
<1>3. CASE ~Settle(c, o)
  <2>1. outcome' = outcome /\ pc' = [pc EXCEPT ![c] = "waiting"]
    BY <1>3 DEF WriteEnded
  <2>2. \A d \in Callers : pc'[d] = "idle" <=> pc[d] = "idle"
    BY <1>1, <2>1 DEF TypeOK, TypeCommands
  <2>3. QED
    BY <2>1, <2>2, Stutters DEF ContractStep
<1>4. QED
  BY <1>2, <1>3

LEMMA CallerContractStep ==
  ASSUME TypeOK, MapInv, DispatchInv, ReplyIsOwn, NEW c \in Callers
  PROVE  CallerNext(c) => ContractStep
<1>1. ASSUME NEW k \in Kinds, NEW t \in Tokens \cup {NoToken}, NEW s \in Sessions \cup {NoSession},
             Start(c, k, t, s) PROVE ContractStep
  <2>1. pc[c] = "idle" /\ outcome[c] = "none"
    BY <1>1 DEF Start, DispatchInv, CallerStages
  <2>2. Sent' = Sent /\ Replied' = Replied
    BY <1>1 DEF Start, Sent, Replied, Written, Frame, AllFrames
  <2>3. Status[c] = "idle" /\ tok' = [tok EXCEPT ![c] = t]
    BY <1>1, <2>1 DEF Start, Status
  <2>4. CASE pc'[c] = "claimed" /\ outcome' = outcome
    <3>1. Status' = [Status EXCEPT ![c] = "open"]
      BY <1>1, <2>1, <2>4 DEF Start, Refuse, Status, TypeOK, TypeCommands
    <3>2. QED
      BY <2>2, <2>3, <2>4, <3>1 DEF ContractStep, Contract!Next, Contract!Submit
  <2>5. ASSUME NEW o \in {"refused", "blocked"}, Refuse(c, o) PROVE ContractStep
    <3>1. Status' = [Status EXCEPT ![c] = "settled"]
      BY <1>1, <2>1, <2>5 DEF Refuse, Status, TypeOK, TypeCommands
    <3>2. outcome' = [outcome EXCEPT ![c] = o]
      BY <2>5 DEF Refuse
    <3>3. QED
      BY <2>2, <2>3, <3>1, <3>2 DEF ContractStep, Contract!Next, Contract!Submit
  <2>6. QED
    BY <1>1, <2>4, <2>5 DEF Start, TypeOK, TypeCommands
<1>2. ASSUME AssignId(c) PROVE ContractStep
  <2>1. pc[c] = "claimed" /\ outcome[c] = "none" /\ id[c] = 0
    BY <1>2 DEF AssignId, DispatchInv, CallerStages, MapInv, IdsUnique
  <2>2. AllFrames' = AllFrames /\ answered' = answered /\ tok' = tok
    BY <1>2 DEF AssignId, AllFrames
  <2>3. CASE IsClosed
    <3>1. /\ Refuse(c, "refused") /\ id' = id
      BY <1>2, <2>3 DEF AssignId
    <3>2. ~Written(c)
      BY <2>1 DEF DispatchInv, CallerStages
    <3>3. /\ pc'[c] # "idle" /\ outcome' = [outcome EXCEPT ![c] = "refused"]
          /\ \A d \in Callers \ {c} : pc'[d] = pc[d]
      BY <3>1 DEF Refuse, TypeOK, TypeCommands
    <3>4. QED
      BY <2>1, <2>2, <3>1, <3>2, <3>3, Ends DEF ContractStep, Outcomes
  <2>4. CASE ~IsClosed
    <3>1. /\ pc' = [pc EXCEPT ![c] = "numbered"] /\ outcome' = outcome
          /\ id' = [id EXCEPT ![c] = nextId]
      BY <1>2, <2>4 DEF AssignId
    <3>2. \A f \in AllFrames : f.from # c
      BY <2>1, TransportAssumption DEF DispatchInv, FramesTrue, FrameTrue, Frame
    <3>3. answered \subseteq AllFrames
      BY DEF AllFrames, DispatchInv, FramesTrue
    <3>4. \A d \in Callers \ {c} : Frame(d)' = Frame(d)
      BY <3>1 DEF Frame, TypeOK, TypeCommands
    <3>5. Frame(c).from = c /\ Frame(c)'.from = c
      BY DEF Frame
    <3>6. Sent' = Sent /\ Replied' = Replied
      BY <2>2, <3>2, <3>3, <3>4, <3>5 DEF Sent, Replied, Written
    <3>7. Status' = Status
      BY <2>1, <3>1 DEF Status, TypeOK, TypeCommands
    <3>8. QED
      BY <2>2, <3>1, <3>6, <3>7 DEF ContractStep, Contract!contractVars
  <2>5. QED
    BY <2>3, <2>4
<1>3. ASSUME Register(c) PROVE ContractStep
  <2>1. pc[c] = "numbered" /\ outcome[c] = "none" /\ ~Written(c)
    BY <1>3 DEF Register, DispatchInv, CallerStages
  <2>2. AllFrames' = AllFrames /\ UNCHANGED <<tok, id, answered>>
    BY <1>3 DEF Register, AllFrames
  <2>3. CASE MayRegister(c)
    <3>1. \A d \in Callers : pc'[d] = "idle" <=> pc[d] = "idle"
      BY <1>3, <2>1, <2>3 DEF Register, TypeOK, TypeCommands
    <3>2. QED
      BY <1>3, <2>2, <2>3, <3>1, Stutters DEF Register, ContractStep
  <2>4. CASE ~MayRegister(c)
    <3>1. /\ pc'[c] # "idle" /\ outcome' = [outcome EXCEPT ![c] = "refused"]
          /\ \A d \in Callers \ {c} : pc'[d] = pc[d]
      BY <1>3, <2>4 DEF Register, Refuse, TypeOK, TypeCommands
    <3>2. QED
      BY <2>1, <2>2, <3>1, Ends DEF ContractStep, Outcomes
  <2>5. QED
    BY <2>3, <2>4
<1>4. ASSUME LockWriter(c) PROVE ContractStep
  <2>1. pc[c] = "queued" /\ AllFrames' = AllFrames /\ UNCHANGED <<tok, id, answered>>
    BY <1>4 DEF LockWriter, AllFrames
  <2>2. CASE Settle(c, "failed")
    BY <2>1, <2>2, SettleStep DEF Outcomes, Registered
  <2>3. CASE ~Settle(c, "failed")
    <3>1. pc' = [pc EXCEPT ![c] = "locked"] /\ outcome' = outcome
      BY <1>4, <2>3 DEF LockWriter
    <3>2. \A d \in Callers : pc'[d] = "idle" <=> pc[d] = "idle"
      BY <2>1, <3>1 DEF TypeOK, TypeCommands
    <3>3. QED
      BY <2>1, <3>1, <3>2, Stutters DEF ContractStep
  <2>4. QED
    BY <2>2, <2>3
<1>5. ASSUME MarkDispatched(c) PROVE ContractStep
  <2>1. AllFrames' = AllFrames /\ UNCHANGED <<outcome, tok, id, answered>>
    BY <1>5 DEF MarkDispatched, AllFrames
  <2>2. \A d \in Callers : pc'[d] = "idle" <=> pc[d] = "idle"
    BY <1>5 DEF MarkDispatched, TypeOK, TypeCommands
  <2>3. QED
    BY <2>1, <2>2, Stutters DEF ContractStep
<1>6. ASSUME StartSend(c) PROVE ContractStep
  <2>1. pc[c] = "marked" /\ outcome[c] = "none" /\ id[c] # 0 /\ ~Written(c)
    BY <1>6 DEF StartSend, DispatchInv, CallerStages, MapInv, IdsUnique, Registered
  <2>2. AllFrames' = AllFrames \cup {Frame(c)}
    BY <1>6, AppendFrames DEF StartSend, TypeOK, TypeCommands, Frames, Frame
  <2>3. UNCHANGED <<outcome, tok, id, answered>>
    BY <1>6 DEF StartSend
  <2>4. Status[c] = "open" /\ c \notin Sent
    BY <2>1 DEF Status, Sent
  <2>5. Status' = Status
    BY <1>6, <2>1 DEF StartSend, Status, TypeOK, TypeCommands
  <2>6. Sent' = Sent \cup {c} /\ Replied' = Replied
    BY <2>2, <2>3 DEF Sent, Replied, Written, Frame
  <2>7. \A d \in Callers : Written(d) => Holds(d)
    BY TransportAssumption DEF DispatchInv, FramesTrue, FrameTrue, Written, Frame, Holds
  <2>8. tok[c] # NoToken => \A d \in Sent : tok[d] # tok[c]
    BY <2>1, <2>7 DEF DispatchInv, TokensHeld, Sent, Holds
  <2>9. Contract!Send(c)
    BY <2>3, <2>4, <2>5, <2>6, <2>8 DEF Contract!Send
  <2>10. QED
    BY <2>9 DEF ContractStep, Contract!Next
<1>7. ASSUME FlushDone(c) PROVE ContractStep
  <2>1. AllFrames' = AllFrames /\ UNCHANGED <<outcome, tok, id, answered>>
    BY <1>7 DEF FlushDone, AllFrames
  <2>2. \A d \in Callers : pc'[d] = "idle" <=> pc[d] = "idle"
    BY <1>7 DEF FlushDone, TypeOK, TypeCommands
  <2>3. QED
    BY <2>1, <2>2, Stutters DEF ContractStep
<1>8. ASSUME WriteError(c) PROVE ContractStep
  <2>1. pc[c] \in Registered /\ AllFrames' = AllFrames /\ UNCHANGED <<tok, id, answered>>
    BY <1>8 DEF WriteError, AllFrames, Registered
  <2>2. WriteEnded(c, "failed")
    BY <1>8 DEF WriteError
  <2>3. QED
    BY <2>1, <2>2, SettleStep DEF Outcomes
<1>9. ASSUME Receive(c) PROVE ContractStep
  <2>1. pc[c] \in Registered /\ AllFrames' = AllFrames /\ UNCHANGED <<tok, id, answered>>
    BY <1>9 DEF Receive, AllFrames, Registered
  <2>2. mail[c] = "reply" => Frame(c) \in answered
    BY DEF ReplyIsOwn
  <2>3. CASE mail[c] = "reply"
    <3>1. Settle(c, "reply")
      BY <1>9, <2>3 DEF Receive
    <3>2. QED
      BY <2>1, <2>2, <2>3, <3>1, SettleStep DEF Outcomes
  <2>4. CASE mail[c] # "reply"
    <3>1. Settle(c, "failed")
      BY <1>9, <2>4 DEF Receive
    <3>2. QED
      BY <2>1, <3>1, SettleStep DEF Outcomes
  <2>5. QED
    BY <2>3, <2>4
<1>10. ASSUME Timeout(c) PROVE ContractStep
  <2>1. pc[c] \in Registered /\ AllFrames' = AllFrames /\ UNCHANGED <<tok, id, answered>>
    BY <1>10 DEF Timeout, AllFrames, Registered, Awaiting
  <2>2. WriteEnded(c, "timeout")
    BY <1>10 DEF Timeout
  <2>3. QED
    BY <2>1, <2>2, SettleStep DEF Outcomes
<1>11. ASSUME Cancel(c) PROVE ContractStep
  <2>1. pc[c] \in Registered /\ AllFrames' = AllFrames /\ UNCHANGED <<tok, id, answered>>
    BY <1>11 DEF Cancel, AllFrames, Registered, Awaiting
  <2>2. Settle(c, "cancelled")
    BY <1>11 DEF Cancel
  <2>3. QED
    BY <2>1, <2>2, SettleStep DEF Outcomes
<1>12. ASSUME Unroute(c) PROVE ContractStep
  <2>1. AllFrames' = AllFrames /\ UNCHANGED <<outcome, tok, id, answered>>
    BY <1>12 DEF Unroute, AllFrames
  <2>2. \A d \in Callers : pc'[d] = "idle" <=> pc[d] = "idle"
    BY <1>12 DEF Unroute, TypeOK, TypeCommands
  <2>3. QED
    BY <2>1, <2>2, Stutters DEF ContractStep
<1>13. QED
  BY <1>1, <1>2, <1>3, <1>4, <1>5, <1>6, <1>7, <1>8, <1>9, <1>10, <1>11, <1>12
     DEF CallerNext


LEMMA ReaderContractStep ==
  ASSUME TypeOK, MapInv, DispatchInv
  PROVE  ReaderNext => ContractStep
<1>1. ASSUME NEW f \in wire, ReaderResponse(f) PROVE ContractStep
  <2>1. /\ AllFrames' = AllFrames /\ UNCHANGED <<pc, outcome, tok, id>>
        /\ answered' = answered \cup {f} /\ f \in AllFrames /\ f \in Frames
    BY <1>1, FramesTyped DEF ReaderResponse, AllFrames, TypeOK
  <2>2. Status' = Status /\ Sent' = Sent
    BY <2>1 DEF Status, Sent, Written, Frame
  <2>3. CASE f.from = ReaderTask
    <3>1. \A c \in Callers : Frame(c) # f
      BY <2>3, TransportAssumption DEF Frame
    <3>2. Replied' = Replied
      BY <2>1, <3>1 DEF Replied, Frame
    <3>3. QED
      BY <2>1, <2>2, <3>2 DEF ContractStep, Contract!contractVars
  <2>4. CASE f.from # ReaderTask
    <3>1. f.from \in Callers /\ f = Frame(f.from)
      BY <2>1, <2>4 DEF DispatchInv, FramesTrue, FrameTrue, Frames
    <3>2. f.from \in Sent
      BY <2>1, <3>1 DEF Sent, Written
    <3>3. Replied' = Replied \cup {f.from}
      <4>1. \A c \in Callers : Frame(c)' = Frame(c)
        BY <2>1 DEF Frame
      <4>2. \A c \in Callers : Frame(c).from = c
        BY DEF Frame
      <4>3. QED
        BY <2>1, <3>1, <4>1, <4>2 DEF Replied
    <3>4. Contract!Reply(f.from)
      BY <2>1, <2>2, <3>2, <3>3 DEF Contract!Reply
    <3>5. QED
      BY <3>1, <3>4 DEF ContractStep, Contract!Next
  <2>5. QED
    BY <2>3, <2>4
<1>2. ASSUME NEW s \in Sessions, ReaderDetach(s) PROVE ContractStep
  BY <1>2, Stutters DEF ReaderDetach, AllFrames, ContractStep
<1>3. ASSUME ReaderFailDetached PROVE ContractStep
  BY <1>3, Stutters DEF ReaderFailDetached, AllFrames, ContractStep
<1>4. ASSUME ReaderAutoReply PROVE ContractStep
  BY <1>4, Stutters DEF ReaderAutoReply, AllFrames, ContractStep
<1>5. ASSUME ReaderAutoWrite PROVE ContractStep
  <2>1. AutoFrame \in Frames /\ UNCHANGED <<pc, outcome, tok, id, answered, wire>>
    BY <1>5, TransportAssumption DEF ReaderAutoWrite, AutoFrame, Frames, TypeOK, TypeFrames
  <2>2. CASE sink' = sink
    BY <2>1, <2>2, Stutters DEF AllFrames, ContractStep
  <2>3. CASE sink' = Append(sink, AutoFrame)
    <3>1. AllFrames' = AllFrames \cup {AutoFrame}
      BY <2>1, <2>3, AppendFrames DEF TypeOK
    <3>2. \A c \in Callers : Frame(c) # AutoFrame
      BY TransportAssumption DEF Frame, AutoFrame
    <3>3. Status' = Status /\ Sent' = Sent /\ Replied' = Replied
      BY <2>1, <3>1, <3>2 DEF Status, Sent, Replied, Written, Frame
    <3>4. QED
      BY <2>1, <3>3 DEF ContractStep, Contract!contractVars
  <2>4. QED
    BY <1>5, <2>2, <2>3 DEF ReaderAutoWrite
<1>6. ASSUME ReaderAutoFail PROVE ContractStep
  BY <1>6, Stutters DEF ReaderAutoFail, AllFrames, ContractStep
<1>7. ASSUME ReaderStop PROVE ContractStep
  BY <1>7, Stutters DEF ReaderStop, AllFrames, ContractStep
<1>8. ASSUME ReaderUnplug PROVE ContractStep
  BY <1>8, Stutters DEF ReaderUnplug, AllFrames, ContractStep
<1>9. ASSUME ReaderDrain PROVE ContractStep
  BY <1>9, Stutters DEF ReaderDrain, AllFrames, ContractStep
<1>10. ASSUME ReaderAborted PROVE ContractStep
  BY <1>10, Stutters DEF ReaderAborted, AllFrames, ContractStep
<1>11. QED
  BY <1>1, <1>2, <1>3, <1>4, <1>5, <1>6, <1>7, <1>8, <1>9, <1>10 DEF ReaderNext

LEMMA CloseContractStep == CloseNext => ContractStep
<1>1. ASSUME CloseBegin PROVE ContractStep
  BY <1>1, Stutters DEF CloseBegin, AllFrames, ContractStep
<1>2. ASSUME CloseLock PROVE ContractStep
  BY <1>2, Stutters DEF CloseLock, AllFrames, ContractStep
<1>3. ASSUME CloseFrameOver PROVE ContractStep
  BY <1>3, Stutters DEF CloseFrameOver, AllFrames, ContractStep
<1>4. ASSUME CloseCancel PROVE ContractStep
  BY <1>4, Stutters DEF CloseCancel, AllFrames, ContractStep
<1>5. ASSUME CloseUnplug PROVE ContractStep
  BY <1>5, Stutters DEF CloseUnplug, AllFrames, ContractStep
<1>6. ASSUME CloseDrain PROVE ContractStep
  BY <1>6, Stutters DEF CloseDrain, AllFrames, ContractStep
<1>7. ASSUME DropBegin PROVE ContractStep
  BY <1>7, Stutters DEF DropBegin, AllFrames, ContractStep
<1>8. QED
  BY <1>1, <1>2, <1>3, <1>4, <1>5, <1>6, <1>7 DEF CloseNext

LEMMA ContractStepLemma ==
  ASSUME TypeOK, MapInv, DispatchInv, nextId <= AutoBase + 1
  PROVE  [Next]_vars => [Contract!Next]_(Contract!contractVars)
<1>1. CASE UNCHANGED vars
  BY <1>1, Stutters DEF vars, AllFrames
<1>2. ASSUME PushFrame PROVE ContractStep
  <2>1. AllFrames' = AllFrames
    BY <1>2, PushFrames DEF TypeOK
  <2>2. QED
    BY <1>2, <2>1, Stutters DEF PushFrame, ContractStep
<1>3. CASE \E c \in Callers : CallerNext(c)
  <2>1. ReplyIsOwn
    BY DEF DispatchInv, ReplyInv
  <2>2. QED
    BY <1>3, <2>1, CallerContractStep DEF ContractStep
<1>4. CASE ReaderNext
  BY <1>4, ReaderContractStep DEF ContractStep
<1>5. CASE CloseNext
  BY <1>5, CloseContractStep DEF ContractStep
<1>6. CASE Finished
  BY <1>1, <1>6 DEF Finished
<1>7. QED
  BY <1>1, <1>2, <1>3, <1>4, <1>5, <1>6 DEF Next, ContractStep

LEMMA ContractInit == Init => Contract!Init
<1> SUFFICES ASSUME Init PROVE Contract!Init
  OBVIOUS
<1>1. AllFrames = {} /\ answered = {}
  BY DEF Init, AllFrames
<1>2. QED
  BY <1>1 DEF Init, Contract!Init, Status, Sent, Replied, Written

\* While the main ids stay below the automatic ones every behaviour of the
\* transport is one the contract of a single command allows.
THEOREM TransportImplementsContract ==
  Spec /\ [](nextId <= AutoBase + 1) => ContractSpec
<1>1. QED
  BY ContractInit, ContractStepLemma, TypeCorrect, MapInvariant, DispatchInvariant, PTL
     DEF Spec, ContractSpec, Contract!Spec

=============================================================================
