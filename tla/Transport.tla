------------------------------ MODULE Transport ------------------------------
(***************************************************************************)
(* The command transport of eoka (src/src/cdp/transport.rs and             *)
(* transport/reader.rs): callers register a command in the pending map,    *)
(* write its frame through the shared WebSocket writer and wait; the       *)
(* reader task matches replies to pending ids, fails native completions    *)
(* whose session detaches, answers paused requests by itself, and drains   *)
(* the map when the socket is lost; close() and Drop drain it as well.     *)
(*                                                                         *)
(* A step is one critical section, atomic access or await of one task.     *)
(* Payloads, methods and errors are abstracted: a frame is an id and the   *)
(* task that wrote it, a result is the way a command ended.                *)
(***************************************************************************)
EXTENDS Naturals, Sequences

CONSTANTS
  Callers,     \* command futures; each sends one command
  Tokens,      \* CommandDispatch observation tokens the callers may share
  Sessions,    \* CDP sessions that own native completions
  NoToken, NoSession,
  Free,        \* the writer mutex is not held
  ReaderTask,  \* the reader, as a holder of the writer and a frame's author
  CloserTask,  \* close(), as a holder of the writer
  AutoBase,    \* 1_000_000_000 in the code: automatic ids start above it
  MaxAuto      \* bound of the model: automatic replies the reader writes

ASSUME TransportAssumption ==
  /\ AutoBase \in Nat /\ MaxAuto \in Nat
  /\ NoToken \notin Tokens /\ NoSession \notin Sessions
  /\ {Free, ReaderTask, CloserTask} \cap Callers = {}
  /\ Free # ReaderTask /\ Free # CloserTask /\ ReaderTask # CloserTask

VARIABLES
  pc,        \* where each caller's future is
  kind,      \* "plain", "blocked" (filtered method) or "completion"
  tok, sess, \* the caller's token and completion session
  id,        \* its command id, 0 before one is drawn
  outcome,   \* how its command ended
  token,     \* CommandDispatch.state: 0 unused, 1 claimed, 2 in the sink
  nextId,    \* Transport.next_id
  pending,   \* Transport.pending, as a set of [id, to]
  routes,    \* completion_routes: session to id, 0 when not owned
  mail,      \* the oneshot each registered caller waits on
  writer,    \* holder of the writer mutex
  sink,      \* frames accepted by the sink and not yet flushed
  wire,      \* frames Chrome received
  answered,  \* frames whose reply the reader has processed
  closed, socketDown,
  rpc,       \* where the reader task is
  detaching, \* id taken from completion_routes by a detach event
  autos,     \* automatic replies numbered so far
  attached,  \* sessions whose detach event has not been read
  kpc,       \* where close() or Drop is
  abortRequested, dropped

callerVars == <<pc, outcome>>
cmdVars    == <<kind, tok, sess>>
idVars     == <<id, nextId>>
mapVars    == <<pending, routes, mail>>
frameVars  == <<sink, wire, answered>>
readerVars == <<rpc, detaching, autos, attached>>
closeVars  == <<kpc, abortRequested, dropped>>
vars == <<callerVars, cmdVars, idVars, token, mapVars, writer, frameVars,
          closed, socketDown, readerVars, closeVars>>

Kinds == {"plain", "blocked", "completion"}
\* A future that owns a PendingRegistration.
Registered == {"queued", "locked", "marked", "flushing", "waiting"}
\* Where a caller's future is suspended: it can time out or be dropped here.
Awaiting == {"queued", "locked", "flushing", "waiting"}
CallerPcs == Registered \cup {"idle", "claimed", "numbered", "unrouting", "done"}
Outcomes == {"none", "blocked", "reply", "refused", "failed", "timeout", "cancelled"}
ReaderPcs == {"read", "detach", "autoLock", "autoSend", "autoFlush", "broken",
              "stopped", "unplugged", "finished", "aborted"}
ClosePcs == {"open", "framing", "frame", "cancelled", "unplug", "drain", "closed"}

Frame(c) == [id |-> id[c], from |-> c]
AutoFrame == [id |-> AutoBase + autos, from |-> ReaderTask]
Frames == [id : Nat, from : Callers \cup {ReaderTask}]
\* Every frame the sink ever accepted.
AllFrames == {sink[k] : k \in 1..Len(sink)} \cup wire

IsClosed == closed \/ rpc \in {"finished", "aborted"}

Init ==
  /\ pc = [c \in Callers |-> "idle"]
  /\ kind = [c \in Callers |-> "plain"]
  /\ tok = [c \in Callers |-> NoToken]
  /\ sess = [c \in Callers |-> NoSession]
  /\ id = [c \in Callers |-> 0]
  /\ outcome = [c \in Callers |-> "none"]
  /\ token = [t \in Tokens |-> 0]
  /\ nextId = 1
  /\ pending = {}
  /\ routes = [s \in Sessions |-> 0]
  /\ mail = [c \in Callers |-> "empty"]
  /\ writer = Free
  /\ sink = <<>> /\ wire = {} /\ answered = {}
  /\ closed = FALSE /\ socketDown = FALSE
  /\ rpc = "read" /\ detaching = 0 /\ autos = 0 /\ attached = Sessions
  /\ kpc = "open" /\ abortRequested = FALSE /\ dropped = FALSE

-----------------------------------------------------------------------------
(* Starting a command: the token, the id, the registration. *)

\* A future ends before it owns a registration.
Refuse(c, o) ==
  /\ pc' = [pc EXCEPT ![c] = "done"]
  /\ outcome' = [outcome EXCEPT ![c] = o]

\* Mutant: a token that was used is claimed again.
CanClaimAgain(t) == TRUE

\* CommandDispatch::claim on the first poll.
CanClaim(t) == t \in Tokens => token[t] = 0

\* send_impl / send_to_session_for_completion up to the claim. Only the first
\* attempt with a token goes on; a filtered method is answered without a frame.
Start(c, k, t, s) ==
  /\ pc[c] = "idle" /\ ~dropped
  /\ k = "completion" => t # NoToken
  /\ (k = "completion") <=> (s # NoSession)
  /\ kind' = [kind EXCEPT ![c] = k]
  /\ tok' = [tok EXCEPT ![c] = t]
  /\ sess' = [sess EXCEPT ![c] = s]
  /\ \/ /\ ~CanClaim(t)
        /\ Refuse(c, "refused")
        /\ UNCHANGED token
     \/ /\ CanClaim(t)
        /\ token' = [u \in Tokens |-> IF u = t THEN 1 ELSE token[u]]
        /\ IF k = "blocked"
           THEN Refuse(c, "blocked")
           ELSE /\ pc' = [pc EXCEPT ![c] = "claimed"]
                /\ UNCHANGED outcome
  /\ UNCHANGED <<idVars, mapVars, writer, frameVars, closed, socketDown,
                 readerVars, closeVars>>

\* prepare_command: the first closed check and next_id.fetch_add.
AssignId(c) ==
  /\ pc[c] = "claimed"
  /\ IF IsClosed
     THEN Refuse(c, "refused") /\ UNCHANGED idVars
     ELSE /\ id' = [id EXCEPT ![c] = nextId]
          /\ nextId' = nextId + 1
          /\ pc' = [pc EXCEPT ![c] = "numbered"]
          /\ UNCHANGED outcome
  /\ UNCHANGED <<cmdVars, token, mapVars, writer, frameVars, closed, socketDown,
                 readerVars, closeVars>>

\* The checks prepare_command makes while it holds the pending lock.
MayRegister(c) ==
  /\ ~IsClosed
  /\ kind[c] = "completion" => routes[sess[c]] = 0

\* prepare_command under the pending lock: closed again, the completion route,
\* the map entry.
Register(c) ==
  /\ pc[c] = "numbered"
  /\ IF MayRegister(c)
     THEN /\ pending' = {p \in pending : p.id # id[c]} \cup {[id |-> id[c], to |-> c]}
          /\ routes' = [s \in Sessions |->
                         IF kind[c] = "completion" /\ s = sess[c] THEN id[c] ELSE routes[s]]
          /\ pc' = [pc EXCEPT ![c] = "queued"]
          /\ UNCHANGED outcome
     ELSE Refuse(c, "refused") /\ UNCHANGED <<pending, routes>>
  /\ UNCHANGED <<cmdVars, idVars, token, mail, writer, frameVars, closed, socketDown,
                 readerVars, closeVars>>

-----------------------------------------------------------------------------
(* Ending a command. *)

WriterWithout(h) == IF writer = h THEN Free ELSE writer

\* The future ends: its registration leaves the pending map and, in a later
\* critical section, the completion routes.
Settle(c, o) ==
  /\ pc' = [pc EXCEPT ![c] = IF kind[c] = "completion" THEN "unrouting" ELSE "done"]
  /\ outcome' = [outcome EXCEPT ![c] = o]
  /\ pending' = {p \in pending : p.id # id[c]}
  /\ writer' = WriterWithout(c)

\* send_to_session_for_completion hands the registration to its caller when the
\* write failed after the frame may have entered the sink.
KeepsRegistration(c) == kind[c] = "completion" /\ token[tok[c]] = 2

\* Mutant: the registration is dropped although the response is handed out.
WriteEndedUnregistered(c, o) ==
  /\ pc' = [pc EXCEPT ![c] = IF KeepsRegistration(c) THEN "waiting" ELSE "done"]
  /\ outcome' = [outcome EXCEPT ![c] = IF KeepsRegistration(c) THEN "none" ELSE o]
  /\ pending' = {p \in pending : p.id # id[c]}
  /\ writer' = WriterWithout(c)

\* A write that ended in an error or a timeout.
WriteEnded(c, o) ==
  IF KeepsRegistration(c)
  THEN /\ pc' = [pc EXCEPT ![c] = "waiting"]
       /\ writer' = WriterWithout(c)
       /\ UNCHANGED <<outcome, pending>>
  ELSE Settle(c, o)

\* Mutant: a drop clears whatever the session's route holds.
RoutesAfterAnyDrop(c) == [s \in Sessions |-> IF s = sess[c] THEN 0 ELSE routes[s]]

\* The route a dropped registration gives back: its own, and no later one.
RoutesAfterDrop(c) ==
  [s \in Sessions |-> IF s = sess[c] /\ routes[s] = id[c] THEN 0 ELSE routes[s]]

\* The second half of PendingRegistration::drop.
Unroute(c) ==
  /\ pc[c] = "unrouting"
  /\ routes' = RoutesAfterDrop(c)
  /\ pc' = [pc EXCEPT ![c] = "done"]
  /\ UNCHANGED <<outcome, cmdVars, idVars, token, pending, mail, writer, frameVars,
                 closed, socketDown, readerVars, closeVars>>

\* CommandResponse::wait: the oneshot resolved.
Receive(c) ==
  /\ pc[c] = "waiting" /\ mail[c] # "empty"
  /\ Settle(c, IF mail[c] = "reply" THEN "reply" ELSE "failed")
  /\ UNCHANGED <<cmdVars, idVars, token, routes, mail, frameVars, closed, socketDown,
                 readerVars, closeVars>>

\* cmd_timeout. A native completion is bounded while it writes only.
Timeout(c) ==
  /\ pc[c] \in Awaiting
  /\ kind[c] = "completion" => pc[c] # "waiting"
  /\ WriteEnded(c, "timeout")
  /\ UNCHANGED <<cmdVars, idVars, token, routes, mail, frameVars, closed, socketDown,
                 readerVars, closeVars>>

\* The caller drops the future, or the response it was handed.
Cancel(c) ==
  /\ pc[c] \in Awaiting
  /\ Settle(c, "cancelled")
  /\ UNCHANGED <<cmdVars, idVars, token, routes, mail, frameVars, closed, socketDown,
                 readerVars, closeVars>>

-----------------------------------------------------------------------------
(* Writing a frame: write_command. *)

\* writer.lock().await, then the closed check.
LockWriter(c) ==
  /\ pc[c] = "queued" /\ writer = Free
  /\ IF IsClosed
     THEN Settle(c, "failed")
     ELSE /\ writer' = c
          /\ pc' = [pc EXCEPT ![c] = "locked"]
          /\ UNCHANGED <<outcome, pending>>
  /\ UNCHANGED <<cmdVars, idVars, token, routes, mail, frameVars, closed, socketDown,
                 readerVars, closeVars>>

\* Mutant: the token is not set before the sink sees the frame.
MarkNothing(c) ==
  /\ pc[c] = "locked"
  /\ pc' = [pc EXCEPT ![c] = "marked"]
  /\ UNCHANGED <<outcome, cmdVars, idVars, token, mapVars, writer, frameVars, closed,
                 socketDown, readerVars, closeVars>>

\* poll_ready succeeded: the token is set before the sink sees the frame.
MarkDispatched(c) ==
  /\ pc[c] = "locked"
  /\ token' = [u \in Tokens |-> IF u = tok[c] THEN 2 ELSE token[u]]
  /\ pc' = [pc EXCEPT ![c] = "marked"]
  /\ UNCHANGED <<outcome, cmdVars, idVars, mapVars, writer, frameVars, closed, socketDown,
                 readerVars, closeVars>>

\* start_send accepted the frame.
StartSend(c) ==
  /\ pc[c] = "marked"
  /\ sink' = Append(sink, Frame(c))
  /\ pc' = [pc EXCEPT ![c] = "flushing"]
  /\ UNCHANGED <<outcome, cmdVars, idVars, token, mapVars, writer, wire, answered, closed,
                 socketDown, readerVars, closeVars>>

\* flush completed: everything the sink held has left.
FlushDone(c) ==
  /\ pc[c] = "flushing" /\ sink = <<>>
  /\ pc' = [pc EXCEPT ![c] = "waiting"]
  /\ writer' = WriterWithout(c)
  /\ UNCHANGED <<outcome, cmdVars, idVars, token, mapVars, frameVars, closed, socketDown,
                 readerVars, closeVars>>

\* poll_ready, start_send or flush failed.
WriteError(c) ==
  /\ pc[c] \in {"locked", "marked", "flushing"}
  /\ WriteEnded(c, "failed")
  /\ UNCHANGED <<cmdVars, idVars, token, routes, mail, frameVars, closed, socketDown,
                 readerVars, closeVars>>

\* Whoever holds the writer and polls the sink moves its oldest frame, which may
\* be one that a cancelled or timed-out writer left behind.
PushFrame ==
  /\ writer # Free /\ sink # <<>> /\ ~socketDown
  /\ wire' = wire \cup {Head(sink)}
  /\ sink' = Tail(sink)
  /\ UNCHANGED <<callerVars, cmdVars, idVars, token, mapVars, writer, answered, closed,
                 socketDown, readerVars, closeVars>>

-----------------------------------------------------------------------------
(* The reader task. *)

\* The entries removed from pending have their oneshot resolved.
Deliver(entries, result) ==
  /\ pending' = pending \ entries
  /\ mail' = [c \in Callers |-> IF \E p \in entries : p.to = c THEN result ELSE mail[c]]

EntriesOf(i) == {p \in pending : p.id = i}

\* Chrome answers a frame it received; an id nobody waits for is ignored.
ReaderResponse(f) ==
  /\ rpc = "read" /\ f \notin answered
  /\ answered' = answered \cup {f}
  /\ Deliver(EntriesOf(f.id), "reply")
  /\ UNCHANGED <<callerVars, cmdVars, idVars, token, routes, writer, sink, wire, closed,
                 socketDown, readerVars, closeVars>>

\* Target.detachedFromTarget: the completion route is taken ...
ReaderDetach(s) ==
  /\ rpc = "read" /\ s \in attached
  /\ attached' = attached \ {s}
  /\ routes' = [routes EXCEPT ![s] = 0]
  /\ IF routes[s] = 0
     THEN UNCHANGED <<rpc, detaching>>
     ELSE rpc' = "detach" /\ detaching' = routes[s]
  /\ UNCHANGED <<callerVars, cmdVars, idVars, token, pending, mail, writer, frameVars,
                 closed, socketDown, autos, closeVars>>

\* ... and, under the pending lock, the command it named is failed.
ReaderFailDetached ==
  /\ rpc = "detach"
  /\ Deliver(EntriesOf(detaching), "lost")
  /\ rpc' = "read" /\ detaching' = 0
  /\ UNCHANGED <<callerVars, cmdVars, idVars, token, routes, writer, frameVars, closed,
                 socketDown, autos, attached, closeVars>>

\* A paused request or authentication challenge the interceptor answers itself.
ReaderAutoReply ==
  /\ rpc = "read" /\ autos < MaxAuto
  /\ autos' = autos + 1
  /\ rpc' = "autoLock"
  /\ UNCHANGED <<callerVars, cmdVars, idVars, token, mapVars, writer, frameVars, closed,
                 socketDown, detaching, attached, closeVars>>

\* write_automatic: the writer lock, the sink, the flush, without a closed check.
ReaderAutoWrite ==
  /\ \/ /\ rpc = "autoLock" /\ writer = Free
        /\ writer' = ReaderTask /\ rpc' = "autoSend"
        /\ UNCHANGED sink
     \/ /\ rpc = "autoSend"
        /\ sink' = Append(sink, AutoFrame) /\ rpc' = "autoFlush"
        /\ UNCHANGED writer
     \/ /\ rpc = "autoFlush" /\ sink = <<>>
        /\ writer' = WriterWithout(ReaderTask) /\ rpc' = "read"
        /\ UNCHANGED sink
  /\ UNCHANGED <<callerVars, cmdVars, idVars, token, mapVars, wire, answered, closed,
                 socketDown, detaching, autos, attached, closeVars>>

\* write_automatic failed or exceeded cmd_timeout: the loop is left.
ReaderAutoFail ==
  /\ rpc \in {"autoLock", "autoSend", "autoFlush"}
  /\ writer' = WriterWithout(ReaderTask)
  /\ rpc' = "broken"
  /\ UNCHANGED <<callerVars, cmdVars, idVars, token, mapVars, frameVars, closed,
                 socketDown, detaching, autos, attached, closeVars>>

\* A close frame, a read error, the end of the stream, an unreadable message or
\* a failed automatic write: closed is stored before anything else.
ReaderStop ==
  /\ rpc \in {"read", "broken"}
  /\ closed' = TRUE
  /\ rpc' = "stopped"
  /\ UNCHANGED <<callerVars, cmdVars, idVars, token, mapVars, writer, frameVars,
                 socketDown, detaching, autos, attached, closeVars>>

\* The shutdown guard is dropped without the writer lock.
ReaderUnplug ==
  /\ rpc = "stopped"
  /\ socketDown' = TRUE
  /\ rpc' = "unplugged"
  /\ UNCHANGED <<callerVars, cmdVars, idVars, token, mapVars, writer, frameVars, closed,
                 detaching, autos, attached, closeVars>>

\* fail_pending, and the task ends.
ReaderDrain ==
  /\ rpc = "unplugged"
  /\ Deliver(pending, "lost")
  /\ rpc' = "finished"
  /\ UNCHANGED <<callerVars, cmdVars, idVars, token, routes, writer, frameVars, closed,
                 socketDown, detaching, autos, attached, closeVars>>

\* handle.abort() takes effect where the reader awaits; its guard shuts the
\* socket down, and nothing is drained.
ReaderAborted ==
  /\ abortRequested /\ rpc \in {"read", "autoLock", "autoSend", "autoFlush"}
  /\ socketDown' = TRUE
  /\ writer' = WriterWithout(ReaderTask)
  /\ rpc' = "aborted"
  /\ UNCHANGED <<callerVars, cmdVars, idVars, token, mapVars, frameVars, closed,
                 detaching, autos, attached, closeVars>>

-----------------------------------------------------------------------------
(* close() and Drop. *)

CloseBegin ==
  /\ kpc \in {"open", "cancelled"} /\ ~dropped
  /\ closed' = TRUE
  /\ kpc' = "framing"
  /\ UNCHANGED <<callerVars, cmdVars, idVars, token, mapVars, writer, frameVars,
                 socketDown, readerVars, abortRequested, dropped>>

\* The best-effort close frame needs the writer.
CloseLock ==
  /\ kpc = "framing" /\ writer = Free
  /\ writer' = CloserTask
  /\ kpc' = "frame"
  /\ UNCHANGED <<callerVars, cmdVars, idVars, token, mapVars, frameVars, closed,
                 socketDown, readerVars, abortRequested, dropped>>

\* It was sent, failed, or exceeded cmd_timeout: close() goes on in each case.
CloseFrameOver ==
  /\ kpc \in {"framing", "frame"}
  /\ writer' = WriterWithout(CloserTask)
  /\ kpc' = "unplug"
  /\ UNCHANGED <<callerVars, cmdVars, idVars, token, mapVars, frameVars, closed,
                 socketDown, readerVars, abortRequested, dropped>>

\* Mutant: the shutdown guard is armed only after the close frame.
CloseCancelUnguarded ==
  /\ kpc \in {"framing", "frame"}
  /\ writer' = WriterWithout(CloserTask)
  /\ kpc' = "cancelled"
  /\ UNCHANGED <<callerVars, cmdVars, idVars, token, mapVars, frameVars, closed,
                 socketDown, readerVars, abortRequested, dropped>>

\* The close() future is dropped at its only await: the guard still shuts the
\* socket down, the rest of close() does not run.
CloseCancel ==
  /\ kpc \in {"framing", "frame"}
  /\ writer' = WriterWithout(CloserTask)
  /\ socketDown' = TRUE
  /\ kpc' = "cancelled"
  /\ UNCHANGED <<callerVars, cmdVars, idVars, token, mapVars, frameVars, closed,
                 readerVars, abortRequested, dropped>>

\* drop(shutdown); handle.abort().
CloseUnplug ==
  /\ kpc = "unplug"
  /\ socketDown' = TRUE /\ abortRequested' = TRUE
  /\ kpc' = "drain"
  /\ UNCHANGED <<callerVars, cmdVars, idVars, token, mapVars, writer, frameVars, closed,
                 readerVars, dropped>>

CloseDrain ==
  /\ kpc = "drain"
  /\ Deliver(pending, "lost")
  /\ kpc' = "closed"
  /\ UNCHANGED <<callerVars, cmdVars, idVars, token, routes, writer, frameVars, closed,
                 socketDown, readerVars, abortRequested, dropped>>

\* A future of send or close borrows the transport; a CommandResponse does not.
Borrows(c) ==
  /\ pc[c] \notin {"idle", "done"}
  /\ ~(kind[c] = "completion" /\ pc[c] \in {"waiting", "unrouting"})

\* Drop for Transport: the same sequence without the close frame.
DropBegin ==
  /\ ~dropped /\ kpc \in {"open", "cancelled", "closed"}
  /\ \A c \in Callers : ~Borrows(c)
  /\ dropped' = TRUE /\ closed' = TRUE
  /\ kpc' = "unplug"
  /\ UNCHANGED <<callerVars, cmdVars, idVars, token, mapVars, writer, frameVars,
                 socketDown, readerVars, abortRequested>>

-----------------------------------------------------------------------------

\* Everything has ended; the only step left is to stay so.
Finished ==
  /\ dropped /\ kpc = "closed"
  /\ rpc \in {"finished", "aborted"}
  /\ \A c \in Callers : pc[c] \in {"idle", "done"}
  /\ UNCHANGED vars

CallerNext(c) ==
  \/ \E k \in Kinds, t \in Tokens \cup {NoToken}, s \in Sessions \cup {NoSession} :
       Start(c, k, t, s)
  \/ AssignId(c) \/ Register(c)
  \/ LockWriter(c) \/ MarkDispatched(c) \/ StartSend(c) \/ FlushDone(c) \/ WriteError(c)
  \/ Receive(c) \/ Timeout(c) \/ Cancel(c) \/ Unroute(c)

ReaderNext ==
  \/ \E f \in wire : ReaderResponse(f)
  \/ \E s \in Sessions : ReaderDetach(s)
  \/ ReaderFailDetached
  \/ ReaderAutoReply \/ ReaderAutoWrite \/ ReaderAutoFail
  \/ ReaderStop \/ ReaderUnplug \/ ReaderDrain \/ ReaderAborted

CloseNext ==
  \/ CloseBegin \/ CloseLock \/ CloseFrameOver \/ CloseCancel
  \/ CloseUnplug \/ CloseDrain \/ DropBegin

Next ==
  \/ \E c \in Callers : CallerNext(c)
  \/ PushFrame
  \/ ReaderNext
  \/ CloseNext
  \/ Finished

\* The runtime polls a ready task and fires an elapsed timer; nothing obliges
\* Chrome to answer, a peer to drop the connection or a caller to cancel.
Polled(c) ==
  AssignId(c) \/ Register(c) \/ MarkDispatched(c) \/ StartSend(c) \/ Receive(c) \/ Unroute(c)

ReaderPolled ==
  \/ ReaderFailDetached \/ ReaderAutoFail \/ ((socketDown \/ rpc = "broken") /\ ReaderStop)
  \/ ReaderUnplug \/ ReaderDrain

ClosePolled == CloseFrameOver \/ CloseUnplug \/ CloseDrain

Fairness ==
  /\ \A c \in Callers : WF_vars(Polled(c)) /\ WF_vars(Timeout(c))
  /\ WF_vars(ReaderPolled) /\ WF_vars(ClosePolled)

Spec == Init /\ [][Next]_vars
FairSpec == Spec /\ Fairness

-----------------------------------------------------------------------------
(* Properties. *)

TypeCommands ==
  /\ pc \in [Callers -> CallerPcs]
  /\ outcome \in [Callers -> Outcomes]
  /\ kind \in [Callers -> Kinds]
  /\ tok \in [Callers -> Tokens \cup {NoToken}]
  /\ sess \in [Callers -> Sessions \cup {NoSession}]
  /\ id \in [Callers -> Nat]
  /\ nextId \in Nat \ {0}
  /\ token \in [Tokens -> 0..2]

TypeMaps ==
  /\ pending \subseteq [id : Nat, to : Callers]
  /\ routes \in [Sessions -> Nat]
  /\ mail \in [Callers -> {"empty", "reply", "lost"}]
  /\ detaching \in Nat

TypeFrames ==
  /\ writer \in Callers \cup {Free, ReaderTask, CloserTask}
  /\ sink \in Seq(Frames)
  /\ wire \subseteq Frames
  /\ answered \subseteq Frames
  /\ autos \in Nat

TypeTasks ==
  /\ closed \in BOOLEAN /\ socketDown \in BOOLEAN
  /\ rpc \in ReaderPcs /\ attached \subseteq Sessions
  /\ kpc \in ClosePcs /\ abortRequested \in BOOLEAN /\ dropped \in BOOLEAN

TypeOK == TypeCommands /\ TypeMaps /\ TypeFrames /\ TypeTasks

Written(c) == Frame(c) \in AllFrames

\* A caller that waits for a reply can still get one: its oneshot is in the
\* pending map or has been resolved. Otherwise the reply, the loss or the drain
\* would pass it by and a native completion would wait for ever
\* (transport.rs prepare_command, fail_pending, CommandResponse::wait).
WaiterCovered ==
  \A c \in Callers : pc[c] \in Registered =>
    [id |-> id[c], to |-> c] \in pending \/ mail[c] # "empty"

\* Once the reader or close() has drained the map nothing enters it again, however
\* a caller between its first closed check and its registration is delayed
\* (transport.rs prepare_command's second check under the pending lock).
DrainedStaysEmpty ==
  rpc = "finished" \/ kpc = "closed" => pending = {}

\* No caller waits for a reply that nobody will deliver, whatever was dropped, drained
\* or registered while the reader or close() ended (prepare_command, fail_pending).
NoWaiterLost == TypeOK /\ WaiterCovered /\ DrainedStaysEmpty

\* A caller is only ever handed the reply to its own frame, whichever commands
\* were cancelled, timed out or answered late around it (reader.rs reply match).
ReplyIsOwn ==
  \A c \in Callers :
    outcome[c] = "reply" \/ mail[c] = "reply" => Frame(c) \in answered

\* may_have_been_sent tells the truth: a frame in the sink or beyond has its
\* token at 2, also when its writer was cancelled in the flush, and of the callers
\* that share a token at most one has a frame (CommandDispatch, write_command).
DispatchObserved ==
  \A c \in Callers : Written(c) /\ tok[c] # NoToken =>
    /\ token[tok[c]] = 2
    /\ \A d \in Callers \ {c} : tok[d] = tok[c] => ~Written(d)

\* The completion routes are neither missing nor leaked. A pending native completion,
\* which has no timeout, is one its session's detach event finds: the route names it,
\* or the reader is about to fail it. And no route outlives the command it names: it
\* would refuse every later completion of the session (prepare_command,
\* PendingRegistration::drop, reader.rs detachedFromTarget).
RoutesMatchPending ==
  /\ \A c \in Callers :
       kind[c] = "completion" /\ [id |-> id[c], to |-> c] \in pending =>
         routes[sess[c]] = id[c] \/ detaching = id[c]
  /\ \A s \in Sessions : routes[s] # 0 =>
       \E c \in Callers :
         /\ kind[c] = "completion" /\ sess[c] = s /\ id[c] = routes[s]
         /\ pc[c] \in Registered \cup {"unrouting"}

\* Every bounded command ends, and once the transport is lost or closed, even by a
\* close() that was itself cancelled, so does every native completion.
EveryCommandSettles ==
  \A c \in Callers :
    pc[c] # "idle" /\ (kind[c] # "completion" \/ IsClosed) ~> pc[c] = "done"

\* A stalled or cancelled writer does not keep the writer mutex for ever.
WriterReleased == writer # Free ~> writer = Free

\* How the transport keeps the contract of a single command.
Status ==
  [c \in Callers |-> IF pc[c] = "idle" THEN "idle"
                     ELSE IF outcome[c] = "none" THEN "open" ELSE "settled"]
Sent == {c \in Callers : Written(c)}
Replied == {c \in Callers : Frame(c) \in answered}

Contract == INSTANCE CommandContract WITH
  status <- Status, sent <- Sent, replied <- Replied

\* Every interleaving of writers, reader and close() is one the contract of a
\* single command allows: it ends once, its frame is written at most once and
\* before its end, and a reply it returns is its own (send_impl, write_command,
\* CommandResponse::wait, reader_loop).
ContractSpec == Contract!Spec

=============================================================================
