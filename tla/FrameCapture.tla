---------------------------- MODULE FrameCapture ----------------------------
(***************************************************************************)
(* One frame response capture (src/src/page/response_capture.rs) and the   *)
(* routing of its pauses (src/src/cdp/transport/interception.rs).          *)
(* Chrome holds every matching response until somebody continues it: the   *)
(* reader, which hands a pause to the capture's bounded queue or continues *)
(* it itself; the worker, which records and continues it; or the detach of *)
(* the capture's session.  The handle may be stopped or dropped, and the   *)
(* future that starts the capture may be dropped, at any time.             *)
(*                                                                         *)
(* A pause is one response. Headers, URLs and body contents are left out,  *)
(* their sizes are kept where they are budgeted.                           *)
(***************************************************************************)
EXTENDS Naturals, Sequences, FiniteSets

CONSTANTS
  Pauses,        \* responses Chrome pauses on the capture's session
  Own,           \* those of the captured frame; others share its target
  QueueCap,      \* mpsc::channel(64)
  MaxResponses,  \* FrameResponseCaptureOptions
  MaxBody,
  MaxTotal,
  NoPause

CaptureConstants ==
  /\ Own \subseteq Pauses /\ NoPause \notin Pauses
  /\ QueueCap \in Nat \ {0} /\ MaxResponses \in Nat \ {0}
  /\ MaxBody \in Nat /\ MaxTotal \in Nat

VARIABLES
  start,     \* the task that initializes the capture
  handle,    \* the caller: awaiting start, owning, stopping, gone
  stop,      \* the oneshot that ends the worker was sent or dropped
  worker,    \* the worker task
  current,   \* the pause the worker took
  budget,    \* the bytes its body may retain
  queue,     \* the route's channel
  route,     \* the session has an entry in response_routes
  fetch,     \* Fetch is enabled on the session in Chrome
  closed,    \* the transport was lost or closed
  seen,      \* pauses Chrome announced
  held,      \* pauses Chrome has not let go
  events,    \* announcements in the socket
  autos,     \* pauses the reader is about to continue itself
  responses, retained, inFlight, dropped, droppedEvents, errors,
  routed     \* history: pauses handed to the queue

startVars == <<start, handle, stop>>
workerVars == <<worker, current, budget>>
routeVars == <<queue, route, routed>>
chromeVars == <<fetch, closed, seen, held, events, autos>>
report == <<responses, retained, inFlight, dropped, droppedEvents, errors>>
vars == <<startVars, workerVars, routeVars, chromeVars, report>>

\* Worker states in which it awaits, so that stop ends it there.
Awaiting == {"recv", "body", "continue"}
Workers == Awaiting \cup {"none", "over", "closing", "ended"}

Init ==
  /\ start = "attach" /\ handle = "awaiting" /\ stop = FALSE
  /\ worker = "none" /\ current = NoPause /\ budget = 0
  /\ queue = <<>> /\ route = FALSE /\ routed = {}
  /\ fetch = FALSE /\ closed = FALSE
  /\ seen = {} /\ held = {} /\ events = {} /\ autos = {}
  /\ responses = 0 /\ retained = 0 /\ inFlight = 0
  /\ dropped = 0 /\ droppedEvents = 0 /\ errors = 0

\* The worker or the initialization still owns the channel's receiver.
ReceiverAlive == start \in {"enable", "spawn"} \/ worker \in Awaiting

-----------------------------------------------------------------------------
(* start_frame_response_capture, in a task of its own. *)

StartAttach ==
  /\ start = "attach"
  /\ start' \in IF closed THEN {"failed"} ELSE {"install", "failed"}
  /\ UNCHANGED <<handle, stop, workerVars, routeVars, chromeVars, report>>

\* install_response_route ignores a closed transport; the sender is then dropped.
StartInstall ==
  /\ start = "install"
  /\ route' = ~closed
  /\ start' = "enable"
  /\ UNCHANGED <<handle, stop, workerVars, queue, routed, chromeVars, report>>

\* Fetch.enable reaches Chrome or not; its reply may be lost either way.
StartEnable ==
  /\ start = "enable"
  /\ \/ ~closed /\ fetch' = TRUE /\ start' \in {"spawn", "cleanup"}
     \/ UNCHANGED fetch /\ start' = "cleanup"
  /\ UNCHANGED <<handle, stop, workerVars, routeVars, closed, seen, held, events, autos, report>>

\* The worker is spawned and the handle sent; a caller that is gone drops it.
StartSpawn ==
  /\ start = "spawn"
  /\ start' = "done" /\ worker' = "recv"
  /\ IF handle = "awaiting"
     THEN handle' = "owned" /\ UNCHANGED stop
     ELSE stop' = TRUE /\ UNCHANGED handle
  /\ UNCHANGED <<current, budget, routeVars, chromeVars, report>>

\* Drop for Lease: the route goes and a spawned task detaches.
StartCleanup ==
  /\ start = "cleanup"
  /\ route' = FALSE /\ start' = "detach"
  /\ UNCHANGED <<handle, stop, workerVars, queue, routed, chromeVars, report>>

-----------------------------------------------------------------------------
(* Chrome and the reader. *)

\* Chrome pauses a response and sends its event.
Pause(p) ==
  /\ fetch /\ p \notin seen
  /\ seen' = seen \cup {p} /\ held' = held \cup {p} /\ events' = events \cup {p}
  /\ UNCHANGED <<startVars, workerVars, routeVars, fetch, closed, autos, report>>

\* route_response_pause: try_reserve on the session's queue.
CanRoute == route /\ ReceiverAlive /\ Len(queue) < QueueCap

\* Mutant: a pause that found the queue full is counted and forgotten.
RefusedForgotten(p) ==
  /\ droppedEvents' = droppedEvents + (IF route THEN 1 ELSE 0)
  /\ autos' = IF route THEN autos ELSE autos \cup {p}

\* The reader continues what no queue took, and tells an owner that refused it.
Refused(p) ==
  /\ droppedEvents' = droppedEvents + (IF route THEN 1 ELSE 0)
  /\ autos' = autos \cup {p}

\* FetchInterceptor::paused_request.
ReaderRoute(p) ==
  /\ ~closed /\ p \in events
  /\ events' = events \ {p}
  /\ \/ /\ CanRoute
        /\ queue' = Append(queue, p) /\ routed' = routed \cup {p}
        /\ UNCHANGED <<droppedEvents, autos>>
     \/ /\ ~CanRoute
        /\ Refused(p)
        /\ UNCHANGED <<queue, routed>>
  /\ UNCHANGED <<startVars, workerVars, route, fetch, closed, seen, held,
                 responses, retained, inFlight, dropped, errors>>

ReaderContinue(p) ==
  /\ ~closed /\ p \in autos
  /\ autos' = autos \ {p} /\ held' = held \ {p}
  /\ UNCHANGED <<startVars, workerVars, routeVars, fetch, closed, seen, events, report>>

\* The socket is lost or closed: the routes go, and Chrome ends the sessions of
\* the connection and lets their responses go.
Disconnect ==
  /\ ~closed
  /\ closed' = TRUE /\ route' = FALSE
  /\ fetch' = FALSE /\ held' = {} /\ events' = {} /\ autos' = {}
  /\ UNCHANGED <<startVars, workerVars, queue, routed, seen, report>>

-----------------------------------------------------------------------------
(* The worker. *)

\* What the next body may retain: a saturating difference.
BodyBudget ==
  LET left == IF MaxTotal > retained THEN MaxTotal - retained ELSE 0
  IN  IF MaxBody < left THEN MaxBody ELSE left

Full == responses >= MaxResponses

\* recv: a pause of another frame is only continued, one over the limit counted.
WorkerTake ==
  /\ worker = "recv" /\ queue # <<>>
  /\ current' = Head(queue) /\ queue' = Tail(queue)
  /\ \/ /\ current' \in Own /\ ~Full
        /\ worker' = "body" /\ inFlight' = inFlight + 1
        /\ budget' = BodyBudget /\ UNCHANGED dropped
     \/ /\ current' \in Own => Full
        /\ dropped' = dropped + (IF current' \in Own THEN 1 ELSE 0)
        /\ worker' = "continue" /\ UNCHANGED <<inFlight, budget>>
  /\ UNCHANGED <<startVars, route, routed, chromeVars, responses, retained, droppedEvents, errors>>

\* recv: the route's sender is gone and the queue is empty.
WorkerDisconnected ==
  /\ worker = "recv" /\ queue = <<>> /\ ~route
  /\ worker' = "over"
  /\ UNCHANGED <<startVars, current, budget, routeVars, chromeVars, report>>

\* read_body ends, in five seconds at most, with some bytes or none.
WorkerRecord ==
  /\ worker = "body"
  /\ \E n \in 0..budget : retained' = retained + n
  /\ responses' = responses + 1 /\ inFlight' = inFlight - 1
  /\ worker' = "continue"
  /\ UNCHANGED <<startVars, current, budget, routeVars, chromeVars, dropped, droppedEvents, errors>>

\* Fetch.continueRequest: it reached Chrome or not, and was acknowledged or not.
WorkerContinue ==
  /\ worker = "continue"
  /\ \/ ~closed /\ held' = held \ {current} /\ worker' = "recv" /\ UNCHANGED errors
     \/ /\ held' \in {held, held \ {current}}
        /\ worker' = "over" /\ errors' = errors + 1
  /\ current' = NoPause
  /\ UNCHANGED <<startVars, budget, routeVars, fetch, closed, seen, events, autos,
                 responses, retained, inFlight, dropped, droppedEvents>>

\* select polls the loop first: stop wins where the loop has to wait.
WorkerStopped ==
  /\ worker \in Awaiting /\ stop
  /\ worker = "recv" => queue = <<>>
  /\ worker' = "over"
  /\ UNCHANGED <<startVars, current, budget, routeVars, chromeVars, report>>

\* Mutant: the response in flight at stop is forgotten.
CancelledForgotten == dropped' = dropped /\ inFlight' = 0

\* What was in flight counts as dropped.
CancelledCounted == dropped' = dropped + inFlight /\ inFlight' = 0

WorkerCount ==
  /\ worker = "over"
  /\ CancelledCounted
  /\ worker' = "closing"
  /\ UNCHANGED <<startVars, current, budget, routeVars, chromeVars, responses, retained,
                 droppedEvents, errors>>

\* Lease::close: the route goes first; the receiver went with the loop.
WorkerUnroute ==
  /\ worker = "closing" /\ route
  /\ route' = FALSE
  /\ UNCHANGED <<startVars, workerVars, queue, routed, chromeVars, report>>

\* Target.detachFromTarget disables the session's Fetch domain.
Detached == fetch' = FALSE /\ held' = {}

WorkerDetach ==
  /\ worker = "closing" /\ ~route
  /\ Detached
  /\ worker' = "ended"
  /\ UNCHANGED <<startVars, current, budget, routeVars, closed, seen, events, autos, report>>

StartDetach ==
  /\ start = "detach"
  /\ Detached
  /\ start' = "failed"
  /\ UNCHANGED <<handle, stop, workerVars, routeVars, closed, seen, events, autos, report>>

-----------------------------------------------------------------------------
(* The caller. *)

\* Mutant: the worker only ends when stop() asks it to.
SignalStopAsked == FALSE

\* Dropping the handle, or the future of stop(), drops the oneshot's sender.
SignalStop == handle = "owned"

\* The future of capture_frame_responses, or of stop(), or the handle is dropped.
HandleDrop ==
  /\ handle \in {"awaiting", "owned", "stopping"}
  /\ stop' = (stop \/ SignalStop)
  /\ handle' = "gone"
  /\ UNCHANGED <<start, workerVars, routeVars, chromeVars, report>>

HandleFailed ==
  /\ handle = "awaiting" /\ start = "failed"
  /\ handle' = "gone"
  /\ UNCHANGED <<start, stop, workerVars, routeVars, chromeVars, report>>

HandleStop ==
  /\ handle = "owned"
  /\ stop' = TRUE /\ handle' = "stopping"
  /\ UNCHANGED <<start, workerVars, routeVars, chromeVars, report>>

\* stop() joined the worker and returns the report.
HandleStopped ==
  /\ handle = "stopping" /\ worker = "ended"
  /\ handle' = "stopped"
  /\ UNCHANGED <<start, stop, workerVars, routeVars, chromeVars, report>>

Over ==
  /\ handle \in {"gone", "stopped"}
  /\ start = "failed" \/ worker = "ended"
  /\ UNCHANGED vars

StartNext == StartAttach \/ StartInstall \/ StartEnable \/ StartSpawn \/ StartCleanup \/ StartDetach
ReaderNext == Disconnect \/ \E p \in Pauses : Pause(p) \/ ReaderRoute(p) \/ ReaderContinue(p)
WorkerNext ==
  \/ WorkerTake \/ WorkerDisconnected \/ WorkerRecord \/ WorkerContinue \/ WorkerStopped
  \/ WorkerCount \/ WorkerUnroute \/ WorkerDetach
HandleNext == HandleDrop \/ HandleFailed \/ HandleStop \/ HandleStopped

Next == StartNext \/ ReaderNext \/ WorkerNext \/ HandleNext \/ Over

\* Tasks run and their commands have deadlines; the socket takes the detach
\* command or is lost.  Nobody has to stop the capture.
Fairness ==
  /\ WF_vars(StartNext) /\ WF_vars(WorkerNext)
  /\ \A p \in Pauses : WF_vars(ReaderRoute(p)) /\ WF_vars(ReaderContinue(p))

Spec == Init /\ [][Next]_vars
FairSpec == Spec /\ Fairness

-----------------------------------------------------------------------------
(* Properties. *)

Bag(q) == {q[i] : i \in DOMAIN q}
OwnRouted == Cardinality(routed \cap Own)

\* Types, and the report is consistent with where the worker is: something is in
\* flight only while a body is read or just after that was cut short.
TypeOK ==
  /\ worker \in Workers /\ current \in Pauses \cup {NoPause} /\ budget \in 0..MaxBody
  /\ queue \in Seq(Pauses) /\ Len(queue) <= QueueCap
  /\ events \cup autos \cup routed \cup held \subseteq seen
  /\ responses \in Nat /\ retained \in Nat /\ dropped \in Nat /\ droppedEvents \in Nat
  /\ inFlight \in 0..1 /\ errors \in 0..1
  /\ worker = "body" => inFlight = 1
  /\ worker \notin {"body", "over"} => inFlight = 0

\* A response that Chrome holds is in the reader's hands, queued or taken for a worker
\* that is there or about to be, or about to be let go with the session: nobody drops
\* the last thing that would continue it (Lease, capture_loop, paused_request).
HeldInHands ==
  \A p \in held :
    \/ p \in events \cup autos
    \/ p \in Bag(queue) \cup {current} /\ (start = "spawn" \/ worker \in Awaiting)
    \/ worker \in {"over", "closing"} \/ start \in {"cleanup", "detach"}

\* Every response of the frame that the queue took is recorded, counted as dropped,
\* in flight, or still queued: none is lost or counted twice, whenever a snapshot
\* is taken; and the limits hold over the capture's lifetime, though the budget of a
\* body is fixed before it is awaited and charged after (capture_loop). Nor is one that
\* Chrome holds lost sight of.
Accounting ==
  /\ TypeOK /\ HeldInHands
  /\ OwnRouted = responses + dropped + inFlight + Cardinality(Bag(queue) \cap Own)
  /\ responses <= MaxResponses /\ retained <= MaxTotal

\* No response stays paused for ever, although nobody stops the capture: a full
\* queue, a lost continuation and a stop are all answered by somebody.
EveryPauseReleased == \A p \in Pauses : p \in held ~> p \notin held

\* A capture whose caller is gone, at any moment of its start or life, gives its
\* route back and leaves no interception enabled in Chrome.
AbandonedCaptureEnds == handle = "gone" ~> ~fetch /\ ~route

=============================================================================
