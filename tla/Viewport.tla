------------------------------- MODULE Viewport -------------------------------
(***************************************************************************)
(* The device metrics of one tab (cdp/connection/page.rs) that several     *)
(* browser connections of one endpoint set, reset and capture.  Chrome     *)
(* keeps metrics per session and puts a session's own metrics back after   *)
(* a capture, so all handles share one controller session, behind a mutex  *)
(* that only Chrome's reply or the end of the connection gives back.       *)
(*                                                                         *)
(* The clean-up of headers every call waits for first is in HeaderScope.   *)
(***************************************************************************)
EXTENDS Naturals, Sequences, FiniteSets

CONSTANTS
  Conns,     \* connections to the browser
  Callers,   \* callers' futures, one call each
  Conn,      \* the connection of each caller's page handle
  Sizes,     \* metrics to set
  Native,    \* the metrics 0 x 0, the tab's own size
  None

VARIABLES
  joined,      \* connections whose TargetState holds the shared ViewportState
  controller,  \* ViewportState.controller: its session, or None
  metrics,     \* ViewportState.metrics
  guard,       \* the caller whose call, or task, holds the mutex
  pc, op, arg, \* each caller's place and call
  task,        \* the spawned task of the call: "none", "write", "reply"
  step,        \* the command its task is at
  wrote,       \* that command's write reported no error
  result,      \* what the call returned
  open,        \* connections that are open on this side
  linked,      \* connections Chrome has not seen close
  wire,        \* the viewport command of a connection that Chrome has
  over,        \* Chrome's metrics of each session
  doubt        \* a command failed after it was written, nothing succeeded since

state == <<joined, controller, metrics, guard>>
calls == <<pc, op, arg, task, step, wrote, result>>
chrome == <<linked, wire, over>>
vars == <<state, calls, open, chrome, doubt>>

\* A connection's own session of the tab, and the one attached for control.
TabSessions == Conns \X {"own", "control"}
Idle == [cmd |-> "none", sess |-> None, arg |-> None, phase |-> "none"]
ViewportConstants ==
  /\ Conn \in [Callers -> Conns]
  /\ None \notin Callers /\ None \notin Sizes /\ None \notin TabSessions

Init ==
  /\ joined = {} /\ controller = None /\ metrics = None /\ guard = None
  /\ pc = [f \in Callers |-> "idle"]
  /\ op = [f \in Callers |-> "shot"]
  /\ arg = [f \in Callers |-> None]
  /\ task = [f \in Callers |-> "none"]
  /\ step = [f \in Callers |-> 1]
  /\ wrote = [f \in Callers |-> TRUE]
  /\ result = [f \in Callers |-> "none"]
  /\ open = Conns /\ linked = Conns
  /\ wire = [c \in Conns |-> Idle]
  /\ over = [s \in TabSessions |-> None]
  /\ doubt = FALSE

\* The commands of a call; the layout a capture asks for is part of it.
Commands(f) ==
  CASE op[f] = "set"   -> <<"set">>
    [] op[f] = "reset" -> <<"prime", "clear", "capture">>
    [] op[f] = "shot"  -> <<"capture">>
Command(f) == Commands(f)[step[f]]

-----------------------------------------------------------------------------
(* viewport_for_target: connections share the state while any of them, or a *)
(* task, holds it.                                                          *)

Join(c) ==
  /\ c \notin joined /\ c \in open
  /\ joined' = joined \cup {c}
  /\ UNCHANGED <<controller, metrics, guard, calls, open, chrome, doubt>>

\* The state is gone once no connection and no task holds it.
Upheld(holders, g) ==
  IF holders = {} /\ g = None THEN controller' = None /\ metrics' = None
  ELSE UNCHANGED <<controller, metrics>>

Busy(c) == \E f \in Callers : Conn[f] = c /\ pc[f] \notin {"idle", "done"}

\* The last handle of a connection is dropped, and with it its transport; a
\* task that writes holds the transport.
Leave(c) ==
  /\ c \in joined /\ ~Busy(c)
  /\ \A f \in Callers : task[f] = "write" => controller[1] # c
  /\ joined' = joined \ {c} /\ open' = open \ {c}
  /\ Upheld(joined', guard)
  /\ UNCHANGED <<guard, calls, chrome, doubt>>

\* The connection is closed or lost while there are handles.
Close(c) ==
  /\ c \in joined /\ c \in open
  /\ open' = open \ {c}
  /\ UNCHANGED <<state, calls, chrome, doubt>>

-----------------------------------------------------------------------------
(* A call: the guard, the controller, then a task that ends by itself.      *)

Begin(f, o, m) ==
  /\ pc[f] = "idle" /\ Conn[f] \in joined
  /\ o = "set" <=> m # None
  /\ pc' = [pc EXCEPT ![f] = "guard"]
  /\ op' = [op EXCEPT ![f] = o] /\ arg' = [arg EXCEPT ![f] = m]
  /\ UNCHANGED <<state, task, step, wrote, result, open, chrome, doubt>>

Acquire(f) ==
  /\ pc[f] = "guard" /\ guard = None
  /\ guard' = f
  /\ pc' = [pc EXCEPT ![f] = "connect"]
  /\ UNCHANGED <<joined, controller, metrics, op, arg, task, step, wrote, result,
                 open, chrome, doubt>>

Returns(f, r) ==
  /\ pc' = [pc EXCEPT ![f] = "done"]
  /\ result' = [result EXCEPT ![f] = r]

\* The task keeps the guard when its caller's deadline passes or the caller is
\* dropped; before there is a task, the guard goes with the caller.
\* Mutant: the deadline gives the guard back.
GuardAfterAny(f) == IF guard = f THEN None ELSE guard
GuardAfter(f) == IF guard = f /\ task[f] = "none" THEN None ELSE guard

\* Mutant: only a call that has a task has a deadline.
Waits == {"wait"}
Timed == {"guard", "attach", "wait"}

Deadline(f) ==
  /\ pc[f] \in Timed
  /\ Returns(f, "err")
  /\ guard' = GuardAfter(f)
  /\ Upheld(joined, guard')
  /\ UNCHANGED <<joined, op, arg, task, step, wrote, open, chrome, doubt>>

Start(f) ==
  /\ pc' = [pc EXCEPT ![f] = "wait"]
  /\ task' = [task EXCEPT ![f] = "write"]

\* ViewportState::connection: the controller there is, or the first.
Controller(f) == IF controller = None THEN <<Conn[f], "own">> ELSE controller

\* The controller can be used: nobody controls the tab, or somebody whose
\* connection is open.
Alive(f) == Controller(f)[1] \in open

Connect(f) ==
  /\ pc[f] = "connect" /\ Conn[f] \in open
  /\ IF Alive(f) THEN controller' = Controller(f) /\ Start(f)
     ELSE pc' = [pc EXCEPT ![f] = "attach"] /\ UNCHANGED <<controller, task>>
  /\ UNCHANGED <<joined, metrics, guard, op, arg, step, wrote, result, open, chrome, doubt>>

ConnectFails(f) ==
  /\ \/ pc[f] = "connect" /\ Conn[f] \notin open
     \/ pc[f] = "attach"
  /\ Returns(f, "err")
  /\ guard' = None
  /\ UNCHANGED <<joined, controller, metrics, op, arg, task, step, wrote, open,
                 chrome, doubt>>

\* Mutant: the metrics of the lost controller are taken for the new one's.
MetricsCarried == metrics
MetricsOfNew == None

\* The attachment's reply: a new session takes over.
Attached(f) ==
  /\ pc[f] = "attach" /\ Conn[f] \in open
  /\ controller' = <<Conn[f], "control">>
  /\ metrics' = MetricsOfNew /\ doubt' = FALSE
  /\ Start(f)
  /\ UNCHANGED <<joined, guard, op, arg, step, wrote, result, open, chrome>>

-----------------------------------------------------------------------------
(* complete_command, in the task.                                           *)

\* The task ends: the guard is given back, and the caller, if it still waits,
\* is told.
Ends(f, r) ==
  /\ task' = [task EXCEPT ![f] = "none"]
  /\ guard' = None
  /\ IF pc[f] = "wait" THEN Returns(f, r) ELSE UNCHANGED <<pc, result>>

Fails(f) ==
  /\ Ends(f, "err")
  /\ Upheld(joined, None)
  /\ UNCHANGED <<joined, op, arg, step, wrote>>

\* The frame is written, or the writer reports an error after it may have been.
Write(f, ok) ==
  /\ task[f] = "write" /\ controller[1] \in open
  /\ wire' = [wire EXCEPT ![controller[1]] =
                [cmd |-> Command(f), sess |-> controller, arg |-> arg[f], phase |-> "sent"]]
  /\ wrote' = [wrote EXCEPT ![f] = ok]
  /\ task' = [task EXCEPT ![f] = "reply"]
  /\ UNCHANGED <<state, pc, op, arg, step, result, open, linked, over, doubt>>

\* Nothing is written: the connection is gone, the writer fails before it has
\* the frame, or Chrome does not tell the layout.  A reset that primed the
\* session is then half done.
WriteFails(f) ==
  /\ task[f] = "write"
  /\ Fails(f)
  /\ doubt' = (doubt \/ Command(f) = "clear")
  /\ UNCHANGED <<open, chrome>>

\* Chrome's metrics of the session as a successful reply tells them.
Learnt(f) ==
  CASE Command(f) = "set"   -> arg[f]
    [] Command(f) = "clear" -> None
    [] OTHER                -> metrics

\* The reply to the task's command.
Reply(f) ==
  LET w == wire[controller[1]] ok == w.phase = "ok" /\ wrote[f] IN
  /\ task[f] = "reply" /\ w.phase \in {"ok", "refused"}
  /\ wire' = [wire EXCEPT ![controller[1]] = Idle]
  /\ IF ok
     THEN /\ doubt' = (doubt /\ Command(f) \notin {"set", "clear"})
          /\ IF step[f] < Len(Commands(f))
             THEN /\ metrics' = Learnt(f)
                  /\ step' = [step EXCEPT ![f] = @ + 1]
                  /\ task' = [task EXCEPT ![f] = "write"]
                  /\ UNCHANGED <<joined, controller, guard, pc, op, arg, wrote, result>>
             ELSE /\ Ends(f, "ok")
                  /\ IF joined = {} THEN Upheld(joined, None)
                     ELSE metrics' = Learnt(f) /\ UNCHANGED controller
                  /\ UNCHANGED <<joined, op, arg, step, wrote>>
     ELSE /\ doubt' = (doubt \/ Command(f) # "capture") /\ Fails(f)
  /\ UNCHANGED <<open, linked, over>>

\* The connection ends, and with it the wait for the reply.
Disconnected(f) ==
  /\ task[f] = "reply" /\ controller[1] \notin open
  /\ Fails(f) /\ doubt' = TRUE
  /\ UNCHANGED <<open, chrome>>

-----------------------------------------------------------------------------
(* Chrome, as its answers are used.                                         *)

\* What a command makes of the metrics of its session.
Metrics(w) ==
  CASE w.cmd = "set"   -> w.arg
    [] w.cmd = "prime" -> Native
    [] w.cmd = "clear" -> None
    [] OTHER           -> over[w.sess]

ChromeDoes(c) ==
  LET w == wire[c] IN
  /\ c \in linked /\ w.phase = "sent"
  /\ over' = [over EXCEPT ![w.sess] = Metrics(w)]
  /\ wire' = [wire EXCEPT ![c].phase = IF w.cmd = "capture" THEN "capturing" ELSE "ok"]
  /\ UNCHANGED <<state, calls, open, linked, doubt>>

ChromeCaptured(c) ==
  /\ c \in linked /\ wire[c].phase = "capturing"
  /\ wire' = [wire EXCEPT ![c].phase = "ok"]
  /\ UNCHANGED <<state, calls, open, linked, over, doubt>>

ChromeRefuses(c) ==
  /\ c \in linked /\ wire[c].phase = "sent"
  /\ wire' = [wire EXCEPT ![c].phase = "refused"]
  /\ UNCHANGED <<state, calls, open, linked, over, doubt>>

\* Chrome sees a connection close and drops its sessions with their metrics.
Unlink(c) ==
  /\ c \in linked \ open
  /\ linked' = linked \ {c}
  /\ wire' = [wire EXCEPT ![c] = Idle]
  /\ over' = [s \in TabSessions |-> IF s[1] = c THEN None ELSE over[s]]
  /\ UNCHANGED <<state, calls, open, doubt>>

-----------------------------------------------------------------------------

CallerNext(f) ==
  \/ \E o \in {"set", "reset", "shot"}, m \in Sizes \cup {None} : Begin(f, o, m)
  \/ Acquire(f) \/ Deadline(f) \/ Connect(f) \/ ConnectFails(f) \/ Attached(f)
  \/ \E ok \in BOOLEAN : Write(f, ok)
  \/ WriteFails(f) \/ Reply(f) \/ Disconnected(f)

ConnNext(c) ==
  \/ Join(c) \/ Leave(c) \/ Close(c)
  \/ ChromeDoes(c) \/ ChromeCaptured(c) \/ ChromeRefuses(c) \/ Unlink(c)

Next == (\E f \in Callers : CallerNext(f)) \/ (\E c \in Conns : ConnNext(c))
Spec == Init /\ [][Next]_vars

\* A task is polled, a deadline fires, replies are delivered; nothing obliges
\* Chrome to answer.
Polled(f) ==
  \/ Connect(f) \/ ConnectFails(f)
  \/ (\E ok \in BOOLEAN : Write(f, ok)) \/ WriteFails(f) \/ Reply(f) \/ Disconnected(f)

Fairness == \A f \in Callers : WF_vars(Polled(f)) /\ WF_vars(Deadline(f))
FairSpec == Spec /\ Fairness

-----------------------------------------------------------------------------

TypeOK ==
  /\ joined \subseteq Conns /\ open \subseteq linked /\ linked \subseteq Conns
  /\ controller \in TabSessions \cup {None}
  /\ metrics \in Sizes \cup {None}
  /\ guard \in Callers \cup {None}
  /\ pc \in [Callers -> {"idle", "guard", "connect", "attach", "wait", "done"}]
  /\ op \in [Callers -> {"set", "reset", "shot"}]
  /\ arg \in [Callers -> Sizes \cup {None}]
  /\ task \in [Callers -> {"none", "write", "reply"}]
  /\ step \in [Callers -> 1..3]
  /\ wrote \in [Callers -> BOOLEAN]
  /\ result \in [Callers -> {"none", "ok", "err"}]
  /\ \A c \in Conns : wire[c].phase \in {"none", "sent", "capturing", "ok", "refused"}
  /\ over \in [TabSessions -> Sizes \cup {None, Native}]
  /\ doubt \in BOOLEAN

Pending(c) == wire[c].phase # "none"

\* Whatever callers time out or are dropped, Chrome is never given a viewport
\* command of an open connection beside another one: it is the guard's, and it
\* goes to the controller (capture_screenshot, "Chrome's actual reply or
\* session/transport teardown, not a local timeout, releases the coordinator").
OneCommandAtATime ==
  /\ TypeOK
  /\ \A c \in open : Pending(c) =>
       /\ guard # None /\ task[guard] = "reply" /\ wire[c].sess = controller
       /\ \A d \in open : Pending(d) => c = d

\* Metrics are in force only in the controller's session and in sessions of
\* connections that are closing, so no capture puts another handle's size back.
OneController ==
  \A s \in TabSessions : over[s] # None => s = controller \/ s[1] \notin open

\* Chrome has one command of a tab's viewport at a time, and one session has metrics.
ViewportOwned == OneCommandAtATime /\ OneController

\* What the state says of the metrics is what Chrome has for the controller,
\* unless a command failed after it was written and none succeeded since: then
\* a screenshot may be clipped to a size the tab does not have.
MetricsTrue ==
  \/ controller = None \/ doubt
  \/ controller[1] \notin open \/ Pending(controller[1])
  \/ \E f \in Callers : task[f] = "write" /\ Command(f) = "clear"
  \/ over[controller] = metrics

\* Every call returns, though the one before it may hold the guard for ever. (A caller
\* has one call, so those that are open must some time all be over.)
EveryCallEnds ==
  LET Over(f) == pc[f] \in {"idle", "done"}
  IN  (\E f \in Callers : ~Over(f)) ~> (\A f \in Callers : Over(f))

\* The end of the connection ends the task and frees the tab for the others.
TeardownFreesGuard ==
  LET Held == guard # None /\ task[guard] # "none" /\ controller[1] \notin open
  IN  Held ~> ~Held
=============================================================================
