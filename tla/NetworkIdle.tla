----------------------------- MODULE NetworkIdle -----------------------------
(***************************************************************************)
(* The network idle monitor of one target (src/src/cdp/network_idle.rs):   *)
(* a private session whose events the reader applies, in order, to a       *)
(* ledger of the top document's fetch and XHR requests, the waits for the  *)
(* ledger to stay empty, and the life of the session's route.              *)
(*                                                                         *)
(* Chrome announces navigations once the Page domain is enabled, requests  *)
(* once the Network domain is.  Events of other frames and resource types  *)
(* are left out.  The clock may advance between any two steps.             *)
(***************************************************************************)
EXTENDS Naturals, Sequences, FiniteSets

CONSTANTS
  Requests,   \* fetch and XHR requests, each made once
  MaxActive,  \* MAX_ACTIVE, 10_000 in the code
  Idle,       \* the quiet period a wait asks for, and its timeout
  Timeout,
  Waiters,    \* calls of wait()
  MaxDoc,     \* bound: navigations
  Backlog,    \* bound: frames in the socket
  MaxTime     \* bound: the clock

IdleConstants ==
  /\ MaxActive \in Nat \ {0} /\ {MaxDoc, Backlog, MaxTime} \subseteq Nat
  /\ {Idle, Timeout} \subseteq Nat

VARIABLES
  doc, loading,      \* Chrome's top document and what is known of its load
  made, live, cut,   \* requests made, running for a document, cut by a navigation
  domain,            \* 0 nothing, 1 Page, 2 lifecycle events, 3 Network enabled
  channel,           \* events and replies of the private session, in order
  fresh,             \* the tab was created for this monitor and is still blank
  setup, answer,     \* the task that starts the monitor and its command's reply
  caller,            \* the future of start()
  route,             \* idle_routes has the session
  ledger,            \* State
  wait,              \* each call of wait()
  detaching,         \* the task of Drop for NetworkMonitor
  lost,              \* the transport was lost or closed
  now,
  busyAt             \* history: when the ledger was last not idle

chrome == <<doc, loading, made, live, cut, domain>>
starting == <<fresh, setup, answer, caller>>
monitor == <<ledger, wait, busyAt>>
vars == <<chrome, channel, starting, route, monitor, detaching, lost, now>>

Docs == 0..MaxDoc
NoDoc == MaxDoc + 1     \* a loader not known yet
Commands == <<"attach", "tree", "page", "lifecycle", "network">>
CommandSet == {Commands[i] : i \in DOMAIN Commands}
Level == [page |-> 1, lifecycle |-> 2, network |-> 3]
NoRequest == "none"
Call(pc, start) == [pc |-> pc, start |-> start, wake |-> 0, woken |-> FALSE]
Event(e, d, r) == [ev |-> e, doc |-> d, req |-> r]

Init ==
  /\ doc = 0 /\ loading = "no" /\ made = {} /\ live = {} /\ cut = {}
  /\ domain = 0 /\ channel = <<>>
  /\ fresh \in BOOLEAN /\ setup = "attach" /\ caller = "waiting"
  /\ answer = [at |-> "asked", doc |-> NoDoc]
  /\ route = FALSE
  /\ ledger = [loader |-> NoDoc, armed |-> FALSE, trusted |-> fresh, loaded |-> fresh,
               active |-> {}, failed |-> FALSE, last |-> 0]
  /\ wait = [w \in Waiters |-> Call("none", 0)]
  /\ detaching = "no" /\ lost = FALSE
  /\ now = 0 /\ busyAt = 0

-----------------------------------------------------------------------------
(* Chrome, as the private session shows it.                                 *)

\* A blank tab is left alone until its monitor is owned. Bounds: the socket's backlog,
\* and nothing more is shown to a ledger that has failed for good.
Unhindered ==
  /\ ~lost /\ (fresh => setup = "owned")
  /\ Len(channel) < Backlog /\ ~ledger.failed

Emit(level, e) == channel' = IF domain >= level THEN Append(channel, e) ELSE channel
InChannel(e) == \E i \in DOMAIN channel : channel[i] = e

StartsLoading ==
  /\ Unhindered /\ loading = "no" /\ doc < MaxDoc
  /\ loading' = "provisional"
  /\ Emit(1, Event("loading", doc, NoRequest))
  /\ UNCHANGED <<doc, made, live, cut, domain>>

\* A new document replaces the old one, whose requests end sooner or later or never.
Commits ==
  /\ Unhindered /\ loading = "provisional"
  /\ doc' = doc + 1 /\ loading' = "committed"
  /\ live' = {x \in live : x[2] = doc'}
  /\ cut' = cut \cup {x[1] : x \in live \ live'}
  /\ Emit(1, Event("navigated", doc', NoRequest))
  /\ UNCHANGED <<made, domain>>

Loads ==
  /\ Unhindered /\ loading = "committed"
  /\ loading' = "loaded"
  /\ Emit(2, Event("load", doc, NoRequest))
  /\ UNCHANGED <<doc, made, live, cut, domain>>

\* The load event of the document before this one comes late.
LoadsLate ==
  /\ Unhindered /\ loading = "committed" /\ ~InChannel(Event("load", doc - 1, NoRequest))
  /\ Emit(2, Event("load", doc - 1, NoRequest))
  /\ UNCHANGED chrome

StopsLoading ==
  /\ Unhindered /\ loading # "no"
  /\ loading' = "no"
  /\ Emit(1, Event("stopped", doc, NoRequest))
  /\ UNCHANGED <<doc, made, live, cut, domain>>

\* A request's event may overtake the one of its document's commit.
Requested(r, d) ==
  /\ Unhindered /\ r \notin made
  /\ d = doc \/ (d = doc + 1 /\ loading = "provisional" /\ domain = 3)
  /\ made' = made \cup {r} /\ live' = live \cup {<<r, d>>}
  /\ Emit(3, Event("started", d, r))
  /\ UNCHANGED <<doc, loading, cut, domain>>

Redirected(r, d) ==
  /\ Unhindered /\ <<r, d>> \in live /\ ~InChannel(Event("started", d, r))
  /\ Emit(3, Event("started", d, r))
  /\ UNCHANGED chrome

Finishes(r) ==
  /\ Unhindered
  /\ r \in cut \/ \E d \in Docs : <<r, d>> \in live
  /\ live' = {x \in live : x[1] # r} /\ cut' = cut \ {r}
  /\ Emit(3, Event("ended", doc, r))
  /\ UNCHANGED <<doc, loading, made, domain>>

\* The target crashed or the session was detached.
Crashes ==
  /\ Unhindered /\ domain > 0
  /\ Emit(1, Event("crashed", doc, NoRequest))
  /\ domain' = 0
  /\ UNCHANGED <<doc, loading, made, live, cut>>

\* A command takes effect and its reply follows the events before it.
Answers ==
  /\ ~lost /\ setup \in CommandSet /\ answer.at = "asked"
  /\ domain' = IF setup \in DOMAIN Level THEN Level[setup] ELSE domain
  /\ channel' = Append(channel, Event("reply", doc, NoRequest))
  /\ answer' = [answer EXCEPT !.at = "sent"]
  /\ UNCHANGED <<doc, loading, made, live, cut, fresh, setup, caller>>

ChromeNext ==
  /\ \/ StartsLoading \/ Commits \/ Loads \/ LoadsLate \/ StopsLoading \/ Crashes
     \/ \E r \in Requests, d \in Docs : Requested(r, d) \/ Redirected(r, d)
     \/ \E r \in Requests : Finishes(r)
  /\ UNCHANGED <<starting, route, monitor, detaching, lost, now>>

AnswersNext == Answers /\ UNCHANGED <<route, monitor, detaching, lost, now>>

-----------------------------------------------------------------------------
(* The ledger.                                                              *)

IsIdle(l) == l.loaded /\ l.active = {}

\* IdleState::wake: every receiver has a version it has not seen.
WokenUp ==
  [w \in Waiters |-> [wait[w] EXCEPT !.woken = wait[w].pc \in {"check", "asleep"}]]

\* Mutant: a failure wakes nobody.
BecomesQuietly(l) ==
  /\ ledger' = l /\ wait' = IF l.failed THEN wait ELSE WokenUp
  /\ busyAt' = IF IsIdle(ledger) /\ IsIdle(l) THEN busyAt ELSE now

\* The ledger changes and wakes the waiters.
Becomes(l) ==
  /\ ledger' = l /\ wait' = WokenUp
  /\ busyAt' = IF IsIdle(ledger) /\ IsIdle(l) THEN busyAt ELSE now

Failed(l) == [l EXCEPT !.failed = TRUE]

\* Mutant: a load event counts whichever document it is of.
LoadCountsAny(l, e) == TRUE
LoadCounts(l, e) == e.doc = l.loader

\* Events that pass the early returns of event().
Heeded(l, e) ==
  /\ ~l.failed
  /\ e.ev = "navigated" => e.doc # l.loader
  /\ e.ev = "load" => LoadCounts(l, e)
  /\ e.ev = "ended" => \E x \in l.active : x[1] = e.req

Navigated(l, d) ==
  [l EXCEPT !.loader = d, !.trusted = l.armed, !.loaded = FALSE,
            !.active = {x \in l.active : x[2] = d}]

\* At the limit the monitor fails rather than forget a request; a redirect keeps its id.
Started(l, d, r) ==
  LET others == {x \in l.active : x[1] # r} IN
  IF others = l.active /\ Cardinality(l.active) >= MaxActive THEN Failed(l)
  ELSE [l EXCEPT !.active = others \cup {<<r, d>>}]

After(l, e) ==
  LET m == [l EXCEPT !.last = now] IN
  CASE e.ev = "navigated" -> Navigated(m, e.doc)
    [] e.ev \in {"loading", "stopped"} -> [m EXCEPT !.loaded = e.ev = "stopped"]
    [] e.ev = "load" -> [m EXCEPT !.loaded = TRUE]
    [] e.ev = "started" -> Started(m, e.doc, e.req)
    [] e.ev = "ended" -> [m EXCEPT !.active = {x \in @ : x[1] # e.req}]
    [] OTHER -> Failed(m)

\* The reader takes the next frame: route_event, or a reply its task still waits for.
Deliver ==
  /\ channel # <<>> /\ ~lost
  /\ channel' = Tail(channel)
  /\ LET e == Head(channel) IN
     IF e.ev = "reply"
     THEN /\ answer' = IF answer.at = "sent" THEN [at |-> "here", doc |-> e.doc] ELSE answer
          /\ UNCHANGED monitor
     ELSE /\ IF route /\ Heeded(ledger, e) THEN Becomes(After(ledger, e))
             ELSE UNCHANGED monitor
          /\ UNCHANGED answer
  /\ UNCHANGED <<chrome, fresh, setup, caller, route, detaching, lost, now>>

\* disconnect: the routes' monitors fail.
Lose ==
  /\ ~lost /\ lost' = TRUE /\ channel' = <<>>
  /\ IF route THEN Becomes(Failed(ledger)) ELSE UNCHANGED monitor
  /\ UNCHANGED <<chrome, starting, route, detaching, now>>

-----------------------------------------------------------------------------
(* start() and Drop.                                                        *)

Ask(c) == setup' = c /\ answer' = [at |-> "asked", doc |-> NoDoc]

\* Drop for NetworkMonitor, with a runtime that detaches the session.
Dropped ==
  /\ setup' = "over" /\ detaching' = "asked"
  /\ Becomes(Failed(ledger))

\* The monitor exists from the attachment on, and its route with it.
Attached ==
  /\ setup = "attach" /\ route' = TRUE
  /\ Ask("tree")
  /\ UNCHANGED monitor

TreeKnown ==
  /\ setup = "tree" /\ ledger' = [ledger EXCEPT !.loader = answer.doc]
  /\ Ask("page")
  /\ UNCHANGED <<route, wait, busyAt>>

Enabled(c, next) ==
  /\ setup = c /\ Ask(next)
  /\ UNCHANGED <<route, monitor>>

\* Set up: what was navigated to meanwhile is not trusted. Nobody may want it any more.
Armed ==
  /\ setup = "network" /\ answer.at = "here"
  /\ LET l == [ledger EXCEPT !.armed = TRUE, !.trusted = fresh] IN
     IF caller = "waiting"
     THEN /\ setup' = "owned" /\ ledger' = l
          /\ UNCHANGED <<wait, busyAt, detaching>>
     ELSE /\ setup' = "over" /\ detaching' = "asked"
          /\ Becomes(Failed(l))
  /\ UNCHANGED <<chrome, channel, fresh, answer, caller, route, lost, now>>

\* A command fails or passes its deadline. Until the attachment there is no monitor.
SetupFails ==
  /\ setup \in CommandSet
  /\ IF setup = "attach" THEN setup' = "over" /\ UNCHANGED <<monitor, detaching>> ELSE Dropped
  /\ UNCHANGED <<chrome, channel, fresh, answer, caller, route, lost, now>>

\* Mutant: the future of start() takes its task with it.
GoneWithTask == setup' = "over"

\* The task goes on without the future of start().
Gone == UNCHANGED setup

CallerGone ==
  /\ setup \in CommandSet /\ caller = "waiting"
  /\ caller' = "gone" /\ Gone
  /\ UNCHANGED <<chrome, channel, fresh, answer, route, monitor, detaching, lost, now>>

\* A wait holds the monitor. Without a runtime only the route goes.
MonitorDrop ==
  /\ setup = "owned" /\ \A w \in Waiters : wait[w].pc \notin {"check", "asleep"}
  /\ \/ Dropped /\ UNCHANGED route
     \/ /\ setup' = "over" /\ route' = FALSE
        /\ Becomes(Failed(ledger)) /\ UNCHANGED detaching
  /\ UNCHANGED <<chrome, channel, fresh, answer, caller, lost, now>>

\* The detach was answered, failed or took five seconds.
DetachEnds ==
  /\ detaching = "asked"
  /\ detaching' = "over" /\ route' = FALSE
  /\ \/ domain' = 0 \/ UNCHANGED domain
  /\ UNCHANGED <<doc, loading, made, live, cut, channel, starting, monitor, lost, now>>

\* remove_target: NetworkMonitor::closed.
TargetClosed ==
  /\ setup = "owned" /\ ~ledger.failed
  /\ Becomes(Failed(ledger))
  /\ UNCHANGED <<chrome, channel, starting, route, detaching, lost, now>>

-----------------------------------------------------------------------------
(* wait().                                                                  *)

Later(a, b) == IF a > b THEN a ELSE b
Sooner(a, b) == IF a < b THEN a ELSE b

BeginWait(w) ==
  /\ setup = "owned" /\ wait[w].pc = "none"
  /\ wait' = [wait EXCEPT ![w] = Call("check", now)]

Deadline(w) == wait[w].start + Timeout
QuietSince(w) == Later(ledger.last, wait[w].start)
WakeAt(w) ==
  IF IsIdle(ledger) THEN Sooner(QuietSince(w) + Idle, Deadline(w)) ELSE Deadline(w)

\* A wait without time succeeds, or fails, as the ledger is when it is polled.
Expired(w) == Timeout # 0 /\ now > Deadline(w)

Check(w) ==
  LET refused == ledger.failed \/ ~ledger.trusted \/ Expired(w)
      quiet == IsIdle(ledger) /\ now >= QuietSince(w) + Idle
      to(pc) == [wait EXCEPT ![w] = Call(pc, 0)]
  IN
  /\ wait[w].pc = "check"
  /\ \/ refused /\ wait' = to("failed")
     \/ ~refused /\ quiet /\ wait' = to("idle")
     \/ ~refused /\ ~quiet /\ now >= Deadline(w) /\ wait' = to("failed")
     \/ ~refused /\ ~quiet /\ now < Deadline(w)
        /\ wait' = [wait EXCEPT ![w].pc = "asleep", ![w].wake = WakeAt(w)]

\* The timer is looked at first, and leaves the version unseen.
Wakes(w) ==
  /\ wait[w].pc = "asleep"
  /\ now >= wait[w].wake \/ wait[w].woken
  /\ wait' = [wait EXCEPT ![w].pc = "check", ![w].woken = @ /\ now >= wait[w].wake]

\* The call is dropped, or its outer timeout passes first.
GiveUp(w) ==
  /\ wait[w].pc \in {"check", "asleep"}
  /\ wait' = [wait EXCEPT ![w] = Call("failed", 0)]

WaitNext ==
  /\ \E w \in Waiters : BeginWait(w) \/ Check(w) \/ Wakes(w) \/ GiveUp(w)
  /\ UNCHANGED <<chrome, channel, starting, route, ledger, busyAt, detaching, lost, now>>

\* Bound: the clock stands still while no wait can look at it.
Tick ==
  /\ setup = "owned" /\ ~ledger.failed /\ now < MaxTime /\ now' = now + 1
  /\ busyAt' = IF IsIdle(ledger) THEN busyAt ELSE now'
  /\ UNCHANGED <<chrome, channel, starting, route, ledger, wait, detaching, lost>>

-----------------------------------------------------------------------------

SetupNext ==
  /\ answer.at = "here"
  /\ Attached \/ TreeKnown \/ Enabled("page", "lifecycle") \/ Enabled("lifecycle", "network")
  /\ UNCHANGED <<chrome, channel, fresh, caller, detaching, lost, now>>

Ended ==
  /\ setup \notin CommandSet /\ detaching # "asked"
  /\ UNCHANGED vars

Next ==
  \/ ChromeNext \/ AnswersNext \/ Deliver \/ Lose
  \/ SetupNext \/ Armed \/ SetupFails \/ CallerGone \/ MonitorDrop \/ DetachEnds \/ TargetClosed
  \/ WaitNext \/ Tick \/ Ended

Spec == Init /\ [][Next]_vars

-----------------------------------------------------------------------------
(* Properties.                                                              *)

\* Types, and the ledger never holds more requests than its limit.
TypeOK ==
  /\ doc \in Docs /\ loading \in {"no", "provisional", "committed", "loaded"}
  /\ made \subseteq Requests /\ live \subseteq Requests \X Docs /\ cut \subseteq Requests
  /\ domain \in 0..3
  /\ \A i \in DOMAIN channel : channel[i].doc \in Docs
  /\ fresh \in BOOLEAN /\ setup \in CommandSet \cup {"owned", "over"}
  /\ answer \in [at : {"asked", "sent", "here"}, doc : Docs \cup {NoDoc}]
  /\ caller \in {"waiting", "gone"} /\ route \in BOOLEAN
  /\ ledger.loader \in Docs \cup {NoDoc} /\ ledger.active \subseteq Requests \X Docs
  /\ \A b \in {"armed", "trusted", "loaded", "failed"} : ledger[b] \in BOOLEAN
  /\ Cardinality(ledger.active) <= MaxActive
  /\ wait \in [Waiters -> [pc : {"none", "check", "asleep", "idle", "failed"},
                           start : 0..MaxTime, wake : 0..MaxTime + Timeout, woken : BOOLEAN]]
  /\ detaching \in {"no", "asked", "over"} /\ lost \in BOOLEAN
  /\ {now, ledger.last, busyAt} \subseteq 0..MaxTime

\* What wait() says is true of Chrome up to events still in the socket: whatever was
\* navigated, redirected or cut short, and whenever the session was set up, the top
\* document has no request running and is not being loaded (IdleState::event, wait).
IdleIsTrue ==
  [][\A w \in Waiters : wait[w].pc = "check" /\ wait'[w].pc = "idle" =>
       \/ \E i \in DOMAIN channel : channel[i].ev = "crashed"
       \/ /\ \A x \in live : x[2] = doc => InChannel(Event("started", doc, x[1]))
          /\ loading \in {"provisional", "committed"} =>
               \E i \in DOMAIN channel : channel[i].ev \in {"loading", "navigated"}]_vars

\* A wait that succeeds saw its whole quiet period, from its own start on, without a
\* moment in which the ledger was not idle, and, if it was given time, does so before its
\* deadline however late it is polled (quiet_since, the expired-wait check).
QuietPeriodKept ==
  [][\A w \in Waiters : wait[w].pc = "check" /\ wait'[w].pc = "idle" =>
       /\ now >= Later(busyAt, wait[w].start) + Idle
       /\ Timeout # 0 => now <= Deadline(w)]_vars

\* No wait sleeps on stale grounds: unless it is about to be woken, nothing has failed
\* and its timer is the one the ledger of now asks for (wake, changed, disconnect).
SleepsOnTheTruth ==
  /\ TypeOK
  /\ \A w \in Waiters : wait[w].pc = "asleep" /\ ~wait[w].woken =>
       /\ ~lost /\ ~ledger.failed /\ ledger.trusted
       /\ wait[w].wake = WakeAt(w)

\* The session's route belongs to a monitor, to the task that sets one up or to the one
\* that detaches it, and a monitor to the caller that got it, wherever start() was
\* abandoned (the owned initialization, Drop for NetworkMonitor).
RouteHasOwner ==
  /\ route => setup # "over" \/ detaching = "asked"
  /\ caller = "gone" => setup # "owned"

\* A wait that succeeds is right about Chrome and has waited its quiet period.
IdleHonest == IdleIsTrue /\ QuietPeriodKept
=============================================================================
