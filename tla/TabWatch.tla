------------------------------- MODULE TabWatch -------------------------------
(***************************************************************************)
(* The two watchers of a browser's tabs: DownloadWatch (download.rs), which *)
(* owns the browser-wide download behaviour and learns which tab opened    *)
(* which, and DestinationWatch (action/destination.rs), by which an action *)
(* tells the tab it opened from older ones, through temporary sessions.    *)
(*                                                                         *)
(* Both subscribe to the broadcast of target events, a bounded buffer that *)
(* makes a slow receiver lag.  Replies and events arrive in the order      *)
(* Chrome sends them.  Any future may be dropped where it awaits.          *)
(***************************************************************************)
EXTENDS Naturals, Sequences, FiniteSets, SequencesExt

CONSTANTS
  Downloads,  \* futures that watch downloads
  Action,     \* the action that watches its destination
  Clients,    \* which of them take part: a set of such sets
  Tabs, Origin,
  Scopes,     \* Destination of the action
  None,
  Depth,      \* generations has_opener_ancestor follows (16)
  Cap,        \* capacity of the broadcast channel
  MaxOpeners, \* 256
  MaxCandidates,  \* 32
  MaxLog      \* bound: target events of a behaviour, for each set of clients

TabConstants ==
  /\ Origin \in Tabs /\ IsFiniteSet(Tabs) /\ Tabs \cap {None, "error"} = {}
  /\ Downloads \cap {Action, "free", "closed", "default"} = {}
  /\ {Depth, Cap, MaxOpeners, MaxCandidates} \subseteq Nat /\ MaxLog \in [Clients -> Nat]
ASSUME TabAssumption == TabConstants

VARIABLES
  clients,
  alive, born, opener, \* Chrome's tabs
  discovering,         \* Chrome sends target events
  discovered,          \* Transport.target_discovery
  log,                 \* the events broadcast so far
  pos,                 \* events each subscriber has read
  slot,                \* the semaphore: "free", its holder or "closed"
  pc,
  try,                 \* which command of a client is the current one
  wire,                \* download commands Chrome has not carried out
  answer,              \* the reply to a client's current command
  behaviour,           \* Chrome's download behaviour: "default" or its owner
  openers,             \* DownloadWatch.openers
  told,                \* the watch reported lost events or a full table
  since,               \* history: events before the watch subscribed
  scope, existing, candidates, originClosed, \* DestinationWatch
  known,               \* candidates with a Page
  older,               \* history: the tabs older than the watch's baseline
  todo, matches, gone, \* one round of check()
  held,                \* tabs with a temporary session in Chrome
  lost,                \* tabs of which a session was given up
  result

tabs == <<alive, born, opener, discovering, log>>
commands == <<slot, try, wire, answer, behaviour>>
ancestry == <<openers, told, since>>
downloads == <<commands, ancestry>>
watch == <<scope, existing, candidates, originClosed, known, older>>
round == <<todo, matches, gone>>
sessions == <<held, lost>>
vars == <<clients, tabs, discovered, pos, pc, downloads, watch, round, sessions, result>>

Futures == Downloads \cup {Action}

Init ==
  /\ clients \in Clients
  /\ \E old \in SUBSET (Tabs \ {Origin}) :
       alive = old \cup {Origin} /\ born = alive
       /\ opener = [t \in Tabs |-> IF t \in old THEN Origin ELSE None]
  /\ discovering = FALSE /\ discovered = FALSE /\ log = <<>>
  /\ pos = [f \in Futures |-> 0] /\ pc = [f \in Futures |-> "idle"]
  /\ slot = "free" /\ wire = <<>> /\ behaviour = "default"
  /\ try = [f \in Futures |-> 0] /\ answer = [f \in Futures |-> "none"]
  /\ openers = [f \in Downloads |-> [t \in {} |-> None]]
  /\ told = [f \in Downloads |-> FALSE] /\ since = [f \in Downloads |-> 0]
  /\ scope \in Scopes
  /\ existing = {} /\ candidates = {} /\ originClosed = FALSE /\ known = {}
  /\ older = {}
  /\ todo = {} /\ matches = {} /\ gone = {}
  /\ held = {} /\ lost = {} /\ result = None

Goto(f, l) == pc' = [pc EXCEPT ![f] = l]

-----------------------------------------------------------------------------
(* Chrome's tabs and their events.                                          *)

\* Chrome names the opener of a tab as long as that is there.
Created(t) ==
  [event |-> "created", tab |-> t, by |-> IF opener[t] \in alive THEN opener[t] ELSE None]

Broadcast(events) == log' = IF discovering THEN log \o events ELSE log

Open(t, o) ==
  /\ t \notin born /\ o \in alive \cup {None} /\ Len(log) < MaxLog[clients]
  /\ alive' = alive \cup {t} /\ born' = born \cup {t}
  /\ opener' = [opener EXCEPT ![t] = o]
  /\ Broadcast(<<[event |-> "created", tab |-> t, by |-> o]>>)
  /\ UNCHANGED <<clients, discovering, discovered, pos, pc, downloads, watch, round,
                 sessions, result>>

\* targetInfoChanged says the same of the opener as targetCreated.
Info(t) ==
  /\ t \in alive /\ discovering /\ Len(log) < MaxLog[clients]
  /\ Broadcast(<<Created(t)>>)
  /\ UNCHANGED <<clients, alive, born, opener, discovering, discovered, pos, pc,
                 downloads, watch, round, sessions, result>>

\* A tab ends, and with it the sessions attached to it.
Destroy(t) ==
  /\ t \in alive
  /\ alive' = alive \ {t} /\ held' = held \ {t}
  /\ Broadcast(<<[event |-> "destroyed", tab |-> t, by |-> None]>>)
  /\ UNCHANGED <<clients, born, opener, discovering, discovered, pos, pc, downloads,
                 watch, round, lost, result>>

-----------------------------------------------------------------------------
(* Subscription and discovery, the same for both.                           *)

Subscribes(f) == pos' = [pos EXCEPT ![f] = Len(log)]

\* ensure_target_discovery, once per transport: Chrome announces the tabs there
\* are when it starts; the caller may see that fail all the same.
Discovery(ok) ==
  /\ \/ /\ ~discovered
        /\ discovering' \in {discovering, TRUE} /\ (ok => discovering')
        /\ discovered' = ok
        /\ \E s \in SetToSeqs(alive) :
           log' = IF ~discovering /\ discovering'
                  THEN log \o [i \in DOMAIN s |-> Created(s[i])] ELSE log
     \/ discovered /\ ok /\ UNCHANGED <<discovering, discovered, log>>
  /\ UNCHANGED <<alive, born, opener>>

Lagged(f) == Len(log) - pos[f] > Cap

-----------------------------------------------------------------------------
(* DownloadWatch: begin, next_event, stop and Drop.                         *)

Acquire(f) ==
  /\ f \in clients \cap Downloads /\ pc[f] = "idle"
  /\ IF slot = "free"
     THEN /\ slot' = f /\ Subscribes(f) /\ Goto(f, "discover")
          /\ since' = [since EXCEPT ![f] = Len(log)]
     ELSE UNCHANGED <<slot, pos, since>> /\ Goto(f, "done")
  /\ UNCHANGED <<clients, tabs, discovered, try, wire, answer, behaviour, openers,
                 told, watch, round, sessions, result>>

\* A command is written, or fails before it is.
Send(f, cmd) ==
  /\ try' = [try EXCEPT ![f] = @ + 1]
  /\ answer' = [answer EXCEPT ![f] = "none"]
  /\ wire' \in {wire, Append(wire, [who |-> f, cmd |-> cmd, try |-> try[f] + 1])}

DiscoverForDownloads(f, ok) ==
  /\ f \in Downloads /\ pc[f] = "discover"
  /\ Discovery(ok)
  /\ IF ok THEN Goto(f, "setting") /\ Send(f, "allow")
     ELSE Goto(f, "restoring") /\ Send(f, "default")
  /\ UNCHANGED <<clients, pos, slot, behaviour, ancestry, watch, round, sessions,
                 result>>

Behave(f) ==
  /\ pc[f] = "setting" /\ answer[f] = "ok"
  /\ Goto(f, "live")
  /\ UNCHANGED <<clients, tabs, discovered, pos, downloads, watch, round, sessions,
                 result>>

\* The watch ends where it awaits or is dropped: a task restores the default.
DropDownloads(f) ==
  /\ f \in Downloads /\ pc[f] \in {"discover", "setting", "live", "stopping"}
  /\ Goto(f, "restoring") /\ Send(f, "default")
  /\ UNCHANGED <<clients, tabs, discovered, pos, slot, behaviour, ancestry, watch,
                 round, sessions, result>>

\* Without a runtime the slot is closed.
DropOutsideRuntime(f) ==
  /\ pc[f] = "live"
  /\ slot' = "closed" /\ Goto(f, "done")
  /\ UNCHANGED <<clients, tabs, discovered, pos, try, wire, answer, behaviour,
                 ancestry, watch, round, sessions, result>>

Stop(f) ==
  /\ pc[f] = "live"
  /\ Goto(f, "stopping") /\ Send(f, "default")
  /\ UNCHANGED <<clients, tabs, discovered, pos, slot, behaviour, ancestry, watch,
                 round, sessions, result>>

\* Mutant: whatever the restoration said, others may begin.
SlotFreed(ok) == "free"
SlotAfter(ok) == IF ok THEN "free" ELSE "closed"

\* The restoration ends: with the reply, or unanswered after five seconds.
Restored(f, ok) ==
  /\ pc[f] \in {"stopping", "restoring"}
  /\ ok => answer[f] = "ok"
  /\ slot' = SlotAfter(ok) /\ Goto(f, "done")
  /\ UNCHANGED <<clients, tabs, discovered, pos, try, wire, answer, behaviour,
                 ancestry, watch, round, sessions, result>>

\* Chrome carries out or refuses the next command; nobody may be waiting.
ChromeDoes(ok) ==
  /\ wire # <<>>
  /\ LET w == Head(wire) IN
     /\ wire' = Tail(wire)
     /\ behaviour' = IF ~ok THEN behaviour
                     ELSE IF w.cmd = "allow" THEN w.who ELSE "default"
     /\ answer' = IF try[w.who] # w.try THEN answer
                  ELSE [answer EXCEPT ![w.who] = IF ok THEN "ok" ELSE "refused"]
  /\ UNCHANGED <<clients, tabs, discovered, pos, slot, pc, try, ancestry, watch,
                 round, sessions, result>>

\* Mutant: the popups of a tab that closes are forgotten.
ForgetClosed(f, e) ==
  IF e.event = "destroyed"
  THEN [t \in DOMAIN openers[f] \ {e.tab} |-> openers[f][t]] ELSE openers[f]

Learnt(f, e) ==
  IF e.by = None THEN openers[f]
  ELSE [t \in DOMAIN openers[f] \cup {e.tab} |->
          IF t = e.tab THEN e.by ELSE openers[f][t]]

\* next_event: the opener of a tab is kept; lost events are an error, as is one
\* tab too many.
NextEvent(f) ==
  /\ pc[f] = "live" /\ pos[f] < Len(log)
  /\ IF Lagged(f)
     THEN /\ told' = [told EXCEPT ![f] = TRUE]
          /\ pos' = [pos EXCEPT ![f] = Len(log) - Cap]
          /\ openers' = openers
     ELSE LET e == log[pos[f] + 1]
              full == e.by # None /\ e.tab \notin DOMAIN openers[f]
                      /\ Cardinality(DOMAIN openers[f]) >= MaxOpeners IN
          /\ pos' = [pos EXCEPT ![f] = @ + 1]
          /\ told' = [told EXCEPT ![f] = @ \/ full]
          /\ openers' = IF full THEN openers ELSE [openers EXCEPT ![f] = Learnt(f, e)]
  /\ UNCHANGED <<clients, tabs, discovered, pc, commands, since, watch, round,
                 sessions, result>>

\* Going from t through n links, each a tab with its opener, leads to a.
Chain(links, t, a, n) ==
  \E p \in [0..n -> Tabs] :
    p[0] = t /\ p[n] = a /\ \A i \in 1..n : <<p[i - 1], p[i]>> \in links

\* has_opener_ancestor: some generation, within Depth, was opened by a.
Kept(f) == {<<t, openers[f][t]>> : t \in DOMAIN openers[f]}
HasOpenerAncestor(f, t, a) == \E n \in 1..Depth : Chain(Kept(f), t, a, n)

-----------------------------------------------------------------------------
(* DestinationWatch::begin and check.                                       *)

Watch ==
  /\ Action \in clients /\ pc[Action] = "idle"
  /\ Subscribes(Action) /\ Goto(Action, "discover")
  /\ UNCHANGED <<clients, tabs, discovered, downloads, watch, round, sessions, result>>

DiscoverForAction(ok) ==
  /\ pc[Action] = "discover"
  /\ Discovery(ok)
  /\ Goto(Action, IF ok THEN "baseline" ELSE "done")
  /\ UNCHANGED <<clients, pos, downloads, watch, round, sessions, result>>

\* Mutant: tabs that are there already are not remembered.
NoBaseline == {}
BaselineTabs == alive

Baseline ==
  /\ pc[Action] = "baseline"
  /\ existing' = BaselineTabs /\ older' = alive /\ Goto(Action, "drain")
  /\ UNCHANGED <<clients, tabs, discovered, pos, downloads, scope, candidates,
                 originClosed, known, round, sessions, result>>

\* What an event makes of the candidates, and what is left of them after the
\* events up to the n-th: those there were, or added, and not removed since.
Adds(e, t) == e.event # "destroyed" /\ e.by = Origin /\ e.tab = t /\ t \notin existing
Removes(e, t) == e.event = "destroyed" /\ e.tab = t
Noted(n) ==
  {t \in Tabs : \E i \in pos[Action]..n :
     /\ IF i = pos[Action] THEN t \in candidates ELSE Adds(log[i], t)
     /\ \A j \in i + 1..n : ~Removes(log[j], t)}

Unread == pos[Action] + 1..Len(log)
TooMany == \E n \in Unread : Cardinality(Noted(n)) > MaxCandidates

\* try_recv until the buffer is empty.
Drain ==
  LET cs == Noted(Len(log)) IN
  /\ pc[Action] = "drain" /\ ~Lagged(Action) /\ ~TooMany
  /\ candidates' = cs /\ known' = known \cap cs
  /\ originClosed' = (originClosed \/ \E i \in Unread : Removes(log[i], Origin))
  /\ pos' = [pos EXCEPT ![Action] = Len(log)]
  /\ todo' = cs /\ matches' = {} /\ gone' = {}
  /\ Goto(Action, IF scope # "NewTab" /\ ~originClosed' THEN "origin" ELSE "check")
  /\ UNCHANGED <<clients, tabs, discovered, downloads, scope, existing, older,
                 sessions, result>>

\* Drop for DestinationWatch: a task detaches the sessions of the candidates.
Finish(r) == result' = r /\ Goto(Action, "detach")

DrainFails ==
  /\ pc[Action] = "drain"
  /\ Lagged(Action) \/ TooMany
  /\ Finish("error")
  /\ UNCHANGED <<clients, tabs, discovered, pos, downloads, watch, round, sessions>>

\* observe(): what a look at the page finds.  A tab that ended is closed; one
\* that is not active says so too.
Looks(t) == IF t \in alive THEN {"matches", "pending", "closed"} ELSE {"closed"}

ObserveOrigin ==
  /\ pc[Action] = "origin"
  /\ \E o \in Looks(Origin) :
       /\ matches' = IF o = "matches" THEN {Origin} ELSE {}
       /\ originClosed' = (o = "closed")
  /\ Goto(Action, "check")
  /\ UNCHANGED <<clients, tabs, discovered, pos, downloads, scope, existing, older,
                 candidates, known, todo, gone, sessions, result>>

\* attach_frame_target, for a candidate that has no page yet.  Whoever is dropped
\* before the reply, or sees it fail, never knows the session Chrome made.
Attach(t) ==
  /\ pc[Action] = "check" /\ t \in todo \ known
  /\ IF t \in alive
     THEN /\ held' = held \cup {t} /\ UNCHANGED <<todo, gone>>
          /\ \/ known' = known \cup {t} /\ UNCHANGED <<pc, lost, result>>
             \/ lost' = lost \cup {t} /\ Finish("error") /\ UNCHANGED known
     ELSE /\ gone' = gone \cup {t} /\ todo' = todo \ {t}
          /\ UNCHANGED <<known, held, lost, pc, result>>
  /\ UNCHANGED <<clients, tabs, discovered, pos, downloads, scope, existing, older,
                 candidates, originClosed, matches>>

Observe(t) ==
  /\ pc[Action] = "check" /\ t \in todo \cap known
  /\ todo' = todo \ {t}
  /\ \E o \in Looks(t) :
       /\ matches' = IF o = "matches" THEN matches \cup {t} ELSE matches
       /\ gone' = IF o = "closed" THEN gone \cup {t} ELSE gone
  /\ UNCHANGED <<clients, tabs, discovered, pos, pc, downloads, watch, sessions,
                 result>>

\* The round is over: nothing matches, one page does, or several do.
Decide ==
  /\ pc[Action] = "check" /\ todo = {}
  /\ candidates' = candidates \ gone /\ known' = known \ gone
  /\ lost' = lost \cup (known \cap gone)
  /\ \/ matches = {} /\ Goto(Action, "drain") /\ UNCHANGED result
     \/ \E t \in matches : matches = {t} /\ Finish(t)
     \/ Cardinality(matches) > 1 /\ Finish("error")
  /\ UNCHANGED <<clients, tabs, discovered, pos, downloads, scope, existing, older,
                 originClosed, round, held>>

\* A command fails, the deadline passes, or the action is dropped.
Abandon ==
  /\ pc[Action] \in {"discover", "baseline", "drain", "origin", "check"}
  /\ Finish("error")
  /\ UNCHANGED <<clients, tabs, discovered, pos, downloads, watch, round, sessions>>

\* Mutant: only the tab that was chosen is detached.
DetachedChosen == known \cap {result}
Detached == known

\* The task's detaches; one that fails within two seconds is given up.
Detach(ok) ==
  /\ pc[Action] = "detach"
  /\ \/ \E t \in Detached : /\ known' = known \ {t}
                            /\ held' = IF ok /\ t \notin lost THEN held \ {t} ELSE held
                            /\ lost' = IF ok THEN lost ELSE lost \cup {t}
                            /\ UNCHANGED pc
     \/ Detached = {} /\ Goto(Action, "done") /\ UNCHANGED <<known, held, lost>>
  /\ UNCHANGED <<clients, tabs, discovered, pos, downloads, scope, existing, older,
                 candidates, originClosed, round, result>>

-----------------------------------------------------------------------------

DownloadNext(f) ==
  \/ Acquire(f) \/ Behave(f) \/ DropDownloads(f) \/ DropOutsideRuntime(f) \/ Stop(f)
  \/ NextEvent(f)
  \/ \E ok \in BOOLEAN : DiscoverForDownloads(f, ok) \/ Restored(f, ok)

ActionNext ==
  \/ Watch \/ Baseline \/ Drain \/ DrainFails \/ ObserveOrigin \/ Decide
  \/ Abandon
  \/ \E t \in Tabs : Attach(t) \/ Observe(t)
  \/ \E ok \in BOOLEAN : DiscoverForAction(ok) \/ Detach(ok)

TabNext(t) == (\E o \in Tabs \cup {None} : Open(t, o)) \/ Info(t) \/ Destroy(t)

Next ==
  \/ \E f \in Downloads : DownloadNext(f)
  \/ ActionNext
  \/ \E t \in Tabs : TabNext(t)
  \/ \E ok \in BOOLEAN : ChromeDoes(ok)

Spec == Init /\ [][Next]_vars

-----------------------------------------------------------------------------

TypeOK ==
  /\ alive \subseteq born /\ born \subseteq Tabs /\ opener \in [Tabs -> Tabs \cup {None}]
  /\ discovering \in BOOLEAN /\ discovered \in BOOLEAN
  /\ \A f \in Futures : pos[f] \in 0..Len(log) /\ try[f] \in Nat
  /\ slot \in Downloads \cup {"free", "closed"}
  /\ behaviour \in Downloads \cup {"default"}
  /\ \A f \in Downloads :
       /\ pc[f] \in {"idle", "discover", "setting", "live", "stopping", "restoring", "done"}
       /\ DOMAIN openers[f] \subseteq Tabs
       /\ Cardinality(DOMAIN openers[f]) <= MaxOpeners
  /\ pc[Action] \in {"idle", "discover", "baseline", "drain", "origin", "check", "detach",
                     "done"}
  /\ existing \cup candidates \cup known \cup todo \cup matches \cup gone \subseteq Tabs
  /\ Cardinality(candidates) <= MaxCandidates
  /\ held \cup lost \subseteq Tabs

\* Chrome has the behaviour of the watch that is live, and whoever finds the slot
\* free finds Chrome's default, with no forgotten command still on its way:
\* dropped, timed-out and failed watches are restored or block the slot.
BehaviourOwned ==
  /\ TypeOK
  /\ slot = "free" => behaviour = "default" /\ \A i \in DOMAIN wire : wire[i].cmd # "allow"
  /\ \A f \in Downloads : pc[f] = "live" => slot = f /\ behaviour = f

\* The tabs a live watch has been told of, with their openers.
Announced(f) ==
  {e \in Tabs \X Tabs : \E i \in since[f] + 1..pos[f] :
     log[i].event = "created" /\ log[i].tab = e[1] /\ log[i].by = e[2]}

\* A popup is attributed to its true ancestors only; and to each of them within
\* Depth that was announced, though it and they have closed, unless the watch
\* has reported a loss.
AncestryTrue ==
  \A f \in Downloads : pc[f] = "live" => \A t, a \in Tabs :
    /\ HasOpenerAncestor(f, t, a) =>
         \E n \in 1..Depth : Chain({<<u, opener[u]>> : u \in Tabs}, t, a, n)
    /\ ~told[f] /\ (\E n \in 1..Depth : Chain(Announced(f), t, a, n)) =>
         HasOpenerAncestor(f, t, a)

\* The destination of an action is its own tab, or a tab it opened since its
\* baseline; never one that was there, though discovery announces that again.
DestinationIsOwn ==
  result \in Tabs =>
    \/ result = Origin /\ scope # "NewTab"
    \/ opener[result] = Origin /\ result \notin older

\* When a watch is over, Chrome keeps a temporary session only where its attachment, or its
\* end, was never seen, or where its page was called closed while it lives.
SessionsReturned == pc[Action] = "done" => held \subseteq lost
=============================================================================
