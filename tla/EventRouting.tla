----------------------------- MODULE EventRouting -----------------------------
(***************************************************************************)
(* What the transport's reader does with the events of Chrome: the requests *)
(* and authentication challenges Chrome pauses go to the owner of a request *)
(* route or are answered by the reader (transport/interception.rs); the     *)
(* other events are broadcast, among others to a NetworkWatcher             *)
(* (network.rs), a bounded table of requests fed by a pump of the caller.   *)
(*                                                                         *)
(* One session.  Every request carries the header X-Client-Data.            *)
(***************************************************************************)
EXTENDS Naturals, Sequences, FiniteSets

CONSTANTS
  Requests,
  Owners,       \* tasks that own the request route for a while
  Pump,         \* the task that feeds the NetworkWatcher
  Late,         \* another subscriber
  Cases,        \* who takes part under which policy: records of Init's variables
  None,
  QueueCap,     \* capacity of a route's queue
  LogCap,       \* EVENT_CHANNEL_CAP
  TableCap,     \* MAX_INFLIGHT_REQUESTS
  StreamCap     \* capacity of the watcher's channel

ASSUME RoutingAssumption ==
  /\ None \notin Requests \cup Owners /\ Pump # Late
  /\ {QueueCap, LogCap, TableCap, StreamCap} \subseteq Nat \ {0}
  /\ \A c \in Cases : c.strip \in BOOLEAN /\ c.auth \in BOOLEAN

VARIABLES
  clients,
  strip, auth,         \* the transport's policy: header stripping, proxy credentials
  req, stage,          \* Chrome's requests
  challenge,           \* their authentication challenges
  fetch, handlesAuth,  \* Chrome's Fetch domain: "off", "manual" or "all"
  unclean,             \* requests that left Chrome with the header
  line, wire,          \* events to the reader, commands to Chrome
  closed, rpc, reply,  \* Transport.closed; the reader and the reply it writes
  route,               \* the owner in request_routes
  pc, queue,           \* the owners and their queues
  hands, token,        \* the pause an owner continues and its CommandDispatch
  log, subs, pos,      \* the broadcast and its receivers
  table, stream,       \* NetworkWatcher: requests and the channel of NetworkEvents
  started, forgotten   \* history: RequestStarted events; requests evicted or cleared

chrome == <<req, stage, challenge, fetch, handlesAuth, unclean>>
reader == <<closed, rpc, reply>>
owners == <<pc, queue, hands, token>>
watcher == <<table, stream, started, forgotten>>
broadcast == <<log, subs, pos>>
fixed == <<clients, strip, auth>>
vars == <<fixed, chrome, line, wire, reader, route, owners, broadcast, watcher>>

Subscribers == {Pump, Late}
Base == strip \/ auth

Init ==
  /\ \E c \in Cases : clients = c.clients /\ strip = c.strip /\ auth = c.auth
  /\ req = [r \in Requests |-> "new"] /\ stage = [r \in Requests |-> "request"]
  /\ challenge = [r \in Requests |-> "none"]
  /\ fetch = (IF Base THEN "all" ELSE "off") /\ handlesAuth = auth
  /\ unclean = {} /\ line = <<>> /\ wire = <<>>
  /\ closed = FALSE /\ rpc = "read" /\ reply = None /\ route = None
  /\ pc = [o \in Owners |-> "idle"] /\ queue = [o \in Owners |-> <<>>]
  /\ hands = [o \in Owners |-> None] /\ token = [o \in Owners |-> FALSE]
  /\ log = <<>> /\ subs = [k \in Subscribers |-> "idle"] /\ pos = [k \in Subscribers |-> 0]
  /\ table = [r \in {} |-> None] /\ stream = <<>>
  /\ started = [r \in Requests |-> 0] /\ forgotten = {}

-----------------------------------------------------------------------------
(* Chrome.  A session ends with its connection; what was paused goes on.    *)

Connected == rpc \in {"read", "reply"}
Event(k, r) == [event |-> k, request |-> r]
\* Events that are only broadcast are left out where no receiver takes part.
Tells(public, fetched) ==
  line' = line \o (IF Pump \in clients THEN public ELSE <<>>) \o fetched
Leaves(r, clean) ==
  /\ req' = [req EXCEPT ![r] = "sent"]
  /\ unclean' = IF clean THEN unclean ELSE unclean \cup {r}

\* Patterns of a caller may match or not, at either stage; a response is paused
\* for a frame capture too.
Request(r) ==
  /\ Connected /\ req[r] = "new"
  /\ \/ /\ fetch \in {"all", "manual"}
        /\ stage' \in {[stage EXCEPT ![r] = s] : s \in {"request", "response"}}
        /\ req' = [req EXCEPT ![r] = "paused"] /\ UNCHANGED unclean
        /\ Tells(<<Event("sent", r)>>, <<Event("paused", r)>>)
     \/ /\ fetch # "all"
        /\ Leaves(r, FALSE) /\ Tells(<<Event("sent", r)>>, <<>>) /\ UNCHANGED stage
  /\ UNCHANGED <<fixed, challenge, fetch, handlesAuth, wire, reader, route, owners,
                 broadcast, watcher>>

Challenge(r) ==
  /\ Connected /\ handlesAuth /\ req[r] = "sent" /\ challenge[r] = "none"
  /\ challenge' = [challenge EXCEPT ![r] = "waiting"]
  /\ Tells(<<>>, <<Event("auth", r)>>)
  /\ UNCHANGED <<fixed, req, stage, fetch, handlesAuth, unclean, wire, reader, route,
                 owners, broadcast, watcher>>

\* A redirect has its request's id.
Redirect(r) ==
  /\ Connected /\ Pump \in clients /\ req[r] = "sent" /\ challenge[r] # "waiting"
  /\ req' = [req EXCEPT ![r] = "redirected"]
  /\ Tells(<<Event("sent", r)>>, <<>>)
  /\ UNCHANGED <<fixed, stage, challenge, fetch, handlesAuth, unclean, wire, reader,
                 route, owners, broadcast, watcher>>

Ends(r, how) ==
  /\ Connected /\ Pump \in clients
  /\ req[r] \in {"sent", "redirected"} /\ challenge[r] # "waiting"
  /\ req' = [req EXCEPT ![r] = how]
  /\ Tells(IF how = "finished" THEN <<Event("answered", r), Event(how, r)>>
           ELSE <<Event(how, r)>>, <<>>)
  /\ UNCHANGED <<fixed, stage, challenge, fetch, handlesAuth, unclean, wire, reader,
                 route, owners, broadcast, watcher>>

\* Continuations of what is not paused are refused, as are headers for a response.
ChromeDoes ==
  /\ wire # <<>> /\ wire' = Tail(wire)
  /\ LET w == Head(wire)
         r == w.request IN
     CASE w.cmd = "continueRequest" ->
            /\ IF req[r] = "paused" /\ (w.headers => stage[r] = "request")
               THEN Leaves(r, w.headers \/ stage[r] = "response")
               ELSE UNCHANGED <<req, unclean>>
            /\ UNCHANGED <<challenge, fetch, handlesAuth>>
       [] w.cmd = "continueWithAuth" ->
            /\ challenge' = [challenge EXCEPT ![r] = "answered"]
            /\ UNCHANGED <<req, unclean, fetch, handlesAuth>>
       [] w.cmd = "fetch" ->
            /\ fetch' = w.mode /\ handlesAuth' = w.auth
            /\ IF w.mode = "off"
               THEN /\ req' = [q \in Requests |-> IF req[q] = "paused" THEN "sent" ELSE req[q]]
                    /\ unclean' = unclean \cup
                         {q \in Requests : req[q] = "paused" /\ stage[q] = "request"}
               ELSE UNCHANGED <<req, unclean>>
            /\ UNCHANGED challenge
  /\ UNCHANGED <<fixed, stage, line, reader, route, owners, broadcast, watcher>>

-----------------------------------------------------------------------------
(* The reader: FetchInterceptor::on_event and the broadcast.                *)

Command(cmd, r, headers, mode, a) ==
  [cmd |-> cmd, request |-> r, headers |-> headers, mode |-> mode, auth |-> a]

\* continuation_params: the policy for headers is that of requests alone.
Continuation(r) ==
  Command("continueRequest", r, strip /\ stage[r] = "request", "none", FALSE)

Live(o) == pc[o] \in {"installed", "leaving"}
RouteTakes(r) ==
  /\ stage[r] = "request" /\ route # None
  /\ Live(route) /\ Len(queue[route]) < QueueCap

\* Mutant: the sender outlives the reader.
SenderHeld == TRUE
\* The reader owns the only strong sender of the broadcast.
SenderAlive == rpc # "finished"

Publish(e) ==
  log' = IF \E k \in Subscribers : subs[k] = "live" THEN Append(log, e) ELSE log

\* route_request_pause refused it: the reader continues it.
Refused(r) == reply' = Continuation(r) /\ rpc' = "reply"

ReadEvent ==
  /\ rpc = "read" /\ line # <<>> /\ line' = Tail(line)
  /\ LET e == Head(line)
         r == e.request IN
     \/ /\ e.event = "paused" /\ RouteTakes(r)
        /\ queue' = [queue EXCEPT ![route] = Append(@, r)]
        /\ UNCHANGED <<rpc, reply, log>>
     \/ /\ e.event = "paused" /\ ~RouteTakes(r)
        /\ Refused(r)
        /\ UNCHANGED <<queue, log>>
     \/ /\ e.event = "auth" /\ auth
        /\ reply' = Command("continueWithAuth", r, FALSE, "none", FALSE) /\ rpc' = "reply"
        /\ UNCHANGED <<queue, log>>
     \/ /\ e.event # "paused" /\ ~(e.event = "auth" /\ auth)
        /\ Publish(e) /\ UNCHANGED <<queue, rpc, reply>>
  /\ UNCHANGED <<fixed, chrome, wire, closed, route, pc, hands, token, subs, pos,
                 watcher>>

\* write_automatic: within its time the reply is written, or the reader ends.
WriteReply ==
  /\ rpc = "reply"
  /\ wire' = Append(wire, reply) /\ rpc' = "read" /\ reply' = None
  /\ UNCHANGED <<fixed, chrome, line, closed, route, owners, broadcast, watcher>>

\* Transport::close begins.
Close ==
  /\ ~closed /\ closed' = TRUE
  /\ UNCHANGED <<fixed, chrome, line, wire, rpc, reply, route, owners, broadcast,
                 watcher>>

\* The loop ends: the socket or a write failed, or the transport is closed.
ReaderBreaks ==
  /\ Connected
  /\ closed' = TRUE /\ rpc' = "closing" /\ reply' = None /\ line' = <<>> /\ wire' = <<>>
  /\ UNCHANGED <<fixed, chrome, route, owners, broadcast, watcher>>

\* close_routes; the task and its sender end.
ReaderEnds ==
  /\ rpc = "closing"
  /\ rpc' = "finished" /\ route' = None
  /\ UNCHANGED <<fixed, chrome, line, wire, closed, reply, owners, broadcast, watcher>>

-----------------------------------------------------------------------------
(* The owner of a request route.                                            *)

MayInstall == ~closed /\ route = None

Install(o) ==
  /\ o \in clients /\ pc[o] = "idle"
  /\ IF MayInstall THEN route' = o /\ pc' = [pc EXCEPT ![o] = "installed"]
     ELSE UNCHANGED route /\ pc' = [pc EXCEPT ![o] = "done"]
  /\ UNCHANGED <<fixed, chrome, line, wire, reader, queue, hands, token, broadcast,
                 watcher>>

\* Mutant: without patterns Fetch is disabled, with some only those are paused.
InterceptionOfCaller(patterns) == IF patterns THEN "manual" ELSE "off"
\* request_interception_command: the base policy needs every request.
Interception(patterns) ==
  IF Base THEN "all" ELSE IF patterns THEN "manual" ELSE "off"

SetRequestInterception(o, patterns) ==
  /\ Connected /\ ~closed
  /\ pc[o] = IF patterns THEN "installed" ELSE "leaving"
  /\ \A i \in DOMAIN wire : wire[i].cmd # "fetch"
  /\ fetch # Interception(patterns)
  /\ wire' = Append(wire, Command("fetch", None, FALSE, Interception(patterns), auth))
  /\ UNCHANGED <<fixed, chrome, line, reader, route, owners, broadcast, watcher>>

Take(o) ==
  /\ Live(o) /\ hands[o] = None /\ queue[o] # <<>>
  /\ hands' = [hands EXCEPT ![o] = Head(queue[o])]
  /\ queue' = [queue EXCEPT ![o] = Tail(@)]
  /\ UNCHANGED <<fixed, chrome, line, wire, reader, route, pc, token, broadcast,
                 watcher>>

\* Mutant: the token is marked when the reply comes.
TokenOnReply == FALSE
TokenOnWrite == TRUE

\* continue_request_with_dispatch.  An attempt that fails unsent changes nothing:
\* the owner tries again with a fresh token.
Insert(o) ==
  /\ Connected /\ ~closed /\ hands[o] # None /\ ~token[o]
  /\ wire' = Append(wire, Continuation(hands[o]))
  /\ token' = [token EXCEPT ![o] = TokenOnWrite]
  /\ UNCHANGED <<fixed, chrome, line, reader, route, pc, queue, hands, broadcast,
                 watcher>>

\* The attempt returns, fails or is dropped.  What may have been sent is left at
\* that, and so is everything when the transport has closed.
EndAttempt(o) ==
  /\ hands[o] # None /\ (token[o] \/ closed)
  /\ hands' = [hands EXCEPT ![o] = None] /\ token' = [token EXCEPT ![o] = FALSE]
  /\ UNCHANGED <<fixed, chrome, line, wire, reader, route, pc, queue, broadcast,
                 watcher>>

RemoveRoute(o) ==
  /\ pc[o] = "installed"
  /\ route' = None
  /\ pc' = [pc EXCEPT ![o] = "leaving"]
  /\ UNCHANGED <<fixed, chrome, line, wire, reader, queue, hands, token, broadcast,
                 watcher>>

\* The receiver is dropped once it is empty, before or after the route.
DropReceiver(o) ==
  /\ Live(o) /\ queue[o] = <<>> /\ hands[o] = None
  /\ pc' = [pc EXCEPT ![o] = "done"]
  /\ UNCHANGED <<fixed, chrome, line, wire, reader, route, queue, hands, token,
                 broadcast, watcher>>

-----------------------------------------------------------------------------
(* Subscribers, and the NetworkWatcher behind the pump.                     *)

Subscribe(k) ==
  /\ k \in clients /\ subs[k] = "idle"
  /\ subs' = [subs EXCEPT ![k] = IF ~closed /\ SenderAlive THEN "live" ELSE "ended"]
  /\ pos' = [pos EXCEPT ![k] = Len(log)]
  /\ UNCHANGED <<fixed, chrome, line, wire, reader, route, owners, log, watcher>>

Emit(event) == stream' = IF Len(stream) < StreamCap THEN Append(stream, event) ELSE stream

\* Mutant: the request of a redirect is a new one.
IgnoredNever(r) == FALSE
\* on_request_will_be_sent: the entry of a redirect is kept.
Ignored(r) == r \in DOMAIN table

RequestStarted(r) ==
  IF Ignored(r) THEN UNCHANGED watcher
  ELSE /\ \E out \in IF Cardinality(DOMAIN table) < TableCap THEN {{}}
                     ELSE {{q} : q \in DOMAIN table} :
            /\ table' = [q \in (DOMAIN table \ out) \cup {r} |->
                           IF q = r THEN "open" ELSE table[q]]
            /\ forgotten' = forgotten \cup (out \ {r})
       /\ Emit(Event("started", r))
       /\ started' = [started EXCEPT ![r] = @ + 1]

\* on_response_received and on_loading_finished: an entry is updated, not made.
Updated(r, value, event) ==
  /\ table' = [q \in DOMAIN table |-> IF q = r THEN value ELSE table[q]]
  /\ Emit(event) /\ UNCHANGED <<started, forgotten>>

RequestFailed(r) ==
  /\ table' = [q \in DOMAIN table \ {r} |-> table[q]]
  /\ Emit(Event("failed", r)) /\ UNCHANGED <<started, forgotten>>

ProcessEvent(e) ==
  CASE e.event = "sent"     -> RequestStarted(e.request)
    [] e.event = "answered" -> Updated(e.request, "answered", e)
    [] e.event = "finished" -> Updated(e.request, "complete", e)
    [] e.event = "failed"   -> RequestFailed(e.request)
    [] OTHER                -> UNCHANGED watcher

\* recv_event: a receiver that lags goes on with the oldest event there is.
NextOf(k) == IF Len(log) - pos[k] > LogCap THEN Len(log) - LogCap + 1 ELSE pos[k] + 1

Receive(k) ==
  /\ subs[k] = "live" /\ pos[k] < Len(log)
  /\ pos' = [pos EXCEPT ![k] = NextOf(k)]
  /\ IF k = Pump THEN ProcessEvent(log[NextOf(k)]) ELSE UNCHANGED watcher
  /\ UNCHANGED <<fixed, chrome, line, wire, reader, route, owners, log, subs>>

ReceiverEnds(k) ==
  /\ subs[k] = "live" /\ pos[k] = Len(log) /\ ~SenderAlive
  /\ subs' = [subs EXCEPT ![k] = "ended"]
  /\ UNCHANGED <<fixed, chrome, line, wire, reader, route, owners, log, pos, watcher>>

WatcherRecv ==
  /\ stream # <<>> /\ stream' = Tail(stream)
  /\ UNCHANGED <<fixed, chrome, line, wire, reader, route, owners, broadcast, table,
                 started, forgotten>>

Clear ==
  /\ DOMAIN table # {}
  /\ table' = [r \in {} |-> None] /\ forgotten' = forgotten \cup DOMAIN table
  /\ UNCHANGED <<fixed, chrome, line, wire, reader, route, owners, broadcast, stream,
                 started>>

-----------------------------------------------------------------------------

ChromeNext ==
  \/ ChromeDoes
  \/ \E r \in Requests :
       Request(r) \/ Challenge(r) \/ Redirect(r) \/ Ends(r, "finished") \/ Ends(r, "failed")
ReaderNext == ReadEvent \/ WriteReply \/ ReaderBreaks \/ ReaderEnds
OwnerNext(o) ==
  \/ Install(o) \/ Take(o) \/ Insert(o) \/ EndAttempt(o) \/ RemoveRoute(o)
  \/ DropReceiver(o) \/ \E p \in BOOLEAN : SetRequestInterception(o, p)
SubscriberNext(k) == Subscribe(k) \/ Receive(k) \/ ReceiverEnds(k)

Next ==
  \/ ChromeNext \/ ReaderNext \/ Close \/ WatcherRecv \/ Clear
  \/ \E o \in Owners : OwnerNext(o)
  \/ \E k \in Subscribers : SubscriberNext(k)

Spec == Init /\ [][Next]_vars

\* Tasks run; close() ends the reader within its own bounds.
Fairness ==
  /\ WF_vars(closed /\ ReaderBreaks) /\ WF_vars(ReaderEnds)
  /\ \A k \in Subscribers : WF_vars(Receive(k) \/ ReceiverEnds(k))
FairSpec == Spec /\ Fairness

-----------------------------------------------------------------------------

TypeOK ==
  /\ req \in [Requests -> {"new", "paused", "sent", "redirected", "finished", "failed"}]
  /\ stage \in [Requests -> {"request", "response"}]
  /\ challenge \in [Requests -> {"none", "waiting", "answered"}]
  /\ fetch \in {"off", "manual", "all"} /\ handlesAuth \in BOOLEAN
  /\ rpc \in {"read", "reply", "closing", "finished"} /\ closed \in BOOLEAN
  /\ route \in Owners \cup {None}
  /\ \A o \in Owners :
       /\ pc[o] \in {"idle", "installed", "leaving", "done"}
       /\ Len(queue[o]) <= QueueCap /\ hands[o] \in Requests \cup {None}
  /\ DOMAIN table \subseteq Requests /\ Cardinality(DOMAIN table) <= TableCap
  /\ Len(stream) <= StreamCap

Count(s, T(_)) == Cardinality({i \in DOMAIN s : T(s[i])})

\* Those who will resolve a pause or a challenge of r.
Events(r, k) == Count(line, LAMBDA e : e = Event(k, r))
Continues(r, cmd) ==
  Count(wire, LAMBDA w : w.cmd = cmd /\ w.request = r)
  + (IF rpc = "reply" /\ reply.cmd = cmd /\ reply.request = r THEN 1 ELSE 0)
Held(r) ==
  Cardinality({o \in Owners : hands[o] = r /\ ~token[o]})
  + Cardinality({x \in Owners \X (1..QueueCap) :
                   x[2] <= Len(queue[x[1]]) /\ queue[x[1]][x[2]] = r})

\* Once the reader has ended, no route is left whose owner would wait for pauses
\* that nobody sends.
RoutesEnd == rpc = "finished" => route = None

\* Until the transport closes, exactly one party has each paused request and
\* each challenge: an event on its way, the reader's reply, an owner that may still
\* continue it, or a continuation on its way.  None is stranded, none resolved twice.
PauseAccounted ==
  /\ TypeOK /\ RoutesEnd
  /\ ~closed => \A r \in Requests :
       /\ req[r] = "paused" =>
            Events(r, "paused") + Continues(r, "continueRequest") + Held(r) = 1
       /\ challenge[r] = "waiting" =>
            Events(r, "auth") + Continues(r, "continueWithAuth") = 1

\* Under a base policy every request is intercepted, whatever owners ask for, and
\* none leaves with the header that the transport strips.
PolicyKept == /\ Base => fetch = "all" /\ handlesAuth = auth
              /\ strip => unclean = {}

\* The watcher reports the start of a request once, though it redirects, until it
\* is evicted or cleared; and what it has as complete has finished.
WatcherHonest ==
  \A r \in Requests :
    /\ r \notin forgotten => started[r] <= 1
    /\ r \in DOMAIN table /\ table[r] = "complete" => req[r] = "finished"

\* Whoever receives events learns of the transport's end.
ReceiversEnd ==
  \A k \in Subscribers : (closed /\ subs[k] = "live") ~> (subs[k] = "ended")
=============================================================================
