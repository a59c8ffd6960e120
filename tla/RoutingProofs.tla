---------------------------- MODULE RoutingProofs ----------------------------
(***************************************************************************)
(* Every paused request and every challenge has exactly one who will       *)
(* resolve it, the transport's policy is kept, and the network watcher is  *)
(* honest, for any requests, owners and bounds of EventRouting.            *)
(*                                                                         *)
(* To count those who will resolve a request, the invariant RoutingInv     *)
(* says where its pause is: on its way in the transport, in the hands of   *)
(* one owner, or in the queue of one owner.  A step moves the pauses of    *)
(* one request and leaves those of the others (Steady).  WatcherInv says   *)
(* what the events that are still to be seen can tell of a request.        *)
(***************************************************************************)
EXTENDS EventRouting, SequenceTheorems, FiniteSetTheorems, TLAPS

Kinds == {"sent", "paused", "auth", "answered", "finished", "failed"}
EventSet == [event: Kinds, request: Requests]
CommandSet ==
  [cmd: {"continueRequest", "continueWithAuth", "fetch"}, request: Requests \cup {None},
   headers: BOOLEAN, mode: {"none", "off", "manual", "all"}, auth: BOOLEAN]

\* The types of the variables, and the bounds of the queues.
TypedChrome ==
  /\ strip \in BOOLEAN /\ auth \in BOOLEAN
  /\ req \in [Requests -> {"new", "paused", "sent", "redirected", "finished", "failed"}]
  /\ stage \in [Requests -> {"request", "response"}]
  /\ challenge \in [Requests -> {"none", "waiting", "answered"}]
  /\ fetch \in {"off", "manual", "all"} /\ handlesAuth \in BOOLEAN
TypedTransport ==
  /\ line \in Seq(EventSet) /\ wire \in Seq(CommandSet)
  /\ rpc \in {"read", "reply", "closing", "finished"} /\ closed \in BOOLEAN
  /\ rpc = "reply" => reply \in CommandSet
  /\ route \in Owners \cup {None}
TypedOwners ==
  /\ pc \in [Owners -> {"idle", "installed", "leaving", "done"}]
  /\ queue \in [Owners -> Seq(Requests)] /\ \A o \in Owners : Len(queue[o]) <= QueueCap
  /\ hands \in [Owners -> Requests \cup {None}] /\ token \in [Owners -> BOOLEAN]
Typed == TypedChrome /\ TypedTransport /\ TypedOwners

\* The reader ends after the transport closed; an owner marks only what it has.
Ending ==
  /\ rpc \in {"closing", "finished"} => closed
  /\ RoutesEnd
  /\ \A o \in Owners : hands[o] = None => ~token[o]

\* The headers of a command are those its request's stage asks for.
Sound(w) ==
  CASE w.cmd = "continueRequest" ->
         w.request \in Requests /\ w.headers = (strip /\ stage[w.request] = "request")
    [] w.cmd = "continueWithAuth" -> w.request \in Requests
    [] OTHER -> w.auth = auth /\ w.mode # "none" /\ (Base => w.mode = "all")

Policy ==
  /\ \A r \in Requests : challenge[r] # "none" => auth
  /\ handlesAuth = auth /\ (Base => fetch = "all") /\ (strip => unclean = {})
  /\ \A i \in DOMAIN wire : Sound(wire[i])
  /\ rpc = "reply" => Sound(reply)

\* How often a sequence has a member of S.
Never(s, S) == \A i \in DOMAIN s : s[i] \notin S
Once(s, S) == \E i \in DOMAIN s : s[i] \in S /\ \A j \in DOMAIN s : s[j] \in S => j = i

Resolving(cmd, r) == {w \in CommandSet : w.cmd = cmd /\ w.request = r}
Replying(cmd, r) == rpc = "reply" /\ reply \in Resolving(cmd, r)
Holding(o, r) == hands[o] = r /\ ~token[o]

\* No owner has the pause of r, one owner has it in its hands, or in its queue.
NoHand(r) == \A o \in Owners : ~Holding(o, r)
OneHand(r) == \E o \in Owners : Holding(o, r) /\ \A p \in Owners : Holding(p, r) => p = o
NoQueue(r) == \A o \in Owners : Never(queue[o], {r})
OneQueue(r) ==
  \E o \in Owners :
    Once(queue[o], {r}) /\ \A p \in Owners : p # o => Never(queue[p], {r})

\* Nobody has an event or a continuation for r.
OffTransport(kind, cmd, r) ==
  Never(line, {Event(kind, r)}) /\ Never(wire, Resolving(cmd, r)) /\ ~Replying(cmd, r)

\* The transport has one thing on its way: an event, a reply, or a command.
OnTransport(kind, cmd, r) ==
  \/ Once(line, {Event(kind, r)}) /\ Never(wire, Resolving(cmd, r)) /\ ~Replying(cmd, r)
  \/ Never(line, {Event(kind, r)}) /\ Once(wire, Resolving(cmd, r)) /\ ~Replying(cmd, r)
  \/ Never(line, {Event(kind, r)}) /\ Never(wire, Resolving(cmd, r)) /\ Replying(cmd, r)

Pause(r) ==
  /\ req[r] = "new" => OffTransport("paused", "continueRequest", r) /\ NoHand(r) /\ NoQueue(r)
  /\ req[r] = "paused" /\ ~closed =>
       \/ OnTransport("paused", "continueRequest", r) /\ NoHand(r) /\ NoQueue(r)
       \/ OffTransport("paused", "continueRequest", r) /\ OneHand(r) /\ NoQueue(r)
       \/ OffTransport("paused", "continueRequest", r) /\ NoHand(r) /\ OneQueue(r)

Challenged(r) ==
  /\ challenge[r] = "none" => OffTransport("auth", "continueWithAuth", r)
  /\ challenge[r] = "waiting" /\ ~closed => OnTransport("auth", "continueWithAuth", r)

RoutingInv ==
  Typed /\ Ending /\ Policy /\ \A r \in Requests : Pause(r) /\ Challenged(r)

TypedLog ==
  /\ log \in Seq(EventSet)
  /\ pos \in [Subscribers -> Nat] /\ subs \in [Subscribers -> {"idle", "live", "ended"}]
TypedTable ==
  /\ DOMAIN table \subseteq Requests
  /\ IsFiniteSet(DOMAIN table) /\ Cardinality(DOMAIN table) <= TableCap
  /\ stream \in Seq([event: Kinds \cup {"started"}, request: Requests])
  /\ Len(stream) <= StreamCap
  /\ started \in [Requests -> Nat]

In(s, e) == ~Never(s, {e})
\* An event the watcher is still to see.
Coming(e) == In(line, e) \/ \E i \in DOMAIN log : i > pos[Pump] /\ log[i] = e
Ordered(s, r) ==
  \A i, j \in DOMAIN s : i < j /\ s[i] = Event("failed", r) => s[j] # Event("sent", r)

\* The events of a request tell how it ended, and none is sent after it failed.
Told(r) ==
  /\ \A kind \in {"finished", "failed"} :
       In(line, Event(kind, r)) \/ In(log, Event(kind, r)) => req[r] = kind
  /\ Ordered(line, r) /\ Ordered(log, r)
  /\ In(log, Event("failed", r)) => ~In(line, Event("sent", r))

\* A request that was started and has no entry has failed, and will not start again.
Watched(r) ==
  /\ r \in DOMAIN table /\ table[r] = "complete" => req[r] = "finished"
  /\ r \notin forgotten =>
       /\ started[r] <= 1
       /\ started[r] = 1 =>
            r \in DOMAIN table \/ (req[r] = "failed" /\ ~Coming(Event("sent", r)))

WatcherInv == TypedLog /\ TypedTable /\ \A r \in Requests : Told(r) /\ Watched(r)

-----------------------------------------------------------------------------
(* Sequences that have members of a set never, or once.                     *)

\* The concatenation of two sequences.
LEMMA Joined ==
  ASSUME NEW T, NEW s \in Seq(T), NEW t \in Seq(T), NEW S
  PROVE  /\ s \o t \in Seq(T)
         /\ Never(s, S) /\ Never(t, S) <=> Never(s \o t, S)
         /\ Once(s, S) /\ Never(t, S) => Once(s \o t, S)
         /\ Never(s, S) /\ Once(t, S) => Once(s \o t, S)
<1> DEFINE u == s \o t
<1>1. /\ Len(s) \in Nat /\ DOMAIN s = 1..Len(s)
      /\ Len(t) \in Nat /\ DOMAIN t = 1..Len(t)
  BY LenProperties
<1>2. u \in Seq(T) /\ Len(u) = Len(s) + Len(t)
  BY ConcatProperties
<1>3. DOMAIN u = 1..(Len(s) + Len(t))
  BY <1>1, <1>2, LenProperties
<1>4. \A i \in DOMAIN u : u[i] = IF i <= Len(s) THEN s[i] ELSE t[i - Len(s)]
  BY <1>3, ConcatProperties
<1>5. /\ \A i \in DOMAIN s : i \in DOMAIN u /\ u[i] = s[i]
      /\ \A i \in DOMAIN t : i + Len(s) \in DOMAIN u /\ u[i + Len(s)] = t[i]
      /\ \A i \in DOMAIN u : i \in DOMAIN s \/ (i > Len(s) /\ i - Len(s) \in DOMAIN t)
  BY <1>1, <1>3, <1>4
<1>6. \A i \in DOMAIN u : i \notin DOMAIN s => u[i] = t[i - Len(s)]
  BY <1>1, <1>3, <1>4
<1> HIDE DEF u
<1>7. Never(s, S) /\ Never(t, S) <=> Never(u, S)
  BY <1>5, <1>6 DEF Never
<1>8. ASSUME Once(s, S), Never(t, S)  PROVE Once(u, S)
  <2>1. PICK i \in DOMAIN s : s[i] \in S /\ \A j \in DOMAIN s : s[j] \in S => j = i
    BY <1>8 DEF Once
  <2>2. \A j \in DOMAIN u : u[j] \in S => j \in DOMAIN s /\ s[j] \in S
    BY <1>5, <1>6, <1>8 DEF Never
  <2> QED
    BY <1>5, <2>1, <2>2 DEF Once
<1>9. ASSUME Never(s, S), Once(t, S)  PROVE Once(u, S)
  <2>1. PICK i \in DOMAIN t : t[i] \in S /\ \A j \in DOMAIN t : t[j] \in S => j = i
    BY <1>9 DEF Once
  <2>2. \A j \in DOMAIN u : u[j] \in S => j - Len(s) \in DOMAIN t /\ t[j - Len(s)] \in S
    BY <1>5, <1>6, <1>9 DEF Never
  <2>3. \A j \in DOMAIN u : u[j] \in S => j = i + Len(s)
    BY <1>1, <1>3, <2>1, <2>2
  <2> QED
    BY <1>5, <2>1, <2>3 DEF Once
<1> QED
  BY <1>2, <1>7, <1>8, <1>9 DEF u

LEMMA Single ==
  ASSUME NEW T, NEW e \in T, NEW S
  PROVE  /\ <<e>> \in Seq(T) /\ <<>> \in Seq(T) /\ Never(<<>>, S)
         /\ e \in S => Once(<<e>>, S)
         /\ e \notin S => Never(<<e>>, S)
<1>1. <<e>> \in Seq(T) /\ <<>> \in Seq(T)
  OBVIOUS
<1>2. DOMAIN <<e>> = {1} /\ <<e>>[1] = e /\ DOMAIN <<>> = {}
  OBVIOUS
<1> QED
  BY <1>1, <1>2 DEF Never, Once

LEMMA Appended ==
  ASSUME NEW T, NEW s \in Seq(T), NEW e \in T, NEW S
  PROVE  /\ Append(s, e) \in Seq(T)
         /\ e \notin S => (Never(s, S) <=> Never(Append(s, e), S))
         /\ Once(s, S) /\ e \notin S => Once(Append(s, e), S)
         /\ Never(s, S) /\ e \in S => Once(Append(s, e), S)
<1>1. Append(s, e) = s \o <<e>>
  BY AppendIsConcat
<1> DEFINE t == <<e>>
<1>2. t \in Seq(T) /\ (e \in S => Once(t, S)) /\ (e \notin S => Never(t, S))
  BY Single
<1> HIDE DEF t
<1>3. /\ s \o t \in Seq(T) /\ (Never(s, S) /\ Never(t, S) <=> Never(s \o t, S))
      /\ Once(s, S) /\ Never(t, S) => Once(s \o t, S)
      /\ Never(s, S) /\ Once(t, S) => Once(s \o t, S)
  BY <1>2, Joined
<1> QED
  BY <1>1, <1>2, <1>3 DEF t

LEMMA Taken ==
  ASSUME NEW T, NEW s \in Seq(T), s # <<>>, NEW S
  PROVE  /\ Head(s) \in T /\ Tail(s) \in Seq(T)
         /\ Never(s, S) => Head(s) \notin S /\ Never(Tail(s), S)
         /\ Once(s, S) /\ Head(s) \in S => Never(Tail(s), S)
         /\ Once(s, S) /\ Head(s) \notin S => Once(Tail(s), S)
<1> DEFINE t == Tail(s)
<1>1. /\ Head(s) \in T /\ t \in Seq(T) /\ Len(t) = Len(s) - 1
      /\ \A i \in 1..Len(t) : t[i] = s[i + 1]
      /\ Len(s) \in Nat /\ Len(s) > 0 /\ Head(s) = s[1]
  BY HeadTailProperties, LenProperties, EmptySeq
<1>2. DOMAIN s = 1..Len(s) /\ DOMAIN t = 1..(Len(s) - 1)
  BY <1>1, LenProperties
<1>3. /\ 1 \in DOMAIN s
      /\ \A i \in DOMAIN t : i \in Nat /\ i + 1 \in DOMAIN s /\ i # 0 /\ t[i] = s[i + 1]
      /\ \A i \in DOMAIN s : i = 1 \/ (i \in Nat /\ i - 1 \in DOMAIN t)
  BY <1>1, <1>2
<1>4. \A i \in DOMAIN s : i # 1 => t[i - 1] = s[i]
  BY <1>1, <1>2
<1> HIDE DEF t
<1>5. Never(s, S) => Head(s) \notin S /\ Never(t, S)
  BY <1>1, <1>3 DEF Never
<1>6. ASSUME Once(s, S), Head(s) \in S  PROVE Never(t, S)
  <2>1. \A j \in DOMAIN s : s[j] \in S => j = 1
    BY <1>1, <1>3, <1>6 DEF Once
  <2> QED
    BY <1>3, <2>1 DEF Never
<1>7. ASSUME Once(s, S), Head(s) \notin S  PROVE Once(t, S)
  <2>1. PICK i \in DOMAIN s : s[i] \in S /\ \A j \in DOMAIN s : s[j] \in S => j = i
    BY <1>7 DEF Once
  <2>2. i # 1 /\ i - 1 \in DOMAIN t /\ t[i - 1] \in S
    BY <1>1, <1>3, <1>4, <1>7, <2>1
  <2>3. \A j \in DOMAIN t : t[j] \in S => j = i - 1
    BY <1>2, <1>3, <2>1
  <2> QED
    BY <2>2, <2>3 DEF Once
<1> QED
  BY <1>1, <1>5, <1>6, <1>7 DEF t

LEMMA CountsOf ==
  ASSUME NEW T, NEW s \in Seq(T), NEW S
  PROVE  /\ Never(s, S) => Cardinality({i \in DOMAIN s : s[i] \in S}) = 0
         /\ Once(s, S) => Cardinality({i \in DOMAIN s : s[i] \in S}) = 1
<1>1. ASSUME Never(s, S)  PROVE Cardinality({i \in DOMAIN s : s[i] \in S}) = 0
  <2>1. {i \in DOMAIN s : s[i] \in S} = {}
    BY <1>1 DEF Never
  <2> QED
    BY <2>1, FS_EmptySet
<1>2. ASSUME Once(s, S)  PROVE Cardinality({i \in DOMAIN s : s[i] \in S}) = 1
  <2>1. PICK i \in DOMAIN s : s[i] \in S /\ \A j \in DOMAIN s : s[j] \in S => j = i
    BY <1>2 DEF Once
  <2>2. {j \in DOMAIN s : s[j] \in S} = {i}
    BY <2>1
  <2> QED
    BY <2>2, FS_Singleton
<1> QED
  BY <1>1, <1>2

-----------------------------------------------------------------------------
(* What keeps the pause or challenge of a request where it is.              *)

\* The transport goes on having nothing, or one thing, for q.
Steady(kind, cmd, q) ==
  /\ OffTransport(kind, cmd, q) => OffTransport(kind, cmd, q)'
  /\ OnTransport(kind, cmd, q) => OnTransport(kind, cmd, q)'

\* The owners go on having nothing, or one thing, for q.
OwnersSteady(q) ==
  /\ NoHand(q) => NoHand(q)'
  /\ OneHand(q) => OneHand(q)'
  /\ NoQueue(q) => NoQueue(q)'
  /\ OneQueue(q) => OneQueue(q)'

LEMMA PauseStays ==
  ASSUME NEW q \in Requests, Pause(q), closed => closed',
         req'[q] \in {"new", "paused"} => req'[q] = req[q],
         req'[q] = "new" \/ ~closed' => Steady("paused", "continueRequest", q) /\ OwnersSteady(q)
  PROVE  Pause(q)'
BY DEF Pause, Steady, OwnersSteady

LEMMA ChallengeStays ==
  ASSUME NEW q \in Requests, Challenged(q), closed => closed',
         challenge'[q] \in {"none", "waiting"} => challenge'[q] = challenge[q],
         challenge'[q] = "none" \/ ~closed' => Steady("auth", "continueWithAuth", q)
  PROVE  Challenged(q)'
BY DEF Challenged, Steady

\* Owners that do not take, are not given and do not mark q's pause.
LEMMA OwnersLeft ==
  ASSUME NEW q, UNCHANGED <<hands, token, queue>>
  PROVE  OwnersSteady(q)
BY DEF OwnersSteady, NoHand, OneHand, NoQueue, OneQueue, Holding, Never, Once

LEMMA TransportLeft ==
  ASSUME NEW kind, NEW cmd, NEW q, UNCHANGED <<line, wire, rpc, reply>>
  PROVE  Steady(kind, cmd, q)
BY DEF Steady, OffTransport, OnTransport, Replying, Resolving, Never, Once

\* The line is told events none of which is q's.
LEMMA LineTold ==
  ASSUME NEW kind, NEW cmd, NEW q, NEW t \in Seq(EventSet), line \in Seq(EventSet),
         line' = line \o t, Never(t, {Event(kind, q)}), UNCHANGED <<wire, rpc, reply>>
  PROVE  Steady(kind, cmd, q)
<1> DEFINE S == {Event(kind, q)}
<1>1. /\ Never(line, S) => Never(line', S)
      /\ Once(line, S) => Once(line', S)
  BY Joined
<1>2. (Replying(cmd, q)' <=> Replying(cmd, q)) /\ wire' = wire
  BY DEF Replying, Resolving
<1> QED
  BY <1>1, <1>2 DEF Steady, OffTransport, OnTransport

\* A command that does not resolve q is put on the wire.
LEMMA WireGiven ==
  ASSUME NEW kind, NEW cmd, NEW q, NEW w \in CommandSet, wire \in Seq(CommandSet),
         wire' = Append(wire, w), w \notin Resolving(cmd, q), UNCHANGED <<line, rpc, reply>>
  PROVE  Steady(kind, cmd, q)
<1> DEFINE S == Resolving(cmd, q)
<1>1. /\ Never(wire, S) => Never(wire', S)
      /\ Once(wire, S) => Once(wire', S)
  BY Appended
<1>2. (Replying(cmd, q)' <=> Replying(cmd, q)) /\ line' = line
  BY DEF Replying, Resolving
<1>3. Resolving(cmd, q)' = Resolving(cmd, q)
  BY DEF Resolving
<1> QED
  BY <1>1, <1>2, <1>3 DEF Steady, OffTransport, OnTransport

\* Chrome takes a command that does not resolve q.
LEMMA WireTaken ==
  ASSUME NEW kind, NEW cmd, NEW q, wire \in Seq(CommandSet), wire # <<>>,
         wire' = Tail(wire), Head(wire) \notin Resolving(cmd, q), UNCHANGED <<line, rpc, reply>>
  PROVE  Steady(kind, cmd, q)
<1> DEFINE S == Resolving(cmd, q)
<1>1. /\ Never(wire, S) => Never(wire', S)
      /\ Once(wire, S) => Once(wire', S)
  BY Taken
<1>2. (Replying(cmd, q)' <=> Replying(cmd, q)) /\ line' = line
  BY DEF Replying, Resolving
<1> QED
  BY <1>1, <1>2 DEF Steady, OffTransport, OnTransport, Resolving

\* The reader takes an event that is not q's, and replies nothing that resolves q.
LEMMA LineTaken ==
  ASSUME NEW kind, NEW cmd, NEW q, line \in Seq(EventSet), line # <<>>,
         line' = Tail(line), Head(line) # Event(kind, q), UNCHANGED wire,
         ~Replying(cmd, q), ~Replying(cmd, q)'
  PROVE  Steady(kind, cmd, q)
<1> DEFINE S == {Event(kind, q)}
<1>1. /\ Never(line, S) => Never(line', S)
      /\ Once(line, S) => Once(line', S)
  BY Taken
<1> QED
  BY <1>1 DEF Steady, OffTransport, OnTransport, Resolving

-----------------------------------------------------------------------------
(* Chrome.                                                                  *)

\* Where Chrome's events end up in the line.
LEMMA Telling ==
  ASSUME NEW public \in Seq(EventSet), NEW fetched \in Seq(EventSet), NEW S,
         line \in Seq(EventSet), Tells(public, fetched)
  PROVE  \E t \in Seq(EventSet) :
           /\ line' = line \o t /\ line' \in Seq(EventSet)
           /\ Never(public, S) /\ Never(fetched, S) => Never(t, S)
           /\ Never(public, S) /\ Once(fetched, S) => Once(t, S)
<1> DEFINE heard == IF Pump \in clients THEN public ELSE <<>>
           t == heard \o fetched
<1>1. heard \in Seq(EventSet) /\ (Never(public, S) => Never(heard, S))
  BY Single DEF Never
<1>2. line' = (line \o heard) \o fetched
  BY DEF Tells
<1> HIDE DEF heard
<1>3. line' = line \o t
  BY <1>1, <1>2, ConcatAssociative
<1>4. /\ t \in Seq(EventSet)
      /\ Never(heard, S) /\ Never(fetched, S) => Never(t, S)
      /\ Never(heard, S) /\ Once(fetched, S) => Once(t, S)
  BY <1>1, Joined
<1>5. line \o t \in Seq(EventSet)
  BY <1>4, Joined
<1> QED
  BY <1>1, <1>3, <1>4, <1>5

LEMMA EventTyped ==
  ASSUME NEW kind \in Kinds, NEW r \in Requests
  PROVE  /\ Event(kind, r) \in EventSet /\ <<Event(kind, r)>> \in Seq(EventSet)
         /\ \A k, q : Event(kind, r) = Event(k, q) <=> kind = k /\ r = q
BY DEF Event, EventSet

\* Events none of which is q's are told.
LEMMA ToldOthers ==
  ASSUME NEW public \in Seq(EventSet), NEW fetched \in Seq(EventSet),
         NEW kind, NEW cmd, NEW q, line \in Seq(EventSet), Tells(public, fetched),
         Never(public, {Event(kind, q)}), Never(fetched, {Event(kind, q)}),
         UNCHANGED <<wire, rpc, reply>>
  PROVE  Steady(kind, cmd, q) /\ line' \in Seq(EventSet)
<1> DEFINE S == {Event(kind, q)}
<1>1. Never(public, S) /\ Never(fetched, S)
  OBVIOUS
<1> HIDE DEF S
<1>2. PICK t \in Seq(EventSet) :
        line' = line \o t /\ line' \in Seq(EventSet) /\ Never(t, S)
  BY <1>1, Telling
<1> QED
  BY <1>2, LineTold DEF S

\* A command stays sound while its request keeps its stage.
LEMMA SoundStays ==
  ASSUME NEW w \in CommandSet, Sound(w), UNCHANGED fixed,
         w.cmd = "continueRequest" => stage'[w.request] = stage[w.request]
  PROVE  Sound(w)'
BY DEF Sound, Base, fixed

LEMMA PolicyStays ==
  ASSUME Policy, UNCHANGED <<fixed, stage, fetch, handlesAuth, unclean, wire, rpc, reply>>,
         \A r \in Requests : challenge'[r] # "none" => challenge[r] # "none" \/ handlesAuth
  PROVE  Policy'
BY DEF Policy, Sound, Base, fixed

LEMMA RequestKeeps ==
  ASSUME RoutingInv, NEW r \in Requests, Request(r)
  PROVE  RoutingInv'
<1> USE DEF Request
<1>1. Typed /\ Ending /\ Policy /\ \A q \in Requests : Pause(q) /\ Challenged(q)
  BY DEF RoutingInv
<1>2. <<>> \in Seq(EventSet) /\ \A S : Never(<<>>, S)
  BY DEF Never
<1>3. /\ req[r] = "new"
      /\ UNCHANGED <<fixed, challenge, fetch, handlesAuth, wire, reader, route, owners>>
  OBVIOUS
<1>4. /\ line' \in Seq(EventSet)
      /\ \A q \in Requests : q # r => Steady("paused", "continueRequest", q)
      /\ \A q \in Requests : Steady("auth", "continueWithAuth", q)
  <2>1. PICK fetched \in {<<>>, <<Event("paused", r)>>} : Tells(<<Event("sent", r)>>, fetched)
    OBVIOUS
  <2>2. /\ <<Event("sent", r)>> \in Seq(EventSet) /\ fetched \in Seq(EventSet)
        /\ Event("sent", r) \in EventSet /\ Event("paused", r) \in EventSet
    <3>1. Event("sent", r) \in EventSet /\ <<Event("sent", r)>> \in Seq(EventSet)
      BY EventTyped DEF Kinds
    <3>2. Event("paused", r) \in EventSet /\ <<Event("paused", r)>> \in Seq(EventSet)
      BY EventTyped DEF Kinds
    <3> QED
      BY <1>2, <2>1, <3>1, <3>2
  <2>3. line \in Seq(EventSet) /\ UNCHANGED <<wire, rpc, reply>>
    BY <1>1, <1>3 DEF Typed, TypedTransport, reader
  <2>4. ASSUME NEW kind, NEW cmd, NEW q \in Requests, kind # "sent", kind = "paused" => q # r
        PROVE  Steady(kind, cmd, q) /\ line' \in Seq(EventSet)
    <3> DEFINE S == {Event(kind, q)}
    <3>1. Event("sent", r) \notin S /\ Event("paused", r) \notin S
      BY <2>4, EventTyped DEF Kinds
    <3>2. Never(<<Event("sent", r)>>, S) /\ Never(fetched, S)
      BY <1>2, <2>1, <2>2, <3>1, Single
    <3> QED
      BY <2>1, <2>2, <2>3, <3>2, ToldOthers
  <2>5. line' \in Seq(EventSet)
    BY <2>4
  <2> QED
    BY <2>4, <2>5
<1>5. Typed'
  <2>1. TypedChrome'
    BY <1>1 DEF Typed, TypedChrome, Leaves, fixed
  <2>2. TypedTransport' /\ TypedOwners'
    BY <1>1, <1>3, <1>4 DEF Typed, TypedTransport, TypedOwners, reader, owners
  <2> QED
    BY <2>1, <2>2 DEF Typed
<1>6. Ending'
  BY <1>1, <1>3 DEF Ending, RoutesEnd, reader, owners
<1>7. Policy'
  <2>1. strip => unclean' = {}
    BY <1>1 DEF Policy, Base
  <2>2. \A q \in Requests : q # r => stage'[q] = stage[q]
    BY <1>1 DEF Typed, TypedChrome
  <2>3. ASSUME NEW w \in CommandSet, Sound(w), w \notin Resolving("continueRequest", r)
        PROVE  Sound(w)'
    BY <1>3, <2>2, <2>3, SoundStays DEF Resolving, Sound
  <2>4. OffTransport("paused", "continueRequest", r)
    BY <1>1, <1>3 DEF Pause
  <2>5. wire \in Seq(CommandSet) /\ \A i \in DOMAIN wire : wire[i] \in CommandSet
    BY <1>1 DEF Typed, TypedTransport
  <2>6. \A i \in DOMAIN wire : Sound(wire[i])'
    BY <1>1, <2>3, <2>4, <2>5 DEF Policy, OffTransport, Never
  <2>7. ASSUME rpc = "reply"  PROVE Sound(reply)'
    <3>1. PICK w \in CommandSet : w = reply
      BY <1>1, <2>7 DEF Typed, TypedTransport
    <3>2. Sound(w)' /\ reply' = w
      BY <1>1, <1>3, <2>3, <2>4, <2>7, <3>1 DEF Policy, OffTransport, Replying, reader
    <3> QED
      BY <3>2 DEF Sound
  <2> QED
    BY <1>1, <1>3, <2>1, <2>6, <2>7 DEF Policy, Base, fixed, reader
<1>8. ASSUME NEW q \in Requests  PROVE Pause(q)'
  <2>1. OwnersSteady(q) /\ UNCHANGED closed
    BY <1>3, OwnersLeft DEF owners, reader
  <2>2. CASE q # r
    BY <1>1, <1>4, <2>1, <2>2, PauseStays DEF Typed, TypedChrome, Leaves
  <2>3. CASE q = r /\ req'[r] # "paused"
    <3>1. req'[r] = "sent"
      BY <1>1, <2>3 DEF Typed, TypedChrome, Leaves
    <3> QED
      BY <2>3, <3>1 DEF Pause
  <2>4. CASE q = r /\ req'[r] = "paused"
    <3> DEFINE S == {Event("paused", r)}
    <3>1. Tells(<<Event("sent", r)>>, <<Event("paused", r)>>)
      BY <1>1, <2>4 DEF Leaves, Typed, TypedChrome
    <3>2. Never(<<Event("sent", r)>>, S) /\ Once(<<Event("paused", r)>>, S)
      BY EventTyped, Single DEF Kinds
    <3>3. <<Event("sent", r)>> \in Seq(EventSet) /\ <<Event("paused", r)>> \in Seq(EventSet)
      BY EventTyped DEF Kinds
    <3>4. line \in Seq(EventSet)
      BY <1>1 DEF Typed, TypedTransport
    <3>5. OffTransport("paused", "continueRequest", r) /\ NoHand(r) /\ NoQueue(r)
      BY <1>1, <1>3 DEF Pause
    <3> HIDE DEF S
    <3>6. PICK t \in Seq(EventSet) : line' = line \o t /\ Once(t, S)
      BY <3>1, <3>2, <3>3, <3>4, Telling
    <3>7. Once(line', S)
      BY <3>4, <3>5, <3>6, Joined DEF OffTransport, S
    <3>8. /\ Never(wire, Resolving("continueRequest", r))'
          /\ ~Replying("continueRequest", r)'
      BY <1>3, <3>5 DEF OffTransport, Replying, Resolving, reader
    <3> QED
      BY <2>1, <2>4, <3>5, <3>7, <3>8 DEF OnTransport, OwnersSteady, Pause, S
  <2> QED
    BY <2>2, <2>3, <2>4
<1>9. ASSUME NEW q \in Requests  PROVE Challenged(q)'
  BY <1>1, <1>3, <1>4, ChallengeStays DEF reader
<1> QED
  BY <1>5, <1>6, <1>7, <1>8, <1>9 DEF RoutingInv

LEMMA ChallengeKeeps ==
  ASSUME RoutingInv, NEW r \in Requests, Challenge(r)
  PROVE  RoutingInv'
<1> USE DEF Challenge
<1>1. Typed /\ Ending /\ Policy /\ \A q \in Requests : Pause(q) /\ Challenged(q)
  BY DEF RoutingInv
<1>2. <<>> \in Seq(EventSet) /\ \A S : Never(<<>>, S)
  BY DEF Never
<1>3. /\ challenge[r] = "none" /\ challenge' = [challenge EXCEPT ![r] = "waiting"]
      /\ UNCHANGED <<fixed, req, stage, fetch, handlesAuth, unclean, wire, reader, route, owners>>
  OBVIOUS
<1>4. Event("auth", r) \in EventSet /\ <<Event("auth", r)>> \in Seq(EventSet)
  BY EventTyped DEF Kinds
<1>5. line \in Seq(EventSet) /\ UNCHANGED <<wire, rpc, reply>>
  BY <1>1, <1>3 DEF Typed, TypedTransport, reader
<1>6. ASSUME NEW kind, NEW cmd, NEW q \in Requests, kind = "auth" => q # r
      PROVE  Steady(kind, cmd, q)
  <2> DEFINE S == {Event(kind, q)}
  <2>1. Event("auth", r) \notin S
    BY <1>6, EventTyped DEF Kinds
  <2>2. Never(<<Event("auth", r)>>, S)
    BY <1>4, <2>1, Single
  <2> QED
    BY <1>2, <1>4, <1>5, <2>2, ToldOthers
<1>7. OffTransport("auth", "continueWithAuth", r) =>
        OnTransport("auth", "continueWithAuth", r)' 
  <2> DEFINE S == {Event("auth", r)}
  <2>1. Once(<<Event("auth", r)>>, S)
    BY <1>4, Single
  <2> HIDE DEF S
  <2>2. PICK t \in Seq(EventSet) : line' = line \o t /\ Once(t, S)
    BY <1>2, <1>4, <1>5, <2>1, Telling
  <2>3. Never(line, S) => Once(line', S)
    BY <1>5, <2>2, Joined
  <2> QED
    BY <1>5, <2>3 DEF OffTransport, OnTransport, Replying, Resolving, S
<1>8. line' \in Seq(EventSet)
  BY <1>2, <1>4, <1>5, Telling
<1>9. Typed'
  <2>1. TypedChrome'
    BY <1>1, <1>3 DEF Typed, TypedChrome, fixed
  <2>2. TypedTransport' /\ TypedOwners'
    BY <1>1, <1>3, <1>8 DEF Typed, TypedTransport, TypedOwners, reader, owners
  <2> QED
    BY <2>1, <2>2 DEF Typed
<1>10. Ending' /\ Policy'
  <2>1. \A q \in Requests : challenge'[q] # "none" => challenge[q] # "none" \/ handlesAuth
    OBVIOUS
  <2> QED
    BY <1>1, <1>3, <2>1, PolicyStays DEF Ending, RoutesEnd, reader, owners
<1>11. ASSUME NEW q \in Requests  PROVE Pause(q)'
  BY <1>1, <1>3, <1>6, OwnersLeft, PauseStays DEF reader, owners
<1>12. ASSUME NEW q \in Requests  PROVE Challenged(q)'
  <2>1. CASE q # r
    BY <1>1, <1>3, <1>6, <2>1, ChallengeStays DEF reader, Typed, TypedChrome
  <2>2. CASE q = r
    BY <1>1, <1>3, <1>7, <2>2 DEF Challenged, Typed, TypedChrome
  <2> QED
    BY <2>1, <2>2
<1> QED
  BY <1>9, <1>10, <1>11, <1>12 DEF RoutingInv

\* Redirects and the ends of requests: only broadcast events are told.
LEMMA BroadcastKeeps ==
  ASSUME RoutingInv, NEW r \in Requests, NEW how \in {"finished", "failed"},
         Redirect(r) \/ Ends(r, how)
  PROVE  RoutingInv'
<1>1. Typed /\ Ending /\ Policy /\ \A q \in Requests : Pause(q) /\ Challenged(q)
  BY DEF RoutingInv
<1>2. <<>> \in Seq(EventSet) /\ \A S : Never(<<>>, S)
  BY DEF Never
<1>3. /\ \E s \in {"redirected", how} : req' = [req EXCEPT ![r] = s]
      /\ req[r] \in {"sent", "redirected"}
      /\ UNCHANGED <<fixed, stage, challenge, fetch, handlesAuth, unclean, wire, reader, route,
                     owners>>
  BY DEF Redirect, Ends
<1>4. PICK public \in {<<Event("sent", r)>>, <<Event("answered", r), Event(how, r)>>,
                       <<Event(how, r)>>} : Tells(public, <<>>)
  BY DEF Redirect, Ends
<1>5. /\ public \in Seq(EventSet)
      /\ \A q : \A kind \in {"paused", "auth"} : Never(public, {Event(kind, q)})
  <2>1. \A k \in {"sent", "answered", how} :
          /\ Event(k, r) \in EventSet
          /\ \A q : \A kind \in {"paused", "auth"} : Event(k, r) # Event(kind, q)
    BY EventTyped DEF Kinds
  <2>2. /\ public \in Seq(EventSet)
        /\ \A i \in DOMAIN public : \E k \in {"sent", "answered", how} : public[i] = Event(k, r)
    <3> HIDE DEF Event
    <3>1. CASE public = <<Event("sent", r)>>
      BY <2>1, <3>1
    <3>2. CASE public = <<Event("answered", r), Event(how, r)>>
      BY <2>1, <3>2
    <3>3. CASE public = <<Event(how, r)>>
      BY <2>1, <3>3
    <3> QED
      BY <3>1, <3>2, <3>3
  <2> QED
    BY <2>1, <2>2 DEF Never
<1>6. line \in Seq(EventSet) /\ UNCHANGED <<wire, rpc, reply>>
  BY <1>1, <1>3 DEF Typed, TypedTransport, reader
<1>7. ASSUME NEW kind \in {"paused", "auth"}, NEW cmd, NEW q \in Requests
      PROVE  Steady(kind, cmd, q) /\ line' \in Seq(EventSet)
  BY <1>2, <1>4, <1>5, <1>6, ToldOthers
<1>8. Typed'
  <2>1. TypedChrome'
    BY <1>1, <1>3 DEF Typed, TypedChrome, fixed
  <2>2. TypedTransport' /\ TypedOwners'
    BY <1>1, <1>3, <1>7 DEF Typed, TypedTransport, TypedOwners, reader, owners
  <2> QED
    BY <2>1, <2>2 DEF Typed
<1>9. Ending' /\ Policy'
  BY <1>1, <1>3, PolicyStays DEF Ending, RoutesEnd, reader, owners
<1>10. ASSUME NEW q \in Requests  PROVE Pause(q)'
  <2>1. OwnersSteady(q) /\ UNCHANGED closed
    BY <1>3, OwnersLeft DEF owners, reader
  <2>2. req'[q] \in {"new", "paused"} => req'[q] = req[q]
    BY <1>1, <1>3 DEF Typed, TypedChrome
  <2> QED
    BY <1>1, <1>7, <2>1, <2>2, PauseStays
<1>11. ASSUME NEW q \in Requests  PROVE Challenged(q)'
  BY <1>1, <1>3, <1>7, ChallengeStays DEF reader
<1> QED
  BY <1>8, <1>9, <1>10, <1>11 DEF RoutingInv

\* Commands stay sound when others join or leave them.
LEMMA SoundCommands ==
  ASSUME \A i \in DOMAIN wire : Sound(wire[i]), wire \in Seq(CommandSet),
         UNCHANGED <<fixed, stage>>
  PROVE  /\ wire # <<>> /\ wire' = Tail(wire) => \A i \in DOMAIN wire' : Sound(wire[i])'
         /\ \A w \in CommandSet :
              Sound(w) /\ wire' = Append(wire, w) => \A i \in DOMAIN wire' : Sound(wire[i])'
<1>1. \A w : Sound(w) => Sound(w)'
  BY DEF Sound, Base, fixed
<1>2. ASSUME wire # <<>>, wire' = Tail(wire), NEW i \in DOMAIN wire'
      PROVE  Sound(wire[i])'
  <2>1. i + 1 \in DOMAIN wire /\ wire'[i] = wire[i + 1]
    BY <1>2, HeadTailProperties, LenProperties, EmptySeq
  <2>2. PICK w : w = wire[i + 1]
    OBVIOUS
  <2>3. Sound(w)'
    BY <1>1, <2>1, <2>2
  <2> QED
    BY <2>1, <2>2, <2>3 DEF Sound
<1>3. ASSUME NEW w \in CommandSet, Sound(w), wire' = Append(wire, w), NEW i \in DOMAIN wire'
      PROVE  Sound(wire[i])'
  <2>1. wire'[i] = w \/ (i \in DOMAIN wire /\ wire'[i] = wire[i])
    BY <1>3, AppendProperties, LenProperties
  <2>2. PICK x : x = wire'[i]
    OBVIOUS
  <2>3. Sound(x)'
    BY <1>1, <1>3, <2>1, <2>2
  <2> QED
    BY <2>2, <2>3 DEF Sound
<1> QED
  BY <1>2, <1>3

LEMMA ChromeDoesKeeps ==
  ASSUME RoutingInv, ChromeDoes
  PROVE  RoutingInv'
<1>1. Typed /\ Ending /\ Policy /\ \A q \in Requests : Pause(q) /\ Challenged(q)
  BY DEF RoutingInv
<1> DEFINE w == Head(wire)
<1>2. /\ wire \in Seq(CommandSet) /\ wire # <<>> /\ wire' = Tail(wire)
      /\ UNCHANGED <<fixed, stage, line, reader, route, owners, broadcast, watcher>>
  BY <1>1 DEF ChromeDoes, Typed, TypedTransport
<1>3. w \in CommandSet /\ wire' \in Seq(CommandSet) /\ Sound(w) /\ 1 \in DOMAIN wire
  <2>1. 1 \in DOMAIN wire /\ w = wire[1]
    BY <1>2, HeadTailProperties, LenProperties, EmptySeq
  <2> QED
    BY <1>1, <1>2, <2>1, HeadTailProperties DEF Policy
<1>4. \A i \in DOMAIN wire' : Sound(wire[i])'
  BY <1>1, <1>2, SoundCommands DEF Policy
<1>5. ASSUME NEW kind, NEW cmd, NEW q \in Requests, w \notin Resolving(cmd, q)
      PROVE  Steady(kind, cmd, q)
  BY <1>2, <1>5, WireTaken DEF reader
<1>6. ASSUME NEW q \in Requests  PROVE OwnersSteady(q) /\ UNCHANGED closed
  BY <1>2, OwnersLeft DEF owners, reader
<1>7. Ending' /\ TypedOwners'
  BY <1>1, <1>2 DEF Ending, RoutesEnd, reader, owners, Typed, TypedOwners
<1>8. TypedTransport'
  BY <1>1, <1>2, <1>3 DEF Typed, TypedTransport, reader
<1>9. CASE w.cmd = "continueRequest"
  <2> DEFINE r == w.request
  <2>1. /\ r \in Requests /\ w.headers = (strip /\ stage[r] = "request")
        /\ IF req[r] = "paused" /\ (w.headers => stage[r] = "request")
           THEN Leaves(r, w.headers \/ stage[r] = "response") ELSE UNCHANGED <<req, unclean>>
        /\ UNCHANGED <<challenge, fetch, handlesAuth>>
    BY <1>3, <1>9 DEF Sound, ChromeDoes
  <2>2. /\ req[r] = "paused" => req' = [req EXCEPT ![r] = "sent"]
        /\ req[r] # "paused" => UNCHANGED req
        /\ strip => unclean' = {}
    BY <1>1, <2>1 DEF Leaves, Policy, Typed, TypedChrome
  <2>3. w \in Resolving("continueRequest", r)
    BY <1>3, <1>9 DEF Resolving
  <2>4. req[r] # "new"
    <3>1. ~Never(wire, Resolving("continueRequest", r))
      BY <1>2, <2>3, Taken
    <3> QED
      BY <1>1, <2>1, <3>1 DEF Pause, OffTransport
  <2>5. TypedChrome'
    BY <1>1, <1>2, <2>1, <2>2 DEF Typed, TypedChrome, fixed
  <2>6. Policy'
    BY <1>1, <1>2, <1>4, <2>1, <2>2 DEF Policy, Base, Sound, fixed, reader
  <2>7. ASSUME NEW q \in Requests  PROVE Pause(q)'
    <3>1. CASE q = r
      BY <1>1, <2>1, <2>2, <2>4, <3>1 DEF Typed, TypedChrome, Pause
    <3>2. CASE q # r
      <4>1. Steady("paused", "continueRequest", q)
        BY <1>5, <3>2 DEF Resolving
      <4>2. req'[q] = req[q]
        BY <1>1, <2>1, <2>2, <3>2 DEF Typed, TypedChrome
      <4> QED
        BY <1>1, <1>6, <4>1, <4>2, PauseStays
    <3> QED
      BY <3>1, <3>2
  <2>8. ASSUME NEW q \in Requests  PROVE Challenged(q)'
    <3>1. Steady("auth", "continueWithAuth", q)
      BY <1>5, <1>9 DEF Resolving
    <3> QED
      BY <1>1, <1>6, <2>1, <3>1, ChallengeStays
  <2> QED
    BY <1>7, <1>8, <2>5, <2>6, <2>7, <2>8 DEF RoutingInv, Typed
<1>10. CASE w.cmd = "continueWithAuth"
  <2> DEFINE r == w.request
  <2>1. /\ r \in Requests /\ challenge' = [challenge EXCEPT ![r] = "answered"]
        /\ UNCHANGED <<req, unclean, fetch, handlesAuth>>
    BY <1>3, <1>10 DEF Sound, ChromeDoes
  <2>2. TypedChrome'
    BY <1>1, <1>2, <2>1 DEF Typed, TypedChrome, fixed
  <2>3. Policy'
    <3>1. w \in Resolving("continueWithAuth", r)
      BY <1>3, <1>10 DEF Resolving
    <3>2. ~Never(wire, Resolving("continueWithAuth", r))
      BY <1>2, <3>1, Taken
    <3>3. challenge[r] # "none"
      BY <1>1, <2>1, <3>2 DEF Challenged, OffTransport
    <3>4. \A q \in Requests : challenge'[q] # "none" => challenge[q] # "none"
      BY <1>1, <2>1, <3>3 DEF Typed, TypedChrome
    <3> QED
      BY <1>1, <1>2, <1>4, <2>1, <3>4 DEF Policy, Base, Sound, fixed, reader
  <2>4. ASSUME NEW q \in Requests  PROVE Pause(q)'
    <3>1. Steady("paused", "continueRequest", q)
      BY <1>5, <1>10 DEF Resolving
    <3> QED
      BY <1>1, <1>6, <2>1, <3>1, PauseStays
  <2>5. ASSUME NEW q \in Requests  PROVE Challenged(q)'
    <3>1. CASE q = r
      BY <1>1, <2>1, <3>1 DEF Typed, TypedChrome, Challenged
    <3>2. CASE q # r
      <4>1. Steady("auth", "continueWithAuth", q)
        BY <1>5, <3>2 DEF Resolving
      <4>2. challenge'[q] = challenge[q]
        BY <1>1, <2>1, <3>2 DEF Typed, TypedChrome
      <4> QED
        BY <1>1, <1>6, <4>1, <4>2, ChallengeStays
    <3> QED
      BY <3>1, <3>2
  <2> QED
    BY <1>7, <1>8, <2>2, <2>3, <2>4, <2>5 DEF RoutingInv, Typed
<1>11. CASE w.cmd = "fetch"
  <2>1. /\ w.auth = auth /\ w.mode # "none" /\ (Base => w.mode = "all")
        /\ fetch' = w.mode /\ handlesAuth' = w.auth /\ UNCHANGED challenge
        /\ IF w.mode = "off"
           THEN /\ req' = [q \in Requests |-> IF req[q] = "paused" THEN "sent" ELSE req[q]]
                /\ unclean' = unclean \cup
                     {q \in Requests : req[q] = "paused" /\ stage[q] = "request"}
           ELSE UNCHANGED <<req, unclean>>
    BY <1>3, <1>11 DEF Sound, ChromeDoes
  <2>2. TypedChrome'
    BY <1>1, <1>2, <1>3, <2>1 DEF Typed, TypedChrome, fixed, CommandSet
  <2>3. Policy'
    BY <1>1, <1>2, <1>4, <2>1 DEF Policy, Base, Sound, fixed, reader
  <2>4. ASSUME NEW q \in Requests  PROVE Pause(q)'
    <3>1. Steady("paused", "continueRequest", q)
      BY <1>5, <1>11 DEF Resolving
    <3>2. req'[q] \in {"new", "paused"} => req'[q] = req[q]
      BY <1>1, <2>1 DEF Typed, TypedChrome
    <3> QED
      BY <1>1, <1>6, <3>1, <3>2, PauseStays
  <2>5. ASSUME NEW q \in Requests  PROVE Challenged(q)'
    <3>1. Steady("auth", "continueWithAuth", q)
      BY <1>5, <1>11 DEF Resolving
    <3> QED
      BY <1>1, <1>6, <2>1, <3>1, ChallengeStays
  <2> QED
    BY <1>7, <1>8, <2>2, <2>3, <2>4, <2>5 DEF RoutingInv, Typed
<1> QED
  BY <1>3, <1>9, <1>10, <1>11 DEF CommandSet

-----------------------------------------------------------------------------
(* The reader.                                                              *)

LEMMA ContinuationSound ==
  ASSUME TypedChrome, NEW r \in Requests
  PROVE  /\ Continuation(r) \in Resolving("continueRequest", r) /\ Sound(Continuation(r))
         /\ \A q, cmd : Continuation(r) \in Resolving(cmd, q) => cmd = "continueRequest" /\ q = r
BY DEF TypedChrome, Continuation, Command, CommandSet, Resolving, Sound

\* A pause goes to an owner's queue, or becomes the reader's reply; so does a challenge.
LEMMA ReadEventKeeps ==
  ASSUME RoutingInv, ReadEvent
  PROVE  RoutingInv'
<1>1. Typed /\ Ending /\ Policy /\ \A q \in Requests : Pause(q) /\ Challenged(q)
  BY DEF RoutingInv
<1>2. /\ line \in Seq(EventSet) /\ line # <<>> /\ line' = Tail(line) /\ rpc = "read"
      /\ UNCHANGED <<fixed, chrome, wire, closed, route, pc, hands, token>>
  BY <1>1 DEF ReadEvent, Typed, TypedTransport
<1>3. line' \in Seq(EventSet) /\ Head(line) \in EventSet
  BY <1>2, HeadTailProperties
<1>3a. PICK e \in EventSet : e = Head(line)
  BY <1>3
<1> DEFINE r == e.request
<1>4. e.event \in Kinds /\ r \in Requests /\ e = Event(e.event, r)
  BY DEF EventSet, Event
<1>5. ASSUME NEW kind, NEW cmd, NEW q \in Requests, kind # e.event \/ q # r,
             rpc' = "reply" => reply' \notin Resolving(cmd, q)
      PROVE  Steady(kind, cmd, q)
  <2>1. e # Event(kind, q)
    BY <1>4, <1>5 DEF Event
  <2>2. ~Replying(cmd, q) /\ ~Replying(cmd, q)'
    BY <1>2, <1>5 DEF Replying, Resolving
  <2> QED
    BY <1>3a, <1>2, <2>1, <2>2, LineTaken
<1>6. \A cmd : OnTransport(e.event, cmd, r) =>
        /\ Never(line', {Event(e.event, r)}) /\ Never(wire', Resolving(cmd, r))
        /\ ~Replying(cmd, r)
  <2>1. e \in {Event(e.event, r)}
    BY <1>4
  <2> DEFINE S == {Event(e.event, r)}
  <2> HIDE DEF S
  <2>2. ~Never(line, S) /\ (Once(line, S) => Never(line', S))
    BY <1>3a, <1>2, <2>1, Taken DEF S
  <2> QED
    BY <1>2, <2>2 DEF OnTransport, S
<1>7. \A cmd : ~OffTransport(e.event, cmd, r)
  <2>1. ~Never(line, {Event(e.event, r)})
    BY <1>3a, <1>2, <1>4, Taken
  <2> QED
    BY <2>1 DEF OffTransport
<1>8. TypedChrome' /\ Ending'
  BY <1>1, <1>2 DEF ReadEvent, Refused, Typed, TypedChrome, Ending, RoutesEnd, fixed, chrome
<1>9. CASE e.event = "paused" /\ RouteTakes(r)
  <2>1. /\ queue' = [queue EXCEPT ![route] = Append(@, r)] /\ UNCHANGED <<rpc, reply, log>>
        /\ route \in Owners /\ Len(queue[route]) < QueueCap
    BY <1>3a, <1>1, <1>9 DEF ReadEvent, RouteTakes, Typed, TypedTransport
  <2>2. TypedTransport'
    BY <1>1, <1>2, <1>3, <2>1 DEF Typed, TypedTransport
  <2>3. TypedOwners'
    <3>1. /\ Append(queue[route], r) \in Seq(Requests)
          /\ Len(Append(queue[route], r)) <= QueueCap
      BY <1>1, <1>4, <2>1, RoutingAssumption, AppendProperties, LenProperties
         DEF Typed, TypedOwners
    <3> QED
      BY <1>1, <1>2, <2>1, <3>1 DEF Typed, TypedOwners
  <2>4. Policy'
    BY <1>1, <1>2, <2>1, PolicyStays DEF chrome
  <2>5. ASSUME NEW q \in Requests  PROVE Pause(q)'
    <3>1. CASE q = r
      <4>1. req[r] # "new"
        BY <1>1, <1>4, <1>7, <1>9 DEF Pause
      <4>2. CASE req[r] = "paused" /\ ~closed
        <5>1. OnTransport("paused", "continueRequest", r) /\ NoHand(r) /\ NoQueue(r)
          BY <1>1, <1>4, <1>7, <1>9, <4>2 DEF Pause
        <5>2. OffTransport("paused", "continueRequest", r)'
          BY <1>2, <1>6, <1>9, <2>1, <5>1 DEF OffTransport, Replying, Resolving
        <5>3. NoHand(r)'
          BY <1>2, <5>1 DEF NoHand, Holding
        <5>4. OneQueue(r)'
          <6>1. Once(queue'[route], {r})
            <7>1. queue[route] \in Seq(Requests) /\ Never(queue[route], {r})
              BY <1>1, <2>1, <5>1 DEF Typed, TypedOwners, NoQueue
            <7>2. Once(Append(queue[route], r), {r})
              BY <1>4, <7>1, Appended
            <7> QED
              BY <1>1, <2>1, <7>2 DEF Typed, TypedOwners
          <6>2. \A p \in Owners : p # route => Never(queue'[p], {r})
            BY <1>1, <2>1, <5>1 DEF NoQueue, Typed, TypedOwners
          <6> QED
            BY <2>1, <6>1, <6>2 DEF OneQueue
        <5> QED
          BY <1>2, <3>1, <4>2, <5>2, <5>3, <5>4 DEF Pause, chrome
      <4> QED
        BY <1>2, <3>1, <4>1, <4>2 DEF Pause, chrome
    <3>2. CASE q # r
      <4>1. Steady("paused", "continueRequest", q)
        BY <1>2, <1>5, <2>1, <3>2
      <4>2. /\ Never(queue[route], {q}) => Never(queue'[route], {q})
            /\ Once(queue[route], {q}) => Once(queue'[route], {q})
            /\ \A p \in Owners : p # route => queue'[p] = queue[p]
        <5>1. queue[route] \in Seq(Requests) /\ r \notin {q}
          BY <1>1, <2>1, <3>2 DEF Typed, TypedOwners
        <5>2. /\ Never(queue[route], {q}) => Never(Append(queue[route], r), {q})
              /\ Once(queue[route], {q}) => Once(Append(queue[route], r), {q})
          BY <1>4, <5>1, Appended
        <5> QED
          BY <1>1, <2>1, <5>2 DEF Typed, TypedOwners
      <4>3. OwnersSteady(q)
        BY <1>2, <2>1, <4>2 DEF OwnersSteady, NoHand, OneHand, NoQueue, OneQueue, Holding
      <4> QED
        BY <1>1, <1>2, <4>1, <4>3, PauseStays DEF chrome
    <3> QED
      BY <3>1, <3>2
  <2>6. ASSUME NEW q \in Requests  PROVE Challenged(q)'
    BY <1>1, <1>2, <1>5, <1>9, <2>1, ChallengeStays DEF chrome
  <2> QED
    BY <1>8, <2>2, <2>3, <2>4, <2>5, <2>6 DEF RoutingInv, Typed
<1>10. ASSUME NEW kind \in {"paused", "auth"}, NEW cmd \in {"continueRequest", "continueWithAuth"},
              e.event = kind, rpc' = "reply", UNCHANGED queue,
              reply' \in Resolving(cmd, r), Sound(reply)',
              kind = "paused" <=> cmd = "continueRequest"
       PROVE  RoutingInv'
  <2>1. TypedTransport' /\ TypedOwners'
    BY <1>1, <1>2, <1>3, <1>10 DEF Typed, TypedTransport, TypedOwners, Resolving
  <2>2. Policy'
    <3>1. \A i \in DOMAIN wire' : Sound(wire[i])'
      BY <1>1, <1>2 DEF Policy, Sound, Base, fixed, chrome
    <3> QED
      BY <1>1, <1>2, <1>10, <3>1 DEF Policy, Base, fixed, chrome
  <2>3. OnTransport(kind, cmd, r) => OnTransport(kind, cmd, r)'
    <3>1. Replying(cmd, r)'
      BY <1>10 DEF Replying, Resolving
    <3> QED
      BY <1>6, <1>10, <3>1 DEF OnTransport, Resolving
  <2>4. Steady(kind, cmd, r)
    BY <1>7, <1>10, <2>3 DEF Steady
  <2>5. ASSUME NEW k, NEW c, NEW q \in Requests, k = "paused" <=> c = "continueRequest",
               k \in {"paused", "auth"}, c \in {"continueRequest", "continueWithAuth"}
        PROVE  Steady(k, c, q)
    BY <1>5, <1>10, <2>4, <2>5 DEF Resolving
  <2>6. ASSUME NEW q \in Requests  PROVE Pause(q)'
    BY <1>1, <1>2, <1>10, <2>5, OwnersLeft, PauseStays DEF chrome
  <2>7. ASSUME NEW q \in Requests  PROVE Challenged(q)'
    BY <1>1, <1>2, <2>5, ChallengeStays DEF chrome
  <2> QED
    BY <1>8, <2>1, <2>2, <2>6, <2>7 DEF RoutingInv, Typed
<1>11. CASE e.event = "paused" /\ ~RouteTakes(r)
  <2>1. reply' = Continuation(r) /\ rpc' = "reply" /\ UNCHANGED queue
    BY <1>3a, <1>11 DEF ReadEvent, Refused
  <2>2. PICK w : w = Continuation(r)
    OBVIOUS
  <2>3. w \in Resolving("continueRequest", r) /\ Sound(w)
    BY <1>1, <1>4, <2>2, ContinuationSound DEF Typed
  <2>4. Sound(w)' /\ reply' = w
    BY <1>2, <2>1, <2>2, <2>3 DEF Sound, Base, fixed, chrome
  <2>5. Sound(reply)'
    BY <2>4 DEF Sound
  <2> QED
    BY <1>10, <1>11, <2>1, <2>3, <2>4, <2>5
<1>12. CASE e.event = "auth" /\ auth
  <2>1. /\ reply' = Command("continueWithAuth", r, FALSE, "none", FALSE)
        /\ rpc' = "reply" /\ UNCHANGED queue
    BY <1>3a, <1>12 DEF ReadEvent
  <2>2. reply' \in Resolving("continueWithAuth", r) /\ Sound(reply)'
    BY <1>4, <2>1 DEF Command, Resolving, CommandSet, Sound
  <2> QED
    BY <1>10, <1>12, <2>1, <2>2
<1>13. CASE e.event # "paused" /\ ~(e.event = "auth" /\ auth)
  <2>1. UNCHANGED <<queue, rpc, reply>>
    BY <1>3a, <1>13 DEF ReadEvent
  <2>2. TypedTransport' /\ TypedOwners'
    BY <1>1, <1>2, <1>3, <2>1 DEF Typed, TypedTransport, TypedOwners
  <2>3. Policy'
    BY <1>1, <1>2, <2>1, PolicyStays DEF chrome
  <2>4. e.event # "auth"
    BY <1>1, <1>4, <1>7, <1>13 DEF Policy, Challenged
  <2>5. ASSUME NEW q \in Requests, NEW kind \in {"paused", "auth"}, NEW cmd
        PROVE  Steady(kind, cmd, q)
    BY <1>2, <1>5, <1>13, <2>1, <2>4
  <2>6. ASSUME NEW q \in Requests  PROVE Pause(q)'
    BY <1>1, <1>2, <2>1, <2>5, OwnersLeft, PauseStays DEF chrome
  <2>7. ASSUME NEW q \in Requests  PROVE Challenged(q)'
    BY <1>1, <1>2, <2>5, ChallengeStays DEF chrome
  <2> QED
    BY <1>8, <2>2, <2>3, <2>6, <2>7 DEF RoutingInv, Typed
<1> QED
  BY <1>9, <1>11, <1>12, <1>13

LEMMA WriteReplyKeeps ==
  ASSUME RoutingInv, WriteReply
  PROVE  RoutingInv'
<1>1. Typed /\ Ending /\ Policy /\ \A q \in Requests : Pause(q) /\ Challenged(q)
  BY DEF RoutingInv
<1>2. /\ rpc = "reply" /\ rpc' = "read" /\ wire' = Append(wire, reply)
      /\ reply \in CommandSet /\ wire \in Seq(CommandSet) /\ Sound(reply)
      /\ UNCHANGED <<fixed, chrome, line, closed, route, owners>>
  BY <1>1 DEF WriteReply, Typed, TypedTransport, Policy
<1>3. Typed' /\ Ending'
  <2>1. wire' \in Seq(CommandSet)
    BY <1>2, AppendProperties
  <2> QED
    BY <1>1, <1>2, <2>1 DEF Typed, TypedChrome, TypedTransport, TypedOwners, Ending, RoutesEnd,
       fixed, chrome, owners
<1>4. Policy'
  <2>1. PICK w \in CommandSet : w = reply
    BY <1>2
  <2>2. \A i \in DOMAIN wire' : Sound(wire[i])'
    BY <1>1, <1>2, <2>1, SoundCommands DEF Policy, chrome
  <2> QED
    BY <1>1, <1>2, <2>2 DEF Policy, Base, fixed, chrome
<1>5. ASSUME NEW kind, NEW cmd, NEW q  PROVE Steady(kind, cmd, q)
  <2> DEFINE S == Resolving(cmd, q)
  <2>1. ~Replying(cmd, q)' /\ (Replying(cmd, q) <=> reply \in S)
    BY <1>2 DEF Replying
  <2>2. /\ reply \in S /\ Never(wire, S) => Once(wire', S)
        /\ reply \notin S /\ Never(wire, S) => Never(wire', S)
        /\ reply \notin S /\ Once(wire, S) => Once(wire', S)
    BY <1>2, Appended
  <2> QED
    BY <1>2, <2>1, <2>2 DEF Steady, OffTransport, OnTransport, Resolving
<1>6. ASSUME NEW q \in Requests  PROVE Pause(q)' /\ Challenged(q)'
  BY <1>1, <1>2, <1>5, OwnersLeft, PauseStays, ChallengeStays DEF owners, chrome
<1> QED
  BY <1>3, <1>4, <1>6 DEF RoutingInv

LEMMA ReaderEndsKeeps ==
  ASSUME RoutingInv, ReaderBreaks \/ ReaderEnds \/ Close
  PROVE  RoutingInv'
<1>1. Typed /\ Ending /\ Policy /\ \A q \in Requests : Pause(q) /\ Challenged(q)
  BY DEF RoutingInv
<1>2. /\ UNCHANGED <<fixed, chrome, owners>> /\ closed' /\ closed' \in BOOLEAN
      /\ \/ UNCHANGED <<line, wire, rpc, reply, route>>
         \/ line' = <<>> /\ wire' = <<>> /\ rpc' = "closing" /\ UNCHANGED route
         \/ UNCHANGED <<line, wire>> /\ rpc' = "finished" /\ rpc = "closing" /\ route' = None
  BY <1>1 DEF ReaderBreaks, ReaderEnds, Close, Ending, Typed, TypedTransport
<1>3. Typed'
  <2>1. TypedChrome' /\ TypedOwners'
    BY <1>1, <1>2 DEF Typed, TypedChrome, TypedOwners, fixed, chrome, owners
  <2>2. line' \in Seq(EventSet) /\ wire' \in Seq(CommandSet)
    <3>1. <<>> \in Seq(EventSet) /\ <<>> \in Seq(CommandSet)
      OBVIOUS
    <3> QED
      BY <1>1, <1>2, <3>1 DEF Typed, TypedTransport
  <2>3. /\ rpc' \in {"read", "reply", "closing", "finished"} /\ route' \in Owners \cup {None}
        /\ rpc' = "reply" => UNCHANGED <<rpc, reply>>
    BY <1>1, <1>2 DEF Typed, TypedTransport
  <2>4. TypedTransport'
    BY <1>1, <1>2, <2>2, <2>3 DEF Typed, TypedTransport
  <2> QED
    BY <2>1, <2>4 DEF Typed
<1>4. Ending'
  <2>1. rpc = "finished" => rpc' # "finished" \/ UNCHANGED route
    BY <1>2
  <2> QED
    BY <1>1, <1>2, <2>1 DEF Ending, RoutesEnd, owners
<1>5. Policy'
  <2>1. CASE UNCHANGED <<line, wire, rpc, reply, route>>
    BY <1>1, <1>2, <2>1, PolicyStays DEF chrome
  <2>2. CASE wire' = <<>> /\ rpc' # "reply"
    BY <1>1, <1>2, <2>2 DEF Policy, Base, fixed, chrome
  <2>3. CASE UNCHANGED wire /\ rpc' = "finished"
    <3>1. \A i \in DOMAIN wire' : Sound(wire[i])'
      BY <1>1, <1>2, <2>3 DEF Policy, Sound, Base, fixed, chrome
    <3> QED
      BY <1>1, <1>2, <2>3, <3>1 DEF Policy, Base, fixed, chrome
  <2> QED
    BY <1>2, <2>1, <2>2, <2>3
<1>6. ASSUME NEW q, NEW kind, NEW cmd, OffTransport(kind, cmd, q)
      PROVE  OffTransport(kind, cmd, q)'
  <2>1. /\ UNCHANGED line \/ line' = <<>>
        /\ UNCHANGED wire \/ wire' = <<>>
        /\ rpc' = "reply" => UNCHANGED <<rpc, reply>>
    BY <1>2
  <2> QED
    BY <1>6, <2>1 DEF OffTransport, Never, Replying, Resolving
<1>7. ASSUME NEW q \in Requests  PROVE Pause(q)' /\ Challenged(q)'
  <2>1. OwnersSteady(q)
    BY <1>2, OwnersLeft DEF owners
  <2> QED
    BY <1>1, <1>2, <1>6, <2>1 DEF Pause, Challenged, OwnersSteady, chrome
<1> QED
  BY <1>3, <1>4, <1>5, <1>7 DEF RoutingInv

-----------------------------------------------------------------------------
(* Owners of the route.                                                     *)

\* A route comes or goes; the pauses stay where they are.
LEMMA RouteKeeps ==
  ASSUME RoutingInv, NEW o \in Owners, Install(o) \/ RemoveRoute(o) \/ DropReceiver(o)
  PROVE  RoutingInv'
<1>1. Typed /\ Ending /\ Policy /\ \A q \in Requests : Pause(q) /\ Challenged(q)
  BY DEF RoutingInv
<1>2. /\ UNCHANGED <<fixed, chrome, line, wire, reader, queue, hands, token>>
      /\ \E p \in {"installed", "leaving", "done"} : pc' = [pc EXCEPT ![o] = p]
      /\ UNCHANGED route \/ route' = None \/ (route' = o /\ ~closed)
  BY DEF Install, RemoveRoute, DropReceiver, MayInstall
<1>3. Typed' /\ Ending'
  <2>1. TypedChrome' /\ TypedTransport'
    BY <1>1, <1>2 DEF Typed, TypedChrome, TypedTransport, fixed, chrome, reader
  <2>2. TypedOwners'
    BY <1>1, <1>2 DEF Typed, TypedOwners
  <2>3. Ending'
    BY <1>1, <1>2 DEF Ending, RoutesEnd, reader
  <2> QED
    BY <2>1, <2>2, <2>3 DEF Typed
<1>4. Policy'
  BY <1>1, <1>2, PolicyStays DEF chrome, reader
<1>5. ASSUME NEW q \in Requests  PROVE Pause(q)' /\ Challenged(q)'
  BY <1>1, <1>2, OwnersLeft, TransportLeft, PauseStays, ChallengeStays DEF chrome, reader
<1> QED
  BY <1>3, <1>4, <1>5 DEF RoutingInv

\* A pause goes from the queue of an owner to its hands.
LEMMA TakeKeeps ==
  ASSUME RoutingInv, NEW o \in Owners, Take(o)
  PROVE  RoutingInv'
<1>1. Typed /\ Ending /\ Policy /\ \A q \in Requests : Pause(q) /\ Challenged(q)
  BY DEF RoutingInv
<1>2. /\ hands[o] = None /\ ~token[o]
      /\ queue[o] \in Seq(Requests) /\ queue[o] # <<>>
      /\ hands' = [hands EXCEPT ![o] = Head(queue[o])]
      /\ queue' = [queue EXCEPT ![o] = Tail(queue[o])]
      /\ UNCHANGED <<fixed, chrome, line, wire, reader, route, pc, token>>
  BY <1>1 DEF Take, Ending, Typed, TypedOwners
<1>3. PICK r \in Requests : r = Head(queue[o])
  BY <1>2, HeadTailProperties
<1>4. /\ hands'[o] = r /\ queue'[o] = Tail(queue[o])
      /\ \A p \in Owners : p # o => hands'[p] = hands[p] /\ queue'[p] = queue[p]
      /\ Tail(queue[o]) \in Seq(Requests) /\ Len(queue'[o]) <= QueueCap
  <2>1. Tail(queue[o]) \in Seq(Requests) /\ Len(Tail(queue[o])) < Len(queue[o])
    BY <1>2, HeadTailProperties, LenProperties
  <2>2. Len(Tail(queue[o])) \in Nat /\ Len(queue[o]) \in Nat /\ QueueCap \in Nat
    BY <1>2, <2>1, LenProperties, RoutingAssumption
  <2> QED
    BY <1>1, <1>2, <1>3, <2>1, <2>2 DEF Typed, TypedOwners
<1>5. Typed' /\ Ending'
  <2>1. TypedChrome' /\ TypedTransport'
    BY <1>1, <1>2 DEF Typed, TypedChrome, TypedTransport, fixed, chrome, reader
  <2>2. TypedOwners'
    BY <1>1, <1>2, <1>3, <1>4 DEF Typed, TypedOwners
  <2>3. Ending'
    BY <1>1, <1>2, <1>4 DEF Ending, RoutesEnd, reader
  <2> QED
    BY <2>1, <2>2, <2>3 DEF Typed
<1>6. Policy'
  BY <1>1, <1>2, PolicyStays DEF chrome, reader
<1>7. None \notin Requests
  BY RoutingAssumption
<1>8. ASSUME NEW q \in Requests, q # r  PROVE OwnersSteady(q)
  <2>1. \A p \in Owners : Holding(p, q)' <=> Holding(p, q)
    BY <1>2, <1>4, <1>7, <1>8 DEF Holding
  <2>2. r \notin {q}
    BY <1>8
  <2>3. /\ Never(queue[o], {q}) => Never(Tail(queue[o]), {q})
        /\ Once(queue[o], {q}) => Once(Tail(queue[o]), {q})
    BY <1>2, <1>3, <2>2, Taken
  <2>4. /\ NoHand(q) => NoHand(q)'
        /\ OneHand(q) => OneHand(q)'
    BY <2>1 DEF NoHand, OneHand
  <2>5. \A p \in Owners : /\ Never(queue[p], {q}) => Never(queue'[p], {q})
                          /\ Once(queue[p], {q}) => Once(queue'[p], {q})
    BY <1>4, <2>3
  <2> QED
    BY <2>4, <2>5 DEF OwnersSteady, NoQueue, OneQueue
<1>9. ~NoQueue(r)
  <2>1. ~Never(queue[o], {r})
    BY <1>2, <1>3, Taken
  <2> QED
    BY <2>1 DEF NoQueue
<1>10. ASSUME OneQueue(r), NoHand(r)  PROVE NoQueue(r)' /\ OneHand(r)'
  <2>1. ~Never(queue[o], {r})
    BY <1>2, <1>3, Taken
  <2>2. Once(queue[o], {r}) /\ \A p \in Owners : p # o => Never(queue[p], {r})
    BY <1>10, <2>1 DEF OneQueue
  <2>3. Never(Tail(queue[o]), {r})
    BY <1>2, <1>3, <2>2, Taken
  <2>4. NoQueue(r)'
    BY <1>4, <2>2, <2>3 DEF NoQueue
  <2>5. OneHand(r)'
    BY <1>2, <1>4, <1>10 DEF OneHand, NoHand, Holding
  <2> QED
    BY <2>4, <2>5
<1>11. ASSUME NEW q \in Requests  PROVE Pause(q)' /\ Challenged(q)'
  <2>1. \A kind, cmd : Steady(kind, cmd, q)
    BY <1>2, TransportLeft DEF reader
  <2>2. Challenged(q)'
    BY <1>1, <1>2, <2>1, ChallengeStays DEF chrome, reader
  <2>3. CASE q # r
    BY <1>1, <1>2, <1>8, <2>1, <2>2, <2>3, PauseStays DEF chrome, reader
  <2>4. CASE q = r
    <3>1. req[r] # "new"
      BY <1>1, <1>9 DEF Pause
    <3>2. Pause(r)'
      BY <1>1, <1>2, <1>9, <1>10, <2>1, <2>4, <3>1 DEF Pause, Steady, chrome, reader
    <3> QED
      BY <2>2, <2>4, <3>2
  <2> QED
    BY <2>3, <2>4
<1> QED
  BY <1>5, <1>6, <1>11 DEF RoutingInv

\* The owner's continuation is put on the wire and its token marked.
LEMMA InsertKeeps ==
  ASSUME RoutingInv, NEW o \in Owners, Insert(o)
  PROVE  RoutingInv'
<1>1. Typed /\ Ending /\ Policy /\ \A q \in Requests : Pause(q) /\ Challenged(q)
  BY DEF RoutingInv
<1>2. PICK r \in Requests : r = hands[o]
  BY <1>1 DEF Insert, Typed, TypedOwners
<1>3. PICK w \in CommandSet : w = Continuation(r)
  BY <1>1, ContinuationSound DEF Typed, Resolving
<1>4. /\ ~token[o] /\ wire \in Seq(CommandSet) /\ wire' = Append(wire, w)
      /\ token' = [token EXCEPT ![o] = TRUE]
      /\ UNCHANGED <<fixed, chrome, line, reader, route, pc, queue, hands>>
  BY <1>1, <1>2, <1>3 DEF Insert, TokenOnWrite, Typed, TypedTransport
<1>5. /\ w \in Resolving("continueRequest", r) /\ Sound(w)
      /\ \A q, cmd : w \in Resolving(cmd, q) => cmd = "continueRequest" /\ q = r
  BY <1>1, <1>3, ContinuationSound DEF Typed
<1>6. Typed' /\ Ending'
  <2>1. wire' \in Seq(CommandSet)
    BY <1>4, AppendProperties
  <2>2. TypedChrome' /\ TypedTransport'
    BY <1>1, <1>4, <2>1 DEF Typed, TypedChrome, TypedTransport, fixed, chrome, reader
  <2>3. TypedOwners'
    BY <1>1, <1>4 DEF Typed, TypedOwners
  <2>4. Ending'
    BY <1>1, <1>2, <1>4, RoutingAssumption DEF Ending, RoutesEnd, Typed, TypedOwners, reader
  <2> QED
    BY <2>2, <2>3, <2>4 DEF Typed
<1>7. Policy'
  <2>1. \A i \in DOMAIN wire' : Sound(wire[i])'
    BY <1>1, <1>4, <1>5, SoundCommands DEF Policy, chrome
  <2> QED
    BY <1>1, <1>4, <2>1 DEF Policy, Sound, Base, fixed, chrome, reader
<1>8. ASSUME NEW kind, NEW cmd, NEW q \in Requests, cmd # "continueRequest" \/ q # r
      PROVE  Steady(kind, cmd, q)
  BY <1>4, <1>5, <1>8, WireGiven DEF reader
<1>9. ASSUME NEW q \in Requests, q # r  PROVE OwnersSteady(q)
  <2>1. \A p \in Owners : Holding(p, q)' <=> Holding(p, q)
    BY <1>1, <1>2, <1>4, <1>9 DEF Holding, Typed, TypedOwners
  <2> QED
    BY <1>4, <2>1 DEF OwnersSteady, NoHand, OneHand, NoQueue, OneQueue
<1>10. ~NoHand(r)
  BY <1>2, <1>4 DEF NoHand, Holding
<1>11. ASSUME OneHand(r), OffTransport("paused", "continueRequest", r)
       PROVE  OnTransport("paused", "continueRequest", r)' /\ NoHand(r)'
  <2>1. \A p \in Owners : Holding(p, r) => p = o
    BY <1>2, <1>4, <1>11 DEF OneHand, Holding
  <2>2. NoHand(r)'
    BY <1>1, <1>4, <2>1 DEF NoHand, Holding, Typed, TypedOwners
  <2>3. Once(wire', Resolving("continueRequest", r))
    BY <1>4, <1>5, <1>11, Appended DEF OffTransport
  <2>4. UNCHANGED <<line, rpc, reply>>
    BY <1>4 DEF reader
  <2>5. OnTransport("paused", "continueRequest", r)'
    BY <1>11, <2>3, <2>4 DEF OffTransport, OnTransport, Replying, Resolving
  <2> QED
    BY <2>2, <2>5
<1>12. ASSUME NEW q \in Requests  PROVE Pause(q)' /\ Challenged(q)'
  <2>1. Challenged(q)'
    BY <1>1, <1>4, <1>8, ChallengeStays DEF chrome, reader
  <2>2. CASE q # r
    BY <1>1, <1>4, <1>8, <1>9, <2>1, <2>2, PauseStays DEF chrome, reader
  <2>3. CASE q = r
    <3>1. NoQueue(r) => NoQueue(r)'
      BY <1>4 DEF NoQueue
    <3>2. Pause(r)'
      BY <1>1, <1>4, <1>10, <1>11, <3>1 DEF Pause, chrome, reader
    <3> QED
      BY <2>1, <2>3, <3>2
  <2> QED
    BY <2>2, <2>3
<1> QED
  BY <1>6, <1>7, <1>12 DEF RoutingInv

\* What the owner lets go is marked, or the transport has closed.
LEMMA EndAttemptKeeps ==
  ASSUME RoutingInv, NEW o \in Owners, EndAttempt(o)
  PROVE  RoutingInv'
<1>1. Typed /\ Ending /\ Policy /\ \A q \in Requests : Pause(q) /\ Challenged(q)
  BY DEF RoutingInv
<1>2. /\ token[o] \/ closed
      /\ hands' = [hands EXCEPT ![o] = None] /\ token' = [token EXCEPT ![o] = FALSE]
      /\ UNCHANGED <<fixed, chrome, line, wire, reader, route, pc, queue>>
  BY DEF EndAttempt
<1>3. Typed' /\ Ending'
  <2>1. TypedChrome' /\ TypedTransport'
    BY <1>1, <1>2 DEF Typed, TypedChrome, TypedTransport, fixed, chrome, reader
  <2>2. TypedOwners'
    BY <1>1, <1>2 DEF Typed, TypedOwners
  <2>3. Ending'
    BY <1>1, <1>2 DEF Ending, RoutesEnd, Typed, TypedOwners, reader
  <2> QED
    BY <2>1, <2>2, <2>3 DEF Typed
<1>4. Policy'
  BY <1>1, <1>2, PolicyStays DEF chrome, reader
<1>5. ASSUME NEW q \in Requests  PROVE Pause(q)' /\ Challenged(q)'
  <2>1. \A kind, cmd : Steady(kind, cmd, q)
    BY <1>2, TransportLeft DEF reader
  <2>2. Challenged(q)'
    BY <1>1, <1>2, <2>1, ChallengeStays DEF chrome, reader
  <2>3. \A p \in Owners : Holding(p, q)' => Holding(p, q) /\ p # o
    BY <1>1, <1>2, RoutingAssumption DEF Holding, Typed, TypedOwners
  <2>4. \A p \in Owners : p # o => (Holding(p, q)' <=> Holding(p, q))
    BY <1>1, <1>2 DEF Holding, Typed, TypedOwners
  <2>5. NoHand(q) => NoHand(q)'
    BY <2>3 DEF NoHand
  <2>6. ~closed /\ OneHand(q) => OneHand(q)'
    <3>1. ~closed => ~Holding(o, q)
      BY <1>2 DEF Holding
    <3> QED
      BY <2>3, <2>4, <3>1 DEF OneHand
  <2>7. /\ NoQueue(q) => NoQueue(q)'
        /\ OneQueue(q) => OneQueue(q)'
    BY <1>2 DEF NoQueue, OneQueue
  <2>8. Pause(q)'
    BY <1>1, <1>2, <2>1, <2>5, <2>6, <2>7 DEF Pause, Steady, chrome, reader
  <2> QED
    BY <2>2, <2>8
<1> QED
  BY <1>3, <1>4, <1>5 DEF RoutingInv

LEMMA SetRequestInterceptionKeeps ==
  ASSUME RoutingInv, NEW o \in Owners, NEW patterns \in BOOLEAN,
         SetRequestInterception(o, patterns)
  PROVE  RoutingInv'
<1>1. Typed /\ Ending /\ Policy /\ \A q \in Requests : Pause(q) /\ Challenged(q)
  BY DEF RoutingInv
<1>2. PICK w : w = Command("fetch", None, FALSE, Interception(patterns), auth)
  OBVIOUS
<1>3. /\ wire \in Seq(CommandSet) /\ wire' = Append(wire, w)
      /\ UNCHANGED <<fixed, chrome, line, reader, route, owners>>
  BY <1>1, <1>2 DEF SetRequestInterception, Typed, TypedTransport
<1>4. w \in CommandSet /\ Sound(w) /\ w.cmd = "fetch"
  BY <1>1, <1>2 DEF Command, Interception, CommandSet, Sound, Typed, TypedChrome
<1>5. Typed' /\ Ending'
  <2>1. wire' \in Seq(CommandSet)
    BY <1>3, <1>4, AppendProperties
  <2> QED
    BY <1>1, <1>3, <2>1 DEF Typed, TypedChrome, TypedTransport, TypedOwners, Ending, RoutesEnd,
       fixed, chrome, reader, owners
<1>6. Policy'
  <2>1. \A i \in DOMAIN wire' : Sound(wire[i])'
    BY <1>1, <1>3, <1>4, SoundCommands DEF Policy, chrome
  <2> QED
    BY <1>1, <1>3, <2>1 DEF Policy, Sound, Base, fixed, chrome, reader
<1>7. ASSUME NEW kind, NEW cmd \in {"continueRequest", "continueWithAuth"}, NEW q \in Requests
      PROVE  Steady(kind, cmd, q)
  BY <1>3, <1>4, WireGiven DEF reader, Resolving
<1>8. ASSUME NEW q \in Requests  PROVE Pause(q)' /\ Challenged(q)'
  BY <1>1, <1>3, <1>7, OwnersLeft, PauseStays, ChallengeStays DEF owners, chrome, reader
<1> QED
  BY <1>5, <1>6, <1>8 DEF RoutingInv

\* Subscribers and the watcher touch nothing of this.
LEMMA WatchersLeave ==
  ASSUME RoutingInv, UNCHANGED <<fixed, chrome, line, wire, reader, route, owners>>
  PROVE  RoutingInv'
<1>1. Typed /\ Ending /\ Policy /\ \A q \in Requests : Pause(q) /\ Challenged(q)
  BY DEF RoutingInv
<1>2. Typed' /\ Ending'
  BY <1>1 DEF Typed, TypedChrome, TypedTransport, TypedOwners, Ending, RoutesEnd,
     fixed, chrome, reader, owners
<1>3. Policy'
  BY <1>1, PolicyStays DEF chrome, reader
<1>4. ASSUME NEW q \in Requests  PROVE Pause(q)' /\ Challenged(q)'
  BY <1>1, OwnersLeft, TransportLeft, PauseStays, ChallengeStays DEF chrome, reader, owners
<1> QED
  BY <1>2, <1>3, <1>4 DEF RoutingInv

LEMMA RoutingKeeps ==
  ASSUME RoutingInv, [Next]_vars
  PROVE  RoutingInv'
<1>1. ASSUME ChromeNext  PROVE RoutingInv'
  BY <1>1, ChromeDoesKeeps, RequestKeeps, ChallengeKeeps, BroadcastKeeps DEF ChromeNext
<1>2. ASSUME ReaderNext \/ Close  PROVE RoutingInv'
  BY <1>2, ReadEventKeeps, WriteReplyKeeps, ReaderEndsKeeps DEF ReaderNext
<1>3. ASSUME NEW o \in Owners, OwnerNext(o)  PROVE RoutingInv'
  BY <1>3, RouteKeeps, TakeKeeps, InsertKeeps, EndAttemptKeeps, SetRequestInterceptionKeeps
     DEF OwnerNext
<1>4. ASSUME WatcherRecv \/ Clear \/ (\E k \in Subscribers : SubscriberNext(k)) \/ UNCHANGED vars
      PROVE  RoutingInv'
  <2>1. UNCHANGED <<fixed, chrome, line, wire, reader, route, owners>>
    BY <1>4 DEF WatcherRecv, Clear, SubscriberNext, Subscribe, Receive, ReceiverEnds, vars
  <2> QED
    BY <2>1, WatchersLeave
<1> QED
  BY <1>1, <1>2, <1>3, <1>4 DEF Next

LEMMA RoutingBegins == Init => RoutingInv
<1> SUFFICES ASSUME Init  PROVE RoutingInv
  OBVIOUS
<1>1. strip \in BOOLEAN /\ auth \in BOOLEAN
  BY RoutingAssumption DEF Init
<1>2. Typed
  <2>1. TypedChrome
    BY <1>1 DEF Init, TypedChrome, Base
  <2>2. line = <<>> /\ wire = <<>> /\ <<>> \in Seq(EventSet) /\ <<>> \in Seq(CommandSet)
    BY DEF Init
  <2>3. TypedTransport
    BY <2>2 DEF Init, TypedTransport
  <2>4. <<>> \in Seq(Requests) /\ Len(<<>>) = 0 /\ QueueCap \in Nat
    BY RoutingAssumption
  <2>5. TypedOwners
    BY <2>4 DEF Init, TypedOwners
  <2> QED
    BY <2>1, <2>3, <2>5 DEF Typed
<1>3. Ending /\ Policy
  BY <1>1 DEF Init, Ending, RoutesEnd, Policy, Base
<1>4. ASSUME NEW q \in Requests  PROVE Pause(q) /\ Challenged(q)
  <2>1. line = <<>> /\ wire = <<>> /\ rpc = "read" /\ req[q] = "new" /\ challenge[q] = "none"
    BY DEF Init
  <2>2. \A S : Never(<<>>, S)
    BY DEF Never
  <2>3. \A kind, cmd : OffTransport(kind, cmd, q)
    BY <2>1, <2>2 DEF OffTransport, Replying
  <2>4. NoHand(q)
    BY RoutingAssumption DEF Init, NoHand, Holding
  <2>5. NoQueue(q)
    BY <2>2 DEF Init, NoQueue
  <2> QED
    BY <2>1, <2>3, <2>4, <2>5 DEF Pause, Challenged
<1> QED
  BY <1>2, <1>3, <1>4 DEF RoutingInv

\* A pause is in one place, a command follows the policy.
LEMMA RoutingHolds == Spec => []RoutingInv
<1>1. RoutingInv /\ [Next]_vars => RoutingInv'
  BY RoutingKeeps
<1> QED
  BY <1>1, RoutingBegins, PTL DEF Spec

-----------------------------------------------------------------------------
(* The events a watcher sees, in order.                                     *)

\* What two sequences have, and the order of their events.
LEMMA InJoined ==
  ASSUME NEW T, NEW s \in Seq(T), NEW t \in Seq(T)
  PROVE  /\ \A e : In(s \o t, e) <=> In(s, e) \/ In(t, e)
         /\ \A r : /\ Ordered(s, r)
                   /\ ~In(t, Event("failed", r)) \/ ~In(t, Event("sent", r))
                   /\ ~In(s, Event("failed", r)) \/ ~In(t, Event("sent", r))
                   => Ordered(s \o t, r)
<1> DEFINE u == s \o t
<1>1. \A e : In(u, e) <=> In(s, e) \/ In(t, e)
  BY Joined DEF In
<1>2. /\ Len(s) \in Nat /\ DOMAIN s = 1..Len(s) /\ Len(t) \in Nat /\ DOMAIN t = 1..Len(t)
      /\ DOMAIN u = 1..(Len(s) + Len(t))
  BY LenProperties, ConcatProperties
<1>3. \A i \in DOMAIN u : u[i] = IF i <= Len(s) THEN s[i] ELSE t[i - Len(s)]
  BY <1>2, ConcatProperties
<1>4. ASSUME NEW r, Ordered(s, r),
             ~In(t, Event("failed", r)) \/ ~In(t, Event("sent", r)),
             ~In(s, Event("failed", r)) \/ ~In(t, Event("sent", r))
      PROVE  Ordered(u, r)
  <2> SUFFICES ASSUME NEW i \in DOMAIN u, NEW j \in DOMAIN u, i < j,
                      u[i] = Event("failed", r), u[j] = Event("sent", r)
               PROVE  FALSE
    BY DEF Ordered
  <2>1. CASE j <= Len(s)
    <3>1. i \in DOMAIN s /\ j \in DOMAIN s /\ s[i] = u[i] /\ s[j] = u[j]
      BY <1>2, <1>3, <2>1
    <3> QED
      BY <1>4, <3>1 DEF Ordered
  <2>2. CASE ~(j <= Len(s))
    <3>1. j - Len(s) \in DOMAIN t /\ t[j - Len(s)] = Event("sent", r)
      BY <1>2, <1>3, <2>2
    <3>2. In(t, Event("sent", r))
      BY <3>1 DEF In, Never
    <3>3. CASE i <= Len(s)
      <4>1. i \in DOMAIN s /\ s[i] = Event("failed", r)
        BY <1>2, <1>3, <3>3
      <4> QED
        BY <1>4, <3>2, <4>1 DEF In, Never
    <3>4. CASE ~(i <= Len(s))
      <4>1. i - Len(s) \in DOMAIN t /\ t[i - Len(s)] = Event("failed", r)
        BY <1>2, <1>3, <3>4
      <4> QED
        BY <1>4, <3>2, <4>1 DEF In, Never
    <3> QED
      BY <3>3, <3>4
  <2> QED
    BY <2>1, <2>2
<1> QED
  BY <1>1, <1>4

LEMMA InTail ==
  ASSUME NEW T, NEW s \in Seq(T), s # <<>>
  PROVE  /\ In(s, Head(s)) /\ \A e : In(Tail(s), e) => In(s, e)
         /\ \A r : Ordered(s, r) => Ordered(Tail(s), r)
         /\ \A r : Ordered(s, r) /\ Head(s) = Event("failed", r) => ~In(Tail(s), Event("sent", r))
<1> DEFINE t == Tail(s)
<1>1. /\ Len(s) \in Nat /\ Len(s) > 0 /\ Head(s) = s[1] /\ DOMAIN s = 1..Len(s)
      /\ t \in Seq(T) /\ Len(t) = Len(s) - 1 /\ \A i \in 1..Len(t) : t[i] = s[i + 1]
  BY HeadTailProperties, LenProperties, EmptySeq
<1>2. DOMAIN t = 1..(Len(s) - 1)
  BY <1>1, LenProperties
<1>3. 1 \in DOMAIN s /\ \A i \in DOMAIN t : i + 1 \in DOMAIN s /\ 1 < i + 1 /\ t[i] = s[i + 1]
  BY <1>1, <1>2
<1> HIDE DEF t
<1>4. In(s, Head(s)) /\ \A e : In(t, e) => In(s, e)
  BY <1>1, <1>3 DEF In, Never
<1>5. \A r : Ordered(s, r) => Ordered(t, r)
  <2>1. \A i, j \in DOMAIN t : i < j => i + 1 < j + 1
    BY <1>2
  <2> QED
    BY <1>3, <2>1 DEF Ordered
<1>6. \A r : Ordered(s, r) /\ Head(s) = Event("failed", r) => ~In(t, Event("sent", r))
  BY <1>1, <1>3 DEF Ordered, In, Never
<1> QED
  BY <1>4, <1>5, <1>6 DEF t

\* What is told is among what there was to tell.
LEMMA TellingMembers ==
  ASSUME NEW public \in Seq(EventSet), NEW fetched \in Seq(EventSet),
         line \in Seq(EventSet), Tells(public, fetched)
  PROVE  \E t \in Seq(EventSet) :
           line' = line \o t /\ \A e : In(t, e) => In(public, e) \/ In(fetched, e)
<1> DEFINE heard == IF Pump \in clients THEN public ELSE <<>>
           t == heard \o fetched
<1>1. heard \in Seq(EventSet) /\ \A e : In(heard, e) => In(public, e)
  <2>1. \A e : ~In(<<>>, e)
    BY DEF In, Never
  <2> QED
    BY <2>1, Single
<1>2. line' = (line \o heard) \o fetched
  BY DEF Tells
<1> HIDE DEF heard
<1>3. line' = line \o t
  BY <1>1, <1>2, ConcatAssociative
<1>4. t \in Seq(EventSet)
  BY <1>1, Joined
<1>5. \A e : In(t, e) <=> In(heard, e) \/ In(fetched, e)
  BY <1>1, InJoined
<1> QED
  BY <1>1, <1>3, <1>4, <1>5

\* Requests that ended keep what they are; others get events that tell what they become.
LEMMA ToldKeeps ==
  ASSUME TypedTransport, WatcherInv, NEW t \in Seq(EventSet), line' = line \o t,
         UNCHANGED <<broadcast, watcher>>,
         \A q \in Requests :
           /\ req[q] \in {"finished", "failed"} =>
                req'[q] = req[q] /\ \A kind \in Kinds : ~In(t, Event(kind, q))
           /\ \A kind \in {"finished", "failed"} : In(t, Event(kind, q)) => req'[q] = kind
           /\ ~In(t, Event("failed", q)) \/ ~In(t, Event("sent", q))
  PROVE  WatcherInv'
<1>1. TypedLog' /\ TypedTable'
  BY DEF WatcherInv, TypedLog, TypedTable, broadcast, watcher
<1>2. line \in Seq(EventSet) /\ UNCHANGED <<log, pos, table, started, forgotten>>
  BY DEF TypedTransport, broadcast, watcher
<1>3. \A e : In(line', e) <=> In(line, e) \/ In(t, e)
  BY <1>2, InJoined
<1>4. ASSUME NEW q \in Requests  PROVE Told(q)' /\ Watched(q)'
  <2>1. Told(q) /\ Watched(q)
    BY DEF WatcherInv
  <2>2. /\ In(line, Event("failed", q)) \/ In(log, Event("failed", q)) => req[q] = "failed"
        /\ In(line, Event("finished", q)) \/ In(log, Event("finished", q)) => req[q] = "finished"
    BY <2>1 DEF Told
  <2>3. req[q] = "failed" => ~In(t, Event("sent", q))
    BY DEF Kinds
  <2>4. Ordered(line', q)
    BY <1>2, <2>1, <2>2, <2>3, InJoined DEF Told
  <2>5. Told(q)'
    BY <1>2, <1>3, <2>1, <2>2, <2>3, <2>4 DEF Told
  <2>6. req[q] = "failed" /\ ~Coming(Event("sent", q)) => ~Coming(Event("sent", q))'
    BY <1>2, <1>3, <2>3 DEF Coming
  <2>7. Watched(q)'
    BY <1>2, <2>1, <2>6 DEF Watched
  <2> QED
    BY <2>5, <2>7
<1> QED
  BY <1>1, <1>4 DEF WatcherInv

LEMMA InSingle ==
  /\ \A a, e : In(<<a>>, e) <=> e = a
  /\ \A a, b, e : In(<<a, b>>, e) <=> e = a \/ e = b
  /\ \A e : ~In(<<>>, e)
<1>1. ASSUME NEW a, NEW e  PROVE In(<<a>>, e) <=> e = a
  <2>1. DOMAIN <<a>> = {1} /\ <<a>>[1] = a
    OBVIOUS
  <2> QED
    BY <2>1 DEF In, Never
<1>2. ASSUME NEW a, NEW b, NEW e  PROVE In(<<a, b>>, e) <=> e = a \/ e = b
  <2>1. DOMAIN <<a, b>> = {1, 2} /\ <<a, b>>[1] = a /\ <<a, b>>[2] = b
    OBVIOUS
  <2> QED
    BY <2>1 DEF In, Never
<1>3. \A e : ~In(<<>>, e)
  BY DEF In, Never
<1> QED
  BY <1>1, <1>2, <1>3

\* An event appended to a sequence of events.
LEMMA InAppended ==
  ASSUME NEW s \in Seq(EventSet), NEW e \in EventSet
  PROVE  /\ Append(s, e) \in Seq(EventSet)
         /\ \A x : In(Append(s, e), x) <=> In(s, x) \/ x = e
         /\ \A r : Ordered(s, r) /\ (e = Event("sent", r) => ~In(s, Event("failed", r)))
                    => Ordered(Append(s, e), r)
<1>1. PICK t : t = <<e>>
  OBVIOUS
<1>2. t \in Seq(EventSet) /\ Append(s, e) = s \o t
  <2>1. <<e>> \in Seq(EventSet)
    OBVIOUS
  <2> QED
    BY <1>1, <2>1, AppendIsConcat
<1>3. \A x : In(t, x) <=> x = e
  BY <1>1, InSingle
<1>4. \A x : In(s \o t, x) <=> In(s, x) \/ In(t, x)
  BY <1>2, InJoined
<1>5. ASSUME NEW r, Ordered(s, r), e = Event("sent", r) => ~In(s, Event("failed", r))
      PROVE  Ordered(s \o t, r)
  <2>1. Event("failed", r) # Event("sent", r)
    BY DEF Event
  <2>2. /\ ~In(t, Event("failed", r)) \/ ~In(t, Event("sent", r))
        /\ ~In(s, Event("failed", r)) \/ ~In(t, Event("sent", r))
    BY <1>3, <1>5, <2>1
  <2> QED
    BY <1>2, <1>5, <2>2, InJoined
<1>6. Append(s, e) \in Seq(EventSet)
  OBVIOUS
<1> QED
  BY <1>2, <1>3, <1>4, <1>5, <1>6

\* Chrome tells events of kinds K of one request, which has not ended.
LEMMA TellsKeeps ==
  ASSUME RoutingInv, WatcherInv, NEW r \in Requests, req[r] \notin {"finished", "failed"},
         NEW public \in Seq(EventSet), NEW fetched \in Seq(EventSet), Tells(public, fetched),
         UNCHANGED <<broadcast, watcher>>, \A q \in Requests : q # r => req'[q] = req[q],
         NEW K \in SUBSET Kinds,
         \/ K \cap {"finished", "failed"} = {}
         \/ K \subseteq {"answered", req'[r]} /\ "sent" \notin K,
         \A e : In(public, e) \/ In(fetched, e) => \E kind \in K : e = Event(kind, r)
  PROVE  WatcherInv'
<1>1. TypedTransport /\ line \in Seq(EventSet)
  BY DEF RoutingInv, Typed, TypedTransport
<1>2. PICK t \in Seq(EventSet) :
        line' = line \o t /\ \A e : In(t, e) => In(public, e) \/ In(fetched, e)
  BY <1>1, TellingMembers
<1>3. \A k, q : In(t, Event(k, q)) => q = r /\ k \in K
  <2> SUFFICES ASSUME NEW k, NEW q, In(t, Event(k, q))  PROVE q = r /\ k \in K
    OBVIOUS
  <2>1. PICK kind \in K : Event(k, q) = Event(kind, r)
    BY <1>2
  <2> QED
    BY <2>1, EventTyped
<1>4. ASSUME NEW q \in Requests
      PROVE  /\ req[q] \in {"finished", "failed"} =>
                  req'[q] = req[q] /\ \A kind \in Kinds : ~In(t, Event(kind, q))
             /\ \A kind \in {"finished", "failed"} : In(t, Event(kind, q)) => req'[q] = kind
             /\ ~In(t, Event("failed", q)) \/ ~In(t, Event("sent", q))
  BY <1>3
<1> QED
  BY <1>1, <1>2, <1>4, ToldKeeps

LEMMA RequestTold ==
  ASSUME RoutingInv, WatcherInv, NEW r \in Requests,
         Request(r) \/ Challenge(r) \/ Redirect(r)
  PROVE  WatcherInv'
<1>1. TypedChrome
  BY DEF RoutingInv, Typed
<1>2. /\ Event("sent", r) \in EventSet /\ Event("paused", r) \in EventSet
      /\ Event("auth", r) \in EventSet
  BY DEF Event, EventSet, Kinds
<1>3. /\ req[r] \notin {"finished", "failed"} /\ UNCHANGED <<broadcast, watcher>>
      /\ \A q \in Requests : q # r => req'[q] = req[q]
  BY <1>1 DEF Request, Challenge, Redirect, Leaves, TypedChrome
<1>4. \E public \in {<<>>, <<Event("sent", r)>>},
         fetched \in {<<>>, <<Event("paused", r)>>, <<Event("auth", r)>>} : Tells(public, fetched)
  BY DEF Request, Challenge, Redirect
<1>5. PICK public \in {<<>>, <<Event("sent", r)>>},
           fetched \in {<<>>, <<Event("paused", r)>>, <<Event("auth", r)>>} : Tells(public, fetched)
  BY <1>4
<1>6. public \in Seq(EventSet) /\ fetched \in Seq(EventSet)
  BY <1>2, Single
<1> DEFINE K == {"sent", "paused", "auth"}
<1>7. \A e : In(public, e) \/ In(fetched, e) => \E kind \in K : e = Event(kind, r)
  <2>1. \A e : In(public, e) => e = Event("sent", r)
    BY <1>5, InSingle
  <2>2. \A e : In(fetched, e) => e = Event("paused", r) \/ e = Event("auth", r)
    BY <1>5, InSingle
  <2> QED
    BY <2>1, <2>2
<1>8. K \in SUBSET Kinds /\ K \cap {"finished", "failed"} = {}
  BY DEF Kinds
<1> HIDE DEF K
<1> QED
  BY <1>3, <1>5, <1>6, <1>7, <1>8, TellsKeeps

LEMMA EndsTold ==
  ASSUME RoutingInv, WatcherInv, NEW r \in Requests, NEW how \in {"finished", "failed"},
         Ends(r, how)
  PROVE  WatcherInv'
<1>1. TypedChrome
  BY DEF RoutingInv, Typed
<1>2. Event("answered", r) \in EventSet /\ Event(how, r) \in EventSet
  BY DEF Event, EventSet, Kinds
<1>3. /\ req[r] \notin {"finished", "failed"} /\ UNCHANGED <<broadcast, watcher>>
      /\ req'[r] = how /\ \A q \in Requests : q # r => req'[q] = req[q]
  BY <1>1 DEF Ends, TypedChrome
<1>4. PICK public \in {<<Event("answered", r), Event(how, r)>>, <<Event(how, r)>>} :
        Tells(public, <<>>)
  BY DEF Ends
<1>5. public \in Seq(EventSet) /\ <<>> \in Seq(EventSet)
  <2>1. /\ <<Event("answered", r), Event(how, r)>> \in Seq(EventSet)
        /\ <<Event(how, r)>> \in Seq(EventSet)
    BY <1>2
  <2>2. CASE public = <<Event("answered", r), Event(how, r)>>
    BY <2>1, <2>2
  <2>3. CASE public = <<Event(how, r)>>
    BY <2>1, <2>3
  <2> QED
    BY <1>4, <2>2, <2>3
<1> DEFINE K == {"answered", how}
<1>6. \A e : In(public, e) \/ In(<<>>, e) => \E kind \in K : e = Event(kind, r)
  <2>1. \A e : In(public, e) => e = Event("answered", r) \/ e = Event(how, r)
    <3>1. CASE public = <<Event("answered", r), Event(how, r)>>
      BY <3>1, InSingle
    <3>2. CASE public = <<Event(how, r)>>
      BY <3>2, InSingle
    <3> QED
      BY <1>4, <3>1, <3>2
  <2>2. \A e : ~In(<<>>, e)
    BY InSingle
  <2> QED
    BY <2>1, <2>2
<1>7. K \in SUBSET Kinds /\ K \subseteq {"answered", req'[r]} /\ "sent" \notin K
  BY <1>3 DEF Kinds
<1> HIDE DEF K
<1> QED
  BY <1>3, <1>4, <1>5, <1>6, <1>7, TellsKeeps

\* Nothing is told; a request that is continued has not ended.
LEMMA NothingTold ==
  ASSUME WatcherInv, UNCHANGED <<broadcast, watcher>>, UNCHANGED line \/ line' = <<>>,
         \A q \in Requests : req[q] \in {"finished", "failed"} => req'[q] = req[q]
  PROVE  WatcherInv'
<1>1. TypedLog' /\ TypedTable'
  BY DEF WatcherInv, TypedLog, TypedTable, broadcast, watcher
<1>2. UNCHANGED <<log, pos, table, started, forgotten>>
  BY DEF broadcast, watcher
<1>3. \A e : In(line', e) => In(line, e)
  <2>1. CASE UNCHANGED line
    BY <2>1
  <2>2. CASE line' = <<>>
    BY <2>2 DEF In, Never
  <2> QED
    BY <2>1, <2>2
<1>4. ASSUME NEW q \in Requests  PROVE Told(q)' /\ Watched(q)'
  <2>1. Told(q) /\ Watched(q)
    BY DEF WatcherInv
  <2>2. Ordered(line', q)
    BY <2>1 DEF Told, Ordered
  <2>3. Told(q)'
    BY <1>2, <1>3, <2>1, <2>2 DEF Told
  <2>4. ~Coming(Event("sent", q)) => ~Coming(Event("sent", q))'
    BY <1>2, <1>3 DEF Coming
  <2>5. Watched(q)'
    BY <1>2, <2>1, <2>4 DEF Watched
  <2> QED
    BY <2>3, <2>5
<1> QED
  BY <1>1, <1>4 DEF WatcherInv

\* An event leaves the line, and joins the log where somebody hears.
LEMMA ReadEventTold ==
  ASSUME RoutingInv, WatcherInv, ReadEvent
  PROVE  WatcherInv'
<1>1. line \in Seq(EventSet) /\ log \in Seq(EventSet)
  BY DEF RoutingInv, Typed, TypedTransport, WatcherInv, TypedLog
<1>2. PICK e : e = Head(line)
  OBVIOUS
<1>3. /\ line # <<>> /\ line' = Tail(line) /\ UNCHANGED <<req, subs, pos, watcher>>
      /\ log' = log \/ log' = Append(log, e)
  BY <1>2 DEF ReadEvent, Publish, chrome
<1>4. e \in EventSet /\ In(line, e) /\ \A x : In(line', x) => In(line, x)
  BY <1>1, <1>2, <1>3, InTail, HeadTailProperties
<1>5. /\ Append(log, e) \in Seq(EventSet)
      /\ \A x : In(Append(log, e), x) <=> In(log, x) \/ x = e
      /\ \A r : Ordered(log, r) /\ (e = Event("sent", r) => ~In(log, Event("failed", r)))
                 => Ordered(Append(log, e), r)
  BY <1>1, <1>4, InAppended
<1>6. /\ log' \in Seq(EventSet)
      /\ \A x : In(log, x) => In(log', x)
      /\ \A x : In(log', x) => In(log, x) \/ (x = e /\ log' # log)
  <2>1. CASE log' = log
    BY <1>1, <2>1
  <2>2. CASE log' # log
    BY <1>3, <1>4, <2>2, <1>5
  <2> QED
    BY <2>1, <2>2
<1>7. ASSUME NEW q \in Requests  PROVE Told(q)'
  <2>1. Told(q)
    BY DEF WatcherInv
  <2>2. Ordered(line', q) /\ (e = Event("failed", q) => ~In(line', Event("sent", q)))
    BY <1>1, <1>2, <1>3, <2>1, InTail DEF Told
  <2>3. Ordered(log', q)
    <3>1. CASE log' = log
      BY <2>1, <3>1 DEF Told
    <3>2. CASE log' # log
      <4>1. e = Event("sent", q) => ~In(log, Event("failed", q))
        BY <1>4, <2>1 DEF Told
      <4>2. Ordered(log, q)
        BY <2>1 DEF Told
      <4> QED
        BY <1>3, <3>2, <4>1, <4>2, <1>5
    <3> QED
      BY <3>1, <3>2
  <2>4. \A kind \in {"finished", "failed"} :
          In(line', Event(kind, q)) \/ In(log', Event(kind, q)) => req'[q] = kind
    BY <1>3, <1>4, <1>6, <2>1 DEF Told
  <2>5. In(log', Event("failed", q)) => ~In(line', Event("sent", q))
    BY <1>4, <1>6, <2>1, <2>2 DEF Told
  <2> QED
    BY <2>2, <2>3, <2>4, <2>5 DEF Told
<1>8. \A x : Coming(x)' => Coming(x)
  <2> SUFFICES ASSUME NEW x, Coming(x)'  PROVE Coming(x)
    OBVIOUS
  <2>1. CASE In(line', x)
    BY <1>4, <2>1 DEF Coming
  <2>2. CASE \E i \in DOMAIN log' : i > pos[Pump] /\ log'[i] = x
    <3>1. PICK i \in DOMAIN log' : i > pos[Pump] /\ log'[i] = x
      BY <1>3, <2>2
    <3>2. log' = log \/ (i \in DOMAIN log /\ log'[i] = log[i]) \/ log'[i] = e
      <4>1. CASE log' = Append(log, e)
        <5>1. /\ Len(log) \in Nat /\ DOMAIN log = 1..Len(log)
              /\ DOMAIN Append(log, e) = 1..(Len(log) + 1)
          BY <1>1, <1>4, LenProperties, AppendProperties
        <5>2. /\ \A j \in 1..Len(log) : Append(log, e)[j] = log[j]
              /\ Append(log, e)[Len(log) + 1] = e
          BY <1>1, <1>4, AppendProperties
        <5>3. CASE i \in 1..Len(log)
          BY <4>1, <5>1, <5>2, <5>3
        <5>4. CASE i = Len(log) + 1
          BY <4>1, <5>2, <5>4
        <5>5. i \in 1..(Len(log) + 1)
          BY <3>1, <4>1, <5>1
        <5> QED
          BY <5>1, <5>3, <5>4, <5>5
      <4> QED
        BY <1>3, <4>1
    <3> QED
      BY <1>4, <3>1, <3>2 DEF Coming
  <2> QED
    BY <1>3, <2>1, <2>2 DEF Coming
<1>9. ASSUME NEW q \in Requests  PROVE Watched(q)'
  BY <1>3, <1>8 DEF WatcherInv, Watched, watcher
<1>10. TypedLog' /\ TypedTable'
  BY <1>3, <1>6 DEF WatcherInv, TypedLog, TypedTable, watcher
<1> QED
  BY <1>7, <1>9, <1>10 DEF WatcherInv


\* Actions that touch neither the broadcast nor the watcher.
LEMMA OthersTold ==
  ASSUME RoutingInv, WatcherInv,
         \/ ChromeDoes \/ WriteReply \/ ReaderBreaks \/ ReaderEnds \/ Close
         \/ \E o \in Owners : OwnerNext(o)
  PROVE  WatcherInv'
<1>1. TypedChrome
  BY DEF RoutingInv, Typed
<1>2. CASE ChromeDoes
  <2>1. UNCHANGED <<broadcast, watcher, line>>
    BY <1>2 DEF ChromeDoes
  <2>2. \A q \in Requests : req[q] \in {"finished", "failed"} => req'[q] = req[q]
    <3>1. PICK w : w = Head(wire)
      OBVIOUS
    <3>2. \/ UNCHANGED req
          \/ req[w.request] = "paused" /\ req' = [req EXCEPT ![w.request] = "sent"]
          \/ req' = [q \in Requests |-> IF req[q] = "paused" THEN "sent" ELSE req[q]]
      <4>1. wire \in Seq(CommandSet) /\ wire # <<>>
        BY <1>2 DEF ChromeDoes, RoutingInv, Typed, TypedTransport
      <4>2. w \in CommandSet
        BY <3>1, <4>1, HeadTailProperties
      <4>3. w.cmd \in {"continueRequest", "continueWithAuth", "fetch"}
        BY <4>2 DEF CommandSet
      <4> QED
        BY <1>2, <3>1, <4>3 DEF ChromeDoes, Leaves
    <3>3. CASE UNCHANGED req
      BY <3>3
    <3>4. CASE req[w.request] = "paused" /\ req' = [req EXCEPT ![w.request] = "sent"]
      BY <1>1, <3>4 DEF TypedChrome
    <3>5. CASE req' = [q \in Requests |-> IF req[q] = "paused" THEN "sent" ELSE req[q]]
      BY <1>1, <3>5 DEF TypedChrome
    <3> QED
      BY <3>2, <3>3, <3>4, <3>5
  <2> QED
    BY <2>1, <2>2, NothingTold
<1>3. CASE WriteReply \/ ReaderBreaks \/ ReaderEnds \/ Close \/ \E o \in Owners : OwnerNext(o)
  <2>1. /\ UNCHANGED <<broadcast, watcher>> /\ (UNCHANGED line \/ line' = <<>>)
        /\ UNCHANGED req
    BY <1>3 DEF WriteReply, ReaderBreaks, ReaderEnds, Close, OwnerNext, Install, Take, Insert,
       EndAttempt, RemoveRoute, DropReceiver, SetRequestInterception, chrome
  <2> QED
    BY <2>1, NothingTold
<1> QED
  BY <1>2, <1>3

\* Nothing of what is told changes; who has seen the log may have moved on.
LEMMA ToldStays ==
  ASSUME WatcherInv, UNCHANGED <<chrome, line, log>>
  PROVE  \A q \in Requests : Told(q)'
<1> QED
  BY DEF WatcherInv, Told, chrome

\* A subscriber other than the pump moves on, or the pump begins at the end.
LEMMA SubscribersTold ==
  ASSUME WatcherInv, NEW k \in Subscribers,
         Subscribe(k) \/ ReceiverEnds(k) \/ (k # Pump /\ Receive(k))
  PROVE  WatcherInv'
<1>1. UNCHANGED <<chrome, line, log, watcher>>
  BY DEF Subscribe, ReceiverEnds, Receive
<1>2. Len(log) \in Nat /\ DOMAIN log = 1..Len(log) /\ Len(log) - LogCap + 1 \in Int
  BY LenProperties, RoutingAssumption DEF WatcherInv, TypedLog
<1>3. pos \in [Subscribers -> Nat] /\ subs \in [Subscribers -> {"idle", "live", "ended"}]
  BY DEF WatcherInv, TypedLog
<1>4. NextOf(k) \in Nat
  BY <1>2, <1>3, RoutingAssumption DEF NextOf
<1>5. /\ pos' \in [Subscribers -> Nat] /\ subs' \in [Subscribers -> {"idle", "live", "ended"}]
      /\ pos'[Pump] = pos[Pump] \/ pos'[Pump] = Len(log)
  BY <1>2, <1>3, <1>4 DEF Subscribe, ReceiverEnds, Receive, Subscribers
<1>6. \A e : Coming(e)' => Coming(e)
  BY <1>1, <1>2, <1>5 DEF Coming
<1>7. TypedLog' /\ TypedTable'
  BY <1>1, <1>5 DEF WatcherInv, TypedLog, TypedTable, watcher
<1>8. \A q \in Requests : Told(q)'
  BY <1>1, ToldStays
<1>9. \A q \in Requests : Watched(q)'
  BY <1>1, <1>6 DEF WatcherInv, Watched, watcher, chrome
<1> QED
  BY <1>7, <1>8, <1>9 DEF WatcherInv

LEMMA ClearTold ==
  ASSUME WatcherInv, Clear \/ WatcherRecv \/ UNCHANGED vars
  PROVE  WatcherInv'
<1>1. UNCHANGED <<chrome, line, log, pos, subs, started>>
  BY DEF Clear, WatcherRecv, vars, fixed, broadcast, watcher
<1>2. \/ DOMAIN table' = {} /\ forgotten' = forgotten \cup DOMAIN table
      \/ UNCHANGED <<table, forgotten>>
  BY DEF Clear, WatcherRecv, vars, watcher
<1>3. stream \in Seq([event: Kinds \cup {"started"}, request: Requests])
  BY DEF WatcherInv, TypedTable
<1>4. stream' = stream \/ (stream # <<>> /\ stream' = Tail(stream))
  BY DEF Clear, WatcherRecv, vars, watcher
<1>5. /\ stream' \in Seq([event: Kinds \cup {"started"}, request: Requests])
      /\ Len(stream') <= StreamCap
  <2>1. CASE stream' = stream
    BY <2>1 DEF WatcherInv, TypedTable
  <2>2. CASE stream # <<>> /\ stream' = Tail(stream)
    <3>1. /\ Tail(stream) \in Seq([event: Kinds \cup {"started"}, request: Requests])
          /\ Len(Tail(stream)) = Len(stream) - 1
      BY <1>3, <2>2, HeadTailProperties
    <3>2. Len(stream) \in Nat /\ Len(stream) <= StreamCap /\ StreamCap \in Nat
      BY <1>3, LenProperties, RoutingAssumption DEF WatcherInv, TypedTable
    <3> QED
      BY <2>2, <3>1, <3>2
  <2> QED
    BY <1>4, <2>1, <2>2
<1>6. /\ DOMAIN table' \subseteq Requests /\ IsFiniteSet(DOMAIN table')
      /\ Cardinality(DOMAIN table') <= TableCap
  <2>1. IsFiniteSet({}) /\ Cardinality({}) = 0 /\ TableCap \in Nat
    BY FS_EmptySet, RoutingAssumption
  <2>2. CASE DOMAIN table' = {}
    BY <2>1, <2>2
  <2>3. CASE UNCHANGED table
    BY <2>3 DEF WatcherInv, TypedTable
  <2> QED
    BY <1>2, <2>2, <2>3
<1>7. TypedLog' /\ TypedTable'
  BY <1>1, <1>5, <1>6 DEF WatcherInv, TypedLog, TypedTable
<1>8. \A q \in Requests : Told(q)'
  BY <1>1, ToldStays
<1>9. ASSUME NEW q \in Requests  PROVE Watched(q)'
  <2>1. Watched(q)
    BY DEF WatcherInv
  <2>2. \A e : Coming(e)' <=> Coming(e)
    BY <1>1 DEF Coming
  <2>3. /\ q \in DOMAIN table' => q \in DOMAIN table /\ UNCHANGED table
        /\ q \notin forgotten' => q \notin forgotten /\ (q \in DOMAIN table => q \in DOMAIN table')
    BY <1>2
  <2> QED
    BY <1>1, <2>1, <2>2, <2>3 DEF Watched, chrome
<1> QED
  BY <1>7, <1>8, <1>9 DEF WatcherInv

StreamSet == [event: Kinds \cup {"started"}, request: Requests]

LEMMA EmitTyped ==
  ASSUME TypedTable, NEW event \in StreamSet, Emit(event)
  PROVE  stream' \in Seq(StreamSet) /\ Len(stream') <= StreamCap
<1>1. stream \in Seq(StreamSet) /\ Len(stream) <= StreamCap /\ StreamCap \in Nat
  BY RoutingAssumption DEF TypedTable, StreamSet
<1>2. Len(stream) \in Nat
  BY <1>1, LenProperties
<1> HIDE DEF StreamSet
<1>3. Append(stream, event) \in Seq(StreamSet) /\ Len(Append(stream, event)) = Len(stream) + 1
  BY <1>1, AppendProperties
<1> QED
  BY <1>1, <1>2, <1>3 DEF Emit

\* The table keeps its bound whatever is evicted for a new entry.
LEMMA TableBound ==
  ASSUME TypedTable, NEW r \in Requests, r \notin DOMAIN table,
         NEW out \in IF Cardinality(DOMAIN table) < TableCap THEN {{}}
                     ELSE {{q} : q \in DOMAIN table}
  PROVE  /\ IsFiniteSet((DOMAIN table \ out) \cup {r})
         /\ Cardinality((DOMAIN table \ out) \cup {r}) <= TableCap
<1>1. IsFiniteSet(DOMAIN table) /\ Cardinality(DOMAIN table) <= TableCap /\ TableCap \in Nat \ {0}
  BY RoutingAssumption DEF TypedTable
<1>2. Cardinality(DOMAIN table) \in Nat
  BY <1>1, FS_CardinalityType
<1> DEFINE left == DOMAIN table \ out
<1>3. IsFiniteSet(left) /\ Cardinality(left) \in Nat /\ Cardinality(left) < TableCap
  <2>1. CASE Cardinality(DOMAIN table) < TableCap
    <3>1. left = DOMAIN table
      BY <2>1
    <3> QED
      BY <1>1, <1>2, <2>1, <3>1
  <2>2. CASE ~(Cardinality(DOMAIN table) < TableCap)
    <3>1. PICK q \in DOMAIN table : out = {q}
      BY <2>2
    <3>2. left = DOMAIN table \ {q}
      BY <3>1
    <3>3. IsFiniteSet(left) /\ Cardinality(left) = Cardinality(DOMAIN table) - 1
      BY <1>1, <3>2, FS_RemoveElement
    <3>4. Cardinality(left) \in Nat
      BY <3>3, FS_CardinalityType
    <3> QED
      BY <1>1, <1>2, <3>3, <3>4
  <2> QED
    BY <2>1, <2>2
<1>4. r \notin left
  OBVIOUS
<1> HIDE DEF left
<1>5. IsFiniteSet(left \cup {r}) /\ Cardinality(left \cup {r}) = Cardinality(left) + 1
  BY <1>3, <1>4, FS_AddElement
<1> QED
  BY <1>1, <1>3, <1>5 DEF left

\* The watcher sees an event; those it skipped or has behind it tell nothing more.
LEMMA PumpTold ==
  ASSUME WatcherInv, Receive(Pump)
  PROVE  WatcherInv'
<1>1. TypedLog /\ TypedTable /\ \A q \in Requests : Told(q) /\ Watched(q)
  BY DEF WatcherInv
<1>2. Len(log) \in Nat /\ DOMAIN log = 1..Len(log) /\ LogCap \in Nat \ {0}
  BY <1>1, LenProperties, RoutingAssumption DEF TypedLog
<1>3. /\ pos \in [Subscribers -> Nat] /\ Pump \in Subscribers /\ pos[Pump] < Len(log)
      /\ pos' = [pos EXCEPT ![Pump] = NextOf(Pump)] /\ UNCHANGED <<chrome, line, log, subs>>
      /\ ProcessEvent(log[NextOf(Pump)])
  BY <1>1 DEF Receive, TypedLog, Subscribers
<1>4. PICK n : n = NextOf(Pump)
  OBVIOUS
<1>5. n \in DOMAIN log /\ n > pos[Pump] /\ n \in Nat
  BY <1>2, <1>3, <1>4 DEF NextOf
<1>6. PICK e : e = log[n]
  OBVIOUS
<1>7. e \in EventSet /\ Coming(e) /\ In(log, e)
  BY <1>1, <1>5, <1>6, ElementOfSeq DEF TypedLog, Coming, In, Never
<1>8. \A x : Coming(x)' => Coming(x)
  BY <1>2, <1>3, <1>4, <1>5 DEF Coming
<1>9. TypedLog'
  BY <1>1, <1>3, <1>4, <1>5 DEF TypedLog
<1>10. \A q \in Requests : Told(q)'
  BY <1>3, ToldStays
<1>11. ProcessEvent(e)
  BY <1>3, <1>4, <1>6
<1>12. PICK r \in Requests : r = e.request /\ e = Event(e.event, r)
  BY <1>7 DEF EventSet, Event
<1>13. CASE UNCHANGED watcher
  <2>1. TypedTable'
    BY <1>1, <1>13 DEF TypedTable, watcher
  <2>2. \A q \in Requests : Watched(q)'
    BY <1>1, <1>3, <1>8, <1>13 DEF Watched, watcher, chrome
  <2> QED
    BY <1>9, <1>10, <2>1, <2>2 DEF WatcherInv
<1>14. CASE e.event = "sent" /\ ~Ignored(r)
  <2>1. RequestStarted(r) /\ r \notin DOMAIN table
    BY <1>11, <1>12, <1>14 DEF ProcessEvent, Ignored
  <2>2. PICK out \in IF Cardinality(DOMAIN table) < TableCap THEN {{}}
                     ELSE {{q} : q \in DOMAIN table} :
          /\ table' = [q \in (DOMAIN table \ out) \cup {r} |->
                         IF q = r THEN "open" ELSE table[q]]
          /\ forgotten' = forgotten \cup (out \ {r})
    BY <1>14, <2>1 DEF RequestStarted
  <2>3. Emit(Event("started", r)) /\ started' = [started EXCEPT ![r] = @ + 1]
    BY <1>14, <2>1 DEF RequestStarted
  <2>4. Event("started", r) \in StreamSet
    BY DEF Event, StreamSet
  <2>5. DOMAIN table' = (DOMAIN table \ out) \cup {r}
    BY <2>2
  <2>6. /\ IsFiniteSet(DOMAIN table') /\ Cardinality(DOMAIN table') <= TableCap
        /\ DOMAIN table' \subseteq Requests
    BY <1>1, <2>1, <2>5, TableBound DEF TypedTable
  <2>7. TypedTable'
    <3>1. stream' \in Seq(StreamSet) /\ Len(stream') <= StreamCap
      BY <1>1, <2>3, <2>4, EmitTyped
    <3>2. started' \in [Requests -> Nat]
      BY <1>1, <2>3 DEF TypedTable
    <3> QED
      BY <2>6, <3>1, <3>2 DEF TypedTable, StreamSet
  <2>8. ASSUME NEW q \in Requests  PROVE Watched(q)'
    <3>1. Watched(q)
      BY <1>1
    <3>2. started \in [Requests -> Nat]
      BY <1>1 DEF TypedTable
    <3>3. CASE q = r
      <4>1. r \notin forgotten => started[r] = 0
        BY <1>7, <1>12, <1>14, <2>1, <3>1, <3>2, <3>3 DEF Watched
      <4>2. started'[r] = started[r] + 1 /\ table'[r] = "open" /\ r \in DOMAIN table'
        BY <2>2, <2>3, <2>5, <3>2
      <4>3. r \notin forgotten' => r \notin forgotten
        BY <2>2
      <4> QED
        BY <3>2, <3>3, <4>1, <4>2, <4>3 DEF Watched
    <3>4. CASE q # r
      <4>1. started'[q] = started[q] /\ UNCHANGED req
        BY <1>3, <2>3, <3>2, <3>4 DEF chrome
      <4>2. /\ q \in DOMAIN table' => q \in DOMAIN table /\ table'[q] = table[q]
            /\ q \notin forgotten' =>
                 q \notin forgotten /\ (q \in DOMAIN table => q \in DOMAIN table')
        BY <2>2, <2>5, <3>4
      <4> QED
        BY <1>8, <3>1, <4>1, <4>2 DEF Watched
    <3> QED
      BY <3>3, <3>4
  <2> QED
    BY <1>9, <1>10, <2>7, <2>8 DEF WatcherInv
<1>15. CASE e.event \in {"answered", "finished"}
  <2>1. PICK value \in {"answered", "complete"} :
          Updated(r, value, e) /\ (value = "complete" => e.event = "finished")
    BY <1>11, <1>12, <1>15 DEF ProcessEvent
  <2>2. /\ DOMAIN table' = DOMAIN table /\ UNCHANGED <<started, forgotten, req>>
        /\ \A q \in DOMAIN table : table'[q] = IF q = r THEN value ELSE table[q]
    BY <1>3, <2>1 DEF Updated, chrome
  <2>3. e \in StreamSet /\ Emit(e)
    BY <1>7, <2>1 DEF EventSet, StreamSet, Updated
  <2>4. TypedTable'
    BY <1>1, <2>2, <2>3, EmitTyped DEF TypedTable, StreamSet
  <2>5. value = "complete" => req[r] = "finished"
    BY <1>1, <1>7, <1>12, <2>1 DEF Told
  <2>6. \A q \in Requests : Watched(q)'
    BY <1>1, <1>8, <2>2, <2>5 DEF Watched
  <2> QED
    BY <1>9, <1>10, <2>4, <2>6 DEF WatcherInv
<1>16. CASE e.event = "failed"
  <2>1. RequestFailed(r)
    BY <1>11, <1>12, <1>16 DEF ProcessEvent
  <2>2. /\ DOMAIN table' = DOMAIN table \ {r} /\ UNCHANGED <<started, forgotten, req>>
        /\ \A q \in DOMAIN table' : table'[q] = table[q]
    BY <1>3, <2>1 DEF RequestFailed, chrome
  <2>3. Event("failed", r) \in StreamSet /\ Emit(Event("failed", r))
    BY <2>1 DEF RequestFailed, Event, StreamSet, Kinds
  <2>4. IsFiniteSet(DOMAIN table') /\ Cardinality(DOMAIN table') <= TableCap
    <3>1. /\ IsFiniteSet(DOMAIN table) /\ Cardinality(DOMAIN table) <= TableCap
          /\ TableCap \in Nat
      BY <1>1, RoutingAssumption DEF TypedTable
    <3>2. IsFiniteSet(DOMAIN table') /\ Cardinality(DOMAIN table') <= Cardinality(DOMAIN table)
      BY <2>2, <3>1, FS_Subset
    <3>3. Cardinality(DOMAIN table) \in Nat /\ Cardinality(DOMAIN table') \in Nat
      BY <3>1, <3>2, FS_CardinalityType
    <3> QED
      BY <3>1, <3>2, <3>3
  <2>5. TypedTable'
    BY <1>1, <2>2, <2>3, <2>4, EmitTyped DEF TypedTable, StreamSet
  <2>6. req[r] = "failed" /\ e = Event("failed", r)
    BY <1>1, <1>7, <1>12, <1>16 DEF Told
  <2>7. ~Coming(Event("sent", r))'
    <3>1. ~In(line, Event("sent", r)) /\ Ordered(log, r)
      BY <1>1, <1>7, <2>6 DEF Told
    <3>2. \A i \in DOMAIN log : i > n => log[i] # Event("sent", r)
      BY <1>2, <1>5, <1>6, <2>6, <3>1 DEF Ordered
    <3>3. pos'[Pump] = n
      BY <1>3, <1>4
    <3> QED
      BY <1>3, <3>1, <3>2, <3>3 DEF Coming
  <2>8. \A q \in Requests : Watched(q)'
    BY <1>1, <1>8, <2>2, <2>6, <2>7 DEF Watched
  <2> QED
    BY <1>9, <1>10, <2>5, <2>8 DEF WatcherInv
<1>17. \/ UNCHANGED watcher \/ (e.event = "sent" /\ ~Ignored(r))
       \/ e.event \in {"answered", "finished"} \/ e.event = "failed"
  BY <1>7, <1>11, <1>12 DEF ProcessEvent, RequestStarted, EventSet, Kinds
<1> QED
  BY <1>13, <1>14, <1>15, <1>16, <1>17

LEMMA WatcherKeeps ==
  ASSUME RoutingInv, WatcherInv, [Next]_vars
  PROVE  WatcherInv'
<1>1. ASSUME ChromeNext  PROVE WatcherInv'
  BY <1>1, OthersTold, RequestTold, EndsTold DEF ChromeNext
<1>2. ASSUME ReaderNext \/ Close  PROVE WatcherInv'
  BY <1>2, OthersTold, ReadEventTold DEF ReaderNext
<1>3. ASSUME NEW o \in Owners, OwnerNext(o)  PROVE WatcherInv'
  BY <1>3, OthersTold
<1>4. ASSUME NEW k \in Subscribers, SubscriberNext(k)  PROVE WatcherInv'
  BY <1>4, SubscribersTold, PumpTold DEF SubscriberNext
<1>5. ASSUME WatcherRecv \/ Clear \/ UNCHANGED vars  PROVE WatcherInv'
  BY <1>5, ClearTold
<1> QED
  BY <1>1, <1>2, <1>3, <1>4, <1>5 DEF Next

LEMMA WatcherBegins == Init => WatcherInv
<1> SUFFICES ASSUME Init  PROVE WatcherInv
  OBVIOUS
<1>1. TypedLog
  BY DEF Init, TypedLog
<1>2. TypedTable
  <2>1. table = [r \in {} |-> None] /\ stream = <<>> /\ started = [r \in Requests |-> 0]
    BY DEF Init
  <2>2. DOMAIN table = {}
    BY <2>1
  <2>3. <<>> \in Seq(StreamSet) /\ Len(<<>>) = 0
    OBVIOUS
  <2> QED
    BY <2>1, <2>2, <2>3, FS_EmptySet, RoutingAssumption DEF TypedTable, StreamSet
<1>3. ASSUME NEW q \in Requests  PROVE Told(q) /\ Watched(q)
  <2>1. line = <<>> /\ log = <<>> /\ table = [r \in {} |-> None] /\ started = [r \in Requests |-> 0]
    BY DEF Init
  <2>2. Told(q)
    BY <2>1, InSingle DEF Told, Ordered
  <2>3. DOMAIN table = {}
    BY <2>1
  <2> QED
    BY <2>1, <2>2, <2>3 DEF Watched
<1> QED
  BY <1>1, <1>2, <1>3 DEF WatcherInv

\* What the watcher has is what it was told, and what it is still to be told fits.
LEMMA WatcherHolds == Spec => [](RoutingInv /\ WatcherInv)
<1>1. RoutingInv /\ WatcherInv /\ [Next]_vars => RoutingInv' /\ WatcherInv'
  BY RoutingKeeps, WatcherKeeps
<1>2. Init => RoutingInv /\ WatcherInv
  BY RoutingBegins, WatcherBegins
<1> QED
  BY <1>1, <1>2, PTL DEF Spec

-----------------------------------------------------------------------------
(* The theorems.                                                            *)

\* Whatever owners ask of Fetch, under a base policy every request is intercepted, and
\* none leaves Chrome with the header the transport strips: each command on its way was
\* made under that policy (request_interception_command, continuation_params).
THEOREM PolicyHolds == Spec => []PolicyKept
<1>1. RoutingInv => PolicyKept
  BY DEF RoutingInv, Policy, PolicyKept
<1> QED
  BY <1>1, RoutingHolds, PTL

\* The watcher tells the start of a request once, though it redirects, as long as it is
\* not evicted or cleared; and what it has as complete has finished, though events were
\* lost to a receiver that lags (NetworkWatcher::process_event).
THEOREM WatcherTrue == Spec => []WatcherHonest
<1>1. WatcherInv => WatcherHonest
  BY DEF WatcherInv, Watched, WatcherHonest
<1> QED
  BY <1>1, WatcherHolds, PTL

\* The counts of the transport: nothing, or one thing on its way.
LEMMA TransportCounts ==
  ASSUME Typed, NEW kind, NEW cmd, NEW r
  PROVE  /\ OffTransport(kind, cmd, r) => Events(r, kind) + Continues(r, cmd) = 0
         /\ OnTransport(kind, cmd, r) => Events(r, kind) + Continues(r, cmd) = 1
<1>1. line \in Seq(EventSet) /\ wire \in Seq(CommandSet)
  BY DEF Typed, TypedTransport
<1> DEFINE E == {Event(kind, r)}
           W == Resolving(cmd, r)
<1>2. Events(r, kind) = Cardinality({i \in DOMAIN line : line[i] \in E})
  <2>1. {i \in DOMAIN line : line[i] = Event(kind, r)} = {i \in DOMAIN line : line[i] \in E}
    OBVIOUS
  <2> QED
    BY <2>1 DEF Events, Count
<1>3. Cardinality({i \in DOMAIN wire : wire[i].cmd = cmd /\ wire[i].request = r})
        = Cardinality({i \in DOMAIN wire : wire[i] \in W})
  <2>1. \A i \in DOMAIN wire : wire[i] \in CommandSet
    BY <1>1, ElementOfSeq, LenProperties
  <2>2. {i \in DOMAIN wire : wire[i].cmd = cmd /\ wire[i].request = r}
          = {i \in DOMAIN wire : wire[i] \in W}
    BY <2>1 DEF Resolving
  <2> QED
    BY <2>2
<1>4. Continues(r, cmd) = Cardinality({i \in DOMAIN wire : wire[i] \in W})
                            + (IF Replying(cmd, r) THEN 1 ELSE 0)
  <2>1. rpc = "reply" /\ reply.cmd = cmd /\ reply.request = r <=> Replying(cmd, r)
    BY DEF Replying, Resolving, Typed, TypedTransport
  <2> QED
    BY <1>3, <2>1 DEF Continues, Count
<1>5. /\ Never(line, E) => Cardinality({i \in DOMAIN line : line[i] \in E}) = 0
      /\ Once(line, E) => Cardinality({i \in DOMAIN line : line[i] \in E}) = 1
  BY <1>1, CountsOf
<1>6. /\ Never(wire, W) => Cardinality({i \in DOMAIN wire : wire[i] \in W}) = 0
      /\ Once(wire, W) => Cardinality({i \in DOMAIN wire : wire[i] \in W}) = 1
  BY <1>1, CountsOf
<1> QED
  BY <1>2, <1>4, <1>5, <1>6 DEF OffTransport, OnTransport

\* The counts of the owners.
LEMMA OwnerCounts ==
  ASSUME Typed, NEW r \in Requests
  PROVE  /\ NoHand(r) /\ NoQueue(r) => Held(r) = 0
         /\ OneHand(r) /\ NoQueue(r) => Held(r) = 1
         /\ NoHand(r) /\ OneQueue(r) => Held(r) = 1
<1> DEFINE H == {o \in Owners : hands[o] = r /\ ~token[o]}
           Q == {x \in Owners \X (1..QueueCap) :
                   x[2] <= Len(queue[x[1]]) /\ queue[x[1]][x[2]] = r}
<1>1. Held(r) = Cardinality(H) + Cardinality(Q)
  BY DEF Held
<1>2. /\ QueueCap \in Nat
      /\ \A o \in Owners : /\ Len(queue[o]) \in Nat /\ Len(queue[o]) <= QueueCap
                           /\ DOMAIN queue[o] = 1..Len(queue[o])
  BY LenProperties, RoutingAssumption DEF Typed, TypedOwners
<1>3. NoHand(r) => Cardinality(H) = 0
  <2>1. NoHand(r) => H = {}
    BY DEF NoHand, Holding
  <2> QED
    BY <2>1, FS_EmptySet
<1>4. OneHand(r) => Cardinality(H) = 1
  <2> SUFFICES ASSUME OneHand(r)  PROVE Cardinality(H) = 1
    OBVIOUS
  <2>1. PICK o \in Owners : Holding(o, r) /\ \A p \in Owners : Holding(p, r) => p = o
    BY DEF OneHand
  <2>2. H = {o}
    BY <2>1 DEF Holding
  <2> QED
    BY <2>2, FS_Singleton
<1>5. \A o \in Owners, i \in 1..QueueCap :
        <<o, i>> \in Q <=> i \in DOMAIN queue[o] /\ queue[o][i] = r
  BY <1>2
<1>6. \A x \in Q : \E o \in Owners, i \in 1..QueueCap : x = <<o, i>>
  OBVIOUS
<1> HIDE DEF Q
<1>7. NoQueue(r) => Cardinality(Q) = 0
  <2>1. NoQueue(r) => Q = {}
    BY <1>5, <1>6 DEF NoQueue, Never
  <2> QED
    BY <2>1, FS_EmptySet
<1>8. OneQueue(r) => Cardinality(Q) = 1
  <2> SUFFICES ASSUME OneQueue(r)  PROVE Cardinality(Q) = 1
    OBVIOUS
  <2>1. PICK o \in Owners :
          Once(queue[o], {r}) /\ \A p \in Owners : p # o => Never(queue[p], {r})
    BY DEF OneQueue
  <2>2. PICK i \in DOMAIN queue[o] :
          queue[o][i] = r /\ \A j \in DOMAIN queue[o] : queue[o][j] = r => j = i
    BY <2>1 DEF Once
  <2>3. <<o, i>> \in Q
    BY <1>2, <1>5, <2>2
  <2>4. \A x \in Q : x = <<o, i>>
    BY <1>5, <1>6, <2>1, <2>2 DEF Never
  <2>5. Q = {<<o, i>>}
    BY <2>3, <2>4
  <2> QED
    BY <2>5, FS_Singleton
<1> QED
  BY <1>1, <1>3, <1>4, <1>7, <1>8

\* Until the transport closes, each paused request and each challenge has exactly one who
\* will resolve it, and an ended reader leaves no route, for any requests and owners and
\* any queue (FetchInterceptor::on_event, RequestPause, CommandDispatch, close_routes).
THEOREM PausesAccounted == Spec => []PauseAccounted
<1>1. RoutingInv /\ WatcherInv => PauseAccounted
  <2> SUFFICES ASSUME RoutingInv, WatcherInv  PROVE PauseAccounted
    OBVIOUS
  <2>1. Typed /\ Ending /\ \A r \in Requests : Pause(r) /\ Challenged(r)
    BY DEF RoutingInv
  <2>2. TypeOK /\ RoutesEnd
    BY <2>1 DEF TypeOK, Typed, TypedChrome, TypedTransport, TypedOwners, Ending, WatcherInv,
       TypedTable
  <2>3. ASSUME ~closed, NEW r \in Requests, req[r] = "paused"
        PROVE  Events(r, "paused") + Continues(r, "continueRequest") + Held(r) = 1
    <3>1. \/ OnTransport("paused", "continueRequest", r) /\ NoHand(r) /\ NoQueue(r)
          \/ OffTransport("paused", "continueRequest", r) /\ OneHand(r) /\ NoQueue(r)
          \/ OffTransport("paused", "continueRequest", r) /\ NoHand(r) /\ OneQueue(r)
      BY <2>1, <2>3 DEF Pause
    <3> QED
      BY <2>1, <3>1, TransportCounts, OwnerCounts
  <2>4. ASSUME ~closed, NEW r \in Requests, challenge[r] = "waiting"
        PROVE  Events(r, "auth") + Continues(r, "continueWithAuth") = 1
    BY <2>1, <2>4, TransportCounts DEF Challenged
  <2> QED
    BY <2>2, <2>3, <2>4 DEF PauseAccounted
<1> QED
  BY <1>1, WatcherHolds, PTL
=============================================================================
