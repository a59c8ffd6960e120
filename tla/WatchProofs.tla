------------------------------ MODULE WatchProofs ------------------------------
(***************************************************************************)
(* Theorems about what watches a browser through its events.  TabWatch,    *)
(* for any number of watches and tabs: the download behaviour has one      *)
(* owner, ancestors are true, a destination is the action's own, and its   *)
(* sessions are returned.  NetworkIdle, for any requests, waits and        *)
(* bounds: the route of the idle monitor's session has an owner, no wait   *)
(* sleeps on stale grounds, and one that succeeds is right about Chrome.   *)
(***************************************************************************)
EXTENDS TabWatch, IdlePart, SequenceTheorems, FiniteSetTheorems, TLAPS

-----------------------------------------------------------------------------
(* The watches of downloads and of an action's destination.                 *)

Told == [event : {"created", "destroyed"}, tab : Tabs, by : Tabs \cup {None}]
Commanded == [who : Downloads, cmd : {"allow", "default"}, try : Nat]

\* What was broadcast is true: of a tab's opener, which never changes, and of tabs that are
\* gone, which never come back.
LogInv ==
  /\ alive \subseteq born /\ born \subseteq Tabs /\ opener \in [Tabs -> Tabs \cup {None}]
  /\ discovering \in BOOLEAN /\ discovered \in BOOLEAN
  /\ log \in Seq(Told)
  /\ \A i \in 1..Len(log) :
       /\ log[i].tab \in born
       /\ log[i].event = "destroyed" => log[i].tab \notin alive /\ log[i].by = None
       /\ log[i].by # None => opener[log[i].tab] = log[i].by

ReadInv ==
  /\ pos \in [Futures -> Nat]
  /\ \A f \in Futures : pos[f] <= Len(log)

Places == {"idle", "discover", "setting", "live", "stopping", "restoring", "baseline", "drain",
           "origin", "check", "detach", "done"}
Owning == {"discover", "setting", "live", "stopping", "restoring"}
Wanted(f) == IF pc[f] \in {"setting", "live"} THEN "allow" ELSE "default"

\* The commands on their way are the slot's holder's, in order, the current one last; one that
\* was answered leaves none.
SlotInv ==
  /\ pc \in [Futures -> Places]
  /\ \A f \in Downloads : pc[f] \in Owning \cup {"idle", "done"}
  /\ slot \in Downloads \cup {"free", "closed"} /\ behaviour \in Downloads \cup {"default"}
  /\ try \in [Futures -> Nat] /\ answer \in [Futures -> {"none", "ok", "refused"}]
  /\ wire \in Seq(Commanded)
  /\ \A f \in Downloads : pc[f] \in Owning <=> slot = f
  /\ slot = "free" => behaviour = "default" /\ wire = <<>>
  /\ \A f \in Downloads : slot = f =>
       /\ \A i \in 1..Len(wire) :
            /\ wire[i].who = f /\ wire[i].try <= try[f]
            /\ wire[i].try = try[f] => i = Len(wire) /\ wire[i].cmd = Wanted(f)
       /\ answer[f] = "ok" /\ pc[f] # "discover" =>
            wire = <<>> /\ behaviour = IF Wanted(f) = "allow" THEN f ELSE "default"
       /\ pc[f] = "live" => answer[f] = "ok"

\* What a watch keeps of openers is true, and has every tab it was told of, unless it said not.
OpenersInv ==
  /\ openers \in [Downloads -> UNION {[S -> Tabs] : S \in SUBSET Tabs}]
  /\ told \in [Downloads -> BOOLEAN] /\ since \in [Downloads -> Nat]
  /\ \A f \in Downloads :
       /\ DOMAIN openers[f] \subseteq born /\ Cardinality(DOMAIN openers[f]) <= MaxOpeners
       /\ \A t \in DOMAIN openers[f] : openers[f][t] = opener[t]
       /\ told[f] \/ \A i \in since[f] + 1..pos[f] :
                       log[i].by # None => log[i].tab \in DOMAIN openers[f]

\* A tab the action opened since its baseline, or the tab it may stay in.
Opened(t) == t \in born /\ opener[t] = Origin /\ t \notin older
Fits(t) == Opened(t) \/ (t = Origin /\ scope # "NewTab")

DestinationInv ==
  /\ pc[Action] \in {"idle", "discover", "baseline", "drain", "origin", "check", "detach", "done"}
  /\ existing \subseteq Tabs /\ existing = older
  /\ candidates \subseteq Tabs /\ Cardinality(candidates) <= MaxCandidates
  /\ known \cup todo \subseteq candidates
  /\ matches \cup gone \subseteq Tabs
  /\ \A t \in candidates : Opened(t)
  /\ \A t \in matches : Fits(t)
  /\ result \in Tabs => Fits(result)
  /\ pc[Action] = "origin" => scope # "NewTab"
  /\ pc[Action] \in {"idle", "discover", "baseline"} =>
       candidates = {} /\ matches = {} /\ result = None

HeldInv ==
  /\ lost \subseteq Tabs
  /\ held \subseteq alive /\ held \subseteq known \cup lost
  /\ pc[Action] = "done" => known = {}

TabInv == LogInv /\ ReadInv /\ SlotInv /\ OpenersInv /\ DestinationInv /\ HeldInv

\* The log only grows, and no tab's opener changes.
Grown ==
  /\ Len(log) <= Len(log') /\ \A i \in 1..Len(log) : log'[i] = log[i]
  /\ born \subseteq born' /\ \A t \in born : opener'[t] = opener[t]

-----------------------------------------------------------------------------
(* What Chrome broadcasts.                                                  *)

\* What is broadcast is appended.
LEMMA LogExtended ==
  ASSUME LogInv, NEW es \in Seq(Told), log' = log \o es
  PROVE  /\ log' \in Seq(Told) /\ Len(log') \in Nat /\ Len(log) <= Len(log')
         /\ \A i \in 1..Len(log) : log'[i] = log[i]
         /\ \A i \in 1..Len(log') : i \notin 1..Len(log) => \E j \in 1..Len(es) : log'[i] = es[j]
<1>1. /\ log' \in Seq(Told) /\ Len(log') = Len(log) + Len(es)
      /\ Len(log) \in Nat /\ Len(es) \in Nat
      /\ \A i \in 1..Len(log') : log'[i] = IF i <= Len(log) THEN log[i] ELSE es[i - Len(log)]
  BY DEF LogInv
<1> HIDE DEF LogInv
<1>2. ASSUME NEW i \in 1..Len(log'), i \notin 1..Len(log)
      PROVE  \E j \in 1..Len(es) : log'[i] = es[j]
  <2>1. i - Len(log) \in 1..Len(es) /\ log'[i] = es[i - Len(log)]
    BY <1>1, <1>2
  <2> QED BY <2>1
<1> QED BY <1>1, <1>2

\* A step that broadcasts what is true of the tabs there are after it.
LEMMA ToldTruly ==
  ASSUME TabConstants, LogInv, NEW es \in Seq(Told), log' \in {log, log \o es},
         alive' \subseteq born', born' \subseteq Tabs, born \subseteq born',
         opener' \in [Tabs -> Tabs \cup {None}], \A t \in born : opener'[t] = opener[t],
         \A t \in born : t \in alive' => t \in alive,
         discovering' \in BOOLEAN, discovered' \in BOOLEAN,
         \A j \in 1..Len(es) :
           /\ es[j].tab \in born'
           /\ es[j].event = "destroyed" => es[j].tab \notin alive' /\ es[j].by = None
           /\ es[j].by # None => opener'[es[j].tab] = es[j].by
  PROVE  LogInv' /\ Grown
<1> DEFINE True(e) == /\ e.tab \in born'
                      /\ e.event = "destroyed" => e.tab \notin alive' /\ e.by = None
                      /\ e.by # None => opener'[e.tab] = e.by
<1>1. \A i \in 1..Len(log) : True(log[i])
  BY DEF LogInv
<1>2. CASE log' = log
  BY <1>1, <1>2 DEF LogInv, Grown
<1>3. CASE log' = log \o es
  <2>1. /\ log' \in Seq(Told) /\ Len(log') \in Nat /\ Len(log) <= Len(log')
        /\ \A i \in 1..Len(log) : log'[i] = log[i]
        /\ \A i \in 1..Len(log') : i \notin 1..Len(log) => \E j \in 1..Len(es) : log'[i] = es[j]
    BY <1>3, LogExtended
  <2>2. \A j \in 1..Len(es) : True(es[j])
    OBVIOUS
  <2> HIDE DEF True
  <2>3. \A i \in 1..Len(log') : True(log'[i])
    BY <1>1, <2>1, <2>2
  <2> QED BY <2>1, <2>3 DEF True, LogInv, Grown
<1> QED BY <1>2, <1>3

\* What is announced of a tab that is there is true.
LEMMA CreatedTruly ==
  ASSUME TabConstants, LogInv, NEW t \in alive
  PROVE  /\ Created(t) \in Told /\ Created(t).tab = t /\ Created(t).event = "created"
         /\ Created(t).by # None => opener[t] = Created(t).by
BY DEF LogInv, Created, Told

\* Discovery announces the tabs there are, once, or is refused.
LEMMA DiscoveryTells ==
  ASSUME TabConstants, LogInv, NEW ok \in BOOLEAN, Discovery(ok)
  PROVE  LogInv' /\ Grown
<1> USE DEF TabConstants
<1>1. CASE UNCHANGED log
  <2>1. discovering' \in BOOLEAN /\ discovered' \in BOOLEAN
    BY DEF LogInv, Discovery
  <2> QED BY <1>1, <2>1 DEF Discovery, LogInv, Grown
<1>2. CASE ~UNCHANGED log
  <2>1. PICK s \in SetToSeqs(alive) : log' = log \o [i \in DOMAIN s |-> Created(s[i])]
    BY <1>2 DEF Discovery
  <2> DEFINE es == [i \in DOMAIN s |-> Created(s[i])]
  <2>2. Cardinality(alive) \in Nat
    BY FS_Subset, FS_CardinalityType DEF LogInv
  <2>3. s \in [1..Cardinality(alive) -> alive]
    BY DEF SetToSeqs
  <2>4. es \in [1..Cardinality(alive) -> Told]
    BY <2>3, CreatedTruly
  <2>5. es \in Seq(Told) /\ Len(es) = Cardinality(alive)
    BY <2>2, <2>4
  <2>6. \A j \in 1..Len(es) : es[j] = Created(s[j]) /\ s[j] \in alive
    BY <2>3, <2>5
  <2>7. discovering' \in BOOLEAN /\ discovered' \in BOOLEAN /\ UNCHANGED <<alive, born, opener>>
    BY DEF LogInv, Discovery
  <2>8. \A j \in 1..Len(es) : /\ es[j].tab \in born /\ es[j].event # "destroyed"
                              /\ es[j].by # None => opener[es[j].tab] = es[j].by
    <3>1. \A t \in alive : /\ Created(t).tab = t /\ Created(t).event = "created"
                           /\ Created(t).by # None => opener[t] = Created(t).by
      BY CreatedTruly
    <3>2. \A t \in alive : t \in born
      BY DEF LogInv
    <3> QED BY <2>6, <3>1, <3>2
  <2> HIDE DEF es
  <2> QED BY <2>1, <2>5, <2>7, <2>8, ToldTruly DEF es, LogInv
<1> QED BY <1>1, <1>2

\* A step that broadcasts nothing changes no tab.
LEMMA TabsKept ==
  ASSUME LogInv, UNCHANGED <<tabs, discovered>>
  PROVE  LogInv' /\ Grown
BY DEF LogInv, Grown, tabs

-----------------------------------------------------------------------------
(* What a step that leaves a part alone keeps of it.                        *)

\* A step at which nobody reads.
LEMMA ReadKept ==
  ASSUME LogInv, LogInv', Grown, ReadInv, UNCHANGED pos
  PROVE  ReadInv'
BY DEF Grown, ReadInv

\* A subscriber reads up to some event.
LEMMA SubscriberReads ==
  ASSUME LogInv, ReadInv, UNCHANGED log, NEW f \in Futures, NEW n \in 0..Len(log),
         pos' = [pos EXCEPT ![f] = n]
  PROVE  ReadInv'
BY DEF ReadInv

\* A step that leaves the slot and its commands.
LEMMA SlotKept ==
  ASSUME SlotInv, pc' \in [Futures -> Places], \A f \in Downloads : pc'[f] = pc[f],
         UNCHANGED commands
  PROVE  SlotInv'
BY DEF SlotInv, commands, Wanted

\* A step at which no watch learns of an opener.
LEMMA OpenersKept ==
  ASSUME TabConstants, LogInv, LogInv', Grown, ReadInv, OpenersInv, UNCHANGED ancestry,
         \A f \in Downloads : pos'[f] = pos[f]
  PROVE  OpenersInv'
<1> USE DEF TabConstants
<1>1. ASSUME NEW f \in Downloads, NEW i \in since[f] + 1..pos[f]
      PROVE  log'[i] = log[i]
  BY DEF ReadInv, OpenersInv, Grown, Futures
<1>2. ASSUME NEW f \in Downloads, NEW t \in DOMAIN openers[f]
      PROVE  openers[f][t] = opener'[t]
  BY DEF OpenersInv, Grown
<1>3. ASSUME NEW f \in Downloads
      PROVE  told[f] \/ \A i \in since[f] + 1..pos'[f] :
                          log'[i].by # None => log'[i].tab \in DOMAIN openers[f]
  <2>1. pos'[f] = pos[f]
    OBVIOUS
  <2> QED BY <1>1, <2>1 DEF OpenersInv
<1>4. \A f \in Downloads : DOMAIN openers[f] \subseteq born'
  BY DEF OpenersInv, Grown
<1> QED BY <1>2, <1>3, <1>4 DEF OpenersInv, ancestry

\* A step of anybody but the action's watch.
LEMMA DestinationKept ==
  ASSUME DestinationInv, Grown, UNCHANGED <<watch, round, result>>, pc'[Action] = pc[Action]
  PROVE  DestinationInv'
BY DEF DestinationInv, Grown, watch, round, Opened, Fits

\* A step at which no session comes or goes.
LEMMA HeldKept ==
  ASSUME HeldInv, UNCHANGED <<tabs, sessions, known>>, pc'[Action] = pc[Action]
  PROVE  HeldInv'
BY DEF HeldInv, tabs, sessions

-----------------------------------------------------------------------------
(* Chrome's tabs.                                                           *)

\* A tab is opened, and announced if Chrome announces tabs.
LEMMA OpenStep ==
  ASSUME TabConstants, TabInv, NEW t \in Tabs, NEW o \in Tabs \cup {None}, Open(t, o)
  PROVE  TabInv'
<1> USE DEF TabConstants
<1> DEFINE es == <<[event |-> "created", tab |-> t, by |-> o]>>
<1>1. es \in Seq(Told) /\ Len(es) = 1 /\ es[1] = [event |-> "created", tab |-> t, by |-> o]
  BY DEF Told
<1>2. log' \in {log, log \o es}
  BY DEF Open, Broadcast
<1> HIDE DEF es
<1>3. LogInv' /\ Grown
  <2>1. /\ alive' \subseteq born' /\ born' \subseteq Tabs /\ born \subseteq born'
        /\ opener' \in [Tabs -> Tabs \cup {None}]
        /\ discovering' \in BOOLEAN /\ discovered' \in BOOLEAN
        /\ \A u \in born : opener'[u] = opener[u] /\ (u \in alive' => u \in alive)
    BY DEF TabInv, LogInv, Open
  <2>2. \A j \in 1..Len(es) :
          /\ es[j].tab \in born'
          /\ es[j].event = "destroyed" => es[j].tab \notin alive' /\ es[j].by = None
          /\ es[j].by # None => opener'[es[j].tab] = es[j].by
    BY <1>1, <1>2 DEF TabInv, LogInv, Open
  <2> QED BY <1>1, <1>2, <2>1, <2>2, ToldTruly DEF TabInv
<1>4. held' \subseteq alive'
  BY DEF TabInv, HeldInv, Open, sessions
<1> QED
  BY <1>3, <1>4, ReadKept, SlotKept, OpenersKept, DestinationKept
  DEF TabInv, HeldInv, SlotInv, Open, downloads, sessions, watch

\* A tab that changed is announced again, with its opener.
LEMMA InfoStep ==
  ASSUME TabConstants, TabInv, NEW t \in Tabs, Info(t)
  PROVE  TabInv'
<1> USE DEF TabConstants
<1> DEFINE es == <<Created(t)>>
<1>1. Created(t) \in Told /\ Created(t).tab = t /\ Created(t).event = "created"
      /\ (Created(t).by # None => opener[t] = Created(t).by)
  BY CreatedTruly DEF TabInv, Info
<1>2. es \in Seq(Told) /\ Len(es) = 1 /\ es[1] = Created(t)
  BY <1>1
<1>3. log' \in {log, log \o es}
  BY DEF Info, Broadcast
<1> HIDE DEF es
<1>4. LogInv' /\ Grown
  <2>1. /\ alive' \subseteq born' /\ born' \subseteq Tabs /\ born \subseteq born'
        /\ opener' \in [Tabs -> Tabs \cup {None}]
        /\ discovering' \in BOOLEAN /\ discovered' \in BOOLEAN
        /\ \A u \in born : opener'[u] = opener[u] /\ (u \in alive' => u \in alive)
    BY DEF TabInv, LogInv, Info
  <2>2. \A j \in 1..Len(es) :
          /\ es[j].tab \in born'
          /\ es[j].event = "destroyed" => es[j].tab \notin alive' /\ es[j].by = None
          /\ es[j].by # None => opener'[es[j].tab] = es[j].by
    BY <1>1, <1>2 DEF TabInv, LogInv, Info
  <2> QED BY <1>1, <1>2, <1>3, <2>1, <2>2, ToldTruly DEF TabInv
<1> QED
  BY <1>4, ReadKept, SlotKept, OpenersKept, DestinationKept
  DEF TabInv, HeldInv, SlotInv, Info, downloads, sessions, watch

\* A tab that goes takes its sessions along.
LEMMA DestroyStep ==
  ASSUME TabConstants, TabInv, NEW t \in Tabs, Destroy(t)
  PROVE  TabInv'
<1> USE DEF TabConstants
<1> DEFINE es == <<[event |-> "destroyed", tab |-> t, by |-> None]>>
<1>1. es \in Seq(Told) /\ Len(es) = 1 /\ es[1] = [event |-> "destroyed", tab |-> t, by |-> None]
  BY DEF Told
<1>2. log' \in {log, log \o es}
  BY DEF Destroy, Broadcast
<1> HIDE DEF es
<1>3. LogInv' /\ Grown
  <2>1. /\ alive' \subseteq born' /\ born' \subseteq Tabs /\ born \subseteq born'
        /\ opener' \in [Tabs -> Tabs \cup {None}]
        /\ discovering' \in BOOLEAN /\ discovered' \in BOOLEAN
        /\ \A u \in born : opener'[u] = opener[u] /\ (u \in alive' => u \in alive)
    BY DEF TabInv, LogInv, Destroy
  <2>2. \A j \in 1..Len(es) :
          /\ es[j].tab \in born'
          /\ es[j].event = "destroyed" => es[j].tab \notin alive' /\ es[j].by = None
          /\ es[j].by # None => opener'[es[j].tab] = es[j].by
    BY <1>1, <1>2 DEF TabInv, LogInv, Destroy
  <2> QED BY <1>1, <1>2, <2>1, <2>2, ToldTruly DEF TabInv
<1>4. HeldInv'
  BY DEF TabInv, HeldInv, Destroy, watch
<1> QED
  BY <1>3, <1>4, ReadKept, SlotKept, OpenersKept, DestinationKept
  DEF TabInv, SlotInv, Destroy, downloads

-----------------------------------------------------------------------------
(* The download watches.                                                    *)

\* A step of a download watch on the slot leaves the rest alone.
LEMMA SlotStep ==
  ASSUME TabConstants, TabInv, SlotInv', pc'[Action] = pc[Action],
         UNCHANGED <<tabs, discovered, pos, ancestry, watch, round, sessions, result>>
  PROVE  TabInv'
BY TabsKept, ReadKept, OpenersKept, DestinationKept, HeldKept DEF TabInv, watch

\* A watch takes the slot when it is free.
LEMMA AcquireStep ==
  ASSUME TabConstants, TabInv, NEW f \in Downloads, Acquire(f)
  PROVE  TabInv'
<1> USE DEF TabConstants
<1>1. LogInv' /\ Grown
  BY TabsKept DEF TabInv, Acquire
<1>2. /\ pc' \in [Futures -> Places] /\ pc'[Action] = pc[Action]
      /\ \A g \in Downloads \ {f} : pc'[g] = pc[g]
  BY DEF TabInv, SlotInv, Acquire, Goto, Futures, Places
<1>h. /\ \A g \in Downloads : pc[g] \in Owning <=> slot = g
      /\ \A g \in Downloads : pc[g] \in Owning \cup {"idle", "done"}
  BY DEF TabInv, SlotInv
<1>o. "discover" \in Owning /\ "done" \notin Owning /\ "idle" \notin Owning
  BY DEF Owning
<1>3. CASE slot = "free"
  <2>1. pos' = [pos EXCEPT ![f] = Len(log)] /\ pc'[f] = "discover" /\ slot' = f
        /\ since' = [since EXCEPT ![f] = Len(log)]
    BY <1>3 DEF Acquire, Subscribes, Goto, TabInv, SlotInv, Futures
  <2>2. ReadInv'
    <3>1. f \in Futures /\ Len(log) \in 0..Len(log) /\ UNCHANGED log
      BY DEF Acquire, tabs, Futures
    <3> QED BY <2>1, <3>1, SubscriberReads DEF TabInv
  <2>3. SlotInv'
    <3>1. /\ \A g \in Downloads : pc'[g] \in Owning <=> slot' = g
          /\ \A g \in Downloads : pc'[g] \in Owning \cup {"idle", "done"}
      <4>1. \A g \in Downloads \ {f} : pc'[g] \notin Owning /\ slot' # g
        BY <1>2, <1>3, <1>h, <2>1 DEF TabConstants
      <4> QED
        BY <1>2, <1>h, <1>o, <2>1, <4>1
    <3>2. UNCHANGED <<try, wire, answer, behaviour>> /\ wire = <<>>
      BY <1>3 DEF TabInv, SlotInv, Acquire
    <3> QED BY <1>2, <2>1, <3>1, <3>2 DEF TabInv, SlotInv
  <2>4. OpenersInv'
    BY <1>1, <2>1 DEF TabInv, ReadInv, OpenersInv, Acquire, tabs, Futures
  <2> QED
    BY <1>1, <1>2, <2>2, <2>3, <2>4, DestinationKept, HeldKept DEF TabInv, Acquire, watch
<1>4. CASE slot # "free"
  <2>1. pc'[f] = "done" /\ pc[f] = "idle" /\ UNCHANGED <<commands, pos, since>>
    BY <1>4 DEF Acquire, Goto, TabInv, SlotInv, Futures, commands
  <2>2. SlotInv'
    <3>1. /\ \A g \in Downloads : pc'[g] \in Owning <=> slot' = g
          /\ \A g \in Downloads : pc'[g] \in Owning \cup {"idle", "done"}
          /\ \A g \in Downloads : slot = g => pc'[g] = pc[g]
      BY <1>2, <1>h, <1>o, <2>1 DEF commands
    <3> QED BY <1>2, <2>1, <3>1 DEF TabInv, SlotInv, Wanted, commands
  <2> QED
    BY <1>2, <2>1, <2>2, SlotStep DEF Acquire, ancestry
<1> QED BY <1>3, <1>4

\* A command of the slot's holder is the last on its way, and the current one.
LEMMA SendOrders ==
  ASSUME TabConstants, SlotInv, NEW f \in Downloads, NEW cmd \in {"allow", "default"}, slot = f,
         Send(f, cmd)
  PROVE  /\ wire' \in Seq(Commanded) /\ try' \in [Futures -> Nat] /\ try'[f] = try[f] + 1
         /\ answer' \in [Futures -> {"none", "ok", "refused"}] /\ answer'[f] = "none"
         /\ \A i \in 1..Len(wire') :
              /\ wire'[i].who = f /\ wire'[i].try <= try'[f]
              /\ wire'[i].try = try'[f] => i = Len(wire') /\ wire'[i].cmd = cmd
<1> DEFINE c == [who |-> f, cmd |-> cmd, try |-> try[f] + 1]
<1>1. c \in Commanded /\ f \in Futures /\ try[f] \in Nat
  BY DEF SlotInv, Commanded, Futures
<1>2. \A i \in 1..Len(wire) : wire[i] \in Commanded /\ wire[i].who = f /\ wire[i].try <= try[f]
  BY DEF SlotInv
<1>3. CASE wire' = wire
  BY <1>1, <1>2, <1>3 DEF SlotInv, Send, Commanded
<1>4. CASE wire' = Append(wire, c)
  <2> HIDE DEF c
  <2>1. wire' \in Seq(Commanded) /\ Len(wire') = Len(wire) + 1 /\ Len(wire) \in Nat
        /\ (\A i \in 1..Len(wire) : wire'[i] = wire[i]) /\ wire'[Len(wire')] = c
    BY <1>1, <1>4 DEF SlotInv
  <2>2. \A i \in 1..Len(wire') : i \in 1..Len(wire) \/ i = Len(wire')
    BY <2>1
  <2> QED BY <1>1, <1>2, <2>1, <2>2, SMTT(30) DEF SlotInv, Send, c, Commanded
<1> QED BY <1>3, <1>4 DEF Send

\* A holder that sends a command wants what the command sets.
LEMMA SendsHolding ==
  ASSUME TabConstants, SlotInv, NEW f \in Downloads, slot = f,
         NEW l \in Owning \ {"live", "discover"},
         Goto(f, l), Send(f, IF l = "setting" THEN "allow" ELSE "default"),
         UNCHANGED <<slot, behaviour>>
  PROVE  SlotInv'
<1> USE DEF TabConstants
<1> DEFINE cmd == IF l = "setting" THEN "allow" ELSE "default"
<1>1. /\ wire' \in Seq(Commanded) /\ try' \in [Futures -> Nat] /\ try'[f] = try[f] + 1
      /\ answer' \in [Futures -> {"none", "ok", "refused"}] /\ answer'[f] = "none"
      /\ \A i \in 1..Len(wire') :
           /\ wire'[i].who = f /\ wire'[i].try <= try'[f]
           /\ wire'[i].try = try'[f] => i = Len(wire') /\ wire'[i].cmd = cmd
  BY SendOrders
<1>2. /\ pc' \in [Futures -> Places] /\ pc'[f] = l /\ \A g \in Downloads \ {f} : pc'[g] = pc[g]
  BY DEF SlotInv, Goto, Owning, Places, Futures
<1>3. Wanted(f)' = cmd
  BY <1>2 DEF Wanted
<1>4. \A g \in Downloads : pc'[g] \in Owning <=> slot = g
  BY <1>2 DEF SlotInv
<1>5. \A g \in Downloads : pc'[g] \in Owning \cup {"idle", "done"}
  BY <1>2 DEF SlotInv
<1> HIDE DEF cmd
<1> QED BY <1>1, <1>2, <1>3, <1>4, <1>5 DEF SlotInv

\* The holder has its answer on discovery before it sends a command.
LEMMA DiscoverForDownloadsStep ==
  ASSUME TabConstants, TabInv, NEW f \in Downloads, NEW ok \in BOOLEAN, DiscoverForDownloads(f, ok)
  PROVE  TabInv'
<1> USE DEF TabConstants
<1>1. LogInv' /\ Grown
  BY DiscoveryTells DEF TabInv, DiscoverForDownloads
<1>2. slot = f /\ pc'[Action] = pc[Action]
  BY DEF TabInv, SlotInv, DiscoverForDownloads, Goto, Futures
<1>3. SlotInv'
  <2> DEFINE l == IF ok THEN "setting" ELSE "restoring"
  <2>1. Goto(f, l) /\ Send(f, IF l = "setting" THEN "allow" ELSE "default")
    BY DEF DiscoverForDownloads
  <2>2. l \in Owning \ {"live", "discover"}
    BY DEF Owning
  <2> HIDE DEF l
  <2> QED BY <1>2, <2>1, <2>2, SendsHolding DEF TabInv, DiscoverForDownloads
<1>4. held' \subseteq alive'
  BY DEF TabInv, HeldInv, DiscoverForDownloads, Discovery, sessions
<1> QED
  BY <1>1, <1>2, <1>3, <1>4, ReadKept, OpenersKept, DestinationKept
  DEF TabInv, HeldInv, DiscoverForDownloads, sessions, watch

\* A future that is dropped restores the default before it gives up the slot.
LEMMA DropDownloadsStep ==
  ASSUME TabConstants, TabInv, NEW f \in Downloads, DropDownloads(f)
  PROVE  TabInv'
<1> USE DEF TabConstants
<1>1. slot = f /\ pc'[Action] = pc[Action] /\ "restoring" \in Owning \ {"live", "discover"}
  BY DEF TabInv, SlotInv, DropDownloads, Goto, Owning
<1>2. SlotInv'
  BY <1>1, SendsHolding DEF TabInv, DropDownloads
<1> QED BY <1>1, <1>2, SlotStep DEF DropDownloads

\* So does a watch that is stopped.
LEMMA StopStep ==
  ASSUME TabConstants, TabInv, NEW f \in Downloads, Stop(f)
  PROVE  TabInv'
<1> USE DEF TabConstants
<1>1. slot = f /\ pc'[Action] = pc[Action] /\ "stopping" \in Owning \ {"live", "discover"}
  BY DEF TabInv, SlotInv, Stop, Goto, Owning
<1>2. SlotInv'
  BY <1>1, SendsHolding DEF TabInv, Stop
<1> QED BY <1>1, <1>2, SlotStep DEF Stop

\* A watch is live once its command was answered.
LEMMA BehaveStep ==
  ASSUME TabConstants, TabInv, NEW f \in Downloads, Behave(f)
  PROVE  TabInv'
<1> USE DEF TabConstants
<1>1. /\ pc' \in [Futures -> Places] /\ pc'[f] = "live" /\ pc'[Action] = pc[Action]
      /\ \A g \in Downloads \ {f} : pc'[g] = pc[g]
  BY DEF TabInv, SlotInv, Behave, Goto, Futures, Places
<1>2. /\ slot = f /\ UNCHANGED commands /\ Wanted(f) = "allow" /\ Wanted(f)' = "allow"
      /\ wire = <<>> /\ behaviour = f /\ answer[f] = "ok"
  BY <1>1 DEF TabInv, SlotInv, Behave, downloads, Wanted
<1>3. SlotInv'
  <2>1. /\ \A g \in Downloads : pc'[g] \in Owning <=> slot' = g
        /\ \A g \in Downloads : pc'[g] \in Owning \cup {"idle", "done"}
    BY <1>1, <1>2 DEF TabInv, SlotInv, Owning, commands
  <2> QED BY <1>1, <1>2, <2>1 DEF TabInv, SlotInv, commands
<1> QED BY <1>1, <1>3, SlotStep DEF Behave, downloads

\* The slot is given up, or blocked.
LEMMA SlotGivenUp ==
  ASSUME TabConstants, SlotInv, NEW f \in Downloads, slot = f, Goto(f, "done"),
         slot' \in {"free", "closed"}, UNCHANGED <<try, wire, answer, behaviour>>,
         slot' = "free" => behaviour = "default" /\ wire = <<>>
  PROVE  SlotInv'
<1> USE DEF TabConstants
<1>1. /\ pc' \in [Futures -> Places] /\ pc'[f] = "done"
      /\ \A g \in Downloads \ {f} : pc'[g] = pc[g]
  BY DEF SlotInv, Goto, Futures, Places
<1>2. \A g \in Downloads : slot' # g
  OBVIOUS
<1>3. ASSUME NEW g \in Downloads
      PROVE  pc'[g] \notin Owning /\ pc'[g] \in {"idle", "done"}
  <2>1. CASE g = f
    BY <1>1, <2>1 DEF Owning
  <2>2. CASE g # f
    <3>1. pc[g] \notin Owning /\ pc[g] \in Owning \cup {"idle", "done"}
      BY <2>2 DEF SlotInv
    <3> QED BY <1>1, <2>2, <3>1
  <2> QED BY <2>1, <2>2
<1> QED BY <1>1, <1>2, <1>3 DEF SlotInv

\* A drop that can restore nothing blocks the slot for good.
LEMMA DropOutsideRuntimeStep ==
  ASSUME TabConstants, TabInv, NEW f \in Downloads, DropOutsideRuntime(f)
  PROVE  TabInv'
<1> USE DEF TabConstants
<1>1. slot = f /\ pc'[Action] = pc[Action]
  BY DEF TabInv, SlotInv, DropOutsideRuntime, Goto
<1>2. SlotInv'
  BY <1>1, SlotGivenUp DEF TabInv, DropOutsideRuntime
<1> QED BY <1>1, <1>2, SlotStep DEF DropOutsideRuntime

\* The slot is free when the default is confirmed, and blocked when it is not.
LEMMA RestoredStep ==
  ASSUME TabConstants, TabInv, NEW f \in Downloads, NEW ok \in BOOLEAN, Restored(f, ok)
  PROVE  TabInv'
<1> USE DEF TabConstants
<1>1. slot = f /\ pc'[Action] = pc[Action]
  BY SMTT(30) DEF TabInv, SlotInv, Restored, Goto
<1>2. slot' \in {"free", "closed"} /\ (slot' = "free" => behaviour = "default" /\ wire = <<>>)
  BY <1>1 DEF TabInv, SlotInv, Restored, SlotAfter, Wanted
<1>3. SlotInv'
  BY <1>1, <1>2, SlotGivenUp DEF TabInv, Restored
<1> QED BY <1>1, <1>3, SlotStep DEF Restored

\* Chrome carries out the first command on its way and answers it.
LEMMA ChromeDoesStep ==
  ASSUME TabConstants, TabInv, NEW ok \in BOOLEAN, ChromeDoes(ok)
  PROVE  TabInv'
<1> USE DEF TabConstants
<1> DEFINE w == Head(wire)
<1>1. /\ wire # <<>> /\ wire \in Seq(Commanded) /\ w = wire[1] /\ Len(wire) \in Nat \ {0}
      /\ w \in Commanded /\ wire' = Tail(wire)
      /\ wire' \in Seq(Commanded) /\ Len(wire') = Len(wire) - 1
      /\ \A i \in 1..Len(wire') : wire'[i] = wire[i + 1]
  BY DEF TabInv, SlotInv, ChromeDoes
<1>0. /\ behaviour' = IF ~ok THEN behaviour ELSE IF w.cmd = "allow" THEN w.who ELSE "default"
      /\ answer' = IF try[w.who] # w.try THEN answer
                   ELSE [answer EXCEPT ![w.who] = IF ok THEN "ok" ELSE "refused"]
  BY DEF ChromeDoes
<1> HIDE DEF w
<1>2. /\ behaviour' \in Downloads \cup {"default"}
      /\ answer' \in [Futures -> {"none", "ok", "refused"}]
  BY <1>0, <1>1 DEF TabInv, SlotInv, Commanded
<1>3. slot # "free" /\ UNCHANGED <<slot, pc, try>>
  BY <1>1 DEF TabInv, SlotInv, ChromeDoes
<1>4. ASSUME NEW f \in Downloads, slot = f
      PROVE  /\ \A i \in 1..Len(wire') :
                  /\ wire'[i].who = f /\ wire'[i].try <= try[f]
                  /\ wire'[i].try = try[f] => i = Len(wire') /\ wire'[i].cmd = Wanted(f)
             /\ answer'[f] = "ok" /\ pc[f] # "discover" =>
                  wire' = <<>> /\ behaviour' = IF Wanted(f) = "allow" THEN f ELSE "default"
             /\ pc[f] # "live"
  <2>1. \A i \in 1..Len(wire) :
          /\ wire[i].who = f /\ wire[i].try <= try[f]
          /\ wire[i].try = try[f] => i = Len(wire) /\ wire[i].cmd = Wanted(f)
    BY <1>4 DEF TabInv, SlotInv
  <2>2. ~(answer[f] = "ok" /\ pc[f] # "discover") /\ pc[f] # "live"
    BY <1>1, <1>4 DEF TabInv, SlotInv
  <2>3. ASSUME NEW i \in 1..Len(wire')
        PROVE  /\ wire'[i].who = f /\ wire'[i].try <= try[f]
               /\ wire'[i].try = try[f] => i = Len(wire') /\ wire'[i].cmd = Wanted(f)
    <3>1. i + 1 \in 1..Len(wire) /\ wire'[i] = wire[i + 1] /\ (i + 1 = Len(wire) => i = Len(wire'))
      BY <1>1
    <3> QED BY <2>1, <3>1
  <2>4. 1 \in 1..Len(wire)
    BY <1>1
  <2>5. w.who = f /\ (w.try = try[f] => Len(wire) = 1 /\ w.cmd = Wanted(f))
    BY <1>1, <2>1, <2>4
  <2>6. answer'[f] = "ok" /\ pc[f] # "discover" => ok /\ w.try = try[f]
    BY <1>0, <2>2, <2>5
  <2>7. ASSUME ok, w.try = try[f]
        PROVE  wire' = <<>> /\ behaviour' = IF Wanted(f) = "allow" THEN f ELSE "default"
    <3>1. Len(wire') = 0
      BY <1>1, <2>5, <2>7
    <3>2. wire' = <<>>
      BY <1>1, <3>1, EmptySeq
    <3> QED BY <1>0, <2>5, <2>7, <3>2
  <2> QED BY <2>2, <2>3, <2>6, <2>7
<1>5. SlotInv'
  <2>1. \A g \in Downloads : Wanted(g)' = Wanted(g)
    BY <1>3 DEF Wanted
  <2>2. slot' \in Downloads \cup {"closed"} /\ slot' = slot
    BY <1>3 DEF TabInv, SlotInv
  <2>3. /\ pc' \in [Futures -> Places] /\ try' \in [Futures -> Nat]
        /\ \A f \in Downloads : pc'[f] \in Owning \cup {"idle", "done"}
        /\ \A f \in Downloads : pc'[f] \in Owning <=> slot' = f
    BY <1>3 DEF TabInv, SlotInv
  <2> HIDE DEF Wanted
  <2>4. ASSUME NEW f \in Downloads, slot' = f
        PROVE  /\ \A i \in 1..Len(wire') :
                    /\ wire'[i].who = f /\ wire'[i].try <= try'[f]
                    /\ wire'[i].try = try'[f] => i = Len(wire') /\ wire'[i].cmd = Wanted(f)'
               /\ answer'[f] = "ok" /\ pc'[f] # "discover" =>
                    wire' = <<>> /\ behaviour' = IF Wanted(f)' = "allow" THEN f ELSE "default"
               /\ pc'[f] # "live"
    BY <1>3, <1>4, <2>1, <2>4
  <2> QED BY <1>1, <1>2, <2>2, <2>3, <2>4 DEF SlotInv
<1> QED BY <1>3, <1>5, SlotStep DEF ChromeDoes

\* A watch learns of an opener, loses events, or says that its table is full.
LEMMA NextEventStep ==
  ASSUME TabConstants, TabInv, NEW f \in Downloads, NextEvent(f)
  PROVE  TabInv'
<1> USE DEF TabConstants
<1>1. LogInv' /\ Grown
  BY TabsKept DEF TabInv, NextEvent
<1>2. /\ f \in Futures /\ pos[f] \in Nat /\ pos[f] < Len(log) /\ Len(log) \in Nat /\ Cap \in Nat
      /\ UNCHANGED <<log, born, opener, since>> /\ DOMAIN openers[f] \subseteq Tabs
      /\ \A i \in 1..Len(log) : log[i] \in Told /\ log[i].tab \in born
  BY DEF TabInv, LogInv, ReadInv, OpenersInv, NextEvent, tabs, Futures
<1>3. CASE Lagged(f)
  <2>1. /\ Len(log) - Cap \in 0..Len(log) /\ pos' = [pos EXCEPT ![f] = Len(log) - Cap]
        /\ told' = [told EXCEPT ![f] = TRUE] /\ openers' = openers
    BY <1>2, <1>3 DEF NextEvent, Lagged
  <2>2. ReadInv'
    BY <1>2, <2>1, SubscriberReads DEF TabInv
  <2>3. OpenersInv'
    BY <1>2, <2>1 DEF TabInv, OpenersInv
  <2> QED BY <1>1, <2>2, <2>3, SlotKept, DestinationKept, HeldKept
    DEF TabInv, SlotInv, NextEvent, watch
<1>4. CASE ~Lagged(f)
  <2> DEFINE e == log[pos[f] + 1]
             full == /\ e.by # None /\ e.tab \notin DOMAIN openers[f]
                     /\ Cardinality(DOMAIN openers[f]) >= MaxOpeners
  <2>1. /\ pos[f] + 1 \in 0..Len(log) /\ pos' = [pos EXCEPT ![f] = pos[f] + 1]
        /\ told' = [told EXCEPT ![f] = told[f] \/ full]
        /\ openers' = IF full THEN openers ELSE [openers EXCEPT ![f] = Learnt(f, e)]
    BY <1>2, <1>4 DEF NextEvent
  <2>2. ReadInv'
    BY <1>2, <2>1, SubscriberReads DEF TabInv
  <2>3. e \in Told /\ e.tab \in born /\ (e.by # None => e.by \in Tabs /\ opener[e.tab] = e.by)
    <3> DEFINE i == pos[f] + 1
    <3>1. i \in 1..Len(log)
      BY <1>2
    <3> HIDE DEF i
    <3>2. log[i] \in Told /\ log[i].tab \in born
          /\ (log[i].by # None => log[i].by \in Tabs /\ opener[log[i].tab] = log[i].by)
      BY <3>1 DEF TabInv, LogInv
    <3> QED
      BY <3>2 DEF i
  <2> HIDE DEF e
  <2>4. IsFiniteSet(DOMAIN openers[f])
    BY <1>2, FS_Subset
  <2>5. ASSUME ~full
        PROVE  /\ Learnt(f, e) \in UNION {[S -> Tabs] : S \in SUBSET Tabs}
               /\ DOMAIN openers[f] \subseteq DOMAIN Learnt(f, e)
               /\ DOMAIN Learnt(f, e) \subseteq born
               /\ e.by # None => e.tab \in DOMAIN Learnt(f, e)
               /\ Cardinality(DOMAIN Learnt(f, e)) <= MaxOpeners
               /\ \A t \in DOMAIN Learnt(f, e) : Learnt(f, e)[t] = opener[t]
    <3>1. /\ openers[f] \in [DOMAIN openers[f] -> Tabs] /\ DOMAIN openers[f] \subseteq born
          /\ Cardinality(DOMAIN openers[f]) <= MaxOpeners
          /\ \A t \in DOMAIN openers[f] : openers[f][t] = opener[t]
      BY DEF TabInv, OpenersInv
    <3>2. CASE e.by = None
      BY <1>2, <3>1, <3>2 DEF Learnt
    <3>3. CASE e.by # None
      <4>1. /\ DOMAIN Learnt(f, e) = DOMAIN openers[f] \cup {e.tab}
            /\ \A t \in DOMAIN Learnt(f, e) :
                 Learnt(f, e)[t] = IF t = e.tab THEN e.by ELSE openers[f][t]
            /\ Learnt(f, e) = [t \in DOMAIN Learnt(f, e) |-> Learnt(f, e)[t]]
        BY <3>3 DEF Learnt
      <4> HIDE DEF Learnt
      <4>2. Cardinality(DOMAIN openers[f]) \in Nat /\ MaxOpeners \in Nat
        BY <2>4, FS_CardinalityType
      <4>3. Cardinality(DOMAIN Learnt(f, e)) <= MaxOpeners
        <5>1. Cardinality(DOMAIN openers[f] \cup {e.tab}) =
                IF e.tab \in DOMAIN openers[f] THEN Cardinality(DOMAIN openers[f])
                ELSE Cardinality(DOMAIN openers[f]) + 1
          BY <2>4, FS_AddElement
        <5> QED BY <2>5, <3>1, <3>3, <4>1, <4>2, <5>1
      <4>4. \A t \in DOMAIN Learnt(f, e) : Learnt(f, e)[t] \in Tabs /\ Learnt(f, e)[t] = opener[t]
        BY <2>3, <3>1, <3>3, <4>1
      <4>5. DOMAIN Learnt(f, e) \in SUBSET Tabs /\ DOMAIN Learnt(f, e) \subseteq born
        BY <1>2, <2>3, <3>1, <4>1 DEF Told
      <4> QED BY <4>1, <4>3, <4>4, <4>5
    <3> QED BY <3>2, <3>3
  <2>6. OpenersInv'
    <3>1. /\ openers' \in [Downloads -> UNION {[S -> Tabs] : S \in SUBSET Tabs}]
          /\ told' \in [Downloads -> BOOLEAN] /\ since' \in [Downloads -> Nat]
      BY <1>2, <2>1, <2>5 DEF TabInv, OpenersInv
    <3>2. ASSUME NEW g \in Downloads, g # f
          PROVE  openers'[g] = openers[g] /\ told'[g] = told[g] /\ pos'[g] = pos[g]
      BY <2>1, <3>2
    <3>3. /\ DOMAIN openers[f] \subseteq DOMAIN openers'[f] /\ DOMAIN openers'[f] \subseteq born
          /\ Cardinality(DOMAIN openers'[f]) <= MaxOpeners
          /\ \A t \in DOMAIN openers'[f] : openers'[f][t] = opener[t]
          /\ ~told'[f] => ~told[f] /\ (e.by # None => e.tab \in DOMAIN openers'[f])
      BY <2>1, <2>5 DEF TabInv, OpenersInv
    <3>4. ASSUME ~told'[f], NEW i \in since[f] + 1..pos'[f], log[i].by # None
          PROVE  log[i].tab \in DOMAIN openers'[f]
      <4>1. pos'[f] = pos[f] + 1 /\ since[f] \in Nat
        BY <1>2, <2>1 DEF TabInv, OpenersInv, ReadInv
      <4>2. CASE i = pos[f] + 1
        BY <3>3, <3>4, <4>2 DEF e
      <4>3. CASE i \in since[f] + 1..pos[f]
        BY <3>3, <3>4, <4>3 DEF TabInv, OpenersInv
      <4> QED BY <1>2, <3>4, <4>1, <4>2, <4>3
    <3>5. ASSUME NEW g \in Downloads
          PROVE  /\ DOMAIN openers'[g] \subseteq born'
                 /\ Cardinality(DOMAIN openers'[g]) <= MaxOpeners
                 /\ \A t \in DOMAIN openers'[g] : openers'[g][t] = opener'[t]
                 /\ told'[g] \/ \A i \in since'[g] + 1..pos'[g] :
                       log'[i].by # None => log'[i].tab \in DOMAIN openers'[g]
      <4>1. CASE g = f
        BY <1>2, <3>3, <3>4, <4>1
      <4>2. CASE g # f
        <5>1. /\ openers'[g] = openers[g] /\ told'[g] = told[g] /\ pos'[g] = pos[g]
              /\ since'[g] = since[g] /\ UNCHANGED <<log, born, opener>>
          BY <1>2, <3>2, <4>2
        <5> QED BY <5>1 DEF TabInv, OpenersInv
      <4> QED BY <4>1, <4>2
    <3> QED BY <3>1, <3>5 DEF OpenersInv
  <2> QED BY <1>1, <2>2, <2>6, SlotKept, DestinationKept, HeldKept
    DEF TabInv, SlotInv, NextEvent, watch
<1> QED BY <1>3, <1>4

-----------------------------------------------------------------------------
(* The action's watch.                                                      *)

\* What a step of the action's watch on Chrome's tabs leaves of the downloads.
LEMMA ActionStep ==
  ASSUME TabConstants, TabInv, UNCHANGED <<tabs, discovered, downloads>>,
         \A f \in Downloads : pos'[f] = pos[f],
         pc' \in [Futures -> Places], \A f \in Downloads : pc'[f] = pc[f],
         ReadInv', DestinationInv', HeldInv'
  PROVE  TabInv'
BY TabsKept, SlotKept, OpenersKept DEF TabInv, downloads

\* The action's watch moves, the downloads stay.
LEMMA ActionGoes ==
  ASSUME TabConstants, SlotInv, NEW l \in Places, Goto(Action, l)
  PROVE  /\ pc' \in [Futures -> Places] /\ pc'[Action] = l
         /\ \A f \in Downloads : pc'[f] = pc[f]
BY DEF TabConstants, SlotInv, Goto, Futures

\* The action subscribes before it asks for discovery.
LEMMA WatchStep ==
  ASSUME TabConstants, TabInv, Watch
  PROVE  TabInv'
<1>1. /\ pc' \in [Futures -> Places] /\ pc'[Action] = "discover"
      /\ \A f \in Downloads : pc'[f] = pc[f]
  BY ActionGoes DEF TabInv, Watch, Places
<1>2. /\ pos' = [pos EXCEPT ![Action] = Len(log)] /\ Action \in Futures
      /\ Len(log) \in 0..Len(log) /\ UNCHANGED log
  BY DEF Watch, Subscribes, Futures, tabs
<1>3. ReadInv'
  BY <1>2, SubscriberReads DEF TabInv
<1>4. \A f \in Downloads : pos'[f] = pos[f]
  BY <1>2 DEF TabConstants
<1>5. DestinationInv' /\ HeldInv'
  BY <1>1 DEF TabInv, DestinationInv, HeldInv, Watch, tabs, watch, round, sessions, Opened, Fits
<1> QED BY <1>1, <1>3, <1>4, <1>5, ActionStep DEF Watch

\* Nothing is a candidate before the baseline.
LEMMA DiscoverForActionStep ==
  ASSUME TabConstants, TabInv, NEW ok \in BOOLEAN, DiscoverForAction(ok)
  PROVE  TabInv'
<1>1. LogInv' /\ Grown
  BY DiscoveryTells DEF TabInv, DiscoverForAction
<1>2. /\ pc' \in [Futures -> Places] /\ pc'[Action] \in {"baseline", "done"}
      /\ \A f \in Downloads : pc'[f] = pc[f]
  BY ActionGoes DEF TabInv, DiscoverForAction, Places
<1>3. DestinationInv' /\ HeldInv'
  BY <1>1, <1>2 DEF TabInv, DestinationInv, HeldInv, DiscoverForAction, Discovery, watch, round,
     sessions, Opened, Fits
<1> QED
  BY <1>1, <1>2, <1>3, ReadKept, SlotKept, OpenersKept DEF TabInv, DiscoverForAction, downloads

\* The tabs there are at the baseline are old.
LEMMA BaselineStep ==
  ASSUME TabConstants, TabInv, Baseline
  PROVE  TabInv'
<1>1. /\ pc' \in [Futures -> Places] /\ pc'[Action] = "drain"
      /\ \A f \in Downloads : pc'[f] = pc[f]
  BY ActionGoes DEF TabInv, Baseline, Places
<1>2. ReadInv'
  BY DEF TabInv, ReadInv, Baseline, tabs
<1>3. result = None /\ candidates = {} /\ matches = {}
  BY DEF TabInv, DestinationInv, Baseline
<1>4. DestinationInv' /\ HeldInv'
  BY <1>1, <1>3 DEF TabConstants, TabInv, LogInv, DestinationInv, HeldInv, Baseline,
     BaselineTabs, tabs, round, sessions
<1> QED BY <1>1, <1>2, <1>4, ActionStep DEF Baseline

\* A tab is noted because it was a candidate, or because the action opened it since its
\* baseline; one that is no more has gone.
LEMMA NotedOwn ==
  ASSUME TabConstants, TabInv
  PROVE  /\ Noted(Len(log)) \subseteq Tabs
         /\ \A t \in Noted(Len(log)) : Opened(t)
         /\ \A t \in candidates \ Noted(Len(log)) : t \notin alive
<1> USE DEF TabConstants
<1>1. /\ Action \in Futures /\ pos[Action] \in Nat /\ pos[Action] <= Len(log) /\ Len(log) \in Nat
      /\ \A i \in 1..Len(log) : log[i] \in Told
  BY DEF TabInv, LogInv, ReadInv, Futures
<1>2. ASSUME NEW t \in Noted(Len(log))
      PROVE  Opened(t)
  <2>1. PICK i \in pos[Action]..Len(log) :
          IF i = pos[Action] THEN t \in candidates ELSE Adds(log[i], t)
    BY DEF Noted
  <2>2. CASE i = pos[Action]
    BY <2>1, <2>2 DEF TabInv, DestinationInv
  <2>3. CASE i # pos[Action]
    <3>1. i \in 1..Len(log) /\ Adds(log[i], t)
      BY <1>1, <2>1, <2>3
    <3> QED BY <3>1 DEF Adds, TabInv, LogInv, DestinationInv, Opened
  <2> QED BY <2>2, <2>3
<1>3. ASSUME NEW t \in candidates \ Noted(Len(log))
      PROVE  t \notin alive
  <2>1. t \in Tabs /\ pos[Action] \in pos[Action]..Len(log)
    BY <1>1 DEF TabInv, DestinationInv
  <2>2. PICK j \in pos[Action] + 1..Len(log) : Removes(log[j], t)
    BY <2>1 DEF Noted
  <2>3. j \in 1..Len(log)
    BY <1>1
  <2> QED BY <2>2, <2>3 DEF Removes, TabInv, LogInv
<1> QED BY <1>2, <1>3 DEF Noted

\* What is drained is read once; the candidates are those noted.
LEMMA DrainStep ==
  ASSUME TabConstants, TabInv, Drain
  PROVE  TabInv'
<1> USE DEF TabConstants
<1> DEFINE cs == Noted(Len(log))
<1>0. /\ candidates' = cs /\ known' = known \cap cs /\ todo' = cs /\ matches' = {} /\ gone' = {}
      /\ UNCHANGED <<tabs, scope, existing, older, sessions, result>> /\ ~TooMany
      /\ pos' = [pos EXCEPT ![Action] = Len(log)]
      /\ pc[Action] = "drain"
  BY DEF Drain
<1>1. /\ pc' \in [Futures -> Places] /\ pc'[Action] \in {"origin", "check"}
      /\ (pc'[Action] = "origin" => scope # "NewTab")
      /\ \A f \in Downloads : pc'[f] = pc[f]
  <2> DEFINE l == IF scope # "NewTab" /\ ~originClosed' THEN "origin" ELSE "check"
  <2>1. /\ Goto(Action, l) /\ l \in Places /\ l \in {"origin", "check"}
        /\ l = "origin" => scope # "NewTab"
    BY DEF Drain, Places
  <2> HIDE DEF l
  <2> QED BY <2>1, ActionGoes DEF TabInv
<1>2. /\ Action \in Futures /\ Len(log) \in 0..Len(log) /\ UNCHANGED log
  BY <1>0 DEF Futures, tabs
<1>3. ReadInv'
  BY <1>0, <1>2, SubscriberReads DEF TabInv
<1>4. \A f \in Downloads : pos'[f] = pos[f]
  BY <1>0
<1>5. cs \subseteq Tabs /\ (\A t \in cs : Opened(t)) /\ (\A t \in candidates \ cs : t \notin alive)
  BY NotedOwn
<1>6. Cardinality(cs) <= MaxCandidates
  <2>1. pos[Action] \in Nat /\ pos[Action] <= Len(log) /\ Len(log) \in Nat
    BY DEF TabInv, ReadInv, Futures
  <2>2. CASE pos[Action] < Len(log)
    <3>1. Len(log) \in Unread
      BY <2>1, <2>2 DEF Unread
    <3>2. Cardinality(cs) \in Nat
      BY <1>5, FS_Subset, FS_CardinalityType
    <3> QED BY <1>0, <3>1, <3>2 DEF TooMany
  <2>3. CASE pos[Action] = Len(log)
    <3>1. cs = candidates
      BY <2>1, <2>3 DEF Noted, TabInv, DestinationInv
    <3> QED BY <3>1 DEF TabInv, DestinationInv
  <2> QED BY <2>1, <2>2, <2>3
<1> HIDE DEF cs
<1>7. DestinationInv'
  BY <1>0, <1>1, <1>5, <1>6 DEF TabInv, DestinationInv, Opened, Fits, tabs
<1>8. HeldInv'
  BY <1>0, <1>1, <1>5 DEF TabInv, DestinationInv, HeldInv, sessions, tabs
<1> QED BY <1>1, <1>3, <1>4, <1>7, <1>8, ActionStep DEF Drain

\* A watch that lost events has no destination.
LEMMA DrainFailsStep ==
  ASSUME TabConstants, TabInv, DrainFails
  PROVE  TabInv'
<1>1. /\ pc' \in [Futures -> Places] /\ pc'[Action] = "detach"
      /\ \A f \in Downloads : pc'[f] = pc[f]
  BY ActionGoes DEF TabInv, DrainFails, Finish, Places
<1>2. ReadInv' /\ \A f \in Downloads : pos'[f] = pos[f]
  BY DEF TabInv, ReadInv, DrainFails, tabs
<1>3. DestinationInv' /\ HeldInv'
  BY <1>1 DEF TabConstants, TabInv, DestinationInv, HeldInv, DrainFails, Finish, tabs, watch,
     round, sessions, Opened, Fits
<1> QED BY <1>1, <1>2, <1>3, ActionStep DEF DrainFails

\* The origin is a destination of an action that may stay.
LEMMA ObserveOriginStep ==
  ASSUME TabConstants, TabInv, ObserveOrigin
  PROVE  TabInv'
<1>1. /\ pc' \in [Futures -> Places] /\ pc'[Action] = "check"
      /\ \A f \in Downloads : pc'[f] = pc[f]
  BY ActionGoes DEF TabInv, ObserveOrigin, Places
<1>2. ReadInv' /\ \A f \in Downloads : pos'[f] = pos[f]
  BY DEF TabInv, ReadInv, ObserveOrigin, tabs
<1>3. DestinationInv' /\ HeldInv'
  BY <1>1 DEF TabInv, LogInv, DestinationInv, HeldInv, ObserveOrigin, tabs, sessions, Opened,
     Fits, Looks
<1> QED BY <1>1, <1>2, <1>3, ActionStep DEF ObserveOrigin

\* An action that is abandoned gives its sessions back.
LEMMA AbandonStep ==
  ASSUME TabConstants, TabInv, Abandon
  PROVE  TabInv'
<1>1. /\ pc' \in [Futures -> Places] /\ pc'[Action] = "detach"
      /\ \A f \in Downloads : pc'[f] = pc[f]
  BY ActionGoes DEF TabInv, Abandon, Finish, Places
<1>2. ReadInv' /\ \A f \in Downloads : pos'[f] = pos[f]
  BY DEF TabInv, ReadInv, Abandon, tabs
<1>3. DestinationInv' /\ HeldInv'
  BY <1>1 DEF TabConstants, TabInv, DestinationInv, HeldInv, Abandon, Finish, tabs, watch, round,
     sessions, Opened, Fits
<1> QED BY <1>1, <1>2, <1>3, ActionStep DEF Abandon

\* A candidate that is there gets a session.
LEMMA AttachStep ==
  ASSUME TabConstants, TabInv, NEW t \in Tabs, Attach(t)
  PROVE  TabInv'
<1> USE DEF TabConstants
<1>1. /\ pc' \in [Futures -> Places] /\ \A f \in Downloads : pc'[f] = pc[f]
  BY DEF TabInv, SlotInv, Attach, Finish, Goto, Places, Futures
<1>2. ReadInv' /\ \A f \in Downloads : pos'[f] = pos[f]
  BY DEF TabInv, ReadInv, Attach, tabs
<1>3. DestinationInv'
  BY DEF TabInv, SlotInv, DestinationInv, Attach, Finish, Goto, Opened, Fits, tabs
<1>4. HeldInv'
  BY DEF TabInv, SlotInv, HeldInv, Attach, Finish, Goto, tabs
<1> QED BY <1>1, <1>2, <1>3, <1>4, ActionStep DEF Attach

\* A candidate is looked at through its session.
LEMMA ObserveStep ==
  ASSUME TabConstants, TabInv, NEW t \in Tabs, Observe(t)
  PROVE  TabInv'
<1> USE DEF TabConstants
<1>1. /\ pc' \in [Futures -> Places] /\ \A f \in Downloads : pc'[f] = pc[f]
  BY DEF TabInv, SlotInv, Observe
<1>2. ReadInv' /\ \A f \in Downloads : pos'[f] = pos[f]
  BY DEF TabInv, ReadInv, Observe, tabs
<1>3. DestinationInv'
  BY DEF TabInv, DestinationInv, Observe, Opened, Fits, tabs, watch
<1>4. HeldInv'
  BY DEF TabInv, HeldInv, Observe, tabs, watch, sessions
<1> QED BY <1>1, <1>2, <1>3, <1>4, ActionStep DEF Observe

\* The result is the only match, or none.
LEMMA DecideStep ==
  ASSUME TabConstants, TabInv, Decide
  PROVE  TabInv'
<1> USE DEF TabConstants
<1>1. /\ pc' \in [Futures -> Places] /\ \A f \in Downloads : pc'[f] = pc[f]
  BY DEF TabInv, SlotInv, Decide, Finish, Goto, Places, Futures
<1>2. ReadInv' /\ \A f \in Downloads : pos'[f] = pos[f]
  BY DEF TabInv, ReadInv, Decide, tabs
<1>3. DestinationInv'
  <2>1. Cardinality(candidates') <= MaxCandidates
    <3>1. IsFiniteSet(candidates) /\ candidates' \subseteq candidates
      BY FS_Subset DEF TabInv, DestinationInv, Decide
    <3>2. Cardinality(candidates') <= Cardinality(candidates)
      BY <3>1, FS_Subset
    <3>3. Cardinality(candidates') \in Nat /\ Cardinality(candidates) \in Nat
      BY <3>1, FS_Subset, FS_CardinalityType
    <3> QED BY <3>2, <3>3 DEF TabInv, DestinationInv
  <2> QED BY <2>1 DEF TabInv, SlotInv, DestinationInv, Decide, Finish, Goto, Futures, Opened,
     Fits, tabs, round
<1>4. HeldInv'
  BY DEF TabInv, SlotInv, DestinationInv, HeldInv, Decide, Finish, Goto, Futures, tabs
<1> QED BY <1>1, <1>2, <1>3, <1>4, ActionStep DEF Decide

\* The sessions go when the watch ends, or are given up.
LEMMA DetachStep ==
  ASSUME TabConstants, TabInv, NEW ok \in BOOLEAN, Detach(ok)
  PROVE  TabInv'
<1> USE DEF TabConstants
<1>1. /\ pc' \in [Futures -> Places] /\ \A f \in Downloads : pc'[f] = pc[f]
  BY DEF TabInv, SlotInv, Detach, Goto, Places, Futures
<1>2. ReadInv' /\ \A f \in Downloads : pos'[f] = pos[f]
  BY DEF TabInv, ReadInv, Detach, tabs
<1>3. DestinationInv'
  BY DEF TabInv, SlotInv, DestinationInv, Detach, Goto, Opened, Fits, tabs, round
<1>4. HeldInv'
  BY DEF TabInv, DestinationInv, HeldInv, Detach, tabs, Detached
<1> QED BY <1>1, <1>2, <1>3, <1>4, ActionStep DEF Detach

-----------------------------------------------------------------------------
(* The invariant, and what follows from it.                                 *)

\* The invariant holds when the tabs that are there are old and nobody has subscribed.
LEMMA TabInvInit ==
  ASSUME TabConstants, Init
  PROVE  TabInv
<1> USE DEF TabConstants
<1>1. PICK old \in SUBSET (Tabs \ {Origin}) :
        /\ alive = old \cup {Origin} /\ born = alive
        /\ opener = [t \in Tabs |-> IF t \in old THEN Origin ELSE None]
  BY DEF Init
<1>2. LogInv /\ ReadInv
  <2>1. /\ alive \subseteq born /\ born \subseteq Tabs /\ opener \in [Tabs -> Tabs \cup {None}]
    BY <1>1
  <2>2. discovering \in BOOLEAN /\ discovered \in BOOLEAN
    BY DEF Init
  <2>3. log \in Seq(Told) /\ Len(log) = 0
    BY DEF Init
  <2>4. pos = [f \in Futures |-> 0]
    BY DEF Init
  <2> QED BY <2>1, <2>2, <2>3, <2>4 DEF LogInv, ReadInv
<1>3. SlotInv
  BY DEF Init, SlotInv, Places, Owning, Futures
<1>4. OpenersInv
  <2>1. Cardinality({}) = 0
    BY FS_EmptySet
  <2>2. \A f \in Downloads : DOMAIN openers[f] = {} /\ openers[f] \in [{} -> Tabs]
    BY DEF Init
  <2>3. /\ openers \in [Downloads -> UNION {[S -> Tabs] : S \in SUBSET Tabs}]
        /\ told \in [Downloads -> BOOLEAN] /\ since \in [Downloads -> Nat]
    BY <2>2 DEF Init
  <2>4. \A f \in Downloads : since[f] = 0 /\ pos[f] = 0
    BY DEF Init, Futures
  <2> QED BY <2>1, <2>2, <2>3, <2>4 DEF OpenersInv
<1>5. DestinationInv
  <2>1. Cardinality({}) = 0
    BY FS_EmptySet
  <2> QED BY <2>1 DEF Init, DestinationInv, Futures
<1>6. HeldInv
  BY DEF Init, HeldInv
<1> QED BY <1>2, <1>3, <1>4, <1>5, <1>6 DEF TabInv

\* Each step of a watch and of Chrome keeps the invariant.
LEMMA TabInvStep ==
  ASSUME TabConstants, TabInv, [Next]_vars
  PROVE  TabInv'
<1>1. CASE UNCHANGED vars
  <2>1. ReadInv' /\ DestinationInv' /\ HeldInv'
    BY <1>1 DEF vars, tabs, watch, round, sessions, TabInv, ReadInv, DestinationInv, HeldInv,
       Opened, Fits
  <2> QED BY <1>1, <2>1, ActionStep DEF vars, TabInv, SlotInv
<1>2. ASSUME NEW f \in Downloads, DownloadNext(f)
      PROVE  TabInv'
  BY <1>2, AcquireStep, BehaveStep, DropDownloadsStep, DropOutsideRuntimeStep, StopStep,
     NextEventStep,
     DiscoverForDownloadsStep, RestoredStep DEF DownloadNext
<1>3. CASE ActionNext
  BY <1>3, WatchStep, BaselineStep, DrainStep, DrainFailsStep, ObserveOriginStep, DecideStep,
     AbandonStep,
     AttachStep, ObserveStep, DiscoverForActionStep, DetachStep DEF ActionNext
<1>4. ASSUME NEW t \in Tabs, TabNext(t)
      PROVE  TabInv'
  BY <1>4, OpenStep, InfoStep, DestroyStep DEF TabNext
<1>5. CASE \E ok \in BOOLEAN : ChromeDoes(ok)
  BY <1>5, ChromeDoesStep
<1> QED BY <1>1, <1>2, <1>3, <1>4, <1>5 DEF Next

\* The invariant of the watches.
LEMMA TabInvHolds == Spec => []TabInv
<1>1. Init => TabInv
  BY TabInvInit, TabAssumption
<1>2. TabInv /\ [Next]_vars => TabInv'
  BY TabInvStep, TabAssumption
<1> QED BY <1>1, <1>2, PTL DEF Spec

\* The types follow from the invariant.
LEMMA TabTyped ==
  ASSUME TabConstants, TabInv
  PROVE  TypeOK
<1> USE DEF TabConstants
<1>1. \A f \in Futures : pos[f] \in 0..Len(log) /\ try[f] \in Nat
  BY DEF TabInv, ReadInv, SlotInv
<1>2. \A f \in Downloads :
        /\ pc[f] \in {"idle", "discover", "setting", "live", "stopping", "restoring", "done"}
        /\ DOMAIN openers[f] \subseteq Tabs /\ Cardinality(DOMAIN openers[f]) <= MaxOpeners
  BY DEF TabInv, SlotInv, Owning, OpenersInv
<1>3. held \cup lost \subseteq Tabs
  BY DEF TabInv, LogInv, HeldInv
<1> QED BY <1>1, <1>2, <1>3 DEF TypeOK, TabInv, LogInv, SlotInv, DestinationInv

\* Whatever futures are dropped and answers refused, one watch at a time has commands on
\* their way, and the download behaviour is its own or the default (DownloadWatch).
THEOREM DownloadsOwned == Spec => []BehaviourOwned
<1>1. ASSUME TabInv PROVE BehaviourOwned
  <2>1. TypeOK
    BY <1>1, TabTyped, TabAssumption
  <2> QED BY <1>1, <2>1 DEF BehaviourOwned, TabInv, SlotInv, Wanted
<1> QED BY <1>1, TabInvHolds, PTL

\* More links lead wherever fewer do.
LEMMA ChainMonotone ==
  ASSUME NEW L, NEW M, L \subseteq M, NEW t \in Tabs, NEW a \in Tabs, NEW n \in Nat,
         Chain(L, t, a, n)
  PROVE  Chain(M, t, a, n)
BY DEF Chain

\* An ancestor that a watch names is one by Chrome's openers, and one that Chrome announced
\* since the watch subscribed is named, unless the watch said that it lost events
\* (has_opener_ancestor).
THEOREM AncestryIsTrue == Spec => []AncestryTrue
<1> DEFINE Opening == {<<u, opener[u]>> : u \in Tabs}
<1>1. ASSUME TabInv, NEW f \in Downloads
      PROVE  Kept(f) \subseteq Opening /\ (told[f] \/ Announced(f) \subseteq Kept(f))
  <2>1. Kept(f) \subseteq Opening
    BY <1>1 DEF TabInv, OpenersInv, Kept
  <2>2. ASSUME ~told[f], NEW e \in Announced(f) PROVE e \in Kept(f)
    <3>1. PICK i \in since[f] + 1..pos[f] : log[i].tab = e[1] /\ log[i].by = e[2]
      BY <2>2 DEF Announced
    <3>2. e \in Tabs \X Tabs /\ e = <<e[1], e[2]>> /\ i \in 1..Len(log) /\ log[i].by # None
      BY <1>1, <2>2, <3>1, TabAssumption
      DEF Announced, TabInv, ReadInv, OpenersInv, Futures, TabConstants
    <3>3. log[i].tab \in DOMAIN openers[f] /\ openers[f][e[1]] = opener[e[1]] /\ opener[e[1]] = e[2]
      BY <1>1, <2>2, <3>1, <3>2 DEF TabInv, LogInv, OpenersInv
    <3> QED BY <3>1, <3>2, <3>3 DEF Kept
  <2> QED BY <2>1, <2>2
<1>2. ASSUME TabInv PROVE AncestryTrue
  <2>1. ASSUME NEW f \in Downloads, NEW t \in Tabs, NEW a \in Tabs, HasOpenerAncestor(f, t, a)
        PROVE  \E n \in 1..Depth : Chain(Opening, t, a, n)
    <3>1. PICK n \in 1..Depth : Chain(Kept(f), t, a, n)
      BY <2>1 DEF HasOpenerAncestor
    <3>2. n \in Nat
      BY TabAssumption DEF TabConstants
    <3>3. Kept(f) \subseteq Opening
      BY <1>1, <1>2
    <3>4. Chain(Opening, t, a, n)
      BY <3>1, <3>2, <3>3, ChainMonotone
    <3> QED BY <3>4
  <2>2. ASSUME NEW f \in Downloads, NEW t \in Tabs, NEW a \in Tabs, ~told[f],
               NEW n \in 1..Depth, Chain(Announced(f), t, a, n)
        PROVE  HasOpenerAncestor(f, t, a)
    <3>1. n \in Nat
      BY TabAssumption DEF TabConstants
    <3>2. Announced(f) \subseteq Kept(f)
      BY <1>1, <1>2, <2>2
    <3>3. Chain(Kept(f), t, a, n)
      BY <2>2, <3>1, <3>2, ChainMonotone
    <3> QED BY <3>3 DEF HasOpenerAncestor
  <2> QED BY <2>1, <2>2 DEF AncestryTrue
<1> QED BY <1>2, TabInvHolds, PTL

\* The tab an action is given is one that it opened after its baseline, or its origin if it
\* may stay there (DestinationWatch::check).
THEOREM DestinationsOwn == Spec => []DestinationIsOwn
<1>1. TabInv => DestinationIsOwn
  BY DEF TabInv, DestinationInv, DestinationIsOwn, Fits, Opened
<1> QED BY <1>1, TabInvHolds, PTL

\* When the watch is over no temporary session is left in Chrome but those whose attach reply
\* was lost, whose detach was given up, or whose page was called closed while it lives.
THEOREM WatchSessionsReturned == Spec => []SessionsReturned
<1>1. TabInv => SessionsReturned
  BY DEF TabInv, HeldInv, SessionsReturned
<1> QED BY <1>1, TabInvHolds, PTL

-----------------------------------------------------------------------------
(* The network idle monitor of one target.                                  *)

\* Who owns what, as the owned initialization hands it on: there is no route before the
\* attachment, and none outlives its monitor but for the task that detaches it; no monitor
\* is handed to a future that is gone.
OwnerInv ==
  /\ setup = "attach" => ~route
  /\ Net!RouteHasOwner

\* The commands of the setup.
LEMMA CommandNames == Net!CommandSet = {"attach", "tree", "page", "lifecycle", "network"}
<1>1. DOMAIN Net!Commands = 1..5
  BY DEF Net!Commands
<1>2. 1..5 = {1, 2, 3, 4, 5}
  OBVIOUS
<1> QED
  BY <1>1, <1>2 DEF Net!CommandSet, Net!Commands

\* What neither sets up, drops nor detaches leaves the owners as they are.
LEMMA OwnersStay ==
  ASSUME OwnerInv, UNCHANGED <<setup, route, detaching, caller>>
  PROVE  OwnerInv'
BY DEF OwnerInv, Net!RouteHasOwner

\* Whoever lets go of the route hands it on or detaches.
LEMMA OwnersNext == OwnerInv /\ [Net!Next]_Net!vars => OwnerInv'
<1> SUFFICES ASSUME OwnerInv, [Net!Next]_Net!vars PROVE OwnerInv'
  OBVIOUS
<1>1. CASE Net!ChromeNext
  BY <1>1, OwnersStay DEF Net!ChromeNext, Net!starting
<1>2. CASE Net!AnswersNext
  BY <1>2, OwnersStay DEF Net!AnswersNext, Net!Answers
<1>3. CASE Net!Deliver
  BY <1>3, OwnersStay DEF Net!Deliver
<1>4. CASE Net!Lose
  BY <1>4, OwnersStay DEF Net!Lose, Net!starting
<1>5. CASE Net!SetupNext
  <2>1. /\ setup' \in {"tree", "page", "lifecycle", "network"}
        /\ UNCHANGED caller
    BY <1>5 DEF Net!SetupNext, Net!Attached, Net!TreeKnown, Net!Enabled, Net!Ask
  <2> QED
    BY <2>1 DEF OwnerInv, Net!RouteHasOwner
<1>6. CASE Net!Armed
  BY <1>6 DEF Net!Armed, OwnerInv, Net!RouteHasOwner
<1>7. CASE Net!SetupFails
  <2>1. CASE setup = "attach"
    BY <1>7, <2>1 DEF Net!SetupFails, OwnerInv, Net!RouteHasOwner
  <2>2. CASE setup # "attach"
    BY <1>7, <2>2 DEF Net!SetupFails, Net!Dropped, OwnerInv, Net!RouteHasOwner
  <2> QED
    BY <2>1, <2>2
<1>8. CASE Net!CallerGone
  BY <1>8, CommandNames DEF Net!CallerGone, Net!Gone, OwnerInv, Net!RouteHasOwner
<1>9. CASE Net!MonitorDrop
  BY <1>9 DEF Net!MonitorDrop, Net!Dropped, OwnerInv, Net!RouteHasOwner
<1>10. CASE Net!DetachEnds
  BY <1>10 DEF Net!DetachEnds, Net!starting, OwnerInv, Net!RouteHasOwner
<1>11. CASE Net!TargetClosed
  BY <1>11, OwnersStay DEF Net!TargetClosed, Net!starting
<1>12. CASE Net!WaitNext
  BY <1>12, OwnersStay DEF Net!WaitNext, Net!starting
<1>13. CASE Net!Tick
  BY <1>13, OwnersStay DEF Net!Tick, Net!starting
<1>14. CASE Net!Ended \/ UNCHANGED Net!vars
  BY <1>14, OwnersStay DEF Net!Ended, Net!vars, Net!starting
<1> QED
  BY <1>1, <1>2, <1>3, <1>4, <1>5, <1>6, <1>7, <1>8, <1>9, <1>10, <1>11, <1>12, <1>13, <1>14
     DEF Net!Next

\* Wherever start() was abandoned, failed or dropped: the route of the private session
\* belongs to a monitor, to the task that sets one up or to the one that detaches it, and
\* a monitor to the future that asked for it (the owned initialization, Drop for
\* NetworkMonitor).
THEOREM RoutesAreOwned == Net!Spec => []RouteHasOwner
<1>1. Net!Init => OwnerInv
  BY DEF Net!Init, OwnerInv, Net!RouteHasOwner
<1>2. OwnerInv => RouteHasOwner
  BY DEF OwnerInv, RouteHasOwner
<1> QED
  BY <1>1, <1>2, OwnersNext, PTL DEF Net!Spec

-----------------------------------------------------------------------------
(* Types.                                                                   *)

Kinds == {"loading", "navigated", "load", "stopped", "started", "ended", "crashed", "reply"}

Events == [ev : Kinds, doc : Net!Docs, req : Requests \cup {Net!NoRequest}]

\* A request that starts has a name.
Named(e) == e.ev = "started" => e.req \in Requests

Ledgers ==
  [loader : Net!Docs \cup {Net!NoDoc}, armed : BOOLEAN, trusted : BOOLEAN, loaded : BOOLEAN,
   active : SUBSET (Requests \X Net!Docs), failed : BOOLEAN, last : 0..MaxTime]

Calls ==
  [pc : {"none", "check", "asleep", "idle", "failed"}, start : 0..MaxTime,
   wake : 0..MaxTime + Timeout, woken : BOOLEAN]

\* The requests of the ledger are finitely many, and within the limit.
Limited(l) == IsFiniteSet(l.active) /\ Cardinality(l.active) <= MaxActive

ChromeTyped ==
  /\ doc \in Net!Docs /\ loading \in {"no", "provisional", "committed", "loaded"}
  /\ made \subseteq Requests /\ live \subseteq Requests \X Net!Docs /\ cut \subseteq Requests
  /\ domain \in 0..3
  /\ loading \in {"committed", "loaded"} => doc # 0
  /\ loading = "provisional" => doc # MaxDoc

ChannelTyped == channel \in Seq(Events) /\ \A i \in DOMAIN channel : Named(channel[i])

SetupTyped ==
  /\ fresh \in BOOLEAN /\ setup \in Net!CommandSet \cup {"owned", "over"}
  /\ reply \in [at : {"asked", "sent", "here"}, doc : Net!Docs \cup {Net!NoDoc}]
  /\ caller \in {"waiting", "gone"} /\ route \in BOOLEAN
  /\ detaching \in {"no", "asked", "over"} /\ down \in BOOLEAN

MonitorTyped ==
  /\ ledger \in Ledgers /\ Limited(ledger) /\ wait \in [Waiters -> Calls]
  /\ now \in 0..MaxTime /\ busyAt \in 0..MaxTime

IdleTyped == ChromeTyped /\ ChannelTyped /\ SetupTyped /\ MonitorTyped

\* The types of the module follow.
LEMMA TypesMean == IdleTyped => Net!TypeOK
<1> SUFFICES ASSUME IdleTyped PROVE Net!TypeOK
  OBVIOUS
<1>1. \A i \in DOMAIN channel : channel[i].doc \in Net!Docs
  <2>1. channel \in Seq(Events)
    BY DEF IdleTyped, ChannelTyped
  <2>2. \A i \in DOMAIN channel : channel[i] \in Events
    BY <2>1
  <2> QED
    BY <2>2 DEF Events
<1>2. /\ ledger.loader \in Net!Docs \cup {Net!NoDoc} /\ ledger.active \subseteq Requests \X Net!Docs
      /\ \A b \in {"armed", "trusted", "loaded", "failed"} : ledger[b] \in BOOLEAN
      /\ ledger.last \in 0..MaxTime
  BY DEF IdleTyped, MonitorTyped, Ledgers
<1> QED
  BY <1>1, <1>2 DEF IdleTyped, ChromeTyped, SetupTyped, MonitorTyped, Net!TypeOK,
    Net!Cardinality, Cardinality, Calls, Limited

\* An event that Chrome announces is one.
LEMMA EventTyped ==
  ASSUME NEW k \in Kinds, NEW d \in Net!Docs, NEW r \in Requests \cup {Net!NoRequest},
         k = "started" => r \in Requests
  PROVE  Net!Event(k, d, r) \in Events /\ Named(Net!Event(k, d, r))
BY DEF Net!Event, Events, Named

\* So is every event of a channel that one is appended to,
LEMMA Appended ==
  ASSUME ChannelTyped, NEW e \in Events, Named(e), channel' = Append(channel, e)
  PROVE  ChannelTyped'
<1>1. channel' \in Seq(Events) /\ DOMAIN channel' = 1..Len(channel) + 1
  BY DEF ChannelTyped
<1>2. \A i \in DOMAIN channel' :
        channel'[i] = e \/ (i \in DOMAIN channel /\ channel'[i] = channel[i])
  BY DEF ChannelTyped
<1> QED
  BY <1>1, <1>2 DEF ChannelTyped

\* and of one that an event is taken from.
LEMMA Taken ==
  ASSUME ChannelTyped, channel # <<>>, channel' = Tail(channel)
  PROVE  ChannelTyped' /\ Head(channel) \in Events /\ Named(Head(channel))
<1>1. Len(channel) \in Nat /\ Len(channel) > 0 /\ DOMAIN channel = 1..Len(channel)
  BY DEF ChannelTyped
<1>2. channel' \in Seq(Events) /\ DOMAIN channel' = 1..Len(channel) - 1
  BY <1>1 DEF ChannelTyped
<1>3. \A i \in 1..Len(channel) - 1 : channel'[i] = channel[i + 1]
  BY <1>1 DEF ChannelTyped
<1>4. Head(channel) = channel[1] /\ 1 \in DOMAIN channel
  BY <1>1
<1> QED
  BY <1>1, <1>2, <1>3, <1>4 DEF ChannelTyped

\* What an event makes of the ledger: at the limit it fails, and never forgets a request.
LEMMA LedgerTyped ==
  ASSUME Net!IdleConstants,
         NEW l \in Ledgers, Limited(l), NEW e \in Events, Named(e), now \in 0..MaxTime
  PROVE  Net!After(l, e) \in Ledgers /\ Limited(Net!After(l, e))
<1> DEFINE m == [l EXCEPT !.last = now]
<1>1. m \in Ledgers /\ m.active = l.active /\ IsFiniteSet(m.active)
  BY DEF Ledgers, Limited
<1> HIDE DEF m
<1>2. \A a \in SUBSET l.active : IsFiniteSet(a) /\ Cardinality(a) <= MaxActive
  <2> SUFFICES ASSUME NEW a \in SUBSET l.active PROVE IsFiniteSet(a) /\ Cardinality(a) <= MaxActive
    OBVIOUS
  <2>1. IsFiniteSet(a) /\ Cardinality(a) <= Cardinality(l.active)
    BY FS_Subset DEF Limited
  <2>2. Cardinality(a) \in Nat /\ Cardinality(l.active) \in Nat
    BY <2>1, FS_CardinalityType DEF Limited
  <2> QED
    BY <2>1, <2>2 DEF Net!IdleConstants, Limited
<1>3. CASE e.ev = "navigated"
  <2>1. Net!After(l, e) = Net!Navigated(m, e.doc)
    BY <1>3 DEF Net!After, m
  <2>2. Net!Navigated(m, e.doc) \in Ledgers
    BY <1>1 DEF Net!Navigated, Ledgers, Events
  <2>3. Net!Navigated(m, e.doc).active \in SUBSET l.active
    BY <1>1 DEF Net!Navigated, Ledgers
  <2> QED
    BY <1>2, <2>1, <2>2, <2>3 DEF Limited
<1>4. CASE e.ev = "started"
  <2> DEFINE others == {x \in m.active : x[1] # e.req}
             n == [m EXCEPT !.active = others \cup {<<e.req, e.doc>>}]
  <2>1. Net!After(l, e) = IF others = m.active /\ Cardinality(m.active) >= MaxActive
                          THEN Net!Failed(m) ELSE n
    BY <1>4 DEF Net!After, Net!Started, Net!Cardinality, Cardinality, m
  <2>2. Net!Failed(m) \in Ledgers /\ Net!Failed(m).active = l.active
    BY <1>1 DEF Net!Failed, Ledgers
  <2>3. n \in Ledgers /\ n.active = others \cup {<<e.req, e.doc>>}
    BY <1>1, <1>4 DEF Ledgers, Events, Named
  <2>4. IsFiniteSet(others) /\ Cardinality(others) \in Nat /\ Cardinality(m.active) \in Nat
    BY <1>1, <1>2, FS_CardinalityType
  <2>5. /\ IsFiniteSet(n.active)
        /\ \/ Cardinality(n.active) = Cardinality(others)
           \/ Cardinality(n.active) = Cardinality(others) + 1
    <3>1. /\ IsFiniteSet(others \cup {<<e.req, e.doc>>})
          /\ Cardinality(others \cup {<<e.req, e.doc>>})
               = IF <<e.req, e.doc>> \in others THEN Cardinality(others)
                 ELSE Cardinality(others) + 1
      BY <2>4, FS_AddElement
    <3> QED
      BY <2>3, <3>1
  <2>6. CASE others = m.active
    <3>1. CASE Cardinality(m.active) >= MaxActive
      BY <1>2, <2>1, <2>2, <2>6, <3>1 DEF Limited
    <3>2. CASE ~(Cardinality(m.active) >= MaxActive)
      <4>1. Net!After(l, e) = n
        BY <2>1, <3>2
      <4>2. Cardinality(n.active) <= MaxActive
        <5> DEFINE k == Cardinality(m.active)
        <5>1. k \in Nat /\ ~(k >= MaxActive) /\ Cardinality(n.active) \in {k, k + 1}
          BY <2>4, <2>5, <2>6, <3>2
        <5> HIDE DEF k
        <5> QED
          BY <5>1 DEF Net!IdleConstants
      <4> QED
        BY <2>3, <2>5, <4>1, <4>2 DEF Limited
    <3> QED
      BY <3>1, <3>2
  <2>7. CASE others # m.active
    <3>1. Cardinality(others) < Cardinality(m.active)
      BY <1>1, <2>4, <2>7, FS_Subset
    <3>2. Cardinality(m.active) <= MaxActive
      BY <1>1 DEF Limited
    <3> QED
      BY <2>1, <2>3, <2>4, <2>5, <2>7, <3>1, <3>2 DEF Net!IdleConstants, Limited
  <2> QED
    BY <2>6, <2>7
<1>5. CASE e.ev = "ended"
  <2> DEFINE n == [m EXCEPT !.active = {x \in @ : x[1] # e.req}]
  <2>1. Net!After(l, e) = n
    BY <1>5 DEF Net!After, m
  <2>2. n \in Ledgers /\ n.active \in SUBSET l.active
    BY <1>1 DEF Ledgers
  <2> QED
    BY <1>2, <2>1, <2>2 DEF Limited
<1>6. CASE e.ev \notin {"navigated", "started", "ended"}
  <2>1. \E b \in BOOLEAN : Net!After(l, e) \in {[m EXCEPT !.loaded = b], Net!Failed(m)}
    BY <1>6 DEF Net!After, m
  <2>2. \A b \in BOOLEAN : /\ [m EXCEPT !.loaded = b] \in Ledgers
                           /\ [m EXCEPT !.loaded = b].active = l.active
    BY <1>1 DEF Ledgers
  <2>3. Net!Failed(m) \in Ledgers /\ Net!Failed(m).active = l.active
    BY <1>1 DEF Net!Failed, Ledgers
  <2> QED
    BY <1>2, <2>1, <2>2, <2>3 DEF Limited
<1> QED
  BY <1>3, <1>4, <1>5, <1>6

\* Chrome announces events, and answers commands, of their types.
LEMMA ChromeNextTyped ==
  ASSUME Net!IdleConstants
  PROVE  IdleTyped /\ Net!ChromeNext => IdleTyped'
<1> SUFFICES ASSUME IdleTyped, Net!ChromeNext PROVE IdleTyped'
  OBVIOUS
<1>1. SetupTyped' /\ MonitorTyped'
  BY DEF Net!ChromeNext, Net!starting, Net!monitor, IdleTyped, SetupTyped, MonitorTyped,
     Net!StartsLoading,
         Net!Commits, Net!Loads, Net!LoadsLate, Net!StopsLoading, Net!Crashes,
         Net!Requested, Net!Redirected, Net!Finishes
<1> SUFFICES ChromeTyped' /\ ChannelTyped'
  BY <1>1 DEF IdleTyped
<1>2. ASSUME NEW k \in Kinds, NEW d \in Net!Docs, NEW r \in Requests \cup {Net!NoRequest},
             k = "started" => r \in Requests, NEW level, Net!Emit(level, Net!Event(k, d, r))
      PROVE  ChannelTyped'
  BY <1>2, EventTyped, Appended DEF Net!Emit, IdleTyped, ChannelTyped
<1> USE DEF Net!IdleConstants, IdleTyped, ChromeTyped, Net!Docs
<1>3. CASE Net!StartsLoading
  BY <1>2, <1>3 DEF Net!StartsLoading, Kinds
<1>4. CASE Net!Commits
  <2>1. doc' \in Net!Docs /\ doc' # 0 /\ loading' = "committed" /\ UNCHANGED <<made, domain>>
    BY <1>4 DEF Net!Commits
  <2> QED
    BY <1>2, <1>4, <2>1 DEF Net!Commits, Kinds
<1>5. CASE Net!Loads
  BY <1>2, <1>5 DEF Net!Loads, Kinds
<1>6. CASE Net!LoadsLate
  <2>1. doc - 1 \in Net!Docs
    BY <1>6 DEF Net!LoadsLate
  <2> QED
    BY <1>2, <1>6, <2>1 DEF Net!LoadsLate, Kinds, Net!chrome
<1>7. CASE Net!StopsLoading
  BY <1>2, <1>7 DEF Net!StopsLoading, Kinds
<1>8. ASSUME NEW r \in Requests, NEW d \in Net!Docs, Net!Requested(r,
         d) PROVE ChromeTyped' /\ ChannelTyped'
  BY <1>2, <1>8 DEF Net!Requested, Kinds
<1>9. ASSUME NEW r \in Requests, NEW d \in Net!Docs, Net!Redirected(r,
         d) PROVE ChromeTyped' /\ ChannelTyped'
  BY <1>2, <1>9 DEF Net!Redirected, Kinds, Net!chrome
<1>10. ASSUME NEW r \in Requests, Net!Finishes(r) PROVE ChromeTyped' /\ ChannelTyped'
  BY <1>2, <1>10 DEF Net!Finishes, Kinds
<1>11. CASE Net!Crashes
  BY <1>2, <1>11 DEF Net!Crashes, Kinds
<1> QED
  BY <1>3, <1>4, <1>5, <1>6, <1>7, <1>8, <1>9, <1>10, <1>11 DEF Net!ChromeNext

\* A monitor that fails has a ledger still.
LEMMA FailedTyped ==
  ASSUME NEW l \in Ledgers, Limited(l)
  PROVE  Net!Failed(l) \in Ledgers /\ Limited(Net!Failed(l))
BY DEF Net!Failed, Ledgers, Limited

\* The ledger becomes another, and the waits are woken.
LEMMA BecomesTyped ==
  ASSUME MonitorTyped, NEW l \in Ledgers, Limited(l), Net!Becomes(l), now' = now
  PROVE  MonitorTyped'
<1>1. wait' \in [Waiters -> Calls]
  <2>1. \A w \in Waiters, b \in BOOLEAN : [wait[w] EXCEPT !.woken = b] \in Calls
    BY DEF MonitorTyped, Calls
  <2>2. \A w \in Waiters : (wait[w].pc \in {"check", "asleep"}) \in BOOLEAN
    OBVIOUS
  <2> QED
    BY <2>1, <2>2 DEF Net!Becomes, Net!WokenUp
<1> QED
  BY <1>1 DEF Net!Becomes, MonitorTyped

\* When a wait that sleeps is to wake.
LEMMA WakeTyped ==
  ASSUME Net!IdleConstants,
         MonitorTyped, NEW w \in Waiters
  PROVE  Net!WakeAt(w) \in 0..MaxTime + Timeout
<1>1. /\ wait[w].start \in 0..MaxTime /\ ledger.last \in 0..MaxTime
      /\ MaxTime \in Nat /\ Idle \in Nat /\ Timeout \in Nat
  BY DEF Net!IdleConstants, MonitorTyped, Calls, Ledgers
<1> QED
  BY <1>1 DEF Net!WakeAt, Net!Sooner, Net!Later, Net!QuietSince, Net!Deadline

\* The monitor, its waits and its setup keep the types.
LEMMA MonitorNextTyped ==
  ASSUME Net!IdleConstants
  PROVE  IdleTyped /\ [Net!Next]_Net!vars => IdleTyped'
<1> SUFFICES ASSUME IdleTyped, [Net!Next]_Net!vars PROVE IdleTyped'
  OBVIOUS
<1> USE DEF IdleTyped
<1>1. CASE Net!ChromeNext
  BY <1>1, ChromeNextTyped
<1>2. CASE Net!AnswersNext
  <2>1. /\ MonitorTyped' /\ UNCHANGED <<doc, loading, made, live, cut, fresh, setup, caller,
                                       route, detaching, down>>
        /\ reply' = [reply EXCEPT !.at = "sent"]
        /\ channel' = Append(channel, Net!Event("reply", doc, Net!NoRequest))
        /\ domain' = IF setup \in DOMAIN Net!Level THEN Net!Level[setup] ELSE domain
    BY <1>2 DEF Net!AnswersNext, Net!Answers, Net!monitor, MonitorTyped
  <2>2. domain' \in 0..3
    BY <2>1 DEF ChromeTyped, Net!Level
  <2>3. SetupTyped'
    BY <2>1 DEF SetupTyped
  <2>4. ChannelTyped'
    BY <2>1, EventTyped, Appended DEF ChromeTyped, Kinds
  <2> QED
    BY <2>1, <2>2, <2>3, <2>4 DEF ChromeTyped
<1>3. CASE Net!Deliver
  <2>1. /\ channel # <<>> /\ channel' = Tail(channel)
        /\ UNCHANGED <<Net!chrome, fresh, setup, caller, route, detaching, down, now>>
        /\ reply' \in {reply, [at |-> "here", doc |-> Head(channel).doc]}
        /\ UNCHANGED Net!monitor \/ Net!Becomes(Net!After(ledger, Head(channel)))
    BY <1>3 DEF Net!Deliver
  <2>2. ChannelTyped' /\ Head(channel) \in Events /\ Named(Head(channel))
    BY <2>1, Taken
  <2>3. ChromeTyped'
    BY <2>1 DEF ChromeTyped, Net!chrome
  <2>4. SetupTyped'
    BY <2>1, <2>2 DEF SetupTyped, Events
  <2>5. MonitorTyped'
    <3>1. CASE UNCHANGED Net!monitor
      BY <2>1, <3>1 DEF Net!monitor, MonitorTyped
    <3>2. CASE Net!Becomes(Net!After(ledger, Head(channel)))
      BY <2>1, <2>2, <3>2, LedgerTyped, BecomesTyped DEF MonitorTyped
    <3> QED
      BY <2>1, <3>1, <3>2
  <2> QED
    BY <2>2, <2>3, <2>4, <2>5
<1>4. CASE Net!Lose
  <2>1. /\ UNCHANGED <<Net!chrome, Net!starting, route, detaching, now>>
        /\ down' = TRUE /\ channel' = <<>>
        /\ UNCHANGED Net!monitor \/ Net!Becomes(Net!Failed(ledger))
    BY <1>4 DEF Net!Lose
  <2>2. ChannelTyped' /\ SetupTyped' /\ ChromeTyped'
    BY <2>1 DEF ChannelTyped, SetupTyped, ChromeTyped, Net!chrome, Net!starting
  <2>3. MonitorTyped'
    BY <2>1, FailedTyped, BecomesTyped DEF MonitorTyped, Net!monitor
  <2> QED
    BY <2>2, <2>3
\* What neither Chrome nor the socket sees.
<1>5. ASSUME UNCHANGED <<doc, loading, made, live, cut, channel>>, domain' \in {domain, 0},
             SetupTyped', MonitorTyped'
      PROVE  IdleTyped'
  BY <1>5 DEF ChannelTyped, ChromeTyped
<1>6. CASE Net!SetupNext
  <2>1. /\ UNCHANGED <<Net!chrome, channel, fresh, caller, detaching, down, now>>
        /\ setup' \in Net!CommandSet /\ reply' = [at |-> "asked", doc |-> Net!NoDoc]
        /\ route' \in {route, TRUE} /\ UNCHANGED <<wait, busyAt>>
        /\ ledger' \in {ledger, [ledger EXCEPT !.loader = reply.doc]}
    BY <1>6, CommandNames
       DEF Net!SetupNext, Net!Attached, Net!TreeKnown, Net!Enabled, Net!Ask, Net!monitor
  <2>2. SetupTyped'
    BY <2>1 DEF SetupTyped
  <2>3. /\ [ledger EXCEPT !.loader = reply.doc] \in Ledgers
        /\ Limited([ledger EXCEPT !.loader = reply.doc])
    BY DEF MonitorTyped, SetupTyped, Ledgers, Limited
  <2>4. MonitorTyped'
    BY <2>1, <2>3 DEF MonitorTyped
  <2> QED
    BY <1>5, <2>1, <2>2, <2>4 DEF Net!chrome
<1>7. CASE Net!Armed
  <2> DEFINE l == [ledger EXCEPT !.armed = TRUE, !.trusted = fresh]
  <2>1. /\ UNCHANGED <<Net!chrome, channel, fresh, reply, caller, route, down, now>>
        /\ setup' \in {"owned", "over"} /\ detaching' \in {detaching, "asked"}
        /\ (ledger' = l /\ UNCHANGED <<wait, busyAt>>) \/ Net!Becomes(Net!Failed(l))
    BY <1>7 DEF Net!Armed
  <2>2. SetupTyped'
    BY <2>1 DEF SetupTyped
  <2>3. l \in Ledgers /\ Limited(l)
    BY DEF MonitorTyped, SetupTyped, Ledgers, Limited
  <2> HIDE DEF l
  <2>4. MonitorTyped'
    BY <2>1, <2>3, FailedTyped, BecomesTyped DEF MonitorTyped
  <2> QED
    BY <1>5, <2>1, <2>2, <2>4 DEF Net!chrome
\* The monitor fails, or stays as it is.
<1>8. ASSUME now' = now,
         UNCHANGED Net!monitor \/ Net!Becomes(Net!Failed(ledger)) PROVE MonitorTyped'
  BY <1>8, FailedTyped, BecomesTyped DEF MonitorTyped, Net!monitor
<1>9. CASE Net!SetupFails
  <2>1. SetupTyped' /\ MonitorTyped'
    BY <1>8, <1>9 DEF Net!SetupFails, Net!Dropped, SetupTyped
  <2> QED
    BY <1>5, <1>9, <2>1 DEF Net!SetupFails, Net!chrome
<1>10. CASE Net!CallerGone
  <2>1. SetupTyped' /\ MonitorTyped'
    BY <1>8, <1>10 DEF Net!CallerGone, Net!Gone, SetupTyped
  <2> QED
    BY <1>5, <1>10, <2>1 DEF Net!CallerGone, Net!chrome
<1>11. CASE Net!MonitorDrop
  <2>1. SetupTyped' /\ MonitorTyped'
    BY <1>8, <1>11 DEF Net!MonitorDrop, Net!Dropped, SetupTyped
  <2> QED
    BY <1>5, <1>11, <2>1 DEF Net!MonitorDrop, Net!chrome
<1>12. CASE Net!DetachEnds
  <2>1. SetupTyped' /\ MonitorTyped'
    BY <1>8, <1>12 DEF Net!DetachEnds, SetupTyped, Net!starting
  <2> QED
    BY <1>5, <1>12, <2>1 DEF Net!DetachEnds
<1>13. CASE Net!TargetClosed
  <2>1. SetupTyped' /\ MonitorTyped'
    BY <1>8, <1>13 DEF Net!TargetClosed, SetupTyped, Net!starting
  <2> QED
    BY <1>5, <1>13, <2>1 DEF Net!TargetClosed, Net!chrome
<1>14. CASE Net!WaitNext
  <2>1. /\ UNCHANGED <<Net!chrome, channel, Net!starting, route, ledger, busyAt, detaching,
                       down, now>>
        /\ \E w \in Waiters : Net!BeginWait(w) \/ Net!Check(w) \/ Net!Wakes(w) \/ Net!GiveUp(w)
    BY <1>14 DEF Net!WaitNext
  <2>2. SetupTyped'
    BY <2>1 DEF SetupTyped, Net!starting
  <2>3. wait' \in [Waiters -> Calls]
    <3>1. PICK w \in Waiters : Net!BeginWait(w) \/ Net!Check(w) \/ Net!Wakes(w) \/ Net!GiveUp(w)
      BY <2>1
    <3>2. \A p \in {"check", "idle", "failed"}, t \in 0..MaxTime : Net!Call(p, t) \in Calls
      BY DEF Net!IdleConstants, Net!Call, Calls
    <3>3. /\ 0 \in 0..MaxTime /\ now \in 0..MaxTime /\ wait[w] \in Calls
          /\ Net!WakeAt(w) \in 0..MaxTime + Timeout
      BY WakeTyped DEF Net!IdleConstants, MonitorTyped
    <3>4. CASE Net!BeginWait(w) \/ Net!GiveUp(w)
      BY <3>2, <3>3, <3>4 DEF Net!BeginWait, Net!GiveUp, MonitorTyped
    <3>5. CASE Net!Check(w)
      <4>1. [wait[w] EXCEPT !.pc = "asleep", !.wake = Net!WakeAt(w)] \in Calls
        BY <3>3 DEF Calls
      <4>2. \E c \in Calls : wait' = [wait EXCEPT ![w] = c]
        BY <3>2, <3>3, <3>5, <4>1 DEF Net!Check, MonitorTyped
      <4> QED
        BY <4>2 DEF MonitorTyped
    <3>6. CASE Net!Wakes(w)
      <4>1. \A b \in BOOLEAN : [wait[w] EXCEPT !.pc = "check", !.woken = b] \in Calls
        BY <3>3 DEF Calls
      <4>2. \E b \in BOOLEAN :
              wait' = [wait EXCEPT ![w] = [wait[w] EXCEPT !.pc = "check", !.woken = b]]
        BY <3>3, <3>6 DEF Net!Wakes, MonitorTyped, Calls
      <4> QED
        BY <4>1, <4>2 DEF MonitorTyped
    <3> QED
      BY <3>1, <3>4, <3>5, <3>6
  <2>4. MonitorTyped'
    BY <2>1, <2>3 DEF MonitorTyped
  <2> QED
    BY <1>5, <2>1, <2>2, <2>4 DEF Net!chrome
<1>15. CASE Net!Tick
  <2>1. SetupTyped'
    BY <1>15 DEF Net!Tick, SetupTyped, Net!starting
  <2>2. now' \in 0..MaxTime
    BY <1>15 DEF Net!IdleConstants, Net!Tick, MonitorTyped
  <2>3. MonitorTyped'
    BY <1>15, <2>2 DEF Net!Tick, MonitorTyped
  <2> QED
    BY <1>5, <1>15, <2>1, <2>3 DEF Net!Tick, Net!chrome
<1>16. CASE Net!Ended \/ UNCHANGED Net!vars
  BY <1>16 DEF Net!Ended, Net!vars, Net!chrome, Net!starting, Net!monitor, ChromeTyped,
     ChannelTyped, SetupTyped, MonitorTyped
<1> QED
  BY <1>1, <1>2, <1>3, <1>4, <1>6, <1>7, <1>9, <1>10, <1>11, <1>12, <1>13, <1>14, <1>15, <1>16
     DEF Net!Next

\* Every reachable state has its types, and the ledger stays within its limit.
THEOREM TypesHold ==
  ASSUME Net!IdleConstants
  PROVE  Net!Spec => []IdleTyped
<1>1. Net!Init => IdleTyped
  <2> SUFFICES ASSUME Net!Init PROVE IdleTyped
    OBVIOUS
  <2>1. ChromeTyped /\ ChannelTyped
    BY DEF Net!IdleConstants, Net!Init, ChromeTyped, ChannelTyped, Net!Docs
  <2>2. SetupTyped
    BY CommandNames DEF Net!Init, SetupTyped
  <2>3. 0 \in 0..MaxTime /\ 0 \in 0..MaxTime + Timeout
    BY DEF Net!IdleConstants
  <2>4. ledger \in Ledgers
    BY <2>3 DEF Net!Init, Ledgers
  <2>5. IsFiniteSet(ledger.active) /\ Cardinality(ledger.active) = 0
    BY FS_EmptySet DEF Net!Init
  <2>6. wait \in [Waiters -> Calls]
    BY <2>3 DEF Net!Init, Net!Call, Calls
  <2> QED
    BY <2>1, <2>2, <2>3, <2>4, <2>5, <2>6
       DEF Net!IdleConstants, Net!Init, IdleTyped, MonitorTyped, Limited
<1> QED
  BY <1>1, MonitorNextTyped, PTL DEF Net!Spec

-----------------------------------------------------------------------------
(* What a wait sleeps on.                                                   *)

Waits(w) == wait[w].pc \in {"check", "asleep"}

\* A sleeping wait is about to be woken, or its timer is the one the ledger of now asks for.
Grounded(w) ==
  wait[w].pc = "asleep" /\ ~wait[w].woken =>
    ~ledger.failed /\ ledger.trusted /\ wait[w].wake = Net!WakeAt(w)

\* Only an owned monitor is waited for, and its route is there to tell it of a loss. A loss
\* that found no route yet stops the task that sets the monitor up.
WaitInv ==
  /\ setup # "owned" => \A w \in Waiters : ~Waits(w)
  /\ setup \in {"tree", "page", "lifecycle", "network", "owned"} => route
  /\ detaching = "asked" => setup = "over"
  /\ down => \/ ledger.failed \/ setup \in {"attach", "over"}
             \/ setup = "tree" /\ reply.at = "asked"
  /\ \A w \in Waiters : Grounded(w)

\* What leaves the monitor and its owners alone.
LEMMA WaitsStay ==
  ASSUME WaitInv, UNCHANGED <<setup, route, detaching, ledger, wait>>, down => UNCHANGED reply,
         down' = down
  PROVE  WaitInv'
BY DEF WaitInv, Waits, Grounded, Net!WakeAt, Net!QuietSince, Net!Deadline

\* Whoever sleeps is woken by every change of the ledger.
LEMMA AllWoken ==
  ASSUME MonitorTyped, NEW l, Net!Becomes(l)
  PROVE  \A w \in Waiters : Grounded(w)' /\ (Waits(w)' <=> Waits(w))
<1>1. \A w \in Waiters : wait'[w] = [wait[w] EXCEPT !.woken = wait[w].pc \in {"check", "asleep"}]
  BY DEF Net!Becomes, Net!WokenUp
<1>2. \A w \in Waiters : wait'[w].pc = wait[w].pc /\ (wait'[w].woken <=> Waits(w))
  BY <1>1 DEF MonitorTyped, Calls, Waits
<1> QED
  BY <1>2 DEF Grounded, Waits

\* Whoever changes the ledger wakes the waits.
LEMMA WaitsNext == IdleTyped /\ WaitInv /\ [Net!Next]_Net!vars => WaitInv'
<1> SUFFICES ASSUME IdleTyped, WaitInv, [Net!Next]_Net!vars PROVE WaitInv'
  OBVIOUS
<1>0. MonitorTyped /\ SetupTyped /\ ledger \in Ledgers
  BY DEF IdleTyped, MonitorTyped
<1>1. CASE Net!ChromeNext
  BY <1>1, WaitsStay DEF Net!ChromeNext, Net!starting, Net!monitor
<1>2. CASE Net!AnswersNext
  BY <1>2, WaitsStay DEF Net!AnswersNext, Net!Answers, Net!monitor
<1>3. CASE Net!Deliver
  <2>1. /\ ~down /\ UNCHANGED <<setup, route, detaching, down>>
        /\ UNCHANGED Net!monitor \/ \E l : Net!Becomes(l)
    BY <1>3 DEF Net!Deliver
  <2>2. CASE UNCHANGED Net!monitor
    BY <2>1, <2>2, WaitsStay DEF Net!monitor
  <2>3. ASSUME NEW l, Net!Becomes(l) PROVE WaitInv'
    BY <1>0, <2>1, <2>3, AllWoken DEF WaitInv
  <2> QED
    BY <2>1, <2>2, <2>3
<1>4. CASE Net!Lose
  <2>1. UNCHANGED <<setup, route, detaching, reply>> /\ ~down /\ down' = TRUE
    BY <1>4 DEF Net!Lose, Net!starting
  <2>2. CASE route
    <3>1. Net!Becomes(Net!Failed(ledger)) /\ ledger'.failed
      BY <1>0, <1>4, <2>2 DEF Net!Lose, Net!Becomes, Net!Failed, Ledgers
    <3> QED
      BY <1>0, <2>1, <3>1, AllWoken DEF WaitInv
  <2>3. CASE ~route
    <3>1. UNCHANGED <<ledger, wait>> /\ setup \in {"attach", "over"}
      BY <1>0, <1>4, <2>3, CommandNames DEF Net!Lose, Net!monitor, WaitInv, SetupTyped
    <3> QED
      BY <2>1, <3>1 DEF WaitInv, Waits, Grounded, Net!WakeAt, Net!QuietSince, Net!Deadline
  <2> QED
    BY <2>2, <2>3
<1>5. CASE Net!SetupNext
  <2>1. /\ reply.at = "here" /\ UNCHANGED <<detaching, down, wait>>
        /\ setup \in {"attach", "tree", "page", "lifecycle"}
        /\ setup' \in {"tree", "page", "lifecycle", "network"} /\ reply'.at = "asked"
        /\ setup = "attach" => setup' = "tree" /\ route' = TRUE
        /\ setup # "attach" => route' = route
        /\ ledger' \in {ledger, [ledger EXCEPT !.loader = reply.doc]}
    BY <1>5 DEF Net!SetupNext, Net!Attached, Net!TreeKnown, Net!Enabled, Net!Ask, Net!monitor
  <2>2. ledger'.failed = ledger.failed
    BY <1>0, <2>1 DEF Ledgers
  <2>3. \A w \in Waiters : ~Waits(w)'
    BY <2>1 DEF WaitInv, Waits
  <2> QED
    BY <2>1, <2>2, <2>3 DEF WaitInv, Grounded, Waits
\* A monitor that is dropped, closed or never handed over fails.
<1>6. ASSUME NEW l \in Ledgers, Net!Becomes(Net!Failed(l)), UNCHANGED <<reply, down>>,
             setup' = "owned" => setup = "owned" /\ UNCHANGED <<route, detaching>>,
             setup' \in {"owned", "over"}, \A w \in Waiters : Waits(w) => setup' = "owned"
      PROVE  WaitInv'
  <2>1. ledger'.failed
    BY <1>6 DEF Net!Becomes, Net!Failed, Ledgers
  <2>2. setup' = "owned" => route' /\ detaching' # "asked"
    BY <1>6 DEF WaitInv
  <2>3. setup' \notin {"tree", "page", "lifecycle", "network"}
    BY <1>6
  <2> QED
    BY <1>0, <1>6, <2>1, <2>2, <2>3, AllWoken DEF WaitInv
<1>7. CASE Net!Armed
  <2> DEFINE l == [ledger EXCEPT !.armed = TRUE, !.trusted = fresh]
  <2>1. l \in Ledgers /\ l.failed = ledger.failed
    BY <1>0 DEF Ledgers, SetupTyped
  <2>2. setup = "network" /\ UNCHANGED <<reply, down, route>> /\ \A w \in Waiters : ~Waits(w)
    BY <1>7 DEF Net!Armed, WaitInv
  <2>3. CASE setup' = "owned" /\ ledger' = l /\ UNCHANGED <<wait, busyAt, detaching>>
    BY <2>1, <2>2, <2>3 DEF WaitInv, Waits, Grounded
  <2>4. CASE setup' = "over" /\ Net!Becomes(Net!Failed(l))
    <3> HIDE DEF l
    <3> QED
      BY <1>6, <2>1, <2>2, <2>4
  <2> QED
    BY <1>7, <2>3, <2>4 DEF Net!Armed
<1>8. CASE Net!SetupFails
  <2>1. /\ setup # "owned" /\ setup' = "over" /\ UNCHANGED <<reply, down, route>>
        /\ \A w \in Waiters : ~Waits(w)
    BY <1>8, CommandNames DEF Net!SetupFails, Net!Dropped, WaitInv
  <2>2. CASE UNCHANGED Net!monitor
    BY <2>1, <2>2 DEF WaitInv, Waits, Grounded, Net!monitor
  <2>3. CASE Net!Becomes(Net!Failed(ledger))
    BY <1>0, <1>6, <2>1, <2>3
  <2> QED
    BY <1>8, <2>2, <2>3 DEF Net!SetupFails, Net!Dropped
<1>9. CASE Net!CallerGone
  BY <1>9, WaitsStay DEF Net!CallerGone, Net!Gone, Net!monitor
<1>10. CASE Net!MonitorDrop
  <2>1. /\ setup' = "over" /\ Net!Becomes(Net!Failed(ledger)) /\ UNCHANGED <<reply, down>>
        /\ \A w \in Waiters : ~Waits(w)
    BY <1>10 DEF Net!MonitorDrop, Net!Dropped, Waits
  <2> QED
    BY <1>0, <1>6, <2>1
<1>11. CASE Net!DetachEnds
  BY <1>11 DEF Net!DetachEnds, Net!starting, Net!monitor, WaitInv, Waits, Grounded, Net!WakeAt,
     Net!QuietSince, Net!Deadline
<1>12. CASE Net!TargetClosed
  BY <1>0, <1>6, <1>12 DEF Net!TargetClosed, Net!starting
<1>13. CASE Net!WaitNext
  <2>1. /\ UNCHANGED <<setup, reply, route, ledger, detaching, down, now>>
        /\ \E w \in Waiters : Net!BeginWait(w) \/ Net!Check(w) \/ Net!Wakes(w) \/ Net!GiveUp(w)
    BY <1>13 DEF Net!WaitNext, Net!starting
  <2>2. PICK w \in Waiters : Net!BeginWait(w) \/ Net!Check(w) \/ Net!Wakes(w) \/ Net!GiveUp(w)
    BY <2>1
  <2>3. /\ \A v \in Waiters \ {w} : wait'[v] = wait[v]
        /\ Net!BeginWait(w) => setup = "owned"
        /\ Net!Check(w) \/ Net!Wakes(w) => Waits(w)
    BY <1>0, <2>2 DEF Net!BeginWait, Net!Check, Net!Wakes, Net!GiveUp, Waits, MonitorTyped
  <2>4. wait'[w].pc # "asleep" \/ Net!Check(w)
    BY <1>0, <2>2 DEF Net!BeginWait, Net!Wakes, Net!GiveUp, Net!Call, MonitorTyped, Calls
  <2>5. wait'[w].pc \in {"check", "asleep"} => setup = "owned"
    BY <1>0, <2>2, <2>3 DEF WaitInv, Net!GiveUp, Net!Call, MonitorTyped
  <2>6. Grounded(w)'
    <3>1. CASE Net!Check(w) /\ wait'[w].pc = "asleep"
      <4>1. /\ ~ledger.failed /\ ledger.trusted
            /\ wait'[w] = [wait[w] EXCEPT !.pc = "asleep", !.wake = Net!WakeAt(w)]
        <5> DEFINE refused == ledger.failed \/ ~ledger.trusted \/ Net!Expired(w)
                   asleep == [wait[w] EXCEPT !.pc = "asleep", !.wake = Net!WakeAt(w)]
        <5>1. \/ \E p \in {"failed", "idle"} : wait' = [wait EXCEPT ![w] = Net!Call(p, 0)]
              \/ ~refused /\ wait' = [wait EXCEPT ![w].pc = "asleep", ![w].wake = Net!WakeAt(w)]
          BY <3>1 DEF Net!Check
        <5>2. ASSUME NEW p \in {"failed", "idle"}, wait' = [wait EXCEPT ![w] = Net!Call(p, 0)]
              PROVE  FALSE
          BY <1>0, <3>1, <5>2 DEF Net!Call, MonitorTyped
        <5>3. ~refused /\ wait' = [wait EXCEPT ![w].pc = "asleep", ![w].wake = Net!WakeAt(w)]
          BY <5>1, <5>2
        <5>4. wait'[w] = asleep
          BY <1>0, <5>3 DEF MonitorTyped
        <5> QED
          BY <5>3, <5>4
      <4>2. wait'[w].wake = Net!WakeAt(w) /\ wait'[w].start = wait[w].start
        BY <1>0, <4>1 DEF MonitorTyped, Calls
      <4> QED
        BY <2>1, <4>1, <4>2 DEF Grounded, Net!WakeAt, Net!QuietSince, Net!Deadline
    <3> QED
      BY <2>4, <3>1 DEF Grounded
  <2>7. \A v \in Waiters \ {w} : Grounded(v)'
    BY <2>1, <2>3 DEF WaitInv, Grounded, Net!WakeAt, Net!QuietSince, Net!Deadline
  <2>8. setup' # "owned" => \A v \in Waiters : ~Waits(v)'
    BY <2>1, <2>3, <2>5 DEF WaitInv, Waits
  <2> QED
    BY <2>1, <2>6, <2>7, <2>8 DEF WaitInv
<1>14. CASE Net!Tick
  BY <1>14, WaitsStay DEF Net!Tick, Net!starting
<1>15. CASE Net!Ended \/ UNCHANGED Net!vars
  BY <1>15, WaitsStay DEF Net!Ended, Net!vars, Net!starting, Net!monitor
<1> QED
  BY <1>1, <1>2, <1>3, <1>4, <1>5, <1>7, <1>8, <1>9, <1>10, <1>11, <1>12, <1>13, <1>14, <1>15
     DEF Net!Next

\* Nobody waits at first.
LEMMA WaitsInit == Net!Init => WaitInv
<1> SUFFICES ASSUME Net!Init PROVE WaitInv
  OBVIOUS
<1>1. \A w \in Waiters : wait[w].pc = "none"
  BY DEF Net!Init, Net!Call
<1> QED
  BY <1>1 DEF Net!Init, WaitInv, Waits, Grounded

\* A wait that sleeps unwoken sleeps on the ledger of now: nothing has failed, the monitor is
\* trusted and the timer is the one that ledger asks for, for any numbers of waiters, requests
\* and documents (wake, changed, disconnect, wait).
THEOREM SleepsTrue == Net!Spec => []SleepsOnTheTruth
<1>1. IdleTyped /\ WaitInv => SleepsOnTheTruth
  <2> SUFFICES ASSUME IdleTyped, WaitInv PROVE SleepsOnTheTruth
    OBVIOUS
  <2>1. Net!TypeOK
    BY TypesMean
  <2>2. ASSUME NEW w \in Waiters, wait[w].pc = "asleep", ~wait[w].woken
        PROVE  ~down /\ ~ledger.failed /\ ledger.trusted /\ wait[w].wake = Net!WakeAt(w)
    <3>1. setup = "owned"
      BY <2>2 DEF WaitInv, Waits
    <3>2. ~ledger.failed /\ ledger.trusted /\ wait[w].wake = Net!WakeAt(w)
      BY <2>2 DEF WaitInv, Grounded
    <3> QED
      BY <3>1, <3>2 DEF WaitInv
  <2> QED
    BY <2>1, <2>2 DEF SleepsOnTheTruth, Net!SleepsOnTheTruth
<1> QED
  BY <1>1, WaitsInit, TypesHold, WaitsNext, IdleAssumption, PTL DEF Net!Spec

-----------------------------------------------------------------------------
(* What a wait that succeeds says of Chrome.                                *)

\* While the monitor is served and nothing has failed.
Sound ==
  /\ setup # "over" /\ ~ledger.failed /\ ~down
  /\ \A i \in DOMAIN channel : channel[i].ev # "crashed"

\* Nothing is shown before the session's first domain is enabled.
Unenabled ==
  setup \in {"attach", "tree"} =>
    domain = 0 /\ \A i \in DOMAIN channel : channel[i].ev = "reply"

\* The events of a document come before the commit of a later one,
Before(e, d) ==
  /\ e.ev \in {"navigated", "reply"} => e.doc < d
  /\ e.ev = "started" => e.doc <= d

\* and so does what the monitor has made of them.
Past(d) ==
  /\ setup \notin {"attach", "tree"} => ledger.loader < d
  /\ reply.at = "here" => reply.doc < d
  /\ \A x \in ledger.active : x[2] <= d

Ordered ==
  /\ Past(doc + 1) /\ \A i \in DOMAIN channel : Before(channel[i], doc + 1)
  /\ \A k \in DOMAIN channel : channel[k].ev = "navigated" =>
       /\ Past(channel[k].doc)
       /\ \A i \in DOMAIN channel : i < k => Before(channel[i], channel[k].doc)

\* A request runs for the top document or the next; one whose end was announced is over.
RequestsTrue ==
  /\ cut \subseteq made
  /\ \A x \in live : x[1] \in made /\ x[2] \in {doc, doc + 1} /\ (x[2] # doc => domain = 3)
  /\ \A x, y \in live : x[1] = y[1] => x = y
  /\ \A i \in DOMAIN channel : channel[i].ev \in {"started", "ended"} =>
       /\ channel[i].req \in made
       /\ \A x \in live : x[1] = channel[i].req =>
            channel[i].ev = "started" /\ x[2] = channel[i].doc

\* Requests are announced from the moment Chrome has carried out the last command.
Listening == setup = "owned" \/ (setup = "network" /\ reply.at # "asked")
Phases ==
  /\ domain = 3 <=> Listening
  /\ setup = "owned" => reply.at = "here"
  /\ fresh /\ setup # "owned" => live = {} /\ loading = "no"
  /\ \A i \in DOMAIN channel : channel[i].ev = "reply" =>
       reply.at = "sent" /\ \A k \in DOMAIN channel : channel[k].ev = "reply" => i = k

\* The document of that moment; those after it were seen from their commit on.
Floors ==
  IF ~Listening THEN {}
  ELSE IF reply.at = "here" THEN {reply.doc}
  ELSE {channel[i].doc : i \in {k \in DOMAIN channel : channel[k].ev = "reply"}}
Seen(d) == \E F \in Floors : fresh \/ d > F

\* A request that runs for a document that was seen is in the ledger, or about to be.
Covered(x) ==
  \/ x \in ledger.active
  \/ \E i \in DOMAIN channel :
       channel[i].ev = "started" /\ channel[i].doc = x[2] /\ channel[i].req = x[1]
AllCovered == \A x \in live : Seen(x[2]) => Covered(x)

\* A load under way is announced, and nothing after the announcement ends it.
Settles(e) == e.ev = "stopped" \/ (e.ev = "load" /\ (loading = "committed" => e.doc = doc))
Begins(e) ==
  IF loading = "committed" THEN e.ev = "navigated" /\ e.doc = doc ELSE e.ev = "loading"
Unsettled(n) == \A i \in DOMAIN channel : i > n => ~Settles(channel[i])
LoadTrue ==
  Seen(doc) /\ loading \in {"provisional", "committed"} =>
    \/ \E i \in DOMAIN channel : Begins(channel[i]) /\ Unsettled(i)
    \/ ~ledger.loaded /\ (loading = "committed" => ledger.loader = doc) /\ Unsettled(0)

\* What is trusted was navigated to since.
TrustTrue == setup = "owned" /\ ledger.trusted => fresh \/ ledger.loader > reply.doc

Truth == Ordered /\ RequestsTrue /\ Phases /\ AllCovered /\ LoadTrue /\ TrustTrue
TruthInv == Unenabled /\ (Sound => Truth)

\* The ledger has been idle since its last event.
QuietInv == busyAt <= now /\ (~ledger.failed /\ Net!IsIdle(ledger) => busyAt <= ledger.last)

\* At most one event arrives.
Arrives(e) == channel' \in {channel, Append(channel, e)}

\* An event that arrives is the last of the socket, and the others keep their places.
LEMMA Arrival ==
  ASSUME ChannelTyped, NEW e \in Events, Arrives(e)
  PROVE  /\ DOMAIN channel = 1..Len(channel) /\ Len(channel) \in Nat
         /\ DOMAIN channel \subseteq DOMAIN channel'
         /\ \A k \in DOMAIN channel : channel'[k] = channel[k]
         /\ \A k \in DOMAIN channel' \ DOMAIN channel : k = Len(channel) + 1 /\ channel'[k] = e
<1>1. channel \in Seq(Events)
  BY DEF ChannelTyped
<1>2. CASE channel' = channel
  BY <1>1, <1>2
<1>3. CASE channel' = Append(channel, e)
  <2>1. DOMAIN channel' = 1..Len(channel) + 1 /\ channel'[Len(channel) + 1] = e
    BY <1>1, <1>3
  <2>2. \A k \in 1..Len(channel) : channel'[k] = channel[k]
    BY <1>1, <1>3
  <2> QED
    BY <1>1, <2>1, <2>2
<1> QED
  BY <1>2, <1>3 DEF Arrives

\* The next one is taken.
LEMMA Departure ==
  ASSUME ChannelTyped, channel # <<>>, channel' = Tail(channel)
  PROVE  /\ 1 \in DOMAIN channel /\ Head(channel) = channel[1] /\ Head(channel) \in Events
         /\ DOMAIN channel \subseteq Nat \ {0}
         /\ \A k \in DOMAIN channel' : k + 1 \in DOMAIN channel /\ channel'[k] = channel[k + 1]
         /\ \A k \in DOMAIN channel : k # 1 => k - 1 \in DOMAIN channel' /\ channel'[k - 1] = channel[k]
<1>1. channel \in Seq(Events) /\ Len(channel) \in Nat /\ Len(channel) > 0
  BY DEF ChannelTyped
<1>2. Len(channel') = Len(channel) - 1 /\ DOMAIN channel' = 1..Len(channel) - 1
  BY <1>1
<1>3. \A k \in 1..Len(channel) - 1 : channel'[k] = channel[k + 1]
  BY <1>1
<1>4. Head(channel) = channel[1] /\ channel[1] \in Events
  BY <1>1
<1> QED
  BY <1>1, <1>2, <1>3, <1>4

\* What happens to a monitor that is served and sound: its ledger is not failed by a step.
LEMMA SoundBefore ==
  ASSUME IdleTyped, WaitInv, Unenabled, [Net!Next]_Net!vars, Sound'
  PROVE  Sound
<1>0. ChannelTyped /\ MonitorTyped /\ SetupTyped /\ ledger \in Ledgers
  BY DEF IdleTyped, MonitorTyped
<1>1. setup # "over"
  BY CommandNames DEF Sound, Net!Next, Net!ChromeNext, Net!AnswersNext, Net!Answers, Net!Deliver, Net!Lose,
     Net!SetupNext, Net!Attached, Net!TreeKnown, Net!Enabled, Net!Ask, Net!Armed, Net!SetupFails,
     Net!CallerGone, Net!MonitorDrop, Net!DetachEnds, Net!TargetClosed, Net!WaitNext, Net!Tick,
     Net!Ended, Net!vars, Net!starting, Net!Gone
<1>2. ~down
  BY DEF Sound, Net!Next, Net!ChromeNext, Net!AnswersNext, Net!Deliver, Net!Lose,
     Net!SetupNext, Net!Armed, Net!SetupFails,
     Net!CallerGone, Net!MonitorDrop, Net!DetachEnds, Net!TargetClosed, Net!WaitNext, Net!Tick,
     Net!Ended, Net!vars
<1>3. ~ledger.failed
  <2> SUFFICES ASSUME ledger.failed PROVE FALSE
    OBVIOUS
  <2>1. ~ledger'.failed
    BY DEF Sound
  <2>2. \A l \in Ledgers : Net!Failed(l).failed /\ Net!Failed(l) \in Ledgers
    BY DEF Net!Failed, Ledgers
  <2>3. \A l : Net!Becomes(l) => ledger' = l
    BY DEF Net!Becomes
  <2>4. [ledger EXCEPT !.armed = TRUE, !.trusted = fresh].failed = ledger.failed
    BY <1>0 DEF Ledgers
  <2>5. [ledger EXCEPT !.armed = TRUE, !.trusted = fresh] \in Ledgers
    BY <1>0 DEF Ledgers, SetupTyped
  <2>6. [ledger EXCEPT !.loader = reply.doc].failed = ledger.failed
    BY <1>0 DEF Ledgers
  <2>7. \A e : ~Net!Heeded(ledger, e)
    BY DEF Net!Heeded
  <2>8. CASE Net!Armed
    BY <2>1, <2>2, <2>3, <2>4, <2>5, <2>8 DEF Net!Armed
  <2>9. CASE Net!Deliver
    BY <2>1, <2>7, <2>9 DEF Net!Deliver, Net!monitor
  <2>10. CASE Net!SetupNext
    BY <2>1, <2>6, <2>10 DEF Net!SetupNext, Net!Attached, Net!TreeKnown, Net!Enabled, Net!monitor
  <2>11. CASE Net!SetupFails \/ Net!MonitorDrop \/ Net!TargetClosed \/ Net!Lose
    BY <1>0, <2>1, <2>2, <2>3, <2>11
       DEF Net!SetupFails, Net!Dropped, Net!MonitorDrop, Net!TargetClosed, Net!Lose, Net!monitor
  <2> QED
    BY <2>1, <2>8, <2>9, <2>10, <2>11 DEF Net!Next, Net!ChromeNext, Net!AnswersNext, Net!CallerGone,
       Net!DetachEnds, Net!WaitNext, Net!Tick, Net!Ended, Net!vars, Net!monitor
<1>4. ASSUME NEW i \in DOMAIN channel, channel[i].ev = "crashed" PROVE FALSE
  <2>1. CASE Net!ChromeNext \/ Net!AnswersNext
    <3>1. \E e \in Events : Arrives(e)
      <4>1. CASE channel' = channel
        <5>1. Net!Event("reply", 0, Net!NoRequest) \in Events
          BY IdleAssumption DEF Net!IdleConstants, Net!Event, Events, Kinds, Net!Docs
        <5> QED
          BY <4>1, <5>1 DEF Arrives
      <4>2. CASE channel' # channel
        <5>1. ChannelTyped'
          BY IdleAssumption, MonitorNextTyped DEF IdleTyped
        <5>2. \E e : channel' = Append(channel, e)
          BY <2>1, <4>2 DEF Net!ChromeNext, Net!StartsLoading, Net!Commits, Net!Loads, Net!LoadsLate,
             Net!StopsLoading, Net!Crashes, Net!Requested, Net!Redirected, Net!Finishes, Net!Emit,
             Net!AnswersNext, Net!Answers
        <5>3. PICK e : channel' = Append(channel, e)
          BY <5>2
        <5>4. Len(channel) \in Nat /\ Len(channel') = Len(channel) + 1
              /\ channel'[Len(channel) + 1] = e
          BY <1>0, <5>3 DEF ChannelTyped
        <5>5. e \in Events
          BY <5>1, <5>4 DEF ChannelTyped
        <5> QED
          BY <5>3, <5>5 DEF Arrives
      <4> QED
        BY <4>1, <4>2
    <3> QED
      BY <1>0, <1>4, <3>1, Arrival DEF Sound
  <2>2. CASE Net!Deliver
    <3>1. channel # <<>> /\ channel' = Tail(channel) /\ route' = route
      BY <2>2 DEF Net!Deliver
    <3>2. i = 1
      BY <1>0, <1>4, <3>1, Departure DEF Sound
    <3>3. Head(channel).ev = "crashed"
      BY <1>0, <1>4, <3>1, <3>2, Departure
    <3>4. route
      BY <1>0, <1>1, <1>4, CommandNames DEF Unenabled, WaitInv, SetupTyped
    <3>5. Net!Heeded(ledger, Head(channel))
      BY <1>3, <3>3 DEF Net!Heeded
    <3>6. ledger' = Net!After(ledger, Head(channel))
      BY <2>2, <3>3, <3>4, <3>5 DEF Net!Deliver, Net!Becomes
    <3>7. ledger'.failed
      BY <1>0, <3>3, <3>6 DEF Net!After, Net!Failed, Ledgers
    <3> QED
      BY <3>7 DEF Sound
  <2>3. CASE Net!Lose
    BY <2>3 DEF Net!Lose, Sound
  <2> QED
    <3>1. channel' # channel
      BY <1>4 DEF Sound
    <3> QED
      BY <2>1, <2>2, <2>3, <3>1 DEF Net!Next, Net!SetupNext, Net!Armed, Net!SetupFails,
         Net!CallerGone, Net!MonitorDrop, Net!DetachEnds, Net!TargetClosed, Net!WaitNext, Net!Tick,
         Net!Ended, Net!vars
<1> QED
  BY <1>1, <1>2, <1>3, <1>4 DEF Sound

\* Nothing is shown before it is enabled.
LEMMA UnenabledNext ==
  ASSUME IdleTyped, Unenabled, [Net!Next]_Net!vars
  PROVE  Unenabled'
<1> SUFFICES ASSUME setup' \in {"attach", "tree"}
             PROVE  domain' = 0 /\ \A i \in DOMAIN channel' : channel'[i].ev = "reply"
  BY DEF Unenabled
<1>0. ChannelTyped /\ SetupTyped /\ channel \in Seq(Events)
  BY DEF IdleTyped, ChannelTyped
<1>1. setup \in {"attach", "tree"}
  BY CommandNames DEF Net!Next, Net!ChromeNext, Net!AnswersNext, Net!Answers, Net!Deliver, Net!Lose,
     Net!SetupNext, Net!Attached, Net!TreeKnown, Net!Enabled, Net!Ask, Net!Armed, Net!SetupFails,
     Net!Dropped, Net!CallerGone, Net!MonitorDrop, Net!DetachEnds, Net!TargetClosed, Net!WaitNext,
     Net!Tick, Net!Ended, Net!vars, Net!starting, Net!Gone
<1>2. domain = 0 /\ \A i \in DOMAIN channel : channel[i].ev = "reply"
  BY <1>1 DEF Unenabled
<1>3. CASE Net!ChromeNext
  <2>1. ASSUME NEW level \in {1, 2, 3}, NEW e, Net!Emit(level, e) PROVE UNCHANGED channel
    BY <1>2, <2>1 DEF Net!Emit
  <2>2. \E level \in {1, 2, 3} : \E e : Net!Emit(level, e)
    BY <1>3 DEF Net!ChromeNext, Net!StartsLoading, Net!Commits, Net!Loads, Net!LoadsLate,
       Net!StopsLoading, Net!Crashes, Net!Requested, Net!Redirected, Net!Finishes
  <2>3. UNCHANGED domain
    BY <1>2, <1>3 DEF Net!ChromeNext, Net!StartsLoading, Net!Commits, Net!Loads, Net!LoadsLate,
       Net!StopsLoading, Net!Crashes, Net!Requested, Net!Redirected, Net!Finishes, Net!chrome
  <2>4. UNCHANGED <<channel, domain>>
    BY <2>1, <2>2, <2>3
  <2> QED
    BY <1>2, <2>4
<1>4. CASE Net!AnswersNext
  <2>1. /\ domain' = domain
        /\ channel' = Append(channel, Net!Event("reply", doc, Net!NoRequest))
    BY <1>1, <1>4 DEF Net!AnswersNext, Net!Answers, Net!Level
  <2>2. Net!Event("reply", doc, Net!NoRequest).ev = "reply"
    BY DEF Net!Event
  <2> QED
    BY <1>0, <1>2, <2>1, <2>2
<1>5. CASE Net!Deliver
  <2>1. domain' = domain /\ channel # <<>> /\ channel' = Tail(channel)
    BY <1>5 DEF Net!Deliver, Net!chrome
  <2> QED
    BY <1>0, <1>2, <2>1, Departure
<1>6. CASE Net!Lose
  BY <1>2, <1>6 DEF Net!Lose, Net!chrome
<1> QED
  BY <1>2, <1>3, <1>4, <1>5, <1>6 DEF Net!Next, Net!SetupNext, Net!Armed, Net!SetupFails,
     Net!CallerGone, Net!MonitorDrop, Net!DetachEnds, Net!TargetClosed, Net!WaitNext,
     Net!Tick, Net!Ended, Net!vars, Net!chrome

-----------------------------------------------------------------------------
(* Chrome's side: an event arrives, or what is not enabled is not shown.    *)

\* What is true of a document is so of a later one.
LEMMA LaterDocs ==
  ASSUME IdleTyped, NEW d \in Nat, NEW n \in Nat, d <= n
  PROVE  /\ Past(d) => Past(n)
         /\ \A i \in DOMAIN channel : Before(channel[i], d) => Before(channel[i], n)
<1>1. /\ channel \in Seq(Events) /\ ledger.loader \in Nat /\ reply.doc \in Nat
      /\ ledger.active \subseteq Requests \X Net!Docs
  BY IdleAssumption DEF IdleTyped, ChannelTyped, MonitorTyped, SetupTyped, Ledgers, Net!Docs, Net!NoDoc,
     Net!IdleConstants
<1>2. \A i \in DOMAIN channel : channel[i].doc \in Nat
  <2>1. \A i \in DOMAIN channel : channel[i] \in Events
    BY <1>1
  <2> QED
    BY <2>1 DEF Events, Net!Docs
<1>3. \A x \in ledger.active : x[2] \in Nat
  BY <1>1 DEF Net!Docs
<1> QED
  BY <1>1, <1>2, <1>3 DEF Past, Before

\* Events arrive in the order of the documents.
LEMMA OrderArrives ==
  ASSUME IdleTyped, Ordered, NEW e \in Events, Arrives(e), UNCHANGED <<setup, ledger>>,
         reply'.at = "here" => reply' = reply, doc' \in {doc, doc + 1}, Before(e, doc' + 1),
         e.ev = "navigated" => e.doc = doc + 1
  PROVE  Ordered'
<1>1. /\ DOMAIN channel = 1..Len(channel) /\ Len(channel) \in Nat
      /\ \A k \in DOMAIN channel : channel'[k] = channel[k]
      /\ \A k \in DOMAIN channel' \ DOMAIN channel : k = Len(channel) + 1 /\ channel'[k] = e
  BY Arrival DEF IdleTyped
<1>2. doc + 1 \in Nat /\ doc' + 1 \in Nat /\ doc + 1 <= doc' + 1
  <2>1. doc \in Nat
    BY DEF IdleTyped, ChromeTyped, Net!Docs
  <2>2. doc' = doc \/ doc' = doc + 1
    OBVIOUS
  <2>3. CASE doc' = doc
    BY <2>1, <2>3
  <2>4. CASE doc' = doc + 1
    BY <2>1, <2>4
  <2> QED
    BY <2>2, <2>3, <2>4
<1>3. \A d : Past(d) => Past(d)'
  BY DEF Past
<1>4. /\ Past(doc + 1) /\ Past(doc' + 1)
      /\ \A i \in DOMAIN channel : Before(channel[i], doc + 1) /\ Before(channel[i], doc' + 1)
  BY <1>2, LaterDocs DEF Ordered
<1>5. Past(doc + 1)' /\ \A i \in DOMAIN channel' : Before(channel'[i], doc' + 1)
  BY <1>1, <1>4 DEF Past
<1>6. ASSUME NEW k \in DOMAIN channel', channel'[k].ev = "navigated"
      PROVE  /\ Past(channel[k].doc)'
             /\ \A i \in DOMAIN channel' : i < k => Before(channel'[i], channel'[k].doc)
  <2>1. CASE k \in DOMAIN channel
    <3>1. /\ channel'[k] = channel[k] /\ Past(channel[k].doc)
          /\ \A i \in DOMAIN channel : i < k => Before(channel[i], channel[k].doc)
      BY <1>1, <1>6, <2>1 DEF Ordered
    <3>2. \A i \in DOMAIN channel' : i < k => i \in DOMAIN channel
      BY <1>1, <2>1
    <3>3. Past(channel[k].doc)'
      BY <3>1 DEF Past
    <3> QED
      BY <1>1, <3>1, <3>2, <3>3
  <2>2. CASE k \notin DOMAIN channel
    <3>1. k = Len(channel) + 1 /\ channel'[k].doc = doc + 1
      BY <1>1, <1>6, <2>2
    <3>2. \A i \in DOMAIN channel' : i < k => i \in DOMAIN channel
      BY <1>1, <3>1
    <3>3. Past(channel[k].doc)'
      BY <1>4, <3>1 DEF Past
    <3> QED
      BY <1>1, <1>4, <3>1, <3>2, <3>3
  <2> QED
    BY <2>1, <2>2
<1> QED
  BY <1>5, <1>6 DEF Ordered

\* Requests keep the truth when nobody starts or ends.
LEMMA RequestsArrive ==
  ASSUME IdleTyped, RequestsTrue, NEW e \in Events, Arrives(e), e.ev \notin {"started", "ended"},
         UNCHANGED made, cut' \subseteq made, live' \subseteq live,
         \A x \in live' : x[2] \in {doc', doc' + 1} /\ (x[2] # doc' => domain' = 3)
  PROVE  RequestsTrue'
BY Arrival DEF IdleTyped, RequestsTrue

\* What was covered stays so, and nothing more has been seen.
LEMMA CoverArrives ==
  ASSUME IdleTyped, NEW e \in Events, Arrives(e), UNCHANGED ledger
  PROVE  \A x : Covered(x) => Covered(x)'
BY Arrival DEF IdleTyped, Covered

\* An event that arrives shows the monitor no document that it had not seen.
LEMMA SeenArrives ==
  ASSUME IdleTyped, NEW e \in Events, Arrives(e), e.ev # "reply", UNCHANGED <<fresh, setup, reply>>
  PROVE  \A d : Seen(d)' => Seen(d)
<1>1. Floors' \subseteq Floors
  BY Arrival DEF IdleTyped, Floors, Listening
<1> QED
  BY <1>1 DEF Seen

\* An event that ends no load leaves a load under way announced.
LEMMA LoadArrives ==
  ASSUME IdleTyped, LoadTrue, NEW e \in Events, Arrives(e), Seen(doc)' => Seen(doc),
         UNCHANGED <<doc, loading, ledger>>, ~Settles(e)
  PROVE  LoadTrue'
<1>0. \A f : (Settles(f)' <=> Settles(f)) /\ (Begins(f)' <=> Begins(f))
  BY DEF Settles, Begins
<1>1. /\ DOMAIN channel \subseteq DOMAIN channel'
      /\ \A k \in DOMAIN channel : channel'[k] = channel[k]
      /\ \A k \in DOMAIN channel' \ DOMAIN channel : channel'[k] = e
  BY Arrival DEF IdleTyped
<1>2. ASSUME NEW n, Unsettled(n) PROVE Unsettled(n)'
  <2> SUFFICES ASSUME NEW i \in DOMAIN channel', i > n PROVE ~Settles(channel'[i])
    BY <1>0 DEF Unsettled
  <2> QED
    BY <1>1, <1>2 DEF Unsettled
<1> SUFFICES ASSUME Seen(doc), loading \in {"provisional", "committed"}
             PROVE  \/ \E i \in DOMAIN channel' : Begins(channel[i])' /\ Unsettled(i)'
                    \/ /\ ~ledger'.loaded /\ (loading' = "committed" => ledger'.loader = doc')
                       /\ Unsettled(0)'
  BY DEF LoadTrue
<1>3. CASE \E i \in DOMAIN channel : Begins(channel[i]) /\ Unsettled(i)
  <2>1. PICK i \in DOMAIN channel : Begins(channel[i]) /\ Unsettled(i)
    BY <1>3
  <2>2. i \in DOMAIN channel' /\ Begins(channel[i])' /\ Unsettled(i)'
    BY <1>0, <1>1, <1>2, <2>1
  <2> QED
    BY <2>2
<1>4. CASE /\ ~ledger.loaded /\ (loading = "committed" => ledger.loader = doc)
           /\ Unsettled(0)
  BY <1>2, <1>4
<1> QED
  BY <1>3, <1>4 DEF LoadTrue

\* The setup is where it was.
LEMMA PhasesArrive ==
  ASSUME IdleTyped, Phases, NEW e \in Events, Arrives(e), e.ev # "reply",
         UNCHANGED <<domain, fresh, setup, reply>>, fresh /\ setup # "owned" => UNCHANGED <<live, loading>>
  PROVE  Phases'
BY Arrival DEF IdleTyped, Phases, Listening

\* What was seen was seen because everything is announced.
LEMMA SeenListening == ASSUME NEW d, Seen(d) PROVE Listening
BY DEF Seen, Floors

\* A load that begins is announced.
LEMMA LoadBegins ==
  ASSUME IdleTyped, Phases, NEW e \in Events, e.ev # "reply", NEW level \in {1, 2, 3},
         Net!Emit(level, e), Begins(e)', UNCHANGED <<fresh, setup, reply>>
  PROVE  LoadTrue'
<1>1. Arrives(e)
  BY DEF Net!Emit, Arrives
<1> SUFFICES ASSUME Seen(doc)'
             PROVE  \E i \in DOMAIN channel' : Begins(channel[i])' /\ Unsettled(i)'
  BY DEF LoadTrue
<1>2. Seen(doc')
  BY <1>1, SeenArrives
<1>3. domain = 3
  BY <1>2, SeenListening DEF Phases
<1>4. channel' = Append(channel, e) /\ channel \in Seq(Events)
  BY <1>3 DEF Net!Emit, IdleTyped, ChannelTyped
<1>5. /\ DOMAIN channel' = 1..Len(channel) + 1 /\ channel'[Len(channel) + 1] = e
      /\ Len(channel) \in Nat
  BY <1>4
<1>6. PICK n : n = Len(channel) + 1
  OBVIOUS
<1>7. n \in DOMAIN channel' /\ Begins(channel[n])' /\ Unsettled(n)'
  BY <1>5, <1>6 DEF Begins, Unsettled
<1> QED
  BY <1>7

\* Chrome tells what it does.
LEMMA ChromeTruth ==
  ASSUME IdleTyped, Sound, Truth, Net!ChromeNext, Sound'
  PROVE  Truth'
<1> USE DEF Truth
<1>1. /\ UNCHANGED <<fresh, setup, reply, ledger>> /\ (fresh => setup = "owned")
      /\ doc \in Nat /\ domain \in 0..3
  <2>1. UNCHANGED <<fresh, setup, reply, ledger>>
    BY DEF Net!ChromeNext, Net!starting, Net!monitor
  <2>2. Net!Unhindered
    BY DEF Net!ChromeNext, Net!StartsLoading, Net!Commits, Net!Loads, Net!LoadsLate,
       Net!StopsLoading, Net!Crashes, Net!Requested, Net!Redirected, Net!Finishes
  <2> QED
    BY <2>1, <2>2 DEF Net!Unhindered, IdleTyped, ChromeTyped, Net!Docs
<1>2. TrustTrue'
  BY <1>1 DEF TrustTrue
<1>3. ASSUME NEW level, NEW e, Net!Emit(level, e) PROVE Arrives(e)
  BY <1>3 DEF Net!Emit, Arrives
<1>4. ASSUME NEW k \in Kinds, NEW d \in Net!Docs, NEW r \in Requests \cup {Net!NoRequest}
      PROVE  /\ Net!Event(k, d, r) \in Events /\ Net!Event(k, d, r).ev = k
             /\ Net!Event(k, d, r).doc = d /\ Net!Event(k, d, r).req = r
  BY DEF Net!Event, Events
\* An event of the page, in the order of the documents.
<1>5. ASSUME NEW e \in Events, Arrives(e), e.ev \notin {"reply", "started", "ended"},
             UNCHANGED <<made, domain>>, cut' \subseteq made, live' \subseteq live,
             \A x \in live' : x[2] \in {doc', doc' + 1} /\ (x[2] # doc' => domain' = 3),
             doc' \in {doc, doc + 1}, e.ev = "navigated" => e.doc = doc + 1 /\ doc' = doc + 1
      PROVE  Ordered' /\ RequestsTrue' /\ Phases' /\ AllCovered'
  <2>1. Before(e, doc' + 1)
    BY <1>1, <1>5 DEF Before
  <2>2. Ordered'
    BY <1>1, <1>5, <2>1, OrderArrives
  <2>3. RequestsTrue'
    BY <1>5, RequestsArrive
  <2>4. Phases'
    BY <1>1, <1>5, PhasesArrive
  <2>5. AllCovered'
    BY <1>1, <1>5, SeenArrives, CoverArrives DEF AllCovered
  <2> QED
    BY <2>2, <2>3, <2>4, <2>5
<1>6. CASE Net!StartsLoading
  <2>0. PICK e : e = Net!Event("loading", doc, Net!NoRequest)
    OBVIOUS
  <2>1. e \in Events /\ e.ev = "loading"
    BY <1>4, <2>0 DEF Kinds, IdleTyped, ChromeTyped
  <2>2. /\ Net!Emit(1, e) /\ UNCHANGED <<doc, made, live, cut, domain>>
        /\ loading' = "provisional"
    BY <1>6, <2>0 DEF Net!StartsLoading
  <2>3. Arrives(e)
    BY <1>3, <2>2
  <2>4. Ordered' /\ RequestsTrue' /\ Phases' /\ AllCovered'
    BY <1>5, <2>1, <2>2, <2>3 DEF RequestsTrue
  <2>5. Begins(e)'
    BY <2>1, <2>2 DEF Begins
  <2>6. LoadTrue'
    BY <1>1, <2>1, <2>2, <2>5, LoadBegins
  <2> QED
    BY <1>2, <2>4, <2>6
<1>7. CASE Net!Commits
  <2>0. PICK e : e = Net!Event("navigated", doc + 1, Net!NoRequest)
    OBVIOUS
  <2>1. /\ Net!Emit(1, e) /\ UNCHANGED <<made, domain>> /\ doc' = doc + 1
        /\ loading' = "committed" /\ live' = {x \in live : x[2] = doc'}
        /\ cut' = cut \cup {x[1] : x \in live \ live'}
    BY <1>7, <2>0 DEF Net!Commits
  <2>2. doc + 1 \in Net!Docs
    <3>1. doc # MaxDoc
      BY <1>7 DEF Net!Commits, IdleTyped, ChromeTyped
    <3> QED
      BY <3>1, IdleAssumption DEF IdleTyped, ChromeTyped, Net!Docs, Net!IdleConstants
  <2>3. e \in Events /\ e.ev = "navigated" /\ e.doc = doc + 1
    BY <1>4, <2>0, <2>2 DEF Kinds
  <2>4. Arrives(e)
    BY <1>3, <2>1
  <2>5. cut' \subseteq made /\ live' \subseteq live
    BY <2>1 DEF RequestsTrue
  <2>6. Ordered' /\ RequestsTrue' /\ Phases' /\ AllCovered'
    BY <1>5, <2>1, <2>3, <2>4, <2>5
  <2>7. Begins(e)'
    BY <2>1, <2>3 DEF Begins
  <2>8. LoadTrue'
    BY <1>1, <2>1, <2>3, <2>7, LoadBegins
  <2> QED
    BY <1>2, <2>6, <2>8
<1>8. CASE Net!Loads \/ Net!StopsLoading
  <2>1. PICK k \in {"load", "stopped"} :
          \E level \in {1, 2} : Net!Emit(level, Net!Event(k, doc, Net!NoRequest))
    BY <1>8 DEF Net!Loads, Net!StopsLoading
  <2> DEFINE e == Net!Event(k, doc, Net!NoRequest)
  <2>2. e \in Events /\ e.ev = k
    BY <1>4 DEF Kinds, IdleTyped, ChromeTyped
  <2>3. Arrives(e)
    BY <1>3, <2>1
  <2> HIDE DEF e
  <2>4. UNCHANGED <<doc, made, live, cut, domain>> /\ loading' \in {"no", "loaded"}
    BY <1>8 DEF Net!Loads, Net!StopsLoading
  <2>5. Ordered' /\ RequestsTrue' /\ Phases' /\ AllCovered'
    BY <1>5, <2>2, <2>3, <2>4 DEF RequestsTrue
  <2> QED
    BY <1>2, <2>4, <2>5 DEF LoadTrue
<1>9. CASE Net!LoadsLate
  <2> DEFINE e == Net!Event("load", doc - 1, Net!NoRequest)
  <2>0. loading = "committed" /\ doc - 1 \in Net!Docs /\ doc - 1 # doc
    <3>1. loading = "committed"
      BY <1>9 DEF Net!LoadsLate
    <3>2. doc \in 0..MaxDoc /\ doc # 0
      BY <3>1 DEF IdleTyped, ChromeTyped, Net!Docs
    <3> QED
      BY <3>1, <3>2, IdleAssumption DEF Net!Docs, Net!IdleConstants
  <2>1. e \in Events /\ e.ev = "load" /\ e.doc # doc
    BY <1>4, <2>0 DEF Kinds
  <2>2. Net!Emit(2, e) /\ UNCHANGED <<doc, loading, made, live, cut, domain>>
    BY <1>9 DEF Net!LoadsLate, Net!chrome
  <2> HIDE DEF e
  <2>3. Arrives(e)
    BY <1>3, <2>2
  <2>4. Ordered' /\ RequestsTrue' /\ Phases' /\ AllCovered'
    BY <1>5, <2>1, <2>2, <2>3 DEF RequestsTrue
  <2>5. ~Settles(e)
    BY <2>0, <2>1 DEF Settles
  <2>6. LoadTrue'
    BY <1>1, <2>1, <2>2, <2>3, <2>5, SeenArrives, LoadArrives
  <2> QED
    BY <1>2, <2>4, <2>6
\* A crash is announced, and the session is over with it.
<1>10. CASE Net!Crashes
  <2>1. channel' = Append(channel, Net!Event("crashed", doc, Net!NoRequest))
    BY <1>1, <1>10 DEF Net!Crashes, Net!Emit
  <2>2. Len(channel) + 1 \in DOMAIN channel' /\ channel'[Len(channel) + 1].ev = "crashed"
    BY <2>1 DEF IdleTyped, ChannelTyped, Net!Event
  <2> QED
    BY <2>2 DEF Sound
\* What happens to a request is announced, too.
<1>11. ASSUME NEW e \in Events, Arrives(e), e.ev \in {"started", "ended"},
              UNCHANGED <<doc, loading, domain>>, Before(e, doc + 1), RequestsTrue',
              \A x \in live' \ live : Seen(x[2]) => Covered(x)'
       PROVE  Truth'
  <2>1. Ordered'
    BY <1>1, <1>11, OrderArrives
  <2>2. Phases'
    BY <1>1, <1>11, PhasesArrive
  <2>3. AllCovered'
    BY <1>1, <1>11, SeenArrives, CoverArrives DEF AllCovered
  <2>4. ~Settles(e)
    BY <1>11 DEF Settles
  <2>5. LoadTrue'
    BY <1>1, <1>11, <2>4, SeenArrives, LoadArrives
  <2> QED
    BY <1>2, <1>11, <2>1, <2>2, <2>3, <2>5
<1>12. ASSUME NEW r \in Requests, NEW d \in Net!Docs, Net!Requested(r, d) PROVE Truth'
  <2> DEFINE e == Net!Event("started", d, r)
  <2>1. e \in Events /\ e.ev = "started" /\ e.doc = d /\ e.req = r
    BY <1>4 DEF Kinds
  <2>2. /\ Net!Emit(3, e) /\ UNCHANGED <<doc, loading, cut, domain>> /\ r \notin made
        /\ made' = made \cup {r} /\ live' = live \cup {<<r, d>>}
        /\ d = doc \/ (d = doc + 1 /\ domain = 3)
    BY <1>12 DEF Net!Requested
  <2> HIDE DEF e
  <2>3. Arrives(e)
    BY <1>3, <2>2
  <2>4. Before(e, doc + 1)
    BY <1>1, <2>1, <2>2 DEF Before
  <2>5. RequestsTrue'
    <3>1. cut' \subseteq made'
      BY <2>2 DEF RequestsTrue
    <3>2. \A x \in live' : x[1] \in made' /\ x[2] \in {doc', doc' + 1} /\ (x[2] # doc' => domain' = 3)
      BY <2>2 DEF RequestsTrue
    <3>3. \A x, y \in live' : x[1] = y[1] => x = y
      BY <2>2 DEF RequestsTrue
    <3>4. \A i \in DOMAIN channel' :
            (i \in DOMAIN channel /\ channel'[i] = channel[i]) \/ channel'[i] = e
      BY <2>1, <2>3, Arrival DEF IdleTyped
    <3>5. ASSUME NEW i \in DOMAIN channel', channel'[i].ev \in {"started", "ended"}
          PROVE  /\ channel'[i].req \in made'
                 /\ \A x \in live' : x[1] = channel'[i].req =>
                      channel'[i].ev = "started" /\ x[2] = channel'[i].doc
      <4>1. CASE i \in DOMAIN channel /\ channel'[i] = channel[i]
        BY <2>2, <3>5, <4>1 DEF RequestsTrue
      <4>2. CASE channel'[i] = e
        BY <2>1, <2>2, <4>2 DEF RequestsTrue
      <4> QED
        BY <3>4, <4>1, <4>2
    <3> QED
      BY <3>1, <3>2, <3>3, <3>5 DEF RequestsTrue
  <2>6. ASSUME NEW x \in live' \ live, Seen(x[2]) PROVE Covered(x)'
    <3>1. x = <<r, d>>
      BY <2>2
    <3>2. channel' = Append(channel, e) /\ channel \in Seq(Events)
      BY <2>2, <2>6, SeenListening DEF Net!Emit, Phases, IdleTyped, ChannelTyped
    <3>3. Len(channel) + 1 \in DOMAIN channel' /\ channel'[Len(channel) + 1] = e
      BY <3>2
    <3> QED
      BY <2>1, <3>1, <3>3 DEF Covered
  <2> QED
    BY <1>11, <2>1, <2>2, <2>3, <2>4, <2>5, <2>6
<1>13. ASSUME NEW r \in Requests, NEW d \in Net!Docs, Net!Redirected(r, d) PROVE Truth'
  <2> DEFINE e == Net!Event("started", d, r)
  <2>1. e \in Events /\ e.ev = "started" /\ e.doc = d /\ e.req = r
    BY <1>4 DEF Kinds
  <2>2. Net!Emit(3, e) /\ UNCHANGED <<doc, loading, made, live, cut, domain>> /\ <<r, d>> \in live
    BY <1>13 DEF Net!Redirected, Net!chrome
  <2> HIDE DEF e
  <2>3. Arrives(e)
    BY <1>3, <2>2
  <2>4. Before(e, doc + 1)
    BY <1>1, <2>1, <2>2 DEF Before, RequestsTrue
  <2>5. RequestsTrue'
    <3>1. \A i \in DOMAIN channel' :
            (i \in DOMAIN channel /\ channel'[i] = channel[i]) \/ channel'[i] = e
      BY <2>1, <2>3, Arrival DEF IdleTyped
    <3>2. r \in made /\ \A x \in live : x[1] = r => x = <<r, d>>
      BY <2>2 DEF RequestsTrue
    <3>3. ASSUME NEW i \in DOMAIN channel', channel'[i].ev \in {"started", "ended"}
          PROVE  /\ channel'[i].req \in made'
                 /\ \A x \in live' : x[1] = channel'[i].req =>
                      channel'[i].ev = "started" /\ x[2] = channel'[i].doc
      <4>1. CASE i \in DOMAIN channel /\ channel'[i] = channel[i]
        BY <2>2, <3>3, <4>1 DEF RequestsTrue
      <4>2. CASE channel'[i] = e
        BY <2>1, <2>2, <3>2, <4>2
      <4> QED
        BY <3>1, <4>1, <4>2
    <3> QED
      BY <2>2, <3>3 DEF RequestsTrue
  <2> QED
    BY <1>11, <2>1, <2>2, <2>3, <2>4, <2>5
<1>14. ASSUME NEW r \in Requests, Net!Finishes(r) PROVE Truth'
  <2> DEFINE e == Net!Event("ended", doc, r)
  <2>1. e \in Events /\ e.ev = "ended" /\ e.req = r
    BY <1>4 DEF Kinds, IdleTyped, ChromeTyped
  <2>2. /\ Net!Emit(3, e) /\ UNCHANGED <<doc, loading, made, domain>>
        /\ r \in cut \/ \E d \in Net!Docs : <<r, d>> \in live
        /\ live' = {x \in live : x[1] # r} /\ cut' = cut \ {r}
    BY <1>14 DEF Net!Finishes
  <2> HIDE DEF e
  <2>3. Arrives(e)
    BY <1>3, <2>2
  <2>4. Before(e, doc + 1)
    BY <2>1 DEF Before
  <2>5. RequestsTrue'
    <3>1. \A i \in DOMAIN channel' :
            (i \in DOMAIN channel /\ channel'[i] = channel[i]) \/ channel'[i] = e
      BY <2>1, <2>3, Arrival DEF IdleTyped
    <3>2. r \in made
      BY <2>2 DEF RequestsTrue
    <3>3. ASSUME NEW i \in DOMAIN channel', channel'[i].ev \in {"started", "ended"}
          PROVE  /\ channel'[i].req \in made'
                 /\ \A x \in live' : x[1] = channel'[i].req =>
                      channel'[i].ev = "started" /\ x[2] = channel'[i].doc
      <4>1. CASE i \in DOMAIN channel /\ channel'[i] = channel[i]
        BY <2>2, <3>3, <4>1 DEF RequestsTrue
      <4>2. CASE channel'[i] = e
        BY <2>1, <2>2, <3>2, <4>2
      <4> QED
        BY <3>1, <4>1, <4>2
    <3> QED
      BY <2>2, <3>3 DEF RequestsTrue
  <2> QED
    BY <1>11, <2>1, <2>2, <2>3, <2>4, <2>5
<1> QED
  BY <1>6, <1>7, <1>8, <1>9, <1>10, <1>12, <1>13, <1>14 DEF Net!ChromeNext

\* A command is carried out: from the last one on, every request is announced.
LEMMA AnswerTruth ==
  ASSUME IdleTyped, Truth, Net!AnswersNext
  PROVE  Truth'
<1> USE DEF Truth
<1> DEFINE e == Net!Event("reply", doc, Net!NoRequest)
<1>1. /\ UNCHANGED <<doc, loading, made, live, cut, fresh, setup, ledger>>
      /\ setup \in Net!CommandSet /\ reply.at = "asked" /\ channel' = Append(channel, e)
      /\ reply' = [reply EXCEPT !.at = "sent"]
      /\ domain' = IF setup \in DOMAIN Net!Level THEN Net!Level[setup] ELSE domain
  BY DEF Net!AnswersNext, Net!Answers, Net!monitor
<1>2. e \in Events /\ e.ev = "reply" /\ e.doc = doc /\ doc \in Nat
  BY EventTyped DEF Kinds, Net!Event, Net!Docs, IdleTyped, ChromeTyped
<1> HIDE DEF e
<1>3. Arrives(e) /\ reply'.at = "sent"
  BY <1>1 DEF Arrives, IdleTyped, SetupTyped
<1>4. /\ DOMAIN channel = 1..Len(channel) /\ Len(channel) \in Nat
      /\ \A k \in DOMAIN channel : channel'[k] = channel[k]
      /\ \A k \in DOMAIN channel' \ DOMAIN channel : k = Len(channel) + 1 /\ channel'[k] = e
  BY <1>2, <1>3, Arrival DEF IdleTyped
<1>5. setup # "owned" /\ ~Listening /\ domain # 3
  BY <1>1, CommandNames DEF Listening, Phases
<1>6. \A k \in DOMAIN channel : channel[k].ev # "reply"
  BY <1>1 DEF Phases
<1>7. domain' = 3 <=> setup = "network"
  BY <1>1, <1>5, CommandNames DEF Net!Level
<1>8. Ordered'
  <2>1. Before(e, doc' + 1) /\ e.ev # "navigated"
    BY <1>1, <1>2 DEF Before
  <2> QED
    BY <1>1, <1>2, <1>3, <2>1, OrderArrives
\* Nothing runs for a document yet to come.
<1>9. \A x \in live : x[2] = doc
  BY <1>5 DEF RequestsTrue
<1>10. RequestsTrue'
  BY <1>1, <1>2, <1>3, <1>9, RequestsArrive DEF RequestsTrue
<1>11. Phases'
  <2>1. Listening' <=> setup = "network"
    BY <1>1, <1>3, <1>5 DEF Listening
  <2>2. ASSUME NEW i \in DOMAIN channel', channel'[i].ev = "reply"
        PROVE  \A k \in DOMAIN channel' : channel'[k].ev = "reply" => i = k
    BY <1>4, <1>6, <2>2
  <2> QED
    BY <1>1, <1>3, <1>5, <1>7, <2>1, <2>2 DEF Phases
<1>12. \A d : Seen(d)' => fresh \/ d > doc
  <2>1. Floors' \subseteq {doc}
    BY <1>2, <1>3, <1>4, <1>6 DEF Floors
  <2> QED
    BY <1>1, <2>1 DEF Seen
<1>13. AllCovered'
  BY <1>1, <1>2, <1>5, <1>9, <1>12 DEF AllCovered, Phases
<1>14. LoadTrue'
  BY <1>1, <1>2, <1>5, <1>12 DEF LoadTrue, Phases
<1> QED
  BY <1>1, <1>5, <1>8, <1>10, <1>11, <1>13, <1>14 DEF TrustTrue

\* The task that sets the monitor up goes on.
LEMMA SetupTruth ==
  ASSUME IdleTyped, Truth, Net!SetupNext
  PROVE  Truth'
<1> USE DEF Truth
<1>1. /\ UNCHANGED <<doc, loading, made, live, cut, domain, channel, fresh>> /\ reply.at = "here"
      /\ setup' \in {"tree", "page", "lifecycle", "network"} /\ setup \notin {"network", "owned"}
      /\ reply'.at = "asked" /\ ledger'.loaded = ledger.loaded /\ ledger'.active = ledger.active
      /\ setup' # "tree" => ledger'.loader = ledger.loader \/ ledger'.loader = reply.doc
      /\ setup' # "tree" /\ setup \in {"attach", "tree"} => ledger'.loader = reply.doc
  BY DEF Net!SetupNext, Net!Attached, Net!TreeKnown, Net!Enabled, Net!Ask, Net!monitor, Net!chrome,
     IdleTyped, MonitorTyped, Ledgers
<1>2. \A d : Past(d) => Past(d)'
  BY <1>1 DEF Past
<1>3. Ordered'
  <2>1. Past(doc + 1)'
    BY <1>1, <1>2 DEF Ordered, Past
  <2>2. \A k \in DOMAIN channel : channel[k].ev = "navigated" => Past(channel[k].doc)'
    BY <1>1, <1>2 DEF Ordered, Past
  <2> QED
    BY <1>1, <2>1, <2>2 DEF Ordered, Before
<1>4. RequestsTrue'
  BY <1>1 DEF RequestsTrue
<1>5. ~Listening /\ ~Listening'
  BY <1>1 DEF Listening
<1>6. Phases'
  BY <1>1, <1>5 DEF Phases
<1>7. \A d : ~Seen(d)'
  BY <1>5 DEF Seen, Floors
<1> QED
  BY <1>1, <1>3, <1>4, <1>6, <1>7 DEF AllCovered, LoadTrue, TrustTrue

\* The monitor has an owner.
LEMMA ArmedTruth ==
  ASSUME IdleTyped, Truth, Net!Armed, Sound'
  PROVE  Truth'
<1> USE DEF Truth
<1>1. /\ UNCHANGED <<doc, loading, made, live, cut, domain, channel, fresh, reply>>
      /\ setup = "network" /\ reply.at = "here" /\ setup' = "owned"
      /\ ledger' = [ledger EXCEPT !.armed = TRUE, !.trusted = fresh]
  BY DEF Net!Armed, Net!chrome, Sound
<1>2. /\ ledger'.loader = ledger.loader /\ ledger'.active = ledger.active
      /\ ledger'.loaded = ledger.loaded /\ ledger'.trusted = fresh
  BY <1>1 DEF IdleTyped, MonitorTyped, Ledgers
<1>3. Ordered'
  BY <1>1, <1>2 DEF Ordered, Past, Before
<1>4. RequestsTrue'
  BY <1>1 DEF RequestsTrue
<1>5. Listening /\ Listening' /\ Floors' = Floors
  BY <1>1 DEF Listening, Floors
<1>6. Phases'
  BY <1>1, <1>5 DEF Phases
<1>7. AllCovered'
  BY <1>1, <1>2, <1>5 DEF AllCovered, Seen, Covered
<1>8. LoadTrue'
  BY <1>1, <1>2, <1>5 DEF LoadTrue, Seen, Unsettled, Settles, Begins
<1> QED
  BY <1>1, <1>2, <1>3, <1>4, <1>6, <1>7, <1>8 DEF TrustTrue

\* Whatever else happens while the monitor is served leaves the truth alone.
LEMMA TruthStays ==
  ASSUME Truth, UNCHANGED <<doc, loading, made, live, cut, domain, channel, fresh, setup, reply, ledger>>
  PROVE  Truth'
BY DEF Truth, Ordered, Past, Before, RequestsTrue, Phases, Listening, AllCovered, Seen, Floors,
   Covered, LoadTrue, Unsettled, Settles, Begins, TrustTrue

\* What an event makes of the ledger that heeds it, unless it fails.
LEMMA AfterMakes ==
  ASSUME NEW l \in Ledgers, NEW e \in Events, e.ev # "reply", now \in 0..MaxTime,
         NEW m, m = Net!After(l, e), ~m.failed
  PROVE  /\ e.ev # "crashed" /\ m.last = now
         /\ m.loader = IF e.ev = "navigated" THEN e.doc ELSE l.loader
         /\ e.ev # "navigated" => m.trusted = l.trusted
         /\ m.loaded = IF e.ev \in {"navigated", "loading"} THEN FALSE
                       ELSE IF e.ev \in {"stopped", "load"} THEN TRUE ELSE l.loaded
         /\ m.active =
              IF e.ev = "navigated" THEN {x \in l.active : x[2] = e.doc}
              ELSE IF e.ev = "started"
                   THEN {x \in l.active : x[1] # e.req} \cup {<<e.req, e.doc>>}
              ELSE IF e.ev = "ended" THEN {x \in l.active : x[1] # e.req} ELSE l.active
<1> DEFINE k == [l EXCEPT !.last = now]
<1>1. /\ k \in Ledgers /\ k.last = now /\ k.loader = l.loader /\ k.trusted = l.trusted
      /\ k.loaded = l.loaded /\ k.active = l.active
  BY DEF Ledgers
<1>2. Net!After(l, e) =
        CASE e.ev = "navigated" -> Net!Navigated(k, e.doc)
          [] e.ev \in {"loading", "stopped"} -> [k EXCEPT !.loaded = e.ev = "stopped"]
          [] e.ev = "load" -> [k EXCEPT !.loaded = TRUE]
          [] e.ev = "started" -> Net!Started(k, e.doc, e.req)
          [] e.ev = "ended" -> [k EXCEPT !.active = {x \in @ : x[1] # e.req}]
          [] OTHER -> Net!Failed(k)
  BY DEF Net!After
<1> HIDE DEF k
<1>3. Net!Failed(k).failed
  BY <1>1 DEF Net!Failed, Ledgers
<1>4. CASE e.ev = "navigated"
  <2>1. m = Net!Navigated(k, e.doc)
    BY <1>2, <1>4
  <2>2. /\ m.loader = e.doc /\ m.loaded = FALSE /\ m.last = now
        /\ m.active = {x \in l.active : x[2] = e.doc}
    BY <1>1, <2>1 DEF Net!Navigated, Ledgers
  <2> QED
    BY <1>4, <2>2
<1>5. CASE e.ev \in {"loading", "stopped", "load"}
  <2>1. \E b \in BOOLEAN : b = (e.ev # "loading") /\ m = [k EXCEPT !.loaded = b]
    BY <1>2, <1>5
  <2>2. /\ m.loaded = (e.ev # "loading") /\ m.loader = l.loader /\ m.trusted = l.trusted
        /\ m.active = l.active /\ m.last = now
    BY <1>1, <2>1 DEF Ledgers
  <2> QED
    BY <1>5, <2>2
<1>6. CASE e.ev = "started"
  <2> DEFINE others == {x \in k.active : x[1] # e.req}
             n == [k EXCEPT !.active = others \cup {<<e.req, e.doc>>}]
  <2>1. m = Net!Failed(k) \/ m = n
    BY <1>2, <1>6 DEF Net!Started
  <2>2. m = n
    BY <1>3, <2>1
  <2>3. /\ m.loaded = l.loaded /\ m.loader = l.loader /\ m.trusted = l.trusted /\ m.last = now
        /\ m.active = {x \in l.active : x[1] # e.req} \cup {<<e.req, e.doc>>}
    BY <1>1, <2>2 DEF Ledgers
  <2> QED
    BY <1>6, <2>3
<1>7. CASE e.ev = "ended"
  <2>1. m = [k EXCEPT !.active = {x \in k.active : x[1] # e.req}]
    BY <1>2, <1>7
  <2>2. /\ m.loaded = l.loaded /\ m.loader = l.loader /\ m.trusted = l.trusted /\ m.last = now
        /\ m.active = {x \in l.active : x[1] # e.req}
    BY <1>1, <2>1 DEF Ledgers
  <2> QED
    BY <1>7, <2>2
<1>8. CASE e.ev = "crashed"
  BY <1>2, <1>3, <1>8
<1> QED
  BY <1>4, <1>5, <1>6, <1>7, <1>8 DEF Events, Kinds

\* The reader takes an event: a reply, which the task waits for, or one for the ledger.
Takes(e) ==
  /\ channel # <<>> /\ e = Head(channel) /\ channel' = Tail(channel)
  /\ UNCHANGED <<doc, loading, made, live, cut, domain, fresh, setup>>
  /\ e.ev = "reply" => /\ ledger' = ledger
                       /\ reply' = [at |-> "here", doc |-> e.doc]
  /\ e.ev # "reply" => /\ reply' = reply /\ setup \notin {"attach", "tree"}
                       /\ ledger' = IF Net!Heeded(ledger, e) THEN Net!After(ledger, e) ELSE ledger

\* A delivery is one event taken from the head of the socket.
LEMMA DeliverTakes ==
  ASSUME IdleTyped, WaitInv, Unenabled, Sound, Truth, Net!Deliver
  PROVE  Takes(Head(channel))
<1>1. /\ channel # <<>> /\ channel' = Tail(channel)
      /\ UNCHANGED <<doc, loading, made, live, cut, domain, fresh, setup>>
  BY DEF Net!Deliver, Net!chrome
<1>2. 1 \in DOMAIN channel /\ Head(channel) = channel[1]
  BY <1>1, Departure DEF IdleTyped
<1>3. CASE Head(channel).ev = "reply"
  <2>1. reply.at = "sent"
    BY <1>2, <1>3 DEF Truth, Phases
  <2> QED
    BY <1>1, <1>3, <2>1 DEF Net!Deliver, Net!monitor, Takes
<1>4. CASE Head(channel).ev # "reply"
  <2>1. setup \notin {"attach", "tree"}
    BY <1>2, <1>4 DEF Unenabled
  <2>2. route
    BY <2>1, CommandNames DEF Sound, WaitInv, IdleTyped, SetupTyped
  <2> QED
    BY <1>1, <1>4, <2>1, <2>2 DEF Net!Deliver, Net!monitor, Net!Becomes, Takes
<1> QED
  BY <1>3, <1>4

\* What the ledger makes of an event is of no later document than those to come.
LEMMA PastTakes ==
  ASSUME IdleTyped, Sound', NEW e \in Events, Takes(e), NEW d, Past(d), Before(e, d)
  PROVE  Past(d)'
<1>1. ledger \in Ledgers /\ now \in 0..MaxTime
  BY DEF IdleTyped, MonitorTyped
<1>2. CASE e.ev = "reply"
  BY <1>2 DEF Takes, Past, Before
<1>3. CASE ledger' = ledger
  BY <1>3 DEF Takes, Past, Before
<1>4. CASE e.ev # "reply" /\ ledger' = Net!After(ledger, e)
  <2>1. /\ ledger'.loader = IF e.ev = "navigated" THEN e.doc ELSE ledger.loader
        /\ ledger'.active =
              IF e.ev = "navigated" THEN {x \in ledger.active : x[2] = e.doc}
              ELSE IF e.ev = "started"
                   THEN {x \in ledger.active : x[1] # e.req} \cup {<<e.req, e.doc>>}
              ELSE IF e.ev = "ended" THEN {x \in ledger.active : x[1] # e.req} ELSE ledger.active
    <3>1. ~ledger'.failed
      BY DEF Sound
    <3>2. PICK m : m = ledger'
      OBVIOUS
    <3> QED
      BY <1>1, <1>4, <3>1, <3>2, AfterMakes
  <2>2. (setup \notin {"attach", "tree"} => ledger'.loader < d) /\ \A x \in ledger'.active : x[2] <= d
    BY <2>1 DEF Past, Before
  <2> QED
    BY <1>4, <2>2 DEF Takes, Past
<1> QED
  BY <1>2, <1>3, <1>4 DEF Takes

\* The order of what is left, and of what was made of the rest, is kept.
LEMMA OrderTakes ==
  ASSUME IdleTyped, Ordered, Sound', NEW e \in Events, Takes(e)
  PROVE  Ordered'
<1>1. channel # <<>> /\ channel' = Tail(channel) /\ doc' = doc /\ e = Head(channel)
  BY DEF Takes
<1>2. /\ 1 \in DOMAIN channel /\ e = channel[1] /\ DOMAIN channel \subseteq Nat \ {0}
      /\ \A k \in DOMAIN channel' : k + 1 \in DOMAIN channel /\ channel'[k] = channel[k + 1]
      /\ DOMAIN channel' \subseteq Nat \ {0}
  <2>1. channel \in Seq(Events) /\ channel' \in Seq(Events)
    BY <1>1, Taken DEF IdleTyped, ChannelTyped
  <2> QED
    BY <1>1, <2>1, Departure DEF IdleTyped
<1>3. Past(doc + 1)'
  BY <1>1, <1>2, PastTakes DEF Ordered
<1>4. \A i \in DOMAIN channel' : Before(channel'[i], doc' + 1)
  BY <1>1, <1>2 DEF Ordered
<1>5. ASSUME NEW k \in DOMAIN channel', channel'[k].ev = "navigated"
      PROVE  /\ Past(channel[k].doc)'
             /\ \A i \in DOMAIN channel' : i < k => Before(channel'[i], channel'[k].doc)
  <2>1. k + 1 \in DOMAIN channel /\ channel'[k] = channel[k + 1] /\ k \in Nat /\ 1 < k + 1
    BY <1>2
  <2>2. /\ Past(channel[k + 1].doc) /\ Before(e, channel[k + 1].doc)
        /\ \A i \in DOMAIN channel : i < k + 1 => Before(channel[i], channel[k + 1].doc)
    BY <1>2, <1>5, <2>1 DEF Ordered
  <2>3. PICK d : d = channel[k + 1].doc
    OBVIOUS
  <2>4. Past(d)'
    BY <2>2, <2>3, PastTakes
  <2>5. Past(channel[k].doc)'
    BY <2>1, <2>3, <2>4 DEF Past
  <2>6. ASSUME NEW i \in DOMAIN channel', i < k PROVE Before(channel'[i], channel'[k].doc)
    <3>1. i + 1 \in DOMAIN channel /\ channel'[i] = channel[i + 1] /\ i + 1 < k + 1
      BY <1>2, <2>6
    <3> QED
      BY <2>1, <2>2, <3>1
  <2> QED
    BY <2>5, <2>6
<1> QED
  BY <1>3, <1>4, <1>5 DEF Ordered

\* The channel after an event was taken.
LEMMA ChannelTakes ==
  ASSUME IdleTyped, NEW e \in Events, Takes(e)
  PROVE  /\ 1 \in DOMAIN channel /\ e = channel[1] /\ DOMAIN channel \subseteq Nat \ {0}
         /\ DOMAIN channel' \subseteq Nat \ {0}
         /\ \A k \in DOMAIN channel' : k + 1 \in DOMAIN channel /\ channel'[k] = channel[k + 1]
         /\ \A k \in DOMAIN channel : k # 1 =>
              \E j \in DOMAIN channel' : k = j + 1 /\ channel'[j] = channel[k]
<1>1. channel # <<>> /\ channel' = Tail(channel) /\ e = Head(channel)
  BY DEF Takes
<1>2. channel \in Seq(Events) /\ channel' \in Seq(Events)
  BY <1>1, Taken DEF IdleTyped, ChannelTyped
<1>3. ASSUME NEW k \in DOMAIN channel, k # 1
      PROVE  \E j \in DOMAIN channel' : k = j + 1 /\ channel'[j] = channel[k]
  <2>1. k - 1 \in DOMAIN channel' /\ channel'[k - 1] = channel[k] /\ k \in Nat
    BY <1>1, <1>3, Departure DEF IdleTyped
  <2>2. k = (k - 1) + 1
    BY <2>1
  <2> QED
    BY <2>1, <2>2
<1> QED
  BY <1>1, <1>2, <1>3, Departure DEF IdleTyped

\* The reply to the last command is read once, and fixes the document seen first.
LEMMA PhasesTakes ==
  ASSUME IdleTyped, Phases, NEW e \in Events, Takes(e)
  PROVE  Phases' /\ Floors' \subseteq Floors
<1>1. /\ 1 \in DOMAIN channel /\ e = channel[1] /\ DOMAIN channel' \subseteq Nat \ {0}
      /\ \A k \in DOMAIN channel' : k + 1 \in DOMAIN channel /\ channel'[k] = channel[k + 1]
      /\ UNCHANGED <<live, loading, domain, fresh, setup>>
  BY ChannelTakes DEF Takes
<1>2. CASE e.ev = "reply"
  <2>1. reply.at = "sent" /\ reply'.at = "here" /\ reply'.doc = e.doc
    BY <1>1, <1>2 DEF Takes, Phases
  <2>2. \A k \in DOMAIN channel' : channel'[k].ev # "reply"
    BY <1>1, <1>2 DEF Phases
  <2>3. Listening' <=> Listening
    BY <1>1, <2>1 DEF Listening
  <2>4. Phases'
    BY <1>1, <2>1, <2>2, <2>3 DEF Phases
  <2>5. Floors' \subseteq Floors
    BY <1>1, <1>2, <2>1, <2>3 DEF Floors
  <2> QED
    BY <2>4, <2>5
<1>3. CASE e.ev # "reply"
  <2>1. reply' = reply /\ (Listening' <=> Listening)
    BY <1>1, <1>3 DEF Takes, Listening
  <2>2. ASSUME NEW i \in DOMAIN channel', channel'[i].ev = "reply"
        PROVE  reply.at = "sent" /\ \A k \in DOMAIN channel' : channel'[k].ev = "reply" => i = k
    BY <1>1, <2>2 DEF Phases
  <2>3. Phases'
    BY <1>1, <2>1, <2>2 DEF Phases
  <2>4. Floors' \subseteq Floors
    BY <1>1, <2>1 DEF Floors
  <2> QED
    BY <2>3, <2>4
<1> QED
  BY <1>2, <1>3

\* Reading an event tells Chrome nothing, so what is left of it stays true of its requests.
LEMMA RequestsTakes ==
  ASSUME IdleTyped, RequestsTrue, NEW e \in Events, Takes(e)
  PROVE  RequestsTrue'
<1>1. /\ \A k \in DOMAIN channel' : k + 1 \in DOMAIN channel /\ channel'[k] = channel[k + 1]
      /\ UNCHANGED <<doc, live, made, cut, domain>>
  BY ChannelTakes DEF Takes
<1> QED
  BY <1>1 DEF RequestsTrue

\* The ledger forgets no request that runs,
LEMMA CoverTakes ==
  ASSUME IdleTyped, Sound, Truth, Sound', NEW e \in Events, Takes(e)
  PROVE  AllCovered'
<1> USE DEF Truth
<1>1. /\ 1 \in DOMAIN channel /\ e = channel[1] /\ UNCHANGED <<live, fresh>> /\ doc \in Nat
      /\ \A k \in DOMAIN channel : k # 1 =>
           \E j \in DOMAIN channel' : k = j + 1 /\ channel'[j] = channel[k]
  BY ChannelTakes DEF Takes, IdleTyped, ChromeTyped, Net!Docs
<1> SUFFICES ASSUME NEW x \in live, Seen(x[2])' PROVE Covered(x)'
  BY <1>1 DEF AllCovered
<1>2. Covered(x)
  BY <1>1, PhasesTakes DEF Seen, AllCovered
<1>3. CASE ledger' = ledger /\ x \in ledger.active
  BY <1>3 DEF Covered
<1>4. ASSUME e.ev # "reply", ledger' = Net!After(ledger, e)
      PROVE  /\ ledger'.active =
                  IF e.ev = "navigated" THEN {y \in ledger.active : y[2] = e.doc}
                  ELSE IF e.ev = "started"
                       THEN {y \in ledger.active : y[1] # e.req} \cup {<<e.req, e.doc>>}
                  ELSE IF e.ev = "ended" THEN {y \in ledger.active : y[1] # e.req} ELSE ledger.active
  <2>1. ~ledger'.failed /\ ledger \in Ledgers /\ now \in 0..MaxTime
    BY DEF Sound, IdleTyped, MonitorTyped
  <2>2. PICK m : m = ledger'
    OBVIOUS
  <2> QED
    BY <1>4, <2>1, <2>2, AfterMakes
<1>5. x \in Requests \X Net!Docs /\ x = <<x[1], x[2]>>
  BY DEF IdleTyped, ChromeTyped
<1>6. CASE e.ev # "reply" /\ ledger' = Net!After(ledger, e) /\ x \in ledger.active
  <2>1. CASE e.ev = "navigated"
    <3>1. Before(e, doc + 1) /\ Past(e.doc)
      BY <1>1, <2>1 DEF Ordered
    <3>2. e.doc < doc + 1 /\ x[2] <= e.doc
      BY <1>6, <2>1, <3>1 DEF Before, Past
    <3>3. x[2] \in {doc, doc + 1} /\ e.doc \in Nat
      BY DEF RequestsTrue, Events, Net!Docs
    <3>4. x[2] = e.doc
      BY <1>1, <3>2, <3>3
    <3> QED
      BY <1>4, <1>6, <2>1, <3>4 DEF Covered
  <2>2. CASE e.ev = "started"
    <3>1. e.req = x[1] => x[2] = e.doc
      BY <1>1, <2>2 DEF RequestsTrue
    <3> QED
      BY <1>4, <1>5, <1>6, <2>2, <3>1 DEF Covered
  <2>3. CASE e.ev = "ended"
    <3>1. e.req # x[1]
      BY <1>1, <2>3 DEF RequestsTrue
    <3> QED
      BY <1>4, <1>6, <2>3, <3>1 DEF Covered
  <2> QED
    BY <1>4, <1>6, <2>1, <2>2, <2>3 DEF Covered
<1>7. CASE e.ev = "reply" /\ x \in ledger.active
  BY <1>3, <1>7 DEF Takes
<1>8. ASSUME NEW i \in DOMAIN channel, channel[i].ev = "started", channel[i].doc = x[2],
             channel[i].req = x[1]
      PROVE  Covered(x)'
  <2>1. CASE i = 1
    <3>1. e.ev = "started" /\ e.doc = x[2] /\ e.req = x[1]
      BY <1>1, <1>8, <2>1
    <3>2. ledger' = Net!After(ledger, e)
      <4>1. ~ledger.failed
        BY DEF Sound
      <4> QED
        BY <3>1, <4>1 DEF Takes, Net!Heeded
    <3> QED
      BY <1>4, <1>5, <3>1, <3>2 DEF Covered
  <2>2. CASE i # 1
    BY <1>1, <1>8, <2>2 DEF Covered
  <2> QED
    BY <2>1, <2>2
<1> QED
  BY <1>2, <1>3, <1>6, <1>7, <1>8 DEF Covered, Takes

\* and takes no load under way for done.
LEMMA LoadTakes ==
  ASSUME IdleTyped, Sound, Truth, Sound', NEW e \in Events, Takes(e)
  PROVE  LoadTrue'
<1> USE DEF Truth
<1>0. \A f : (Settles(f)' <=> Settles(f)) /\ (Begins(f)' <=> Begins(f))
  BY DEF Takes, Settles, Begins
<1>1. /\ 1 \in DOMAIN channel /\ e = channel[1] /\ DOMAIN channel \subseteq Nat \ {0}
      /\ DOMAIN channel' \subseteq Nat \ {0}
      /\ \A k \in DOMAIN channel' : k + 1 \in DOMAIN channel /\ channel'[k] = channel[k + 1]
      /\ \A k \in DOMAIN channel : k # 1 =>
           \E j \in DOMAIN channel' : k = j + 1 /\ channel'[j] = channel[k]
      /\ UNCHANGED <<doc, loading, fresh>> /\ doc \in Nat
  BY ChannelTakes DEF Takes, IdleTyped, ChromeTyped, Net!Docs
<1>2. ASSUME NEW n \in Nat, Unsettled(n + 1) PROVE Unsettled(n)'
  <2> SUFFICES ASSUME NEW i \in DOMAIN channel', i > n PROVE ~Settles(channel'[i])
    BY <1>0 DEF Unsettled
  <2>1. i + 1 \in DOMAIN channel /\ channel'[i] = channel[i + 1] /\ i + 1 > n + 1
    BY <1>1
  <2> QED
    BY <1>2, <2>1 DEF Unsettled
<1>3. ASSUME NEW n \in Nat, Unsettled(n) PROVE Unsettled(n + 1)
  BY <1>1, <1>3 DEF Unsettled
<1> SUFFICES ASSUME Seen(doc)', loading \in {"provisional", "committed"}
             PROVE  \/ \E i \in DOMAIN channel' : Begins(channel[i])' /\ Unsettled(i)'
                    \/ /\ ~ledger'.loaded /\ (loading = "committed" => ledger'.loader = doc)
                       /\ Unsettled(0)'
  BY <1>1 DEF LoadTrue
<1>4. Seen(doc)
  BY <1>1, PhasesTakes DEF Seen
<1>5. ASSUME e.ev # "reply", ledger' = Net!After(ledger, e)
      PROVE  /\ ledger'.loader = IF e.ev = "navigated" THEN e.doc ELSE ledger.loader
             /\ ledger'.loaded = IF e.ev \in {"navigated", "loading"} THEN FALSE
                                 ELSE IF e.ev \in {"stopped", "load"} THEN TRUE ELSE ledger.loaded
  <2>1. ~ledger'.failed /\ ledger \in Ledgers /\ now \in 0..MaxTime
    BY DEF Sound, IdleTyped, MonitorTyped
  <2>2. PICK m : m = ledger'
    OBVIOUS
  <2> QED
    BY <1>5, <2>1, <2>2, AfterMakes
\* The load's announcement is taken, or still to come.
<1>6. ASSUME NEW i \in DOMAIN channel, Begins(channel[i]), Unsettled(i), i # 1
      PROVE  \E j \in DOMAIN channel' : Begins(channel[j])' /\ Unsettled(j)'
  <2>1. PICK j \in DOMAIN channel' : i = j + 1 /\ channel'[j] = channel[i]
    BY <1>1, <1>6
  <2>2. Unsettled(j)'
    BY <1>1, <1>2, <1>6, <2>1
  <2>3. Begins(channel[j])'
    BY <1>1, <1>6, <2>1 DEF Begins
  <2> QED
    BY <2>2, <2>3
<1>7. ASSUME Begins(e), Unsettled(1)
      PROVE  ~ledger'.loaded /\ (loading = "committed" => ledger'.loader = doc) /\ Unsettled(0)'
  <2>1. Unsettled(0)'
    BY <1>2, <1>7
  <2>2. e.ev # "reply" /\ Net!Heeded(ledger, e)
    <3>1. CASE loading = "committed"
      <4>1. e.ev = "navigated" /\ Past(e.doc)
        BY <1>1, <1>7, <3>1 DEF Begins, Ordered
      <4>2. ledger.loader < e.doc /\ e.doc \in Nat
        BY <4>1 DEF Past, Takes, Events, Net!Docs
      <4>3. e.doc # ledger.loader
        BY <4>2
      <4> QED
        BY <4>1, <4>3 DEF Net!Heeded, Sound
    <3>2. CASE loading # "committed"
      BY <1>7, <3>2 DEF Begins, Net!Heeded, Sound
    <3> QED
      BY <3>1, <3>2
  <2>3. ledger' = Net!After(ledger, e)
    BY <2>2 DEF Takes
  <2> QED
    BY <1>5, <1>7, <2>1, <2>2, <2>3 DEF Begins
\* Nothing that is taken ends it.
<1>8. ASSUME ~ledger.loaded, loading = "committed" => ledger.loader = doc, Unsettled(0)
      PROVE  ~ledger'.loaded /\ (loading = "committed" => ledger'.loader = doc) /\ Unsettled(0)'
  <2>1. Unsettled(0)'
    BY <1>2, <1>3, <1>8
  <2>2. ~Settles(e)
    BY <1>1, <1>8 DEF Unsettled
  <2>3. CASE ledger' = ledger
    BY <1>8, <2>1, <2>3
  <2>4. CASE e.ev # "reply" /\ ledger' = Net!After(ledger, e) /\ Net!Heeded(ledger, e)
    <3>1. e.ev # "stopped" /\ e.ev # "load"
      BY <1>8, <2>2, <2>4 DEF Settles, Net!Heeded, Net!LoadCounts
    <3>2. e.ev = "navigated" => loading # "committed"
      <4> SUFFICES ASSUME e.ev = "navigated", loading = "committed" PROVE FALSE
        OBVIOUS
      <4>1. Before(e, doc + 1) /\ Past(e.doc)
        BY <1>1 DEF Ordered
      <4>2. e.doc < doc + 1 /\ doc < e.doc /\ e.doc \in Nat
        BY <1>8, <2>4, <4>1 DEF Before, Past, Takes, Events, Net!Docs
      <4> QED
        BY <1>1, <4>2
    <3>3. ~ledger'.loaded /\ (e.ev # "navigated" => ledger'.loader = ledger.loader)
      BY <1>5, <1>8, <2>4, <3>1
    <3> QED
      BY <1>8, <2>1, <3>2, <3>3
  <2> QED
    BY <2>3, <2>4 DEF Takes
<1> QED
  BY <1>1, <1>4, <1>6, <1>7, <1>8 DEF LoadTrue

\* A delivery keeps the truth.
LEMMA DeliverTruth ==
  ASSUME IdleTyped, WaitInv, Unenabled, Sound, Truth, Net!Deliver, Sound'
  PROVE  Truth'
<1>1. PICK e : e = Head(channel)
  OBVIOUS
<1>2. Takes(e) /\ e \in Events
  BY <1>1, DeliverTakes, Departure DEF Takes, IdleTyped
<1>3. Ordered' /\ RequestsTrue' /\ Phases' /\ AllCovered' /\ LoadTrue'
  BY <1>2, OrderTakes, RequestsTakes, PhasesTakes, CoverTakes, LoadTakes DEF Truth
<1>4. TrustTrue'
  <2> SUFFICES ASSUME setup = "owned", ledger'.trusted
               PROVE  fresh \/ ledger'.loader > reply'.doc
    BY <1>2 DEF Takes, TrustTrue
  <2>1. e.ev # "reply" /\ reply' = reply /\ reply.at = "here"
    <3>1. 1 \in DOMAIN channel /\ e = channel[1]
      BY <1>2, ChannelTakes
    <3> QED
      BY <1>2, <3>1 DEF Takes, Truth, Phases
  <2>2. CASE ledger' = ledger
    BY <2>1, <2>2 DEF Truth, TrustTrue
  <2>3. CASE ledger' = Net!After(ledger, e)
    <3>1. /\ ledger'.loader = IF e.ev = "navigated" THEN e.doc ELSE ledger.loader
          /\ e.ev # "navigated" => ledger'.trusted = ledger.trusted
      <4>1. ~ledger'.failed /\ ledger \in Ledgers /\ now \in 0..MaxTime
        BY DEF Sound, IdleTyped, MonitorTyped
      <4>2. PICK m : m = ledger'
        OBVIOUS
      <4>3. m = Net!After(ledger, e) /\ ~m.failed
        BY <2>3, <4>1, <4>2
      <4>4. /\ m.loader = IF e.ev = "navigated" THEN e.doc ELSE ledger.loader
            /\ e.ev # "navigated" => m.trusted = ledger.trusted
        BY <1>2, <2>1, <4>1, <4>3, AfterMakes
      <4> QED
        BY <4>2, <4>4
    <3>2. CASE e.ev = "navigated"
      <4>1. Past(e.doc)
        BY <1>2, <3>2, ChannelTakes DEF Truth, Ordered
      <4>2. reply.doc < e.doc
        BY <2>1, <4>1 DEF Past
      <4>3. e.doc \in Nat /\ reply.doc \in Nat
        BY <1>2, IdleAssumption DEF Events, IdleTyped, SetupTyped, Net!Docs, Net!NoDoc, Net!IdleConstants
      <4> QED
        BY <2>1, <3>1, <3>2, <4>2, <4>3
    <3>3. CASE e.ev # "navigated"
      BY <2>1, <3>1, <3>3 DEF Truth, TrustTrue
    <3> QED
      BY <3>2, <3>3
  <2> QED
    BY <1>2, <2>1, <2>2, <2>3 DEF Takes
<1> QED
  BY <1>3, <1>4 DEF Truth

\* As long as the monitor is served, what it will have heard is the truth.
LEMMA TruthNext ==
  ASSUME IdleTyped, WaitInv, TruthInv, [Net!Next]_Net!vars
  PROVE  TruthInv'
<1>1. Unenabled'
  BY UnenabledNext DEF TruthInv
<1> SUFFICES ASSUME Sound' PROVE Truth'
  BY <1>1 DEF TruthInv
<1>2. Sound /\ Unenabled /\ Truth
  BY SoundBefore DEF TruthInv
<1>3. CASE Net!ChromeNext
  BY <1>2, <1>3, ChromeTruth
<1>4. CASE Net!AnswersNext
  BY <1>2, <1>4, AnswerTruth
<1>5. CASE Net!Deliver
  BY <1>2, <1>5, DeliverTruth
<1>6. CASE Net!SetupNext
  BY <1>2, <1>6, SetupTruth
<1>7. CASE Net!Armed
  BY <1>2, <1>7, ArmedTruth
<1>8. CASE Net!Lose \/ Net!SetupFails \/ Net!MonitorDrop \/ Net!DetachEnds \/ Net!TargetClosed
  <2>1. Net!SetupFails => setup' = "over"
    BY DEF Net!SetupFails, Net!Dropped
  <2>2. Net!TargetClosed => ledger'.failed
    BY DEF Net!TargetClosed, Net!Becomes, Net!Failed, IdleTyped, MonitorTyped, Ledgers
  <2>3. Net!DetachEnds => setup' = "over"
    BY DEF Net!DetachEnds, Net!starting, WaitInv
  <2> QED
    BY <1>8, <2>1, <2>2, <2>3 DEF Sound, Net!Lose, Net!MonitorDrop, Net!Dropped
<1>9. CASE Net!CallerGone \/ Net!WaitNext \/ Net!Tick \/ Net!Ended \/ UNCHANGED Net!vars
  BY <1>2, <1>9, TruthStays DEF Net!CallerGone, Net!Gone, Net!WaitNext, Net!Tick, Net!Ended,
     Net!vars, Net!chrome, Net!starting, Net!monitor
<1> QED
  BY <1>3, <1>4, <1>5, <1>6, <1>7, <1>8, <1>9 DEF Net!Next

\* Nothing is told before the monitor listens.
LEMMA TruthInit ==
  ASSUME Net!Init
  PROVE  TruthInv
<1>1. /\ setup = "attach" /\ reply.at = "asked" /\ domain = 0 /\ doc = 0 /\ loading = "no"
      /\ live = {} /\ made = {} /\ cut = {} /\ channel = <<>> /\ ledger.active = {}
  BY DEF Net!Init
<1>2. DOMAIN channel = {}
  BY <1>1
<1>3. Ordered /\ RequestsTrue
  BY <1>1, <1>2 DEF Ordered, Past, RequestsTrue
<1>4. Phases
  BY <1>1, <1>2 DEF Phases, Listening
<1>5. AllCovered /\ LoadTrue /\ TrustTrue
  BY <1>1 DEF AllCovered, LoadTrue, TrustTrue
<1> QED
  BY <1>1, <1>2, <1>3, <1>4, <1>5 DEF TruthInv, Unenabled, Truth

\* The ledger was last busy before its last event.
LEMMA QuietNext ==
  ASSUME IdleTyped, QuietInv, [Net!Next]_Net!vars
  PROVE  QuietInv'
<1>0. ledger \in Ledgers /\ busyAt \in Nat /\ now \in Nat
  BY DEF IdleTyped, MonitorTyped
<1>1. ASSUME UNCHANGED <<busyAt, now>>, ledger'.failed = ledger.failed, ledger'.last = ledger.last,
             ledger'.loaded = ledger.loaded, ledger'.active = ledger.active
      PROVE  QuietInv'
  BY <1>1 DEF QuietInv, Net!IsIdle
<1>2. ASSUME UNCHANGED now, busyAt' \in {busyAt, now}, ledger'.failed \/ ledger'.last = now
      PROVE  QuietInv'
  BY <1>0, <1>2 DEF QuietInv
<1>3. ASSUME NEW l \in Ledgers, Net!Becomes(Net!Failed(l)), UNCHANGED now PROVE QuietInv'
  <2>1. Net!Failed(l).failed
    BY DEF Net!Failed, Ledgers
  <2> QED
    BY <1>2, <1>3, <2>1 DEF Net!Becomes
<1>4. CASE Net!Deliver
  <2>1. now' = now /\ (UNCHANGED Net!monitor \/
             (Net!Becomes(Net!After(ledger, Head(channel))) /\ Head(channel).ev # "reply"))
    BY <1>4 DEF Net!Deliver
  <2>2. CASE UNCHANGED Net!monitor
    BY <1>1, <2>1, <2>2 DEF Net!monitor
  <2>3. CASE Net!Becomes(Net!After(ledger, Head(channel))) /\ Head(channel).ev # "reply"
    <3>1. Head(channel) \in Events
      BY <1>4, Departure DEF Net!Deliver, IdleTyped
    <3>2. PICK m : m = Net!After(ledger, Head(channel))
      OBVIOUS
    <3>3. m.failed \/ m.last = now
      BY <1>0, <2>3, <3>1, <3>2, AfterMakes DEF IdleTyped, MonitorTyped
    <3> QED
      BY <1>2, <2>1, <2>3, <3>2, <3>3 DEF Net!Becomes
  <2> QED
    BY <2>1, <2>2, <2>3
<1>5. CASE Net!SetupNext
  BY <1>0, <1>1, <1>5 DEF Net!SetupNext, Net!Attached, Net!TreeKnown, Net!Enabled, Net!monitor, Ledgers
<1>6. CASE Net!Armed
  <2> DEFINE l == [ledger EXCEPT !.armed = TRUE, !.trusted = fresh]
  <2>1. /\ l \in Ledgers /\ l.failed = ledger.failed /\ l.last = ledger.last
        /\ l.loaded = ledger.loaded /\ l.active = ledger.active
    BY <1>0 DEF Ledgers, IdleTyped, SetupTyped
  <2>2. now' = now /\ ((ledger' = l /\ busyAt' = busyAt) \/ Net!Becomes(Net!Failed(l)))
    BY <1>6 DEF Net!Armed
  <2> HIDE DEF l
  <2> QED
    BY <1>1, <1>3, <2>1, <2>2
<1>7. CASE Net!Lose \/ Net!SetupFails \/ Net!MonitorDrop \/ Net!TargetClosed
  <2>1. now' = now /\ (UNCHANGED Net!monitor \/ Net!Becomes(Net!Failed(ledger)))
    BY <1>7 DEF Net!Lose, Net!SetupFails, Net!MonitorDrop, Net!TargetClosed, Net!Dropped
  <2> QED
    BY <1>0, <1>1, <1>3, <2>1 DEF Net!monitor
<1>8. CASE Net!Tick
  BY <1>0, <1>8 DEF Net!Tick, QuietInv, Net!IsIdle
<1>9. CASE \/ Net!ChromeNext \/ Net!AnswersNext \/ Net!CallerGone \/ Net!DetachEnds \/ Net!WaitNext
           \/ Net!Ended \/ UNCHANGED Net!vars
  BY <1>1, <1>9 DEF Net!ChromeNext, Net!AnswersNext, Net!CallerGone, Net!DetachEnds,
     Net!WaitNext, Net!Ended, Net!vars, Net!monitor
<1> QED
  BY <1>4, <1>5, <1>6, <1>7, <1>8, <1>9 DEF Net!Next

\* A wait that succeeds has looked at a ledger that is trusted and idle.
LEMMA Succeeds ==
  ASSUME IdleTyped, WaitInv, Net!Next, NEW w \in Waiters,
         wait[w].pc = "check", wait'[w].pc = "idle"
  PROVE  /\ ~ledger.failed /\ ledger.trusted /\ Net!IsIdle(ledger) /\ setup = "owned" /\ ~down
         /\ now >= Net!QuietSince(w) + Idle /\ ~(Timeout # 0 /\ now > Net!Deadline(w))
<1>1. ~\E l : Net!Becomes(l)
  <2> SUFFICES ASSUME NEW l, Net!Becomes(l) PROVE FALSE
    OBVIOUS
  <2>1. wait'[w] = [wait[w] EXCEPT !.woken = wait[w].pc \in {"check", "asleep"}]
    BY DEF Net!Becomes, Net!WokenUp
  <2>2. wait'[w].pc = wait[w].pc
    BY <2>1 DEF IdleTyped, MonitorTyped, Calls
  <2> QED
    BY <2>2
<1>2. Net!WaitNext
  BY <1>1 DEF Net!Next, Net!ChromeNext, Net!AnswersNext, Net!Deliver, Net!Lose, Net!SetupNext, Net!Attached,
     Net!TreeKnown, Net!Enabled, Net!Armed, Net!SetupFails, Net!Dropped, Net!CallerGone,
     Net!MonitorDrop, Net!DetachEnds, Net!TargetClosed, Net!Tick, Net!Ended, Net!vars, Net!monitor
<1>3. Net!Check(w)
  <2>1. PICK v \in Waiters : Net!BeginWait(v) \/ Net!Check(v) \/ Net!Wakes(v) \/ Net!GiveUp(v)
    BY <1>2 DEF Net!WaitNext
  <2>2. v = w
    BY <2>1 DEF Net!BeginWait, Net!Check, Net!Wakes, Net!GiveUp, IdleTyped, MonitorTyped
  <2> QED
    BY <2>1, <2>2 DEF Net!BeginWait, Net!Wakes, Net!GiveUp, Net!Call, IdleTyped, MonitorTyped
<1>4. /\ ~(ledger.failed \/ ~ledger.trusted \/ Net!Expired(w))
      /\ Net!IsIdle(ledger) /\ now >= Net!QuietSince(w) + Idle
  BY <1>3 DEF Net!Check, Net!Call, IdleTyped, MonitorTyped, Calls
<1>5. setup = "owned"
  BY DEF WaitInv, Waits
<1> QED
  BY <1>4, <1>5 DEF Net!Expired, WaitInv

\* Whatever was navigated, redirected or cut short, and whenever the session was set up: a wait
\* that succeeds is right that the top document has no request running and is not being loaded,
\* up to events still in the socket, and has waited its quiet period, within its deadline if it had time
\* (IdleState::event, wait, quiet_since).
THEOREM IdleIsHonest == Net!Spec => IdleHonest
<1> DEFINE Right ==
             \A w \in Waiters : wait[w].pc = "check" /\ wait'[w].pc = "idle" =>
               \/ \E i \in DOMAIN channel : channel[i].ev = "crashed"
               \/ /\ \A x \in live : x[2] = doc => Net!InChannel(Net!Event("started", doc, x[1]))
                  /\ loading \in {"provisional", "committed"} =>
                       \E i \in DOMAIN channel : channel[i].ev \in {"loading", "navigated"}
           Quiet ==
             \A w \in Waiters : wait[w].pc = "check" /\ wait'[w].pc = "idle" =>
               /\ now >= Net!Later(busyAt, wait[w].start) + Idle
               /\ Timeout # 0 => now <= Net!Deadline(w)
<1>1. Net!Init => TruthInv /\ QuietInv
  <2> SUFFICES ASSUME Net!Init PROVE TruthInv /\ QuietInv
    OBVIOUS
  <2>1. busyAt = 0 /\ now = 0 /\ ledger.last = 0
    BY DEF Net!Init
  <2> QED
    BY <2>1, TruthInit DEF QuietInv
<1>2. IdleTyped /\ WaitInv /\ TruthInv /\ QuietInv /\ [Net!Next]_Net!vars => TruthInv' /\ QuietInv'
  BY TruthNext, QuietNext
<1>3. ASSUME IdleTyped, WaitInv, TruthInv, QuietInv, Net!Next, NEW w \in Waiters,
             wait[w].pc = "check", wait'[w].pc = "idle"
      PROVE  /\ \/ \E i \in DOMAIN channel : channel[i].ev = "crashed"
                \/ /\ \A x \in live : x[2] = doc => Net!InChannel(Net!Event("started", doc, x[1]))
                   /\ loading \in {"provisional", "committed"} =>
                        \E i \in DOMAIN channel : channel[i].ev \in {"loading", "navigated"}
             /\ now >= Net!Later(busyAt, wait[w].start) + Idle
             /\ Timeout # 0 => now <= Net!Deadline(w)
  <2>1. /\ ~ledger.failed /\ ledger.trusted /\ Net!IsIdle(ledger) /\ setup = "owned" /\ ~down
        /\ now >= Net!QuietSince(w) + Idle /\ ~(Timeout # 0 /\ now > Net!Deadline(w))
    BY <1>3, Succeeds
  <2>2. /\ now \in Nat /\ busyAt \in Nat /\ ledger.last \in Nat /\ wait[w].start \in Nat
        /\ Idle \in Nat /\ Timeout \in Nat
    BY <1>3, IdleAssumption DEF IdleTyped, MonitorTyped, Ledgers, Calls, Net!IdleConstants
  <2>3. busyAt <= ledger.last
    BY <1>3, <2>1 DEF QuietInv
  <2>4. now >= Net!Later(busyAt, wait[w].start) + Idle
    BY <2>1, <2>2, <2>3 DEF Net!QuietSince, Net!Later
  <2>5. Timeout # 0 => now <= Net!Deadline(w)
    BY <2>1, <2>2 DEF Net!Deadline
  <2>6. ASSUME \A i \in DOMAIN channel : channel[i].ev # "crashed"
        PROVE  /\ \A x \in live : x[2] = doc => Net!InChannel(Net!Event("started", doc, x[1]))
               /\ loading \in {"provisional", "committed"} =>
                    \E i \in DOMAIN channel : channel[i].ev \in {"loading", "navigated"}
    <3>1. Truth /\ channel \in Seq(Events)
      BY <1>3, <2>1, <2>6 DEF TruthInv, Sound, IdleTyped, ChannelTyped
    <3>2. Seen(doc)
      <4>1. reply.at = "here" /\ (fresh \/ ledger.loader > reply.doc)
        BY <2>1, <3>1 DEF Truth, Phases, TrustTrue
      <4>2. ledger.loader < doc + 1
        BY <2>1, <3>1 DEF Truth, Ordered, Past
      <4>3. doc \in Nat /\ ledger.loader \in Nat /\ reply.doc \in Nat
        BY <1>3, IdleAssumption DEF IdleTyped, ChromeTyped, MonitorTyped, SetupTyped, Ledgers,
           Net!Docs, Net!NoDoc, Net!IdleConstants
      <4>4. fresh \/ doc > reply.doc
        BY <4>1, <4>2, <4>3
      <4> QED
        BY <2>1, <4>1, <4>4 DEF Seen, Floors, Listening
    <3>3. ASSUME NEW x \in live, x[2] = doc
          PROVE  Net!InChannel(Net!Event("started", doc, x[1]))
      <4>1. Covered(x) /\ x \notin ledger.active
        BY <2>1, <3>1, <3>2, <3>3 DEF Truth, AllCovered, Net!IsIdle
      <4>2. PICK i \in DOMAIN channel :
              channel[i].ev = "started" /\ channel[i].doc = x[2] /\ channel[i].req = x[1]
        BY <4>1 DEF Covered
      <4>3. channel[i] \in Events
        BY <3>1
      <4>4. channel[i] = Net!Event("started", doc, x[1])
        BY <3>3, <4>2, <4>3 DEF Events, Net!Event
      <4> QED
        BY <4>4 DEF Net!InChannel
    <3>4. loading \in {"provisional", "committed"} =>
            \E i \in DOMAIN channel : channel[i].ev \in {"loading", "navigated"}
      BY <2>1, <3>1, <3>2 DEF Truth, LoadTrue, Begins, Net!IsIdle
    <3> QED
      BY <3>3, <3>4
  <2> QED
    BY <2>4, <2>5, <2>6
<1>4. IdleTyped /\ WaitInv /\ TruthInv /\ QuietInv /\ [Net!Next]_Net!vars =>
        [Right]_Net!vars /\ [Quiet]_Net!vars
  BY <1>3
<1> QED
  BY <1>1, <1>2, <1>4, WaitsInit, WaitsNext, TypesHold, IdleAssumption, PTL
     DEF Net!Spec, IdleHonest, Net!IdleHonest, Net!IdleIsTrue, Net!QuietPeriodKept
=============================================================================
