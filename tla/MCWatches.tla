------------------------------ MODULE MCWatches ------------------------------
(***************************************************************************)
(* An instance for TLC of the watches of a browser's tabs: two futures     *)
(* that contend for the download behaviour, or one action with its watch,  *)
(* over three tabs; and of the network idle monitor of one target.  The    *)
(* two share no state, so a behaviour runs one part and keeps the other.   *)
(***************************************************************************)
EXTENDS TabWatch, IdlePart

LOCAL INSTANCE TLC

CONSTANTS d1, d2, act, t0, t1, t2
ClientSets == {{d1, d2}, {d1}, {act}}
Events == [c \in ClientSets |-> IF c = {d1, d2} THEN 0 ELSE IF c = {act} THEN 4 ELSE 3]

VARIABLE part
idleVars ==
  <<doc, loading, made, live, cut, domain, channel, fresh, setup, reply, caller, route, ledger,
    wait, detaching, down, now, busyAt>>

\* Destinations are for actions only, and of two contenders the tabs make no difference.
Cases ==
  /\ act \notin clients => scope = "NewTab"
  /\ clients = {d1, d2} => alive = {Origin}
TabsAtRest == clients = {d1} /\ alive = {Origin}
IdleAtRest == ~fresh

WatchesInit ==
  /\ part \in {"tabs", "idle"} /\ Init /\ Cases /\ Net!Init
  /\ IF part = "tabs" THEN IdleAtRest ELSE TabsAtRest

WatchesNext ==
  /\ UNCHANGED part
  /\ \/ part = "tabs" /\ Next /\ UNCHANGED idleVars
     \/ part = "idle" /\ Net!Next /\ UNCHANGED vars

WatchesSpec == WatchesInit /\ [][WatchesNext]_<<part, vars, idleVars>>

\* Bound: a behaviour of the idle monitor ends with its last wait; what the monitor's drop
\* does after it, it does without one.
UntilWaitsEnd == \E w \in Waiters : wait[w].pc \notin {"idle", "failed"}

\* Only one part moves, so the tabs or the requests are exchanged together with the others.
Symmetry ==
  {p \in Permutations({t1, t2} \cup Requests) :
     /\ {p[t1], p[t2]} = {t1, t2}
     /\ p[t1] = t1 <=> \A r \in Requests : p[r] = r}
=============================================================================
