--------------------------- MODULE MCEventRouting ---------------------------
(***************************************************************************)
(* An instance of EventRouting for TLC: two requests, and either two owners *)
(* in turn or two subscribers, one of which feeds the NetworkWatcher.       *)
(***************************************************************************)
EXTENDS EventRouting

CONSTANTS o1, o2, pump, late
Case(who, s, a) == [clients |-> who, strip |-> s, auth |-> a]
OwnersAndPolicies ==
  {Case({o1, o2}, FALSE, FALSE), Case({o1, o2}, TRUE, FALSE), Case({o1, o2}, FALSE, TRUE)}
Watching == {Case({pump}, FALSE, FALSE), Case({late}, FALSE, TRUE)}
AllCases == OwnersAndPolicies \cup Watching
=============================================================================
