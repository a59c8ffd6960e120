CONSTANTS
  d1 = d1
  d2 = d2
  act = act
  t0 = t0
  t1 = t1
  t2 = t2
  Downloads = {d1, d2}
  Action = act
  Clients <- ClientSets
  Tabs = {t0, t1, t2}
  Origin = t0
  Scopes = {"NewTab", "CurrentOrNew"}
  None = None
  Depth = 2
  Cap = 2
  MaxOpeners = 1
  MaxCandidates = 1
  MaxLog <- Events
  Requests = {a, b}
  MaxActive = 1
  Idle = 1
  Timeout = 1
  Waiters = {w1}
  MaxDoc = 1
  Backlog = 2
  MaxTime = 2
SPECIFICATION WatchesSpec
SYMMETRY Symmetry
CONSTRAINT UntilWaitsEnd
CHECK_DEADLOCK FALSE
INVARIANT BehaviourOwned
INVARIANT AncestryTrue
INVARIANT DestinationIsOwn
INVARIANT SessionsReturned
INVARIANT SleepsOnTheTruth
INVARIANT RouteHasOwner
PROPERTY IdleHonest
