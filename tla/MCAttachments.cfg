CONSTANTS
  c1 = c1
  c2 = c2
  f1 = f1
  f2 = f2
  Calls = {c1, c2}
  Ops <- MCOps
  Frames = {f1, f2}
  Root = Root
  None = None
  Box <- MCBox
  RootSize = 6
  Places = {0, 1}
  Nodes = {2}
  Attempts = 2
  MaxPolls = 1
  MaxChanges = 1
  MaxLost = 1
SPECIFICATION Spec
CONSTRAINT SnapshotBesideAttach
CHECK_DEADLOCK FALSE
INVARIANT SnapshotTrue
INVARIANT SessionsReturned
INVARIANT StateShared
PROPERTY PointTrue
