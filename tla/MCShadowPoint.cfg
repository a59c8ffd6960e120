CONSTANTS
  c1 = c1
  c2 = c2
  f1 = f1
  f2 = f2
  Calls = {c1}
  Ops <- ShadowOps
  Frames = {f1, f2}
  Root = Root
  None = None
  Box <- MCBox
  RootSize = 6
  Places = {0, 1}
  Nodes = {2}
  Attempts = 2
  MaxPolls = 1
  MaxChanges = 1
  MaxLost = 1
SPECIFICATION Spec
CHECK_DEADLOCK FALSE
PROPERTY ShadowPointMapped
