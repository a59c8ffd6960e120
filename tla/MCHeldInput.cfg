CONSTANTS
  Futures = {f1, f2}
  Inputs = {Left, Key}
  Left = Left
  Ops = {"click", "double", "text", "down", "up", "release", "drag", "shadow"}
  Nobody = Nobody
SPECIFICATION FairSpec
INVARIANT InputTracked
INVARIANT ReceiptTrue
PROPERTY ActionsAlone
PROPERTY EveryFutureEnds
