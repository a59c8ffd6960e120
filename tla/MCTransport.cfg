CONSTANTS
  Callers = {c1, c2}
  Tokens = {t1, t2}
  Sessions = {s1}
  NoToken = NoToken
  NoSession = NoSession
  Free = Free
  ReaderTask = ReaderTask
  CloserTask = CloserTask
  AutoBase = 10
  MaxAuto = 1
SPECIFICATION Spec
SYMMETRY Symmetry
INVARIANT NoWaiterLost
INVARIANT RoutesMatchPending
INVARIANT DispatchObserved
PROPERTY ContractSpec
CONSTRAINT AutoMeetsOne
