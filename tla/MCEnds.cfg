CONSTANTS
  Callers = {c1}
  Tokens = {t1}
  Sessions = {s1}
  NoToken = NoToken
  NoSession = NoSession
  Free = Free
  ReaderTask = ReaderTask
  CloserTask = CloserTask
  AutoBase = 10
  MaxAuto = 1
  f1 = f1
  f2 = f2
  v1 = v1
  v2 = v2
  Viewers = {f1, f2}
  Conns = {v1, v2}
  Conn <- ConnOf
  Sizes = {small}
  Native = Native
  None = None
SPECIFICATION EndsSpec
CHECK_DEADLOCK FALSE
INVARIANT ViewportOwned
INVARIANT MetricsTrue
PROPERTY EveryCommandEnds
PROPERTY EveryCallEnds
