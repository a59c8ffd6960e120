CONSTANTS
  o1 = o1
  o2 = o2
  pump = pump
  late = late
  Requests = {r1, r2}
  Owners = {o1, o2}
  Pump = pump
  Late = late
  Cases <- AllCases
  None = None
  QueueCap = 1
  LogCap = 2
  TableCap = 1
  StreamCap = 1
SPECIFICATION FairSpec
CHECK_DEADLOCK FALSE
INVARIANT PauseAccounted
INVARIANT PolicyKept
INVARIANT WatcherHonest
PROPERTY ReceiversEnd
