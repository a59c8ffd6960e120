CONSTANTS
  Pauses = {p1, p2, p3, q1}
  Own = {p1, p2, p3}
  QueueCap = 2
  MaxResponses = 2
  MaxBody = 2
  MaxTotal = 3
  NoPause = NoPause
SPECIFICATION CaptureSpec
INVARIANT Accounting
PROPERTY EveryPauseReleased
PROPERTY AbandonedCaptureEnds
