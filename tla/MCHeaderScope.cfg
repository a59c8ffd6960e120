CONSTANTS
  u1 = u1
  u2 = u2
  u3 = u3
  s1 = s1
  s2 = s2
  Users = {u1, u2, u3}
  Sessions = {s1, s2}
  Free = Free
  Task = Task
  NoUser = NoUser
SPECIFICATION MCSpec
INVARIANT HeadersClean
PROPERTY FencePassesClean
PROPERTY EveryOperationEnds
