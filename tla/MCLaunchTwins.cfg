CONSTANTS
  Launches = {l1, l2}
  Shared = {l1, l2}
  User = User
  Ports = {1, 2}
  Nobody = Nobody
  Patchers = {p1}
  None = None
  MaxVersion = 1
SPECIFICATION HostSpec
INVARIANT DiscoveryIsOwn
