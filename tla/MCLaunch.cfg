CONSTANTS
  Launches = {l1, l2, l3}
  Shared = {l1, l2}
  User = User
  Ports = {1, 2}
  Nobody = Nobody
  Patchers = {p1, p2}
  None = None
  MaxVersion = 1
SPECIFICATION HostSpec
INVARIANT EndpointKept
INVARIANT DirectoryOutlivesChrome
PROPERTY AbandonedLaunchEnds
PROPERTY CopyTrue
