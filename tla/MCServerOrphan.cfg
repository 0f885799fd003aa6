\* One session that may ask for two pool services in one request.
CONSTANTS
  s1 = s1  s2 = s2  s3 = s3  web = web  None = None
  Sessions = {s1}
  Publics = {}
  Tunnels = {}
  RegularNames = {web}
  Ports = {1, 2}
  PoolPorts = {1, 2}
  BusyPorts = {}
  Configured <- NoConfigured
  AllowDynamic = FALSE
  Priorities = {0}
  Requests <- TwoPools
  Stalled = {}
  Py311 = TRUE
  Py312 = FALSE
SPECIFICATION Spec
INVARIANT ListenersClosed
