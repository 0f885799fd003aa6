\* One pool session, on Python 3.12.
CONSTANTS
  s1 = s1  s2 = s2  q1 = q1  t1 = t1  web = web  None = None  Main = Main
  Sessions = {s1}
  Publics = {}
  Tunnels = {}
  RegularNames = {web}
  Ports = {1}
  PoolPorts = {1}
  BusyPorts = {}
  Configured <- NoConfigured
  AllowDynamic = FALSE
  Priorities = {0}
  Requests <- OnePool
  Stalled = {}
  Py311 = TRUE
  Py312 = TRUE
  Few = 1
SPECIFICATION FairLifecycleSpec
PROPERTY RestartCompletes
