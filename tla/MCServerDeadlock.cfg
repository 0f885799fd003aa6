\* Two pool sessions that compete for one port, a public user and a tunnel, on
\* Python 3.12. The violation is a deadlock; the property names what it stops.
CONSTANTS
  s1 = s1  s2 = s2  q1 = q1  t1 = t1  web = web  None = None
  Sessions = {s1, s2}
  Publics = {q1}
  Tunnels = {t1}
  RegularNames = {web}
  Ports = {1}
  PoolPorts = {1}
  BusyPorts = {}
  Configured <- NoConfigured
  AllowDynamic = FALSE
  Priorities = {0}
  Requests <- OnePool
  Stalled = {}
  Py311 = TRUE
  Py312 = TRUE
SPECIFICATION FiniteRelaySpec
PROPERTY PublicEnds
CHECK_DEADLOCK FALSE
