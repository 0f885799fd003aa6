\* Two sessions that register configured and dynamic services, a public user
\* and two tunnels; no port pool; on Python 3.12, where a duplicate name may
\* deadlock the server.
CONSTANTS
  s1 = s1  s2 = s2  q1 = q1  t1 = t1  t2 = t2  web = web  app = app  None = None
  Sessions = {s1, s2}
  Publics = {q1}
  Tunnels = {t1, t2}
  RegularNames = {web, app}
  Ports = {7, 8}
  PoolPorts = {}
  BusyPorts = {8}
  Configured <- WebConfigured
  AllowDynamic = TRUE
  Priorities = {0}
  Requests <- Mixed
  Stalled = {}
  Py311 = TRUE
  Py312 = TRUE
SPECIFICATION Spec
SYMMETRY Symmetry
CHECK_DEADLOCK FALSE
INVARIANTS TypeOK ServedUnlessEvicted AllOrNothing PendingHasHandler
INVARIANT OneTunnelPerClaim
