\* Three pool sessions that ask for one service each, two ports, priorities 0
\* and 1; another process holds port 2 at times. No data connections.
CONSTANTS
  s1 = s1  s2 = s2  s3 = s3  web = web  None = None
  Sessions = {s1, s2, s3}
  Publics = {}
  Tunnels = {}
  RegularNames = {web}
  Ports = {1, 2}
  PoolPorts = {1, 2}
  BusyPorts = {2}
  Configured <- NoConfigured
  AllowDynamic = FALSE
  Priorities = {0, 1}
  Requests <- OnePool
  Stalled = {}
  Py311 = TRUE
  Py312 = FALSE
SPECIFICATION Spec
SYMMETRY SessionSymmetry
INVARIANTS ServiceListening NoOrphanListener ServedUnlessEvicted EvictedIsTold EvictionPays
PROPERTIES EvictionRule PoolPromise
