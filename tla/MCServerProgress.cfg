\* Two pool sessions that compete for one port, which another process may
\* hold at times and one of which may stop reading, a public user and a tunnel,
\* on Python 3.11, under fair scheduling.
CONSTANTS
  s1 = s1  s2 = s2  q1 = q1  t1 = t1  web = web  None = None
  Sessions = {s1, s2}
  Publics = {q1}
  Tunnels = {t1}
  RegularNames = {web}
  Ports = {1}
  PoolPorts = {1}
  BusyPorts = {1}
  Configured <- NoConfigured
  AllowDynamic = FALSE
  Priorities = {0}
  Requests <- OnePool
  Stalled = {s2}
  Py311 = TRUE
  Py312 = FALSE
SPECIFICATION FairSpec
INVARIANTS ServedByAcceptor NoStrandedTunnel
PROPERTIES LossIsTold RegistrationAnswered PublicSettles PublicEnds
