\* Two pool sessions that compete for one port, one of which may stop reading,
\* on Python 3.11; an update or Ctrl+C at any moment.
CONSTANTS
  s1 = s1  s2 = s2  q1 = q1  t1 = t1  web = web  None = None  Main = Main
  Sessions = {s1, s2}
  Publics = {q1}
  Tunnels = {t1}
  RegularNames = {web}
  Ports = {1}
  PoolPorts = {1}
  BusyPorts = {}
  Configured <- NoConfigured
  AllowDynamic = FALSE
  Priorities = {0}
  Requests <- OnePool
  Stalled = {s2}
  Py311 = TRUE
  Py312 = FALSE
  Few = 2
SPECIFICATION FewSpec
INVARIANT NoticeFirst
 
