\* The metadata may name another version than the one imported; a child may
\* die before it reports but lives through validation; failures stay in the
\* window; the processes are fair.
CONSTANTS
  v1 = v1  v2 = v2  v3 = v3  g1 = g1  g2 = g2  g3 = g3  None = None
  Versions = {v1, v2}
  Shipped = v1
  Generations = {g1, g2}
  Limit = 3
  AutoRestart = TRUE
  Ages = FALSE
  MayShadow = TRUE
  Frail = {"boot"}
  Quiet = {"spawned", "terminate", "kill"}
  MaxInstalls = 2
SPECIFICATION FairSpec
INVARIANT BoundedAttempts
PROPERTIES UpdateTakesEffect InterruptEnds
