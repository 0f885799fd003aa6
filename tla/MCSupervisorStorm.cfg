\* The metadata may name another version than the one imported, and a child
\* may die during validation.
CONSTANTS
  v1 = v1  v2 = v2  v3 = v3  g1 = g1  g2 = g2  g3 = g3  None = None
  Versions = {v1, v2}
  Shipped = v1
  Generations = {g1, g2}
  Limit = 3
  AutoRestart = TRUE
  Ages = FALSE
  MayShadow = TRUE
  Frail = {"boot", "up"}
  Quiet = {"spawned", "terminate", "kill"}
  MaxInstalls = 1
SPECIFICATION Spec
INVARIANT BoundedAttempts
