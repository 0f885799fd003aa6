\* Anything may go wrong, but no Ctrl+C arrives while a child is being
\* started or terminated.
CONSTANTS
  v1 = v1  v2 = v2  v3 = v3  g1 = g1  g2 = g2  g3 = g3  None = None
  Versions = {v1, v2, v3}
  Shipped = v1
  Generations = {g1, g2}
  Limit = 3
  AutoRestart = TRUE
  Ages = TRUE
  MayShadow = TRUE
  Frail = {"boot", "up"}
  Quiet = {"spawned", "terminate", "kill"}
  MaxInstalls = 2
SPECIFICATION Spec
SYMMETRY GenerationSymmetry
INVARIANTS TypeOK OneChild NothingLeftBehind SameState KeepsServing
