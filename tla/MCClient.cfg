\* Two tunnel tasks, two servers that may answer at the address; a configured
\* fingerprint, or none. Python 3.11.
CONSTANTS
  t1 = t1  t2 = t2  None = None
  Bytes = {0, 1}
  Length = 3
  Tasks = {t1, t2}
  Certs <- TwoCerts
  Patterns <- Written
  Py311 = TRUE
  Py312 = FALSE
SPECIFICATION FairSpec
INVARIANTS TypeOK OnlyTrusted NoTaskLeft NothingLeftOpen
PROPERTIES TrustKept Reconnects UpdateStops
