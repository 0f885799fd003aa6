\* Python 3.11 or later: the close of a tunnel connection has a limit.
CONSTANTS MaxChunks <- MCMaxChunks Py311 = TRUE
SPECIFICATION FairSpec
INVARIANTS TypeOK UndisturbedComplete
PROPERTIES RelayPromise CloseSpreads RelayEnds
