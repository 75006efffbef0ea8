SPECIFICATION Spec
CONSTANTS
  Runs = {r1, r2}
  Conns = {c1, c2}
  MaxChunks = 1
  MaxRestarts = 0
INVARIANT
  HistoryIsComplete
CHECK_DEADLOCK FALSE
