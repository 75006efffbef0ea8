SPECIFICATION FairSpec
CONSTANTS
  Runs = {r1, r2}
  Conns = {c1, c2}
  MaxChunks = 1
  MaxRestarts = 1
PROPERTIES
  AcceptedRunsFinish
CHECK_DEADLOCK FALSE
