SPECIFICATION Spec
CONSTANTS
  Runs = {r1, r2}
  Conns = {c1, c2}
  MaxChunks = 2
  MaxRestarts = 1
INVARIANTS
  TypeOK
  ExecutorExclusive
  BufferIsRecentOutput
  RecordsNeverAhead
PROPERTIES
  ImplementsProtocol
CHECK_DEADLOCK FALSE
