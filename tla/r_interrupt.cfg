SPECIFICATION Spec
CONSTANTS
  Jobs = {j1, j2}
  Resets = {}
  Interrupts = {i1}
  MaxLines = 1
INVARIANTS
  InterruptedRunsWereRunning
CHECK_DEADLOCK FALSE
