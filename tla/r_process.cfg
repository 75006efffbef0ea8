SPECIFICATION Spec
CONSTANTS
  Jobs = {j1, j2}
  Resets = {s1}
  Interrupts = {i1}
  MaxLines = 1
SYMMETRY Symmetry
INVARIANTS
  OutputIsOwn
  DebtBounded
  OneVictimPerInterrupt
CHECK_DEADLOCK FALSE
