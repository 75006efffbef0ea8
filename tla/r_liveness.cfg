SPECIFICATION FairSpec
CONSTANTS
  Jobs = {j1}
  Resets = {s1}
  Interrupts = {i1}
  MaxLines = 1
PROPERTIES
  AllAnswered
CHECK_DEADLOCK FALSE
