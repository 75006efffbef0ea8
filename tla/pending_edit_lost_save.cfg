SPECIFICATION Spec
CONSTANTS
  Texts = {t0, t1}
  EmptyText = t0
  ApiEdits = {a1}
  AcpEdits = {p1}
  Sessions = {s1}
  Accepts = {x1, x2}
  NoEdit = NoEdit
  NoText = NoText
  Missing = Missing
INVARIANTS
  AcceptNeverLosesASave
CHECK_DEADLOCK FALSE
