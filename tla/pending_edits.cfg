SPECIFICATION Spec
CONSTANTS
  Texts = {t0, t1}
  EmptyText = t0
  ApiEdits = {a1, a2}
  AcpEdits = {p1}
  Sessions = {s1}
  Accepts = {x1, x2}
  NoEdit = NoEdit
  NoText = NoText
  Missing = Missing
SYMMETRY Symmetry
INVARIANTS
  TypeOK
  StoreConsistent
  UndisturbedAcceptReplacesBase
PROPERTIES
  ResolvedForGood
CHECK_DEADLOCK FALSE
