SPECIFICATION Spec
CONSTANTS
  p1 = p1
  p2 = p2
  a1 = a1
  a2 = a2
  b1 = b1
  Proc = {p1, p2}
  Atom = {a1, a2, b1}
  Request <- TwoRequests
  Default = Default
  Private = {f1}
  Cleaner = TRUE
  MaxUndo = 2
  Faults = {}
  NoOne = NoOne
  NoFile = NoFile
  Empty = Empty
INVARIANT OwnCheckpoint
CHECK_DEADLOCK FALSE
