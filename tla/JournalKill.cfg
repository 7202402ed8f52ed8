SPECIFICATION Spec
CONSTANTS
  Path = {p1, p2}
  Value = {v1}
  Absent = Absent
  Op = {1, 2}
  NoOp = NoOp
  Client = {"merge", "unmerge"}
  Faults = {"error", "kill"}
INVARIANTS TypeOK OneActive Undoable
PROPERTIES Atomic
