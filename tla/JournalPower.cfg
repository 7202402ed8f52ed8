SPECIFICATION Spec
CONSTANTS
  Path = {p1, p2}
  Value = {v1, v2}
  Absent = Absent
  Op = {1, 2}
  NoOp = NoOp
  Client = {"merge"}
  Faults = {"power"}
INVARIANTS BackupBeforeRecord
 
