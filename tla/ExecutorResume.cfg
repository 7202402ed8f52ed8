SPECIFICATION Spec
CONSTANTS
  Pkg = {1, 2, 3}
  Blocker = {x}
  Requester <- RequesterOfX
  Jobs = 2
  Reserve = 2
  Floor = 1
  Free = {0, 1, 3}
  MaxRuns = 3
  Faults = {"save", "build", "removal", "record", "mark", "finish", "kill"}
  External = {}
  NoOne = NoOne
  Other = Other
INVARIANTS PrerequisitesCommitted CheckpointKeepsUncommitted VerdictIsTrue
CHECK_DEADLOCK FALSE
