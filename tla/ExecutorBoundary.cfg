SPECIFICATION FairSpec
CONSTANTS
  Pkg = {1, 2}
  Blocker = {x}
  Requester <- RequesterOfX
  Jobs = 2
  Reserve = 2
  Floor = 1
  Free = {0, 2, 3}
  MaxRuns = 2
  Faults = {"preflight", "build", "lock", "prepare", "removal", "merge", "leave", "signal", "kill"}
  External = {"unrelated", "protected", "policy"}
  NoOne = NoOne
  Other = Other
INVARIANT QuietAfterReturn
PROPERTIES BoundaryIsGuarded RefusalHasOutsideCause Returns
CHECK_DEADLOCK FALSE
