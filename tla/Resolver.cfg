SPECIFICATION Spec
CONSTANTS
    Extends <- LongerNames
    Names <- NamesInOrder
    Nothing = Nothing
    Something = Something
  
PROPERTY SnapshotsKept
CHECK_DEADLOCK FALSE
