CONSTANTS
    None = None
    Links = TRUE
SPECIFICATION Spec
INVARIANT RollbackSucceeds
CHECK_DEADLOCK FALSE
