CONSTANTS
    None = None
    Links = FALSE
SPECIFICATION Spec
INVARIANTS
    UndoIsExact RecoverySetsHold StoreIsIntact ConfigWorkIsKept RepairsAreWhole
    MaintenanceKeepsState CommandsKeepPromises IndexFollowsRepositories
 
CHECK_DEADLOCK FALSE
