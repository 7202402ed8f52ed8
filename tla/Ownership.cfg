CONSTANTS
    Version <- MCVersion
    Slot <- MCSlot
    Image <- MCImage
    Needs <- MCNeeds
    Path <- MCPath
    Order <- MCOrder
    Pending <- MCPending
    Soname <- MCSoname
    NoSoname = "none"
    BaseName <- MCBaseName
    UserValue = "user"
    MaxEdits = 2
SPECIFICATION Spec
INVARIANT OneOwner
PROPERTY FilesKept
