CONSTANTS
    Procs = {"old", "new1", "new2"}
    NoSocket = "none"
    Version <- MixedVersions
    Crashes = 2

SPECIFICATION FairOwnershipSpec

CHECK_DEADLOCK FALSE

INVARIANTS
    SocketIsItsOwners

PROPERTIES
    StartsEnd
