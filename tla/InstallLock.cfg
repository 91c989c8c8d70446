SPECIFICATION LockSpec
CONSTANTS
    Procs = {"setup", "update", "uninstall"}
    Nobody = Nobody
CHECK_DEADLOCK FALSE
INVARIANTS
    OneHolder
PROPERTIES
    LiveLockStays
