SPECIFICATION ProcSpec
CHECK_DEADLOCK FALSE
INVARIANTS
    ProcTypeOK
PROPERTIES
    NoOrphan
    WindowsNotices
