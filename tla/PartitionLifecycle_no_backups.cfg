CONSTANTS
    p1 = p1
    Parts = {p1}
    BackupEnabled = FALSE
SPECIFICATION FairSpec
\* The process may exit.
CHECK_DEADLOCK FALSE
PROPERTY RemovalEnds
