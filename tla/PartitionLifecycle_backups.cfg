CONSTANTS
    p1 = p1
    Parts = {p1}
    BackupEnabled = TRUE
SPECIFICATION FairSpec
\* The process may exit.
CHECK_DEADLOCK FALSE
INVARIANTS
    TypeOK
    NoStrayGoroutines
    TokensInv
PROPERTIES
    RemovalEnds
    ShutdownEnds
    GCProceeds
