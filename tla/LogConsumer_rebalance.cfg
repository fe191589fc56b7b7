CONSTANTS
    n1 = n1
    n2 = n2
    p1 = p1
    p2 = p2
    k1 = k1
    x = x
    y = y
    NoIf = NoIf
    NoData = NoData
    Absent = Absent
    Nobody = Nobody
    NoDB = NoDB
    Lost = Lost
    Nodes = {n1, n2}
    Parts = {p1}
    Keys = {k1}
    Data = {x, y}
    Times = {1, 2}
    Stmts <- MCStmts
    CompareIfStatement <- MCCompareIfStatement
    Mutations <- Failing
    MaxLog <- RecordsOnP1
    MaxFetch = 2
    MaxCrashes = 1
    MaxRebalances = 1
    BackupEnabled = TRUE
SPECIFICATION Spec
CONSTRAINT DistinctRecords
SYMMETRY Symmetry
INVARIANTS
    TypeOK
    Materialised
    InductiveInv
    OffsetsInLog
    RowsWereWritten
    OpenAndFlowing
PROPERTY Implements
