CONSTANTS
    n1 = n1
    n2 = n2
    k1 = k1
    x = x
    y = y
    NoIf = NoIf
    NoData = NoData
    Absent = Absent
    NoDB = NoDB
    NoObject = NoObject
    OffCell = OffCell
    Nodes = {n1, n2}
    Keys = {k1}
    Data = {x, y}
    Times = {1, 2}
    Stmts = {"isX", "nested"}
    CompareIfStatement <- MCCompareIfStatement
    Workload <- MCWorkload
    MaxLog = 4
    MaxEvents = 2
SPECIFICATION Spec
SYMMETRY Symmetry
\* The bounds are used up.
CHECK_DEADLOCK FALSE
INVARIANTS
    TypeOK
    CopiesFollowLog
    NoHole
    NothingExpired
