CONSTANTS
    n1 = n1
    n2 = n2
    r1 = r1
    r2 = r2
    NoNode = NoNode
    Nodes = {n1, n2}
    Counts = {2, 3}
    Requests = {r1, r2}
    Body <- MCBody
    Hash <- MCHash
    HighBit = 4
    TopicCount = 2
    MaxRestarts = 1
SPECIFICATION Spec
SYMMETRY Symmetry
\* The requests of the model end.
CHECK_DEADLOCK FALSE
INVARIANTS
    TypeOK
    OneCount
    KeyOrder
    RoutedIfMatching
