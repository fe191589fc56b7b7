CONSTANTS
    n1 = n1
    n2 = n2
    r1 = r1
    r2 = r2
    NoNode = NoNode
    Nodes = {n1}
    Counts = {3}
    Requests = {r1}
    Body <- ShortBody
    Hash <- MCHash
    HighBit = 4
    TopicCount = 3
    MaxRestarts = 0
SPECIFICATION Spec
\* The requests of the model end.
CHECK_DEADLOCK FALSE
INVARIANT Routed
