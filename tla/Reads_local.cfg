CONSTANTS
    n1 = n1
    n2 = n2
    p1 = p1
    p2 = p2
    Nodes = {n1, n2}
    Parts = {p1, p2}
    Root = Root
    NoNode = NoNode
    Local = Local
    MaxHops = 2
    MaxMoves = 1
SPECIFICATION FairSpec
ACTION_CONSTRAINT ClientAsksN1
\* The one request of the model ends.
CHECK_DEADLOCK FALSE
INVARIANTS
    TypeOK
    SendsFit
    Complete
PROPERTY AnsweredIfLocal
