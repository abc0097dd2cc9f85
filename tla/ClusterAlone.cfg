SPECIFICATION Spec
CONSTANTS
    Nodes <- ThreeNodes
    Type <- WebAllWeb
    Members <- FirstTwo
    Assignments <- FourAssignments
    Kind <- WebSites
    Procs <- One
    Ops <- Everything
    Threshold = 2
    Dead <- NoNodes
    CountBy <- NoContacts
    ResetBy <- NoContacts
    Gone = Gone
    None = None
INVARIANT TypeOK
PROPERTY MovesToActiveNode
PROPERTY RemovalMovesFirst
PROPERTY OneAtATime
PROPERTY BalanceStopsAtAverage
CHECK_DEADLOCK FALSE
