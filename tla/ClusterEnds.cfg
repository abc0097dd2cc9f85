SPECIFICATION FairSpec
CONSTANTS
    Nodes <- TwoNodes
    Type <- WebAll
    Members <- TwoNodes
    Assignments <- OneAssignment
    Kind <- WebSites
    Procs <- Two
    Ops <- HealthAndRest
    Threshold = 2
    Dead <- LastNode
    CountBy <- NoContacts
    ResetBy <- NoContacts
    Gone = Gone
    None = None
INVARIANT HomesExist
PROPERTY TransactionsEnd
PROPERTY DeadNodesAreDeactivated
CHECK_DEADLOCK FALSE
