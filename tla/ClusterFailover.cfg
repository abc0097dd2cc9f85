SPECIFICATION Spec
CONSTANTS
    Nodes <- TwoNodes
    Type <- WebAll
    Members <- TwoNodes
    Assignments <- OneAssignment
    Kind <- WebSites
    Procs <- One
    Ops <- Watching
    Threshold = 3
    Dead <- NoNodes
    CountBy <- HealthChecks
    ResetBy <- HealthChecks
    Gone = Gone
    None = None
INVARIANT DeactivatedAfterFailures
CHECK_DEADLOCK FALSE
