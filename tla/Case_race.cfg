SPECIFICATION FairSpec
CONSTANTS
    None = None
    Recording <- MCRecording
    Proposed = "planned"
    PlanTimes <- MCPlanTimes
    Clients = {c1, c2}
    CaseRuns = {1, 2}
    Runs = {1, 2}
    Workflows = {w1, w2}
    Objectives = {"race"}
    DefaultObjective = "race"
    Churn = {}
    EvidenceStates = {"ready"}
    Legacy <- NoLegacy
    MaxSends = 4
INVARIANTS TypeOK OneChain ReceiptIsSuccessor OneActiveWorkflow
PROPERTIES ImplementsCaseLog EveryRequestEnds
CHECK_DEADLOCK FALSE
