SPECIFICATION Spec
CONSTANTS
    None = None
    Recording <- MCRecording
    Proposed = "planned"
    PlanTimes <- MCPlanTimes
    Clients = {c1}
    CaseRuns = {1}
    Runs = {1, 2, 3}
    Workflows = {w1}
    Objectives = {"race"}
    DefaultObjective = "race"
    Churn = {}
    EvidenceStates = {"ready"}
    Legacy <- NoLegacy
    MaxSends = 6
PROPERTIES ReadyScoreIsAccepted
CHECK_DEADLOCK FALSE
