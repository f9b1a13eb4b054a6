SPECIFICATION Spec
CONSTANTS
    None = None
    Recording <- MCRecording
    Proposed = "planned"
    PlanTimes <- MCPlanTimes
    Clients = {c1}
    CaseRuns = {1}
    Runs = {1}
    Workflows = {w1}
    Objectives = {"race", "qualifying"}
    DefaultObjective = "race"
    Churn = {}
    EvidenceStates = {"ready"}
    Legacy <- NoLegacy
    MaxSends = 3
INVARIANTS IdenticalTruthIsIdempotent
CHECK_DEADLOCK FALSE
