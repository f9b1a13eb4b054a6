SPECIFICATION Spec
CONSTANTS
    None = None
    Recording <- MCRecording
    Proposed = "planned"
    PlanTimes <- MCPlanTimes
    Clients = {c1}
    CaseRuns = {1}
    Runs = {1, 2, 3, 4, 5}
    Workflows = {w1}
    Objectives = {"race"}
    DefaultObjective = "race"
    Churn = {}
    EvidenceStates = {"ready", "blocked"}
    Legacy <- NoLegacy
    MaxSends = 6
INVARIANTS ReceiptsAccountForWorkflows StagesAreOneTest
PROPERTIES ReplayIsFaithful MutationShowsInTheCase
CHECK_DEADLOCK FALSE
