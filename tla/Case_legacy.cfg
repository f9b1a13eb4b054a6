SPECIFICATION Spec
CONSTANTS
    None = None
    Recording <- MCRecording
    Proposed = "planned"
    PlanTimes <- MCPlanTimes
    Clients = {c1, c2}
    CaseRuns = {1}
    Runs = {1, 2, 3}
    Workflows = {w1}
    Objectives = {"race"}
    DefaultObjective = "race"
    Churn = {2}
    EvidenceStates = {"ready"}
    Legacy <- OldTest
    MaxSends = 4
INVARIANTS OneMutationPerRevision CaptureIsLearned
PROPERTIES ClosedIsFinal ScoreJudgesWhatItReplaces ImplementsControlledTest
SYMMETRY Interchangeable
CHECK_DEADLOCK FALSE
