CONSTANTS
    None = None
    c1 = c1
    c2 = c2
    r1 = r1
    A1 = A1
    A2 = A2
    T1 = T1
    T2 = T2
    T3 = T3
    race = race
    qualifying = qualifying
    Clients = {c1, c2}
    Kinds = {"open"}
    Readers = {r1}
    Authorities = {A1, A2}
    Blocking = {A2}
    Objectives = {race, qualifying}
    Plan <- ThreeTools
    Enough <- Explaining
    Integrity = {T1}
    MaxSteps = 2
    Stored <- OnlyNothing
    MaxInvestigations = 2
    MaxSends = 2
    MaxEvents = 0
SYMMETRY Symmetry
SPECIFICATION Spec
INVARIANTS OneOpen
CHECK_DEADLOCK FALSE
