CONSTANTS
    None = None
    c1 = c1
    c2 = c2
    r1 = r1
    A1 = A1
    A2 = A2
    T1 = T1
    T2 = T2
    T3 = T3
    race = race
    qualifying = qualifying
    Clients = {c1, c2}
    Kinds <- AllKinds
    Readers = {r1}
    Authorities = {A1, A2}
    Blocking = {A2}
    Objectives = {race, qualifying}
    Plan <- ThreeTools
    Enough <- Explaining
    Integrity = {T1}
    MaxSteps = 2
    Stored <- AnyStored
    MaxInvestigations = 2
    MaxSends = 2
    MaxEvents = 1
SYMMETRY Symmetry
SPECIFICATION Spec
INVARIANTS TypeOK OneOpenInOrder LegalHistory ContinuesAreCounted AdvanceIsOneChain ObjectivesAgreeInOrder
CHECK_DEADLOCK FALSE
