SPECIFICATION FairSpec
CONSTANTS
    None = None
    DefaultObjective = race
    Failed = Failed
    Scopes = {s1, s2}
    Objectives = {race, quali}
    MaxEvents = 3
INVARIANTS TypeOK ViewIsOfItsScope AdoptedIsNotUndone SelectionIsShown
PROPERTIES ViewSettles
CHECK_DEADLOCK FALSE
