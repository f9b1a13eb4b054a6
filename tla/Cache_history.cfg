SPECIFICATION Spec
CONSTANTS
    None = None
    Clients = {c1}
    Contents = {x}
    Limit = 1
    MaxCalls = 1
    MaxWrites = 1
INVARIANTS CurrentEntryIsExact
CHECK_DEADLOCK FALSE
