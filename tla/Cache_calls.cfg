SPECIFICATION FairSpec
CONSTANTS
    None = None
    Clients = {c1, c2, c3}
    Contents = {x}
    Limit = 1
    MaxCalls = 3
    MaxWrites = 1
INVARIANTS TypeOK KeyedRowsAreExact AnswerIsNotOlder OneBuildPerKey WaitersHaveABuilder OverflowIsOnDisk
PROPERTIES EveryCallReturns
CHECK_DEADLOCK FALSE
