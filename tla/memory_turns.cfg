SPECIFICATION FairSpec
CONSTANTS
    t1 = t1
    t2 = t2
    None = None
    Turns = {t1, t2}
    History = 4
    Window = 2
    KeepLast = 1
    Every = 2
    Budget = 11
    Modes = {"sse", "json"}
    MaxFaults = 2
    MaxAbandons = 1
    MaxArchives = 1
    MaxRestarts = 1
INVARIANTS
    TokensExact
    LockHeldByRunningTurn
    QuestionsFirst
    SummaryOnce
    LoadFitsHistory
PROPERTIES
    TurnsEnd
CHECK_DEADLOCK FALSE
