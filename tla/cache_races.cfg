SPECIFICATION Spec
CONSTANTS
    q1 = q1
    q2 = q2
    q3 = q3
    r1 = r1
    r2 = r2
    s1 = s1
    None = None
    Questions = {q1, q2, q3}
    Topic <- MCTopic
    Disc <- MCDisc
    Requests = {r1, r2}
    Seeds = {s1}
    SeedGens = {1}
    MaxEntries = 1
    IndexBound = 2
    MaxRestarts = 1
    MaxOps = 1
    MaxFaults = 1
    MaxUpsets = 2
SYMMETRY Symmetry
INVARIANTS
    TypeOK
    ServedAnswersFit
    HitsAreCurrent
    OneEntryPerQuestion
    EntriesAreVisible
    TableBounded
    PurgedStaysOutOfTable
    NoDrift
    TagsAreHonest
    LockHeldInside
PROPERTIES
    ImplementsAnswerCache
CHECK_DEADLOCK FALSE
