SPECIFICATION Spec
CONSTANTS
    d1 = d1
    d2 = d2
    None = None
    Torn = Torn
    Docs = {d1, d2}
    Org <- MCOrg
    MaxVersion = 2
    Strategies = {"fixed", "structure"}
    Size <- MCSize
    MaxRuns = 2
    MaxFaults = 2
INVARIANTS
    TypeOK
    ManifestMeansRebuilt
    RowsHaveVectors
    Bm25SpansCorpus
    WipeStartsAfresh
CHECK_DEADLOCK FALSE
