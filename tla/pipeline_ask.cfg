\* Every combination of the toggles; one paraphrase, one retry.
CONSTANTS
    DocOf <- MCDocOf
    Sentences <- MCSentences
    Alike <- MCAlike
    FlagSets <- MCFlagSets
    Searches <- MCSearches
    Lexical <- MCLexical
    Readings <- MCReadings
    Likings <- MCLikings
    Answers <- MCAnswers
    FusedTopK = 3
    MergedTopK = 3
    RerankTopN = 3
    RrfK = 1
    Unit = 12
    RerankBar = 1
    DenseBar = 1
    Floor = 2
    MinChunks = 2
    Budget = 4
    K = 2
    CandidateK = 3
    DenseTopK = 3
    SparseTopK = 2
    MaxVariants = 1
    MaxRetries = 1
    MaxTokens = 2
SPECIFICATION Spec
INVARIANTS
    OneAttemptIsSent
    MarkersNameTheirChunk
    CompressionKeepsEnough
    StagesPair
    CleanWrites
CHECK_DEADLOCK FALSE
