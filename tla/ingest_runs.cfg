SPECIFICATION Spec
CONSTANTS
    d1 = d1
    d2 = d2
    None = None
    Torn = Torn
    Docs = {d1, d2}
    FileType <- MCFileType
    Legacy = {d2}
    Concurrency = 1
    MaxAttempts = 2
    MaxRuns = 2
    MaxEdits = 2
    MaxStops = 1
INVARIANTS
    ExtractedIsReadable
PROPERTIES
    RecordedContentStands
    RunsEnd
CHECK_DEADLOCK FALSE
