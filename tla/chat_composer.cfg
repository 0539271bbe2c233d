\* Two questions in one saved chat, the first of them retried.
CONSTANTS
    Turns = {q1, q2}
    Creates = {}
    Saved = {s1}
    MaxEpoch = 1
    MaxStarts = 3
    None = None
SPECIFICATION Spec
PROPERTIES
    DoneReenablesComposer
CHECK_DEADLOCK FALSE
