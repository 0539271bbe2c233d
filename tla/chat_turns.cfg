\* Two questions, either retried, three selections, two chats opened, started or deleted.
CONSTANTS
    Turns = {q1, q2}
    Creates = {c1, c2}
    Saved = {s1}
    MaxEpoch = 3
    MaxStarts = 3
    None = None
SPECIFICATION Spec
INVARIANTS
    SelectionStands
    PostedWhereAsked
PROPERTIES
    RunSettlesItsTurn
CHECK_DEADLOCK FALSE
