SPECIFICATION Spec
CONSTANTS
    A = "A"
    B = "B"
    C = "C"
    Users = {"A", "B", "C"}
    Scenarios <- Ways
    SocketRoom = 3
    ReplyChunk = 4
    MaxWrite = 4
    Limits <- Limit
INVARIANTS
    RepliesInOrder
    NothingDangles
PROPERTIES
    RequestsAreServed
CHECK_DEADLOCK FALSE
