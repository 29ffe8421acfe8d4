SPECIFICATION Spec
CONSTANTS
    a = a
    b = b
    c = c
    None = None
    Servers = {a, b, c}
    Shapes <- Deployments
INVARIANTS
    InSync
    NobodyFedWhileResyncing
CHECK_DEADLOCK FALSE
PROPERTIES
    CatchesUp
