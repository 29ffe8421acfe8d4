SPECIFICATION Spec
CONSTANTS
    Shapes <- ShutDown
PROPERTIES
    ShutdownKeepsAcked
CHECK_DEADLOCK FALSE
