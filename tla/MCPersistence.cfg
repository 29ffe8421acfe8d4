SPECIFICATION Spec
CONSTANTS
    Shapes <- Configurations
INVARIANTS
    LogIsData
    RewriteIsData
    CleanMeansSaved
PROPERTIES
    
    TurnsOn
    ChangesAreSaved
CHECK_DEADLOCK FALSE
