SPECIFICATION Spec
CONSTANTS
    Hash <- Hashes
    InitialSize = 1
    ForceRatio = 1
    MinFill = 30
    CronSteps = 2
    CronTasks = {"resize", "rehash"}
    Nobody = Nobody
INVARIANT Placed
PROPERTIES AnswersAsASet RehashAdvances
CHECK_DEADLOCK FALSE
