SPECIFICATION Spec
CONSTANTS
    MaxLong = 9
    Infinity = 1000
    MaxStringLen = 2
    Users = {1, 2, 3}
    CallsOf <- CallsOfEach
    Datasets <- Loaded
    Policy = "volatile"
    MaxKeys = 2
    MaxTime = 1
    Budgets <- Shares
    MaxStream = 8
    MaxQueue = 2
INVARIANTS TypeOK
PROPERTIES SlaveAgrees WatchersNoticeButMove NobodyLeftWaiting FirstComeFirstServed FailedCallsChangeNothing
CHECK_DEADLOCK FALSE
