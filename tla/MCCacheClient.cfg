CONSTANTS
  c1 = c1
  c2 = c2
  good = good
  bad = bad
  Clients = {c1}
  Ops = {good, bad}
  Invalid = {bad}
  NoOp = NoOp
  NoObject = NoObject
  NoBody = NoBody
  Stored = {}
  Joined = {}
  MaxGets = 1
  MaxPerforms = 1
  MaxUnsubs = 0
  MaxOthers = 2
  MaxLost = 1
  MaxFailed = 1
SPECIFICATION FairSpec
CHECK_DEADLOCK FALSE
PROPERTIES MethodsReturn
INVARIANTS QueuesContiguous
