CONSTANTS
  c1 = c1
  c2 = c2
  good = good
  bad = bad
  Clients = {c1}
  Ops = {good, bad}
  Invalid = {bad}
  NoOp = NoOp
  NoObject = NoObject
  NoBody = NoBody
  Stored = {c1}
  Joined = {c1}
  MaxGets = 0
  MaxPerforms = 0
  MaxUnsubs = 1
  MaxOthers = 4
  MaxLost = 2
  MaxFailed = 1
SPECIFICATION FairSpec
CHECK_DEADLOCK FALSE
PROPERTIES ImplementsCachedCopies Converges
