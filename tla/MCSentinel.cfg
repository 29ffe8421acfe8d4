SPECIFICATION Spec
CONSTANTS
  Sentinels = {1, 2}
  Servers = {11, 12, 13}
  First = 11
  Quorum = 2
  MayFailOver = {1, 2}
  Priority <- Priorities
  ParallelSyncs = 1
  None = None
  Faulty = {1, 11, 13}
  Budget <- Faults
  MaxOrders = 2
CHECK_DEADLOCK FALSE
INVARIANTS PromotedIsKnown
PROPERTIES FailoverNeedsQuorum Converges
