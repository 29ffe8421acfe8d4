CONSTANTS
  k1 = k1
  c1 = c1
  c2 = c2
  Clients = {k1}
  Channels = {c1}
  Hubs = {0, 1}
  Default = 0
  Proposals <- AwayAndSpread
  Draws <- OneDraw
  NoMessage = NoMessage
  MaxPlans = 3
  MaxRequests = 2
  MaxChanges = 4
  MaxBacklog = 0
SPECIFICATION FairSpec
INVARIANTS PlanIdsTellMappings SubscribedAsPlanned
PROPERTIES PublishersFollow
