CONSTANTS
  t1 = t1
  t2 = t2
  t3 = t3
  k1 = k1
  k2 = k2
  good = good
  bad = bad
  Keys = {k1}
  Threads = {t1, t2, t3}
  Ops = {good, bad}
  Invalid = {bad}
  LoadVersions = {0}
  NoThread = NoThread
  NoBytes = NoBytes
  MaxVersion = 2
  MaxLoads = 2
  MaxPublished = 2
SPECIFICATION FairSpec
INVARIANTS TypeOK AcceptedExactlyOnce SnapshotsArePast
PROPERTIES EveryCallReturns ImplementsVersionedObject
