SPECIFICATION FairRecSpec
CONSTANTS
  Unit = 100
  NoLease = NoLease
  NoWorker = NoWorker
  NoKey = NoKey
  NoTask = NoTask
  Task = {t1}
  Worker = {w1}
  Lease = {l1}
  Key = {}
  Priority = {1}
  RetryLimit = {0}
  LeaseTicks = 1
  AgingAmount = 1
  SeqStart = {0}
  SeqKey = FALSE
  Service = {s1}
  MaxFaults = 0
CHECK_DEADLOCK FALSE
PROPERTIES
  ExpiredLeaseRecovered
