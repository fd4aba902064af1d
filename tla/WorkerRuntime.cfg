SPECIFICATION FairDepSpec
CONSTANTS
  Unit = 100
  NoLease = NoLease
  NoWorker = NoWorker
  NoKey = NoKey
  NoTask = NoTask
  Task = {t1}
  Worker = {w1}
  Lease = {l1, l2, l3}
  Key = {}
  Priority = {1}
  RetryLimit = {0, 1}
  LeaseTicks = 1
  AgingAmount = 1
  SeqStart = {0}
  SeqKey = FALSE
  Concurrency = 2
  WaitCycles = 1
  MaxFaults = 1
  Request = {r1}
CHECK_DEADLOCK FALSE
INVARIANTS
  RunTypeOK
  PermitsBounded
  NeverWedged
  NoOrphanRenewal
PROPERTIES
  QueuedIsClaimed
  IdleLeaseLapses
