SPECIFICATION DepSpec
CONSTANTS
  Unit = 100
  NoLease = NoLease
  NoWorker = NoWorker
  NoKey = NoKey
  NoTask = NoTask
  Task = {t1}
  Worker = {w1}
  Lease = {l1, l2, l3}
  Key = {}
  Priority = {1}
  RetryLimit = {0}
  LeaseTicks = 1
  AgingAmount = 1
  SeqStart = {0}
  SeqKey = FALSE
  Concurrency = 2
  WaitCycles = 1
  MaxFaults = 0
  Request = {r1}
SYMMETRY Symmetric
CHECK_DEADLOCK FALSE
INVARIANTS
  HandlersRenew
