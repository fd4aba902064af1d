SPECIFICATION ApiSpec
CONSTANTS
  Unit = 100
  NoLease = NoLease
  NoWorker = NoWorker
  NoKey = NoKey
  NoTask = NoTask
  Task = {t1}
  Worker = {w1}
  Lease = {l1, l2}
  Key = {}
  Priority = {2}
  RetryLimit = {0}
  LeaseTicks = 1
  AgingAmount = 1
  SeqStart = {0}
  SeqKey = FALSE
  Request = {r1}
SYMMETRY Symmetric
CHECK_DEADLOCK FALSE
PROPERTIES
  CompletedFinal
