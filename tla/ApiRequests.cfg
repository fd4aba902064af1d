SPECIFICATION ApiSpec
CONSTANTS
  Unit = 100
  NoLease = NoLease
  NoWorker = NoWorker
  NoKey = NoKey
  NoTask = NoTask
  Task = {t1, t2}
  Worker = {w1, w2}
  Lease = {l1, l2, l3}
  Key = {k1}
  Priority = {2}
  RetryLimit = {0, 1}
  LeaseTicks = 1
  AgingAmount = 1
  SeqStart = {0}
  SeqKey = TRUE
  Request = {r1}
SYMMETRY Symmetric
CHECK_DEADLOCK FALSE
INVARIANTS
  ApiTypeOK
  SinglePlace
  LeaseFencing
  RecoverySees
PROPERTIES
  CancelledFinal
