SPECIFICATION Spec
CONSTANTS
  Unit = 100
  NoLease = NoLease
  NoWorker = NoWorker
  NoKey = NoKey
  NoTask = NoTask
  Task = {t1, t2, t3}
  Worker = {w1, w2}
  Lease = {l1, l2, l3, l4}
  Key = {}
  Priority = {2, 10}
  RetryLimit = {1}
  LeaseTicks = 1
  AgingAmount = 1
  SeqStart = {3}
  SeqKey = TRUE
SYMMETRY Symmetric
CHECK_DEADLOCK FALSE
INVARIANTS
  TypeOK
  SinglePlace
  NothingLost
  LeaseFencing
  OwnershipIndex
  RetryBudget
  MetricsAgree
  QueueInv
  BudgetInv
PROPERTIES
  TerminalFinal
  ImplementsFencedTask
  NoOvertaking
  OrderKept
