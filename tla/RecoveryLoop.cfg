SPECIFICATION FairRecSpec
CONSTANTS
  Unit = 100
  NoLease = NoLease
  NoWorker = NoWorker
  NoKey = NoKey
  NoTask = NoTask
  Task = {t1, t2}
  Worker = {w1}
  Lease = {l1, l2}
  Key = {}
  Priority = {1}
  RetryLimit = {1}
  LeaseTicks = 1
  AgingAmount = 1
  SeqStart = {0}
  SeqKey = FALSE
  Service = {s1}
  MaxFaults = 1
CHECK_DEADLOCK FALSE
INVARIANTS
  RecTypeOK
  LeaseFencing
  SinglePlace
  QueueInv
PROPERTIES
  ImplementsFencedTask
  TerminalFinal
  OnlyRecoveryLoses
  BeatersAreKnown
  
