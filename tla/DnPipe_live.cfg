SPECIFICATION WarmFairSpec
CONSTANTS
  Insts = {i1}
  Threads = {t1}
  Links <- LinksMixed
  Lens = {1, 3}
  Samples <- SomeSamples
  QSize = 2
  IoFast = FALSE
  RandomDrop = FALSE
  Expire = FALSE
  IdleTick = 1
  AllocMayFail = FALSE
  TickSteps = {0, 1, 2}
  MaxTime = 20
  LastArrival = 3
  MaxPkts = 3
  MaxConf = 1
INVARIANTS
  MarkedIsInHeap
  WaitingIsScheduled
  NotFasterThanLink
PROPERTIES
  EveryPacketLeaves
CHECK_DEADLOCK FALSE
