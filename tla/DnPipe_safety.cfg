SPECIFICATION Spec
CONSTANTS
  Insts = {i1, i2}
  Threads = {t1}
  Links <- LinksTwo
  Lens = {1, 3}
  Samples <- SomeSamples
  QSize = 2
  IoFast = FALSE
  RandomDrop = TRUE
  Expire = TRUE
  IdleTick = 1
  AllocMayFail = TRUE
  TickSteps = {1, 2}
  MaxTime = 3
  LastArrival = 2
  MaxPkts = 3
  MaxConf = 1
SYMMETRY Symm
INVARIANTS
  HeapInv
  InOrder
  Conservation
CHECK_DEADLOCK FALSE
