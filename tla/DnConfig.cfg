SPECIFICATION FairSpec
CONSTANTS
  N = 2
  Types = {FIFO, WF2QP}
  Multi = {WF2QP}
  FIFO = FIFO
  WF2QP = WF2QP
  NoType = NoType
  Masks = {NoMask, mask}
  NoMask = NoMask
  LinkParams = {slow, fast}
  NoParams = slow
  FsParams = {0, 1}
  Reuse = Reuse
  NULL = NULL
  AllocMayFail = FALSE
CHECK_DEADLOCK FALSE
INVARIANTS
  ListsOK
  CountersOK
  TwinsAgree
PROPERTIES
  ConfigReturns
