SPECIFICATION Spec
CONSTANTS
  Ptrs = {1, 2, 3, 4}
  DynMax = 3
  SynLife = 1
  AckLife = 3
  FinLife = 1
  RstLife = 3
  UdpLife = 1
  ShortLife = 1
  KaInterval = 3
  KaPeriod = 2
  Garbage = {0}
  NULL = NULL
  Pkts <- MCPkts
  Rules = {"keep", "limit"}
  CmdOf <- MCCmd
  Matching <- MCMatching
  Wanted = {1, 2, 3}
INVARIANTS
  TableOK
  LimitHolds
  AskedBeforeExpiry
  ClosedIsLetGo
