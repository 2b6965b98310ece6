SPECIFICATION Spec
CONSTANTS
  p1 = p1
  p2 = p2
  p3 = p3
  p4 = p4
  p5 = p5
  t1 = t1
  t2 = t2
  c1 = c1
  c2 = c2
  x = x
  Ptrs = {p1, p2, p3, p4, p5}
  Threads = {t1, t2}
  Ctls = {c1, c2}
  Flows = {x}
  Nums = {0, 2}
  Step = 1
  DefaultNum = 4
  Sets = {1, 31}
  Resvd = 31
  Bodies <- New
  Startups <- Starts
  MaxRequests = 2
  MaxAway = 1
  NULL = NULL
SYMMETRY Symmetry
INVARIANTS
  ChainOK
  SessionsHaveRules
PROPERTIES
  ResumesAfter
  ScansForward
