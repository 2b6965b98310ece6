SPECIFICATION Spec
CONSTANTS
  q1 = q1
  q2 = q2
  q3 = q3
  Queues = {q1, q2, q3}
  WeightOf <- MCWeight
  ONE_FP = 12
  KeyMod = 1024
  Lens = {1, 3}
  QSize = 2
  RandomDrop = FALSE
  NULL = NULL
  MaxPkts = 5
SYMMETRY Symmetry
INVARIANTS
  WF2QOK
  FairShare
PROPERTIES
  SchedSpec
