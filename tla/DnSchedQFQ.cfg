SPECIFICATION Spec
CONSTANTS
  q1 = q1
  q2 = q2
  q3 = q3
  q4 = q4
  Queues = {q1, q2, q3, q4}
  WeightOf <- MCWeight
  MaxlenOf <- MCMaxlen
  ONE_FP = 8
  MaxWsum = 8
  MaxIndex = 1
  MinSlotShift = 1
  MaxSlots = 4
  KeyMod = 128
  QSize = 2
  RandomDrop = FALSE
  NULL = NULL
  MaxV = 8
SYMMETRY MCSymmetry
INVARIANTS
  QFQOK
  FairShare
PROPERTIES
  SchedSpec
