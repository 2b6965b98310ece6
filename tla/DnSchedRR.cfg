SPECIFICATION FairSpec
CONSTANTS
  q1 = q1
  q2 = q2
  q3 = q3
  Queues = {q1, q2, q3}
  QuantumOf <- MCQuantum
  Lens = {1, 3}
  QSize = 3
  RandomDrop = TRUE
  NULL = NULL
  MaxPkts = 4
INVARIANTS
  RingOK
  FairShare
PROPERTIES
  SchedSpec
  DequeueReturns
