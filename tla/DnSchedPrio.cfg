SPECIFICATION PrioSpec
CONSTANTS
  q1 = q1
  q2 = q2
  q3 = q3
  q4 = q4
  Queues = {q1, q2, q3, q4}
  PrioOf <- MCPrioOf
  MAXPRIO = 3
  IntBits = 2
  QSize = 2
  RandomDrop = FALSE
  NULL = NULL
  MaxPkts = 5
CHECK_DEADLOCK FALSE
PROPERTIES
  StrictPriority
  NullMeansEmpty
