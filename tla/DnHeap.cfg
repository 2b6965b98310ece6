SPECIFICATION Spec
CONSTANTS
  Objs = {o1, o2, o3, o4}
  KeyMod <- MCKeyMod
  Keys <- MCKeys
  AllocMayFail = TRUE
SYMMETRY Symmetry
INVARIANTS
  HeapOK
PROPERTIES
  PQSpec
