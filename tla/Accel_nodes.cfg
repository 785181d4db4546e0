SPECIFICATION Spec
CONSTANTS
  APs = {a1, a2}
  RTs = {t1, t2}
  NullPtr = NullPtr
SYMMETRY Symmetry
INVARIANTS
  TypeOK
  PointerOwned
  LeaksArePairs
CHECK_DEADLOCK FALSE
