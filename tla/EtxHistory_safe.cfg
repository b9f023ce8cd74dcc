SPECIFICATION HSpec
CONSTANTS
  Procs = {p1, p2, p3}
  W = 2
  Bytes = {0, 1}
SYMMETRY ProcSymmetry
INVARIANTS
  TypeOK
  ValueIsExplained
  LoadIsExplained
PROPERTY LoneStoreStands
