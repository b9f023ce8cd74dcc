SPECIFICATION Spec
CONSTANTS
  Drivers = {"bluetooth", "esp32", "etx"}
  DynMajors = {252, 254}
  Files = {f1, f2}
SYMMETRY FileSymmetry
INVARIANTS
  TypeOK
  LeftoversAreKnown
  OpenFilesRunLoadedCode
  NumberOutlivesItsUses
  NodeReachesItsDriver
  LiveDriverIsReached
