SPECIFICATION FairSpec
CONSTANTS
  Devices = {d1, d2, d3}
  Threads = {t1, t2}
  NoDevice = NoDevice
INVARIANTS
  TypeOK
  SpiDevIsBound
  MessagesHaveAFrame
PROPERTIES
  UnloadEnds
  ImplementsPointer
