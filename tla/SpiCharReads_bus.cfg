SPECIFICATION RFairSpec
CONSTANTS
  Drivers = {"can", "wifi", "spi_char", "i2c"}
  DynMajors = {250, 254}
  Files = {f1}
INVARIANTS
  LeftoversAreKnown
  ReadsRunLoadedCode
  BuffersDieWithTheirReads
  LiveDriverIsReached
  FaultStrandsOnlyTheNumber
PROPERTIES
  InitReturns
  ImplementsContract
