SPECIFICATION WSpec
CONSTANTS
  Drivers = {"esp32", "etx", "spi_char"}
  DynMajors = {245}
  Files = {f1}
  Slot = f1
  Size = 3
INVARIANTS
  PrintsNothing
  ClientClosesItsNode
PROPERTY DiesOnlyInUnprotected
