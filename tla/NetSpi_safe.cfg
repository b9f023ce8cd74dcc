SPECIFICATION Spec
CONSTANTS
  Skbs = {s1, s2, s3}
  Devs = {d1, d2, d3}
  NoDev = NoDev
  NoSkb = NoSkb
CHECK_DEADLOCK FALSE
INVARIANTS
  TypeOK
  UpDeviceIsNotStopped
  DataDiesWithItsCall
  PacketsAreApart
