SPECIFICATION FairSpec
CONSTANTS
  Skbs = {s1, s2}
  Cpus = {c1, c2}
  Lens = {33, 34, 35}
  TtlRange = 2
INVARIANTS
  TypeOK
  HandlersOwnTheirSkb
  BufferDiesWithItsCall
  HeadersAreThere
PROPERTY ReceivedIsFreed
