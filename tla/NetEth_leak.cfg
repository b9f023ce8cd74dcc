SPECIFICATION Spec
CONSTANTS
  Skbs = {s1, s2}
  Cpus = {c1, c2}
  Lens = {34}
  TtlRange = 2
INVARIANT EverySkbHasAnOwner
