SPECIFICATION Spec
CONSTANTS
  Skbs = {s1}
  Devs = {d1}
  NoDev = NoDev
  NoSkb = NoSkb
INVARIANT StoppedDeviceIsReleased
