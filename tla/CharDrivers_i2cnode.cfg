SPECIFICATION Spec
CONSTANTS
  Drivers = {"i2c"}
  DynMajors = {254}
  Files = {f1}
INVARIANT I2cNodeOpens
