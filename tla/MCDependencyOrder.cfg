CONSTANTS
  Listed = {s0, s1, s2}
  Missing = {gone}
  MaxDeps = 2
SPECIFICATION Spec
INVARIANTS
  OrdersDependencies
