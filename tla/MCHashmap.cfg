CONSTANTS
  k1 = k1
  k2 = k2
  k3 = k3
  Keys <- MCKeys
  Values = {v1, v2}
  Hash <- MCHash
  None = none
  Freed = freed
  Capacities = {0, 1, 2, 3}
  DefaultCapacity = 2
  MaxCapacity = 3
  Grows <- MCGrows
  Limits <- MCLimits
  Flags <- MCFlags
SYMMETRY MCValueSymmetry
SPECIFICATION Spec
INVARIANTS TypeOK ShapeOK MemorySafe NeverCorrupted
PROPERTIES LoopVisitsAll ImplementsDictionary
