CONSTANTS
  Values = {v1, v2}
  Junk = junk
  Nothing = nothing
  Capacities = {0, 1, 2, 3}
  Growths <- MCGrowths
  DefaultCapacity = 2
  MaxAlloc = 5
SPECIFICATION Spec
INVARIANTS TypeOK RingOK MemorySafe
PROPERTIES ErrorKeepsQueue ImplementsFifo
