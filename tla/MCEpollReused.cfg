CONSTANTS
  Values = {v1, v2}
  Junk = junk
  Nothing = nothing
  Capacities = {0, 1, 2, 3}
  Growths <- MCGrowths
  DefaultCapacity = 2
  MaxAlloc = 3
  Sockets = {s1, s2}
  Invalid = invalid
  Data = {d1, d2}
  Null = null
  Requests <- MCRequests
  PollCapacities = {0, 2}
  PollDefault = 3
  Callers = {c1, c2}
  Creator = c1
  Result = result
  NoResult = noresult
  MaxDebt = 2
  Mappers = {m1, m2}
  Addresses = {1, 2, 3}
  Sizes = {1}
  HeapCap = 2
  Names = {f1, f2}
  NoName = noname
  MaxChanges = 2
  Blocks = {lf, cr}
  LineFeed = lf
  CarriageReturn = cr
  MaxBlocks = 2
  SleepTime = 2
  Timeouts = {0, 1, 2, 3, 4, 5}
SPECIFICATION MCEpollAny
PROPERTY EpollImplementsPollSet
