SPECIFICATION FairSpec
CONSTANTS
    Callers = {c1, c2, c3}
    k1 = k1
    k2 = k2
    k3 = k3
    Keys = {k1, k2}
    Generations = {1, 2, 3}
    Rank <- DistinctRanks
    MaxSize = 1
    MaxKeys = 2
    None = None
INVARIANTS
  MutualExclusion
  NoCircularWait
PROPERTIES
  EveryCallIsServed
  ImplementsLockService
