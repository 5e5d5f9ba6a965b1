SPECIFICATION FairSpec
CONSTANTS
    m1 = m1
    m2 = m2
    m3 = m3
    Maps = {m1, m2, m3}
    Tasks = {1, 2, 3, 4, 5}
    CallOf <- TwoCalls
    Threads = 2
    None = 0
INVARIANTS
  SlotsConserved
  LossNeedsFailure
PROPERTIES
  EveryCallSettles
