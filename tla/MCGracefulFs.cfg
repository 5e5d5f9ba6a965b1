SPECIFICATION FairSpec
CONSTANTS
    o1 = o1  o2 = o2  
    r1 = r1  r2 = r2  s2 = s2
    Calls = {o1, o2, r1, r2, s2}
    MethodOf <- MCMethodOf
    MaxAttempts = 2
    None = None
INVARIANTS
  NoEarlyGivingUp
PROPERTIES
  EveryCallIsAnswered
