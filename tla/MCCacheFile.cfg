SPECIFICATION FairSpec
CONSTANTS
    Timers = {t1, t2, t3}
    Exit = Exit
    None = None
    MaxChanges = 3
    MaxRestarts = 1
INVARIANTS
  NoChangeForgotten
PROPERTIES
  DiskOnlyAdvances
  EverySaveReturns
