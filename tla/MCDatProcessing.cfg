SPECIFICATION Spec
CONSTANTS
  Runs <- MCRuns
  Titles <- MCTitles
  LanguageOf <- MCLanguageOf
INVARIANTS
  FamiliesPartition
  SetsAreComplete
  NothingStoredTwice
  BestIsKept
CHECK_DEADLOCK FALSE
