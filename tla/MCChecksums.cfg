SPECIFICATION Spec
CONSTANTS
  OptionSets <- MCOptionSets
  DatSets <- MCDatSets
  InputSets <- MCInputSets
  CrcOf <- MCCrcOf
  Junk = Junk
INVARIANTS
  MatchIsTrue
  UsableIsFound
  PatchesFindTheirFiles
  InferredAsAsked
CHECK_DEADLOCK FALSE
