SPECIFICATION Spec
CONSTANTS
  Max32 = 150
  MaxCount = 3
  MaxComment = 30
  NameLength <- MCNameLength
  Inputs <- MCInputs
  Formats = {"DEFLATE", "ZSTD"}
  Rank <- MCRank
  Cp437Names <- MCCp437Names
  Compressions <- MCCompressions
INVARIANTS
  OutputIsWhole
  WrittenIsValid
  AcceptedIsSound
CHECK_DEADLOCK FALSE
