SPECIFICATION Spec
CONSTANTS
  HeaderOf <- MCHeaderOf
  PaddingsOf <- MCPaddingsOf
  Signatures <- MCSignatures
  Trimmable <- MCTrimmable
  PowerOfTwo <- MCPowerOfTwo
  Empty <- MCEmpty
  JunkNames <- MCJunkNames
  Alphabet <- MCAlphabet
  Roots <- MCRoots
  LettersOf <- MCLettersOf
  NotLetters <- MCNotLetters
  ConsoleOfDat <- MCConsoleOfDat
  ConsoleOfExt <- MCConsoleOfExt
  Runs <- MCRuns
  DiscTitles <- MCDiscTitles
  PlaylistExts <- MCPlaylistExts
INVARIANTS
  WrittenIsWanted
  RawCopiesAreTheSet
  AvailableIsFound
  LettersHold
  WantedAreKept
  StatusIsTrue
CHECK_DEADLOCK FALSE
