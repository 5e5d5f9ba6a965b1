SPECIFICATION Spec
CONSTANTS
  HeaderOf <- MCHeaderOf
  PaddingsOf <- MCPaddingsOf
  Signatures <- MCSignatures
  Trimmable <- MCTrimmable
  PowerOfTwo <- MCPowerOfTwo
  Empty <- MCEmpty
  JunkNames <- MCJunkNames
  Alphabet <- MCAlphabet
  Roots <- MCRoots
  LettersOf <- MCLettersOf
  NotLetters <- MCNotLetters
  ConsoleOfDat <- MCConsoleOfDat
  ConsoleOfExt <- MCConsoleOfExt
  Runs <- MCDiskRuns
  DiscTitles <- MCDiscTitles
  PlaylistExts <- MCPlaylistExts
INVARIANT
  MatchedAreKept
CHECK_DEADLOCK FALSE
