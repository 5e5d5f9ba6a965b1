SPECIFICATION FairSpec
CONSTANTS
  Files <- MCFiles
  Directories <- MCDirectories
  Junk <- MCJunk
  NamePrefixes <- MCNamePrefixes
  InputPaths <- MCInputPaths
  OutputDirs <- MCOutputDirs
  Index <- MCIndex
  Runs <- MCRuns
  OldBackups <- MCOldBackups
  WriterThreads = 3
  BatchSize = 2
  ReadsFail = TRUE
  MCCommands = {"copy", "move"}
  MCDryRuns = {TRUE, FALSE}
  MCBackups = {TRUE, FALSE}
  MCUndeletable <- SomeUndeletable
INVARIANTS
  ProtectedSurvive
  OnlyTheirOwn
  BackupKeeps
PROPERTIES
  CleaningEnds
CHECK_DEADLOCK FALSE
