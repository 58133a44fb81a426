SPECIFICATION FairSpec
CONSTANTS
  Dirs <- OneDir
  ConfigDirs <- OneConfigured
  Files <- OneFile
  Limit = 2
  Commands <- Harmless
  ReadMax = 2
  MaxChanges = 4
  MaxCommands = 2
  MaxFaults = 0
  Removable <- JustA
  NoJob = NoJob
  a = a
  b = b
  f1 = f1
INVARIANTS Converged Exclusive ReplyInSync
PROPERTIES EventuallyMirrored CommandsAnswered ShutdownEnds
