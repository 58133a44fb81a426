SPECIFICATION FairSpec
CONSTANTS
  Dirs <- OneDir
  ConfigDirs <- OneConfigured
  Files <- OneFile
  Limit = 2
  Commands <- CancelAdd
  ReadMax = 2
  MaxChanges = 2
  MaxCommands = 2
  MaxFaults = 0
  Removable <- None
  NoJob = NoJob
  a = a
  b = b
  f1 = f1
PROPERTIES EventsHaveOwners
