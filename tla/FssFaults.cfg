SPECIFICATION Spec
CONSTANTS
  Dirs <- TwoDirs
  ConfigDirs <- BothConfigured
  Files <- OneFile
  Limit = 1
  Commands <- AllOfOne
  ReadMax = 2
  MaxChanges = 2
  MaxCommands = 3
  MaxFaults = 1
  Removable <- None
  NoJob = NoJob
  a = a
  b = b
  f1 = f1
INVARIANTS TypeOK WorkingConsistent SlotAccounting ReplyInSync
CHECK_DEADLOCK FALSE
