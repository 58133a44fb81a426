SPECIFICATION Spec
CONSTANTS
  Dirs <- TwoDirs
  ConfigDirs <- BothConfigured
  Files <- OneFile
  Limit = 2
  Commands <- NoCommands
  ReadMax = 2
  MaxChanges = 4
  MaxCommands = 0
  MaxFaults = 0
  Removable <- None
  NoJob = NoJob
  a = a
  b = b
  f1 = f1
INVARIANTS Converged
