SPECIFICATION FairSpec
CONSTANTS
  Size = 3
  Workers = {w1, w2}
  Pairs <- MCPairs
  Dirs <- MCDirs
  NoPair = NoPair
  f1 = f1
  f2 = f2
  a = a
  b = b
  h1 = h1
  h2 = h2
  t = t
INVARIANTS TypeOK NoLostWakeup ShutdownDrains NoDuplicates IInv 
PROPERTIES ImplementsBounded PlaceReturns Drains ShutdownCompletes
