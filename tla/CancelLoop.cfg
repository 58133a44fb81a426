SPECIFICATION Spec
CONSTANTS
  Size = 3
  Pairs <- MCPairs
  Dirs <- MCDirs
  NoPair = NoPair
  f1 = f1
  f2 = f2
  a = a
  b = b
  h1 = h1
  h2 = h2
  h3 = h3
  t = t
INVARIANTS TypeOK WalkSafe WalkIsClosedForm ReportExact
