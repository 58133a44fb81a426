SPECIFICATION Spec
CONSTANTS
  Hosts <- TwoHosts
  Locations <- Places
  Files <- TwoFiles
  Workers <- TwoWorkers
  Main = Main
  SockCap = 2
  Backlog = 4
  Width = 6
  Absent = Absent
  Dot = Dot
  Gone = Gone
  Size = 2
  Entries <- OneRoute
  Config <- AConfigured
  Blocks <- Initial
  Disks <- Start
  Commands <- AddAgain
  FdNumbers <- Numbers
  MaxBlocks = 2
  MaxCommands = 1
  MaxFaults = 0
  Free = Free
  Leaked = Leaked
  NoPair = NoPair
  Junk = Junk
  Old = Old
  a = a
  b = b
  t = t
  u = u
  h1 = h1
  h2 = h2
  f1 = f1
  f2 = f2
  f3 = f3
  f4 = f4
  w1 = w1
  w2 = w2
INVARIANTS CopiesExactly
