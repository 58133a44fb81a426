SPECIFICATION FairSpec
CONSTANTS
  Hosts <- TwoHosts
  Locations <- Places
  Files <- TwoFiles
  Workers <- OneWorker
  Main = Main
  SockCap = 2
  Backlog = 4
  Width = 6
  Absent = Absent
  Dot = Dot
  Gone = Gone
  Size = 1
  Entries <- OneRoute
  Config <- NoneConfigured
  Blocks <- Initial
  Disks <- StartOrTooLong
  Commands <- AddOtherStop
  FdNumbers <- FewNumbers
  MaxBlocks = 2
  MaxCommands = 2
  MaxFaults = 1
  Free = Free
  Leaked = Leaked
  NoPair = NoPair
  Junk = Junk
  Old = Old
  a = a
  b = b
  t = t
  u = u
  h1 = h1
  h2 = h2
  f1 = f1
  f2 = f2
  f3 = f3
  f4 = f4
  w1 = w1
  w2 = w2
INVARIANTS TypeOK Conserved TargetExact ReplyInStep
PROPERTIES Delivered ListingEnds CommandsAnswered ShutdownCompletes
