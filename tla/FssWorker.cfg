SPECIFICATION FairSpec
CONSTANTS
  Files <- ThreeFiles
  LongNames <- OneLong
  Stale <- FirstTwo
  Lengths = {0, 2}
  MaxFds = 4
  MaxChanges = 1
  MaxFaults = 1
  SrcDir = SrcDir
  NoName = NoName
  TarDir = TarDir
  f1 = f1
  f2 = f2
  f3 = f3
INVARIANTS TypeOK FailuresStayApart StatusTrue
PROPERTIES ErrorsNoticed JobEnds
