SPECIFICATION Spec
CONSTANTS
  Jobs <- MCJobs
  Dirs <- MCDirs
  MaxLen = 4
  a = a
  b = b
  c = c
  f1 = f1
  f2 = f2
INVARIANTS IntactIsFifo SizeCovers
