SPECIFICATION FairSpec
CONSTANTS
  a = a  b = b  c = c
  i1 = i1  i2 = i2  i3 = i3
  s1 = s1  big1 = big1  big2 = big2
  None = None  Torn = Torn
  Path <- Paths3
  Inode <- Inodes3
  Content <- Contents
  SizeOf <- Sizes
  Mount <- OneMount
  Threshold = 2
  Strategy = "Clone"
  Reflink = TRUE
  CopyFileRange <- AllPaths
  Faults = {"link", "symlink", "save", "crash"}
  MaxTime = 1
  MaxRuns = 3
INVARIANTS CleanInv CleanRunIsComplete
PROPERTIES CopyEnds
CHECK_DEADLOCK FALSE
