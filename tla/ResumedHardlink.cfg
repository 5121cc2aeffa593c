SPECIFICATION Spec
CONSTANTS
  a = a  b = b  c = c
  i1 = i1  i2 = i2  i3 = i3
  s1 = s1  big1 = big1  big2 = big2
  None = None  Torn = Torn
  Path <- Paths3
  Inode <- Inodes3
  Content <- Contents
  SizeOf <- Sizes
  Mount <- TwoMounts
  Threshold = 2
  Strategy = "HardLink"
  Reflink = FALSE
  CopyFileRange <- NotOnB
  Faults <- EngineFaults
  MaxTime = 1
  MaxRuns = 2
INVARIANTS IInv ListedLargeIsWhole SharedInodeIsOneGroup
PROPERTIES ManifestOnlyGrows
CHECK_DEADLOCK FALSE
