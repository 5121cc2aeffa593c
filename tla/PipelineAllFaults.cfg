SPECIFICATION Spec
CONSTANTS
  a = a  b = b  c = c
  i1 = i1  i2 = i2  i3 = i3
  s1 = s1  big1 = big1  big2 = big2
  None = None  Torn = Torn
  Path <- Paths2
  Inode <- Inodes2
  Content <- Contents
  SizeOf <- Sizes
  Mount <- OneMount
  Threshold = 2
  Strategy = "HardLink"
  Reflink = FALSE
  CopyFileRange <- AllPaths
  Faults <- AllButScan
  MaxTime = 1
  MaxRuns = 2
  ArgSets <- DryArgs
  MaxEdits = 1
INVARIANTS PipelineInv VerifiedIsWhole ForcedSuccessIsMirror
PROPERTIES DryRunOnlyDeletes
CHECK_DEADLOCK FALSE
