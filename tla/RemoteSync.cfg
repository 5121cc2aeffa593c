SPECIFICATION FairSpec
CONSTANTS
  a = a  b = b
  small = small  big = big  top = top  sub = sub
  None = None  Torn = Torn
  Path <- Paths2
  Content <- TwoSizes
  SizeOf <- Sizes
  Dir <- Dirs
  Root = top
  DirOf <- DirMap
  BatchSize = 2
  Before <- Leftovers
  Modes <- AllModes
  ArgSets <- MixedArgs
  Faults <- FaultKinds
  MaxEdits = 1
INVARIANTS    GzipCatchesCuts
PROPERTIES TransferEnds
CHECK_DEADLOCK FALSE
