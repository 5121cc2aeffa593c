SPECIFICATION Spec
CONSTANTS
  a = a  b = b
  small = small  big = big  top = top  sub = sub
  None = None  Torn = Torn
  Path <- Paths2
  Content <- TwoSizes
  SizeOf <- Sizes
  Dir <- Dirs
  Root = top
  DirOf <- DirMap
  BatchSize = 2
  Before <- Empty
  Modes <- Uploads
  ArgSets <- PlainArgs
  Faults <- NoFaults
  MaxEdits = 0
INVARIANT DuplicatesMaterialised
CHECK_DEADLOCK FALSE
