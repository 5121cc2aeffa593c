SPECIFICATION FileSpec
CONSTANTS
  n1 = n1  n2 = n2  n3 = n3  n4 = n4  n5 = n5  k1 = k1  k2 = k2
  Stale = Stale  Zero = Zero  NoFile = NoFile
  Node <- Nodes5
  Cell <- Cells2
  MaxLen = 1
  SourceEdits = 0
INVARIANT CloneIsCopy
CHECK_DEADLOCK FALSE
