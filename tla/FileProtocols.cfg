SPECIFICATION JointSpec
CONSTANTS
  p1 = p1  p2 = p2  f1 = f1  f2 = f2  f3 = f3  i1 = i1  i2 = i2  g = g
  None = None
  Proc <- Procs2
  File <- Files3
  Inode <- Inodes2
  Work = {g}
  Deletes = TRUE
  MaxRuns = 2
  v1 = v1  v2 = v2
  Empty = Empty  Missing = Missing  Partial = Partial
  Value <- Values
  w1 = w1  w2 = w2  c1 = c1  c2 = c2  q1 = q1  q2 = q2
  Absent = Absent
  Worker <- Workers2
  Cached <- Cached2
  Block <- Blocks2
  Data <- Contents
  Algorithm = {"blake3"}
  MaxStamp = 1
  MaxEdits = 1
  MaxScans = 2
  u1 = u1  u2 = u2  e1 = e1  e2 = e2  e3 = e3  b1 = b1  b2 = b2  b3 = b3
  Hole = Hole
  Updater <- Updaters2
  Binary <- Binaries
  Ver <- Versions
  First = b1
  Releases <- Offered
  ExeInode <- Exes3
  MaxUpdates = 2
  n1 = n1  n2 = n2  n3 = n3  n4 = n4  n5 = n5  k1 = k1  k2 = k2
  Stale = Stale  Zero = Zero  NoFile = NoFile
  Node <- Nodes5
  Cell <- Cells2
  MaxLen = 2
  SourceEdits = 2
  Count = 2
  Zeros = Zeros  Unset = Unset
  Chunk <- Chunks2
  MaxBlocks = 2
  MaxWrites = 1
  na = na  nb = nb  nm = nm  s0 = s0  s1 = s1  d0 = d0  d1 = d1  o0 = o0
  Name <- Names3
  Spared = {nm}
  SourceDirs = {s0, s1}
  DestDirs = {d0, d1}
  OtherDirs = {o0}
  SourceRoot = s0
  DestRoot = d0
  Regular = Regular  Nothing = Nothing
  MaxDepth = 2
  Patterns <- NoneOrNb
  Trees <- Trees50
  MaxMoves = 1
INVARIANTS
  JointTypeOK
  ExclusiveUntilOrphaned NoStaleLock SavedIsListed
  AlwaysParses HitIsCurrent BinarySurvives
  CopyIsOfSource LinkKeepsCanonical LinkFindsName
  SteadyBatchIsWhole StableFilesAreFound
PROPERTIES Implements BatchIsWhole OutcomeIsTrue DeleteSparesTheRest
CHECK_DEADLOCK FALSE
