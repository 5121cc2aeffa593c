------------------------------ MODULE JointProofs ------------------------------
(***************************************************************************)
(* The exploration of MCFileProtocols moves one protocol at a time, and    *)
(* the theorems of FileProtocolProofs and ScanProofs are about each one's  *)
(* own specification.  Here the two meet: what the exploration does to the *)
(* state of a part is a behaviour of that part, so that everything proved  *)
(* of the parts holds of the exploration, for any number of processes,     *)
(* files, names and blocks.                                                *)
(***************************************************************************)
EXTENDS MCFileProtocols, FileProtocolProofs, ScanProofs

LEMMA RestingParts ==
  ASSUME JointNext
  PROVE  /\ LockedNext \/ UNCHANGED lockedVars
         /\ ManifestNext \/ UNCHANGED manifestVars
         /\ CacheNext \/ UNCHANGED cacheVars
         /\ UpdateNext \/ UNCHANGED updateVars
         /\ FileNext \/ UNCHANGED fileVars
         /\ TarNext \/ UNCHANGED tarVars
         /\ TreeNext \/ UNCHANGED treeVars
BY DEF JointNext, LockPart, ManifestPart, CachePart, UpdatePart, FilePart, TarPart, TreePart

LEMMA JointStep ==
  [JointNext]_jointVars =>
    /\ [LockedNext]_lockedVars /\ [ManifestNext]_manifestVars /\ [CacheNext]_cacheVars
    /\ [UpdateNext]_updateVars /\ [FileNext]_fileVars /\ [TarNext]_tarVars
    /\ [TreeNext]_treeVars
<1>1. ASSUME UNCHANGED jointVars
      PROVE  UNCHANGED <<lockedVars, manifestVars, cacheVars, updateVars, fileVars, tarVars,
                         treeVars>>
  BY <1>1 DEF jointVars
<1> QED
  BY <1>1, RestingParts

\* Seen through the variables of any one part, the exploration is a behaviour of
\* that part: it takes the part's steps or leaves it alone.
THEOREM PartsImplemented ==
  JointSpec => /\ LockedSpec /\ ManifestSpec /\ CacheSpec /\ UpdateSpec
               /\ FileSpec /\ TarSpec /\ TreeSpec
<1>1. JointInit => /\ LockedInit /\ ManifestInit /\ CacheInit /\ UpdateInit
                   /\ FileInit /\ TarInit /\ TreeInit
  BY DEF JointInit
<1> QED
  BY <1>1, JointStep, PTL
     DEF JointSpec, LockedSpec, ManifestSpec, CacheSpec, UpdateSpec, FileSpec, TarSpec, TreeSpec

\* Each part has its types and its inductive invariant in every reachable state.
THEOREM JointTypeHolds == JointSpec => []JointTypeOK
<1> DEFINE PartIsOne == part \in {"lock", "manifest", "cache", "update", "file", "tar", "tree"}
<1> DEFINE AllHold == /\ LockedInv /\ ManifestTypeOK /\ CacheInv /\ UpdateInv
                      /\ FileInv /\ TarInv /\ WalkInv
<1>1. PartIsOne /\ AllHold => JointTypeOK
  <2> SUFFICES ASSUME PartIsOne, AllHold PROVE JointTypeOK
    OBVIOUS
  <2>1. CASE part = "lock"
    BY <2>1 DEF JointTypeOK
  <2>2. CASE part = "manifest"
    BY <2>2 DEF JointTypeOK
  <2>3. CASE part = "cache"
    BY <2>3 DEF JointTypeOK
  <2>4. CASE part = "update"
    BY <2>4 DEF JointTypeOK
  <2>5. CASE part = "file"
    BY <2>5 DEF JointTypeOK
  <2>6. CASE part = "tar"
    BY <2>6 DEF JointTypeOK
  <2>7. CASE part = "tree"
    BY <2>7 DEF JointTypeOK
  <2> QED
    BY <2>1, <2>2, <2>3, <2>4, <2>5, <2>6, <2>7
<1>2. JointInit => PartIsOne
  BY DEF JointInit
<1>3. PartIsOne /\ [JointNext]_jointVars => PartIsOne'
  BY DEF JointNext, LockPart, ManifestPart, CachePart, UpdatePart, FilePart, TarPart, TreePart,
         jointVars
<1>4. ManifestInv => ManifestTypeOK
  BY DEF ManifestInv
<1> HIDE DEF PartIsOne
<1>5. JointSpec => []PartIsOne
  BY <1>2, <1>3, PTL DEF JointSpec
<1> QED
  BY <1>1, <1>4, <1>5, PartsImplemented, LockedInductive, ManifestInductive, CacheInductive,
     UpdateInductive, FileInductive, TarInductive, WalkInductive, PTL

\* lock.rs, manifest.rs, cache.rs, update.rs, copy.rs, scan.rs, delta.rs:
\* what the exploration checks of each protocol on its few files and processes holds
\* for any number of them.
THEOREM ProtocolsAreSafe ==
  JointSpec => /\ [](ExclusiveUntilOrphaned /\ NoStaleLock /\ SavedIsListed)
               /\ []AlwaysParses /\ Implements
               /\ []HitIsCurrent /\ BatchIsWhole
               /\ []BinarySurvives /\ OutcomeIsTrue
               /\ [](CopyIsOfSource /\ LinkKeepsCanonical /\ LinkFindsName)
               /\ []SteadyBatchIsWhole
               /\ []StableFilesAreFound /\ DeleteSparesTheRest
<1>1. JointSpec => [](ExclusiveUntilOrphaned /\ NoStaleLock /\ SavedIsListed)
  BY PartsImplemented, LockImplemented, ExclusiveUntilOrphanedHolds, NoStaleLockHolds,
     SavedIsListedHolds, PTL
<1>2. JointSpec => []AlwaysParses /\ Implements
  BY PartsImplemented, AlwaysParsesHolds, Refinement, PTL
<1>3. JointSpec => []HitIsCurrent /\ BatchIsWhole
  BY PartsImplemented, HitIsCurrentHolds, BatchIsWholeHolds, PTL
<1>4. JointSpec => []BinarySurvives /\ OutcomeIsTrue
  BY PartsImplemented, BinarySurvivesHolds, OutcomeIsTrueHolds, PTL
<1>5. JointSpec => [](CopyIsOfSource /\ LinkKeepsCanonical /\ LinkFindsName)
  BY PartsImplemented, CopyIsOfSourceHolds, LinkKeepsCanonicalHolds, LinkFindsNameHolds, PTL
<1>6. JointSpec => []SteadyBatchIsWhole
  BY PartsImplemented, SteadyBatchIsWholeHolds, PTL
<1>7. JointSpec => []StableFilesAreFound /\ DeleteSparesTheRest
  BY PartsImplemented, StableFilesAreFoundHolds, DeleteSparesTheRestHolds, PTL
<1> QED
  BY <1>1, <1>2, <1>3, <1>4, <1>5, <1>6, <1>7
================================================================================
