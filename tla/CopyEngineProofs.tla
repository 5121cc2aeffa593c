---------------------------- MODULE CopyEngineProofs ----------------------------
(***************************************************************************)
(* Every plan engine::dedup makes is one the copy engine can rely on, and  *)
(* the steps of the engine keep its state well typed, whatever             *)
(* specification takes them: ResumedCopy and LocalPipeline both cite this. *)
(***************************************************************************)
EXTENDS CopyEngine, FiniteSetTheorems, TLAPS

(***************************************************************************)
(* DedupPlan                                                               *)
(***************************************************************************)
\* A hash is the content of a scanned entry, or missing.
LEMMA HashOfEntry ==
  ASSUME NEW E \in SUBSET Path, NEW seen \in [Path -> Content \cup {None}],
         \A p \in E : seen[p] \in Content, NEW failed
  PROVE  /\ HashOf(E, seen, failed) \in [Path -> Content \cup {None}]
         /\ \A p \in Path : HashOf(E, seen, failed)[p] # None =>
              p \in E /\ HashOf(E, seen, failed)[p] = seen[p]
BY DEF HashOf

\* A duplicate and its canonical copy share a hash, and the canonical copy is
\* not a duplicate itself.
LEMMA CanonIsHead ==
  ASSUME NEW hash \in [Path -> Content \cup {None}], NEW canon \in Canons(hash),
         NEW p \in Path, canon[p] # None
  PROVE  /\ hash[p] # None
         /\ canon[p] \in Path
         /\ hash[canon[p]] = hash[p]
         /\ canon[canon[p]] = None
<1>1. hash[p] # None
  BY DEF Canons
<1>2. PICK head \in Group(hash, p) :
        \A q \in Group(hash, p) : canon[q] = IF q = head THEN None ELSE head
  BY <1>1 DEF Canons
<1>3. p \in Group(hash, p)
  BY DEF Group
<1>4. canon[p] = head /\ head \in Path /\ hash[head] = hash[p]
  BY <1>2, <1>3 DEF Group
<1> QED
  BY <1>1, <1>2, <1>4

\* Whatever sizes collide, whichever files cannot be hashed and whichever member
\* of a group is its head, no plan links two files of different content.
\* (dedup.rs assemble_plan.)
THEOREM PlansAreWellFormed ==
  ASSUME NEW E \in SUBSET Path, NEW seen \in [Path -> Content \cup {None}],
         \A p \in E : seen[p] \in Content, NEW failed,
         NEW pl \in Plans(E, seen, failed)
  PROVE  WellFormed(pl)
<1> DEFINE hash == HashOf(E, seen, failed)
<1>1. PICK canon \in Canons(hash) :
        pl = [entries |-> E, seen |-> seen, hash |-> hash, canon |-> canon]
  BY DEF Plans
<1>2. /\ hash \in [Path -> Content \cup {None}]
      /\ \A p \in Path : hash[p] # None => p \in E /\ hash[p] = seen[p]
  BY HashOfEntry
<1>3. canon \in [Path -> Path \cup {None}]
  BY DEF Canons
<1>4. ASSUME NEW p \in Path, canon[p] # None
      PROVE  /\ p \in E /\ canon[p] \in E
             /\ canon[canon[p]] = None
             /\ hash[p] # None /\ hash[canon[p]] = hash[p]
  <2> HIDE DEF hash
  <2> QED BY <1>2, <1>4, CanonIsHead
<1> HIDE DEF hash
<1>5. pl \in PlanRecord
  BY <1>1, <1>2, <1>3 DEF PlanRecord
<1> QED
  BY <1>1, <1>2, <1>4, <1>5 DEF WellFormed

\* So does the plan of --no-dedup, trivially: it has no duplicate.
THEOREM FlatPlanIsWellFormed ==
  ASSUME NEW E \in SUBSET Path, NEW seen \in [Path -> Content \cup {None}],
         \A p \in E : seen[p] \in Content
  PROVE  WellFormed(FlatPlan(E, seen))
BY DEF WellFormed, FlatPlan, PlanRecord

-----------------------------------------------------------------------------
(***************************************************************************)
(* CopyEngine                                                              *)
(***************************************************************************)
LEMMA MarkType ==
  ASSUME TypeOK, NEW m \in Manifest, NEW S \in SUBSET plan.entries
  PROVE  Mark(m, S) \in Manifest
BY SizeAssumption
   DEF Mark, Manifest, EntryFor, ManifestEntry, Size, TypeOK, WellFormed, PlanRecord

\* A file made or truncated by the engine is an inode's worth of data.
LEMMA WrittenType ==
  /\ TornNow \in InodeData
  /\ \A x \in Content \cup {Torn} : Written(x) \in InodeData
BY EngineAssumption DEF TornNow, Written, InodeData, CopyTime

LEMMA TargetType ==
  ASSUME TypeOK, NEW p \in Path
  PROVE  Target(p) \in Path
BY DEF Target, TypeOK

\* What can be read through a path is a content, whole or torn.
LEMMA HoldsType ==
  ASSUME TypeOK, NEW p \in Path, Exists(p)
  PROVE  Holds(p) \in Content \cup {Torn}
BY TargetType DEF Holds, Exists, TypeOK, InodeData

LEMMA CreateType ==
  ASSUME TypeOK, NEW p \in Path, Create(p) \/ CreateAfterRemove(p) \/ Replace(p)
  PROVE  /\ dir' \in [Path -> Inode \cup Path \cup {None}]
         /\ data' \in [Inode -> InodeData]
BY WrittenType, TargetType
   DEF Create, CreateAfterRemove, Replace, TypeOK, FreeFor, Exists

\* What the hard-link tier finds is a directory over inodes.
LEMMA AtLinkType ==
  ASSUME TypeOK, NEW p \in Path
  PROVE  /\ NameAtLink(p) \in [Path -> Inode \cup Path \cup {None}]
         /\ DataAtLink(p) \in [Inode -> InodeData]
BY WrittenType DEF NameAtLink, DataAtLink, TypeOK, Exists

LEMMA PlanType ==
  ASSUME TypeOK
  PROVE  /\ plan \in PlanRecord
         /\ Canonicals \subseteq plan.entries /\ Duplicates \subseteq plan.entries
         /\ plan.entries \subseteq Path
         /\ \A p \in Duplicates : plan.canon[p] \in Canonicals
BY NoneAssumption
   DEF TypeOK, WellFormed, PlanRecord, Canonicals, Duplicates, IsDuplicate

\* What no step of the engine touches, and the one way the manifest file changes.
LEMMA EngineFrame ==
  ASSUME EngineStep
  PROVE  /\ UNCHANGED <<src, plan, runs>>
         /\ pc # "idle" /\ pc' # "idle"
         /\ disk' = disk \/ disk' = mem
<1>1. ASSUME Phase1Step
      PROVE  UNCHANGED <<src, plan, runs, disk>> /\ pc # "idle" /\ pc' # "idle"
  BY <1>1 DEF Phase1Step, SkipCompleted, ParentDirFails, PutAside, LargeOpenFails,
              LargeStart, UnpackStart, LargeDone, LargeFails, EndOfPhase1, Pack,
              UnpackDone, UnpackFails, UnpackEnds, MarkSmall
<1>2. ASSUME Phase2Step
      PROVE  UNCHANGED <<src, plan, runs, disk>> /\ pc # "idle" /\ pc' # "idle"
  BY <1>2 DEF Phase2Step, Clone, HardLink, HardLinkFails, Symlink, FallbackStart,
              FallbackDone, FallbackFails, EndOfPhase2, Linked, AcrossMounts,
              AtDuplicate
<1>3. ASSUME Save \/ SaveFails
      PROVE  /\ UNCHANGED <<src, plan, runs>> /\ pc # "idle" /\ pc' # "idle"
             /\ disk' = disk \/ disk' = mem
  BY <1>3 DEF Save, SaveFails, AfterSave
<1> QED
  BY <1>1, <1>2, <1>3 DEF EngineStep

-----------------------------------------------------------------------------
LEMMA Phase1Type ==
  ASSUME TypeOK, ControlOK, Phase1Step
  PROVE  TypeOK' /\ ControlOK'
<1> USE PlanType, NoneAssumption
<1> USE DEF TypeOK, ControlOK, PC, EmptyArchive, Fail, Canonicals, Duplicates,
            IsDuplicate, IsSmall, Size, Exists, Target, Manifest
<1>1. ASSUME NEW p \in Path, SkipCompleted(p) PROVE TypeOK' /\ ControlOK'
  BY <1>1 DEF SkipCompleted
<1>2. ASSUME NEW p \in Path, ParentDirFails(p) PROVE TypeOK' /\ ControlOK'
  BY <1>2 DEF ParentDirFails
<1>3. ASSUME NEW p \in Path, PutAside(p) PROVE TypeOK' /\ ControlOK'
  BY <1>3 DEF PutAside
<1>4. ASSUME NEW p \in Path, LargeOpenFails(p) PROVE TypeOK' /\ ControlOK'
  BY <1>4 DEF LargeOpenFails
<1>5. ASSUME NEW p \in Path, LargeStart(p) PROVE TypeOK' /\ ControlOK'
  <2>1. /\ dir' \in [Path -> Inode \cup Path \cup {None}]
        /\ data' \in [Inode -> InodeData]
    BY <1>5, CreateType DEF LargeStart
  <2> QED BY <1>5, <2>1 DEF LargeStart
<1>6. ASSUME NEW p \in Path, UnpackStart(p) PROVE TypeOK' /\ ControlOK'
  <2>1. /\ dir' \in [Path -> Inode \cup Path \cup {None}]
        /\ data' \in [Inode -> InodeData]
    BY <1>6, CreateType DEF UnpackStart
  <2> QED BY <1>6, <2>1 DEF UnpackStart
<1>7. ASSUME LargeDone PROVE TypeOK' /\ ControlOK'
  <2>1. Mark(mem, {cur}) \in Manifest
    BY <1>7, MarkType DEF LargeDone
  <2>2. src[cur].content \in Content
    BY <1>7 DEF LargeDone, SourceFile
  <2>3. data' \in [Inode -> InodeData]
    BY <1>7, <2>2, WrittenType DEF LargeDone
  <2> QED BY <1>7, <2>1, <2>3 DEF LargeDone
<1>8. ASSUME LargeFails PROVE TypeOK' /\ ControlOK'
  BY <1>8 DEF LargeFails
<1>9. ASSUME EndOfPhase1 PROVE TypeOK' /\ ControlOK'
  BY <1>9 DEF EndOfPhase1
<1>10. ASSUME Pack PROVE TypeOK' /\ ControlOK'
  <2>1. PICK lost, spoilt \in SUBSET batch :
          /\ \A p \in batch \ lost : src[p] # None
          /\ archive' = [p \in Path |->
               IF p \notin batch \ lost THEN None
               ELSE IF p \in spoilt THEN [src[p] EXCEPT !.content = Torn]
               ELSE src[p]]
          /\ errors' = errors \cup lost \cup spoilt
    BY <1>10 DEF Pack
  <2>2. \A p \in batch \ lost : /\ src[p] \in InodeData
                                /\ [src[p] EXCEPT !.content = Torn] \in InodeData
    BY <2>1, EngineAssumption DEF SourceFile, InodeData
  <2>3. /\ archive' \in [Path -> InodeData \cup {None}]
        /\ \A p \in Path : archive'[p] # None => p \in batch
    BY <2>1, <2>2
  <2> QED BY <1>10, <2>1, <2>3 DEF Pack
<1>11. ASSUME UnpackDone PROVE TypeOK' /\ ControlOK'
  BY <1>11 DEF UnpackDone
<1>12. ASSUME UnpackFails PROVE TypeOK' /\ ControlOK'
  BY <1>12 DEF UnpackFails
<1>13. ASSUME UnpackEnds PROVE TypeOK' /\ ControlOK'
  BY <1>13 DEF UnpackEnds
<1>14. ASSUME MarkSmall PROVE TypeOK' /\ ControlOK'
  <2>1. Mark(mem, batch) \in Manifest
    BY <1>14, MarkType DEF MarkSmall
  <2> QED BY <1>14, <2>1 DEF MarkSmall
<1> QED
  BY <1>1, <1>2, <1>3, <1>4, <1>5, <1>6, <1>7, <1>8, <1>9, <1>10,
     <1>11, <1>12, <1>13, <1>14 DEF Phase1Step

-----------------------------------------------------------------------------
LEMMA LinkedType ==
  ASSUME TypeOK, ControlOK, NEW p \in Path, AtDuplicate(p), Linked(p),
         dir' \in [Path -> Inode \cup Path \cup {None}],
         data' \in [Inode -> InodeData]
  PROVE  TypeOK' /\ ControlOK'
<1>1. Mark(mem, {p}) \in Manifest
  BY MarkType DEF AtDuplicate, TypeOK
<1> QED
  BY <1>1, PlanType
     DEF TypeOK, ControlOK, PC, AtDuplicate, Linked, Canonicals, Duplicates,
         IsDuplicate, IsSmall, Size

LEMMA Phase2Type ==
  ASSUME TypeOK, ControlOK, Phase2Step
  PROVE  TypeOK' /\ ControlOK'
<1> USE PlanType, NoneAssumption
<1>1. ASSUME NEW p \in Path, Clone(p) PROVE TypeOK' /\ ControlOK'
  <2>1. Written(Holds(plan.canon[p])) \in InodeData
    BY <1>1, HoldsType, WrittenType
       DEF Clone, CloneWorks, AtDuplicate, TypeOK, ControlOK, Duplicates, Canonicals
  <2>2. /\ dir' \in [Path -> Inode \cup Path \cup {None}]
        /\ data' \in [Inode -> InodeData]
    BY <1>1, <2>1, WrittenType, TargetType DEF Clone, TypeOK, FreeFor, Exists
  <2> QED BY <1>1, <2>2, LinkedType DEF Clone
<1>2. ASSUME NEW p \in Path, HardLink(p) PROVE TypeOK' /\ ControlOK'
  <2>1. plan.canon[p] \in Path
    BY <1>2 DEF HardLink, AtDuplicate, TypeOK, ControlOK
  <2>2. /\ dir' \in [Path -> Inode \cup Path \cup {None}]
        /\ data' \in [Inode -> InodeData]
    BY <1>2, <2>1, AtLinkType DEF HardLink, TypeOK
  <2> QED BY <1>2, <2>2, LinkedType DEF HardLink
<1>3. ASSUME NEW p \in Path, HardLinkFails(p) PROVE TypeOK' /\ ControlOK'
  <2>1. /\ dir' \in [Path -> Inode \cup Path \cup {None}]
        /\ data' \in [Inode -> InodeData]
    BY <1>3, AtLinkType DEF HardLinkFails
  <2> QED
    BY <1>3, <2>1
       DEF HardLinkFails, AtDuplicate, TypeOK, ControlOK, PC, Fail, Canonicals,
           Duplicates, IsDuplicate, IsSmall, Size
<1>4. ASSUME NEW p \in Path, Symlink(p) PROVE TypeOK' /\ ControlOK'
  <2>1. plan.canon[p] \in Path
    BY <1>4 DEF Symlink, AcrossMounts, AtDuplicate, TypeOK, ControlOK
  <2>2. /\ dir' \in [Path -> Inode \cup Path \cup {None}]
        /\ data' \in [Inode -> InodeData]
    BY <1>4, <2>1, AtLinkType DEF Symlink, TypeOK
  <2> QED BY <1>4, <2>2, LinkedType DEF Symlink, AcrossMounts
<1>5. ASSUME NEW p \in Path, FallbackStart(p) PROVE TypeOK' /\ ControlOK'
  <2>1. /\ p \in Duplicates /\ plan.canon[p] \in Path /\ plan.canon[p] # p
        /\ pc = "link" /\ p \in todo
    BY <1>5 DEF FallbackStart, AcrossMounts, AtDuplicate, TypeOK, ControlOK,
                Canonicals, Duplicates
  <2>2. /\ dir' \in [Path -> Inode \cup Path \cup {None}]
        /\ data' \in [Inode -> InodeData]
    <3>1. /\ NameAtLink(p) \in [Path -> Inode \cup Path \cup {None}]
          /\ DataAtLink(p) \in [Inode -> InodeData]
      BY AtLinkType
    <3>2. CASE Exists(plan.canon[p])
      BY <1>5, <3>1, <3>2, WrittenType DEF FallbackStart, TypeOK, FreeFor
    <3>3. CASE ~Exists(plan.canon[p])
      BY <1>5, <3>1, <3>3 DEF FallbackStart
    <3> QED BY <3>2, <3>3
  <2>3. pc' = "fallback" => cur' = p /\ Exists(plan.canon[p])'
    BY <1>5, <2>1, EngineAssumption DEF FallbackStart, Exists, Target, FreeFor, TypeOK
  <2> QED
    BY <1>5, <2>1, <2>2, <2>3
       DEF FallbackStart, TypeOK, ControlOK, PC, Fail, Canonicals, Duplicates,
           IsDuplicate, IsSmall, Size
<1>6. ASSUME FallbackDone PROVE TypeOK' /\ ControlOK'
  <2>1. cur \in Duplicates /\ Exists(plan.canon[cur]) /\ plan.canon[cur] \in Path
    BY <1>6 DEF FallbackDone, ControlOK, Canonicals
  <2>2. data' \in [Inode -> InodeData]
    BY <1>6, <2>1, HoldsType, WrittenType DEF FallbackDone, TypeOK
  <2>3. Mark(mem, {cur}) \in Manifest
    BY <2>1, MarkType DEF TypeOK
  <2> QED
    BY <1>6, <2>2, <2>3
       DEF FallbackDone, TypeOK, ControlOK, PC, Canonicals, Duplicates,
           IsDuplicate, IsSmall, Size
<1>7. ASSUME FallbackFails PROVE TypeOK' /\ ControlOK'
  BY <1>7 DEF FallbackFails, TypeOK, ControlOK, PC, Fail, Canonicals, Duplicates,
              IsDuplicate, IsSmall, Size
<1>8. ASSUME EndOfPhase2 PROVE TypeOK' /\ ControlOK'
  BY <1>8 DEF EndOfPhase2, TypeOK, ControlOK, PC, Canonicals, Duplicates,
              IsDuplicate, IsSmall, Size
<1> QED
  BY <1>1, <1>2, <1>3, <1>4, <1>5, <1>6, <1>7, <1>8 DEF Phase2Step

-----------------------------------------------------------------------------
LEMMA SaveType ==
  ASSUME TypeOK, ControlOK, Save \/ SaveFails
  PROVE  TypeOK' /\ ControlOK'
BY PlanType
   DEF Save, SaveFails, AfterSave, LinkWork, TypeOK, ControlOK, PC, Canonicals,
       Duplicates, IsDuplicate, IsSmall, Size

\* No step of the engine, however it fails, leaves a badly typed state or one
\* whose control state and work lists disagree.
THEOREM EngineType ==
  ASSUME TypeOK, ControlOK, EngineStep
  PROVE  TypeOK' /\ ControlOK'
BY Phase1Type, Phase2Type, SaveType DEF EngineStep

\* Nor does a kill between any two steps.
THEOREM CrashType ==
  ASSUME TypeOK, ControlOK, Crash
  PROVE  TypeOK' /\ ControlOK'
BY DEF Crash, TypeOK, ControlOK, PC, NoManifest, Manifest, EmptyArchive,
       Canonicals, Duplicates, IsDuplicate, IsSmall, Size

\* Entering the engine with a well-formed plan and any manifest is typed.
THEOREM BeginType ==
  ASSUME TypeOK, ControlOK, NEW p, WellFormed(p), NEW m \in Manifest, Begin(p, m),
         UNCHANGED <<src, dir, data>>, disk' \in Manifest
  PROVE  TypeOK' /\ ControlOK'
BY NoneAssumption
   DEF Begin, TypeOK, ControlOK, PC, EmptyArchive, Canonicals, Duplicates,
       IsDuplicate, IsSmall, Size

-----------------------------------------------------------------------------
(* Every step leaves less to do                                             *)

\* The work lists are finite, so that their sizes are numbers.
LEMMA WorkIsFinite ==
  ASSUME TypeOK
  PROVE  /\ \A S \in SUBSET Path : IsFiniteSet(S) /\ Cardinality(S) \in Nat
         /\ todo \in SUBSET Path /\ batch \in SUBSET Path /\ InArchive \in SUBSET Path
         /\ Duplicates \in SUBSET Path
<1>1. ASSUME NEW S \in SUBSET Path PROVE IsFiniteSet(S) /\ Cardinality(S) \in Nat
  BY PathAssumption, FS_Subset, FS_CardinalityType
<1>2. todo \subseteq Path /\ batch \subseteq Path /\ Duplicates \subseteq Path
  BY PlanType DEF TypeOK
<1> QED BY <1>1, <1>2 DEF InArchive

LEMMA OneLess ==
  ASSUME NEW S \in SUBSET Path, NEW p \in S
  PROVE  /\ Cardinality(S) \in Nat \ {0}
         /\ Cardinality(S \ {p}) = Cardinality(S) - 1
         /\ Cardinality(S \ {p}) \in Nat
<1>1. IsFiniteSet(S)
  BY PathAssumption, FS_Subset
<1> QED BY <1>1, FS_RemoveElement, FS_CardinalityType, FS_EmptySet

LEMMA OneMore ==
  ASSUME NEW S \in SUBSET Path, NEW p
  PROVE  Cardinality(S \cup {p}) \in Nat /\ Cardinality(S \cup {p}) <= Cardinality(S) + 1
<1>1. IsFiniteSet(S) /\ Cardinality(S) \in Nat
  BY PathAssumption, FS_Subset, FS_CardinalityType
<1>2. Cardinality(S \cup {p}) = IF p \in S THEN Cardinality(S) ELSE Cardinality(S) + 1
  BY <1>1, FS_AddElement
<1> QED BY <1>1, <1>2

LEMMA Phase1Shrinks ==
  ASSUME TypeOK, ControlOK, Phase1Step
  PROVE  CopyStepsLeft' < CopyStepsLeft
<1> DEFINE d == Cardinality(Duplicates)
           t == Cardinality(todo)
           b == Cardinality(batch)
           a == Cardinality(InArchive)
<1>1. d \in Nat /\ t \in Nat /\ b \in Nat /\ a \in Nat
  BY WorkIsFinite
<1>2. Duplicates' = Duplicates
  BY EngineFrame DEF EngineStep, Duplicates, IsDuplicate
<1>3. ASSUME NEW p \in Path, SkipCompleted(p) \/ ParentDirFails(p) \/ LargeOpenFails(p)
      PROVE  CopyStepsLeft' < CopyStepsLeft
  <2>1. p \in todo /\ pc \in {"copy", "link"} /\ pc' = pc /\ batch' = batch
        /\ todo' = todo \ {p}
    BY <1>3 DEF SkipCompleted, ParentDirFails, LargeOpenFails
  <2>2. Cardinality(todo') = t - 1
    BY <2>1, WorkIsFinite, OneLess
  <2> QED BY <1>1, <1>2, <2>1, <2>2 DEF CopyStepsLeft
<1>4. ASSUME NEW p \in Path, PutAside(p) PROVE CopyStepsLeft' < CopyStepsLeft
  <2>1. p \in todo /\ pc = "copy" /\ pc' = pc /\ batch' = batch \cup {p}
        /\ todo' = todo \ {p}
    BY <1>4 DEF PutAside
  <2>2. Cardinality(todo') = t - 1
    BY <2>1, WorkIsFinite, OneLess
  <2>3. Cardinality(batch') \in Nat /\ Cardinality(batch') <= b + 1
    BY <2>1, WorkIsFinite, OneMore
  <2> QED BY <1>1, <1>2, <2>1, <2>2, <2>3 DEF CopyStepsLeft
<1>5. ASSUME NEW p \in Path, LargeStart(p) PROVE CopyStepsLeft' < CopyStepsLeft
  <2>1. p \in todo /\ pc = "copy" /\ pc' = "large" /\ batch' = batch
        /\ todo' = todo \ {p}
    BY <1>5 DEF LargeStart
  <2>2. Cardinality(todo') = t - 1
    BY <2>1, WorkIsFinite, OneLess
  <2> QED BY <1>1, <1>2, <2>1, <2>2 DEF CopyStepsLeft
<1>6. ASSUME NEW p \in Path, UnpackStart(p) PROVE CopyStepsLeft' < CopyStepsLeft
  <2>1. pc = "unpack" /\ pc' = pc /\ cur = None /\ cur' # None /\ InArchive' = InArchive
    BY <1>6, NoneAssumption DEF UnpackStart, InArchive
  <2> QED BY <1>1, <1>2, <2>1 DEF CopyStepsLeft
<1>7. CASE LargeDone \/ LargeFails
  <2>1. pc = "large" /\ pc' \in {"copy", "saveLarge"} /\ todo' = todo /\ batch' = batch
    BY <1>7 DEF LargeDone, LargeFails
  <2> QED BY <1>1, <1>2, <2>1 DEF CopyStepsLeft
<1>8. CASE EndOfPhase1
  <2>1. /\ pc = "copy" /\ batch' = batch
        /\ \/ pc' = "pack"
           \/ pc' = "link" /\ todo' = Duplicates
    BY <1>8 DEF EndOfPhase1
  <2> QED BY <1>1, <1>2, <2>1 DEF CopyStepsLeft
<1>9. CASE Pack
  <2>1. pc = "pack" /\ pc' = "unpack" /\ InArchive' \in SUBSET batch
    BY <1>9 DEF Pack, InArchive
  <2>2. Cardinality(InArchive') \in Nat /\ Cardinality(InArchive') <= b
    BY <2>1, WorkIsFinite, FS_Subset, FS_CardinalityType
  <2> QED BY <1>1, <1>2, <2>1, <2>2 DEF CopyStepsLeft
<1>10. CASE UnpackDone
  <2>1. pc = "unpack" /\ pc' = pc /\ cur # None /\ cur' = None /\ cur \in InArchive
        /\ InArchive' = InArchive \ {cur}
    BY <1>10 DEF UnpackDone, InArchive, TypeOK, ControlOK
  <2>2. Cardinality(InArchive') = a - 1 /\ Cardinality(InArchive') \in Nat
    BY <2>1, WorkIsFinite, OneLess
  <2> QED BY <1>1, <1>2, <2>1, <2>2 DEF CopyStepsLeft
<1>11. CASE UnpackFails \/ UnpackEnds
  <2>1. pc = "unpack" /\ pc' = "mark"
    BY <1>11 DEF UnpackFails, UnpackEnds
  <2>2. cur # None => a # 0
    <3>1. cur # None => cur \in InArchive
      BY <2>1 DEF InArchive, TypeOK, ControlOK
    <3> QED BY <3>1, WorkIsFinite, OneLess
  <2> QED BY <1>1, <1>2, <2>1, <2>2 DEF CopyStepsLeft
<1>12. CASE MarkSmall
  <2>1. pc = "mark" /\ pc' = "saveSmall"
    BY <1>12 DEF MarkSmall
  <2> QED BY <1>1, <1>2, <2>1 DEF CopyStepsLeft
<1> QED
  BY <1>3, <1>4, <1>5, <1>6, <1>7, <1>8, <1>9, <1>10, <1>11, <1>12 DEF Phase1Step

LEMMA Phase2Shrinks ==
  ASSUME TypeOK, ControlOK, Phase2Step
  PROVE  CopyStepsLeft' < CopyStepsLeft
<1> DEFINE t == Cardinality(todo)
<1>1. t \in Nat
  BY WorkIsFinite
<1>2. ASSUME NEW p \in Path,
             Clone(p) \/ HardLink(p) \/ HardLinkFails(p) \/ Symlink(p) \/ FallbackStart(p)
      PROVE  CopyStepsLeft' < CopyStepsLeft
  <2>1. p \in todo /\ pc = "link" /\ pc' \in {"link", "saveLink", "fallback"}
        /\ todo' = todo \ {p}
    BY <1>2 DEF Clone, HardLink, HardLinkFails, Symlink, FallbackStart, AcrossMounts,
                AtDuplicate, Linked
  <2>2. Cardinality(todo') = t - 1
    BY <2>1, WorkIsFinite, OneLess
  <2> QED BY <1>1, <2>1, <2>2 DEF CopyStepsLeft
<1>3. CASE FallbackDone \/ FallbackFails
  <2>1. pc = "fallback" /\ pc' \in {"link", "saveLink"} /\ todo' = todo
    BY <1>3 DEF FallbackDone, FallbackFails
  <2> QED BY <1>1, <2>1 DEF CopyStepsLeft
<1>4. CASE EndOfPhase2
  <2>1. pc = "link" /\ pc' = "done"
    BY <1>4 DEF EndOfPhase2
  <2> QED BY <1>1, <2>1 DEF CopyStepsLeft
<1> QED
  BY <1>2, <1>3, <1>4 DEF Phase2Step

\* Every step of the engine, one that fails too, leaves it with fewer steps to take.
THEOREM EngineShrinks ==
  ASSUME TypeOK, ControlOK, EngineStep
  PROVE  CopyStepsLeft' < CopyStepsLeft
<1>1. ASSUME Save \/ SaveFails PROVE CopyStepsLeft' < CopyStepsLeft
  <2>1. /\ Cardinality(todo) \in Nat /\ Cardinality(batch) \in Nat
        /\ Cardinality(Duplicates) \in Nat
    BY WorkIsFinite
  <2>2. /\ pc \in {"saveLarge", "saveSmall", "saveLink"} /\ pc' = AfterSave[pc]
        /\ todo' = LinkWork /\ batch' = batch /\ Duplicates' = Duplicates
    BY <1>1 DEF Save, SaveFails, AfterSave, Duplicates, IsDuplicate
  <2>3. CASE pc = "saveSmall"
    BY <2>1, <2>2, <2>3 DEF CopyStepsLeft, AfterSave, LinkWork
  <2>4. CASE pc \in {"saveLarge", "saveLink"}
    BY <2>1, <2>2, <2>4 DEF CopyStepsLeft, AfterSave, LinkWork
  <2> QED BY <2>2, <2>3, <2>4
<1> QED
  BY <1>1, Phase1Shrinks, Phase2Shrinks DEF EngineStep

\* The steps left are a number, so that there cannot be ever fewer of them for ever.
THEOREM StepsLeftIsNatural ==
  ASSUME TypeOK
  PROVE  CopyStepsLeft \in Nat
BY WorkIsFinite DEF CopyStepsLeft

\* Only a run that is over has none left.
LEMMA RunningHasSteps ==
  ASSUME TypeOK, pc \notin {"idle", "done"}
  PROVE  CopyStepsLeft > 0
BY WorkIsFinite DEF CopyStepsLeft, TypeOK, PC

\* The engine steps in a run only.
LEMMA EngineRuns ==
  ASSUME EngineStep
  PROVE  pc \notin {"idle", "done"}
BY DEF EngineStep, Phase1Step, SkipCompleted, ParentDirFails, PutAside, LargeOpenFails,
       LargeStart, UnpackStart, LargeDone, LargeFails, EndOfPhase1, Pack, UnpackDone,
       UnpackFails, UnpackEnds, MarkSmall, Phase2Step, Clone, HardLink, HardLinkFails,
       Symlink, FallbackStart, FallbackDone, FallbackFails, EndOfPhase2, AcrossMounts,
       AtDuplicate, Save, SaveFails, AfterSave

\* What a run begins with.
LEMMA BeginSteps ==
  ASSUME TypeOK, NEW p, WellFormed(p), NEW m, Begin(p, m)
  PROVE  CopyStepsLeft' = 3 * Cardinality(p.entries) + 6
<1> DEFINE C == {q \in p.entries : p.canon[q] = None}
           D == {q \in p.entries : p.canon[q] # None}
<1>1. p.entries \in SUBSET Path /\ IsFiniteSet(p.entries)
  BY PathAssumption, FS_Subset DEF WellFormed, PlanRecord
<1>2. D = p.entries \ C /\ p.entries \cap C = C
  OBVIOUS
<1>3. /\ Cardinality(C) \in Nat /\ Cardinality(p.entries) \in Nat
      /\ Cardinality(D) = Cardinality(p.entries) - Cardinality(C)
  <2>1. Cardinality(p.entries \ C) = Cardinality(p.entries) - Cardinality(p.entries \cap C)
    BY <1>1, FS_Difference
  <2>2. C \in SUBSET p.entries
    OBVIOUS
  <2>3. IsFiniteSet(C)
    BY <1>1, <2>2, FS_Subset
  <2> QED BY <1>1, <1>2, <2>1, <2>3, FS_CardinalityType
<1>4. pc' = "copy" /\ todo' = C /\ batch' = {} /\ Duplicates' = D
  BY DEF Begin, Duplicates, IsDuplicate
<1>5. Cardinality(batch') = 0
  BY <1>4, FS_EmptySet
<1> HIDE DEF C, D
<1> QED BY <1>3, <1>4, <1>5 DEF CopyStepsLeft
================================================================================
