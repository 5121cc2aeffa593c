--------------------------- MODULE ResumedCopyProofs ---------------------------
(***************************************************************************)
(* What repeated executions of one plan guarantee, for any number of       *)
(* files, runs and failures.                                               *)
(*                                                                         *)
(* The argument for ListedLargeIsWhole, with the hard-link strategy.  A    *)
(* large file is marked when its last byte is written, so the danger is a  *)
(* later write that reaches its inode under another name.  Writes happen   *)
(* to an unmarked canonical copy in place, or to an inode no other path    *)
(* names; two canonical copies never share an inode, because inodes are    *)
(* shared within dedup groups only and a group has one canonical copy.     *)
(***************************************************************************)
EXTENDS ResumedCopy, CopyEngineProofs

LEMMA InitType == Init => TypeOK /\ ControlOK
<1> SUFFICES ASSUME Init PROVE TypeOK /\ ControlOK
  OBVIOUS
<1> DEFINE seen == [p \in Path |-> IF src[p] = None THEN None ELSE src[p].content]
           scanned == {p \in Path : src[p] # None}
<1>1. src \in [Path -> [content : Content, mtime : {1}] \cup {None}]
  BY DEF Init
<1>2. seen \in [Path -> Content \cup {None}] /\ \A p \in scanned : seen[p] \in Content
  BY <1>1
<1>3. PICK failed \in SUBSET scanned : plan \in Plans(scanned, seen, failed)
  BY DEF Init
<1>4. src \in [Path -> SourceFile \cup {None}]
  BY <1>1, EngineAssumption DEF SourceFile
<1>5. WellFormed(plan)
  <2> HIDE DEF seen, scanned
  <2>1. scanned \in SUBSET Path
    BY DEF scanned
  <2> QED BY <1>2, <1>3, <2>1, PlansAreWellFormed
<1> QED
  BY <1>4, <1>5, WrittenType
     DEF Init, TypeOK, ControlOK, PC, NoManifest, Manifest, EmptyArchive

LEMMA NextType == TypeOK /\ ControlOK /\ [Next]_engineVars => TypeOK' /\ ControlOK'
<1> SUFFICES ASSUME TypeOK, ControlOK, [Next]_engineVars PROVE TypeOK' /\ ControlOK'
  OBVIOUS
<1>1. ASSUME Run PROVE TypeOK' /\ ControlOK'
  <2>1. WellFormed(plan) /\ disk \in Manifest /\ Loads \subseteq Manifest
    BY DEF TypeOK, Loads, NoManifest, Manifest
  <2> QED BY <1>1, <2>1, BeginType DEF Run
<1>2. ASSUME EngineStep PROVE TypeOK' /\ ControlOK'
  BY <1>2, EngineType
<1>3. ASSUME Crash PROVE TypeOK' /\ ControlOK'
  BY <1>3, CrashType
<1>4. ASSUME UNCHANGED engineVars PROVE TypeOK' /\ ControlOK'
  BY <1>4 DEF engineVars, TypeOK, ControlOK, Canonicals, Duplicates, IsDuplicate,
              IsSmall, Size, Exists, Target
<1> QED
  BY <1>1, <1>2, <1>3, <1>4 DEF Next

\* The state stays well typed and the work lists agree with the control state,
\* for either link strategy and through any failures, crashes and resumptions.
THEOREM TypeCorrect == Spec => [](TypeOK /\ ControlOK)
BY InitType, NextType, PTL DEF Spec

-----------------------------------------------------------------------------
(* Facts of a state                                                         *)

\* A canonical copy's own name is never a symlink.
LEMMA CanonicalIsFile ==
  ASSUME TypeOK, SymlinksNameCanonicals, NEW p \in Canonicals
  PROVE  p \in Path /\ Target(p) = p /\ dir[p] \notin Path
BY PlanType, NoneAssumption
   DEF SymlinksNameCanonicals, Canonicals, IsDuplicate, Target, TypeOK

LEMMA CanonicalsDoNotShare ==
  ASSUME TypeOK, SharedInodeIsOneGroup, NEW p \in Canonicals, NEW q \in Canonicals,
         p # q, dir[p] \in Inode
  PROVE  dir[q] # dir[p]
BY PlanType, NoneAssumption DEF SharedInodeIsOneGroup, Canonicals, IsDuplicate

\* With this plan's manifest, an entry that is listed is completed.
LEMMA UnfinishedIsUnlisted ==
  ASSUME ManifestsMatchPlan, NEW p \in Path, ~IsCompleted(p)
  PROVE  mem[p] = None
<1>1. SUFFICES ASSUME mem[p] # None PROVE IsCompleted(p)
  OBVIOUS
<1>2. mem[p] = [size |-> Size(p), hash |-> plan.hash[p]]
  BY <1>1 DEF ManifestsMatchPlan, EntryFor
<1>3. mem[p].size = Size(p) /\ mem[p].hash = plan.hash[p]
  BY <1>2
<1> QED
  BY <1>1, <1>3 DEF IsCompleted

\* Marking entries of the plan keeps the manifest one of this plan.
LEMMA MarkMatches ==
  ASSUME TypeOK, ManifestsMatchPlan, NEW S \in SUBSET plan.entries,
         mem' = Mark(mem, S), pc # "idle",
         UNCHANGED <<plan, disk>>
  PROVE  ManifestsMatchPlan'
BY DEF ManifestsMatchPlan, Mark, EntryFor, Size, TypeOK, Manifest

\* What the disk lists, memory lists too: its files are whole because memory's are.
LEMMA DiskFollowsMemory ==
  ASSUME TypeOK, ManifestsMatchPlan, MarkedLargeIsWhole, pc # "idle"
  PROVE  DiskLargeIsWhole
BY PlanType DEF ManifestsMatchPlan, MarkedLargeIsWhole, DiskLargeIsWhole, Canonicals

-----------------------------------------------------------------------------
(* Steps                                                                    *)

\* The part of IInv that concerns files.
FilesOK ==
  /\ ManifestsMatchPlan
  /\ SharedInodeIsOneGroup /\ SymlinksNameCanonicals
  /\ WriteIsSafe /\ MarkedLargeIsWhole

\* Steps that write no file, link no name and mark no entry.
LEMMA QuietStep ==
  ASSUME IInv, pc # "idle", pc' \notin {"large", "fallback"},
         UNCHANGED <<dir, data, plan, mem>>, disk' = disk \/ disk' = mem
  PROVE  FilesOK'
BY DEF FilesOK, IInv, ManifestsMatchPlan, SharedInodeIsOneGroup,
       SymlinksNameCanonicals, WriteIsSafe, MarkedLargeIsWhole, EntryFor, Size,
       Canonicals, IsDuplicate, IsSmall

LEMMA LargeStartFiles ==
  ASSUME IInv, NEW p \in Path, LargeStart(p)
  PROVE  FilesOK'
<1> USE DEF IInv
<1>1. /\ p \in Canonicals /\ ~IsSmall(p) /\ mem[p] = None
      /\ Target(p) = p /\ dir[p] \in Inode \cup {None}
  <2>1. p \in Canonicals /\ ~IsSmall(p) /\ ~IsCompleted(p)
    BY DEF LargeStart, ControlOK
  <2> QED
    BY <2>1, CanonicalIsFile, UnfinishedIsUnlisted DEF TypeOK
<1>2. PICK i \in Inode :
        /\ dir' = [dir EXCEPT ![p] = i]
        /\ i = dir[p] \/ i \in FreeFor(p)
        /\ \A j \in Inode : j # i /\ j # dir[p] => data'[j] = data[j]
  <2>1. CASE p \in CopyFileRange /\ Exists(p)
    BY <1>1, <2>1 DEF LargeStart, Create, Exists, TypeOK
  <2>2. CASE p \in CopyFileRange /\ ~Exists(p)
    BY <1>1, <2>2 DEF LargeStart, Create, TypeOK, FreeFor
  <2>3. CASE p \notin CopyFileRange
    BY <1>1, <2>3 DEF LargeStart, CreateAfterRemove, TypeOK, FreeFor
  <2> QED BY <2>1, <2>2, <2>3
<1>3. UNCHANGED <<disk, mem, plan>> /\ pc' = "large" /\ cur' = p /\ pc # "idle"
  BY DEF LargeStart
<1>4. ManifestsMatchPlan'
  BY <1>3 DEF ManifestsMatchPlan, EntryFor, Size
<1>5. SharedInodeIsOneGroup'
  BY <1>2, <1>3 DEF SharedInodeIsOneGroup, FreeFor, TypeOK
<1>6. SymlinksNameCanonicals'
  BY <1>2, <1>3, EngineAssumption DEF SymlinksNameCanonicals, TypeOK
<1>7. WriteIsSafe'
  BY <1>1, <1>2, <1>3 DEF WriteIsSafe, TypeOK
<1>8. MarkedLargeIsWhole'
  <2> SUFFICES ASSUME NEW q \in Canonicals, mem[q] # None, ~IsSmall(q)
               PROVE  dir'[q] \in Inode /\ data'[dir'[q]].content = plan.seen[q]
    BY <1>3 DEF MarkedLargeIsWhole, Canonicals, IsDuplicate, IsSmall, Size
  <2>1. q # p /\ q \in Path /\ dir[q] \in Inode /\ data[dir[q]].content = plan.seen[q]
    BY <1>1, PlanType DEF MarkedLargeIsWhole
  <2>2. dir[q] # dir[p]
    BY <1>1, <2>1, CanonicalsDoNotShare
  <2>3. dir[q] # i
    BY <1>2, <2>1, <2>2 DEF FreeFor
  <2> QED BY <1>2, <2>1, <2>2, <2>3 DEF TypeOK
<1> QED
  BY <1>4, <1>5, <1>6, <1>7, <1>8 DEF FilesOK

LEMMA LargeDoneFiles ==
  ASSUME IInv, LargeDone
  PROVE  FilesOK'
<1> USE DEF IInv
<1>1. /\ cur \in Canonicals /\ cur \in Path /\ cur \in plan.entries
      /\ Target(cur) = cur /\ dir[cur] \in Inode
  BY CanonicalIsFile, PlanType DEF LargeDone, ControlOK, WriteIsSafe
<1>2. /\ data' = [data EXCEPT ![dir[cur]] = Written(plan.seen[cur])]
      /\ mem' = Mark(mem, {cur})
      /\ UNCHANGED <<dir, disk, plan>>
      /\ pc # "idle" /\ pc' = "saveLarge"
  BY <1>1 DEF LargeDone, PlanMatchesSource
<1>3. ManifestsMatchPlan'
  BY <1>1, <1>2, MarkMatches
<1>4. SharedInodeIsOneGroup' /\ SymlinksNameCanonicals' /\ WriteIsSafe'
  BY <1>2 DEF SharedInodeIsOneGroup, SymlinksNameCanonicals, WriteIsSafe
<1>5. MarkedLargeIsWhole'
  <2> SUFFICES ASSUME NEW q \in Canonicals, Mark(mem, {cur})[q] # None, ~IsSmall(q)
               PROVE  dir[q] \in Inode /\ data'[dir[q]].content = plan.seen[q]
    BY <1>2 DEF MarkedLargeIsWhole, Canonicals, IsDuplicate, IsSmall, Size
  <2>1. CASE q = cur
    BY <1>1, <1>2, <2>1 DEF Written, TypeOK
  <2>2. CASE q # cur
    <3>1. dir[q] \in Inode /\ data[dir[q]].content = plan.seen[q]
      BY <2>2, PlanType DEF Mark, MarkedLargeIsWhole
    <3>2. dir[q] # dir[cur]
      BY <1>1, <2>2, CanonicalsDoNotShare
    <3> QED BY <1>2, <3>1, <3>2 DEF TypeOK
  <2> QED BY <2>1, <2>2
<1> QED
  BY <1>3, <1>4, <1>5 DEF FilesOK

\* Giving p an inode that no other path names disturbs no listed large file,
\* unless p is one.
LEMMA FreshInode ==
  ASSUME IInv, NEW p \in Path, NEW i \in FreeFor(p), NEW d,
         ~(p \in Canonicals /\ ~IsSmall(p)),
         dir' = [dir EXCEPT ![p] = i],
         data' = [data EXCEPT ![i] = d],
         UNCHANGED <<disk, mem, plan>>
  PROVE  SharedInodeIsOneGroup' /\ SymlinksNameCanonicals' /\ MarkedLargeIsWhole'
<1> USE DEF IInv
<1>1. SharedInodeIsOneGroup'
  BY DEF SharedInodeIsOneGroup, FreeFor, TypeOK
<1>2. SymlinksNameCanonicals'
  BY EngineAssumption DEF SymlinksNameCanonicals, FreeFor, TypeOK
<1>3. MarkedLargeIsWhole'
  <2> SUFFICES ASSUME NEW q \in Canonicals, mem[q] # None, ~IsSmall(q)
               PROVE  dir'[q] \in Inode /\ data'[dir'[q]].content = plan.seen[q]
    BY DEF MarkedLargeIsWhole, Canonicals, IsDuplicate, IsSmall, Size
  <2>1. q # p /\ q \in Path /\ dir[q] \in Inode /\ data[dir[q]].content = plan.seen[q]
    BY PlanType DEF MarkedLargeIsWhole
  <2> QED BY <2>1 DEF FreeFor, TypeOK
<1> QED
  BY <1>1, <1>2, <1>3

LEMMA UnpackStartFiles ==
  ASSUME IInv, NEW p \in Path, UnpackStart(p)
  PROVE  FilesOK'
<1> USE DEF IInv
<1>1. p \in Canonicals /\ IsSmall(p)
  BY DEF UnpackStart, ControlOK
<1>2. PICK i \in FreeFor(p) :
        dir' = [dir EXCEPT ![p] = i] /\ data' = [data EXCEPT ![i] = TornNow]
  BY DEF UnpackStart, Replace
<1>3. UNCHANGED <<disk, mem, plan, pc>> /\ pc = "unpack"
  BY DEF UnpackStart
<1>4. ManifestsMatchPlan' /\ WriteIsSafe'
  BY <1>3 DEF ManifestsMatchPlan, WriteIsSafe, EntryFor, Size
<1> QED
  BY <1>1, <1>2, <1>3, <1>4, FreshInode DEF FilesOK

LEMMA UnpackDoneFiles ==
  ASSUME IInv, UnpackDone
  PROVE  FilesOK'
<1> USE DEF IInv
<1>1. cur \in Canonicals /\ IsSmall(cur)
  BY DEF UnpackDone, ControlOK, TypeOK
<1>2. /\ data' = [data EXCEPT ![dir[cur]] = archive[cur]]
      /\ UNCHANGED <<dir, disk, mem, plan, pc>> /\ pc = "unpack"
  BY DEF UnpackDone
<1>3. /\ ManifestsMatchPlan' /\ WriteIsSafe'
      /\ SharedInodeIsOneGroup' /\ SymlinksNameCanonicals'
  BY <1>2 DEF ManifestsMatchPlan, WriteIsSafe, EntryFor, Size,
              SharedInodeIsOneGroup, SymlinksNameCanonicals
<1>4. MarkedLargeIsWhole'
  <2> SUFFICES ASSUME NEW q \in Canonicals, mem[q] # None, ~IsSmall(q)
               PROVE  dir[q] \in Inode /\ data'[dir[q]].content = plan.seen[q]
    BY <1>2 DEF MarkedLargeIsWhole, Canonicals, IsDuplicate, IsSmall, Size
  <2>1. q # cur /\ dir[q] \in Inode /\ data[dir[q]].content = plan.seen[q]
    BY <1>1 DEF MarkedLargeIsWhole
  <2>2. dir[cur] # dir[q]
    BY <1>1, <2>1, CanonicalsDoNotShare
  <2> QED BY <1>2, <2>1, <2>2 DEF TypeOK
<1> QED
  BY <1>3, <1>4 DEF FilesOK

LEMMA MarkSmallFiles ==
  ASSUME IInv, MarkSmall
  PROVE  FilesOK'
<1> USE DEF IInv
<1>1. /\ mem' = Mark(mem, batch) /\ UNCHANGED <<dir, data, disk, plan>>
      /\ pc # "idle" /\ pc' = "saveSmall"
  BY DEF MarkSmall
<1>2. ManifestsMatchPlan'
  BY <1>1, MarkMatches DEF TypeOK
<1>3. SharedInodeIsOneGroup' /\ SymlinksNameCanonicals' /\ WriteIsSafe'
  BY <1>1 DEF SharedInodeIsOneGroup, SymlinksNameCanonicals, WriteIsSafe
<1>4. MarkedLargeIsWhole'
  BY <1>1, PlanType
     DEF MarkedLargeIsWhole, Canonicals, IsDuplicate, IsSmall, Size, Mark, ControlOK
<1> QED
  BY <1>2, <1>3, <1>4 DEF FilesOK

\* The hard-link strategy never tries to clone.
LEMMA NoClone ==
  ASSUME Strategy = "HardLink", NEW p
  PROVE  ~CloneWorks(p) /\ DataAtLink(p) = data /\ NameAtLink(p) = dir
         /\ (Occupied(p) <=> dir[p] # None)
BY DEF CloneWorks, DataAtLink, NameAtLink, CloneTried, Occupied

\* Marking a duplicate says nothing of any large canonical copy.
LEMMA LinkedMarks ==
  ASSUME IInv, NEW p \in Duplicates, mem' = Mark(mem, {p}), UNCHANGED <<disk, plan>>,
         pc # "idle", NEW q \in Canonicals, mem'[q] # None
  PROVE  q # p /\ mem[q] # None
BY PlanType DEF IInv, Mark, Canonicals, Duplicates

LEMMA HardLinkFiles ==
  ASSUME IInv, Strategy = "HardLink", NEW p \in Path, HardLink(p)
  PROVE  FilesOK'
<1> USE DEF IInv
<1> DEFINE head == plan.canon[p]
<1>1. p \in Duplicates /\ head \in Canonicals /\ head \in Path /\ p # head
  BY PlanType DEF HardLink, AtDuplicate, ControlOK, Canonicals, Duplicates
<1>2. /\ dir[p] = None /\ dir' = [dir EXCEPT ![p] = dir[head]] /\ dir[head] \in Inode
      /\ UNCHANGED <<data, disk, plan>> /\ mem' = Mark(mem, {p})
      /\ pc # "idle" /\ pc' = "saveLink"
  BY <1>1, NoClone, CanonicalIsFile DEF HardLink, Linked, AtDuplicate, TypeOK
<1>3. ManifestsMatchPlan'
  BY <1>1, <1>2, MarkMatches, PlanType
<1>4. SharedInodeIsOneGroup'
  <2> SUFFICES ASSUME NEW q \in Path, NEW r \in Path, dir'[q] = dir'[r], dir'[q] \in Inode
               PROVE  \/ q = r \/ plan.canon[q] = r \/ plan.canon[r] = q
                      \/ plan.canon[q] = plan.canon[r] /\ plan.canon[q] # None
    BY <1>2 DEF SharedInodeIsOneGroup
  <2>1. CASE q # p /\ r # p
    BY <1>2, <2>1 DEF SharedInodeIsOneGroup, TypeOK
  <2>2. \A x \in Path : dir[x] = dir[head] /\ x # head => plan.canon[x] = head
    BY <1>1, <1>2, PlanType, NoneAssumption
       DEF SharedInodeIsOneGroup, Canonicals, IsDuplicate
  <2>3. CASE q = p /\ r # p
    BY <1>1, <1>2, <2>2, <2>3 DEF TypeOK, Duplicates, IsDuplicate
  <2>4. CASE r = p /\ q # p
    BY <1>1, <1>2, <2>2, <2>4 DEF TypeOK, Duplicates, IsDuplicate
  <2> QED BY <2>1, <2>3, <2>4
<1>5. SymlinksNameCanonicals' /\ WriteIsSafe'
  BY <1>2, EngineAssumption DEF SymlinksNameCanonicals, WriteIsSafe, TypeOK
<1>6. MarkedLargeIsWhole'
  BY <1>1, <1>2, LinkedMarks, PlanType
     DEF MarkedLargeIsWhole, Canonicals, IsDuplicate, IsSmall, Size, TypeOK
<1> QED
  BY <1>3, <1>4, <1>5, <1>6 DEF FilesOK

LEMMA SymlinkFiles ==
  ASSUME IInv, Strategy = "HardLink", NEW p \in Path, Symlink(p)
  PROVE  FilesOK'
<1> USE DEF IInv
<1>1. p \in Duplicates /\ plan.canon[p] \in Path
  BY PlanType DEF Symlink, AcrossMounts, AtDuplicate, ControlOK, Canonicals
<1>2. /\ dir' = [dir EXCEPT ![p] = plan.canon[p]]
      /\ UNCHANGED <<data, disk, plan>> /\ mem' = Mark(mem, {p})
      /\ pc # "idle" /\ pc' = "saveLink"
  BY NoClone DEF Symlink, Linked, AcrossMounts, AtDuplicate
<1>3. ManifestsMatchPlan'
  BY <1>1, <1>2, MarkMatches, PlanType
<1>4. SharedInodeIsOneGroup' /\ SymlinksNameCanonicals' /\ WriteIsSafe'
  BY <1>1, <1>2, EngineAssumption
     DEF SharedInodeIsOneGroup, SymlinksNameCanonicals, WriteIsSafe, TypeOK
<1>5. MarkedLargeIsWhole'
  BY <1>1, <1>2, LinkedMarks, PlanType
     DEF MarkedLargeIsWhole, Canonicals, IsDuplicate, IsSmall, Size, TypeOK
<1> QED
  BY <1>3, <1>4, <1>5 DEF FilesOK

LEMMA FallbackStartFiles ==
  ASSUME IInv, Strategy = "HardLink", NEW p \in Path, FallbackStart(p)
  PROVE  FilesOK'
<1> USE DEF IInv
<1>1. p \in Duplicates /\ p \notin Canonicals /\ pc = "link"
  BY DEF FallbackStart, AcrossMounts, AtDuplicate, ControlOK, Canonicals, Duplicates
<1>2. CASE ~Exists(plan.canon[p])
  <2>1. UNCHANGED <<dir, data, disk, mem, plan, pc>>
    BY <1>2, NoClone DEF FallbackStart
  <2> QED BY <1>1, <2>1, QuietStep
<1>3. CASE Exists(plan.canon[p])
  <2>1. PICK i \in FreeFor(p) :
          dir' = [dir EXCEPT ![p] = i] /\ data' = [data EXCEPT ![i] = TornNow]
    BY <1>3, NoClone DEF FallbackStart
  <2>2. UNCHANGED <<disk, mem, plan>> /\ pc' = "fallback" /\ cur' = p
    BY <1>3 DEF FallbackStart
  <2>3. ManifestsMatchPlan'
    BY <1>1, <2>2 DEF ManifestsMatchPlan, EntryFor, Size
  <2>4. WriteIsSafe'
    BY <2>1, <2>2 DEF WriteIsSafe, FreeFor, TypeOK
  <2> QED BY <1>1, <2>1, <2>2, <2>3, <2>4, FreshInode DEF FilesOK
<1> QED
  BY <1>2, <1>3

LEMMA FallbackDoneFiles ==
  ASSUME IInv, FallbackDone
  PROVE  FilesOK'
<1> USE DEF IInv
<1>1. cur \in Duplicates /\ cur \in Path /\ pc = "fallback"
  BY PlanType DEF FallbackDone, ControlOK
<1>2. /\ data' = [data EXCEPT ![dir[cur]] = Written(Holds(plan.canon[cur]))]
      /\ UNCHANGED <<dir, disk, plan>> /\ mem' = Mark(mem, {cur}) /\ pc' = "saveLink"
  BY DEF FallbackDone
<1>3. ManifestsMatchPlan'
  BY <1>1, <1>2, MarkMatches, PlanType
<1>4. SharedInodeIsOneGroup' /\ SymlinksNameCanonicals' /\ WriteIsSafe'
  BY <1>2 DEF SharedInodeIsOneGroup, SymlinksNameCanonicals, WriteIsSafe
<1>5. MarkedLargeIsWhole'
  <2> SUFFICES ASSUME NEW q \in Canonicals, mem'[q] # None, ~IsSmall(q)
               PROVE  dir[q] \in Inode /\ data'[dir[q]].content = plan.seen[q]
    BY <1>2 DEF MarkedLargeIsWhole, Canonicals, IsDuplicate, IsSmall, Size
  <2>1. q # cur /\ mem[q] # None /\ q \in Path
    BY <1>1, <1>2, LinkedMarks, PlanType
  <2>2. dir[q] \in Inode /\ data[dir[q]].content = plan.seen[q] /\ dir[q] # dir[cur]
    BY <1>1, <2>1 DEF MarkedLargeIsWhole, WriteIsSafe
  <2> QED BY <1>2, <2>2 DEF TypeOK
<1> QED
  BY <1>3, <1>4, <1>5 DEF FilesOK

-----------------------------------------------------------------------------
LEMMA EngineFiles ==
  ASSUME IInv, Strategy = "HardLink", EngineStep
  PROVE  FilesOK'
<1>1. ASSUME NEW p \in Path, SkipCompleted(p) \/ ParentDirFails(p) \/ PutAside(p)
                              \/ LargeOpenFails(p) \/ HardLinkFails(p)
      PROVE  FilesOK'
  BY <1>1, QuietStep, NoClone
     DEF SkipCompleted, ParentDirFails, PutAside, LargeOpenFails, HardLinkFails,
         AtDuplicate
<1>2. ASSUME \/ LargeFails \/ EndOfPhase1 \/ Pack \/ UnpackFails \/ UnpackEnds
             \/ FallbackFails \/ EndOfPhase2
      PROVE  FilesOK'
  BY <1>2, QuietStep
     DEF LargeFails, EndOfPhase1, Pack, UnpackFails, UnpackEnds, FallbackFails,
         EndOfPhase2
<1>3. ASSUME Save \/ SaveFails PROVE FilesOK'
  BY <1>3, QuietStep DEF Save, SaveFails, AfterSave
<1>4. ASSUME NEW p \in Path, Clone(p) PROVE FALSE
  BY <1>4, NoClone DEF Clone
<1>5. ASSUME Phase1Step PROVE FilesOK'
  BY <1>1, <1>2, <1>5, LargeStartFiles, LargeDoneFiles, UnpackStartFiles,
     UnpackDoneFiles, MarkSmallFiles DEF Phase1Step
<1>6. ASSUME Phase2Step PROVE FilesOK'
  BY <1>1, <1>2, <1>4, <1>6, HardLinkFiles, SymlinkFiles, FallbackStartFiles,
     FallbackDoneFiles DEF Phase2Step
<1> QED
  BY <1>3, <1>5, <1>6 DEF EngineStep

LEMMA StepFrame ==
  ASSUME Next
  PROVE  /\ UNCHANGED <<src, plan>>
         /\ disk' = disk \/ (pc # "idle" /\ disk' = mem)
         /\ pc' = "idle" => UNCHANGED <<dir, data, disk>>
<1>1. CASE Run
  BY <1>1 DEF Run, Begin
<1>2. CASE EngineStep
  BY <1>2, EngineFrame
<1>3. CASE Crash
  BY <1>3 DEF Crash
<1> QED
  BY <1>1, <1>2, <1>3 DEF Next

LEMMA InitInv == Init => IInv
<1> SUFFICES ASSUME Init PROVE IInv
  OBVIOUS
<1>1. TypeOK /\ ControlOK
  BY InitType
<1>2. PlanMatchesSource
  <2> DEFINE seen == [p \in Path |-> IF src[p] = None THEN None ELSE src[p].content]
             scanned == {p \in Path : src[p] # None}
  <2>1. plan.entries = scanned /\ plan.seen = seen
    <3>1. PICK failed : plan \in Plans(scanned, seen, failed)
      BY DEF Init
    <3> HIDE DEF seen, scanned
    <3> QED BY <3>1 DEF Plans
  <2> QED BY <2>1 DEF PlanMatchesSource
<1>3. ManifestsMatchPlan /\ MarkedLargeIsWhole /\ DiskLargeIsWhole
  BY <1>1, PlanType
     DEF Init, NoManifest, ManifestsMatchPlan, MarkedLargeIsWhole, DiskLargeIsWhole
<1>4. SharedInodeIsOneGroup /\ SymlinksNameCanonicals /\ WriteIsSafe
  BY NoneAssumption, EngineAssumption
     DEF Init, SharedInodeIsOneGroup, SymlinksNameCanonicals, WriteIsSafe
<1> QED
  BY <1>1, <1>2, <1>3, <1>4 DEF IInv

\* Whatever the engine does to the files, the rest of the system keeps IInv.
LEMMA NextInvFrom ==
  ASSUME IInv, [Next]_engineVars, "load" \notin Faults, EngineStep => FilesOK'
  PROVE  IInv'
<1> USE DEF IInv
<1>1. TypeOK' /\ ControlOK'
  BY NextType
<1>2. PlanMatchesSource' /\ plan' = plan
  BY StepFrame DEF PlanMatchesSource, engineVars
<1>3. FilesOK'
  <2>1. CASE Run
    BY <1>2, <2>1
       DEF Run, Loads, Begin, FilesOK, ManifestsMatchPlan, SharedInodeIsOneGroup,
           SymlinksNameCanonicals, WriteIsSafe, MarkedLargeIsWhole, DiskLargeIsWhole,
           EntryFor, Size, Canonicals, IsDuplicate, IsSmall
  <2>2. CASE EngineStep
    BY <2>2
  <2>3. CASE Crash
    BY <2>3, PlanType
       DEF Crash, NoManifest, FilesOK, ManifestsMatchPlan, SharedInodeIsOneGroup,
           SymlinksNameCanonicals, WriteIsSafe, MarkedLargeIsWhole,
           EntryFor, Size, Canonicals, IsDuplicate, IsSmall
  <2>4. CASE UNCHANGED engineVars
    BY <2>4
       DEF engineVars, FilesOK, ManifestsMatchPlan, SharedInodeIsOneGroup,
           SymlinksNameCanonicals, WriteIsSafe, MarkedLargeIsWhole,
           EntryFor, Size, Canonicals, IsDuplicate, IsSmall
  <2> QED BY <2>1, <2>2, <2>3, <2>4 DEF Next
<1>4. DiskLargeIsWhole'
  \* A run lists on disk only what it lists in memory; a crash changes no file.
  <2>1. CASE pc' # "idle"
    BY <1>1, <1>2, <1>3, <2>1, PlanType
       DEF FilesOK, ManifestsMatchPlan, MarkedLargeIsWhole, DiskLargeIsWhole,
           Canonicals, IsDuplicate, IsSmall, Size
  <2>2. CASE pc' = "idle"
    <3>1. UNCHANGED <<dir, data, disk>>
      BY <2>2, StepFrame DEF engineVars
    <3> QED
      BY <1>2, <3>1 DEF DiskLargeIsWhole, Canonicals, IsDuplicate, IsSmall, Size
  <2> QED BY <2>1, <2>2
<1> QED
  BY <1>1, <1>2, <1>3, <1>4 DEF FilesOK

LEMMA NextInv ==
  ASSUME ResumeAssumption
  PROVE  IInv /\ [Next]_engineVars => IInv'
BY EngineFiles, NextInvFrom DEF ResumeAssumption

LEMMA Inductive ==
  ASSUME ResumeAssumption
  PROVE  Spec => []IInv
BY InitInv, NextInv, PTL DEF Spec

\* With hard links and a manifest that can be read whenever it exists, whatever else
\* fails and whenever the process is killed, a large
\* file listed by the manifest on disk is whole, so a run that resumes is right to
\* skip it.
THEOREM ListedLargeIsWholeHolds ==
  ASSUME ResumeAssumption
  PROVE  Spec => []ListedLargeIsWhole
<1>1. IInv => ListedLargeIsWhole
  <2> SUFFICES ASSUME IInv, NEW p \in Canonicals, disk[p] # None, ~IsSmall(p)
               PROVE  Holds(p) = plan.seen[p]
    BY DEF ListedLargeIsWhole
  <2>1. dir[p] \in Inode /\ data[dir[p]].content = plan.seen[p]
    BY DEF IInv, DiskLargeIsWhole
  <2>2. Target(p) = p
    BY CanonicalIsFile DEF IInv
  <2> QED BY <2>1, <2>2 DEF Holds, Exists
<1> QED
  BY <1>1, Inductive, PTL

\* On the same premises, names share an inode only inside a dedup group.
THEOREM SharedInodeHolds ==
  ASSUME ResumeAssumption
  PROVE  Spec => []SharedInodeIsOneGroup
<1>1. IInv => SharedInodeIsOneGroup
  BY DEF IInv
<1> QED
  BY <1>1, Inductive, PTL

\* On the same premises, no step, a crash included, takes an entry out of the manifest
\* on disk or changes it.
THEOREM ManifestOnlyGrowsHolds ==
  ASSUME ResumeAssumption
  PROVE  Spec => ManifestOnlyGrows
<1>1. IInv /\ IInv' /\ [Next]_engineVars
        => [\A p \in Path : disk[p] # None => disk'[p] = disk[p]]_engineVars
  <2> SUFFICES ASSUME IInv, IInv', Next, NEW p \in Path, disk[p] # None
               PROVE  disk'[p] = disk[p]
    BY DEF engineVars
  <2>1. plan' = plan /\ (disk' = disk \/ (pc # "idle" /\ disk' = mem))
    BY StepFrame
  <2>2. disk[p] = EntryFor(p) /\ disk'[p] # None
    BY <2>1 DEF IInv, ManifestsMatchPlan
  <2>3. disk'[p] = EntryFor(p)
    BY <2>1, <2>2 DEF IInv, ManifestsMatchPlan, EntryFor, Size
  <2> QED BY <2>2, <2>3
<1> QED
  BY <1>1, Inductive, PTL DEF Spec, ManifestOnlyGrows

-----------------------------------------------------------------------------
(***************************************************************************)
(* A run without an error is complete.  The danger is an entry that is     *)
(* listed and skipped although its file is not whole, and a file reached   *)
(* by a write to another name.  A duplicate is listed after its canonical  *)
(* copy, so an unlisted canonical copy shares its inode with nothing that  *)
(* is listed; and phase 2 starts only when every canonical copy is listed. *)
(***************************************************************************)

\* A duplicate has the content of its canonical copy.
LEMMA SameContent ==
  ASSUME TypeOK, NEW p \in Duplicates
  PROVE  /\ plan.canon[p] \in Canonicals /\ plan.canon[p] # p
         /\ plan.seen[plan.canon[p]] = plan.seen[p]
<1>1. /\ p \in Path /\ plan.canon[p] # None /\ plan.canon[p] \in Canonicals
      /\ plan.canon[p] \in Path
  BY PlanType DEF Duplicates, IsDuplicate
<1>2. /\ plan.hash[p] # None /\ plan.hash[plan.canon[p]] = plan.hash[p]
      /\ plan.canon[plan.canon[p]] = None
  BY <1>1 DEF TypeOK, WellFormed
<1>3. plan.hash[p] = plan.seen[p] /\ plan.hash[plan.canon[p]] = plan.seen[plan.canon[p]]
  BY <1>1, <1>2 DEF TypeOK, WellFormed
<1> QED
  BY <1>1, <1>2, <1>3

\* A whole file is there, at the name its path leads to.
LEMMA WholeIsThere ==
  ASSUME TypeOK, NEW p \in plan.entries, Whole(p)
  PROVE  /\ p \in Path /\ Target(p) \in Path /\ Exists(p)
         /\ dir[Target(p)] \in Inode /\ data[dir[Target(p)]].content = plan.seen[p]
<1>1. p \in Path /\ plan.seen[p] \in Content
  BY PlanType DEF TypeOK, WellFormed
<1>2. plan.seen[p] # None
  BY <1>1, NoneAssumption
<1>3. Exists(p)
  BY <1>2 DEF Whole, Holds
<1> QED
  BY <1>1, <1>3, TargetType DEF Whole, Holds, Exists

\* A listed path leads to a listed name.
LEMMA TargetIsListed ==
  ASSUME CleanInv, NEW q \in Path, mem[q] # None
  PROVE  /\ q \in plan.entries /\ Target(q) \in plan.entries
         /\ mem[Target(q)] # None /\ Target(Target(q)) = Target(q)
         /\ Target(q) = q \/ Target(q) = plan.canon[q]
<1> USE DEF CleanInv, IInv
<1>1. q \in plan.entries /\ plan.entries \subseteq Path
  BY PlanType DEF ManifestsMatchPlan
<1>2. CASE dir[q] \in Path
  <2>1. Target(q) = plan.canon[q] /\ plan.canon[q] \in Path
    BY <1>2 DEF Target, SymlinksNameCanonicals
  <2>2. q \in Duplicates /\ IsDuplicate(q)
    BY <1>1, <2>1, NoneAssumption DEF Duplicates, IsDuplicate
  <2>3. plan.canon[q] \in Canonicals /\ plan.canon[q] \in plan.entries
    BY <2>2, PlanType
  <2>4. mem[plan.canon[q]] # None
    BY <2>2 DEF ListedAfterCanonical
  <2> QED
    BY <1>1, <2>1, <2>3, <2>4, CanonicalIsFile
<1>3. CASE dir[q] \notin Path
  BY <1>1, <1>3 DEF Target
<1> QED
  BY <1>2, <1>3

\* Writing an unlisted canonical copy reaches nothing that is listed.
LEMMA UnlistedIsApart ==
  ASSUME CleanInv, NEW p \in Canonicals, mem[p] = None, NEW q \in Path, mem[q] # None
  PROVE  Target(q) # p /\ (dir[p] \in Inode => dir[Target(q)] # dir[p])
<1> USE DEF CleanInv, IInv
<1>1. /\ Target(q) # p /\ mem[Target(q)] # None /\ Target(q) \in Path /\ p \in Path
      /\ plan.canon[p] = None
  BY TargetIsListed, PlanType DEF Canonicals, IsDuplicate
<1>2. ASSUME dir[p] \in Inode, dir[Target(q)] = dir[p] PROVE FALSE
  <2>1. \/ plan.canon[Target(q)] = p \/ plan.canon[p] = Target(q)
        \/ plan.canon[Target(q)] = plan.canon[p] /\ plan.canon[p] # None
    BY <1>1, <1>2 DEF SharedInodeIsOneGroup
  <2>2. plan.canon[Target(q)] = p
    BY <1>1, <2>1, NoneAssumption
  <2>3. plan.canon[Target(q)] # None
    BY <1>1, <2>2, NoneAssumption
  <2> QED
    BY <1>1, <2>2, <2>3 DEF ListedAfterCanonical, IsDuplicate
<1> QED
  BY <1>1, <1>2

\* A listed path stays whole when a step leaves its name, the name it leads to
\* and the inode there alone.
LEMMA StaysWhole ==
  ASSUME CleanInv, NEW q \in plan.entries, Whole(q), plan' = plan, dir'[q] = dir[q],
         dir'[Target(q)] = dir[Target(q)],
         data'[dir[Target(q)]].content = data[dir[Target(q)]].content
  PROVE  Whole(q)'
<1>1. Exists(q) /\ Target(q)' = Target(q)
  BY WholeIsThere DEF CleanInv, IInv, Target
<1> QED
  BY <1>1 DEF Whole, Holds, Exists

\* In phase 2 every canonical copy is listed, hence whole.
LEMMA CanonicalsAreWhole ==
  ASSUME CleanInv, pc \in {"link", "fallback"}, NEW c \in Canonicals
  PROVE  /\ mem[c] # None /\ Exists(c) /\ Target(c) = c /\ dir[c] \in Inode
         /\ Holds(c) = plan.seen[c] /\ data[dir[c]].content = plan.seen[c]
<1> USE DEF CleanInv, IInv
<1>1. c \notin Duplicates /\ c \in plan.entries /\ c \in Path /\ c # None
  BY PlanType, NoneAssumption DEF Canonicals, Duplicates
<1>2. c \notin todo /\ c \notin batch /\ c # cur
  BY <1>1 DEF ControlOK
<1>3. mem[c] # None
  BY <1>2 DEF NothingForgotten
<1>4. Whole(c)
  BY <1>1, <1>3 DEF ListedIsWhole
<1> QED
  BY <1>1, <1>3, <1>4, WholeIsThere, CanonicalIsFile DEF Whole

-----------------------------------------------------------------------------
(* Steps                                                                    *)

\* The part of CleanInv that concerns files and memory.
CleanFiles ==
  /\ ClonesAreApart
  /\ ListedIsWhole(mem) /\ ListedAfterCanonical(mem)
  /\ BatchIsSound

\* A step that writes no file and marks no entry leaves these as they are.
LEMMA QuietClean ==
  ASSUME CleanInv, UNCHANGED <<dir, data, plan, mem>>
  PROVE  ClonesAreApart' /\ ListedIsWhole(mem)' /\ ListedAfterCanonical(mem)'
BY DEF CleanInv, ClonesAreApart, ListedIsWhole, ListedAfterCanonical, Whole, Holds,
       Exists, Target, IsDuplicate

\* Nothing is in a batch that is not being gathered.
LEMMA QuietBatch ==
  ASSUME CleanInv, UNCHANGED <<mem, batch>>, pc' \notin {"unpack", "mark"}
  PROVE  BatchIsSound'
BY DEF CleanInv, BatchIsSound

\* Marking lists the marked and keeps the listed.
LEMMA MarkLists ==
  ASSUME TypeOK, NEW S \in SUBSET plan.entries, NEW q \in Path, mem[q] # None \/ q \in S
  PROVE  Mark(mem, S)[q] # None
<1>1. ASSUME q \in S PROVE EntryFor(q) \in ManifestEntry
  BY <1>1, SizeAssumption
     DEF TypeOK, WellFormed, PlanRecord, EntryFor, ManifestEntry, Size
<1> QED
  BY <1>1, EngineAssumption DEF Mark

\* Marking a canonical copy, or a duplicate whose canonical copy is listed.
LEMMA MarkedAfterCanonical ==
  ASSUME CleanInv, NEW S \in SUBSET plan.entries, mem' = Mark(mem, S), plan' = plan,
         \A p \in S : IsDuplicate(p) => mem[plan.canon[p]] # None
  PROVE  ListedAfterCanonical(mem)'
<1> SUFFICES ASSUME NEW p \in Path, mem'[p] # None, IsDuplicate(p)
             PROVE  mem'[plan.canon[p]] # None
  BY DEF ListedAfterCanonical, IsDuplicate
<1>1. mem[plan.canon[p]] # None
  BY DEF CleanInv, ListedAfterCanonical, Mark
<1>2. plan.canon[p] \in Path
  BY DEF IsDuplicate, CleanInv, IInv, TypeOK, WellFormed, PlanRecord
<1> QED
  BY <1>1, <1>2, MarkLists DEF CleanInv, IInv

LEMMA LargeStartClean ==
  ASSUME CleanInv, NEW p \in Path, LargeStart(p)
  PROVE  CleanFiles'
<1> USE DEF CleanInv, IInv
<1>1. /\ p \in Canonicals /\ mem[p] = None /\ Target(p) = p
      /\ dir[p] \in Inode \cup {None}
  <2>1. p \in Canonicals /\ ~IsCompleted(p)
    BY DEF LargeStart, ControlOK
  <2> QED
    BY <2>1, CanonicalIsFile, UnfinishedIsUnlisted DEF TypeOK
<1>2. PICK i \in Inode :
        /\ dir' = [dir EXCEPT ![p] = i]
        /\ i = dir[p] \/ i \in FreeFor(p)
        /\ \A j \in Inode : j # i /\ j # dir[p] => data'[j] = data[j]
  <2>1. CASE p \in CopyFileRange /\ Exists(p)
    BY <1>1, <2>1 DEF LargeStart, Create, Exists, TypeOK
  <2>2. CASE p \in CopyFileRange /\ ~Exists(p)
    BY <1>1, <2>2 DEF LargeStart, Create, TypeOK, FreeFor
  <2>3. CASE p \notin CopyFileRange
    BY <1>1, <2>3 DEF LargeStart, CreateAfterRemove, TypeOK, FreeFor
  <2> QED BY <2>1, <2>2, <2>3
<1>3. UNCHANGED <<disk, mem, plan, batch>> /\ pc' = "large"
  BY DEF LargeStart
<1>4. ClonesAreApart'
  BY <1>2, EngineAssumption DEF ClonesAreApart, FreeFor, TypeOK
<1>5. ListedIsWhole(mem)'
  <2> SUFFICES ASSUME NEW q \in Path, mem[q] # None PROVE Whole(q)'
    BY <1>3 DEF ListedIsWhole
  <2>1. q \in plan.entries /\ Whole(q)
    BY TargetIsListed DEF ListedIsWhole
  <2>2. Target(q) # p /\ q # p /\ dir[Target(q)] \in Inode /\ Target(q) \in Path
    BY <1>1, <2>1, UnlistedIsApart, WholeIsThere
  <2>3. dir[Target(q)] # dir[p]
    BY <1>1, <2>2, UnlistedIsApart
  <2>4. dir[Target(q)] # i
    BY <1>2, <2>2, <2>3 DEF FreeFor
  <2>5. dir'[q] = dir[q] /\ dir'[Target(q)] = dir[Target(q)]
    BY <1>2, <2>2 DEF TypeOK
  <2>6. data'[dir[Target(q)]] = data[dir[Target(q)]]
    BY <1>2, <2>2, <2>3, <2>4
  <2> QED
    BY <1>3, <2>1, <2>5, <2>6, StaysWhole
<1>6. ListedAfterCanonical(mem)' /\ BatchIsSound'
  BY <1>3, QuietBatch DEF ListedAfterCanonical, IsDuplicate
<1> QED
  BY <1>4, <1>5, <1>6 DEF CleanFiles

LEMMA LargeDoneClean ==
  ASSUME CleanInv, LargeDone
  PROVE  CleanFiles'
<1> USE DEF CleanInv, IInv
<1>1. /\ cur \in Canonicals /\ cur \in Path /\ cur \in plan.entries /\ mem[cur] = None
      /\ Target(cur) = cur /\ dir[cur] \in Inode /\ ~IsSmall(cur)
  BY CanonicalIsFile, PlanType DEF LargeDone, ControlOK, WriteIsSafe
<1>2. /\ data' = [data EXCEPT ![dir[cur]] = Written(plan.seen[cur])]
      /\ mem' = Mark(mem, {cur})
      /\ UNCHANGED <<dir, disk, plan, batch>> /\ pc' = "saveLarge"
  BY <1>1 DEF LargeDone, PlanMatchesSource
<1>3. ClonesAreApart'
  BY <1>2 DEF ClonesAreApart
<1>4. ListedIsWhole(mem)'
  <2> SUFFICES ASSUME NEW q \in Path, mem'[q] # None PROVE Whole(q)'
    BY DEF ListedIsWhole
  <2>1. CASE q = cur
    <3>1. data'[dir[q]].content = plan.seen[q]
      BY <1>1, <1>2, <2>1 DEF TypeOK, Written
    <3>2. Target(q)' = q /\ dir'[q] = dir[q] /\ dir[q] \in Inode
      BY <1>1, <1>2, <2>1 DEF Target
    <3> QED
      BY <1>2, <3>1, <3>2 DEF Whole, Holds, Exists
  <2>2. CASE q # cur
    <3>1. mem[q] # None
      BY <1>2, <2>2 DEF Mark
    <3>2. q \in plan.entries /\ Whole(q)
      BY <3>1, TargetIsListed DEF ListedIsWhole
    <3>3. dir[Target(q)] # dir[cur] /\ dir[Target(q)] \in Inode
      BY <1>1, <3>1, <3>2, UnlistedIsApart, WholeIsThere
    <3>4. data'[dir[Target(q)]] = data[dir[Target(q)]]
      BY <1>2, <3>3 DEF TypeOK
    <3> QED
      BY <1>2, <3>2, <3>4, StaysWhole
  <2> QED BY <2>1, <2>2
<1>5. ListedAfterCanonical(mem)'
  BY <1>1, <1>2, MarkedAfterCanonical DEF Canonicals
<1>6. BatchIsSound'
  <2>1. cur \notin batch
    BY <1>1 DEF ControlOK
  <2> QED
    BY <1>2, <2>1 DEF BatchIsSound, Mark, TypeOK, WellFormed, PlanRecord
<1> QED
  BY <1>3, <1>4, <1>5, <1>6 DEF CleanFiles

\* Giving p, which is not listed, an inode that no other path names.
LEMMA FreshInodeClean ==
  ASSUME CleanInv, NEW p \in Path, mem[p] = None, p \in Canonicals \/ p \in Duplicates,
         NEW i \in FreeFor(p), NEW d,
         dir' = [dir EXCEPT ![p] = i], data' = [data EXCEPT ![i] = d],
         UNCHANGED <<plan, mem>>
  PROVE  /\ ClonesAreApart' /\ ListedIsWhole(mem)' /\ ListedAfterCanonical(mem)'
         /\ \A q \in plan.entries \ {p} :
              Whole(q) /\ Target(q) # p => Whole(q)'
<1> USE DEF CleanInv, IInv
<1>1. ClonesAreApart'
  BY EngineAssumption DEF ClonesAreApart, FreeFor, TypeOK
<1>2. ASSUME NEW q \in plan.entries, q # p, Whole(q), Target(q) # p PROVE Whole(q)'
  <2>1. Target(q) \in Path /\ dir[Target(q)] \in Inode /\ q \in Path
    BY <1>2, WholeIsThere
  <2>2. dir[Target(q)] # i
    BY <1>2, <2>1 DEF FreeFor
  <2>3. dir'[q] = dir[q] /\ dir'[Target(q)] = dir[Target(q)]
    BY <1>2, <2>1 DEF TypeOK
  <2>4. data'[dir[Target(q)]] = data[dir[Target(q)]]
    BY <2>1, <2>2 DEF TypeOK
  <2> QED BY <1>2, <2>3, <2>4, StaysWhole
<1>3. ASSUME NEW q \in Path, mem[q] # None PROVE Whole(q)'
  <2>1. q \in plan.entries /\ Whole(q) /\ mem[Target(q)] # None
    BY <1>3, TargetIsListed DEF ListedIsWhole
  <2> QED BY <1>2, <1>3, <2>1
<1> QED
  BY <1>1, <1>2, <1>3 DEF ListedIsWhole, ListedAfterCanonical, IsDuplicate

LEMMA UnpackStartClean ==
  ASSUME CleanInv, NEW p \in Path, UnpackStart(p)
  PROVE  CleanFiles'
<1> USE DEF CleanInv, IInv
<1>1. p \in Canonicals /\ p \in batch /\ mem[p] = None /\ pc = "unpack" /\ archive[p] # None
  BY DEF UnpackStart, ControlOK, BatchIsSound
<1>2. PICK i \in FreeFor(p) :
        dir' = [dir EXCEPT ![p] = i] /\ data' = [data EXCEPT ![i] = TornNow]
  BY DEF UnpackStart, Replace
<1>3. UNCHANGED <<src, mem, plan, pc, batch, archive>> /\ cur' = p
  BY DEF UnpackStart
<1>4. /\ ClonesAreApart' /\ ListedIsWhole(mem)' /\ ListedAfterCanonical(mem)'
      /\ \A q \in plan.entries \ {p} : Whole(q) /\ Target(q) # p => Whole(q)'
  BY <1>1, <1>2, <1>3, FreshInodeClean
<1>5. ASSUME NEW q \in batch, archive[q] = None PROVE Whole(q)'
  <2>1. q \in Canonicals /\ q \in plan.entries /\ q # p /\ Target(q) = q /\ Whole(q)
    BY <1>1, <1>5, CanonicalIsFile, PlanType DEF ControlOK, BatchIsSound
  <2> QED BY <1>4, <2>1
<1>6. dir'[p] \in Inode /\ \A q \in Path \ {p} : dir'[q] # dir'[p]
  BY <1>2 DEF FreeFor, TypeOK
<1>7. BatchIsSound'
  BY <1>1, <1>3, <1>5, <1>6 DEF BatchIsSound
<1> QED
  BY <1>4, <1>7 DEF CleanFiles

LEMMA UnpackDoneClean ==
  ASSUME CleanInv, UnpackDone
  PROVE  CleanFiles'
<1> USE DEF CleanInv, IInv
<1> DEFINE p == cur
<1>1. /\ p \in batch /\ p \in Canonicals /\ p \in Path /\ mem[p] = None /\ pc = "unpack"
      /\ p \in plan.entries /\ archive[p] # None /\ archive[p] = src[p] /\ Target(p) = p
      /\ src[p].content = plan.seen[p]
  <2>1. p \in Path /\ archive[p] # None /\ pc = "unpack"
    BY DEF UnpackDone, ControlOK, TypeOK
  <2>2. p \in batch /\ p \in Canonicals
    BY <2>1 DEF ControlOK
  <2> QED BY <2>1, <2>2, CanonicalIsFile, PlanType DEF BatchIsSound, PlanMatchesSource
<1>2. dir[p] \in Inode /\ \A q \in Path \ {p} : dir[q] # dir[p]
  BY DEF UnpackDone, BatchIsSound
<1>3. /\ data' = [data EXCEPT ![dir[p]] = src[p]] /\ archive' = [archive EXCEPT ![p] = None]
      /\ UNCHANGED <<dir, mem, plan, src, pc, batch>> /\ cur' = None
  BY <1>1 DEF UnpackDone
<1>4. ClonesAreApart' /\ ListedAfterCanonical(mem)'
  BY <1>3 DEF ClonesAreApart, ListedAfterCanonical, IsDuplicate
<1>5. ASSUME NEW q \in plan.entries, Whole(q), Target(q) # p PROVE Whole(q)'
  <2>1. Target(q) \in Path /\ dir[Target(q)] \in Inode /\ dir[Target(q)] # dir[p]
    BY <1>2, <1>5, WholeIsThere
  <2>2. data'[dir[Target(q)]] = data[dir[Target(q)]]
    BY <1>3, <2>1 DEF TypeOK
  <2> QED BY <1>3, <1>5, <2>2, StaysWhole
<1>6. ListedIsWhole(mem)'
  <2> SUFFICES ASSUME NEW q \in Path, mem[q] # None PROVE Whole(q)'
    BY <1>3 DEF ListedIsWhole
  <2> QED BY <1>1, <1>5, TargetIsListed DEF ListedIsWhole
<1>7. ASSUME NEW q \in Path, q = p PROVE Whole(q)'
  <2>1. data'[dir[q]].content = plan.seen[q] /\ dir[q] \in Inode /\ Target(q)' = q
    BY <1>1, <1>2, <1>3, <1>7 DEF TypeOK, Target
  <2> QED BY <1>3, <2>1 DEF Whole, Holds, Exists
<1>8. ASSUME NEW q \in batch, archive'[q] = None PROVE Whole(q)'
  <2>1. CASE q = p
    BY <1>1, <1>7, <2>1
  <2>2. CASE q # p
    <3>1. q \in Canonicals /\ q \in plan.entries /\ q \in Path /\ Target(q) = q
      BY CanonicalIsFile, PlanType DEF ControlOK
    <3>2. archive[q] = None
      BY <1>3, <1>8, <2>2, <3>1 DEF TypeOK
    <3>3. Whole(q)
      BY <1>1, <3>2 DEF BatchIsSound
    <3> QED BY <1>5, <2>2, <3>1, <3>3
  <2> QED BY <2>1, <2>2
<1>9. \A q \in batch : mem[q] = None /\ (archive'[q] # None => archive'[q] = src[q])
  <2> SUFFICES ASSUME NEW q \in batch
               PROVE  mem[q] = None /\ (archive'[q] # None => archive'[q] = src[q])
    OBVIOUS
  <2>1. q \in Path /\ mem[q] = None /\ (archive[q] # None => archive[q] = src[q])
    BY <1>1, PlanType DEF BatchIsSound, TypeOK
  <2> QED BY <1>3, <2>1 DEF TypeOK
<1>10. BatchIsSound'
  <2> HIDE DEF p
  <2> QED BY <1>1, <1>3, <1>8, <1>9 DEF BatchIsSound
<1> QED
  BY <1>4, <1>6, <1>10 DEF CleanFiles

LEMMA MarkSmallClean ==
  ASSUME CleanInv, MarkSmall
  PROVE  CleanFiles'
<1> USE DEF CleanInv, IInv
<1>1. /\ mem' = Mark(mem, batch) /\ UNCHANGED <<dir, data, disk, plan>> /\ pc = "mark"
      /\ pc' = "saveSmall" /\ batch' = {}
  BY DEF MarkSmall
<1>2. \A q \in Path : Whole(q) => Whole(q)'
  BY <1>1 DEF Whole, Holds, Exists, Target
<1>3. ListedIsWhole(mem)'
  BY <1>1, <1>2 DEF ListedIsWhole, Mark, BatchIsSound
<1>4. ListedAfterCanonical(mem)'
  BY <1>1, MarkedAfterCanonical DEF ControlOK, TypeOK, Canonicals
<1>5. ClonesAreApart' /\ BatchIsSound'
  BY <1>1 DEF ClonesAreApart, BatchIsSound
<1> QED
  BY <1>3, <1>4, <1>5 DEF CleanFiles

\* The batch is read as it is, when nothing fails and the source is as planned.
LEMMA PackClean ==
  ASSUME CleanInv, "pack" \notin Faults, Pack
  PROVE  CleanFiles' /\ errors' = errors
<1> USE DEF CleanInv, IInv
<1>1. /\ UNCHANGED <<dir, data, mem, plan, src, batch, cur>> /\ pc = "pack" /\ pc' = "unpack"
      /\ archive' = [p \in Path |-> IF p \in batch THEN src[p] ELSE None]
      /\ errors' = errors
  <2>1. PICK lost \in SUBSET batch, spoilt \in SUBSET batch :
          /\ "pack" \notin Faults => lost \cup spoilt = {}
          /\ archive' = [p \in Path |->
               IF p \notin batch \ lost THEN None
               ELSE IF p \in spoilt THEN [src[p] EXCEPT !.content = Torn]
               ELSE src[p]]
          /\ errors' = errors \cup lost \cup spoilt
    BY DEF Pack
  <2>2. lost = {} /\ spoilt = {}
    BY <2>1
  <2> QED BY <2>1, <2>2 DEF Pack
<1>2. cur = None /\ \A p \in batch : p \in Path /\ mem[p] = None /\ src[p] # None
  BY <1>1, PlanType DEF BatchIsSound, ControlOK, TypeOK, PlanMatchesSource
<1>3. BatchIsSound'
  BY <1>1, <1>2 DEF BatchIsSound
<1> QED
  BY <1>1, <1>3, QuietClean DEF CleanFiles

-----------------------------------------------------------------------------
(* Phase 2                                                                  *)

\* A duplicate that phase 2 looks at, and its canonical copy.
LEMMA AtDuplicateFacts ==
  ASSUME CleanInv, NEW p \in Path, AtDuplicate(p)
  PROVE  /\ p \in Duplicates /\ p \in plan.entries /\ mem[p] = None /\ pc = "link"
         /\ plan.canon[p] \in Canonicals /\ plan.canon[p] \in Path /\ plan.canon[p] # p
         /\ mem[plan.canon[p]] # None
         /\ Exists(plan.canon[p]) /\ Target(plan.canon[p]) = plan.canon[p]
         /\ dir[plan.canon[p]] \in Inode
         /\ Holds(plan.canon[p]) = plan.seen[p]
         /\ data[dir[plan.canon[p]]].content = plan.seen[p]
<1> USE DEF CleanInv, IInv
<1>1. p \in Duplicates /\ pc = "link" /\ mem[p] = None /\ p \in plan.entries
  BY UnfinishedIsUnlisted, PlanType DEF AtDuplicate, ControlOK
<1>2. /\ plan.canon[p] \in Canonicals /\ plan.canon[p] # p /\ plan.canon[p] \in Path
      /\ plan.seen[plan.canon[p]] = plan.seen[p]
  BY <1>1, SameContent, PlanType
<1> QED
  BY <1>1, <1>2, CanonicalsAreWhole

\* Under the assumption a clone is always possible, and nothing else is tried.
LEMMA CloneAlwaysWorks ==
  ASSUME CleanInv, CleanAssumption, NEW p \in Path, AtDuplicate(p)
  PROVE  CloneWorks(p) <=> Strategy = "Clone"
BY AtDuplicateFacts DEF CloneWorks, CleanAssumption, SameMount

\* The end of a link: the duplicate is marked.
LEMMA LinkedClean ==
  ASSUME CleanInv, NEW p \in Path, AtDuplicate(p), Linked(p),
         Whole(p)', \A q \in Path : mem[q] # None => Whole(q)', ClonesAreApart'
  PROVE  CleanFiles'
<1> USE DEF CleanInv, IInv
<1>1. /\ p \in Duplicates /\ p \in plan.entries /\ mem[plan.canon[p]] # None /\ pc = "link"
      /\ batch = {}
  BY AtDuplicateFacts DEF ControlOK
<1>2. mem' = Mark(mem, {p}) /\ UNCHANGED <<plan, batch>> /\ pc' = "saveLink"
  BY DEF Linked
<1>3. ListedIsWhole(mem)'
  <2> SUFFICES ASSUME NEW q \in Path, mem'[q] # None PROVE Whole(q)'
    BY DEF ListedIsWhole
  <2>1. q = p \/ mem[q] # None
    BY <1>2 DEF Mark
  <2> QED BY <2>1
<1>4. ListedAfterCanonical(mem)'
  BY <1>1, <1>2, MarkedAfterCanonical
<1>5. BatchIsSound'
  BY <1>1, <1>2 DEF BatchIsSound
<1> QED
  BY <1>3, <1>4, <1>5 DEF CleanFiles

LEMMA HardLinkClean ==
  ASSUME CleanInv, CleanAssumption, NEW p \in Path, HardLink(p) \/ Symlink(p)
  PROVE  CleanFiles' /\ Strategy = "HardLink"
<1> USE DEF CleanInv, IInv
<1> DEFINE head == plan.canon[p]
<1>1. AtDuplicate(p) /\ ~CloneWorks(p) /\ Linked(p)
  BY DEF HardLink, Symlink, AcrossMounts
<1>2. /\ p \in plan.entries /\ mem[p] = None /\ head \in Path /\ head # p
      /\ mem[head] # None /\ dir[head] \in Inode /\ head \in Canonicals
      /\ data[dir[head]].content = plan.seen[p]
  BY <1>1, AtDuplicateFacts
<1>3. Strategy = "HardLink"
  BY <1>1, CloneAlwaysWorks, EngineAssumption
<1>4. /\ dir' = [dir EXCEPT ![p] = IF Symlink(p) THEN head ELSE dir[head]]
      /\ data' = data /\ plan' = plan
  BY <1>3, NoClone DEF HardLink, Symlink, Linked
<1>5. dir'[p] \in {head, dir[head]} /\ \A q \in Path \ {p} : dir'[q] = dir[q]
  BY <1>2, <1>4 DEF TypeOK
<1>6. Whole(p)'
  <2>1. dir'[head] = dir[head] /\ data' = data
    BY <1>2, <1>4, <1>5
  <2>2. dir'[Target(p)'] = dir[head]
    BY <1>2, <1>5, <2>1, EngineAssumption DEF Target
  <2> QED BY <1>2, <1>4, <2>2 DEF Whole, Holds, Exists
<1>7. ASSUME NEW q \in Path, mem[q] # None PROVE Whole(q)'
  <2>1. q \in plan.entries /\ Whole(q) /\ mem[Target(q)] # None /\ Target(q) \in Path
    BY <1>7, TargetIsListed, PlanType DEF ListedIsWhole
  <2>2. dir'[q] = dir[q] /\ dir'[Target(q)] = dir[Target(q)]
    BY <1>2, <1>5, <1>7, <2>1
  <2> QED BY <1>4, <2>1, <2>2, StaysWhole
<1>8. ClonesAreApart'
  BY <1>3 DEF ClonesAreApart
<1> QED
  BY <1>1, <1>3, <1>6, <1>7, <1>8, LinkedClean

\* A clone has an inode of its own, before and after.
LEMMA CloneClean ==
  ASSUME CleanInv, CleanAssumption, NEW p \in Path, Clone(p)
  PROVE  CleanFiles' /\ FilesOK'
<1> USE DEF CleanInv, IInv
<1> DEFINE head == plan.canon[p]
<1>1. AtDuplicate(p) /\ CloneWorks(p) /\ Linked(p) /\ Strategy = "Clone"
  BY DEF Clone, CloneWorks
<1>2. /\ p \in Duplicates /\ p \in plan.entries /\ mem[p] = None /\ head \in Path /\ head # p
      /\ mem[head] # None /\ dir[head] \in Inode /\ head \in Canonicals
      /\ Holds(head) = plan.seen[p] /\ Target(head) = head /\ pc = "link"
  BY <1>1, AtDuplicateFacts
<1>3. Target(p) = p /\ dir[p] \in Inode \cup {None} /\ (Exists(p) <=> dir[p] \in Inode)
  BY <1>1 DEF ClonesAreApart, Target, Exists, TypeOK
<1>4. dir[p] \in Inode => dir[p] # dir[head]
  BY <1>1, <1>2, EngineAssumption DEF ClonesAreApart
<1>5. PICK i \in FreeFor(p) :
        /\ dir' = [dir EXCEPT ![p] = i]
        /\ data' = [data EXCEPT ![i] = Written(plan.seen[p])]
  <2>1. CASE dir[p] \in Inode
    <3>1. dir[p] \in FreeFor(p)
      BY <1>1, <2>1, EngineAssumption DEF ClonesAreApart, FreeFor
    <3>2. dir' = [dir EXCEPT ![p] = dir[p]]
      BY <1>3, <2>1 DEF Clone, TypeOK
    <3>3. data' = [data EXCEPT ![dir[p]] = Written(plan.seen[p])]
      BY <1>2, <1>3, <1>4, <2>1 DEF Clone
    <3> QED BY <3>1, <3>2, <3>3
  <2>2. CASE dir[p] \notin Inode
    BY <1>2, <1>3, <2>2 DEF Clone
  <2> QED BY <2>1, <2>2
<1>6. mem' = Mark(mem, {p}) /\ UNCHANGED <<plan, disk>> /\ pc' = "saveLink"
  BY <1>1 DEF Linked
<1>7. ASSUME NEW q \in Path, mem[q] # None PROVE Whole(q)'
  <2>1. /\ q \in plan.entries /\ Whole(q) /\ mem[Target(q)] # None /\ Target(q) \in Path
        /\ dir[Target(q)] \in Inode
    BY <1>7, TargetIsListed, WholeIsThere DEF ListedIsWhole
  <2>2. dir'[q] = dir[q] /\ dir'[Target(q)] = dir[Target(q)]
    BY <1>2, <1>5, <1>7, <2>1 DEF TypeOK
  <2>3. dir[Target(q)] # i
    BY <1>2, <1>5, <2>1 DEF FreeFor
  <2>4. data'[dir[Target(q)]] = data[dir[Target(q)]]
    BY <1>5, <2>1, <2>3 DEF TypeOK
  <2> QED BY <1>6, <2>1, <2>2, <2>4, StaysWhole
<1>8. Whole(p)'
  <2>1. dir'[p] = i /\ i \in Inode /\ data'[i].content = plan.seen[p]
    BY <1>5 DEF TypeOK, FreeFor, Written
  <2>2. Target(p)' = p
    BY <2>1, EngineAssumption DEF Target
  <2> QED BY <1>6, <2>1, <2>2 DEF Whole, Holds, Exists
<1>9. ClonesAreApart'
  BY <1>5, EngineAssumption DEF ClonesAreApart, FreeFor, TypeOK
<1>10. CleanFiles'
  BY <1>1, <1>7, <1>8, <1>9, LinkedClean
<1>11. ManifestsMatchPlan'
  BY <1>2, <1>6, MarkMatches
<1>12. SharedInodeIsOneGroup' /\ SymlinksNameCanonicals' /\ WriteIsSafe'
  BY <1>5, <1>6, EngineAssumption
     DEF SharedInodeIsOneGroup, SymlinksNameCanonicals, WriteIsSafe, FreeFor, TypeOK
<1>13. MarkedLargeIsWhole'
  <2> SUFFICES ASSUME NEW q \in Canonicals, mem'[q] # None, ~IsSmall(q)
               PROVE  dir'[q] \in Inode /\ data'[dir'[q]].content = plan.seen[q]
    BY <1>6 DEF MarkedLargeIsWhole, Canonicals, IsDuplicate, IsSmall, Size
  <2>1. q # p /\ mem[q] # None /\ q \in Path
    BY <1>2, <1>6, LinkedMarks, PlanType
  <2>2. dir[q] \in Inode /\ data[dir[q]].content = plan.seen[q] /\ dir'[q] = dir[q]
    BY <1>5, <2>1 DEF MarkedLargeIsWhole, TypeOK
  <2>3. dir[q] # i
    BY <1>5, <2>1 DEF FreeFor
  <2> QED BY <1>5, <2>2, <2>3 DEF TypeOK
<1> QED
  BY <1>10, <1>11, <1>12, <1>13 DEF FilesOK

LEMMA FallbackStartClean ==
  ASSUME CleanInv, CleanAssumption, NEW p \in Path, FallbackStart(p)
  PROVE  CleanFiles' /\ Strategy = "HardLink" /\ errors' = errors /\ cur' = p
<1> USE DEF CleanInv, IInv
<1>1. AtDuplicate(p) /\ ~CloneWorks(p)
  BY DEF FallbackStart, AcrossMounts
<1>2. p \in Duplicates /\ mem[p] = None /\ Exists(plan.canon[p]) /\ batch = {}
  BY <1>1, AtDuplicateFacts DEF ControlOK
<1>3. Strategy = "HardLink"
  BY <1>1, CloneAlwaysWorks, EngineAssumption
<1>4. PICK i \in FreeFor(p) :
        dir' = [dir EXCEPT ![p] = i] /\ data' = [data EXCEPT ![i] = TornNow]
  BY <1>2, <1>3, NoClone DEF FallbackStart
<1>5. /\ UNCHANGED <<plan, mem, batch, errors>> /\ cur' = p /\ pc' = "fallback"
  BY <1>2 DEF FallbackStart
<1>6. ClonesAreApart' /\ ListedIsWhole(mem)' /\ ListedAfterCanonical(mem)'
  BY <1>2, <1>4, <1>5, FreshInodeClean
<1>7. BatchIsSound'
  BY <1>5, QuietBatch
<1> QED
  BY <1>3, <1>5, <1>6, <1>7 DEF CleanFiles

LEMMA FallbackDoneClean ==
  ASSUME CleanInv, FallbackDone
  PROVE  CleanFiles'
<1> USE DEF CleanInv, IInv
<1>1. /\ cur \in Duplicates /\ cur \in plan.entries /\ cur \in Path /\ pc = "fallback"
      /\ batch = {} /\ cur # None /\ \A q \in Path \ {cur} : dir[q] # dir[cur]
  BY PlanType, NoneAssumption DEF FallbackDone, ControlOK, WriteIsSafe
<1>2. /\ plan.canon[cur] \in Canonicals /\ mem[plan.canon[cur]] # None
      /\ Holds(plan.canon[cur]) = plan.seen[cur]
  BY <1>1, SameContent, CanonicalsAreWhole
<1>3. /\ data' = [data EXCEPT ![dir[cur]] = Written(plan.seen[cur])]
      /\ UNCHANGED <<dir, disk, plan, batch>> /\ mem' = Mark(mem, {cur}) /\ pc' = "saveLink"
  BY <1>2 DEF FallbackDone
<1>4. ASSUME NEW q \in Path, mem[q] # None, q # cur PROVE Whole(q)'
  <2>1. /\ q \in plan.entries /\ Whole(q) /\ (Target(q) = q \/ Target(q) = plan.canon[q])
        /\ Target(q) \in Path /\ dir[Target(q)] \in Inode
    BY <1>4, TargetIsListed, WholeIsThere DEF ListedIsWhole
  <2>2. Target(q) # cur
    <3>1. plan.canon[q] = cur => q \in Duplicates
      BY <1>1, <2>1 DEF Duplicates, IsDuplicate
    <3>2. cur \notin Canonicals
      BY <1>1 DEF Canonicals, Duplicates
    <3> QED BY <1>4, <2>1, <3>1, <3>2, SameContent
  <2>3. data'[dir[Target(q)]] = data[dir[Target(q)]]
    BY <1>1, <1>3, <2>1, <2>2 DEF TypeOK
  <2> QED BY <1>3, <2>1, <2>3, StaysWhole
<1>5. ASSUME NEW q \in Path, q = cur, dir[q] \in Inode PROVE Whole(q)'
  <2>1. data'[dir[q]].content = plan.seen[q]
    BY <1>3, <1>5 DEF TypeOK, Written
  <2>2. Target(q)' = q
    BY <1>3, <1>5, EngineAssumption DEF Target
  <2> QED BY <1>3, <1>5, <2>1, <2>2 DEF Whole, Holds, Exists
<1>6. dir[cur] \in Inode
  BY <1>1 DEF WriteIsSafe
<1>7. ListedIsWhole(mem)'
  <2> SUFFICES ASSUME NEW q \in Path, mem'[q] # None PROVE Whole(q)'
    BY DEF ListedIsWhole
  <2>1. q = cur \/ mem[q] # None
    BY <1>3 DEF Mark
  <2> QED BY <1>4, <1>5, <1>6, <2>1
<1>8. ListedAfterCanonical(mem)'
  BY <1>1, <1>2, <1>3, MarkedAfterCanonical
<1>9. ClonesAreApart' /\ BatchIsSound'
  BY <1>1, <1>3 DEF ClonesAreApart, BatchIsSound
<1> QED
  BY <1>7, <1>8, <1>9 DEF CleanFiles

-----------------------------------------------------------------------------
(* All steps                                                                *)

\* What the assumption rules out: the source is there, as planned, and no call that
\* makes a canonical copy fails.
LEMMA NothingElseFails ==
  ASSUME CleanInv, CleanAssumption
  PROVE  /\ ~LargeFails /\ ~FallbackFails /\ ~UnpackFails
         /\ \A p \in Path : ~ParentDirFails(p) /\ ~LargeOpenFails(p)
<1> USE DEF CleanInv, IInv
<1>1. ~LargeFails /\ ~FallbackFails /\ \A p \in Path : ~ParentDirFails(p)
  BY DEF CleanAssumption, LargeFails, FallbackFails, ParentDirFails
<1>2. \A p \in Path : ~LargeOpenFails(p)
  BY DEF CleanAssumption, LargeOpenFails, PlanMatchesSource, TypeOK
<1>3. ~UnpackFails
  <2> SUFFICES ASSUME NEW p \in Path, pc = "unpack", archive[p] # None,
                      archive[p].content = Torn
               PROVE  FALSE
    BY DEF UnpackFails, CleanAssumption
  <2>1. p \in batch /\ archive[p] = src[p]
    BY DEF ControlOK, BatchIsSound
  <2>2. p \in plan.entries /\ src[p].content \in Content
    BY <2>1 DEF TypeOK, WellFormed, PlanMatchesSource
  <2> QED BY <2>1, <2>2, EngineAssumption
<1> QED
  BY <1>1, <1>2, <1>3

LEMMA EngineClean ==
  ASSUME CleanInv, CleanAssumption, EngineStep
  PROVE  CleanFiles'
<1> USE DEF CleanInv, IInv
<1>1. ASSUME NEW p \in Path, SkipCompleted(p) \/ PutAside(p) PROVE CleanFiles'
  <2>1. UNCHANGED <<dir, data, plan, mem>> /\ pc' = pc /\ pc \in {"copy", "link"}
    BY <1>1 DEF SkipCompleted, PutAside
  <2>2. \A q \in batch' : mem[q] = None
    <3>1. ASSUME PutAside(p) PROVE mem[p] = None /\ batch' = batch \cup {p}
      BY <3>1, UnfinishedIsUnlisted DEF PutAside
    <3> QED BY <1>1, <3>1 DEF SkipCompleted, BatchIsSound
  <2> QED BY <2>1, <2>2, QuietClean DEF CleanFiles, BatchIsSound
<1>2. ASSUME EndOfPhase1 \/ EndOfPhase2 \/ Save \/ SaveFails PROVE CleanFiles'
  <2>1. UNCHANGED <<dir, data, plan, mem, batch>> /\ pc' \notin {"unpack", "mark"}
    BY <1>2 DEF EndOfPhase1, EndOfPhase2, Save, SaveFails, AfterSave
  <2> QED BY <2>1, QuietClean, QuietBatch DEF CleanFiles
<1>3. ASSUME UnpackEnds PROVE CleanFiles'
  <2>1. /\ UNCHANGED <<dir, data, plan, mem, batch>> /\ pc = "unpack" /\ pc' = "mark"
        /\ \A q \in Path : archive[q] = None
    BY <1>3 DEF UnpackEnds, EmptyArchive
  <2>2. \A q \in batch : q \in Path /\ Whole(q) /\ mem[q] = None
    BY <2>1, PlanType DEF BatchIsSound, TypeOK
  <2>3. \A q \in Path : Whole(q) => Whole(q)'
    BY <2>1 DEF Whole, Holds, Exists, Target
  <2>4. BatchIsSound'
    BY <2>1, <2>2, <2>3 DEF BatchIsSound
  <2> QED BY <2>1, <2>4, QuietClean DEF CleanFiles
<1>4. ASSUME NEW p \in Path, HardLinkFails(p) PROVE CleanFiles'
  <2>1. AtDuplicate(p) /\ ~CloneWorks(p) /\ pc = "link" /\ pc' = "link"
    BY <1>4 DEF HardLinkFails, AtDuplicate
  <2>2. Strategy = "HardLink"
    BY <2>1, CloneAlwaysWorks, EngineAssumption
  <2>3. UNCHANGED <<dir, data, plan, mem, batch>>
    BY <1>4, <2>2, NoClone DEF HardLinkFails
  <2> QED BY <2>1, <2>3, QuietClean, QuietBatch DEF CleanFiles
<1>5. ASSUME Pack PROVE CleanFiles'
  BY <1>5, PackClean DEF CleanAssumption
<1>6. ASSUME Phase1Step PROVE CleanFiles'
  BY <1>1, <1>2, <1>3, <1>5, <1>6, NothingElseFails, LargeStartClean, LargeDoneClean,
     UnpackStartClean, UnpackDoneClean, MarkSmallClean DEF Phase1Step
<1>7. ASSUME Phase2Step PROVE CleanFiles'
  BY <1>2, <1>4, <1>7, NothingElseFails, CloneClean, HardLinkClean, FallbackStartClean,
     FallbackDoneClean DEF Phase2Step
<1> QED
  BY <1>2, <1>6, <1>7 DEF EngineStep

\* With clones, too, the engine keeps the part of IInv that concerns files.
LEMMA EngineFilesClean ==
  ASSUME CleanInv, CleanAssumption, EngineStep
  PROVE  FilesOK'
<1> USE DEF CleanInv
<1>1. CASE Strategy = "HardLink"
  BY <1>1, EngineFiles
<1>2. CASE Strategy = "Clone"
  <2> USE <1>2
  <2>1. ASSUME NEW p \in Path, SkipCompleted(p) \/ PutAside(p) PROVE FilesOK'
    BY <2>1, QuietStep DEF SkipCompleted, PutAside
  <2>2. ASSUME EndOfPhase1 \/ Pack \/ UnpackEnds \/ EndOfPhase2 \/ Save \/ SaveFails
        PROVE  FilesOK'
    BY <2>2, QuietStep
       DEF EndOfPhase1, Pack, UnpackEnds, EndOfPhase2, Save, SaveFails, AfterSave
  <2>3. ASSUME NEW p \in Path PROVE ~HardLink(p) /\ ~Symlink(p) /\ ~FallbackStart(p)
                                    /\ ~HardLinkFails(p)
    BY CloneAlwaysWorks DEF HardLink, Symlink, FallbackStart, HardLinkFails, AcrossMounts
  <2>4. ASSUME Phase1Step PROVE FilesOK'
    BY <2>1, <2>2, <2>4, NothingElseFails, LargeStartFiles, LargeDoneFiles,
       UnpackStartFiles, UnpackDoneFiles, MarkSmallFiles DEF Phase1Step
  <2>5. ASSUME Phase2Step PROVE FilesOK'
    BY <2>1, <2>2, <2>3, <2>5, NothingElseFails, CloneClean, FallbackDoneFiles
       DEF Phase2Step
  <2> QED
    BY <2>2, <2>4, <2>5 DEF EngineStep
<1> QED
  BY <1>1, <1>2, EngineAssumption

\* No entry of the plan drops out of sight.
LEMMA EngineForgetsNothing ==
  ASSUME CleanInv, CleanAssumption, EngineStep
  PROVE  NothingForgotten'
<1> USE PlanType, NoneAssumption
<1> USE DEF CleanInv, IInv
<1>1. plan' = plan /\ pc # "idle"
  BY EngineFrame
<1>2. ASSUME NEW p \in Path, SkipCompleted(p) PROVE NothingForgotten'
  BY <1>1, <1>2 DEF SkipCompleted, IsCompleted, NothingForgotten, Canonicals, Duplicates,
                    IsDuplicate
<1>3. ASSUME NEW p \in Path, PutAside(p) PROVE NothingForgotten'
  BY <1>1, <1>3 DEF PutAside, NothingForgotten, Canonicals, Duplicates, IsDuplicate
<1>4. ASSUME NEW p \in Path, LargeStart(p) PROVE NothingForgotten'
  BY <1>1, <1>4 DEF LargeStart, ControlOK, NothingForgotten, Canonicals, IsDuplicate
<1>5. ASSUME LargeDone PROVE NothingForgotten'
  <2>1. cur \in plan.entries /\ mem' = Mark(mem, {cur}) /\ UNCHANGED <<todo, batch>>
        /\ pc = "large" /\ pc' = "saveLarge"
    BY <1>5 DEF LargeDone, ControlOK
  <2>2. \A q \in Path : mem[q] # None \/ q = cur => mem'[q] # None
    BY <2>1, MarkLists
  <2> QED BY <1>1, <2>1, <2>2 DEF NothingForgotten, Canonicals, IsDuplicate
<1>6. ASSUME EndOfPhase1 PROVE NothingForgotten'
  BY <1>1, <1>6 DEF EndOfPhase1, NothingForgotten, Canonicals, Duplicates, IsDuplicate
<1>7. ASSUME Pack \/ UnpackEnds PROVE NothingForgotten'
  BY <1>1, <1>7 DEF Pack, UnpackEnds, NothingForgotten, Canonicals, IsDuplicate
<1>8. ASSUME NEW p \in Path, UnpackStart(p) PROVE NothingForgotten'
  BY <1>1, <1>8 DEF UnpackStart, NothingForgotten, Canonicals, IsDuplicate
<1>9. ASSUME UnpackDone PROVE NothingForgotten'
  <2>1. cur \in batch
    BY <1>9 DEF UnpackDone, ControlOK, TypeOK
  <2> QED BY <1>1, <1>9, <2>1 DEF UnpackDone, NothingForgotten, Canonicals, IsDuplicate
<1>10. ASSUME MarkSmall PROVE NothingForgotten'
  <2>1. /\ batch \subseteq plan.entries /\ mem' = Mark(mem, batch) /\ pc = "mark"
        /\ pc' = "saveSmall" /\ UNCHANGED <<todo, cur>>
    BY <1>10 DEF MarkSmall, TypeOK
  <2>2. \A q \in Path : mem[q] # None \/ q \in batch => mem'[q] # None
    BY <2>1, MarkLists
  <2> QED BY <1>1, <2>1, <2>2 DEF NothingForgotten, Canonicals, IsDuplicate
<1>11. ASSUME Save \/ SaveFails PROVE NothingForgotten'
  <2>1. /\ UNCHANGED <<mem, batch, errors, cur>> /\ pc \in {"saveLarge", "saveSmall", "saveLink"}
        /\ pc' = IF pc = "saveLarge" THEN "copy" ELSE "link"
        /\ todo' = IF pc = "saveSmall" THEN Duplicates ELSE todo
    BY <1>11 DEF Save, SaveFails, AfterSave, LinkWork
  <2> QED
    BY <1>1, <2>1 DEF ControlOK, NothingForgotten, Canonicals, Duplicates, IsDuplicate
<1>12. ASSUME NEW p \in Path, AtDuplicate(p), Linked(p) PROVE NothingForgotten'
  <2>1. /\ p \in plan.entries /\ mem' = Mark(mem, {p}) /\ UNCHANGED <<batch, errors, cur>>
        /\ todo' = todo \ {p} /\ pc = "link" /\ pc' = "saveLink"
    BY <1>12 DEF AtDuplicate, Linked, TypeOK
  <2>2. \A q \in Path : mem[q] # None \/ q = p => mem'[q] # None
    BY <2>1, MarkLists
  <2> QED BY <1>1, <2>1, <2>2 DEF NothingForgotten, Canonicals, Duplicates, IsDuplicate
<1>13. ASSUME NEW p \in Path, HardLinkFails(p) PROVE NothingForgotten'
  <2>1. p \in Duplicates /\ p \notin Canonicals
    BY <1>13 DEF HardLinkFails, AtDuplicate, ControlOK, Canonicals, Duplicates
  <2> QED
    BY <1>1, <1>13, <2>1
       DEF HardLinkFails, AtDuplicate, Fail, NothingForgotten, Canonicals, Duplicates,
           IsDuplicate
<1>14. ASSUME NEW p \in Path, FallbackStart(p) PROVE NothingForgotten'
  <2>1. errors' = errors /\ cur' = p /\ pc = "link" /\ cur = None
    BY <1>14, FallbackStartClean DEF FallbackStart, AcrossMounts, AtDuplicate, ControlOK
  <2>2. p \in Duplicates /\ p \notin Canonicals /\ UNCHANGED <<mem, batch>> /\ todo' = todo \ {p}
    BY <1>14 DEF FallbackStart, AcrossMounts, AtDuplicate, ControlOK, Canonicals, Duplicates
  <2> QED
    BY <1>1, <2>1, <2>2 DEF NothingForgotten, Canonicals, Duplicates, IsDuplicate
<1>15. ASSUME FallbackDone PROVE NothingForgotten'
  <2>1. /\ cur \in plan.entries /\ mem' = Mark(mem, {cur}) /\ UNCHANGED <<todo, batch, errors>>
        /\ pc = "fallback" /\ pc' = "saveLink"
    BY <1>15 DEF FallbackDone, ControlOK
  <2>2. \A q \in Path : mem[q] # None \/ q = cur => mem'[q] # None
    BY <2>1, MarkLists
  <2> QED BY <1>1, <2>1, <2>2 DEF NothingForgotten, Canonicals, Duplicates, IsDuplicate
<1>16. ASSUME EndOfPhase2 PROVE NothingForgotten'
  BY <1>1, <1>16 DEF EndOfPhase2, NothingForgotten, Canonicals, Duplicates, IsDuplicate
<1>17. ASSUME Phase1Step PROVE NothingForgotten'
  BY <1>2, <1>3, <1>4, <1>5, <1>6, <1>7, <1>8, <1>9, <1>10, <1>17, NothingElseFails
     DEF Phase1Step
<1>18. ASSUME NEW p \in Path, Clone(p) \/ HardLink(p) \/ Symlink(p) PROVE NothingForgotten'
  BY <1>12, <1>18 DEF Clone, HardLink, Symlink, AcrossMounts
<1>19. ASSUME Phase2Step PROVE NothingForgotten'
  BY <1>13, <1>14, <1>15, <1>16, <1>18, <1>19, NothingElseFails DEF Phase2Step
<1> QED
  BY <1>11, <1>17, <1>19 DEF EngineStep

-----------------------------------------------------------------------------
LEMMA InitClean == Init => CleanInv
<1> SUFFICES ASSUME Init PROVE CleanInv
  OBVIOUS
<1>1. IInv
  BY InitInv
<1> QED
  BY <1>1, NoneAssumption, EngineAssumption
     DEF CleanInv, Init, ClonesAreApart, ListedIsWhole, ListedAfterCanonical, BatchIsSound,
         NothingForgotten, NoManifest, IsDuplicate, IInv, TypeOK, WellFormed, PlanRecord

LEMMA NextClean ==
  ASSUME CleanAssumption
  PROVE  CleanInv /\ [Next]_engineVars => CleanInv'
<1> SUFFICES ASSUME CleanInv, [Next]_engineVars PROVE CleanInv'
  OBVIOUS
<1> USE DEF CleanInv
<1>1. IInv'
  BY EngineFilesClean, NextInvFrom DEF CleanAssumption
<1>2. plan' = plan /\ (disk' = disk \/ (pc # "idle" /\ disk' = mem))
  BY StepFrame DEF engineVars
<1>3. CleanFiles' /\ NothingForgotten'
  <2>1. CASE Run
    <3>1. /\ UNCHANGED <<dir, data, disk>> /\ mem' = disk /\ pc' = "copy" /\ batch' = {}
          /\ todo' = {q \in plan.entries : plan.canon[q] = None}
      BY <1>2, <2>1 DEF Run, Loads, Begin, CleanAssumption
    <3>2. \A q \in Path : Whole(q) => Whole(q)'
      BY <1>2, <3>1 DEF Whole, Holds, Exists, Target
    <3>3. ListedIsWhole(mem)' /\ ListedAfterCanonical(mem)'
      BY <1>2, <3>1, <3>2 DEF ListedIsWhole, ListedAfterCanonical, IsDuplicate
    <3>4. ClonesAreApart' /\ BatchIsSound' /\ NothingForgotten'
      BY <1>2, <3>1
         DEF ClonesAreApart, BatchIsSound, NothingForgotten, Canonicals, IsDuplicate
    <3> QED BY <3>3, <3>4 DEF CleanFiles
  <2>2. CASE EngineStep
    BY <2>2, EngineClean, EngineForgetsNothing
  <2>3. CASE Crash
    <3>1. /\ UNCHANGED <<dir, data, disk>> /\ mem' = NoManifest /\ pc' = "idle" /\ batch' = {}
      BY <2>3 DEF Crash
    <3>2. /\ ListedIsWhole(mem)' /\ ClonesAreApart' /\ BatchIsSound' /\ NothingForgotten'
          /\ ListedAfterCanonical(mem)'
      BY <3>1 DEF NoManifest, ListedIsWhole, ListedAfterCanonical, ClonesAreApart,
                  BatchIsSound, NothingForgotten
    <3> QED BY <3>2 DEF CleanFiles
  <2>4. CASE UNCHANGED engineVars
    <3>1. ClonesAreApart' /\ ListedIsWhole(mem)' /\ ListedAfterCanonical(mem)'
      BY <2>4, QuietClean DEF engineVars
    <3>2. BatchIsSound' /\ NothingForgotten'
      BY <2>4 DEF engineVars, BatchIsSound, NothingForgotten, Canonicals, Duplicates,
                  IsDuplicate, Whole, Holds, Exists, Target
    <3> QED BY <3>1, <3>2 DEF CleanFiles
  <2> QED BY <2>1, <2>2, <2>3, <2>4 DEF Next
<1>4. ListedAfterCanonical(disk)'
  BY <1>2 DEF ListedAfterCanonical, IsDuplicate
<1>5. ListedIsWhole(disk)'
  \* A run lists on disk only what it lists in memory; a crash changes no file.
  <2>1. CASE pc' # "idle"
    BY <1>1, <1>3, <2>1 DEF IInv, ManifestsMatchPlan, CleanFiles, ListedIsWhole
  <2>2. CASE pc' = "idle"
    <3>1. UNCHANGED <<dir, data, disk>>
      BY <2>2, StepFrame DEF engineVars
    <3> QED
      BY <1>2, <3>1 DEF ListedIsWhole, Whole, Holds, Exists, Target
  <2> QED BY <2>1, <2>2
<1> QED
  BY <1>1, <1>3, <1>4, <1>5 DEF CleanFiles

\* The inductive invariant of runs that are killed, or whose saves and links fail, for
\* either link strategy: what a manifest lists is whole, and so is its canonical copy.
THEOREM CleanInductive ==
  ASSUME CleanAssumption
  PROVE  Spec => []CleanInv
BY InitClean, NextClean, PTL DEF Spec

\* A run that ends without an error has copied and linked everything, whatever the
\* runs before it left behind when they were killed.
THEOREM CleanRunIsCompleteHolds ==
  ASSUME CleanAssumption
  PROVE  Spec => []CleanRunIsComplete
<1>1. CleanInv => CleanRunIsComplete
  <2> SUFFICES ASSUME CleanInv, pc = "done", errors = {}, NEW p \in plan.entries
               PROVE  Whole(p)
    BY DEF CleanRunIsComplete, Whole
  <2>1. p \in Path /\ (p \in Canonicals \/ p \in Duplicates)
    BY PlanType DEF CleanInv, IInv, Canonicals, Duplicates
  <2>2. mem[p] # None
    BY <2>1, PlanType, NoneAssumption
       DEF CleanInv, IInv, NothingForgotten, ControlOK
  <2> QED BY <2>1, <2>2 DEF CleanInv, ListedIsWhole
<1> QED
  BY <1>1, CleanInductive, PTL

\* With clones that always work, no kill and no failed save or link leaves a listed
\* large file torn.
THEOREM ListedLargeIsWholeForClones ==
  ASSUME CleanAssumption
  PROVE  Spec => []ListedLargeIsWhole
<1>1. CleanInv => ListedLargeIsWhole
  BY PlanType DEF CleanInv, IInv, ListedIsWhole, Whole, ListedLargeIsWhole
<1> QED
  BY <1>1, CleanInductive, PTL

-----------------------------------------------------------------------------
(* Every run ends                                                           *)

\* A run takes at most three steps an entry and six more: whatever fails, and
\* whatever an earlier run left, no entry is gone back to, and each step leaves
\* fewer (copy.rs execute_copy_plan_resumable).
THEOREM BoundedWorkHolds == Spec => BoundedWork
<1>1. ASSUME TypeOK, ControlOK, Next, ~UNCHANGED engineVars
      PROVE  IF pc \in {"idle", "done"}
             THEN CopyStepsLeft' = 3 * Cardinality(plan.entries) + 6
             ELSE CopyStepsLeft' < CopyStepsLeft
  <2>1. CASE Run
    <3>1. WellFormed(plan) /\ pc \in {"idle", "done"} /\ \E m : Begin(plan, m)
      BY <1>1, <2>1 DEF Run, TypeOK
    <3>2. CopyStepsLeft' = 3 * Cardinality(plan.entries) + 6
      BY <1>1, <3>1, BeginSteps
    <3> QED BY <3>1, <3>2
  <2>2. CASE EngineStep
    BY <1>1, <2>2, EngineRuns, EngineShrinks
  <2>3. CASE Crash
    <3>1. pc \notin {"idle", "done"} /\ pc' = "idle"
      BY <2>3 DEF Crash
    <3>2. CopyStepsLeft' = 0
      BY <3>1 DEF CopyStepsLeft
    <3> QED BY <1>1, <3>1, <3>2, RunningHasSteps
  <2> QED BY <1>1, <2>1, <2>2, <2>3 DEF Next
<1> QED
  BY <1>1, TypeCorrect, PTL DEF Spec, BoundedWork
================================================================================
