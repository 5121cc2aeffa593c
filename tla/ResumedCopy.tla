------------------------------ MODULE ResumedCopy ------------------------------
(***************************************************************************)
(* One copy plan executed into an empty destination, again and again until *)
(* a run reports no error: what engine::copy and the manifest promise a    *)
(* user whose copies are interrupted.  The source does not change and each *)
(* run makes the same plan; LocalPipeline drops both restrictions.         *)
(***************************************************************************)
EXTENDS CopyEngine

Init ==
  /\ src \in [Path -> [content : Content, mtime : {1}] \cup {None}]
  /\ dir = [p \in Path |-> None]
  /\ data = [i \in Inode |-> TornNow]
  /\ disk = NoManifest
  /\ mem = NoManifest
  /\ LET seen == [p \in Path |-> IF src[p] = None THEN None ELSE src[p].content]
         scanned == {p \in Path : src[p] # None}
     IN  plan \in UNION {Plans(scanned, seen, failed) : failed \in SUBSET scanned}
  /\ pc = "idle"
  /\ todo = {} /\ batch = {} /\ archive = EmptyArchive
  /\ cur = None /\ errors = {} /\ runs = 0

\* A run starts: the first one, one after a crash, or one after a run that
\* reported errors and so kept its manifest.
Run ==
  /\ pc = "idle" \/ (pc = "done" /\ errors # {})
  /\ \E m \in Loads : Begin(plan, m)
  /\ UNCHANGED <<src, dir, data, disk>>

Next == Run \/ EngineStep \/ Crash

Spec     == Init /\ [][Next]_engineVars
FairSpec == Spec /\ WF_engineVars(EngineStep)

-----------------------------------------------------------------------------
\* A large file that the manifest on disk lists as copied is whole: no crash,
\* failed write, failed save or link to it ever leaves a listed file torn.
\* (copy_large_canonical_entry marks and saves only after copy_large_file.)
ListedLargeIsWhole ==
  \A p \in Canonicals : disk[p] # None /\ ~IsSmall(p) => Holds(p) = plan.seen[p]

\* A run that ends without an error, however many runs before it crashed or
\* failed, leaves every planned file with its source's content.
CleanRunIsComplete ==
  pc = "done" /\ errors = {} => \A p \in plan.entries : Holds(p) = plan.seen[p]

\* Two destination names share an inode only inside one dedup group.
SharedInodeIsOneGroup ==
  \A p, q \in Path :
    dir[p] = dir[q] /\ dir[p] \in Inode =>
      \/ p = q \/ plan.canon[p] = q \/ plan.canon[q] = p
      \/ plan.canon[p] = plan.canon[q] /\ plan.canon[p] # None

\* Within a run and across crashes, the manifest file only gains entries.
ManifestOnlyGrows ==
  [][\A p \in Path : disk[p] # None => disk'[p] = disk[p]]_engineVars

-----------------------------------------------------------------------------
(* Why a listed large file is whole, for hard links and a manifest that can *)
(* be read whenever it exists                                               *)

\* A run that cannot read the manifest copies again, into files it lists.
ResumeAssumption == Strategy = "HardLink" /\ "load" \notin Faults

\* The plan speaks of the source as it is.
PlanMatchesSource ==
  \A p \in plan.entries : src[p] # None /\ src[p].content = plan.seen[p]

\* Manifests hold entries of this plan, and memory is never behind the disk.
ManifestsMatchPlan ==
  /\ \A p \in Path : mem[p] # None => p \in plan.entries /\ mem[p] = EntryFor(p)
  /\ \A p \in Path : disk[p] # None => p \in plan.entries /\ disk[p] = EntryFor(p)
  /\ pc # "idle" => \A p \in Path : disk[p] # None => mem[p] # None

\* A symlink names the duplicate's own canonical copy.
SymlinksNameCanonicals == \A p \in Path : dir[p] \in Path => dir[p] = plan.canon[p]

\* The file being written is where the engine thinks it is, and not listed yet.
WriteIsSafe ==
  /\ pc = "large" => mem[cur] = None /\ dir[cur] \in Inode
  /\ pc = "fallback" => dir[cur] \in Inode /\ \A q \in Path \ {cur} : dir[q] # dir[cur]

\* A large file is whole as soon as memory lists it.
MarkedLargeIsWhole ==
  \A p \in Canonicals : mem[p] # None /\ ~IsSmall(p) =>
    dir[p] \in Inode /\ data[dir[p]].content = plan.seen[p]

DiskLargeIsWhole ==
  \A p \in Canonicals : disk[p] # None /\ ~IsSmall(p) =>
    dir[p] \in Inode /\ data[dir[p]].content = plan.seen[p]

IInv ==
  /\ TypeOK /\ ControlOK
  /\ PlanMatchesSource /\ ManifestsMatchPlan
  /\ SharedInodeIsOneGroup /\ SymlinksNameCanonicals
  /\ WriteIsSafe
  /\ MarkedLargeIsWhole /\ DiskLargeIsWhole

-----------------------------------------------------------------------------
(* Why a run without an error is complete, for either strategy              *)

\* No call that makes a canonical copy fails, so that phase 2 finds them whole, no
\* run has to start without the manifest an earlier one left, and a clone that works once works always: what try_reflink truncates before it
\* tries is then nobody else's file.  Kills, failed saves and failed links remain.
CleanAssumption ==
  /\ Faults \cap {"mkdir", "open", "write", "pack", "unpack", "load"} = {}
  /\ Strategy = "Clone" => Reflink /\ \A p, q \in Path : Mount[p] = Mount[q]

\* Clones share no inode and need no symlink.
ClonesAreApart ==
  Strategy = "Clone" =>
    /\ \A p \in Path : dir[p] \notin Path
    /\ \A p, q \in Path : p # q /\ dir[p] = dir[q] => dir[p] = None

Whole(p) == Holds(p) = plan.seen[p]

\* What is listed is whole, and no duplicate is listed before its canonical copy,
\* whose rewriting would reach it.
ListedIsWhole(m) == \A p \in Path : m[p] # None => Whole(p)
ListedAfterCanonical(m) ==
  \A p \in Path : m[p] # None /\ IsDuplicate(p) => m[plan.canon[p]] # None

\* A file of the batch waits in the archive as the source has it, or is unpacked.
BatchIsSound ==
  /\ \A p \in batch : mem[p] = None
  /\ pc = "unpack" => \A p \in batch : IF archive[p] = None THEN Whole(p)
                                       ELSE archive[p] = src[p]
  /\ pc = "mark" => \A p \in batch : Whole(p)
  /\ pc = "unpack" /\ cur # None =>
       dir[cur] \in Inode /\ \A q \in Path \ {cur} : dir[q] # dir[cur]

\* Every canonical entry is on its way or listed, every duplicate too, or in error.
NothingForgotten ==
  pc # "idle" =>
    /\ \A p \in Canonicals : mem[p] # None \/ p \in todo \cup batch \cup {cur}
    /\ pc \in {"link", "fallback", "saveLink", "done"} =>
         \A p \in Duplicates : mem[p] # None \/ p \in todo \cup errors \cup {cur}

CleanInv ==
  /\ IInv
  /\ ClonesAreApart
  /\ ListedIsWhole(mem) /\ ListedIsWhole(disk)
  /\ ListedAfterCanonical(mem) /\ ListedAfterCanonical(disk)
  /\ BatchIsSound
  /\ NothingForgotten

-----------------------------------------------------------------------------
(* Every run ends                                                           *)

\* No entry is gone back to, whatever fails: a run begins with at most three steps
\* an entry and six more, and each step, a crash too, leaves it with fewer.
\* (copy.rs, the loops of execute_copy_plan_resumable.)
BoundedWork ==
  [][IF pc \in {"idle", "done"}
     THEN CopyStepsLeft' = 3 * Cardinality(plan.entries) + 6
     ELSE CopyStepsLeft' < CopyStepsLeft]_engineVars

\* In a result or a crash, and so many steps after it began.
CopyEnds ==
  /\ BoundedWork
  /\ pc \notin {"idle", "done"} ~> pc \in {"idle", "done"}
==============================================================================
