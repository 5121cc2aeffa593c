----------------------------- MODULE LocalPipeline -----------------------------
(***************************************************************************)
(* accroitre-cli pipeline::run_local_pipeline: repeated local syncs of one *)
(* source into one destination.                                            *)
(*                                                                         *)
(* Each run scans the source, keeps the files that differ (delta), deletes *)
(* orphans when asked, hashes and plans, loads the manifest, executes the  *)
(* plan (CopyEngine), verifies, and removes the manifest when all went     *)
(* well.  Between runs the user edits the source; a run may be cancelled   *)
(* or killed at any step, and hands on only what is on the disk.  The      *)
(* destination lock is DestLock's subject: here one run exists at a time.  *)
(***************************************************************************)
EXTENDS CopyEngine

CONSTANTS
  ArgSets,     \* the command lines a user may give
  MaxEdits     \* bound: how many times the source is edited

\* --force, --delete, --dry-run, --no-verify, --no-dedup
CopyArgs == [force : BOOLEAN, delete : BOOLEAN, dryRun : BOOLEAN,
             noVerify : BOOLEAN, noDedup : BOOLEAN]

EXIT_SUCCESS == 0
EXIT_PARTIAL == 1
EXIT_FAILURE == 2

ASSUME PipelineAssumption ==
  /\ ArgSets \subseteq CopyArgs
  /\ MaxEdits \in Nat
  /\ None \notin {EXIT_SUCCESS, EXIT_PARTIAL, EXIT_FAILURE}

VARIABLES
  args,       \* the command line of this run
  stage,      \* the stage of run_local_pipeline the run is in
  changed,    \* entries the scan, then the delta, kept
  orphans,    \* destination files waiting to be deleted
  failures,   \* entries VerifyResult.failures names
  cancelled,  \* the Ctrl-C flag
  exit,       \* exit code of the last run, None while it runs or when killed
  edits       \* edits made to the source

pipelineVars == <<args, stage, changed, orphans, failures, cancelled, exit, edits>>
vars == <<engineVars, pipelineVars>>

Stage == {"off", "scan", "delta", "orphans", "delete", "dedup", "gate", "copy",
          "verify", "save", "cleanup"}

PipelineTypeOK ==
  /\ TypeOK
  /\ args \in CopyArgs
  /\ stage \in Stage
  /\ changed \subseteq Path
  /\ orphans \subseteq Path
  /\ failures \subseteq Path
  /\ cancelled \in BOOLEAN
  /\ exit \in {None, EXIT_SUCCESS, EXIT_PARTIAL, EXIT_FAILURE}
  /\ edits \in 0..MaxEdits

EmptyPlan == FlatPlan({}, [p \in Path |-> None])

Init ==
  /\ src \in [Path -> SourceFile \cup {None}]
  /\ dir = [p \in Path |-> None]
  /\ data = [i \in Inode |-> TornNow]
  /\ disk = NoManifest /\ mem = NoManifest
  /\ plan = EmptyPlan
  /\ pc = "idle"
  /\ todo = {} /\ batch = {} /\ archive = EmptyArchive
  /\ cur = None /\ errors = {} /\ runs = 0
  /\ args \in ArgSets
  /\ stage = "off"
  /\ changed = {} /\ orphans = {} /\ failures = {}
  /\ cancelled = FALSE /\ exit = None /\ edits = 0

-----------------------------------------------------------------------------
(* Between runs                                                             *)

\* The user writes, creates or removes a source file.  A file that is written
\* gets another mtime.
Edit(p) ==
  /\ stage = "off" /\ edits < MaxEdits
  /\ \E f \in SourceFile \cup {None} :
       /\ f # src[p]
       /\ f # None /\ src[p] # None => f.mtime # src[p].mtime
       /\ src' = [src EXCEPT ![p] = f]
  /\ edits' = edits + 1
  /\ exit' = None
  /\ UNCHANGED <<dir, data, disk, mem, plan, pc, todo, batch, archive, cur,
                 errors, runs, args, stage, changed, orphans, failures, cancelled>>

\* A run is started and has the lock.
Start ==
  /\ stage = "off" /\ runs < MaxRuns
  /\ args' \in ArgSets
  /\ stage' = "scan"
  /\ changed' = {} /\ orphans' = {} /\ failures' = {}
  /\ errors' = {}
  /\ plan' = EmptyPlan
  /\ mem' = NoManifest
  /\ pc' = "idle"
  /\ cancelled' = FALSE /\ exit' = None
  /\ UNCHANGED <<src, dir, data, disk, todo, batch, archive, cur, runs, edits>>

\* Ctrl-C only sets a flag.
Cancel ==
  /\ "cancel" \in Faults
  /\ stage # "off" /\ ~cancelled
  /\ cancelled' = TRUE
  /\ UNCHANGED <<engineVars, args, stage, changed, orphans, failures, exit, edits>>

\* The run returns with the given code.
Exit(code) == exit' = code /\ stage' = "off"

\* The flag is looked at between stages only.
StopIfCancelled ==
  /\ stage \in {"scan", "delta", "dedup", "gate"} /\ cancelled
  /\ Exit(EXIT_PARTIAL)
  /\ UNCHANGED <<engineVars, args, changed, orphans, failures, cancelled, edits>>

-----------------------------------------------------------------------------
(* Scan, delta and orphans                                                  *)

Sources == {p \in Path : src[p] # None}

\* What a walk of the source finds: entries it cannot read are reported in
\* ScanResult.errors, which nothing looks at.
Scans == IF "scan" \in Faults THEN SUBSET Sources ELSE {Sources}

Scan ==
  /\ stage = "scan" /\ ~cancelled
  /\ changed' \in Scans
  /\ stage' = "delta"
  /\ UNCHANGED <<engineVars, args, orphans, failures, cancelled, exit, edits>>

\* Mutant: a destination file newer than the source counts as unchanged.
IsUnchangedIfNewer(p) ==
  /\ Exists(p)
  /\ data[dir[Target(p)]].mtime >= src[p].mtime

\* is_unchanged: the destination file has the source's size and mtime.  A torn
\* file that was given the source's mtime has its size too.
IsUnchanged(p) ==
  /\ Exists(p)
  /\ data[dir[Target(p)]].mtime = src[p].mtime
  /\ \/ Holds(p) = Torn
     \/ SizeOf[Holds(p)] = SizeOf[src[p].content]

\* Mutant: --force does not switch the comparison off.
DeltaDespiteForce ==
  /\ stage = "delta" /\ ~cancelled
  /\ changed' = {p \in changed : ~IsUnchanged(p)}
  /\ stage' = IF args.delete THEN "orphans" ELSE "dedup"
  /\ UNCHANGED <<engineVars, args, orphans, failures, cancelled, exit, edits>>

Delta ==
  /\ stage = "delta" /\ ~cancelled
  /\ changed' = IF args.force THEN changed ELSE {p \in changed : ~IsUnchanged(p)}
  /\ stage' = IF args.delete THEN "orphans" ELSE "dedup"
  /\ UNCHANGED <<engineVars, args, orphans, failures, cancelled, exit, edits>>

\* Mutant: orphans are sought against the entries the delta kept.
FindOrphansOfDelta ==
  /\ stage = "orphans"
  /\ orphans' = {p \in Path \ changed : Exists(p)}
  /\ stage' = "delete"
  /\ UNCHANGED <<engineVars, args, changed, failures, cancelled, exit, edits>>

\* find_orphans: the source is scanned again, without the exclude patterns.
FindOrphans ==
  /\ stage = "orphans"
  /\ \E found \in Scans : orphans' = {p \in Path \ found : Exists(p)}
  /\ stage' = "delete"
  /\ UNCHANGED <<engineVars, args, changed, failures, cancelled, exit, edits>>

DeleteOrphan(p) ==
  /\ stage = "delete" /\ p \in orphans
  /\ orphans' = orphans \ {p}
  /\ \/ dir' = [dir EXCEPT ![p] = None]
     \/ "remove" \in Faults /\ UNCHANGED dir
  /\ UNCHANGED <<src, data, disk, mem, plan, pc, todo, batch, archive, cur,
                 errors, runs, args, stage, changed, failures, cancelled, exit,
                 edits>>

\* Mutant: the loop over the orphans stops early.
OrphansDeletedEarly ==
  /\ stage = "delete"
  /\ orphans' = {}
  /\ stage' = "dedup"
  /\ UNCHANGED <<engineVars, args, changed, failures, cancelled, exit, edits>>

OrphansDeleted ==
  /\ stage = "delete" /\ orphans = {}
  /\ stage' = "dedup"
  /\ UNCHANGED <<engineVars, args, changed, orphans, failures, cancelled, exit,
                 edits>>

-----------------------------------------------------------------------------
(* Plan, dry-run gate and manifest                                          *)

Dedup ==
  /\ stage = "dedup" /\ ~cancelled
  /\ LET seen == [p \in Path |-> IF p \in changed THEN src[p].content ELSE None]
     IN  IF args.noDedup
         THEN plan' = FlatPlan(changed, seen)
         ELSE \E failed \in IF "hash" \in Faults THEN SUBSET changed ELSE {{}} :
                plan' \in Plans(changed, seen, failed)
  /\ stage' = "gate"
  /\ UNCHANGED <<src, dir, data, disk, mem, pc, todo, batch, archive, cur,
                 errors, runs, args, changed, orphans, failures, cancelled, exit,
                 edits>>

DryRun ==
  /\ stage = "gate" /\ ~cancelled
  /\ args.dryRun
  /\ Exit(EXIT_SUCCESS)
  /\ UNCHANGED <<engineVars, args, changed, orphans, failures, cancelled, edits>>

\* Mutant: the dry-run gate is missing.
StartCopyUngated ==
  /\ stage = "gate" /\ ~cancelled
  /\ Begin(plan, disk)
  /\ stage' = "copy"
  /\ UNCHANGED <<src, dir, data, disk, args, changed, orphans, failures, cancelled,
                 exit, edits>>

\* load_or_create_manifest, then the engine is entered.  --force removes the
\* manifest on disk; a remove that fails is ignored.
StartCopy ==
  /\ stage = "gate" /\ ~cancelled
  /\ ~args.dryRun
  /\ \E m \in IF args.force THEN {NoManifest} ELSE Loads : Begin(plan, m)
  /\ IF args.force
     THEN disk' = NoManifest \/ ("remove" \in Faults /\ UNCHANGED disk)
     ELSE UNCHANGED disk
  /\ stage' = "copy"
  /\ UNCHANGED <<src, dir, data, args, changed, orphans, failures, cancelled,
                 exit, edits>>

\* The pre-flight space check ends the run with an error.
NoSpace ==
  /\ "space" \in Faults
  /\ stage = "copy" /\ pc = "copy" /\ todo = Canonicals /\ batch = {} /\ errors = {}
  /\ Exit(EXIT_FAILURE)
  /\ pc' = "idle" /\ todo' = {}
  /\ UNCHANGED <<src, dir, data, disk, mem, plan, batch, archive, cur, errors,
                 runs, args, changed, orphans, failures, cancelled, edits>>

Copy ==
  /\ stage = "copy"
  /\ EngineStep
  /\ UNCHANGED pipelineVars

-----------------------------------------------------------------------------
(* Verify and finish                                                        *)

\* Mutant: the pipeline waits for a copy without errors.
CopyReturnsClean ==
  /\ stage = "copy" /\ pc = "done" /\ errors = {}
  /\ IF cancelled THEN Exit(EXIT_PARTIAL) ELSE stage' = "verify" /\ UNCHANGED exit
  /\ UNCHANGED <<engineVars, args, changed, orphans, failures, cancelled, edits>>

CopyReturns ==
  /\ stage = "copy" /\ pc = "done"
  /\ IF cancelled THEN Exit(EXIT_PARTIAL) ELSE stage' = "verify" /\ UNCHANGED exit
  /\ UNCHANGED <<engineVars, args, changed, orphans, failures, cancelled, edits>>

\* verify_plan: the canonical entries that have a hash, and no others.
Verifiable == {p \in Canonicals : plan.hash[p] # None}

\* Mutant: what the manifest lists is not verified again.
VerifyUnlisted ==
  /\ stage = "verify"
  /\ failures' = {p \in Verifiable : disk[p] = None /\ Holds(p) # plan.hash[p]}
  /\ stage' = "save"
  /\ UNCHANGED <<engineVars, args, changed, orphans, cancelled, exit, edits>>

Verify ==
  /\ stage = "verify"
  /\ failures' = IF args.noVerify THEN {}
                 ELSE {p \in Verifiable : Holds(p) # plan.hash[p]}
  /\ stage' = "save"
  /\ UNCHANGED <<engineVars, args, changed, orphans, cancelled, exit, edits>>

FinalSave ==
  /\ stage = "save"
  /\ disk' = mem \/ ("save" \in Faults /\ UNCHANGED disk)
  /\ stage' = "cleanup"
  /\ UNCHANGED <<src, dir, data, mem, plan, pc, todo, batch, archive, cur,
                 errors, runs, args, changed, orphans, failures, cancelled, exit,
                 edits>>

\* Mutant: only a cancelled run is partial.
ExitCodeOptimist == IF cancelled THEN EXIT_PARTIAL ELSE EXIT_SUCCESS

\* PipelineResult::exit_code
ExitCode == IF cancelled \/ errors # {} \/ failures # {}
            THEN EXIT_PARTIAL ELSE EXIT_SUCCESS

Finish ==
  /\ stage = "cleanup"
  /\ \/ errors \cup failures = {} /\ disk' = NoManifest
     \/ (errors \cup failures # {} \/ "remove" \in Faults) /\ UNCHANGED disk
  /\ Exit(ExitCode)
  /\ UNCHANGED <<src, dir, data, mem, plan, pc, todo, batch, archive, cur,
                 errors, runs, args, changed, orphans, failures, cancelled, edits>>

\* The process is killed in whatever stage it is.
Killed ==
  /\ "crash" \in Faults
  /\ stage # "off"
  /\ IF pc \in {"idle", "done"} THEN UNCHANGED engineVars ELSE Crash
  /\ stage' = "off" /\ exit' = None
  /\ changed' = {} /\ orphans' = {} /\ failures' = {}
  /\ cancelled' = FALSE
  /\ UNCHANGED <<args, edits>>

RunStep ==
  \/ StopIfCancelled \/ Scan \/ Delta \/ FindOrphans \/ OrphansDeleted
  \/ \E p \in Path : DeleteOrphan(p)
  \/ Dedup \/ DryRun \/ StartCopy \/ NoSpace \/ Copy \/ CopyReturns
  \/ Verify \/ FinalSave \/ Finish

Next == Start \/ Cancel \/ Killed \/ RunStep \/ \E p \in Path : Edit(p)

Spec     == Init /\ [][Next]_vars
FairSpec == Spec /\ WF_vars(RunStep)
-----------------------------------------------------------------------------
(* Properties                                                               *)

Succeeded == stage = "off" /\ exit = EXIT_SUCCESS /\ ~args.dryRun

\* EXIT_SUCCESS means the destination has every source file as it is.
SuccessIsMirror == Succeeded => \A p \in Sources : Holds(p) = src[p].content

\* A forced run that succeeds leaves a mirror whatever failed in the runs before
\* it, partial copies with the source's mtime and stale manifests included.
ForcedSuccessIsMirror == args.force => SuccessIsMirror

\* After a verified success every hashed file of the plan that is no duplicate
\* is whole, whether this run copied it or the manifest said an earlier one did.
VerifiedIsWhole ==
  Succeeded /\ ~args.noVerify =>
    \A p \in Verifiable : Holds(p) = src[p].content

\* --dry-run copies, links, truncates and records nothing, however it ends.  With
\* --delete it is not dry: the orphans go before the gate, and they alone.
DryRunOnlyDeletes ==
  [][stage # "off" /\ args.dryRun =>
       /\ UNCHANGED <<data, disk>>
       /\ \A p \in Path : dir'[p] # dir[p] =>
            args.delete /\ p \in orphans /\ dir'[p] = None]_vars

\* A name is removed from the destination only if the source has no such file.
OnlyOrphansVanish ==
  [][\A p \in Path : stage = "delete" /\ dir[p] # None /\ dir'[p] = None
                       => src[p] = None]_vars

\* A success with --delete leaves no file the source does not have.
DeleteIsExact ==
  Succeeded /\ args.delete => \A p \in Path : Exists(p) => p \in Sources

\* The most steps a run can take from here: the copy's, one for each orphan and one
\* for each stage still to come.
StepsAhead ==
  LET copies  == 3 * Cardinality(changed)
      deletes == Cardinality(orphans)
      paths   == Cardinality(Path)
  IN  CASE stage = "off"     -> 0
        [] stage = "cleanup" -> 1
        [] stage = "save"    -> 2
        [] stage = "verify"  -> 3
        [] stage = "copy"    -> CopyStepsLeft + 4
        [] stage = "gate"    -> 3 * Cardinality(plan.entries) + 11
        [] stage = "dedup"   -> copies + 12
        [] stage = "delete"  -> copies + deletes + 13
        [] stage = "orphans" -> copies + paths + 14
        [] stage = "delta"   -> copies + paths + 15
        [] stage = "scan"    -> 4 * paths + 16

\* Ctrl-C counts once a run.
RunStepsLeft == StepsAhead + IF stage = "off" \/ cancelled THEN 0 ELSE 1

\* Nothing is done twice in a run: it has at most four steps a path and seventeen
\* more, and each, one that fails or kills it too, leaves it with fewer.
BoundedRun ==
  [][IF stage = "off"
     THEN RunStepsLeft' <= 4 * Cardinality(Path) + 17
     ELSE RunStepsLeft' < RunStepsLeft]_vars

\* A run that started, ends, and has by then taken no more steps than that.
RunEnds ==
  /\ BoundedRun
  /\ stage # "off" ~> stage = "off"
-----------------------------------------------------------------------------
(* The inductive invariant of every run                                     *)

Planned == stage \in {"gate", "copy", "verify", "save", "cleanup"}

\* What the stages hand on to one another.
StagesAgree ==
  /\ ControlOK
  /\ args \in ArgSets
  /\ IF stage = "copy" THEN pc # "idle" ELSE pc \in {"idle", "done"}
  /\ stage \in {"delta", "orphans", "delete", "dedup"} => changed \subseteq Sources
  /\ stage \in {"orphans", "delete"} => args.delete
  /\ stage \in {"copy", "verify", "save", "cleanup"} => ~args.dryRun
  /\ Planned \/ Succeeded => \A p \in plan.entries : p \in Sources /\ plan.seen[p] = src[p].content

\* A verifier that found nothing wrong is right, until the next run.
VerifierIsRight ==
  /\ (stage \in {"save", "cleanup"} /\ failures = {}) \/ Succeeded
  /\ ~args.noVerify
  => \A p \in Verifiable : Holds(p) = src[p].content

\* Where every walk of the source is complete, an orphan is one.
OrphansAreOrphans ==
  "scan" \notin Faults /\ stage = "delete" => \A p \in orphans : src[p] = None

PipelineInv ==
  /\ PipelineTypeOK
  /\ StagesAgree
  /\ VerifierIsRight
  /\ OrphansAreOrphans

-----------------------------------------------------------------------------
(* --delete, on one file system and with nothing failing on the way         *)

OneFileSystem == \A p, q \in Path : Mount[p] = Mount[q]

NoSymlinks == \A p \in Path : dir[p] \notin Path

DeleteAssumption == OneFileSystem /\ Faults \cap {"scan", "remove"} = {}

DeleteInv ==
  DeleteAssumption =>
    /\ NoSymlinks
    /\ stage = "delete" => \A p \in Path : dir[p] # None => p \in Sources \cup orphans
    /\ args.delete /\ (stage = "dedup" \/ Planned \/ Succeeded) =>
         \A p \in Path : dir[p] # None => p \in Sources

-----------------------------------------------------------------------------
(* The mirror: hard links, one file system with copy_file_range, complete   *)
(* walks, and no edit of a file that may share its inode                    *)

MirrorAssumption ==
  /\ Strategy = "HardLink" /\ OneFileSystem /\ CopyFileRange = Path
  /\ "scan" \notin Faults
  /\ MaxEdits = 0 \/ \A x \in ArgSets : x.noDedup

\* No failure makes the manifest list what was not copied, or what a run that could
\* not read it has torn since.
Careful == /\ MaxEdits = 0
           /\ Faults \cap {"mkdir", "pack", "unpack", "remove", "load"} = {}

\* This run may rely on its manifest.
Reliable == Careful \/ (args.force /\ errors = {})

Twins(p, q) == MaxEdits = 0 /\ {p, q} \subseteq Sources /\ src[p].content = src[q].content

SharedByTwins ==
  \A p, q \in Path : p # q /\ dir[p] # None /\ dir[p] = dir[q] => Twins(p, q)

Large(p) == SizeOf[src[p].content] >= Threshold
Whole(p) == Holds(p) = src[p].content

\* What a manifest lists is whole, or will be: a large file may have been cut
\* through another name, that of a file still to be copied.
Sound(m) ==
  \A p \in Path : m[p] # None =>
    /\ p \in Sources
    /\ m[p].size = SizeOf[src[p].content] /\ m[p].hash \in {None, src[p].content}
    /\ \/ Whole(p)
       \/ Large(p) /\ \E q \in Sources : /\ m[q] = None
                                         /\ dir[q] = dir[p] /\ dir[p] # None

InRun == stage \in {"copy", "verify", "save", "cleanup"}

ManifestSound ==
  /\ Careful => Sound(disk)
  /\ InRun /\ Reliable => Sound(mem)
  /\ InRun /\ Careful => \A p \in Path : disk[p] # None => mem[p] # None

\* Only an unpacked file has the mtime of a source file.
StampedIsWhole ==
  Careful => \A p \in Path :
    dir[p] # None /\ data[dir[p]].mtime # CopyTime => p \in Sources /\ Whole(p) /\ ~Large(p)

\* The delta leaves out only what is whole.
LeftOutIsWhole ==
  /\ stage = "delta" => changed = Sources
  /\ stage \in {"orphans", "delete", "dedup"} \/ Planned =>
       \A p \in Sources \ (IF Planned THEN plan.entries ELSE changed) :
         ~args.force /\ (Careful => Whole(p) /\ ~Large(p))
  /\ Planned /\ args.noDedup => Duplicates = {}

\* What the engine is writing.
WritingSound ==
  /\ pc = "large" => dir[cur] # None
  /\ pc # "fallback"
  /\ pc = "unpack" /\ cur # None =>
       dir[cur] # None /\ \A q \in Path \ {cur} : dir[q] # dir[cur]
  /\ stage = "copy" /\ Reliable =>
       \A p \in batch :
         /\ mem[p] = None
         /\ IF archive[p] # None THEN archive[p] = src[p]
            ELSE pc \in {"unpack", "mark"} => Whole(p)

\* Without an error every entry is on its way or listed.
NothingForgotten ==
  stage = "copy" =>
    /\ \A p \in Canonicals : \/ p \in todo \cup batch \cup {cur} \/ mem[p] # None
                             \/ (errors # {} /\ ~(Careful /\ IsSmall(p)))
    /\ pc \in {"link", "saveLink", "done"} =>
         \A p \in Duplicates : p \in todo \/ mem[p] # None \/ errors # {}

SuccessIsWhole ==
  /\ (stage \in {"verify", "save", "cleanup"} /\ errors = {}) \/ Succeeded
  /\ Careful \/ args.force
  => \A p \in Sources : Whole(p)

MirrorInv ==
  MirrorAssumption =>
    /\ NoSymlinks
    /\ MaxEdits = 0 => \A p \in Path : dir[p] # None => p \in Sources
    /\ SharedByTwins
    /\ ManifestSound
    /\ StampedIsWhole
    /\ LeftOutIsWhole
    /\ WritingSound
    /\ NothingForgotten
    /\ SuccessIsWhole
==============================================================================
