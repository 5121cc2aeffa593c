-------------------------- MODULE LocalPipelineProofs --------------------------
(***************************************************************************)
(* What run_local_pipeline guarantees, for any number of files, runs and   *)
(* command lines.                                                          *)
(***************************************************************************)
EXTENDS LocalPipeline, CopyEngineProofs

LEMMA EmptyPlanIsWellFormed == WellFormed(EmptyPlan) /\ EmptyPlan.entries = {}
<1> DEFINE seen == [p \in Path |-> None]
<1>1. seen \in [Path -> Content \cup {None}]
  OBVIOUS
<1>2. WellFormed(FlatPlan({}, seen)) /\ FlatPlan({}, seen).entries = {}
  <2> HIDE DEF seen
  <2>1. WellFormed(FlatPlan({}, seen))
    BY <1>1, FlatPlanIsWellFormed
  <2> QED BY <2>1 DEF FlatPlan
<1> QED
  BY <1>2 DEF EmptyPlan

\* What a run plans is well formed and is what it scanned.
LEMMA DedupPlansWell ==
  ASSUME PipelineInv, Dedup
  PROVE  /\ WellFormed(plan') /\ plan'.entries = changed
         /\ \A p \in changed : plan'.seen[p] = src[p].content
         /\ args.noDedup => \A p \in Path : plan'.canon[p] = None
<1> DEFINE seen == [p \in Path |-> IF p \in changed THEN src[p].content ELSE None]
<1>1. /\ changed \subseteq Path
      /\ \A p \in changed : src[p] # None
  BY DEF Dedup, PipelineInv, StagesAgree, PipelineTypeOK, Sources
<1>2. \A p \in changed : src[p].content \in Content
  BY <1>1 DEF PipelineInv, PipelineTypeOK, TypeOK, SourceFile
<1>3. /\ seen \in [Path -> Content \cup {None}]
      /\ \A p \in changed : seen[p] = src[p].content /\ seen[p] \in Content
  BY <1>1, <1>2
<1>4. IF args.noDedup THEN plan' = FlatPlan(changed, seen)
      ELSE \E failed : plan' \in Plans(changed, seen, failed)
  BY DEF Dedup
<1> HIDE DEF seen
<1>5. CASE args.noDedup
  <2>1. WellFormed(plan')
    BY <1>1, <1>3, <1>4, <1>5, FlatPlanIsWellFormed
  <2> QED BY <1>3, <1>4, <1>5, <2>1 DEF FlatPlan
<1>6. CASE ~args.noDedup
  <2>1. PICK failed : plan' \in Plans(changed, seen, failed)
    BY <1>4, <1>6
  <2>2. WellFormed(plan')
    BY <1>1, <1>3, <2>1, PlansAreWellFormed
  <2>3. plan'.entries = changed /\ plan'.seen = seen
    BY <2>1 DEF Plans
  <2> QED BY <1>3, <1>6, <2>2, <2>3
<1> QED
  BY <1>5, <1>6

-----------------------------------------------------------------------------
(* Types and stages                                                         *)

LEMMA FrameType ==
  ASSUME TypeOK, ControlOK, UNCHANGED engineVars
  PROVE  TypeOK' /\ ControlOK'
BY DEF engineVars, TypeOK, ControlOK, Canonicals, Duplicates, IsDuplicate, IsSmall, Size,
       Exists, Target

\* Outside the engine nothing is in its hands.
LEMMA Idle ==
  ASSUME TypeOK, ControlOK, pc \in {"idle", "done"}
  PROVE  todo = {} /\ batch = {} /\ cur = None /\ \A p \in Path : archive[p] = None
BY DEF ControlOK

LEMMA IdleControl ==
  ASSUME pc' \in {"idle", "done"}, todo' = {}, batch' = {}, cur' = None,
         \A p \in Path : archive'[p] = None
  PROVE  ControlOK'
BY DEF ControlOK

\* What is not written reads the same.
LEMMA FrameFiles ==
  ASSUME UNCHANGED <<src, dir, data, plan>>
  PROVE  /\ Sources' = Sources /\ Verifiable' = Verifiable
         /\ \A p \in Path : Holds(p)' = Holds(p) /\ Exists(p)' = Exists(p)
BY DEF Sources, Verifiable, Canonicals, IsDuplicate, Holds, Exists, Target

LEMMA Codes == {EXIT_SUCCESS, EXIT_PARTIAL, EXIT_FAILURE} \cap {None} = {}
            /\ EXIT_SUCCESS # EXIT_PARTIAL /\ EXIT_SUCCESS # EXIT_FAILURE
BY PipelineAssumption DEF EXIT_SUCCESS, EXIT_PARTIAL, EXIT_FAILURE

LEMMA InitPipeline == Init => PipelineInv
<1> SUFFICES ASSUME Init PROVE PipelineInv
  OBVIOUS
<1>1. TypeOK
  BY EmptyPlanIsWellFormed, WrittenType
     DEF Init, TypeOK, PC, NoManifest, Manifest, EmptyArchive
<1>2. ControlOK
  <2>1. \A p \in Path : archive[p] = None
    BY DEF Init, EmptyArchive
  <2> QED BY <2>1 DEF Init, ControlOK
<1>3. PipelineTypeOK
  <2>1. args \in CopyArgs /\ cancelled \in BOOLEAN
    BY PipelineAssumption, Zenon DEF Init
  <2>2. edits \in 0..MaxEdits
    BY PipelineAssumption DEF Init
  <2>3. exit \in {None, EXIT_SUCCESS, EXIT_PARTIAL, EXIT_FAILURE} /\ stage \in Stage
    BY DEF Init, Stage
  <2> QED BY <1>1, <2>1, <2>2, <2>3 DEF Init, PipelineTypeOK
<1>4. ~Succeeded
  BY Codes DEF Init, Succeeded
<1> QED
  BY <1>2, <1>3, <1>4
     DEF Init, PipelineInv, StagesAgree, VerifierIsRight, OrphansAreOrphans, Planned

-----------------------------------------------------------------------------
(* Steps of the run that leave the engine alone                             *)

\* What such a step has to show.
LEMMA FrameInv ==
  ASSUME PipelineInv, UNCHANGED engineVars, PipelineTypeOK', args' = args,
         stage \notin {"off", "copy"}, stage' # "copy",
         stage' \in {"delta", "orphans", "delete", "dedup"} => changed' \subseteq Sources,
         stage' \in {"orphans", "delete"} => args.delete,
         stage' \in {"verify", "save", "cleanup"} => ~args.dryRun,
         (Planned \/ Succeeded)' => Planned,
         VerifierIsRight', OrphansAreOrphans'
  PROVE  PipelineInv'
<1>1. TypeOK' /\ ControlOK'
  BY FrameType DEF PipelineInv, PipelineTypeOK, StagesAgree
<1>2. Sources' = Sources /\ plan' = plan /\ src' = src /\ pc' = pc
  BY FrameFiles DEF engineVars
<1>3. StagesAgree'
  BY <1>1, <1>2 DEF PipelineInv, StagesAgree
<1> QED
  BY <1>3 DEF PipelineInv
LEMMA StageSteps ==
  ASSUME PipelineInv,
         \/ Cancel \/ StopIfCancelled \/ Scan \/ Delta \/ FindOrphans \/ OrphansDeleted
         \/ DryRun \/ Verify
  PROVE  PipelineInv'
<1> USE Codes DEF Exit
<1>0. TypeOK /\ ControlOK /\ PipelineTypeOK
  BY DEF PipelineInv, PipelineTypeOK, StagesAgree
<1>f. ASSUME UNCHANGED engineVars
      PROVE  /\ TypeOK' /\ ControlOK'
             /\ Sources' = Sources /\ Verifiable' = Verifiable /\ src' = src /\ plan' = plan
             /\ pc' = pc
             /\ \A p \in Path : Holds(p)' = Holds(p) /\ Exists(p)' = Exists(p)
  BY <1>0, <1>f, FrameType, FrameFiles DEF engineVars
<1>1. ASSUME Cancel PROVE PipelineInv'
  <2>1. UNCHANGED engineVars /\ stage # "off" /\ UNCHANGED <<args, stage, changed, orphans, failures, exit, edits>>
        /\ cancelled' = TRUE
    BY <1>1 DEF Cancel
  <2>2. PipelineTypeOK'
    <3>1. cancelled' \in BOOLEAN
      BY <2>1, Zenon
    <3> QED BY <1>0, <1>f, <2>1, <3>1 DEF PipelineTypeOK
  <2>3. StagesAgree'
    BY <1>f, <2>1 DEF PipelineInv, StagesAgree, Planned, Succeeded
  <2>4. VerifierIsRight'
    <3>1. VerifierIsRight
      BY DEF PipelineInv
    <3>2. \A p \in Verifiable : p \in Path
      BY <1>0, PlanType DEF Verifiable
    <3> QED BY <1>f, <2>1, <3>1, <3>2 DEF VerifierIsRight, Succeeded
  <2>5. OrphansAreOrphans'
    BY <1>f, <2>1 DEF PipelineInv, OrphansAreOrphans
  <2> QED BY <2>2, <2>3, <2>4, <2>5 DEF PipelineInv
<1>2. ASSUME StopIfCancelled PROVE PipelineInv'
  <2>1. /\ UNCHANGED engineVars /\ UNCHANGED <<args, changed, orphans, failures, cancelled, edits>>
        /\ stage \in {"scan", "delta", "dedup", "gate"}
        /\ exit' = EXIT_PARTIAL /\ stage' = "off"
    BY <1>2 DEF StopIfCancelled
  <2>2. PipelineTypeOK'
    BY <1>0, <1>f, <2>1 DEF PipelineTypeOK, Stage
  <2>3. ~Succeeded'
    BY <2>1 DEF Succeeded
  <2>4. VerifierIsRight' /\ OrphansAreOrphans' /\ ~Planned'
    BY <2>1, <2>3 DEF VerifierIsRight, OrphansAreOrphans, Planned
  <2> QED BY <2>1, <2>2, <2>3, <2>4, FrameInv
<1>3. ASSUME Scan PROVE PipelineInv'
  <2>1. /\ UNCHANGED engineVars /\ UNCHANGED <<args, orphans, failures, cancelled, edits, exit>>
        /\ stage = "scan" /\ stage' = "delta" /\ changed' \in Scans
    BY <1>3 DEF Scan
  <2>2. changed' \subseteq Sources
    BY <2>1 DEF Scans
  <2>3. PipelineTypeOK'
    BY <1>0, <1>f, <2>1, <2>2 DEF PipelineTypeOK, Stage, Sources
  <2>4. VerifierIsRight' /\ OrphansAreOrphans' /\ ~Planned' /\ ~Succeeded'
    BY <2>1 DEF VerifierIsRight, OrphansAreOrphans, Planned, Succeeded
  <2> QED BY <2>1, <2>2, <2>3, <2>4, FrameInv
<1>4. ASSUME Delta PROVE PipelineInv'
  <2>1. /\ UNCHANGED engineVars /\ UNCHANGED <<args, orphans, failures, cancelled, edits, exit>>
        /\ stage = "delta" /\ stage' = IF args.delete THEN "orphans" ELSE "dedup"
        /\ changed' \subseteq changed
    BY <1>4 DEF Delta
  <2>2. changed' \subseteq Sources
    BY <2>1 DEF PipelineInv, StagesAgree
  <2>3. PipelineTypeOK'
    BY <1>0, <1>f, <2>1, <2>2 DEF PipelineTypeOK, Stage, Sources
  <2>4. VerifierIsRight' /\ OrphansAreOrphans' /\ ~Planned' /\ ~Succeeded'
    BY <2>1 DEF VerifierIsRight, OrphansAreOrphans, Planned, Succeeded
  <2> QED BY <2>1, <2>2, <2>3, <2>4, FrameInv
<1>5. ASSUME FindOrphans PROVE PipelineInv'
  <2>1. /\ UNCHANGED engineVars /\ UNCHANGED <<args, changed, failures, cancelled, edits, exit>>
        /\ stage = "orphans" /\ stage' = "delete"
        /\ \E found \in Scans : orphans' = {p \in Path \ found : Exists(p)}
    BY <1>5 DEF FindOrphans
  <2>2. changed' \subseteq Sources /\ args.delete
    BY <2>1 DEF PipelineInv, StagesAgree
  <2>3. PipelineTypeOK'
    BY <1>0, <1>f, <2>1 DEF PipelineTypeOK, Stage
  <2>4. OrphansAreOrphans'
    BY <1>f, <2>1 DEF OrphansAreOrphans, Scans, Sources
  <2>5. VerifierIsRight' /\ ~Planned' /\ ~Succeeded'
    BY <2>1 DEF VerifierIsRight, Planned, Succeeded
  <2> QED BY <2>1, <2>2, <2>3, <2>4, <2>5, FrameInv
<1>6. ASSUME OrphansDeleted PROVE PipelineInv'
  <2>1. /\ UNCHANGED engineVars /\ UNCHANGED <<args, changed, orphans, failures, cancelled, edits, exit>>
        /\ stage = "delete" /\ stage' = "dedup"
    BY <1>6 DEF OrphansDeleted
  <2>2. changed' \subseteq Sources
    BY <2>1 DEF PipelineInv, StagesAgree
  <2>3. PipelineTypeOK'
    BY <1>0, <1>f, <2>1 DEF PipelineTypeOK, Stage
  <2>4. VerifierIsRight' /\ OrphansAreOrphans' /\ ~Planned' /\ ~Succeeded'
    BY <2>1 DEF VerifierIsRight, OrphansAreOrphans, Planned, Succeeded
  <2> QED BY <2>1, <2>2, <2>3, <2>4, FrameInv
<1>7. ASSUME DryRun PROVE PipelineInv'
  <2>1. /\ UNCHANGED engineVars /\ UNCHANGED <<args, changed, orphans, failures, cancelled, edits>>
        /\ stage = "gate" /\ args.dryRun
        /\ exit' = EXIT_SUCCESS /\ stage' = "off"
    BY <1>7 DEF DryRun
  <2>2. PipelineTypeOK'
    BY <1>0, <1>f, <2>1 DEF PipelineTypeOK, Stage
  <2>3. ~Succeeded'
    BY <2>1 DEF Succeeded
  <2>4. VerifierIsRight' /\ OrphansAreOrphans' /\ ~Planned'
    BY <2>1, <2>3 DEF VerifierIsRight, OrphansAreOrphans, Planned
  <2> QED BY <2>1, <2>2, <2>3, <2>4, FrameInv
<1>8. ASSUME Verify PROVE PipelineInv'
  <2>1. /\ UNCHANGED engineVars /\ UNCHANGED <<args, changed, orphans, cancelled, edits, exit>>
        /\ stage = "verify" /\ stage' = "save"
        /\ failures' = IF args.noVerify THEN {}
                       ELSE {p \in Verifiable : Holds(p) # plan.hash[p]}
    BY <1>8 DEF Verify
  <2>2. Planned /\ ~args.dryRun
    BY <2>1 DEF Planned, PipelineInv, StagesAgree
  <2>3. PipelineTypeOK'
    BY <1>0, <1>f, <2>1, PlanType DEF PipelineTypeOK, Stage, Verifiable
  <2>4. \A p \in Verifiable : p \in Path /\ plan.hash[p] = src[p].content
    BY <1>0, <2>2, PlanType
       DEF PipelineInv, StagesAgree, Verifiable, TypeOK, WellFormed
  <2>5. VerifierIsRight'
    BY <1>f, <2>1, <2>4 DEF VerifierIsRight, Succeeded
  <2>6. OrphansAreOrphans' /\ ~Succeeded'
    BY <2>1 DEF OrphansAreOrphans, Succeeded
  <2> QED BY <2>1, <2>2, <2>3, <2>5, <2>6, FrameInv
<1> QED
  BY <1>1, <1>2, <1>3, <1>4, <1>5, <1>6, <1>7, <1>8

-----------------------------------------------------------------------------
(* The other steps                                                          *)

LEMMA CopySteps ==
  ASSUME PipelineInv, Copy \/ CopyReturns \/ NoSpace \/ StartCopy \/ Dedup
  PROVE  PipelineInv'
<1> USE Codes DEF Exit
<1>0. TypeOK /\ ControlOK /\ PipelineTypeOK
  BY DEF PipelineInv, PipelineTypeOK, StagesAgree
<1>1. ASSUME Copy PROVE PipelineInv'
  <2>1. stage = "copy" /\ EngineStep /\ UNCHANGED pipelineVars /\ stage' = "copy"
    BY <1>1 DEF Copy, pipelineVars
  <2>2. TypeOK' /\ ControlOK'
    BY <1>0, <2>1, EngineType
  <2>3. src' = src /\ plan' = plan /\ pc' # "idle"
    BY <2>1, EngineFrame
  <2>4. PipelineTypeOK'
    <3>1. UNCHANGED cancelled
      BY <2>1 DEF pipelineVars
    <3>2. cancelled' \in BOOLEAN
      BY <1>0, <3>1, Zenon DEF PipelineTypeOK
    <3> QED BY <1>0, <2>1, <2>2, <3>2 DEF PipelineTypeOK, pipelineVars
  <2>5. StagesAgree'
    BY <2>1, <2>2, <2>3 DEF PipelineInv, StagesAgree, pipelineVars, Planned, Succeeded, Sources
  <2>6. VerifierIsRight' /\ OrphansAreOrphans'
    BY <2>1 DEF VerifierIsRight, OrphansAreOrphans, Succeeded
  <2> QED BY <2>4, <2>5, <2>6 DEF PipelineInv
<1>2. ASSUME CopyReturns PROVE PipelineInv'
  <2>1. /\ stage = "copy" /\ pc = "done" /\ UNCHANGED engineVars
        /\ UNCHANGED <<args, changed, orphans, failures, cancelled, edits>>
        /\ IF cancelled THEN exit' = EXIT_PARTIAL /\ stage' = "off"
                        ELSE stage' = "verify" /\ exit' = exit
    BY <1>2 DEF CopyReturns
  <2>2. TypeOK' /\ ControlOK'
    BY <1>0, <2>1, FrameType
  <2>3. src' = src /\ plan' = plan /\ pc' = pc
    BY <2>1 DEF engineVars
  <2>4. PipelineTypeOK'
    <3>1. cancelled' \in BOOLEAN
      BY <1>0, <2>1, Zenon DEF PipelineTypeOK
    <3> QED BY <1>0, <2>1, <2>2, <3>1 DEF PipelineTypeOK, Stage
  <2>5. ~Succeeded'
    BY <2>1 DEF Succeeded
  <2>6. StagesAgree'
    BY <2>1, <2>2, <2>3, <2>5 DEF PipelineInv, StagesAgree, Planned, Sources
  <2>7. VerifierIsRight' /\ OrphansAreOrphans'
    BY <2>1, <2>5 DEF VerifierIsRight, OrphansAreOrphans
  <2> QED BY <2>4, <2>6, <2>7 DEF PipelineInv
<1>3. ASSUME NoSpace PROVE PipelineInv'
  <2>1. /\ stage = "copy" /\ pc = "copy" /\ batch = {} /\ pc' = "idle" /\ todo' = {}
        /\ stage' = "off" /\ exit' = EXIT_FAILURE
        /\ UNCHANGED <<src, dir, data, disk, mem, plan, batch, archive, cur, errors, runs>>
        /\ UNCHANGED <<args, changed, orphans, failures, cancelled, edits>>
    BY <1>3 DEF NoSpace
  <2>2. TypeOK'
    BY <1>0, <2>1 DEF TypeOK, PC
  <2>3. ControlOK'
    <3>1. cur = None /\ \A p \in Path : archive[p] = None
      BY <1>0, <2>1 DEF ControlOK
    <3> QED BY <2>1, <3>1, IdleControl
  <2>4. PipelineTypeOK'
    BY <1>0, <2>1, <2>2 DEF PipelineTypeOK, Stage
  <2>5. ~Succeeded'
    BY <2>1 DEF Succeeded
  <2>6. StagesAgree'
    BY <2>1, <2>3, <2>5 DEF PipelineInv, StagesAgree, Planned
  <2>7. VerifierIsRight' /\ OrphansAreOrphans'
    BY <2>1, <2>5 DEF VerifierIsRight, OrphansAreOrphans
  <2> QED BY <2>4, <2>6, <2>7 DEF PipelineInv
<1>4. ASSUME StartCopy PROVE PipelineInv'
  <2>1. /\ stage = "gate" /\ ~args.dryRun /\ stage' = "copy"
        /\ \E m \in {NoManifest, disk} : Begin(plan, m)
        /\ disk' \in {NoManifest, disk}
        /\ UNCHANGED <<src, dir, data, args, changed, orphans, failures, cancelled, exit, edits>>
    BY <1>4 DEF StartCopy, Loads
  <2>2. NoManifest \in Manifest /\ disk \in Manifest /\ WellFormed(plan)
    BY <1>0 DEF NoManifest, Manifest, TypeOK
  <2>3. TypeOK' /\ ControlOK'
    BY <1>0, <2>1, <2>2, BeginType
  <2>4. plan' = plan /\ pc' = "copy"
    BY <2>1 DEF Begin
  <2>5. PipelineTypeOK'
    <3>1. cancelled' \in BOOLEAN
      BY <1>0, <2>1, Zenon DEF PipelineTypeOK
    <3> QED BY <1>0, <2>1, <2>3, <3>1 DEF PipelineTypeOK, Stage
  <2>6. StagesAgree'
    BY <2>1, <2>3, <2>4 DEF PipelineInv, StagesAgree, Planned, Sources
  <2>7. VerifierIsRight' /\ OrphansAreOrphans'
    BY <2>1 DEF VerifierIsRight, OrphansAreOrphans, Succeeded
  <2> QED BY <2>5, <2>6, <2>7 DEF PipelineInv
<1>5. ASSUME Dedup PROVE PipelineInv'
  <2>1. /\ stage = "dedup" /\ stage' = "gate"
        /\ UNCHANGED <<src, dir, data, disk, mem, pc, todo, batch, archive, cur, errors, runs>>
        /\ UNCHANGED <<args, changed, orphans, failures, cancelled, exit, edits>>
    BY <1>5 DEF Dedup
  <2>2. /\ WellFormed(plan') /\ plan'.entries = changed
        /\ \A p \in changed : plan'.seen[p] = src[p].content
    BY <1>5, DedupPlansWell
  <2>3. changed \subseteq Sources /\ pc \in {"idle", "done"} /\ args \in ArgSets
    BY <2>1 DEF PipelineInv, StagesAgree
  <2>4. todo = {} /\ batch = {} /\ cur = None /\ \A p \in Path : archive[p] = None
    BY <1>0, <2>3, Idle
  <2>5. TypeOK'
    BY <1>0, <2>1, <2>2, <2>4 DEF TypeOK
  <2>6. ControlOK'
    BY <2>1, <2>3, <2>4, IdleControl
  <2>7. PipelineTypeOK'
    <3>1. cancelled' \in BOOLEAN
      BY <1>0, <2>1, Zenon DEF PipelineTypeOK
    <3> QED BY <1>0, <2>1, <2>5, <3>1 DEF PipelineTypeOK, Stage
  <2>8. StagesAgree'
    BY <2>1, <2>2, <2>3, <2>6 DEF StagesAgree, Planned, Sources
  <2>9. VerifierIsRight' /\ OrphansAreOrphans'
    BY <2>1 DEF VerifierIsRight, OrphansAreOrphans, Succeeded
  <2> QED BY <2>7, <2>8, <2>9 DEF PipelineInv
<1> QED
  BY <1>1, <1>2, <1>3, <1>4, <1>5

LEMMA OtherSteps ==
  ASSUME PipelineInv,
         \/ Start \/ Killed \/ FinalSave \/ Finish
         \/ \E p \in Path : DeleteOrphan(p) \/ Edit(p)
  PROVE  PipelineInv'
<1> USE Codes DEF Exit
<1>0. TypeOK /\ ControlOK /\ PipelineTypeOK
  BY DEF PipelineInv, PipelineTypeOK, StagesAgree
<1>1. ASSUME Start PROVE PipelineInv'
  <2>1. /\ stage = "off" /\ args' \in ArgSets /\ stage' = "scan"
        /\ changed' = {} /\ orphans' = {} /\ failures' = {} /\ errors' = {}
        /\ plan' = EmptyPlan /\ mem' = NoManifest /\ pc' = "idle"
        /\ exit' = None
        /\ UNCHANGED <<src, dir, data, disk, todo, batch, archive, cur, runs, edits>>
    BY <1>1 DEF Start
  <2>2. todo = {} /\ batch = {} /\ cur = None /\ \A p \in Path : archive[p] = None
    BY <1>0, <2>1, Idle DEF PipelineInv, StagesAgree
  <2>3. TypeOK'
    BY <1>0, <2>1, <2>2, EmptyPlanIsWellFormed DEF TypeOK, NoManifest, Manifest, PC
  <2>4. ControlOK'
    BY <2>1, <2>2, IdleControl
  <2>5. PipelineTypeOK'
    <3>1. cancelled' \in BOOLEAN
      BY <1>1, Zenon DEF Start
    <3>2. args' \in CopyArgs
      BY <2>1, PipelineAssumption
    <3> QED BY <1>0, <2>1, <2>3, <3>1, <3>2 DEF PipelineTypeOK, Stage
  <2>6. StagesAgree'
    BY <2>1, <2>4 DEF StagesAgree, Planned, Succeeded
  <2>7. VerifierIsRight' /\ OrphansAreOrphans'
    BY <2>1 DEF VerifierIsRight, OrphansAreOrphans, Succeeded
  <2> QED BY <2>5, <2>6, <2>7 DEF PipelineInv
<1>2. ASSUME Killed PROVE PipelineInv'
  <2>1. /\ stage' = "off" /\ exit' = None /\ changed' = {} /\ orphans' = {} /\ failures' = {}
        /\ UNCHANGED <<args, edits>>
        /\ IF pc \in {"idle", "done"} THEN UNCHANGED engineVars ELSE Crash
    BY <1>2 DEF Killed
  <2>2. TypeOK' /\ ControlOK'
    BY <1>0, <2>1, FrameType, CrashType
  <2>3. pc' \in {"idle", "done"}
    BY <2>1 DEF Crash, engineVars
  <2>4. PipelineTypeOK'
    <3>1. cancelled' \in BOOLEAN
      BY <1>2, Zenon DEF Killed
    <3> QED BY <1>0, <2>1, <2>2, <3>1 DEF PipelineTypeOK, Stage
  <2>5. ~Succeeded'
    BY <2>1 DEF Succeeded
  <2>6. StagesAgree'
    BY <2>1, <2>2, <2>3, <2>5 DEF PipelineInv, StagesAgree, Planned
  <2>7. VerifierIsRight' /\ OrphansAreOrphans'
    BY <2>1, <2>5 DEF VerifierIsRight, OrphansAreOrphans
  <2> QED BY <2>4, <2>6, <2>7 DEF PipelineInv
<1>3. ASSUME FinalSave PROVE PipelineInv'
  <2>1. /\ stage = "save" /\ stage' = "cleanup" /\ disk' \in {disk, mem}
        /\ UNCHANGED <<src, dir, data, mem, plan, pc, todo, batch, archive, cur, errors, runs>>
        /\ UNCHANGED <<args, changed, orphans, failures, cancelled, exit, edits>>
    BY <1>3 DEF FinalSave
  <2>2. TypeOK'
    BY <1>0, <2>1 DEF TypeOK
  <2>3. ControlOK'
    <3>1. pc \in {"idle", "done"}
      BY <2>1 DEF PipelineInv, StagesAgree
    <3> QED BY <1>0, <2>1, <3>1, Idle, IdleControl
  <2>4. PipelineTypeOK'
    <3>1. cancelled' \in BOOLEAN
      BY <1>0, <2>1, Zenon DEF PipelineTypeOK
    <3> QED BY <1>0, <2>1, <2>2, <3>1 DEF PipelineTypeOK, Stage
  <2>5. StagesAgree'
    BY <2>1, <2>3 DEF PipelineInv, StagesAgree, Planned, Succeeded, Sources
  <2>6. VerifierIsRight'
    <3>1. VerifierIsRight
      BY DEF PipelineInv
    <3>2. \A p \in Verifiable : p \in Path
      BY <1>0, PlanType DEF Verifiable
    <3> QED BY <2>1, <3>1, <3>2, FrameFiles DEF VerifierIsRight, Succeeded
  <2>7. OrphansAreOrphans'
    BY <2>1 DEF OrphansAreOrphans
  <2> QED BY <2>4, <2>5, <2>6, <2>7 DEF PipelineInv
<1>4. ASSUME Finish PROVE PipelineInv'
  <2>1. /\ stage = "cleanup" /\ stage' = "off" /\ disk' \in {disk, NoManifest}
        /\ exit' = ExitCode
        /\ UNCHANGED <<src, dir, data, mem, plan, pc, todo, batch, archive, cur, errors, runs>>
        /\ UNCHANGED <<args, changed, orphans, failures, cancelled, edits>>
    BY <1>4 DEF Finish
  <2>2. TypeOK'
    BY <1>0, <2>1 DEF TypeOK, NoManifest, Manifest
  <2>3. ControlOK'
    <3>1. pc \in {"idle", "done"}
      BY <2>1 DEF PipelineInv, StagesAgree
    <3> QED BY <1>0, <2>1, <3>1, Idle, IdleControl
  <2>4. PipelineTypeOK'
    <3>1. cancelled' \in BOOLEAN
      BY <1>0, <2>1, Zenon DEF PipelineTypeOK
    <3>2. exit' \in {EXIT_SUCCESS, EXIT_PARTIAL}
      BY <2>1 DEF ExitCode
    <3> QED BY <1>0, <2>1, <2>2, <3>1, <3>2 DEF PipelineTypeOK, Stage
  <2>5. StagesAgree'
    BY <2>1, <2>3 DEF PipelineInv, StagesAgree, Planned, Sources
  <2>6. VerifierIsRight'
    <3>1. VerifierIsRight
      BY DEF PipelineInv
    <3>2. \A p \in Verifiable : p \in Path
      BY <1>0, PlanType DEF Verifiable
    <3>3. Succeeded' => failures = {}
      BY <2>1 DEF Succeeded, ExitCode
    <3> QED BY <2>1, <3>1, <3>2, <3>3, FrameFiles DEF VerifierIsRight
  <2>7. OrphansAreOrphans'
    BY <2>1 DEF OrphansAreOrphans
  <2> QED BY <2>4, <2>5, <2>6, <2>7 DEF PipelineInv
<1>5. ASSUME NEW p \in Path, DeleteOrphan(p) PROVE PipelineInv'
  <2>1. /\ stage = "delete" /\ p \in orphans /\ orphans' = orphans \ {p}
        /\ dir' \in {dir, [dir EXCEPT ![p] = None]}
        /\ UNCHANGED <<src, data, disk, mem, plan, pc, todo, batch, archive, cur, errors, runs>>
        /\ UNCHANGED <<args, stage, changed, failures, cancelled, exit, edits>>
    BY <1>5 DEF DeleteOrphan
  <2>2. TypeOK'
    BY <1>0, <2>1 DEF TypeOK
  <2>3. ControlOK'
    <3>1. pc \in {"idle", "done"}
      BY <2>1 DEF PipelineInv, StagesAgree
    <3> QED BY <1>0, <2>1, <3>1, Idle, IdleControl
  <2>4. PipelineTypeOK'
    <3>1. cancelled' \in BOOLEAN
      BY <1>0, <2>1, Zenon DEF PipelineTypeOK
    <3> QED BY <1>0, <2>1, <2>2, <3>1 DEF PipelineTypeOK
  <2>5. StagesAgree'
    BY <2>1, <2>3 DEF PipelineInv, StagesAgree, Planned, Succeeded, Sources
  <2>6. VerifierIsRight'
    BY <2>1 DEF VerifierIsRight, Succeeded
  <2>7. OrphansAreOrphans'
    BY <2>1 DEF PipelineInv, OrphansAreOrphans
  <2> QED BY <2>4, <2>5, <2>6, <2>7 DEF PipelineInv
<1>6. ASSUME NEW p \in Path, Edit(p) PROVE PipelineInv'
  <2>1. PICK f \in SourceFile \cup {None} : src' = [src EXCEPT ![p] = f]
    BY <1>6 DEF Edit
  <2>2. /\ stage = "off" /\ edits < MaxEdits /\ edits' = edits + 1 /\ exit' = None
        /\ UNCHANGED <<dir, data, disk, mem, plan, pc, todo, batch, archive, cur, errors, runs>>
        /\ UNCHANGED <<args, stage, changed, orphans, failures, cancelled>>
    BY <1>6 DEF Edit
  <2>3. TypeOK'
    BY <1>0, <2>1, <2>2 DEF TypeOK
  <2>4. ControlOK'
    <3>1. pc \in {"idle", "done"}
      BY <2>2 DEF PipelineInv, StagesAgree
    <3> QED BY <1>0, <2>2, <3>1, Idle, IdleControl
  <2>5. PipelineTypeOK'
    <3>1. cancelled' \in BOOLEAN
      BY <1>0, <2>2, Zenon DEF PipelineTypeOK
    <3>2. edits' \in 0..MaxEdits
      BY <1>0, <2>2, PipelineAssumption DEF PipelineTypeOK
    <3> QED BY <1>0, <2>2, <2>3, <3>1, <3>2 DEF PipelineTypeOK
  <2>6. StagesAgree'
    BY <2>2, <2>4 DEF PipelineInv, StagesAgree, Planned, Succeeded
  <2>7. VerifierIsRight' /\ OrphansAreOrphans'
    BY <2>2 DEF VerifierIsRight, OrphansAreOrphans, Succeeded
  <2> QED BY <2>5, <2>6, <2>7 DEF PipelineInv
<1> QED
  BY <1>1, <1>2, <1>3, <1>4, <1>5, <1>6

\* Types, the bookkeeping of the stages and what the verifier concluded hold for
\* any files, command lines, failures, kills, edits and link strategy.
THEOREM PipelineInductive == Spec => []PipelineInv
<1>1. PipelineInv /\ [Next]_vars => PipelineInv'
  <2> SUFFICES ASSUME PipelineInv, [Next]_vars PROVE PipelineInv'
    OBVIOUS
  <2>1. CASE UNCHANGED vars
    <3>1. UNCHANGED engineVars /\ UNCHANGED <<args, stage, changed, orphans, failures, exit, edits>>
      BY <2>1 DEF vars, pipelineVars
    <3>2. TypeOK' /\ ControlOK' /\ src' = src /\ plan' = plan /\ pc' = pc
      BY <3>1, FrameType DEF PipelineInv, PipelineTypeOK, StagesAgree, engineVars
    <3>3. cancelled' \in BOOLEAN
      BY <2>1, Zenon DEF vars, pipelineVars, PipelineInv, PipelineTypeOK
    <3>4. PipelineTypeOK'
      BY <3>1, <3>2, <3>3 DEF PipelineInv, PipelineTypeOK
    <3>5. StagesAgree' /\ OrphansAreOrphans'
      BY <3>1, <3>2
         DEF PipelineInv, StagesAgree, OrphansAreOrphans, Planned, Succeeded, Sources
    <3>6. VerifierIsRight'
      <4>1. VerifierIsRight
        BY DEF PipelineInv
      <4>2. \A p \in Verifiable : p \in Path
        BY PlanType DEF Verifiable, PipelineInv, PipelineTypeOK
      <4> QED BY <3>1, <4>1, <4>2, FrameFiles DEF VerifierIsRight, Succeeded, engineVars
    <3> QED BY <3>4, <3>5, <3>6 DEF PipelineInv
  <2> QED
    BY <2>1, StageSteps, CopySteps, OtherSteps DEF Next, RunStep
<1> QED
  BY InitPipeline, <1>1, PTL DEF Spec

-----------------------------------------------------------------------------
(* What follows                                                             *)

\* After a run that verified and succeeded, every hashed canonical file is whole:
\* no hypothesis on failures, on earlier runs or on what the manifest lists.
THEOREM VerifiedIsWholeHolds == Spec => []VerifiedIsWhole
<1>1. PipelineInv => VerifiedIsWhole
  BY DEF PipelineInv, VerifierIsRight, VerifiedIsWhole
<1> QED
  BY <1>1, PipelineInductive, PTL

\* A dry run changes no file and no manifest, and takes away no name but an orphan's
\* and that one only under --delete: for every command line, with every failure.
THEOREM DryRunOnlyDeletesHolds == Spec => DryRunOnlyDeletes
<1> DEFINE Dry == /\ UNCHANGED <<data, disk>>
                  /\ \A p \in Path : dir'[p] # dir[p] =>
                       args.delete /\ p \in orphans /\ dir'[p] = None
<1>1. PipelineInv /\ [Next]_vars => [stage # "off" /\ args.dryRun => Dry]_vars
  <2> SUFFICES ASSUME PipelineInv, Next, stage # "off", args.dryRun PROVE Dry
    BY DEF vars, engineVars
  <2>1. /\ stage \notin {"copy", "verify", "save", "cleanup"}
        /\ stage = "delete" => args.delete
        /\ dir \in [Path -> Inode \cup Path \cup {None}]
    BY DEF PipelineInv, PipelineTypeOK, TypeOK, StagesAgree
  <2>2. ASSUME NEW p \in Path, DeleteOrphan(p) PROVE Dry
    BY <2>1, <2>2 DEF DeleteOrphan
  <2>3. ASSUME RunStep, ~ \E p \in Path : DeleteOrphan(p) PROVE UNCHANGED <<dir, data, disk>>
    BY <2>1, <2>3
       DEF RunStep, StopIfCancelled, Scan, Delta, FindOrphans, OrphansDeleted,
           Dedup, DryRun, StartCopy, NoSpace, Copy, CopyReturns, Verify, FinalSave, Finish,
           engineVars
  <2> QED
    BY <2>2, <2>3 DEF Next, Start, Cancel, Killed, Edit, Crash, engineVars
<1> QED
  BY <1>1, PipelineInductive, PTL DEF Spec, DryRunOnlyDeletes

\* When every walk of the source is complete, --delete removes no name that the
\* source has: not after an edit, a kill or any other failure.
THEOREM OnlyOrphansVanishHolds ==
  ASSUME "scan" \notin Faults
  PROVE  Spec => OnlyOrphansVanish
<1>1. PipelineInv /\ [Next]_vars
        => [\A p \in Path : stage = "delete" /\ dir[p] # None /\ dir'[p] = None
                              => src[p] = None]_vars
  <2> SUFFICES ASSUME PipelineInv, Next, stage = "delete", NEW p \in Path,
                      dir[p] # None, dir'[p] = None
               PROVE  src[p] = None
    OBVIOUS
  <2>1. ASSUME NEW q \in Path, DeleteOrphan(q) PROVE src[p] = None
    <3>1. q \in orphans /\ dir' \in {dir, [dir EXCEPT ![q] = None]}
      BY <2>1 DEF DeleteOrphan
    <3>2. p = q
      BY <3>1 DEF PipelineInv, PipelineTypeOK, TypeOK
    <3> QED BY <3>1, <3>2 DEF PipelineInv, OrphansAreOrphans
  <2>2. \/ UNCHANGED dir
        \/ \E q \in Path : DeleteOrphan(q)
    BY DEF Next, Start, Cancel, Killed, Edit, Crash, engineVars,
           RunStep, StopIfCancelled, Scan, Delta, FindOrphans, OrphansDeleted,
           Dedup, DryRun, StartCopy, NoSpace, Copy, CopyReturns, Verify, FinalSave, Finish
  <2> QED
    BY <2>1, <2>2
<1> QED
  BY <1>1, PipelineInductive, PTL DEF Spec, OnlyOrphansVanish

-----------------------------------------------------------------------------
(* --delete                                                                 *)

\* On one file system the engine makes no symlink, and names only entries of
\* its plan.
LEMMA EngineNames ==
  ASSUME TypeOK, ControlOK, OneFileSystem, NoSymlinks, EngineStep
  PROVE  NoSymlinks' /\ \A p \in Path : dir'[p] # None => dir[p] # None \/ p \in plan.entries
<1> USE PlanType, NoneAssumption, EngineAssumption
<1>0. /\ todo \subseteq plan.entries /\ plan.entries \subseteq Path
      /\ \A p \in Path : Target(p) = p
      /\ dir \in [Path -> Inode \cup Path \cup {None}]
  BY DEF TypeOK, NoSymlinks, Target
<1>1. ASSUME NEW p \in plan.entries, NEW i \in Inode \cup {None}, dir' = [dir EXCEPT ![p] = i]
      PROVE  NoSymlinks' /\ \A q \in Path : dir'[q] # None => dir[q] # None \/ q \in plan.entries
  BY <1>0, <1>1 DEF NoSymlinks
<1>2. ASSUME dir' = dir
      PROVE  NoSymlinks' /\ \A q \in Path : dir'[q] # None => dir[q] # None \/ q \in plan.entries
  BY <1>2 DEF NoSymlinks
<1>3. ASSUME NEW p \in Path, LargeStart(p)
      PROVE  dir' = dir \/ \E q \in plan.entries, i \in Inode \cup {None} : dir' = [dir EXCEPT ![q] = i]
  BY <1>0, <1>3 DEF LargeStart, Create, CreateAfterRemove, FreeFor
<1>4. ASSUME NEW p \in Path, UnpackStart(p)
      PROVE  dir' = dir \/ \E q \in plan.entries, i \in Inode \cup {None} : dir' = [dir EXCEPT ![q] = i]
  <2>1. p \in plan.entries
    BY <1>4 DEF UnpackStart, ControlOK, Canonicals
  <2> QED BY <1>4, <2>1 DEF UnpackStart, Replace, FreeFor
<1>5. ASSUME Phase1Step
      PROVE  dir' = dir \/ \E q \in plan.entries, i \in Inode \cup {None} : dir' = [dir EXCEPT ![q] = i]
  BY <1>3, <1>4, <1>5
     DEF Phase1Step, SkipCompleted, ParentDirFails, PutAside, LargeOpenFails, LargeDone,
         LargeFails, EndOfPhase1, Pack, UnpackDone, UnpackFails, UnpackEnds, MarkSmall
<1>6. ASSUME NEW p \in Path, AtDuplicate(p)
      PROVE  /\ p \in plan.entries /\ plan.canon[p] \in Path /\ SameMount(p)
             /\ dir[plan.canon[p]] \in Inode \cup {None}
  <2>1. p \in Duplicates /\ plan.canon[p] \in Path
    BY <1>0, <1>6 DEF AtDuplicate, ControlOK
  <2> QED BY <1>0, <2>1 DEF SameMount, OneFileSystem, NoSymlinks
<1>7. ASSUME NEW p \in Path, Clone(p)
      PROVE  dir' = dir \/ \E q \in plan.entries, i \in Inode \cup {None} : dir' = [dir EXCEPT ![q] = i]
  BY <1>0, <1>6, <1>7 DEF Clone, FreeFor
<1>8. ASSUME NEW p \in Path, HardLink(p)
      PROVE  dir' = dir \/ \E q \in plan.entries, i \in Inode \cup {None} : dir' = [dir EXCEPT ![q] = i]
  <2>1. dir' = [dir EXCEPT ![p] = dir[plan.canon[p]]]
    BY <1>0, <1>8 DEF HardLink, NameAtLink
  <2> QED BY <1>6, <1>8, <2>1 DEF HardLink
<1>9. ASSUME NEW p \in Path, HardLinkFails(p)
      PROVE  dir' = dir \/ \E q \in plan.entries, i \in Inode \cup {None} : dir' = [dir EXCEPT ![q] = i]
  BY <1>6, <1>9 DEF HardLinkFails, NameAtLink
<1>10. ASSUME NEW p \in Path PROVE ~AcrossMounts(p)
  BY <1>6 DEF AcrossMounts
<1>11. ASSUME Phase2Step
       PROVE  dir' = dir \/ \E q \in plan.entries, i \in Inode \cup {None} : dir' = [dir EXCEPT ![q] = i]
  BY <1>7, <1>8, <1>9, <1>10, <1>11
     DEF Phase2Step, Symlink, FallbackStart, FallbackDone, FallbackFails, EndOfPhase2
<1>12. ASSUME Save \/ SaveFails PROVE dir' = dir
  BY <1>12 DEF Save, SaveFails
<1> QED
  BY <1>1, <1>2, <1>5, <1>11, <1>12 DEF EngineStep

LEMMA DeleteInvNext ==
  ASSUME DeleteAssumption, PipelineInv, DeleteInv, [Next]_vars
  PROVE  DeleteInv'
<1> USE Codes, EngineAssumption DEF Exit
<1> DEFINE Mirrored == \A p \in Path : dir[p] # None => p \in Sources
           Left     == \A p \in Path : dir[p] # None => p \in Sources \cup orphans
<1>0. /\ NoSymlinks
      /\ stage = "delete" => Left
      /\ args.delete /\ (stage = "dedup" \/ Planned \/ Succeeded) => Mirrored
  BY DEF DeleteInv
<1>1. SUFFICES /\ NoSymlinks'
               /\ stage' = "delete" => Left'
               /\ args'.delete /\ (stage' = "dedup" \/ Planned' \/ Succeeded') => Mirrored'
  BY DEF DeleteInv
<1>2. "scan" \notin Faults /\ "remove" \notin Faults /\ OneFileSystem
  BY DEF DeleteAssumption
<1>3. UNCHANGED dir => NoSymlinks' /\ (UNCHANGED src => Mirrored' = Mirrored)
  BY <1>0 DEF NoSymlinks, Sources
<1>4. CASE RunStep
  <2>1. CASE StopIfCancelled \/ NoSpace \/ DryRun
    <3>1. UNCHANGED dir /\ stage' = "off" /\ ~Succeeded'
      BY <2>1 DEF StopIfCancelled, NoSpace, DryRun, Succeeded, engineVars
    <3> QED BY <1>3, <3>1 DEF Planned
  <2>2. CASE Scan
    BY <1>3, <2>2 DEF Scan, Planned, Succeeded, engineVars
  <2>3. CASE Delta
    BY <1>3, <2>3 DEF Delta, Planned, Succeeded, engineVars
  <2>4. CASE FindOrphans
    <3>1. /\ UNCHANGED <<src, dir, data>> /\ stage' = "delete"
          /\ orphans' = {p \in Path \ Sources : Exists(p)}
      BY <1>2, <2>4 DEF FindOrphans, Scans, engineVars
    <3>2. \A p \in Path : dir[p] # None => Exists(p)
      BY <1>0 DEF NoSymlinks, Exists, Target, PipelineInv, PipelineTypeOK, TypeOK
    <3>3. Left'
      BY <3>1, <3>2 DEF Sources
    <3> QED BY <1>3, <3>1, <3>3 DEF Planned, Succeeded
  <2>5. CASE OrphansDeleted
    <3>1. UNCHANGED <<src, dir>> /\ stage = "delete" /\ orphans = {} /\ stage' = "dedup"
      BY <2>5 DEF OrphansDeleted, engineVars
    <3> QED BY <1>0, <1>3, <3>1
  <2>6. ASSUME NEW q \in Path, DeleteOrphan(q) PROVE NoSymlinks' /\ Left' /\ stage' = "delete"
    <3>1. /\ dir' = [dir EXCEPT ![q] = None] /\ src' = src /\ orphans' = orphans \ {q}
          /\ stage = "delete" /\ stage' = "delete"
      BY <1>2, <2>6 DEF DeleteOrphan
    <3>2. dir \in [Path -> Inode \cup Path \cup {None}]
      BY DEF PipelineInv, PipelineTypeOK, TypeOK
    <3> QED BY <1>0, <3>1, <3>2, NoneAssumption DEF NoSymlinks, Sources
  <2>7. CASE Dedup \/ StartCopy
    <3>1. UNCHANGED <<src, dir, args>> /\ stage \in {"dedup", "gate"} /\ stage' \in {"gate", "copy"}
      BY <2>7 DEF Dedup, StartCopy
    <3> QED BY <1>0, <1>3, <3>1 DEF Planned, Succeeded
  <2>8. CASE Copy
    <3>1. EngineStep /\ UNCHANGED pipelineVars /\ stage = "copy"
      BY <2>8 DEF Copy
    <3>2. /\ NoSymlinks'
          /\ \A p \in Path : dir'[p] # None => dir[p] # None \/ p \in plan.entries
          /\ src' = src
      BY <1>0, <1>2, <3>1, EngineNames, EngineFrame DEF PipelineInv, PipelineTypeOK, StagesAgree
    <3>3. \A p \in plan.entries : p \in Sources
      BY <3>1 DEF PipelineInv, StagesAgree, Planned
    <3>4. Mirrored => Mirrored'
      BY <3>2, <3>3 DEF Sources
    <3> QED BY <1>0, <3>1, <3>2, <3>4 DEF Planned, Succeeded, pipelineVars
  <2>9. CASE CopyReturns \/ Verify \/ FinalSave \/ Finish
    <3>1. UNCHANGED <<src, dir, args>> /\ Planned
          /\ stage' \in {"off", "verify", "save", "cleanup"}
      BY <2>9 DEF CopyReturns, Verify, FinalSave, Finish, Planned, engineVars
    <3> QED BY <1>0, <1>3, <3>1
  <2> QED
    BY <1>4, <2>1, <2>2, <2>3, <2>4, <2>5, <2>6, <2>7, <2>8, <2>9
       DEF RunStep, Planned, Succeeded
<1>5. CASE Start
  BY <1>3, <1>5 DEF Start, Planned, Succeeded
<1>6. CASE Cancel
  <2>1. UNCHANGED <<src, dir, args, stage, orphans, exit>>
    BY <1>6 DEF Cancel, engineVars
  <2> QED BY <1>0, <1>3, <2>1 DEF Planned, Succeeded, Sources
<1>7. CASE Killed
  <2>1. UNCHANGED dir /\ stage' = "off" /\ exit' = None
    BY <1>7 DEF Killed, Crash, engineVars
  <2> QED BY <1>3, <2>1 DEF Planned, Succeeded
<1>8. ASSUME NEW p \in Path, Edit(p) PROVE UNCHANGED dir /\ stage' = "off" /\ exit' = None
  BY <1>8 DEF Edit
<1>9. CASE UNCHANGED vars
  <2>1. UNCHANGED <<src, dir, args, stage, orphans, exit>>
    BY <1>9 DEF vars, engineVars, pipelineVars
  <2> QED BY <1>0, <1>3, <2>1 DEF Planned, Succeeded, Sources
<1> QED
  BY <1>3, <1>4, <1>5, <1>6, <1>7, <1>8, <1>9 DEF Next, Planned, Succeeded

\* On one file system, with complete walks and no file that cannot be removed,
\* a success with --delete leaves no name the source does not have.
THEOREM DeleteIsExactHolds ==
  ASSUME DeleteAssumption
  PROVE  Spec => []DeleteIsExact
<1>1. Init => DeleteInv
  BY Codes, NoneAssumption
     DEF Init, DeleteInv, NoSymlinks, Planned, Succeeded
<1>2. PipelineInv /\ DeleteInv /\ [Next]_vars => DeleteInv'
  BY DeleteInvNext
<1>3. PipelineInv /\ DeleteInv => DeleteIsExact
  <2> SUFFICES ASSUME PipelineInv, DeleteInv, Succeeded, args.delete, NEW p \in Path, Exists(p)
               PROVE  p \in Sources
    BY DEF DeleteIsExact
  <2>1. NoSymlinks /\ \A q \in Path : dir[q] # None => q \in Sources
    BY DEF DeleteInv
  <2> QED BY <2>1, EngineAssumption DEF NoSymlinks, Exists, Target
<1> QED
  BY <1>1, <1>2, <1>3, PipelineInductive, PTL DEF Spec

-----------------------------------------------------------------------------
(* The mirror: what files are, for a directory d over inodes x              *)

Good(d, x, p) == d[p] # None /\ x[d[p]].content = src[p].content

SoundIn(m, d, x) ==
  \A p \in Path : m[p] # None =>
    /\ p \in Sources
    /\ m[p].size = SizeOf[src[p].content] /\ m[p].hash \in {None, src[p].content}
    /\ \/ Good(d, x, p)
       \/ Large(p) /\ \E q \in Sources : m[q] = None /\ d[q] = d[p] /\ d[p] # None

SharedIn(d) == \A p, q \in Path : p # q /\ d[p] # None /\ d[p] = d[q] => Twins(p, q)

StampedIn(d, x) ==
  \A p \in Path :
    d[p] # None /\ x[d[p]].mtime # CopyTime => p \in Sources /\ Good(d, x, p) /\ ~Large(p)

LEMMA SourceContent ==
  ASSUME TypeOK, NEW p \in Sources
  PROVE  p \in Path /\ src[p].content \in Content /\ src[p].mtime \in 1..MaxTime
BY DEF Sources, TypeOK, SourceFile

LEMMA FilesNow ==
  ASSUME TypeOK, NoSymlinks
  PROVE  /\ \A p \in Sources : Whole(p) <=> Good(dir, data, p)
         /\ \A p \in Path : Target(p) = p /\ (Exists(p) <=> dir[p] # None)
         /\ \A p \in Path : dir[p] # None => dir[p] \in Inode
<1>1. \A p \in Path : dir[p] # None => dir[p] \in Inode
  BY DEF TypeOK, NoSymlinks
<1>2. \A p \in Path : Target(p) = p /\ (Exists(p) <=> dir[p] # None)
  BY <1>1, EngineAssumption DEF NoSymlinks, Target, Exists
<1>3. ASSUME NEW p \in Sources PROVE Whole(p) <=> Good(dir, data, p)
  <2>1. p \in Path /\ src[p].content # None
    BY SourceContent, NoneAssumption
  <2> QED BY <1>2, <2>1 DEF Whole, Holds, Good
<1> QED BY <1>1, <1>2, <1>3

LEMMA FilesNext ==
  ASSUME TypeOK, TypeOK', NoSymlinks', src' = src
  PROVE  /\ Sources' = Sources
         /\ \A p \in Path : Large(p)' = Large(p)
         /\ \A p, q \in Path : Twins(p, q)' = Twins(p, q)
         /\ \A p \in Sources : Whole(p)' <=> Good(dir', data', p)
<1>1. Sources' = Sources /\ (\A p \in Path : Large(p)' = Large(p))
  BY DEF Sources, Large
<1>2. \A p, q \in Path : Twins(p, q)' = Twins(p, q)
  BY <1>1 DEF Twins
<1>3. ASSUME NEW p \in Sources PROVE Whole(p)' <=> Good(dir', data', p)
  <2>1. p \in Path /\ src[p].content # None
    BY SourceContent, NoneAssumption
  <2>2. dir'[p] # None => dir'[p] \in Inode
    BY <2>1 DEF TypeOK, NoSymlinks
  <2>3. Target(p)' = p /\ (Exists(p)' <=> dir'[p] # None)
    BY <2>1, <2>2, EngineAssumption DEF NoSymlinks, Target, Exists
  <2> QED BY <2>1, <2>3 DEF Whole, Holds, Good
<1> QED BY <1>1, <1>2, <1>3

LEMMA SoundNow ==
  ASSUME TypeOK, NoSymlinks
  PROVE  /\ Sound(mem) <=> SoundIn(mem, dir, data)
         /\ Sound(disk) <=> SoundIn(disk, dir, data)
BY FilesNow DEF Sound, SoundIn

LEMMA SoundNext ==
  ASSUME TypeOK, TypeOK', NoSymlinks', src' = src
  PROVE  /\ Sound(mem)' <=> SoundIn(mem', dir', data')
         /\ Sound(disk)' <=> SoundIn(disk', dir', data')
<1>1. Sound(mem)' <=> SoundIn(mem', dir', data')
  BY FilesNext DEF Sound, SoundIn
<1>2. Sound(disk)' <=> SoundIn(disk', dir', data')
  BY FilesNext DEF Sound, SoundIn
<1> QED BY <1>1, <1>2

LEMMA StampedNow ==
  ASSUME TypeOK, NoSymlinks, Careful
  PROVE  StampedIsWhole <=> StampedIn(dir, data)
BY FilesNow DEF StampedIsWhole, StampedIn

LEMMA StampedNext ==
  ASSUME TypeOK, TypeOK', NoSymlinks', src' = src, StampedIn(dir', data')
  PROVE  StampedIsWhole'
BY FilesNext DEF StampedIsWhole, StampedIn, Careful

-----------------------------------------------------------------------------
(* The mirror: what each way of writing a file does to it                   *)

LEMMA TwinsAgree ==
  ASSUME NEW p, NEW q, Twins(p, q)
  PROVE  /\ p \in Sources /\ q \in Sources /\ Twins(q, p)
         /\ src[p].content = src[q].content /\ (Large(p) <=> Large(q))
BY DEF Twins, Large

\* A large unlisted file is truncated, under all its names: it is itself the file
\* still to be copied that the listed ones among them share.
LEMMA Truncated ==
  ASSUME TypeOK, NoSymlinks, SharedByTwins,
         NEW p \in Sources, Large(p), dir[p] # None,
         NEW x, x = [data EXCEPT ![dir[p]] = TornNow],
         NEW m, SoundIn(m, dir, data), m[p] = None
  PROVE  SoundIn(m, dir, x)
<1> SUFFICES ASSUME NEW r \in Path, m[r] # None
             PROVE  \/ Good(dir, x, r)
                    \/ Large(r) /\ \E q \in Sources : m[q] = None /\ dir[q] = dir[r] /\ dir[r] # None
  BY DEF SoundIn
<1>1. CASE dir[r] = dir[p]
  <2>1. Twins(r, p)
    BY <1>1, SourceContent DEF SharedByTwins
  <2> QED BY <1>1, <2>1, TwinsAgree
<1>2. CASE dir[r] # dir[p]
  <2>1. dir[r] # None => dir[r] \in Inode /\ x[dir[r]] = data[dir[r]]
    BY <1>2, FilesNow, SourceContent DEF TypeOK
  <2> QED BY <2>1 DEF SoundIn, Good
<1> QED BY <1>1, <1>2

\* Bytes that no listed file, and none that is left out, had are changed.
LEMMA TruncatedRest ==
  ASSUME TypeOK, NoSymlinks, SharedByTwins,
         NEW p \in Sources, Large(p), dir[p] # None,
         NEW t \in InodeData, t.mtime = CopyTime,
         NEW x, x = [data EXCEPT ![dir[p]] = t]
  PROVE  /\ StampedIn(dir, data) => StampedIn(dir, x)
         /\ \A q \in Sources : Good(dir, data, q) /\ ~Large(q) => Good(dir, x, q)
<1>1. dir[p] \in Inode /\ p \in Path
  BY FilesNow, SourceContent
<1>2. \A q \in Path : dir[q] # None => /\ dir[q] \in Inode
                                       /\ x[dir[q]] = IF dir[q] = dir[p] THEN t ELSE data[dir[q]]
  BY <1>1, FilesNow DEF TypeOK
<1>3. ASSUME NEW q \in Sources, Good(dir, data, q), ~Large(q) PROVE Good(dir, x, q)
  <2>1. dir[q] # dir[p]
    <3>1. SUFFICES ASSUME dir[q] = dir[p] PROVE FALSE
      OBVIOUS
    <3>2. q \in Path /\ q # p
      BY <1>3, SourceContent
    <3>3. Twins(p, q)
      BY <1>1, <3>1, <3>2 DEF SharedByTwins
    <3> QED BY <1>3, <3>3, TwinsAgree
  <2> QED BY <1>2, <1>3, <2>1, SourceContent DEF Good
<1>4. ASSUME StampedIn(dir, data) PROVE StampedIn(dir, x)
  BY <1>2, <1>4 DEF StampedIn, Good
<1> QED BY <1>3, <1>4

\* The last byte of a large file is written: all its names are whole.
LEMMA Completed ==
  ASSUME TypeOK, NoSymlinks, SharedByTwins,
         NEW p \in Sources, dir[p] # None,
         NEW x, x = [data EXCEPT ![dir[p]] = Written(src[p].content)],
         NEW m, SoundIn(m, dir, data),
         NEW m2, \A r \in Path \ {p} : m2[r] = m[r],
         m2[p] # None => /\ m2[p].size = SizeOf[src[p].content]
                         /\ m2[p].hash \in {None, src[p].content}
  PROVE  SoundIn(m2, dir, x)
<1>1. dir[p] \in Inode /\ p \in Path
  BY FilesNow, SourceContent
<1>2. \A q \in Path : dir[q] # None =>
        /\ dir[q] \in Inode
        /\ x[dir[q]] = IF dir[q] = dir[p] THEN Written(src[p].content) ELSE data[dir[q]]
  BY <1>1, FilesNow DEF TypeOK
<1> SUFFICES ASSUME NEW r \in Path, m2[r] # None
             PROVE  /\ r \in Sources
                    /\ m2[r].size = SizeOf[src[r].content] /\ m2[r].hash \in {None, src[r].content}
                    /\ \/ Good(dir, x, r)
                       \/ Large(r) /\ \E q \in Sources : m2[q] = None /\ dir[q] = dir[r] /\ dir[r] # None
  BY DEF SoundIn
<1>3. CASE r = p
  BY <1>2, <1>3 DEF Good, Written
<1>4. CASE r # p /\ dir[r] = dir[p]
  <2>1. Twins(r, p)
    BY <1>1, <1>4 DEF SharedByTwins
  <2>2. Good(dir, x, r)
    BY <1>2, <1>4, <2>1, TwinsAgree DEF Good, Written
  <2> QED BY <1>4, <2>2 DEF SoundIn
<1>5. CASE dir[r] # dir[p]
  <2>1. m[r] # None /\ m[r] = m2[r] /\ r # p
    BY <1>5
  <2>2. CASE Good(dir, data, r)
    BY <1>2, <1>5, <2>1, <2>2 DEF SoundIn, Good
  <2>3. CASE ~Good(dir, data, r)
    <3>1. PICK q \in Sources : m[q] = None /\ dir[q] = dir[r] /\ dir[r] # None /\ Large(r)
      BY <2>1, <2>3 DEF SoundIn
    <3>2. q # p /\ m2[q] = None
      BY <1>5, <3>1, SourceContent
    <3> QED BY <2>1, <3>1, <3>2 DEF SoundIn
  <2> QED BY <2>2, <2>3
<1> QED BY <1>3, <1>4, <1>5

\* An unlisted file gets an inode of its own.
LEMMA Renewed ==
  ASSUME TypeOK, NoSymlinks, SharedByTwins,
         NEW p \in Sources, dir[p] = None \/ ~Large(p),
         NEW i \in FreeFor(p),
         NEW d, d = [dir EXCEPT ![p] = i], NEW x, x = [data EXCEPT ![i] = TornNow]
  PROVE  /\ SharedIn(d)
         /\ StampedIn(dir, data) => StampedIn(d, x)
         /\ \A q \in Sources \ {p} : Good(dir, data, q) => Good(d, x, q)
         /\ \A m : SoundIn(m, dir, data) /\ m[p] = None => SoundIn(m, d, x)
<1>1. p \in Path /\ i \in Inode /\ i # None
  BY SourceContent, EngineAssumption DEF FreeFor
<1>2. \A q \in Path \ {p} : d[q] = dir[q] /\ dir[q] # i
  BY <1>1 DEF TypeOK, FreeFor
<1>3. \A q \in Path \ {p} : dir[q] # None => x[dir[q]] = data[dir[q]]
  BY <1>2, FilesNow DEF TypeOK
<1>4. d[p] = i /\ x[i] = TornNow
  BY <1>1 DEF TypeOK
<1>5. SharedIn(d)
  BY <1>1, <1>2, <1>4 DEF SharedIn, SharedByTwins
<1>6. \A q \in Sources \ {p} : Good(dir, data, q) => Good(d, x, q)
  BY <1>2, <1>3, SourceContent DEF Good
<1>7. ASSUME StampedIn(dir, data) PROVE StampedIn(d, x)
  <2> SUFFICES ASSUME NEW q \in Path, d[q] # None, x[d[q]].mtime # CopyTime
               PROVE  q \in Sources /\ Good(d, x, q) /\ ~Large(q)
    BY DEF StampedIn
  <2>1. q # p
    BY <1>4 DEF TornNow
  <2> QED BY <1>2, <1>3, <1>6, <1>7, <2>1 DEF StampedIn
<1>8. ASSUME NEW m, SoundIn(m, dir, data), m[p] = None PROVE SoundIn(m, d, x)
  <2> SUFFICES ASSUME NEW r \in Path, m[r] # None
               PROVE  \/ Good(d, x, r)
                      \/ Large(r) /\ \E q \in Sources : m[q] = None /\ d[q] = d[r] /\ d[r] # None
    BY <1>8 DEF SoundIn
  <2>1. r # p /\ r \in Sources
    BY <1>8 DEF SoundIn
  <2>2. CASE Good(dir, data, r)
    BY <1>6, <2>1, <2>2
  <2>3. CASE ~Good(dir, data, r)
    <3>1. PICK q \in Sources : m[q] = None /\ dir[q] = dir[r] /\ dir[r] # None /\ Large(r)
      BY <1>8, <2>3 DEF SoundIn
    <3>2. q # p
      <4>1. SUFFICES ASSUME q = p PROVE FALSE
        OBVIOUS
      <4>2. Twins(q, r)
        BY <1>1, <2>1, <3>1, <4>1 DEF SharedByTwins
      <4> QED BY <3>1, <4>1, <4>2, TwinsAgree
    <3>3. q \in Path /\ d[q] = dir[q] /\ d[r] = dir[r]
      BY <1>2, <2>1, <3>2, SourceContent
    <3> QED BY <3>1, <3>3
  <2> QED BY <2>2, <2>3
<1> QED BY <1>5, <1>6, <1>7, <1>8

\* An inode that only p names is written.
LEMMA Filled ==
  ASSUME TypeOK, NoSymlinks, NEW p \in Path, dir[p] # None,
         \A q \in Path \ {p} : dir[q] # dir[p],
         NEW t, NEW x, x = [data EXCEPT ![dir[p]] = t]
  PROVE  /\ \A q \in Sources \ {p} : Good(dir, data, q) <=> Good(dir, x, q)
         /\ \A m : SoundIn(m, dir, data) /\ m[p] = None => SoundIn(m, dir, x)
         /\ StampedIn(dir, data) /\ p \in Sources /\ t = src[p] /\ ~Large(p) => StampedIn(dir, x)
<1>1. dir[p] \in Inode
  BY FilesNow
<1>2. \A q \in Path \ {p} : dir[q] # None => x[dir[q]] = data[dir[q]]
  BY <1>1, FilesNow DEF TypeOK
<1>3. x[dir[p]] = t
  BY <1>1 DEF TypeOK
<1>4. \A q \in Sources \ {p} : Good(dir, data, q) <=> Good(dir, x, q)
  BY <1>2, SourceContent DEF Good
<1>5. ASSUME NEW m, SoundIn(m, dir, data), m[p] = None PROVE SoundIn(m, dir, x)
  BY <1>4, <1>5 DEF SoundIn
<1>6. ASSUME StampedIn(dir, data), p \in Sources, t = src[p], ~Large(p) PROVE StampedIn(dir, x)
  BY <1>2, <1>3, <1>6 DEF StampedIn, Good
<1> QED BY <1>4, <1>5, <1>6

\* A missing duplicate is given the inode of a file of the same content.
LEMMA LinkedFiles ==
  ASSUME TypeOK, NoSymlinks, SharedByTwins,
         NEW p, NEW c, Twins(p, c), p # c, dir[p] = None, dir[c] # None,
         NEW d, d = [dir EXCEPT ![p] = dir[c]]
  PROVE  /\ SharedIn(d)
         /\ StampedIn(dir, data) => StampedIn(d, data)
         /\ \A q \in Sources \ {p} : Good(dir, data, q) => Good(d, data, q)
         /\ \A m : SoundIn(m, dir, data) /\ m[p] = None => SoundIn(m, d, data)
<1>1. p \in Sources /\ c \in Sources /\ p \in Path /\ c \in Path
  BY TwinsAgree, SourceContent
<1>2. d[p] = dir[c] /\ d[c] = dir[c] /\ \A q \in Path \ {p} : d[q] = dir[q]
  BY <1>1 DEF TypeOK
<1>3. ASSUME NEW q \in Path, q # p, d[q] = dir[c] PROVE Twins(p, q) /\ Twins(q, p)
  <2>1. q = c \/ Twins(c, q)
    BY <1>1, <1>2, <1>3 DEF SharedByTwins
  <2> QED BY <2>1, <1>3, TwinsAgree DEF Twins
<1>4. SharedIn(d)
  <2> SUFFICES ASSUME NEW q \in Path, NEW r \in Path, q # r, d[q] # None, d[q] = d[r]
               PROVE  Twins(q, r)
    BY DEF SharedIn
  <2>1. CASE q = p
    BY <1>2, <1>3, <2>1
  <2>2. CASE r = p
    BY <1>2, <1>3, <2>2
  <2>3. CASE q # p /\ r # p
    BY <1>2, <2>3 DEF SharedByTwins
  <2> QED BY <2>1, <2>2, <2>3
<1>5. \A q \in Sources \ {p} : Good(dir, data, q) => Good(d, data, q)
  BY <1>2, SourceContent DEF Good
<1>6. ASSUME StampedIn(dir, data) PROVE StampedIn(d, data)
  <2> SUFFICES ASSUME NEW q \in Path, d[q] # None, data[d[q]].mtime # CopyTime
               PROVE  q \in Sources /\ Good(d, data, q) /\ ~Large(q)
    BY DEF StampedIn
  <2>1. CASE q = p
    <3>1. Good(dir, data, c) /\ ~Large(c)
      BY <1>1, <1>2, <1>6, <2>1 DEF StampedIn
    <3> QED BY <1>1, <1>2, <2>1, <3>1, TwinsAgree DEF Good
  <2>2. CASE q # p
    BY <1>2, <1>5, <1>6, <2>2 DEF StampedIn
  <2> QED BY <2>1, <2>2
<1>7. ASSUME NEW m, SoundIn(m, dir, data), m[p] = None PROVE SoundIn(m, d, data)
  <2> SUFFICES ASSUME NEW r \in Path, m[r] # None
               PROVE  \/ Good(d, data, r)
                      \/ Large(r) /\ \E q \in Sources : m[q] = None /\ d[q] = d[r] /\ d[r] # None
    BY <1>7 DEF SoundIn
  <2>1. r # p /\ r \in Sources /\ d[r] = dir[r]
    BY <1>2, <1>7 DEF SoundIn
  <2>2. CASE Good(dir, data, r)
    BY <1>5, <2>1, <2>2
  <2>3. CASE ~Good(dir, data, r)
    <3>1. PICK q \in Sources : m[q] = None /\ dir[q] = dir[r] /\ dir[r] # None /\ Large(r)
      BY <1>7, <2>3 DEF SoundIn
    <3>2. q # p /\ q \in Path
      BY <3>1, SourceContent
    <3> QED BY <1>2, <2>1, <3>1, <3>2
  <2> QED BY <2>2, <2>3
<1> QED BY <1>4, <1>5, <1>6, <1>7

\* It is listed: whole as the canonical copy is, or cut as it is.
LEMMA LinkedIsSound ==
  ASSUME TypeOK, NoSymlinks, SharedByTwins,
         NEW p, NEW c, Twins(p, c), p # c, dir[p] = None, dir[c] # None,
         NEW d, d = [dir EXCEPT ![p] = dir[c]]
  PROVE  \A m, m2 :
           /\ SoundIn(m, dir, data) /\ m[p] = None
           /\ m[c] # None \/ Large(c)
           /\ \A r \in Path \ {p} : m2[r] = m[r]
           /\ m2[p].size = SizeOf[src[p].content] /\ m2[p].hash \in {None, src[p].content}
           => SoundIn(m2, d, data)
<1> SUFFICES ASSUME NEW m, SoundIn(m, dir, data), m[p] = None, m[c] # None \/ Large(c),
                    NEW m2, \A r \in Path \ {p} : m2[r] = m[r],
                    m2[p].size = SizeOf[src[p].content],
                    m2[p].hash \in {None, src[p].content}
             PROVE  SoundIn(m2, d, data)
  OBVIOUS
<1>1. p \in Sources /\ c \in Sources /\ p \in Path /\ c \in Path
  BY TwinsAgree, SourceContent
<1>2. d[p] = dir[c] /\ \A q \in Path \ {p} : d[q] = dir[q]
  BY <1>1 DEF TypeOK
<1>3. SoundIn(m, d, data)
  BY LinkedFiles
<1> SUFFICES ASSUME NEW r \in Path, m2[r] # None
             PROVE  /\ r \in Sources
                    /\ m2[r].size = SizeOf[src[r].content] /\ m2[r].hash \in {None, src[r].content}
                    /\ \/ Good(d, data, r)
                       \/ Large(r) /\ \E q \in Sources : m2[q] = None /\ d[q] = d[r] /\ d[r] # None
  BY DEF SoundIn
<1>4. CASE r = p
  <2>1. CASE Good(dir, data, c)
    BY <1>1, <1>2, <1>4, <2>1, TwinsAgree DEF Good
  <2>2. CASE ~Good(dir, data, c) /\ m[c] = None
    BY <1>1, <1>2, <1>4, <2>2, TwinsAgree
  <2>3. CASE ~Good(dir, data, c) /\ m[c] # None
    <3>1. PICK q \in Sources : m[q] = None /\ dir[q] = dir[c] /\ Large(c)
      BY <1>1, <2>3 DEF SoundIn
    <3>2. q # p /\ q \in Path
      BY <3>1, SourceContent
    <3> QED BY <1>1, <1>2, <1>4, <3>1, <3>2, TwinsAgree
  <2> QED BY <2>1, <2>2, <2>3
<1>5. CASE r # p
  <2>1. m[r] # None /\ m2[r] = m[r]
    BY <1>5
  <2>2. CASE Good(d, data, r)
    BY <1>3, <2>1, <2>2 DEF SoundIn
  <2>3. CASE ~Good(d, data, r)
    <3>1. PICK q \in Sources : m[q] = None /\ d[q] = d[r] /\ d[r] # None /\ Large(r)
      BY <1>3, <2>1, <2>3 DEF SoundIn
    <3>2. d[r] = dir[r] /\ r \in Sources
      BY <1>2, <1>3, <1>5, <2>1 DEF SoundIn
    <3>3. CASE q # p
      BY <1>3, <2>1, <3>1, <3>3, SourceContent DEF SoundIn
    <3>4. CASE q = p
      \* p has the inode of c only now, so r shared it with c before.
      <4>1. dir[r] = dir[c]
        BY <1>2, <3>1, <3>2, <3>4
      <4>2. r = c \/ Twins(r, c)
        BY <1>1, <3>2, <4>1 DEF SharedByTwins
      <4>3. ~Good(dir, data, r)
        BY <1>2, <1>5, <2>3 DEF Good
      <4>4. PICK z \in Sources : m[z] = None /\ dir[z] = dir[r] /\ dir[r] # None
        BY <2>1, <4>3 DEF SoundIn
      <4>5. z # p /\ z \in Path
        BY <4>4, SourceContent
      <4> QED BY <1>2, <1>3, <2>1, <3>1, <3>2, <4>4, <4>5 DEF SoundIn
    <3> QED BY <3>3, <3>4
  <2> QED BY <2>2, <2>3
<1> QED BY <1>4, <1>5

\* Whole small files are listed.
LEMMA ListedSmall ==
  ASSUME TypeOK, NoSymlinks, SharedByTwins,
         NEW S \in SUBSET Sources, \A p \in S : Good(dir, data, p) /\ ~Large(p),
         NEW m, SoundIn(m, dir, data),
         NEW m2, \A r \in Path \ S : m2[r] = m[r],
         \A p \in S : /\ m2[p].size = SizeOf[src[p].content]
                      /\ m2[p].hash \in {None, src[p].content}
  PROVE  SoundIn(m2, dir, data)
<1> SUFFICES ASSUME NEW r \in Path, m2[r] # None, r \notin S
             PROVE  \/ Good(dir, data, r)
                    \/ Large(r) /\ \E q \in Sources : m2[q] = None /\ dir[q] = dir[r] /\ dir[r] # None
  BY DEF SoundIn
<1>1. m[r] # None
  OBVIOUS
<1>2. CASE ~Good(dir, data, r)
  <2>1. PICK q \in Sources : m[q] = None /\ dir[q] = dir[r] /\ dir[r] # None /\ Large(r)
    BY <1>1, <1>2 DEF SoundIn
  <2>2. q # r => Twins(q, r)
    BY <2>1, SourceContent DEF SharedByTwins
  <2>3. q \notin S
    BY <2>1, <2>2, TwinsAgree
  <2> QED BY <2>1, <2>3, SourceContent
<1> QED BY <1>2

-----------------------------------------------------------------------------
(* The mirror: the steps of the engine                                      *)

\* The part of MirrorInv that is about files and manifests.
FilesMirror ==
  /\ NoSymlinks
  /\ MaxEdits = 0 => \A p \in Path : dir[p] # None => p \in Sources
  /\ SharedByTwins /\ ManifestSound /\ StampedIsWhole /\ LeftOutIsWhole

\* The engine at work in a run that keeps the mirror.
Copying ==
  /\ MirrorAssumption /\ PipelineInv /\ stage = "copy"
  /\ FilesMirror /\ WritingSound /\ NothingForgotten

LEMMA EngineErrors == ASSUME EngineStep PROVE errors \subseteq errors'
BY DEF EngineStep, Phase1Step, SkipCompleted, ParentDirFails, PutAside, LargeOpenFails,
       LargeStart, UnpackStart, LargeDone, LargeFails, EndOfPhase1, Pack, UnpackDone,
       UnpackFails, UnpackEnds, MarkSmall, Phase2Step, Clone, HardLink, HardLinkFails,
       Symlink, FallbackStart, FallbackDone, FallbackFails, EndOfPhase2, Save, SaveFails,
       Linked, Fail

LEMMA Entries ==
  ASSUME Copying
  PROVE  \A p \in plan.entries :
           /\ p \in Sources /\ p \in Path /\ plan.seen[p] = src[p].content
           /\ IsSmall(p) <=> ~Large(p)
           /\ EntryFor(p).size = SizeOf[src[p].content]
           /\ EntryFor(p).hash \in {None, src[p].content}
<1> SUFFICES ASSUME NEW p \in plan.entries
             PROVE  /\ p \in Sources /\ p \in Path /\ plan.seen[p] = src[p].content
                    /\ IsSmall(p) <=> ~Large(p)
                    /\ EntryFor(p).size = SizeOf[src[p].content]
                    /\ EntryFor(p).hash \in {None, src[p].content}
  OBVIOUS
<1>1. TypeOK /\ WellFormed(plan)
  BY DEF Copying, PipelineInv, PipelineTypeOK, TypeOK
<1>2. p \in Sources /\ plan.seen[p] = src[p].content
  BY DEF Copying, PipelineInv, StagesAgree, Planned
<1>3. p \in Path /\ src[p].content \in Content
  BY <1>1, <1>2, SourceContent
<1>4. SizeOf[src[p].content] \in Nat /\ Threshold \in Nat
  BY <1>3, SizeAssumption, EngineAssumption
<1>5. IsSmall(p) <=> ~Large(p)
  BY <1>2, <1>4 DEF IsSmall, Size, Large
<1>6. EntryFor(p).size = SizeOf[src[p].content] /\ EntryFor(p).hash \in {None, src[p].content}
  BY <1>1, <1>2, <1>3 DEF EntryFor, Size, WellFormed
<1> QED BY <1>2, <1>3, <1>5, <1>6

LEMMA CopyFacts ==
  ASSUME Copying
  PROVE  /\ TypeOK /\ ControlOK /\ NoSymlinks /\ SharedByTwins
         /\ Careful => Reliable
         /\ Reliable => SoundIn(mem, dir, data)
         /\ Careful => SoundIn(disk, dir, data) /\ StampedIn(dir, data)
         /\ Careful => \A p \in Path : mem[p] = None => disk[p] = None
         /\ Reliable => \A p \in plan.entries : ~IsCompleted(p) => mem[p] = None
         /\ Careful => \A q \in Sources \ plan.entries : Good(dir, data, q) /\ ~Large(q)
<1>1. TypeOK /\ ControlOK /\ NoSymlinks /\ SharedByTwins
  BY DEF Copying, PipelineInv, PipelineTypeOK, StagesAgree, FilesMirror
<1>2. Careful => Reliable
  BY DEF Reliable
<1>3. /\ Reliable => Sound(mem)
      /\ Careful => Sound(disk)
      /\ Careful => \A p \in Path : mem[p] = None => disk[p] = None
  BY <1>2 DEF Copying, FilesMirror, ManifestSound, InRun
<1>4. Careful => StampedIn(dir, data)
  BY <1>1, StampedNow DEF Copying, FilesMirror
<1>5. ASSUME Reliable, NEW p \in plan.entries, ~IsCompleted(p) PROVE mem[p] = None
  <2>1. SUFFICES ASSUME mem[p] # None PROVE FALSE
    OBVIOUS
  <2>2. mem[p].size = SizeOf[src[p].content] /\ mem[p].hash \in {None, src[p].content}
    BY <1>3, <1>5, <2>1, Entries DEF Sound
  <2>3. Size(p) = SizeOf[src[p].content] /\ plan.hash[p] \in {None, src[p].content}
    BY Entries DEF EntryFor
  <2> QED BY <1>5, <2>1, <2>2, <2>3 DEF IsCompleted
<1>6. Careful => \A q \in Sources \ plan.entries : Good(dir, data, q) /\ ~Large(q)
  BY <1>1, FilesNow DEF Copying, FilesMirror, LeftOutIsWhole, Planned
<1> QED BY <1>1, <1>2, <1>3, <1>4, <1>5, <1>6, SoundNow

\* What a step of the engine has to show of the files and the manifests.
LEMMA FilesStep ==
  ASSUME Copying, EngineStep, UNCHANGED pipelineVars, TypeOK', NoSymlinks',
         SharedIn(dir'),
         MaxEdits = 0 => \A p \in Path : dir'[p] # None => p \in Sources,
         Careful => SoundIn(disk', dir', data') /\ StampedIn(dir', data'),
         Reliable' => SoundIn(mem', dir', data'),
         Careful => \A p \in Path : mem'[p] = None => disk'[p] = None,
         Careful => \A q \in Sources \ plan.entries : Good(dir', data', q)
  PROVE  FilesMirror'
<1>1. src' = src /\ plan' = plan
  BY EngineFrame
<1>2. args' = args /\ stage' = "copy" /\ changed' = changed /\ stage = "copy"
  BY DEF pipelineVars, Copying
<1>3. TypeOK
  BY CopyFacts
<1>4. SharedByTwins'
  BY <1>1, <1>3, FilesNext DEF SharedByTwins, SharedIn
<1>5. StampedIsWhole'
  BY <1>1, <1>3, StampedNext DEF StampedIsWhole, Careful
<1>6. ManifestSound'
  <2>1. Careful' = Careful
    BY DEF Careful
  <2>2. Sound(disk)' <=> SoundIn(disk', dir', data')
    BY <1>1, <1>3, SoundNext
  <2>3. Sound(mem)' <=> SoundIn(mem', dir', data')
    BY <1>1, <1>3, SoundNext
  <2> QED BY <2>1, <2>2, <2>3 DEF ManifestSound
<1>7. LeftOutIsWhole'
  <2>1. LeftOutIsWhole
    BY DEF Copying, FilesMirror
  <2>2. Duplicates' = Duplicates /\ Careful' = Careful
    BY <1>1 DEF Duplicates, IsDuplicate, Careful
  <2>3. /\ \A q \in Sources \ plan.entries : ~args.force /\ (Careful => Whole(q) /\ ~Large(q))
        /\ args.noDedup => Duplicates = {}
    BY <1>2, <2>1 DEF LeftOutIsWhole, Planned
  <2>4. \A q \in Sources : (Whole(q)' <=> Good(dir', data', q)) /\ Large(q)' = Large(q)
    BY <1>1, <1>3, FilesNext, SourceContent
  <2>5. Sources' = Sources
    BY <1>1, <1>3, FilesNext
  <2> QED BY <1>1, <1>2, <2>2, <2>3, <2>4, <2>5 DEF LeftOutIsWhole, Planned
<1>8. MaxEdits = 0 => \A p \in Path : dir'[p] # None => p \in Sources'
  BY <1>1, <1>3, FilesNext
<1> QED BY <1>4, <1>5, <1>6, <1>7, <1>8 DEF FilesMirror

\* Steps that write no file and list no entry.
LEMMA QuietFiles ==
  ASSUME Copying, EngineStep, UNCHANGED pipelineVars, TypeOK', UNCHANGED <<dir, data>>,
         mem' = mem, disk' = disk \/ disk' = mem
  PROVE  FilesMirror'
<1>1. Reliable' => Reliable
  BY EngineErrors DEF Reliable, Careful, pipelineVars
<1>2. NoSymlinks'
  BY CopyFacts DEF NoSymlinks
<1>3. SharedIn(dir') /\ (MaxEdits = 0 => \A p \in Path : dir'[p] # None => p \in Sources)
  BY DEF Copying, FilesMirror, SharedByTwins, SharedIn
<1>4. Careful => SoundIn(disk', dir', data') /\ StampedIn(dir', data')
  BY CopyFacts
<1>5. Reliable' => SoundIn(mem', dir', data')
  BY <1>1, CopyFacts
<1>6. Careful => \A p \in Path : mem'[p] = None => disk'[p] = None
  BY CopyFacts
<1>7. Careful => \A q \in Sources \ plan.entries : Good(dir', data', q)
  BY CopyFacts
<1> QED BY <1>2, <1>3, <1>4, <1>5, <1>6, <1>7, FilesStep

\* What the engine is in the middle of, entry by entry.
Listed(p)    == mem[p] # None
Waiting(p)   == p \in todo \cup batch \cup {cur}
GivenUp(p)   == errors # {} /\ ~(Careful /\ IsSmall(p))
InHand(p)    == /\ mem[p] = None
                /\ IF archive[p] # None THEN archive[p] = src[p]
                   ELSE pc \in {"unpack", "mark"} => Good(dir, data, p)

LEMMA WorkNow ==
  ASSUME Copying
  PROVE  /\ pc = "large" => dir[cur] # None
         /\ pc # "fallback"
         /\ pc = "unpack" /\ cur # None =>
              dir[cur] # None /\ \A q \in Path \ {cur} : dir[q] # dir[cur]
         /\ Reliable => \A p \in batch : InHand(p)
         /\ \A p \in Canonicals : Waiting(p) \/ Listed(p) \/ GivenUp(p)
         /\ pc \in {"link", "saveLink", "done"} =>
              \A p \in Duplicates : p \in todo \/ Listed(p) \/ errors # {}
<1>1. \A p \in batch : p \in Sources
  BY Entries, CopyFacts DEF TypeOK
<1>2. Reliable => \A p \in batch : InHand(p)
  BY <1>1, CopyFacts, FilesNow DEF Copying, WritingSound, InHand
<1>3. \A p \in Canonicals : Waiting(p) \/ Listed(p) \/ GivenUp(p)
  BY DEF Copying, NothingForgotten, Waiting, Listed, GivenUp
<1> QED BY <1>2, <1>3 DEF Copying, NothingForgotten, WritingSound, Listed

\* What a step of the engine has to show of its own state.
LEMMA WorkStep ==
  ASSUME Copying, EngineStep, UNCHANGED pipelineVars, TypeOK', FilesMirror',
         pc' = "large" => dir'[cur'] # None,
         pc' # "fallback",
         pc' = "unpack" /\ cur' # None =>
           dir'[cur'] # None /\ \A q \in Path \ {cur'} : dir'[q] # dir'[cur'],
         Reliable' => \A p \in batch' : InHand(p)',
         \A p \in Canonicals : Waiting(p)' \/ Listed(p)' \/ GivenUp(p)',
         pc' \in {"link", "saveLink", "done"} =>
           \A p \in Duplicates : p \in todo' \/ Listed(p)' \/ errors' # {}
  PROVE  FilesMirror' /\ WritingSound' /\ NothingForgotten'
<1>1. src' = src /\ plan' = plan
  BY EngineFrame
<1>2. Canonicals' = Canonicals /\ Duplicates' = Duplicates
  BY <1>1 DEF Canonicals, Duplicates, IsDuplicate
<1>3. \A p \in batch' : p \in Sources
  BY <1>1, Entries DEF TypeOK
<1>4. Reliable' => \A p \in batch' : Whole(p)' <=> Good(dir', data', p)
  BY <1>1, <1>3, CopyFacts, FilesNext DEF FilesMirror
<1>5. WritingSound'
  <2>1. ASSUME Reliable', NEW p \in batch'
        PROVE  /\ mem'[p] = None
               /\ IF archive'[p] # None THEN archive'[p] = src'[p]
                  ELSE pc' \in {"unpack", "mark"} => Whole(p)'
    <3>1. InHand(p)' /\ (Whole(p)' <=> Good(dir', data', p))
      BY <1>4, <2>1
    <3>2. Good(dir, data, p)' <=> Good(dir', data', p)
      BY <1>1 DEF Good
    <3> QED BY <3>1, <3>2 DEF InHand
  <2> QED BY <2>1 DEF WritingSound
<1>6. NothingForgotten'
  BY <1>2 DEF NothingForgotten, Waiting, Listed, GivenUp
<1> QED BY <1>5, <1>6

LEMMA QuietPhase1 ==
  ASSUME Copying, EngineStep, UNCHANGED pipelineVars, TypeOK',
         \/ \E p \in Path : SkipCompleted(p) \/ ParentDirFails(p) \/ PutAside(p) \/ LargeOpenFails(p)
         \/ LargeFails \/ EndOfPhase1
  PROVE  FilesMirror' /\ WritingSound' /\ NothingForgotten'
<1> USE NoneAssumption
<1>1. /\ UNCHANGED <<src, dir, data, disk, mem, plan, archive>>
      /\ pc \in {"copy", "link", "large"} /\ pc' \in {"copy", "link", "pack"}
      /\ pc \in {"copy", "link"} => cur = None
      /\ cur' = None
      /\ pc' = pc \/ (pc = "large" /\ pc' = "copy") \/ (pc = "copy" /\ todo = {})
  BY CopyFacts
     DEF ControlOK, SkipCompleted, ParentDirFails, PutAside, LargeOpenFails, LargeFails, EndOfPhase1
<1>2. FilesMirror'
  BY <1>1, QuietFiles
<1>3. \A p \in Path : archive[p] = None
  BY <1>1, CopyFacts DEF ControlOK
<1>4. Reliable' => Reliable
  BY EngineErrors DEF Reliable, Careful, pipelineVars
<1>5. ASSUME Reliable', NEW p \in batch' PROVE InHand(p)'
  <2>1. p \in plan.entries /\ p \in Path
    BY <1>1, Entries DEF TypeOK
  <2>2. p \in batch => mem[p] = None
    BY <1>4, <1>5, WorkNow DEF InHand
  <2>3. p \notin batch => ~IsCompleted(p)
    BY DEF SkipCompleted, ParentDirFails, PutAside, LargeOpenFails, LargeFails, EndOfPhase1
  <2>4. mem[p] = None
    BY <1>4, <1>5, <2>1, <2>2, <2>3, CopyFacts
  <2> QED BY <1>1, <1>3, <2>1, <2>4 DEF InHand
<1>6. ASSUME NEW p \in Canonicals PROVE Waiting(p)' \/ Listed(p)' \/ GivenUp(p)'
  <2>1. Waiting(p) \/ Listed(p) \/ GivenUp(p)
    BY WorkNow
  <2>2. p \in plan.entries /\ p \in Path /\ p # None
    BY CopyFacts, PlanType
  <2>3. IsSmall(p)' = IsSmall(p) /\ Careful' = Careful /\ errors \subseteq errors'
    BY <1>1, EngineErrors DEF IsSmall, Size, Careful
  <2>4. Listed(p) => Listed(p)'
    BY <1>1 DEF Listed
  <2>5. GivenUp(p) => GivenUp(p)'
    BY <2>3 DEF GivenUp
  <2>6. ASSUME Waiting(p) PROVE Waiting(p)' \/ Listed(p)' \/ GivenUp(p)'
    <3>1. ASSUME NEW q \in Path, SkipCompleted(q) PROVE Waiting(p)' \/ Listed(p)'
      BY <2>6, <3>1 DEF SkipCompleted, IsCompleted, Waiting, Listed
    <3>2. ASSUME NEW q \in Path, ParentDirFails(q) PROVE Waiting(p)' \/ GivenUp(p)'
      <4>1. ~Careful
        BY <3>2 DEF ParentDirFails, Careful
      <4> QED BY <2>3, <2>6, <3>2, <4>1 DEF ParentDirFails, Fail, Waiting, GivenUp
    <3>3. ASSUME NEW q \in Path, PutAside(q) PROVE Waiting(p)'
      BY <2>6, <3>3 DEF PutAside, Waiting
    <3>4. ASSUME NEW q \in Path, LargeOpenFails(q) PROVE Waiting(p)' \/ GivenUp(p)'
      BY <2>3, <2>6, <3>4 DEF LargeOpenFails, Fail, Waiting, GivenUp
    <3>5. ASSUME LargeFails PROVE Waiting(p)' \/ GivenUp(p)'
      <4>1. ~IsSmall(cur)
        BY <3>5, CopyFacts DEF LargeFails, ControlOK
      <4> QED BY <2>3, <2>6, <3>5, <4>1 DEF LargeFails, Fail, Waiting, GivenUp
    <3>6. ASSUME EndOfPhase1 PROVE Waiting(p)'
      BY <1>1, <2>2, <2>6, <3>6 DEF EndOfPhase1, Waiting
    <3> QED BY <3>1, <3>2, <3>3, <3>4, <3>5, <3>6
  <2> QED BY <2>1, <2>4, <2>5, <2>6
<1>7. ASSUME pc' \in {"link", "saveLink", "done"}, NEW p \in Duplicates
      PROVE  p \in todo' \/ Listed(p)' \/ errors' # {}
  <2>1. CASE EndOfPhase1
    BY <1>1, <1>7, <2>1 DEF EndOfPhase1
  <2>2. CASE ~EndOfPhase1
    <3>1. PICK q \in Path : SkipCompleted(q) \/ ParentDirFails(q) \/ PutAside(q) \/ LargeOpenFails(q)
      BY <1>7, <2>2 DEF LargeFails
    <3>2. pc = "link"
      BY <1>7, <3>1 DEF SkipCompleted, ParentDirFails, PutAside, LargeOpenFails
    <3>3. p \in todo \/ Listed(p) \/ errors # {}
      BY <3>2, WorkNow
    <3>4. Listed(p)' = Listed(p) /\ errors \subseteq errors'
      BY <1>1, EngineErrors DEF Listed
    <3>5. p \in todo => p \in todo' \/ Listed(p) \/ errors' # {}
      <4>1. CASE SkipCompleted(q)
        BY <4>1 DEF SkipCompleted, Listed, IsCompleted
      <4>2. CASE ParentDirFails(q)
        <5>1. q \in errors'
          BY <4>2 DEF ParentDirFails, Fail
        <5> QED BY <5>1
      <4>3. CASE PutAside(q) \/ LargeOpenFails(q)
        BY <3>2, <4>3 DEF PutAside, LargeOpenFails
      <4> QED BY <3>1, <4>1, <4>2, <4>3
    <3> QED BY <3>3, <3>4, <3>5
  <2> QED BY <2>1, <2>2
<1> QED
  BY <1>1, <1>2, <1>5, <1>6, <1>7, WorkStep

LEMMA QuietPhase2 ==
  ASSUME Copying, EngineStep, UNCHANGED pipelineVars, TypeOK',
         \/ \E p \in Path : HardLinkFails(p)
         \/ EndOfPhase2 \/ Save \/ SaveFails
  PROVE  FilesMirror' /\ WritingSound' /\ NothingForgotten'
<1> USE NoneAssumption
<1>1. UNCHANGED <<src, data, dir, mem, plan, batch, archive, cur>>
  <2>1. ASSUME NEW p \in Path, HardLinkFails(p) PROVE dir' = dir /\ data' = data
    BY <2>1 DEF HardLinkFails, NameAtLink, DataAtLink, CloneTried, Copying, MirrorAssumption
  <2> QED BY <2>1 DEF HardLinkFails, EndOfPhase2, Save, SaveFails
<1>2. FilesMirror'
  <2>1. disk' = disk \/ disk' = mem
    BY EngineFrame
  <2> QED BY <1>1, <2>1, QuietFiles
<1>3. /\ pc \in {"link", "saveLarge", "saveSmall", "saveLink"}
      /\ pc' \in {"link", "copy", "done"} /\ (pc' = "copy" => pc = "saveLarge")
      /\ cur = None /\ \A p \in Path : archive[p] = None
  BY CopyFacts DEF ControlOK, HardLinkFails, AtDuplicate, EndOfPhase2, Save, SaveFails, AfterSave
<1>4. Reliable' => Reliable
  BY EngineErrors DEF Reliable, Careful, pipelineVars
<1>5. ASSUME Reliable', NEW p \in batch' PROVE InHand(p)'
  <2>1. InHand(p) /\ p \in Path
    BY <1>1, <1>4, <1>5, WorkNow, Entries, CopyFacts DEF TypeOK
  <2> QED BY <1>1, <1>3, <2>1 DEF InHand
<1>6. \A p \in Path : Listed(p)' = Listed(p)
  BY <1>1 DEF Listed
<1>7. ASSUME NEW p \in Canonicals PROVE Waiting(p)' \/ Listed(p)' \/ GivenUp(p)'
  <2>1. Waiting(p) \/ Listed(p) \/ GivenUp(p)
    BY WorkNow
  <2>2. p \in plan.entries /\ p \in Path /\ p # None /\ p \notin Duplicates
    BY CopyFacts, PlanType DEF Canonicals, Duplicates
  <2>3. IsSmall(p)' = IsSmall(p) /\ Careful' = Careful /\ errors \subseteq errors'
    BY <1>1, EngineErrors DEF IsSmall, Size, Careful
  <2>4. GivenUp(p) => GivenUp(p)'
    BY <2>3 DEF GivenUp
  <2>5. CASE pc = "saveLarge"
    <3>1. todo' = todo
      BY <2>5 DEF Save, SaveFails, LinkWork, HardLinkFails, AtDuplicate, EndOfPhase2
    <3> QED BY <1>1, <1>6, <2>1, <2>2, <2>4, <3>1 DEF Waiting
  <2>6. CASE pc # "saveLarge"
    <3>1. p \notin todo /\ batch = {}
      BY <1>3, <2>2, <2>6, CopyFacts DEF ControlOK
    <3> QED BY <1>3, <1>6, <2>1, <2>2, <2>4, <3>1 DEF Waiting
  <2> QED BY <2>5, <2>6
<1>8. ASSUME pc' \in {"link", "saveLink", "done"}, NEW p \in Duplicates
      PROVE  p \in todo' \/ Listed(p)' \/ errors' # {}
  <2>1. CASE pc = "saveSmall"
    BY <2>1 DEF Save, SaveFails, LinkWork, HardLinkFails, AtDuplicate, EndOfPhase2
  <2>2. CASE pc \in {"link", "saveLink"}
    <3>1. p \in todo \/ Listed(p) \/ errors # {}
      BY <2>2, WorkNow
    <3>2. p \in Path /\ errors \subseteq errors'
      BY CopyFacts, PlanType, EngineErrors
    <3>3. ASSUME NEW q \in Path, HardLinkFails(q) PROVE q \in errors'
      BY <3>3 DEF HardLinkFails, Fail
    <3>4. p \in todo => p \in todo' \/ errors' # {}
      <4>1. CASE Save \/ SaveFails
        BY <2>2, <4>1 DEF Save, SaveFails, LinkWork
      <4>2. CASE EndOfPhase2
        BY <4>2 DEF EndOfPhase2
      <4> QED BY <3>3, <4>1, <4>2
    <3> QED BY <1>6, <3>1, <3>2, <3>4
  <2> QED BY <1>3, <1>8, <2>1, <2>2 DEF Save, SaveFails, AfterSave, HardLinkFails, EndOfPhase2, AtDuplicate
<1> QED
  BY <1>1, <1>2, <1>3, <1>5, <1>7, <1>8, WorkStep

LEMMA QuietArchive ==
  ASSUME Copying, EngineStep, UNCHANGED pipelineVars, TypeOK',
         Pack \/ UnpackFails \/ UnpackEnds
  PROVE  FilesMirror' /\ WritingSound' /\ NothingForgotten'
<1> USE NoneAssumption
<1>1. /\ UNCHANGED <<src, data, dir, disk, mem, plan, batch, todo>>
      /\ pc \in {"pack", "unpack"} /\ pc' \in {"unpack", "mark"}
  BY DEF Pack, UnpackFails, UnpackEnds
<1>2. FilesMirror'
  BY <1>1, QuietFiles
<1>3. pc' = "unpack" => cur' = None
  BY CopyFacts DEF Pack, UnpackFails, UnpackEnds, ControlOK
<1>4. Reliable' => Reliable
  BY EngineErrors DEF Reliable, Careful, pipelineVars
<1>5. \A p \in batch : p \in plan.entries /\ p \in Path /\ p \in Sources /\ src[p].content # Torn
  BY <1>1, Entries, CopyFacts, SourceContent, EngineAssumption DEF TypeOK
<1>6. ASSUME Reliable', NEW p \in batch' PROVE InHand(p)'
  <2>1. p \in batch /\ InHand(p)
    BY <1>1, <1>4, <1>6, WorkNow
  <2>2. CASE Pack
    <3>1. PICK lost, spoilt \in SUBSET batch :
            /\ "pack" \notin Faults => lost \cup spoilt = {}
            /\ archive' = [q \in Path |->
                 IF q \notin batch \ lost THEN None
                 ELSE IF q \in spoilt THEN [src[q] EXCEPT !.content = Torn]
                 ELSE src[q]]
            /\ errors' = errors \cup lost \cup spoilt
      BY <2>2 DEF Pack
    <3>2. lost = {} /\ spoilt = {}
      <4>1. CASE Careful
        BY <3>1, <4>1 DEF Careful
      <4>2. CASE errors' = {}
        BY <3>1, <4>2
      <4> QED BY <1>6, <4>1, <4>2 DEF Reliable, Careful
    <3>3. archive'[p] = src[p] /\ src[p] # None
      BY <1>5, <2>1, <3>1, <3>2 DEF Sources
    <3> QED BY <1>1, <2>1, <3>3 DEF InHand
  <2>3. CASE UnpackFails
    <3>1. errors' = {} => archive[p] = None
      BY <1>5, <2>1, <2>3 DEF UnpackFails
    <3>2. Careful => FALSE
      <4>1. SUFFICES ASSUME Careful PROVE FALSE
        OBVIOUS
      <4>2. PICK q \in Path : archive[q] # None /\ archive[q].content = Torn
        BY <2>3, <4>1 DEF UnpackFails, Careful
      <4>3. q \in batch
        BY <4>2, CopyFacts DEF ControlOK
      <4>4. archive[q] = src[q]
        BY <4>1, <4>2, <4>3, CopyFacts, WorkNow DEF InHand
      <4> QED BY <1>5, <4>2, <4>3, <4>4
    <3>3. archive[p] = None
      BY <1>6, <3>1, <3>2 DEF Reliable, Careful
    <3>4. archive'[p] = None /\ pc = "unpack" /\ pc' = "mark"
      BY <1>5, <2>1, <2>3 DEF UnpackFails, EmptyArchive
    <3> QED BY <1>1, <2>1, <3>3, <3>4 DEF InHand, Good
  <2>4. CASE UnpackEnds
    BY <1>1, <2>1, <2>4 DEF UnpackEnds, InHand, Good
  <2> QED BY <2>2, <2>3, <2>4
<1>7. ASSUME NEW p \in Canonicals PROVE Waiting(p)' \/ Listed(p)' \/ GivenUp(p)'
  <2>1. Waiting(p) \/ Listed(p) \/ GivenUp(p)
    BY WorkNow
  <2>2. p \in Path /\ IsSmall(p)' = IsSmall(p) /\ Careful' = Careful /\ errors \subseteq errors'
    BY <1>1, EngineErrors, CopyFacts, PlanType DEF IsSmall, Size, Careful
  <2>3. p = cur => p \in batch
    BY <1>1, <2>2, CopyFacts DEF ControlOK
  <2>4. GivenUp(p) => GivenUp(p)'
    BY <2>2 DEF GivenUp
  <2> QED BY <1>1, <2>1, <2>3, <2>4 DEF Waiting, Listed
<1> QED
  BY <1>1, <1>2, <1>3, <1>6, <1>7, WorkStep

LEMMA NoneIsNoEntry ==
  ASSUME TypeOK, NEW p \in plan.entries
  PROVE  EntryFor(p) # None
<1>1. EntryFor(p) \in ManifestEntry
  BY SizeAssumption DEF EntryFor, ManifestEntry, Size, TypeOK, WellFormed, PlanRecord
<1> QED BY <1>1, EngineAssumption

\* A file of the plan that was not copied is started: it is truncated in place
\* under all its names, or made.
LEMMA LargeStartMirror ==
  ASSUME Copying, EngineStep, UNCHANGED pipelineVars, TypeOK', NEW p \in Path, LargeStart(p)
  PROVE  FilesMirror' /\ WritingSound' /\ NothingForgotten'
<1> USE NoneAssumption
<1>1. /\ pc = "copy" /\ p \in todo /\ ~IsCompleted(p) /\ ~IsSmall(p)
      /\ todo' = todo \ {p} /\ cur' = p /\ pc' = "large"
      /\ UNCHANGED <<src, disk, mem, plan, batch, archive, errors, runs>>
      /\ Create(p)
  BY DEF LargeStart, Copying, MirrorAssumption
<1>2. /\ TypeOK /\ NoSymlinks /\ SharedByTwins /\ cur = None
      /\ p \in plan.entries /\ p \in Sources /\ Large(p)
  <2>1. TypeOK /\ NoSymlinks /\ SharedByTwins /\ ControlOK
    BY CopyFacts
  <2>2. p \in plan.entries /\ cur = None
    BY <1>1, <2>1 DEF TypeOK, ControlOK
  <2> QED BY <1>1, <2>1, <2>2, Entries
<1>3. /\ Reliable' => Reliable /\ mem[p] = None
      /\ Careful => mem[p] = None /\ disk[p] = None
  <2>1. Reliable' => Reliable
    BY EngineErrors DEF Reliable, Careful, pipelineVars
  <2> QED BY <1>1, <1>2, <2>1, CopyFacts
<1>4. /\ NoSymlinks' /\ SharedIn(dir') /\ dir'[p] # None
      /\ MaxEdits = 0 => \A q \in Path : dir'[q] # None => q \in Sources
      /\ Careful => SoundIn(disk', dir', data') /\ StampedIn(dir', data')
      /\ Reliable' => SoundIn(mem', dir', data')
      /\ Careful => \A q \in Sources \ plan.entries : Good(dir', data', q)
  <2>1. CASE dir[p] # None
    <3>1. data' = [data EXCEPT ![dir[p]] = TornNow] /\ dir' = dir
      BY <1>1, <1>2, <2>1, FilesNow DEF Create
    <3>2. NoSymlinks' /\ SharedIn(dir') /\ dir'[p] # None
      BY <1>2, <2>1, <3>1 DEF NoSymlinks, SharedByTwins, SharedIn
    <3>3. MaxEdits = 0 => \A q \in Path : dir'[q] # None => q \in Sources
      BY <3>1 DEF Copying, FilesMirror
    <3>4. \A m : SoundIn(m, dir, data) /\ m[p] = None => SoundIn(m, dir', data')
      BY <1>2, <2>1, <3>1, Truncated
    <3>5. /\ StampedIn(dir, data) => StampedIn(dir', data')
          /\ \A q \in Sources : Good(dir, data, q) /\ ~Large(q) => Good(dir', data', q)
      <4>1. TornNow \in InodeData /\ TornNow.mtime = CopyTime
        BY WrittenType DEF TornNow
      <4> QED BY <1>2, <2>1, <3>1, <4>1, TruncatedRest
    <3> QED BY <1>1, <1>3, <3>2, <3>3, <3>4, <3>5, CopyFacts
  <2>2. CASE dir[p] = None
    <3>1. PICK i \in FreeFor(p) : /\ dir' = [dir EXCEPT ![p] = i]
                                  /\ data' = [data EXCEPT ![i] = TornNow]
      BY <1>1, <1>2, <2>2, FilesNow DEF Create
    <3>2. i \in Inode /\ i # None /\ i \notin Path /\ p \in Path
      BY EngineAssumption DEF FreeFor
    <3>3. NoSymlinks' /\ dir'[p] # None
      BY <1>2, <3>1, <3>2 DEF NoSymlinks, TypeOK
    <3>4. MaxEdits = 0 => \A q \in Path : dir'[q] # None => q \in Sources
      BY <1>2, <3>1 DEF Copying, FilesMirror, TypeOK
    <3>5. /\ SharedIn(dir')
          /\ StampedIn(dir, data) => StampedIn(dir', data')
          /\ \A q \in Sources \ {p} : Good(dir, data, q) => Good(dir', data', q)
          /\ \A m : SoundIn(m, dir, data) /\ m[p] = None => SoundIn(m, dir', data')
      BY <1>2, <2>2, <3>1, Renewed
    <3> QED BY <1>1, <1>2, <1>3, <3>3, <3>4, <3>5, CopyFacts
  <2> QED BY <2>1, <2>2
<1>5. FilesMirror'
  BY <1>1, <1>4, CopyFacts, FilesStep
<1>6. ASSUME Reliable', NEW q \in batch' PROVE InHand(q)'
  <2>1. InHand(q) /\ q \in Path /\ archive[q] = None
    BY <1>1, <1>2, <1>3, <1>6, WorkNow, CopyFacts, Entries DEF ControlOK, TypeOK
  <2> QED BY <1>1, <2>1 DEF InHand
<1>7. ASSUME NEW q \in Canonicals PROVE Waiting(q)' \/ Listed(q)' \/ GivenUp(q)'
  <2>1. Waiting(q) \/ Listed(q) \/ GivenUp(q)
    BY WorkNow
  <2>2. q \in Path /\ IsSmall(q)' = IsSmall(q) /\ Careful' = Careful
    BY <1>1, CopyFacts, PlanType DEF IsSmall, Size, Careful
  <2> QED BY <1>1, <1>2, <2>1, <2>2 DEF Waiting, Listed, GivenUp
<1> QED
  BY <1>1, <1>4, <1>5, <1>6, <1>7, WorkStep

\* The last byte is written and the file listed.
LEMMA LargeDoneMirror ==
  ASSUME Copying, EngineStep, UNCHANGED pipelineVars, TypeOK', LargeDone
  PROVE  FilesMirror' /\ WritingSound' /\ NothingForgotten'
<1> USE NoneAssumption
<1>1. /\ pc = "large" /\ cur' = None /\ pc' = "saveLarge"
      /\ data' = [data EXCEPT ![dir[Target(cur)]] = Written(src[cur].content)]
      /\ mem' = Mark(mem, {cur})
      /\ UNCHANGED <<src, dir, disk, plan, todo, batch, archive, errors, runs>>
  BY DEF LargeDone
<1>2. /\ TypeOK /\ NoSymlinks /\ SharedByTwins
      /\ cur \in plan.entries /\ cur \in Sources /\ Large(cur) /\ ~IsSmall(cur)
      /\ cur \in Path /\ dir[cur] # None /\ Target(cur) = cur
  <2>1. TypeOK /\ NoSymlinks /\ SharedByTwins /\ ControlOK
    BY CopyFacts
  <2>2. cur \in plan.entries /\ ~IsSmall(cur)
    BY <1>1, <2>1, PlanType DEF ControlOK
  <2>3. dir[cur] # None
    BY <1>1, WorkNow
  <2> QED BY <2>1, <2>2, <2>3, Entries, FilesNow
<1>3. data' = [data EXCEPT ![dir[cur]] = Written(src[cur].content)]
  BY <1>1, <1>2
<1>4. /\ \A r \in Path \ {cur} : mem'[r] = mem[r]
      /\ mem'[cur] = EntryFor(cur) /\ mem'[cur] # None
      /\ mem'[cur].size = SizeOf[src[cur].content]
      /\ mem'[cur].hash \in {None, src[cur].content}
  <2>1. mem'[cur] = EntryFor(cur)
    BY <1>1, <1>2 DEF Mark
  <2>2. mem'[cur].size = SizeOf[src[cur].content] /\ mem'[cur].hash \in {None, src[cur].content}
    BY <1>2, <2>1, Entries
  <2>3. \A r \in Path \ {cur} : mem'[r] = mem[r]
    BY <1>1 DEF Mark
  <2>4. mem'[cur] # None
    BY <1>2, <2>1, NoneIsNoEntry DEF TypeOK
  <2> QED BY <2>1, <2>2, <2>3, <2>4
<1>5. Reliable' => Reliable
  BY EngineErrors DEF Reliable, Careful, pipelineVars
<1>6. Reliable' => SoundIn(mem', dir', data')
  <2>1. ASSUME SoundIn(mem, dir, data) PROVE SoundIn(mem', dir, data')
    BY <1>2, <1>3, <1>4, <2>1, Completed
  <2> QED BY <1>1, <1>5, <2>1, CopyFacts
<1>7. Careful => SoundIn(disk', dir', data')
  <2>1. ASSUME SoundIn(disk, dir, data) PROVE SoundIn(disk, dir, data')
    <3>1. disk[cur] # None => /\ disk[cur].size = SizeOf[src[cur].content]
                              /\ disk[cur].hash \in {None, src[cur].content}
      BY <1>2, <2>1 DEF SoundIn
    <3> QED BY <1>2, <1>3, <2>1, <3>1, Completed
  <2> QED BY <1>1, <2>1, CopyFacts
<1>8. /\ StampedIn(dir, data) => StampedIn(dir, data')
      /\ \A q \in Sources : Good(dir, data, q) /\ ~Large(q) => Good(dir, data', q)
  <2>1. /\ Written(src[cur].content) \in InodeData
        /\ Written(src[cur].content).mtime = CopyTime
    BY <1>2, SourceContent, WrittenType DEF Written
  <2> QED BY <1>2, <1>3, <2>1, TruncatedRest
<1>9. FilesMirror'
  <2>1. NoSymlinks' /\ SharedIn(dir')
    BY <1>1, <1>2 DEF NoSymlinks, SharedByTwins, SharedIn
  <2>2. MaxEdits = 0 => \A q \in Path : dir'[q] # None => q \in Sources
    BY <1>1 DEF Copying, FilesMirror
  <2>3. Careful => \A q \in Path : mem'[q] = None => disk'[q] = None
    BY <1>1, <1>4, CopyFacts
  <2>4. Careful => StampedIn(dir', data') /\ \A q \in Sources \ plan.entries : Good(dir', data', q)
    BY <1>1, <1>8, CopyFacts
  <2> QED BY <1>6, <1>7, <2>1, <2>2, <2>3, <2>4, FilesStep
<1>10. ASSUME Reliable', NEW q \in batch' PROVE InHand(q)'
  <2>1. InHand(q) /\ q \in Path /\ IsSmall(q) /\ archive[q] = None
    BY <1>1, <1>5, <1>10, WorkNow, CopyFacts, Entries DEF ControlOK, TypeOK
  <2>2. q # cur
    BY <1>2, <2>1
  <2> QED BY <1>1, <1>4, <2>1, <2>2 DEF InHand
<1>11. ASSUME NEW q \in Canonicals PROVE Waiting(q)' \/ Listed(q)' \/ GivenUp(q)'
  <2>1. Waiting(q) \/ Listed(q) \/ GivenUp(q)
    BY WorkNow
  <2>2. q \in Path /\ IsSmall(q)' = IsSmall(q) /\ Careful' = Careful
    BY <1>1, <1>2, PlanType DEF IsSmall, Size, Careful
  <2> QED BY <1>1, <1>4, <2>1, <2>2 DEF Waiting, Listed, GivenUp
<1> QED
  BY <1>1, <1>9, <1>10, <1>11, WorkStep

\* A small file gets an inode of its own to be unpacked into.
LEMMA UnpackStartMirror ==
  ASSUME Copying, EngineStep, UNCHANGED pipelineVars, TypeOK', NEW p \in Path, UnpackStart(p)
  PROVE  FilesMirror' /\ WritingSound' /\ NothingForgotten'
<1> USE NoneAssumption
<1>1. /\ pc = "unpack" /\ cur = None /\ archive[p] # None /\ cur' = p /\ pc' = pc
      /\ UNCHANGED <<src, disk, mem, plan, todo, batch, archive, errors, runs>>
      /\ Replace(p)
  BY DEF UnpackStart
<1>2. /\ TypeOK /\ NoSymlinks /\ SharedByTwins
      /\ p \in batch /\ p \in plan.entries /\ p \in Sources /\ ~Large(p)
  <2>1. TypeOK /\ NoSymlinks /\ SharedByTwins /\ ControlOK
    BY CopyFacts
  <2>2. p \in batch /\ IsSmall(p) /\ p \in plan.entries
    BY <1>1, <2>1 DEF TypeOK, ControlOK
  <2> QED BY <2>1, <2>2, Entries
<1>3. /\ Reliable' => Reliable /\ mem[p] = None
      /\ Careful => mem[p] = None /\ disk[p] = None
  <2>1. Reliable' => Reliable
    BY EngineErrors DEF Reliable, Careful, pipelineVars
  <2>2. Reliable => mem[p] = None
    BY <1>2, WorkNow DEF InHand
  <2> QED BY <2>1, <2>2, CopyFacts
<1>4. PICK i \in FreeFor(p) : /\ dir' = [dir EXCEPT ![p] = i]
                              /\ data' = [data EXCEPT ![i] = TornNow]
  BY <1>1 DEF Replace
<1>5. i \in Inode /\ i # None /\ i \notin Path /\ (\A q \in Path \ {p} : dir[q] # i)
  BY EngineAssumption DEF FreeFor
<1>6. /\ NoSymlinks' /\ dir'[p] # None
      /\ \A q \in Path \ {p} : dir'[q] # dir'[p]
  BY <1>2, <1>4, <1>5 DEF NoSymlinks, TypeOK
<1>7. MaxEdits = 0 => \A q \in Path : dir'[q] # None => q \in Sources
  BY <1>2, <1>4 DEF Copying, FilesMirror, TypeOK
<1>8. /\ SharedIn(dir')
      /\ StampedIn(dir, data) => StampedIn(dir', data')
      /\ \A q \in Sources \ {p} : Good(dir, data, q) => Good(dir', data', q)
      /\ \A m : SoundIn(m, dir, data) /\ m[p] = None => SoundIn(m, dir', data')
  BY <1>2, <1>4, Renewed
<1>9. FilesMirror'
  <2>1. /\ Careful => SoundIn(disk', dir', data') /\ StampedIn(dir', data')
        /\ Reliable' => SoundIn(mem', dir', data')
    BY <1>1, <1>3, <1>8, CopyFacts
  <2>2. Careful => \A q \in Path : mem'[q] = None => disk'[q] = None
    BY <1>1, CopyFacts
  <2>3. Careful => \A q \in Sources \ plan.entries : Good(dir', data', q)
    BY <1>2, <1>8, CopyFacts
  <2> QED BY <1>6, <1>7, <1>8, <2>1, <2>2, <2>3, FilesStep
<1>10. ASSUME Reliable', NEW q \in batch' PROVE InHand(q)'
  <2>1. InHand(q) /\ q \in Sources
    BY <1>1, <1>2, <1>3, <1>10, WorkNow, Entries DEF TypeOK
  <2>2. mem'[q] = None /\ archive'[q] = archive[q] /\ src'[q] = src[q] /\ pc' = pc
    BY <1>1, <2>1 DEF InHand
  <2>3. CASE archive[q] # None
    BY <2>1, <2>2, <2>3 DEF InHand
  <2>4. CASE archive[q] = None
    <3>1. q # p /\ Good(dir, data, q)
      BY <1>1, <2>1, <2>4 DEF InHand
    <3>2. Good(dir', data', q)
      BY <1>8, <2>1, <3>1
    <3> QED BY <1>1, <2>2, <2>4, <3>2 DEF InHand, Good
  <2> QED BY <2>3, <2>4
<1>11. ASSUME NEW q \in Canonicals PROVE Waiting(q)' \/ Listed(q)' \/ GivenUp(q)'
  <2>1. Waiting(q) \/ Listed(q) \/ GivenUp(q)
    BY WorkNow
  <2>2. q \in Path /\ IsSmall(q)' = IsSmall(q) /\ Careful' = Careful
    BY <1>1, <1>2, PlanType DEF IsSmall, Size, Careful
  <2> QED BY <1>1, <2>1, <2>2 DEF Waiting, Listed, GivenUp
<1> QED
  BY <1>1, <1>6, <1>9, <1>10, <1>11, WorkStep

\* What the archive held is in it, with the source's mtime.
LEMMA UnpackDoneMirror ==
  ASSUME Copying, EngineStep, UNCHANGED pipelineVars, TypeOK', UnpackDone
  PROVE  FilesMirror' /\ WritingSound' /\ NothingForgotten'
<1> USE NoneAssumption
<1>1. /\ pc = "unpack" /\ cur # None /\ cur' = None /\ pc' = pc
      /\ data' = [data EXCEPT ![dir[cur]] = archive[cur]]
      /\ archive' = [archive EXCEPT ![cur] = None]
      /\ UNCHANGED <<src, dir, disk, mem, plan, todo, batch, errors, runs>>
  BY DEF UnpackDone
<1>2. /\ TypeOK /\ NoSymlinks /\ SharedByTwins
      /\ cur \in batch /\ cur \in plan.entries /\ cur \in Sources /\ cur \in Path /\ ~Large(cur)
      /\ archive[cur] # None
      /\ dir[cur] # None /\ \A q \in Path \ {cur} : dir[q] # dir[cur]
  <2>1. TypeOK /\ NoSymlinks /\ SharedByTwins /\ ControlOK
    BY CopyFacts
  <2>2. archive[cur] # None /\ cur \in Path
    BY <1>1, <2>1 DEF TypeOK, ControlOK
  <2>3. cur \in batch /\ IsSmall(cur) /\ cur \in plan.entries
    BY <2>1, <2>2 DEF TypeOK, ControlOK
  <2>4. dir[cur] # None /\ \A q \in Path \ {cur} : dir[q] # dir[cur]
    BY <1>1, WorkNow
  <2> QED BY <2>1, <2>2, <2>3, <2>4, Entries
<1>3. Reliable' => Reliable
  BY EngineErrors DEF Reliable, Careful, pipelineVars
<1>4. /\ Reliable => mem[cur] = None /\ archive[cur] = src[cur]
      /\ Careful => disk[cur] = None
  <2>1. Reliable => mem[cur] = None /\ archive[cur] = src[cur]
    BY <1>2, WorkNow DEF InHand
  <2> QED BY <1>2, <2>1, CopyFacts
<1>5. /\ \A q \in Sources \ {cur} : Good(dir, data, q) <=> Good(dir, data', q)
      /\ \A m : SoundIn(m, dir, data) /\ m[cur] = None => SoundIn(m, dir, data')
      /\ StampedIn(dir, data) /\ archive[cur] = src[cur] => StampedIn(dir, data')
  BY <1>1, <1>2, Filled
<1>6. FilesMirror'
  <2>1. NoSymlinks' /\ SharedIn(dir')
    BY <1>1, <1>2 DEF NoSymlinks, SharedByTwins, SharedIn
  <2>2. MaxEdits = 0 => \A q \in Path : dir'[q] # None => q \in Sources
    BY <1>1 DEF Copying, FilesMirror
  <2>3. /\ Careful => SoundIn(disk', dir', data') /\ StampedIn(dir', data')
        /\ Reliable' => SoundIn(mem', dir', data')
    BY <1>1, <1>3, <1>4, <1>5, CopyFacts
  <2>4. Careful => \A q \in Path : mem'[q] = None => disk'[q] = None
    BY <1>1, CopyFacts
  <2>5. Careful => \A q \in Sources \ plan.entries : Good(dir', data', q)
    BY <1>1, <1>2, <1>5, CopyFacts
  <2> QED BY <2>1, <2>2, <2>3, <2>4, <2>5, FilesStep
<1>7. ASSUME Reliable', NEW q \in batch' PROVE InHand(q)'
  <2>1. InHand(q) /\ q \in Sources /\ q \in Path /\ Reliable
    BY <1>1, <1>2, <1>3, <1>7, WorkNow, Entries DEF TypeOK
  <2>2. CASE q = cur
    <3>1. archive'[q] = None /\ mem'[q] = None
      BY <1>1, <1>2, <1>4, <2>1, <2>2 DEF TypeOK
    <3>2. data'[dir[cur]] = src[cur]
      <4>1. dir[cur] \in Inode
        BY <1>2, FilesNow
      <4> QED BY <1>1, <1>2, <1>4, <2>1, <4>1 DEF TypeOK
    <3> QED BY <1>1, <1>2, <2>2, <3>1, <3>2 DEF InHand, Good
  <2>3. CASE q # cur
    <3>1. archive'[q] = archive[q] /\ mem'[q] = None /\ src'[q] = src[q]
      BY <1>1, <2>1, <2>3 DEF InHand
    <3>2. Good(dir, data, q) => Good(dir', data', q)
      BY <1>1, <1>5, <2>1, <2>3
    <3>3. Good(dir, data, q)' <=> Good(dir', data', q)
      BY <1>1 DEF Good
    <3> QED BY <1>1, <2>1, <3>1, <3>2, <3>3 DEF InHand
  <2> QED BY <2>2, <2>3
<1>8. ASSUME NEW q \in Canonicals PROVE Waiting(q)' \/ Listed(q)' \/ GivenUp(q)'
  <2>1. Waiting(q) \/ Listed(q) \/ GivenUp(q)
    BY WorkNow
  <2>2. q \in Path /\ IsSmall(q)' = IsSmall(q) /\ Careful' = Careful
    BY <1>1, <1>2, PlanType DEF IsSmall, Size, Careful
  <2> QED BY <1>1, <1>2, <2>1, <2>2 DEF Waiting, Listed, GivenUp
<1> QED
  BY <1>1, <1>6, <1>7, <1>8, WorkStep

\* The whole batch is listed, and when nothing failed all of it is whole.
LEMMA MarkSmallMirror ==
  ASSUME Copying, EngineStep, UNCHANGED pipelineVars, TypeOK', MarkSmall
  PROVE  FilesMirror' /\ WritingSound' /\ NothingForgotten'
<1> USE NoneAssumption
<1>1. /\ pc = "mark" /\ pc' = "saveSmall" /\ batch' = {}
      /\ mem' = Mark(mem, batch)
      /\ UNCHANGED <<src, dir, data, disk, plan, todo, archive, cur, errors, runs>>
  BY DEF MarkSmall
<1>2. /\ TypeOK /\ NoSymlinks /\ SharedByTwins /\ cur = None
      /\ \A p \in Path : archive[p] = None
      /\ \A p \in batch : p \in plan.entries /\ p \in Sources /\ p \in Path /\ ~Large(p)
  <2>1. TypeOK /\ NoSymlinks /\ SharedByTwins /\ ControlOK
    BY CopyFacts
  <2>2. \A p \in batch : p \in plan.entries /\ IsSmall(p)
    BY <2>1 DEF TypeOK, ControlOK
  <2>3. cur = None /\ \A p \in Path : archive[p] = None
    BY <1>1, <2>1 DEF ControlOK
  <2> QED BY <2>1, <2>2, <2>3, Entries
<1>3. /\ \A r \in Path \ batch : mem'[r] = mem[r]
      /\ \A r \in batch : /\ mem'[r] # None
                          /\ mem'[r].size = SizeOf[src[r].content]
                          /\ mem'[r].hash \in {None, src[r].content}
  <2>1. \A r \in batch : mem'[r] = EntryFor(r)
    BY <1>1, <1>2 DEF Mark
  <2>2. \A r \in Path \ batch : mem'[r] = mem[r]
    BY <1>1 DEF Mark
  <2>3. \A r \in batch : EntryFor(r) # None
    BY <1>2, NoneIsNoEntry
  <2> QED BY <1>2, <2>1, <2>2, <2>3, Entries
<1>4. Reliable' => Reliable
  BY EngineErrors DEF Reliable, Careful, pipelineVars
<1>5. Reliable => \A p \in batch : Good(dir, data, p)
  BY <1>1, <1>2, WorkNow DEF InHand
<1>6. Reliable' => SoundIn(mem', dir', data')
  <2>1. SUFFICES ASSUME Reliable PROVE SoundIn(mem', dir, data)
    BY <1>1, <1>4
  <2>2. SoundIn(mem, dir, data) /\ \A p \in batch : Good(dir, data, p) /\ ~Large(p)
    BY <1>2, <1>5, <2>1, CopyFacts
  <2>3. batch \in SUBSET Sources
    BY <1>2
  <2>4. /\ \A r \in Path \ batch : mem'[r] = mem[r]
        /\ \A r \in batch : /\ mem'[r].size = SizeOf[src[r].content]
                            /\ mem'[r].hash \in {None, src[r].content}
    BY <1>3
  <2>5. TypeOK /\ NoSymlinks /\ SharedByTwins
    BY <1>2
  <2> QED BY <2>2, <2>3, <2>4, <2>5, ListedSmall
<1>7. FilesMirror'
  <2>1. NoSymlinks' /\ SharedIn(dir')
    BY <1>1, <1>2 DEF NoSymlinks, SharedByTwins, SharedIn
  <2>2. MaxEdits = 0 => \A q \in Path : dir'[q] # None => q \in Sources
    BY <1>1 DEF Copying, FilesMirror
  <2>3. /\ Careful => SoundIn(disk', dir', data') /\ StampedIn(dir', data')
        /\ Careful => \A q \in Sources \ plan.entries : Good(dir', data', q)
    BY <1>1, CopyFacts
  <2>4. Careful => \A q \in Path : mem'[q] = None => disk'[q] = None
    BY <1>1, <1>3, CopyFacts
  <2> QED BY <1>6, <2>1, <2>2, <2>3, <2>4, FilesStep
<1>8. ASSUME NEW q \in Canonicals PROVE Waiting(q)' \/ Listed(q)' \/ GivenUp(q)'
  <2>1. Waiting(q) \/ Listed(q) \/ GivenUp(q)
    BY WorkNow
  <2>2. q \in Path /\ q # None /\ IsSmall(q)' = IsSmall(q) /\ Careful' = Careful
    BY <1>1, <1>2, PlanType DEF IsSmall, Size, Careful
  <2> QED BY <1>1, <1>2, <1>3, <2>1, <2>2 DEF Waiting, Listed, GivenUp
<1> QED
  BY <1>1, <1>7, <1>8, WorkStep

\* A duplicate is linked to its canonical copy and listed.
LEMMA HardLinkMirror ==
  ASSUME Copying, EngineStep, UNCHANGED pipelineVars, TypeOK', NEW p \in Path, HardLink(p)
  PROVE  FilesMirror' /\ WritingSound' /\ NothingForgotten'
<1> USE NoneAssumption
<1> DEFINE c == plan.canon[p]
<1>1. /\ pc = "link" /\ p \in todo /\ ~IsCompleted(p)
      /\ dir[c] # None /\ dir[p] = None
      /\ data' = data /\ dir' = [dir EXCEPT ![p] = dir[c]]
      /\ mem' = Mark(mem, {p}) /\ todo' = todo \ {p} /\ pc' = "saveLink"
      /\ UNCHANGED <<src, disk, plan, batch, archive, cur, errors, runs>>
  BY DEF HardLink, AtDuplicate, Linked, Occupied, NameAtLink, DataAtLink, CloneTried,
         Copying, MirrorAssumption
<1>2. /\ TypeOK /\ NoSymlinks /\ SharedByTwins /\ cur = None /\ batch = {}
      /\ todo \subseteq Duplicates /\ p \in Duplicates /\ c \in Canonicals
      /\ p \in plan.entries /\ c \in plan.entries
  <2>1. TypeOK /\ NoSymlinks /\ SharedByTwins /\ ControlOK
    BY CopyFacts
  <2>2. todo \subseteq Duplicates /\ cur = None /\ batch = {}
    BY <1>1, <2>1 DEF ControlOK
  <2> QED BY <1>1, <2>1, <2>2, PlanType
<1>3. Twins(p, c) /\ p # c
  <2>1. MaxEdits = 0
    <3>1. args \in ArgSets /\ ~args.noDedup
      BY <1>2 DEF Copying, PipelineInv, StagesAgree, FilesMirror, LeftOutIsWhole, Planned
    <3> QED BY <3>1 DEF Copying, MirrorAssumption
  <2>2. plan.seen[p] = plan.seen[c] /\ p # c
    <3>1. WellFormed(plan) /\ p \in Path /\ c \in Path /\ plan.canon[p] # None /\ plan.canon[c] = None
      BY <1>2, PlanType DEF TypeOK, Duplicates, Canonicals, IsDuplicate
    <3>2. plan.hash[p] # None /\ plan.hash[c] = plan.hash[p]
      BY <3>1 DEF WellFormed
    <3> QED BY <3>1, <3>2 DEF WellFormed
  <2> QED BY <1>2, <2>1, <2>2, Entries DEF Twins
<1> HIDE DEF c
<1>4. p \in Sources /\ c \in Sources /\ c \in Path
  BY <1>2, Entries
<1>5. /\ Reliable' => Reliable
      /\ Reliable => mem[p] = None
      /\ Careful => mem[p] = None /\ disk[p] = None
  <2>1. Reliable' => Reliable
    BY EngineErrors DEF Reliable, Careful, pipelineVars
  <2>2. Reliable => mem[p] = None
    BY <1>1, <1>2, CopyFacts
  <2> QED BY <2>1, <2>2, CopyFacts
<1>6. /\ SharedIn(dir')
      /\ StampedIn(dir, data) => StampedIn(dir', data)
      /\ \A q \in Sources \ {p} : Good(dir, data, q) => Good(dir', data, q)
      /\ \A m : SoundIn(m, dir, data) /\ m[p] = None => SoundIn(m, dir', data)
  BY <1>1, <1>2, <1>3, LinkedFiles
<1>7. /\ \A r \in Path \ {p} : mem'[r] = mem[r]
      /\ mem'[p] # None
      /\ mem'[p].size = SizeOf[src[p].content]
      /\ mem'[p].hash \in {None, src[p].content}
  <2>1. mem'[p] = EntryFor(p)
    BY <1>1 DEF Mark
  <2>2. \A r \in Path \ {p} : mem'[r] = mem[r]
    BY <1>1 DEF Mark
  <2>3. EntryFor(p) # None
    BY <1>2, NoneIsNoEntry
  <2> QED BY <1>2, <2>1, <2>2, <2>3, Entries
<1>8. Reliable' => SoundIn(mem', dir', data')
  <2>1. SUFFICES ASSUME Reliable, Reliable' PROVE SoundIn(mem', dir', data)
    BY <1>1, <1>5
  <2>2. mem[c] # None \/ Large(c)
    <3>1. Waiting(c) \/ Listed(c) \/ GivenUp(c)
      BY <1>2, WorkNow
    <3>2. ~Waiting(c)
      BY <1>2, <1>4, PlanType DEF Waiting, Canonicals, Duplicates
    <3>3. GivenUp(c) => ~IsSmall(c)
      <4>1. errors = {} \/ Careful
        BY <1>1, <2>1 DEF Reliable
      <4> QED BY <4>1 DEF GivenUp
    <3> QED BY <1>2, <3>1, <3>2, <3>3, Entries DEF Listed
  <2>3. SoundIn(mem, dir, data) /\ mem[p] = None
    BY <1>5, <2>1, CopyFacts
  <2>4. /\ TypeOK /\ NoSymlinks /\ SharedByTwins
        /\ dir[c] # None /\ dir[p] = None /\ dir' = [dir EXCEPT ![p] = dir[c]]
    BY <1>1, <1>2
  <2>5. \A m, m2 :
          /\ SoundIn(m, dir, data) /\ m[p] = None
          /\ m[c] # None \/ Large(c)
          /\ \A r \in Path \ {p} : m2[r] = m[r]
          /\ m2[p].size = SizeOf[src[p].content] /\ m2[p].hash \in {None, src[p].content}
          => SoundIn(m2, dir', data)
    BY <1>3, <2>4, LinkedIsSound
  <2> QED BY <1>7, <2>2, <2>3, <2>5
<1>9. FilesMirror'
  <2>1. NoSymlinks'
    BY <1>1, <1>2, <1>4 DEF NoSymlinks, TypeOK
  <2>2. MaxEdits = 0 => \A q \in Path : dir'[q] # None => q \in Sources
    BY <1>1, <1>2, <1>4 DEF Copying, FilesMirror, TypeOK
  <2>3. Careful => SoundIn(disk', dir', data') /\ StampedIn(dir', data')
    BY <1>1, <1>5, <1>6, CopyFacts
  <2>4. Careful => \A q \in Path : mem'[q] = None => disk'[q] = None
    BY <1>1, <1>7, CopyFacts
  <2>5. Careful => \A q \in Sources \ plan.entries : Good(dir', data', q)
    BY <1>1, <1>2, <1>6, CopyFacts
  <2> QED BY <1>6, <1>8, <2>1, <2>2, <2>3, <2>4, <2>5, FilesStep
<1>10. ASSUME NEW q \in Canonicals PROVE Waiting(q)' \/ Listed(q)' \/ GivenUp(q)'
  <2>1. Waiting(q) \/ Listed(q) \/ GivenUp(q)
    BY WorkNow
  <2>2. /\ q \in Path /\ q # None /\ IsSmall(q)' = IsSmall(q) /\ Careful' = Careful
        /\ q \notin Duplicates
    BY <1>1, <1>2, PlanType DEF IsSmall, Size, Careful, Canonicals, Duplicates
  <2> QED BY <1>1, <1>2, <1>7, <2>1, <2>2 DEF Waiting, Listed, GivenUp
<1>11. ASSUME NEW q \in Duplicates PROVE q \in todo' \/ Listed(q)' \/ errors' # {}
  <2>1. q \in todo \/ Listed(q) \/ errors # {}
    BY <1>1, WorkNow
  <2>2. q \in Path
    BY <1>2, PlanType
  <2> QED BY <1>1, <1>7, <2>1, <2>2 DEF Listed
<1> QED
  BY <1>1, <1>2, <1>9, <1>10, <1>11, WorkStep

LEMMA EngineMirror ==
  ASSUME Copying, EngineStep, UNCHANGED pipelineVars, TypeOK'
  PROVE  FilesMirror' /\ WritingSound' /\ NothingForgotten'
<1>1. ASSUME Phase1Step PROVE FilesMirror' /\ WritingSound' /\ NothingForgotten'
  BY <1>1, QuietPhase1, QuietArchive, LargeStartMirror, LargeDoneMirror, UnpackStartMirror,
     UnpackDoneMirror, MarkSmallMirror DEF Phase1Step
<1>2. ASSUME Phase2Step PROVE FilesMirror' /\ WritingSound' /\ NothingForgotten'
  <2>1. ASSUME NEW p \in Path PROVE ~Clone(p) /\ ~Symlink(p) /\ ~FallbackStart(p)
    <3>1. Strategy = "HardLink" /\ OneFileSystem
      BY DEF Copying, MirrorAssumption
    <3>2. ~Clone(p)
      BY <3>1 DEF Clone, CloneWorks
    <3>3. ~AcrossMounts(p)
      <4>1. SUFFICES ASSUME AcrossMounts(p) PROVE FALSE
        OBVIOUS
      <4>2. p \in Duplicates /\ plan.canon[p] \in Path
        BY <4>1, CopyFacts, PlanType DEF AcrossMounts, AtDuplicate, ControlOK
      <4> QED BY <3>1, <4>1, <4>2 DEF AcrossMounts, SameMount, OneFileSystem
    <3> QED BY <3>2, <3>3 DEF Symlink, FallbackStart
  <2>2. ~FallbackDone /\ ~FallbackFails
    BY WorkNow DEF FallbackDone, FallbackFails
  <2> QED BY <1>2, <2>1, <2>2, QuietPhase2, HardLinkMirror DEF Phase2Step
<1> QED
  BY <1>1, <1>2, QuietPhase2 DEF EngineStep

-----------------------------------------------------------------------------
(* The mirror: the other stages                                             *)

LEMMA WholeFrame ==
  ASSUME UNCHANGED <<src, dir, data>>
  PROVE  /\ Sources' = Sources
         /\ \A p \in Path : Whole(p)' = Whole(p) /\ Large(p)' = Large(p)
         /\ \A p, q : Twins(p, q)' = Twins(p, q)
BY DEF Sources, Whole, Large, Twins, Holds, Exists, Target

\* Steps that leave the files alone.
LEMMA StageFiles ==
  ASSUME MirrorAssumption, MirrorInv, PipelineInv, TypeOK', UNCHANGED <<src, dir, data>>
  PROVE  /\ NoSymlinks'
         /\ MaxEdits = 0 => \A p \in Path : dir'[p] # None => p \in Sources'
         /\ SharedByTwins' /\ StampedIsWhole'
         /\ Sound(disk) <=> SoundIn(disk, dir, data)
         /\ Sound(mem) <=> SoundIn(mem, dir, data)
         /\ Sound(disk)' <=> SoundIn(disk', dir, data)
         /\ Sound(mem)' <=> SoundIn(mem', dir, data)
<1>1. TypeOK /\ NoSymlinks /\ SharedByTwins /\ StampedIsWhole
  BY DEF PipelineInv, PipelineTypeOK, MirrorInv
<1>2. NoSymlinks'
  BY <1>1 DEF NoSymlinks
<1>3. MaxEdits = 0 => \A p \in Path : dir'[p] # None => p \in Sources'
  BY WholeFrame DEF MirrorInv
<1>4. SharedByTwins'
  BY <1>1, WholeFrame DEF SharedByTwins
<1>5. StampedIsWhole'
  BY <1>1, WholeFrame DEF StampedIsWhole, Careful
<1> QED BY <1>1, <1>2, <1>3, <1>4, <1>5, SoundNow, SoundNext

\* A manifest of nothing promises nothing.
LEMMA NothingIsSound ==
  ASSUME NEW d, NEW x
  PROVE  SoundIn(NoManifest, d, x)
BY DEF SoundIn, NoManifest

\* Steps that leave the files and the memory of the run alone.
LEMMA StageManifests ==
  ASSUME MirrorAssumption, MirrorInv, PipelineInv, TypeOK', UNCHANGED <<src, dir, data>>,
         disk' \in {disk, NoManifest} \/ (InRun /\ disk' = mem),
         InRun' => InRun /\ UNCHANGED <<mem, args, errors>>
  PROVE  ManifestSound'
<1>1. ManifestSound
  BY DEF MirrorInv
<1>2. Careful' = Careful /\ (Careful => Reliable)
  BY DEF Careful, Reliable
<1>3. Careful => Sound(disk)'
  BY <1>1, <1>2, StageFiles, NothingIsSound DEF ManifestSound
<1>4. ASSUME InRun', Reliable' PROVE Sound(mem)'
  <2>1. InRun /\ mem' = mem /\ Reliable
    BY <1>2, <1>4 DEF Reliable
  <2> QED BY <1>1, <2>1, StageFiles DEF ManifestSound
<1>5. ASSUME InRun', Careful, NEW p \in Path, disk'[p] # None PROVE mem'[p] # None
  BY <1>1, <1>5 DEF ManifestSound, NoManifest
<1> QED BY <1>2, <1>3, <1>4, <1>5 DEF ManifestSound

\* Outside the engine nothing is being written.
LEMMA NotCopying ==
  ASSUME PipelineInv', stage' # "copy"
  PROVE  WritingSound' /\ NothingForgotten'
BY DEF PipelineInv, StagesAgree, WritingSound, NothingForgotten

\* When the engine returns without an error, all entries are listed and whole.
LEMMA CopiedIsWhole ==
  ASSUME Copying, pc = "done", errors = {}, Careful \/ args.force
  PROVE  \A p \in Sources : Whole(p)
<1>1. Reliable /\ todo = {} /\ batch = {} /\ cur = None
  BY CopyFacts DEF Reliable, ControlOK
<1>2. \A p \in plan.entries : mem[p] # None
  <2> SUFFICES ASSUME NEW p \in plan.entries PROVE mem[p] # None
    OBVIOUS
  <2>1. p \in Path /\ p # None
    BY Entries, NoneAssumption
  <2>2. p \in Canonicals \/ p \in Duplicates
    BY DEF Canonicals, Duplicates
  <2> QED BY <1>1, <2>1, <2>2, WorkNow DEF Waiting, Listed, GivenUp
<1>3. TypeOK /\ NoSymlinks /\ SharedByTwins /\ SoundIn(mem, dir, data)
  BY <1>1, CopyFacts
<1>4. ASSUME NEW q \in Sources, q \notin plan.entries PROVE Good(dir, data, q) /\ ~Large(q)
  <2>1. ~args.force
    BY <1>4 DEF Copying, FilesMirror, LeftOutIsWhole, Planned
  <2> QED BY <1>4, <2>1, CopyFacts
<1>5. ASSUME NEW p \in plan.entries PROVE Good(dir, data, p)
  <2>1. SUFFICES ASSUME ~Good(dir, data, p) PROVE FALSE
    OBVIOUS
  <2>2. p \in Path
    BY Entries
  <2>3. PICK q \in Sources : Large(p) /\ mem[q] = None /\ dir[q] = dir[p] /\ dir[p] # None
    BY <1>2, <1>3, <2>1, <2>2 DEF SoundIn
  <2>4. Twins(p, q)
    BY <1>2, <1>3, <2>2, <2>3, SourceContent DEF SharedByTwins
  <2>5. q \notin plan.entries
    BY <1>2, <2>3
  <2> QED BY <1>4, <2>3, <2>4, <2>5, TwinsAgree
<1> QED BY <1>3, <1>4, <1>5, FilesNow

LEMMA LeftOutFrame ==
  ASSUME LeftOutIsWhole, UNCHANGED <<src, dir, data, plan, changed, args>>,
         stage' = "delta" => stage = "delta",
         stage' \in {"orphans", "delete", "dedup"} => stage \in {"orphans", "delete", "dedup"},
         Planned' => Planned
  PROVE  LeftOutIsWhole'
<1>1. Duplicates' = Duplicates /\ Careful' = Careful /\ Sources' = Sources
  BY WholeFrame DEF Duplicates, IsDuplicate, Careful
<1>2. \A p \in Sources : p \in Path /\ Whole(p)' = Whole(p) /\ Large(p)' = Large(p)
  BY WholeFrame DEF Sources
<1>3. CASE Planned'
  BY <1>1, <1>2, <1>3 DEF LeftOutIsWhole, Planned
<1>4. CASE ~Planned'
  BY <1>1, <1>2, <1>4 DEF LeftOutIsWhole, Planned
<1> QED BY <1>3, <1>4

LEMMA SuccessFrame ==
  ASSUME SuccessIsWhole, UNCHANGED <<src, dir, data, args>>,
         (stage' \in {"verify", "save", "cleanup"} /\ errors' = {}) \/ Succeeded'
           => (stage \in {"verify", "save", "cleanup"} /\ errors = {}) \/ Succeeded
  PROVE  SuccessIsWhole'
<1>1. Sources' = Sources /\ Careful' = Careful /\ \A p \in Sources : Whole(p)' = Whole(p)
  BY WholeFrame DEF Careful, Sources
<1> QED BY <1>1 DEF SuccessIsWhole

\* The steps between two runs, and the ends of a run that are no success.
LEMMA MirrorOffSteps ==
  ASSUME MirrorAssumption, PipelineInv, PipelineInv', MirrorInv,
         \/ Start \/ Killed \/ StopIfCancelled \/ DryRun \/ NoSpace
         \/ \E p \in Path : Edit(p)
  PROVE  MirrorInv'
<1> USE Codes DEF Exit
<1>1. /\ stage' \in {"off", "scan"} /\ ~Succeeded' /\ disk' = disk /\ UNCHANGED <<dir, data>>
      /\ (\E p \in Path : Edit(p)) \/ UNCHANGED src
  BY DEF Start, Killed, Crash, StopIfCancelled, DryRun, NoSpace, Edit, engineVars, Succeeded
<1>2. LeftOutIsWhole' /\ SuccessIsWhole' /\ ~InRun'
  BY <1>1 DEF LeftOutIsWhole, SuccessIsWhole, Planned, InRun
<1>3. WritingSound' /\ NothingForgotten'
  BY <1>1, NotCopying
<1>4. TypeOK'
  BY DEF PipelineInv, PipelineTypeOK
<1>5. CASE UNCHANGED src
  <2>1. ManifestSound'
    BY <1>1, <1>2, <1>4, <1>5, StageManifests
  <2> QED BY <1>1, <1>2, <1>3, <1>4, <1>5, <2>1, StageFiles DEF MirrorInv
<1>6. CASE \E p \in Path : Edit(p)
  <2>1. MaxEdits # 0
    BY <1>6, PipelineAssumption DEF Edit, PipelineInv, PipelineTypeOK
  <2>2. ~Careful /\ \A p, q : ~Twins(p, q)
    BY <2>1 DEF Careful, Twins
  <2>3. NoSymlinks' /\ SharedByTwins'
    BY <1>1, <2>2 DEF MirrorInv, NoSymlinks, SharedByTwins
  <2>4. ManifestSound' /\ StampedIsWhole'
    BY <1>2, <2>1 DEF ManifestSound, StampedIsWhole, Careful
  <2> QED BY <1>2, <1>3, <2>1, <2>3, <2>4 DEF MirrorInv
<1> QED BY <1>1, <1>5, <1>6

\* The stages before the copy.
LEMMA MirrorPlanSteps ==
  ASSUME MirrorAssumption, PipelineInv, PipelineInv', MirrorInv,
         \/ Scan \/ Delta \/ FindOrphans \/ OrphansDeleted \/ Dedup
         \/ \E p \in Path : DeleteOrphan(p)
  PROVE  MirrorInv'
<1>0. /\ "scan" \notin Faults /\ TypeOK /\ TypeOK' /\ NoSymlinks /\ LeftOutIsWhole
      /\ (MaxEdits = 0 => \A p \in Path : dir[p] # None => p \in Sources)
      /\ SharedByTwins /\ (Careful => Sound(disk))
  BY DEF MirrorAssumption, PipelineInv, PipelineTypeOK, MirrorInv, ManifestSound
<1>1. /\ stage' \in {"delta", "orphans", "delete", "dedup", "gate"}
      /\ UNCHANGED <<src, data, disk, args>>
  BY DEF Scan, Delta, FindOrphans, OrphansDeleted, Dedup, DeleteOrphan, engineVars
<1>2. SuccessIsWhole' /\ ~InRun'
  BY <1>1 DEF SuccessIsWhole, InRun, Succeeded
<1>3. WritingSound' /\ NothingForgotten'
  BY <1>1, NotCopying
<1>4. ASSUME UNCHANGED dir, LeftOutIsWhole' PROVE MirrorInv'
  <2>1. ManifestSound'
    BY <1>0, <1>1, <1>2, <1>4, StageManifests
  <2> QED BY <1>0, <1>1, <1>2, <1>3, <1>4, <2>1, StageFiles DEF MirrorInv
<1>5. CASE Scan
  <2>1. stage' = "delta" /\ changed' = Sources /\ UNCHANGED <<src, dir, data>>
    BY <1>0, <1>5 DEF Scan, Scans, engineVars
  <2>2. LeftOutIsWhole'
    BY <2>1, WholeFrame DEF LeftOutIsWhole, Planned
  <2> QED BY <1>4, <2>1, <2>2
<1>6. CASE Delta
  <2>1. /\ UNCHANGED <<src, dir, data>> /\ stage = "delta" /\ stage' \in {"orphans", "dedup"}
        /\ changed = Sources
        /\ changed' = IF args.force THEN changed ELSE {p \in changed : ~IsUnchanged(p)}
    BY <1>0, <1>6 DEF Delta, engineVars, LeftOutIsWhole
  <2>2. ASSUME NEW p \in Sources, p \notin changed'
        PROVE  ~args.force /\ (Careful => Whole(p) /\ ~Large(p))
    <3>1. ~args.force /\ IsUnchanged(p) /\ p \in Path
      BY <2>1, <2>2, SourceContent, <1>0
    <3>2. dir[p] # None /\ data[dir[p]].mtime = src[p].mtime
      BY <1>0, <3>1, FilesNow DEF IsUnchanged
    <3>3. src[p].mtime # CopyTime
      BY <1>0, SourceContent DEF CopyTime
    <3> QED BY <3>1, <3>2, <3>3 DEF MirrorInv, StampedIsWhole
  <2>3. LeftOutIsWhole'
    <3>1. Careful' = Careful /\ Sources' = Sources
      BY <2>1, WholeFrame DEF Careful
    <3>2. \A p \in Sources : Whole(p)' = Whole(p) /\ Large(p)' = Large(p)
      BY <2>1, WholeFrame DEF Sources
    <3>3. ~Planned' /\ stage' # "delta"
      BY <2>1 DEF Planned
    <3> QED BY <1>1, <2>2, <3>1, <3>2, <3>3 DEF LeftOutIsWhole
  <2> QED BY <1>4, <2>1, <2>3
<1>7. CASE FindOrphans \/ OrphansDeleted
  <2>1. /\ UNCHANGED <<src, dir, data, plan, changed, args>>
        /\ stage \in {"orphans", "delete"} /\ stage' \in {"delete", "dedup"}
    BY <1>7 DEF FindOrphans, OrphansDeleted, engineVars
  <2>2. LeftOutIsWhole'
    BY <1>0, <2>1, LeftOutFrame DEF Planned
  <2> QED BY <1>4, <2>1, <2>2
<1>8. CASE Dedup
  <2>1. /\ UNCHANGED <<src, dir, data, args>> /\ stage = "dedup" /\ stage' = "gate"
    BY <1>8 DEF Dedup
  <2>2. plan'.entries = changed /\ (args.noDedup => \A p \in Path : plan'.canon[p] = None)
    BY <1>8, DedupPlansWell
  <2>3. changed \subseteq Path
    BY DEF PipelineInv, PipelineTypeOK
  <2>4. args.noDedup => Duplicates' = {}
    BY <2>2, <2>3 DEF Duplicates, IsDuplicate
  <2>5. LeftOutIsWhole'
    <3>1. Careful' = Careful /\ Sources' = Sources
      BY <2>1, WholeFrame DEF Careful
    <3>2. \A p \in Sources : Whole(p)' = Whole(p) /\ Large(p)' = Large(p)
      BY <2>1, WholeFrame DEF Sources
    <3>3. Planned' /\ ~Planned /\ args' = args /\ stage' = "gate"
      BY <2>1 DEF Planned
    <3>4. \A p \in Sources \ changed : ~args.force /\ (Careful => Whole(p) /\ ~Large(p))
      BY <1>0, <2>1, <3>3 DEF LeftOutIsWhole
    <3> QED BY <2>2, <2>4, <3>1, <3>2, <3>3, <3>4 DEF LeftOutIsWhole
  <2> QED BY <1>4, <2>1, <2>5
<1>9. ASSUME NEW p \in Path, DeleteOrphan(p) PROVE MirrorInv'
  <2>1. /\ stage = "delete" /\ p \in orphans /\ stage' = "delete"
        /\ dir' \in {dir, [dir EXCEPT ![p] = None]}
        /\ UNCHANGED <<src, data, disk, plan, changed, args>>
    BY <1>9 DEF DeleteOrphan
  <2>2. p \notin Sources
    BY <1>0, <2>1 DEF PipelineInv, OrphansAreOrphans, Sources
  <2>3. CASE UNCHANGED dir
    <3>1. LeftOutIsWhole'
      BY <1>0, <2>1, <2>3, LeftOutFrame DEF Planned
    <3> QED BY <1>4, <2>3, <3>1
  <2>4. CASE MaxEdits = 0
    <3>1. dir[p] = None
      BY <1>0, <2>2, <2>4
    <3>2. UNCHANGED dir
      BY <1>0, <2>1, <3>1 DEF TypeOK
    <3> QED BY <2>3, <3>2
  <2>5. CASE MaxEdits # 0 /\ dir' = [dir EXCEPT ![p] = None]
    \* Without Careful nothing is said of files outside a run.
    <3>1. ~Careful /\ ~Careful' /\ \A q, r : ~Twins(q, r)
      BY <2>5 DEF Careful, Twins
    <3>2. NoSymlinks' /\ SharedByTwins'
      BY <1>0, <2>5, <3>1, NoneAssumption DEF NoSymlinks, SharedByTwins, TypeOK
    <3>3. ManifestSound' /\ StampedIsWhole'
      BY <1>2, <3>1 DEF ManifestSound, StampedIsWhole
    <3>4. LeftOutIsWhole'
      <4>1. \A q \in Sources \ changed : ~args.force
        BY <1>0, <2>1 DEF LeftOutIsWhole, Planned
      <4>2. Sources' = Sources
        BY <2>1 DEF Sources
      <4> QED BY <2>1, <3>1, <4>1, <4>2 DEF LeftOutIsWhole, Planned
    <3> QED BY <1>2, <1>3, <2>5, <3>2, <3>3, <3>4 DEF MirrorInv
  <2> QED BY <2>1, <2>3, <2>4, <2>5
<1> QED BY <1>5, <1>6, <1>7, <1>8, <1>9

\* The manifest is loaded and the engine entered.
LEMMA MirrorStartCopy ==
  ASSUME MirrorAssumption, PipelineInv, PipelineInv', MirrorInv, StartCopy
  PROVE  MirrorInv'
<1>1. /\ stage = "gate" /\ stage' = "copy"
      /\ UNCHANGED <<src, dir, data, args, changed, plan>>
      /\ args.force => mem' = NoManifest
      /\ Careful /\ ~args.force => mem' = disk
      /\ pc' = "copy" /\ batch' = {} /\ cur' = None /\ errors' = {}
      /\ todo' = {q \in plan.entries : plan.canon[q] = None}
  BY DEF StartCopy, Begin, Loads, Careful
<1>2. /\ IF args.force THEN disk' = NoManifest \/ ("remove" \in Faults /\ disk' = disk)
         ELSE disk' = disk
      /\ TypeOK' /\ LeftOutIsWhole /\ (Careful => Sound(disk))
  BY DEF StartCopy, PipelineInv, PipelineTypeOK, MirrorInv, ManifestSound
<1>3. ManifestSound'
  <2>1. Careful' = Careful
    BY DEF Careful
  <2>2. Careful => Sound(disk)'
    BY <1>1, <1>2, StageFiles, NothingIsSound
  <2>3. ASSUME Reliable' PROVE Sound(mem)'
    <3>1. CASE args.force
      BY <1>1, <1>2, <3>1, StageFiles, NothingIsSound
    <3>2. CASE ~args.force
      BY <1>1, <1>2, <2>1, <2>3, <3>2, StageFiles DEF Reliable
    <3> QED BY <3>1, <3>2
  <2>4. ASSUME Careful, NEW p \in Path, disk'[p] # None PROVE mem'[p] # None
    BY <1>1, <1>2, <2>4 DEF Careful, NoManifest
  <2> QED BY <2>1, <2>2, <2>3, <2>4 DEF ManifestSound
<1>4. LeftOutIsWhole'
  BY <1>1, <1>2, LeftOutFrame DEF Planned
<1>5. WritingSound'
  BY <1>1 DEF WritingSound
<1>6. NothingForgotten'
  BY <1>1 DEF NothingForgotten, Canonicals, IsDuplicate
<1>7. SuccessIsWhole'
  BY <1>1 DEF SuccessIsWhole, Succeeded
<1> QED BY <1>1, <1>2, <1>3, <1>4, <1>5, <1>6, <1>7, StageFiles DEF MirrorInv

LEMMA MirrorCopy ==
  ASSUME MirrorAssumption, PipelineInv, PipelineInv', MirrorInv, Copy
  PROVE  MirrorInv'
<1>1. stage = "copy" /\ EngineStep /\ UNCHANGED pipelineVars /\ stage' = "copy"
  BY DEF Copy, pipelineVars
<1>2. Copying
  BY <1>1 DEF Copying, MirrorInv, FilesMirror
<1>3. FilesMirror' /\ WritingSound' /\ NothingForgotten'
  BY <1>1, <1>2, EngineMirror DEF PipelineInv, PipelineTypeOK
<1>4. SuccessIsWhole'
  BY <1>1 DEF SuccessIsWhole, Succeeded
<1> QED BY <1>3, <1>4 DEF MirrorInv, FilesMirror

\* From the end of the copy to the end of the run.
LEMMA MirrorLastSteps ==
  ASSUME MirrorAssumption, PipelineInv, PipelineInv', MirrorInv,
         CopyReturns \/ Verify \/ FinalSave \/ Finish
  PROVE  MirrorInv'
<1> USE Codes DEF Exit
<1>1. /\ UNCHANGED <<src, dir, data, args, changed, plan, mem, errors>>
      /\ stage \in {"copy", "verify", "save", "cleanup"}
      /\ stage' \in {"off", "verify", "save", "cleanup"}
      /\ disk' \in {disk, NoManifest} \/ disk' = mem
  BY DEF CopyReturns, Verify, FinalSave, Finish, engineVars
<1>2. TypeOK' /\ LeftOutIsWhole /\ SuccessIsWhole
  BY DEF PipelineInv, PipelineTypeOK, MirrorInv
<1>3. ManifestSound'
  BY <1>1, <1>2, StageManifests DEF InRun
<1>4. LeftOutIsWhole'
  BY <1>1, <1>2, LeftOutFrame DEF Planned
<1>5. WritingSound' /\ NothingForgotten'
  BY <1>1, NotCopying
<1>6. SuccessIsWhole'
  <2>1. CASE CopyReturns
    <3>1. pc = "done" /\ stage = "copy" /\ ~Succeeded'
      BY <2>1 DEF CopyReturns, Succeeded
    <3>2. Copying
      BY <3>1 DEF Copying, MirrorInv, FilesMirror
    <3>3. errors = {} /\ (Careful \/ args.force) => \A p \in Sources : Whole(p)
      BY <3>1, <3>2, CopiedIsWhole
    <3>4. Sources' = Sources /\ Careful' = Careful /\ \A p \in Sources : Whole(p)' = Whole(p)
      BY <1>1, WholeFrame DEF Careful, Sources
    <3> QED BY <1>1, <3>1, <3>3, <3>4 DEF SuccessIsWhole
  <2>2. CASE Verify \/ FinalSave \/ Finish
    <3>1. stage \in {"verify", "save", "cleanup"}
      BY <2>2 DEF Verify, FinalSave, Finish
    <3>2. Succeeded' => errors = {}
      BY <2>2 DEF Verify, FinalSave, Finish, Succeeded, ExitCode
    <3> QED BY <1>1, <1>2, <3>1, <3>2, SuccessFrame
  <2> QED BY <2>1, <2>2
<1> QED BY <1>1, <1>2, <1>3, <1>4, <1>5, <1>6, StageFiles DEF MirrorInv

LEMMA MirrorFrame ==
  ASSUME MirrorAssumption, PipelineInv, PipelineInv', MirrorInv, Cancel \/ UNCHANGED vars
  PROVE  MirrorInv'
<1>1. UNCHANGED <<src, dir, data, args, changed, plan, mem, errors, disk, stage, exit>>
      /\ UNCHANGED <<pc, cur, todo, batch, archive>>
  BY DEF Cancel, vars, engineVars, pipelineVars
<1>2. TypeOK' /\ LeftOutIsWhole /\ SuccessIsWhole /\ WritingSound /\ NothingForgotten
  BY DEF PipelineInv, PipelineTypeOK, MirrorInv
<1>3. ManifestSound'
  BY <1>1, <1>2, StageManifests DEF InRun
<1>4. LeftOutIsWhole'
  BY <1>1, <1>2, LeftOutFrame DEF Planned
<1>5. SuccessIsWhole'
  BY <1>1, <1>2, SuccessFrame DEF Succeeded
<1>6. WritingSound'
  <2>1. Reliable' = Reliable
    BY <1>1 DEF Reliable, Careful
  <2>2. \A p \in batch : Whole(p)' = Whole(p)
    <3>1. \A p \in batch : p \in Path
      BY <1>2, PlanType DEF PipelineInv, PipelineTypeOK, TypeOK
    <3> QED BY <1>1, <3>1, WholeFrame
  <2> QED BY <1>1, <1>2, <2>1, <2>2 DEF WritingSound
<1>7. NothingForgotten'
  BY <1>1, <1>2 DEF NothingForgotten, Canonicals, Duplicates, IsDuplicate, IsSmall, Size, Careful
<1> QED BY <1>1, <1>2, <1>3, <1>4, <1>5, <1>6, <1>7, StageFiles DEF MirrorInv

\* What the mirror rests on holds in every run, through any number of files,
\* runs, kills, cancellations and failures.
THEOREM MirrorInductive ==
  ASSUME MirrorAssumption
  PROVE  Spec => []MirrorInv
<1>1. Init => MirrorInv
  <2> SUFFICES ASSUME Init PROVE MirrorInv
    OBVIOUS
  <2>1. /\ dir = NoManifest /\ disk = NoManifest /\ stage = "off" /\ ~Succeeded /\ pc = "idle"
    BY Codes DEF Init, Succeeded, NoManifest
  <2>2. NoSymlinks /\ SharedByTwins /\ StampedIsWhole
    BY <2>1, NoneAssumption DEF NoSymlinks, SharedByTwins, StampedIsWhole, NoManifest
  <2>3. ManifestSound
    BY <2>1 DEF ManifestSound, Sound, InRun, NoManifest
  <2>4. LeftOutIsWhole /\ WritingSound /\ NothingForgotten /\ SuccessIsWhole
    BY <2>1 DEF LeftOutIsWhole, WritingSound, NothingForgotten, SuccessIsWhole, Planned
  <2> QED BY <2>1, <2>2, <2>3, <2>4 DEF MirrorInv, NoManifest
<1>2. PipelineInv /\ PipelineInv' /\ MirrorInv /\ [Next]_vars => MirrorInv'
  BY MirrorOffSteps, MirrorPlanSteps, MirrorStartCopy, MirrorCopy, MirrorLastSteps, MirrorFrame
     DEF Next, RunStep
<1> QED
  BY <1>1, <1>2, PipelineInductive, PTL DEF Spec

\* While the source is not edited, and no failure makes the manifest list what
\* was not copied, exit code 0 means that the destination has every source file.
THEOREM SuccessIsMirrorHolds ==
  ASSUME MirrorAssumption, Careful
  PROVE  Spec => []SuccessIsMirror
<1>1. MirrorInv => SuccessIsMirror
  BY DEF MirrorInv, SuccessIsWhole, SuccessIsMirror, Whole
<1> QED
  BY <1>1, MirrorInductive, PTL

\* With --force it means that in any case: after edits without deduplication, and
\* whatever the failures of this run and of earlier ones left behind.
THEOREM ForcedSuccessIsMirrorHolds ==
  ASSUME MirrorAssumption
  PROVE  Spec => []ForcedSuccessIsMirror
<1>1. MirrorInv => ForcedSuccessIsMirror
  BY DEF MirrorInv, SuccessIsWhole, ForcedSuccessIsMirror, SuccessIsMirror, Whole
<1> QED
  BY <1>1, MirrorInductive, PTL
-----------------------------------------------------------------------------
(* A run takes a bounded number of steps                                    *)

\* What the measure adds up.
LEMMA RunSizes ==
  ASSUME PipelineInv
  PROVE  /\ CopyStepsLeft \in Nat /\ Cardinality(Path) \in Nat
         /\ Cardinality(changed) \in Nat /\ Cardinality(changed) <= Cardinality(Path)
         /\ Cardinality(orphans) \in Nat /\ Cardinality(orphans) <= Cardinality(Path)
         /\ Cardinality(plan.entries) \in Nat
<1>1. TypeOK /\ changed \in SUBSET Path /\ orphans \in SUBSET Path
  BY DEF PipelineInv, PipelineTypeOK
<1>2. plan.entries \in SUBSET Path
  BY <1>1, PlanType
<1>3. ASSUME NEW S \in SUBSET Path
      PROVE  Cardinality(S) \in Nat /\ Cardinality(S) <= Cardinality(Path)
  BY PathAssumption, FS_Subset, FS_CardinalityType
<1>4. Cardinality(Path) \in Nat
  BY PathAssumption, FS_CardinalityType
<1> QED BY <1>1, <1>2, <1>3, <1>4, StepsLeftIsNatural

\* A run that is not over has steps ahead.
LEMMA RunHasSteps ==
  ASSUME PipelineInv
  PROVE  /\ StepsAhead \in Nat
         /\ stage # "off" => StepsAhead > 0
<1>1. stage \in Stage
  BY DEF PipelineInv, PipelineTypeOK
<1> QED BY <1>1, RunSizes DEF StepsAhead, Stage

LEMMA NextSizes == PipelineInv' => (CopyStepsLeft \in Nat /\ StepsAhead \in Nat)'
<1>1. PipelineInv => CopyStepsLeft \in Nat /\ StepsAhead \in Nat
  BY RunSizes, RunHasSteps
<1> QED BY <1>1, PTL

\* Ctrl-C's step is counted before and after, or before only.
LEMMA OneEach ==
  ASSUME NEW a \in Nat, NEW b \in Nat, a < b PROVE a + 1 < b + 1
OBVIOUS

\* Between the engine's steps its measure stands still.
LEMMA SameCopySteps ==
  ASSUME UNCHANGED engineVars
  PROVE  CopyStepsLeft' = CopyStepsLeft /\ plan' = plan
<1>1. UNCHANGED <<pc, todo, batch, archive, cur, plan>>
  BY DEF engineVars
<1>2. InArchive' = InArchive /\ Duplicates' = Duplicates
  BY <1>1 DEF InArchive, Duplicates, IsDuplicate
<1> QED BY <1>1, <1>2 DEF CopyStepsLeft

\* Scanning, deleting and planning: a stage hands on no more than it was given.
LEMMA PlanningShrinks ==
  ASSUME PipelineInv, PipelineInv',
         \/ Scan \/ Delta \/ FindOrphans \/ OrphansDeleted \/ Dedup
         \/ \E p \in Path : DeleteOrphan(p)
  PROVE  StepsAhead' < StepsAhead
<1>1. /\ Cardinality(changed') \in Nat /\ Cardinality(changed') <= Cardinality(Path)
      /\ Cardinality(orphans') \in Nat /\ Cardinality(orphans') <= Cardinality(Path)
  <2>1. changed' \in SUBSET Path /\ orphans' \in SUBSET Path
    BY DEF PipelineInv, PipelineTypeOK
  <2> QED BY <2>1, PathAssumption, FS_Subset, FS_CardinalityType
<1>2. CASE Scan
  <2>1. stage = "scan" /\ stage' = "delta"
    BY <1>2 DEF Scan
  <2> QED BY <1>1, <2>1, RunSizes DEF StepsAhead
<1>3. CASE Delta
  <2>1. /\ stage = "delta" /\ stage' \in {"orphans", "dedup"}
        /\ changed' \in SUBSET changed
    BY <1>3 DEF Delta
  <2>2. Cardinality(changed') <= Cardinality(changed)
    <3>1. IsFiniteSet(changed)
      BY PathAssumption, FS_Subset DEF PipelineInv, PipelineTypeOK
    <3> QED BY <2>1, <3>1, FS_Subset
  <2> QED BY <1>1, <2>1, <2>2, RunSizes DEF StepsAhead
<1>4. CASE FindOrphans
  <2>1. stage = "orphans" /\ stage' = "delete" /\ changed' = changed
    BY <1>4 DEF FindOrphans
  <2> QED BY <1>1, <2>1, RunSizes DEF StepsAhead
<1>5. CASE OrphansDeleted
  <2>1. stage = "delete" /\ stage' = "dedup" /\ changed' = changed
    BY <1>5 DEF OrphansDeleted
  <2> QED BY <1>1, <2>1, RunSizes DEF StepsAhead
<1>6. ASSUME NEW p \in Path, DeleteOrphan(p) PROVE StepsAhead' < StepsAhead
  <2>1. /\ stage = "delete" /\ stage' = stage /\ changed' = changed
        /\ p \in orphans /\ orphans' = orphans \ {p}
    BY <1>6 DEF DeleteOrphan
  <2>2. Cardinality(orphans') = Cardinality(orphans) - 1
    BY <2>1, OneLess DEF PipelineInv, PipelineTypeOK
  <2> QED BY <1>1, <2>1, <2>2, RunSizes DEF StepsAhead
<1>7. CASE Dedup
  <2>1. stage = "dedup" /\ stage' = "gate" /\ plan'.entries = changed
    BY <1>7, DedupPlansWell DEF Dedup
  <2> QED BY <2>1, RunSizes DEF StepsAhead
<1> QED
  BY <1>2, <1>3, <1>4, <1>5, <1>6, <1>7

\* Copying, verifying and finishing.
LEMMA CopyingShrinks ==
  ASSUME PipelineInv, PipelineInv',
         StartCopy \/ Copy \/ CopyReturns \/ Verify \/ FinalSave,
         stage' # "off"
  PROVE  StepsAhead' < StepsAhead
<1>1. CASE StartCopy
  <2>1. stage = "gate" /\ stage' = "copy" /\ \E m : Begin(plan, m)
    BY <1>1 DEF StartCopy
  <2>2. TypeOK /\ WellFormed(plan)
    BY DEF PipelineInv, PipelineTypeOK, TypeOK
  <2>3. CopyStepsLeft' = 3 * Cardinality(plan.entries) + 6
    BY <2>1, <2>2, BeginSteps
  <2> QED BY <2>1, <2>3, RunSizes DEF StepsAhead
<1>2. CASE Copy
  <2>1. stage = "copy" /\ stage' = "copy" /\ EngineStep
    BY <1>2 DEF Copy, pipelineVars
  <2>2. CopyStepsLeft' < CopyStepsLeft
    BY <2>1, EngineShrinks DEF PipelineInv, PipelineTypeOK, StagesAgree
  <2>3. CopyStepsLeft' \in Nat
    BY NextSizes
  <2> QED BY <2>1, <2>2, <2>3, RunSizes DEF StepsAhead
<1>3. CASE CopyReturns
  <2>1. stage = "copy" /\ stage' = "verify"
    BY <1>3 DEF CopyReturns, Exit
  <2> QED BY <2>1, RunSizes DEF StepsAhead
<1>4. CASE Verify \/ FinalSave
  <2>1. \/ stage = "verify" /\ stage' = "save"
        \/ stage = "save" /\ stage' = "cleanup"
    BY <1>4 DEF Verify, FinalSave
  <2> QED BY <2>1 DEF StepsAhead
<1> QED
  BY <1>1, <1>2, <1>3, <1>4

\* A step of the run itself, or the kill that ends it.
LEMMA RunShrinks ==
  ASSUME PipelineInv, PipelineInv', RunStep \/ Killed
  PROVE  RunStepsLeft' < RunStepsLeft
<1>1. stage # "off"
  BY DEF RunStep, StopIfCancelled, Scan, Delta, FindOrphans, OrphansDeleted, DeleteOrphan,
         Dedup, DryRun, StartCopy, NoSpace, Copy, CopyReturns, Verify, FinalSave, Finish,
         Killed
<1>2. StepsAhead \in Nat /\ StepsAhead > 0
  BY <1>1, RunHasSteps
<1>3. CASE stage' = "off"
  <2>1. RunStepsLeft' = 0
    BY <1>3 DEF RunStepsLeft, StepsAhead
  <2> QED BY <1>2, <2>1 DEF RunStepsLeft
<1>4. CASE stage' # "off"
  <2>1. \/ Scan \/ Delta \/ FindOrphans \/ OrphansDeleted \/ Dedup
        \/ \E p \in Path : DeleteOrphan(p)
        \/ StartCopy \/ Copy \/ CopyReturns \/ Verify \/ FinalSave
    BY <1>4 DEF RunStep, StopIfCancelled, DryRun, NoSpace, Finish, Killed, Exit
  <2>2. StepsAhead' < StepsAhead
    BY <1>4, <2>1, PlanningShrinks, CopyingShrinks
  <2>3. StepsAhead' \in Nat
    BY NextSizes
  <2>4. cancelled' = cancelled
    BY <2>1, Zenon
       DEF Scan, Delta, FindOrphans, OrphansDeleted, Dedup, DeleteOrphan,
           StartCopy, Copy, CopyReturns, Verify, FinalSave, pipelineVars
  <2>5. CASE cancelled
    <3>1. RunStepsLeft = StepsAhead
      BY <1>2, <2>5 DEF RunStepsLeft
    <3>2. RunStepsLeft' = StepsAhead'
      <4>1. cancelled'
        BY <2>4, <2>5, Zenon
      <4>2. RunStepsLeft' = StepsAhead' + 0
        BY <4>1 DEF RunStepsLeft
      <4>3. \A n \in Nat : n + 0 = n
        OBVIOUS
      <4> QED BY <2>3, <4>2, <4>3, Zenon
    <3> QED BY <2>2, <3>1, <3>2
  <2>6. CASE ~cancelled
    <3>1. RunStepsLeft = StepsAhead + 1
      BY <1>1, <2>6 DEF RunStepsLeft
    <3>2. RunStepsLeft' = StepsAhead' + 1
      <4>1. ~cancelled'
        BY <2>4, <2>6, Zenon
      <4> QED BY <1>4, <4>1 DEF RunStepsLeft
    <3>3. StepsAhead' + 1 < StepsAhead + 1
      BY <1>2, <2>2, <2>3, OneEach
    <3> QED BY <3>1, <3>2, <3>3, Zenon
  <2> QED BY <2>5, <2>6
<1> QED BY <1>3, <1>4

\* Ctrl-C can be pressed once.
LEMMA CancelShrinks ==
  ASSUME PipelineInv, Cancel
  PROVE  RunStepsLeft' < RunStepsLeft
<1>1. stage # "off" /\ stage' = stage /\ changed' = changed /\ orphans' = orphans
  BY DEF Cancel
<1>2. CopyStepsLeft' = CopyStepsLeft /\ plan' = plan
  BY SameCopySteps DEF Cancel
<1>3. StepsAhead' = StepsAhead /\ StepsAhead \in Nat
  BY <1>1, <1>2, RunHasSteps DEF StepsAhead
<1>4. RunStepsLeft = StepsAhead + 1
  BY <1>1 DEF RunStepsLeft, Cancel
<1>5. RunStepsLeft' = StepsAhead'
  <2>1. cancelled'
    BY DEF Cancel
  <2> QED BY <1>3, <2>1 DEF RunStepsLeft
<1> QED BY <1>3, <1>4, <1>5

\* Between runs.
LEMMA OffSteps ==
  ASSUME PipelineInv, stage = "off", Start \/ \E p \in Path : Edit(p)
  PROVE  RunStepsLeft' <= 4 * Cardinality(Path) + 17
<1>1. Cardinality(Path) \in Nat
  BY RunSizes
<1>2. CASE Start
  <2>1. stage' = "scan" /\ ~cancelled'
    BY <1>2 DEF Start
  <2> QED BY <1>1, <2>1 DEF RunStepsLeft, StepsAhead
<1>3. ASSUME NEW p \in Path, Edit(p) PROVE RunStepsLeft' <= 4 * Cardinality(Path) + 17
  <2>1. stage' = "off"
    BY <1>3 DEF Edit
  <2> QED BY <1>1, <2>1 DEF RunStepsLeft, StepsAhead
<1> QED BY <1>2, <1>3

\* run_local_pipeline: whatever fails, is cancelled or is killed, a run takes at most
\* four steps for each path and seventeen more, with any number of files.
THEOREM BoundedRunHolds == Spec => BoundedRun
<1>1. PipelineInv /\ PipelineInv' /\ [Next]_vars
        => [IF stage = "off" THEN RunStepsLeft' <= 4 * Cardinality(Path) + 17
                             ELSE RunStepsLeft' < RunStepsLeft]_vars
  <2> SUFFICES ASSUME PipelineInv, PipelineInv', Next
               PROVE  IF stage = "off" THEN RunStepsLeft' <= 4 * Cardinality(Path) + 17
                                       ELSE RunStepsLeft' < RunStepsLeft
    OBVIOUS
  <2>1. CASE stage = "off"
    <3>1. Start \/ \E p \in Path : Edit(p)
      BY <2>1 DEF Next, Cancel, Killed, RunStep, StopIfCancelled, Scan, Delta, FindOrphans,
                  OrphansDeleted, DeleteOrphan, Dedup, DryRun, StartCopy, NoSpace, Copy,
                  CopyReturns, Verify, FinalSave, Finish
    <3> QED BY <2>1, <3>1, OffSteps
  <2>2. CASE stage # "off"
    <3>1. Cancel \/ RunStep \/ Killed
      BY <2>2 DEF Next, Start, Edit
    <3> QED BY <2>2, <3>1, RunShrinks, CancelShrinks
  <2> QED BY <2>1, <2>2
<1> QED
  BY <1>1, PipelineInductive, PTL DEF Spec, BoundedRun
================================================================================
