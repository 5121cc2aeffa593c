------------------------- MODULE RemoteTransferProofs -------------------------
(***************************************************************************)
(* A canonical copy that was sent, and is in no batch reported as failed,  *)
(* is in the destination as planned: for any number of files, any sizes    *)
(* and batch size, any faults and any edits of the source meanwhile.       *)
(***************************************************************************)
EXTENDS RemoteTransfer, FiniteSetTheorems, TLAPS

USE DEF Stage, EXIT_SUCCESS, EXIT_PARTIAL, EXIT_FAILURE

LEMMA PlanType ==
  ASSUME RemoteTypeOK
  PROVE  /\ plan.entries \subseteq Path
         /\ plan.seen \in [Path -> Content \cup {None}]
         /\ plan.canon \in [Path -> Path \cup {None}]
         /\ Canonicals \subseteq Path /\ Duplicates \subseteq Path
         /\ Canonicals \cap Duplicates = {}
         /\ \A d \in Duplicates : plan.canon[d] \in Path
BY DEF RemoteTypeOK, PlanRecord, Canonicals, Duplicates

\* A canonical copy is linked to nothing, so only an edit of its own unsettles it.
LEMMA SteadyCanonicals ==
  ASSUME RemoteTypeOK
  PROVE  Canonicals \cap Steady = Canonicals \ edited
BY PlanType, NoneAssumption DEF RemoteTypeOK, Canonicals, Steady

LEMMA EmptyPlanType ==
  EmptyPlan \in PlanRecord /\ EmptyPlan.entries = {}
BY DEF EmptyPlan, FlatPlan, Nothing, PlanRecord

LEMMA NoArchiveType ==
  /\ NoArchive \in [batch : SUBSET Path, data : [Path -> Content \cup {None}],
                    torn : Path \cup {None}]
  /\ NoArchive.batch = {} /\ NoArchive.torn = None
  /\ \A p \in Path : NoArchive.data[p] = None
BY DEF NoArchive, Nothing

\* Every plan made from the hashes of what was found lists what was found.
LEMMA PlanOfHashes ==
  ASSUME listed \in [Path -> Content \cup {None}],
         NEW hash \in [Path -> Content \cup {None}],
         NEW pl \in PlansFromHashes(hash)
  PROVE  pl \in PlanRecord /\ pl.entries = Listed /\ pl.seen = listed
BY DEF PlansFromHashes, PlanRecord, Canons, Listed

LEMMA OnlyType ==
  ASSUME RemoteTypeOK, NEW E \in SUBSET Path
  PROVE  /\ Only(E) \in [Path -> Content \cup {None}]
         /\ \A p \in E : Only(E)[p] = src[p]
BY DEF RemoteTypeOK, Only

-----------------------------------------------------------------------------
(* The run ends, and what happens around it                                 *)

LEMMA InitIInv == Init => IInv
<1> SUFFICES ASSUME Init PROVE IInv
  OBVIOUS
<1>1. RemoteTypeOK
  <2>1. mode \in AllModes /\ args \in CopyArgs
        /\ dst \in [Path -> Content \cup {None, Torn}] /\ dirs \subseteq Dir
    BY RemoteAssumption DEF Init
  <2>2. edits \in 0..MaxEdits
    BY RemoteAssumption DEF Init
  <2> QED
    BY <2>1, <2>2, EmptyPlanType, NoArchiveType
       DEF Init, RemoteTypeOK, Nothing, Unpackable
<1> QED
  BY <1>1, EmptyPlanType
     DEF Init, IInv, NothingBeforePlan, AllToSend, FoundIsThere, PlannedIsThere,
         PlannedStages, ArchiveIsWhole, SentIsWhole

\* Off, no part of the invariant but the types has anything to say.
LEMMA ExitIInv ==
  ASSUME IInv, NEW code \in {None, EXIT_SUCCESS, EXIT_PARTIAL, EXIT_FAILURE},
         Exit(code)
  PROVE  IInv'
<1>1. RemoteTypeOK'
  BY EmptyPlanType, NoArchiveType
     DEF IInv, RemoteTypeOK, Exit, Nothing, Unpackable, inputVars, sourceVars,
         destVars, Canonicals, Duplicates
<1> QED
  BY <1>1
     DEF Exit, IInv, NothingBeforePlan, AllToSend, FoundIsThere, PlannedIsThere,
         PlannedStages, ArchiveIsWhole, SentIsWhole
LEMMA EditIInv == ASSUME IInv, NEW p \in Path, Edit(p) PROVE IInv'
<1>1. PICK c \in Content \cup {None} : src' = [src EXCEPT ![p] = c]
  BY DEF Edit
<1>2. RemoteTypeOK'
  <2>1. /\ src' \in [Path -> Content \cup {None}]
        /\ edited' \subseteq Path
    BY <1>1 DEF IInv, RemoteTypeOK, Edit
  <2>2. edits' \in 0..MaxEdits
    BY RemoteAssumption DEF IInv, RemoteTypeOK, Edit
  <2> QED
    BY <2>1, <2>2
       DEF IInv, RemoteTypeOK, Edit, destVars, planVars, sendVars, reportVars,
           sshVars, outVars, Unpackable, Canonicals, Duplicates, Sides
<1>3. \A q \in Path \ edited' : q # p /\ q \notin edited /\ src'[q] = src[q]
  BY <1>1 DEF Edit, IInv, RemoteTypeOK
<1>4. /\ edited \subseteq edited'
      /\ UNCHANGED <<mode, dst, planVars, sendVars, reportVars, unseen, stage>>
  BY DEF Edit, destVars, sshVars
<1>5. FoundIsThere' /\ PlannedIsThere' /\ ArchiveIsWhole'
  BY <1>3, <1>4, PlanType
     DEF IInv, RemoteTypeOK, FoundIsThere, PlannedIsThere, PlannedStages,
         ArchiveIsWhole, Complete, planVars, sendVars
<1>6. SentIsWhole'
  BY <1>4 DEF IInv, SentIsWhole, planVars, sendVars, reportVars, Canonicals, Steady
<1> QED
  BY <1>2, <1>4, <1>5, <1>6
     DEF IInv, NothingBeforePlan, AllToSend, planVars, sendVars, reportVars, Canonicals

\* Steps that touch neither files nor the state of the transfer.
LEMMA OutsideIInv ==
  ASSUME IInv, Cancel \/ \E s \in {"src", "dst"} : Drop(s)
  PROVE  IInv'
<1>1. /\ UNCHANGED <<inputVars, destVars, planVars, sendVars, reportVars, unseen,
                     exit, stage>>
      /\ alive' \subseteq alive /\ cancelled' \in BOOLEAN
  BY DEF Cancel, Drop, sshVars, outVars, IInv, RemoteTypeOK
<1>2. RemoteTypeOK'
  BY <1>1
     DEF IInv, RemoteTypeOK, inputVars, sourceVars, destVars, planVars, sendVars,
         reportVars, Unpackable, Canonicals, Duplicates, Sides
<1> QED
  BY <1>1, <1>2
     DEF IInv, inputVars, sourceVars, destVars, planVars, sendVars, reportVars,
         NothingBeforePlan, AllToSend, FoundIsThere, PlannedIsThere, PlannedStages,
         ArchiveIsWhole, Complete, SentIsWhole, Canonicals, Steady

-----------------------------------------------------------------------------
(* Up to the first batch                                                    *)

LEMMA ConnectIInv == ASSUME IInv, Connect PROVE IInv'
<1>1. RemoteTypeOK'
  BY RemoteAssumption
     DEF IInv, RemoteTypeOK, Connect, inputVars, sourceVars, planVars, sendVars,
         reportVars, outVars, Unpackable, Canonicals, Duplicates, Sides, AllModes
<1> QED
  BY <1>1
     DEF IInv, Connect, inputVars, sourceVars, planVars, sendVars, reportVars,
         NothingBeforePlan, AllToSend, FoundIsThere, PlannedIsThere, PlannedStages,
         ArchiveIsWhole, SentIsWhole, Canonicals, Steady

LEMMA FoundIInv ==
  ASSUME IInv, NEW l \in [Path -> Content \cup {None}], Found(l),
         alive' \subseteq alive, unseen' \in SUBSET {"cut", "pipe", "scan"},
         unseen' = {} => l = src
  PROVE  IInv'
<1>1. RemoteTypeOK'
  BY DEF IInv, RemoteTypeOK, Found, inputVars, sourceVars, destVars, sendVars,
         reportVars, outVars, Unpackable, Canonicals, Duplicates, Sides
<1> QED
  BY <1>1
     DEF IInv, Found, inputVars, sourceVars, sendVars, reportVars,
         NothingBeforePlan, AllToSend, FoundIsThere, PlannedIsThere, PlannedStages,
         ArchiveIsWhole, SentIsWhole

LEMMA ListIInv == ASSUME IInv, ScanLocal \/ ListRemote PROVE IInv'
<1>1. /\ src \in [Path -> Content \cup {None}]
      /\ unseen \subseteq {"cut", "pipe", "scan"}
      /\ Sources \subseteq Path
  BY DEF IInv, RemoteTypeOK, Sources
<1>2. CASE Found(src) /\ UNCHANGED sshVars
  BY <1>1, <1>2, FoundIInv DEF sshVars
<1>3. ASSUME NEW E \in SUBSET Sources, NEW p \in Path, NEW c \in Content,
             Found(Only(E)) \/ Found([Only(E) EXCEPT ![p] = c]),
             alive' \subseteq alive,
             unseen' = unseen \cup {"scan"} \/ unseen' = unseen \cup {"cut"}
      PROVE  IInv'
  <2>1. /\ Only(E) \in [Path -> Content \cup {None}]
        /\ [Only(E) EXCEPT ![p] = c] \in [Path -> Content \cup {None}]
    BY <1>1 DEF Only
  <2> QED
    BY <1>1, <1>3, <2>1, FoundIInv
<1>4. ASSUME NEW E \in SUBSET Sources, Found(Only(E)), alive' \subseteq alive,
             unseen' = unseen \cup {"scan"} \/ unseen' = unseen \cup {"cut"}
      PROVE  IInv'
  <2>1. Only(E) \in [Path -> Content \cup {None}]
    BY <1>1 DEF Only
  <2> QED
    BY <1>1, <1>4, <2>1, FoundIInv
<1>5. ASSUME NEW s, Cut(s)
      PROVE  alive' \subseteq alive /\ unseen' = unseen \cup {"cut"}
  BY <1>5 DEF Cut
<1> QED
  BY <1>2, <1>3, <1>4, <1>5 DEF ScanLocal, ListRemote

LEMMA PlannedIInv ==
  ASSUME IInv, NEW P, Planned(P),
         \A pl \in P : pl \in PlanRecord /\ pl.entries = Listed /\ pl.seen = listed,
         alive' \subseteq alive, unseen' \in SUBSET {"cut", "pipe", "scan"},
         unseen' = {} => unseen = {}
  PROVE  IInv'
<1>1. plan' \in PlanRecord /\ plan'.entries = Listed /\ plan'.seen = listed
  BY DEF Planned
<1>2. todo = {} /\ links = {} /\ archive = NoArchive /\ errors = {} /\ warned = {}
  BY DEF IInv, NothingBeforePlan, Planned
<1>3. UNCHANGED <<inputVars, destVars, sendVars, reportVars, outVars>> /\ stage' = "gate"
      /\ listed' = Nothing
  BY DEF Planned
<1>4. RemoteTypeOK'
  BY <1>1, <1>2, <1>3, NoArchiveType
     DEF IInv, RemoteTypeOK, inputVars, sourceVars, destVars, sendVars, reportVars,
         outVars, Nothing, Unpackable, Sides
<1>5. PlannedIsThere'
  <2>1. \A p \in Listed : p \in Path /\ listed[p] # None
    BY DEF Listed
  <2>2. unseen' = {} => \A p \in Path \ edited : listed[p] = src[p]
    BY DEF IInv, FoundIsThere, Planned
  <2> QED
    BY <1>1, <1>3, <2>1, <2>2 DEF PlannedIsThere, inputVars, sourceVars
<1> QED
  BY <1>3, <1>4, <1>5
     DEF IInv, NothingBeforePlan, AllToSend, FoundIsThere, ArchiveIsWhole, SentIsWhole

\* A file that vanished or was cut has no hash or a wrong one, but the plan is
\* still a plan of what was listed.
LEMMA PlanIInv == ASSUME IInv, PlanLocal \/ PlanRemote PROVE IInv'
<1>1. /\ listed \in [Path -> Content \cup {None}]
      /\ src \in [Path -> Content \cup {None}]
      /\ unseen \subseteq {"cut", "pipe", "scan"}
      /\ Listed \subseteq Path /\ RemoteTypeOK
  BY DEF IInv, RemoteTypeOK, Listed
<1>2. ASSUME NEW hash \in [Path -> Content \cup {None}],
             Planned(PlansFromHashes(hash)), alive' \subseteq alive,
             unseen' = unseen \/ unseen' = unseen \cup {"cut"}
      PROVE  IInv'
  <2>1. \A pl \in PlansFromHashes(hash) :
          pl \in PlanRecord /\ pl.entries = Listed /\ pl.seen = listed
    BY <1>1, PlanOfHashes
  <2> HIDE DEF PlansFromHashes
  <2> QED
    BY <1>1, <1>2, <2>1, PlannedIInv
<1>3. ASSUME Planned({FlatPlan(Listed, listed)}), UNCHANGED sshVars
      PROVE  IInv'
  <2>1. /\ FlatPlan(Listed, listed) \in PlanRecord
        /\ FlatPlan(Listed, listed).entries = Listed
        /\ FlatPlan(Listed, listed).seen = listed
    BY <1>1 DEF FlatPlan, PlanRecord
  <2> QED
    BY <1>1, <1>3, <2>1, PlannedIInv DEF sshVars
<1>4. ASSUME PlanLocal PROVE IInv'
  <2>1. CASE args.noDedup
    BY <1>3, <1>4, <2>1 DEF PlanLocal
  <2>2. CASE ~args.noDedup
    <3>1. PICK H \in SUBSET Path : Planned(PlansFromHashes(Only(H)))
      BY <1>1, <1>4, <2>2 DEF PlanLocal
    <3> QED
      BY <1>1, <1>2, <1>4, <3>1, OnlyType DEF PlanLocal, sshVars
  <2> QED
    BY <2>1, <2>2
<1>5. ASSUME PlanRemote PROVE IInv'
  <2> DEFINE hashable == IF "src" \in alive THEN Listed \cap Sources ELSE {}
  <2>1. hashable \in SUBSET Path
    BY <1>1
  <2> HIDE DEF hashable
  <2>2. ASSUME NEW hash \in RemoteHashes(hashable), Planned(PlansFromHashes(hash)),
               UNCHANGED sshVars
        PROVE  IInv'
    <3>1. hash \in [Path -> Content \cup {None}]
      BY <1>1, <2>1, OnlyType DEF RemoteHashes
    <3> QED
      BY <1>2, <2>2, <3>1 DEF sshVars
  <2>3. ASSUME NEW p \in hashable, NEW hash \in CutHashes(hashable, p),
               Planned(PlansFromHashes(hash)), Cut("src")
        PROVE  IInv'
    <3>1. hash \in [Path -> Content \cup {None}]
      BY <1>1, <2>1, OnlyType DEF CutHashes
    <3> QED
      BY <1>2, <2>3, <3>1 DEF Cut
  <2> QED
    BY <1>5, <2>2, <2>3 DEF PlanRemote, hashable
<1> QED
  BY <1>4, <1>5

LEMMA PassGateIInv == ASSUME IInv, PassGate PROVE IInv'
<1>1. RemoteTypeOK'
  BY NoArchiveType
     DEF IInv, RemoteTypeOK, PassGate, inputVars, sourceVars, destVars, planVars,
         reportVars, sshVars, outVars, Unpackable, Canonicals, Duplicates, Sides
<1> QED
  BY <1>1
     DEF IInv, PassGate, inputVars, sourceVars, planVars, reportVars, sshVars,
         NothingBeforePlan, AllToSend, FoundIsThere, PlannedIsThere, PlannedStages,
         ArchiveIsWhole, SentIsWhole, Canonicals

LEMMA MakeRootIInv == ASSUME IInv, MakeRoot PROVE IInv'
<1>1. /\ dirs' \subseteq Dir
      /\ alive' \subseteq alive /\ unseen' \in SUBSET {"cut", "pipe", "scan"}
      /\ unseen' = {} => unseen = {}
  BY RemoteAssumption DEF IInv, RemoteTypeOK, MakeRoot, Cut, sshVars
<1>2. /\ UNCHANGED <<inputVars, dst, planVars, sendVars, reportVars, outVars>>
      /\ stage = "mkdir" /\ stage' = "pack"
  BY DEF MakeRoot
<1>3. RemoteTypeOK'
  BY <1>1, <1>2
     DEF IInv, RemoteTypeOK, inputVars, sourceVars, planVars, sendVars, reportVars,
         outVars, Unpackable, Canonicals, Duplicates, Sides
<1> QED
  BY <1>1, <1>2, <1>3
     DEF IInv, inputVars, sourceVars, planVars, sendVars, NothingBeforePlan, AllToSend,
         FoundIsThere, PlannedIsThere, PlannedStages, ArchiveIsWhole, SentIsWhole,
         Canonicals

-----------------------------------------------------------------------------
(* Batches                                                                  *)

\* An archive of B has come into memory.
LEMMA PackedIInv ==
  ASSUME IInv, stage = "pack",
         NEW B \in SUBSET todo, NEW files \in SUBSET (B \cap Sources),
         NEW torn \in (B \cap Sources) \cup {None}, Packed(B, files, torn),
         alive' \subseteq alive, unseen' \in SUBSET {"cut", "pipe", "scan"},
         unseen' = {} => unseen = {} /\ files = B /\ torn = None,
         UNCHANGED <<inputVars, destVars, planVars, warned, outVars>>
  PROVE  IInv'
<1>1. /\ B \subseteq Canonicals /\ B \subseteq plan.entries
      /\ files \subseteq B /\ files \subseteq Path /\ RemoteTypeOK
      /\ torn \in Path \cup {None} /\ B \subseteq Path
  BY PlanType DEF IInv, RemoteTypeOK, Canonicals
<1>2. /\ Only(files) \in [Path -> Content \cup {None}]
      /\ \A p \in files : Only(files)[p] = src[p]
      /\ \A p \in Path \ files : Only(files)[p] = None
  BY <1>1, OnlyType DEF Only
<1>3. /\ archive'.batch = B /\ archive'.data = Only(files) /\ archive'.torn = torn
      /\ archive' \in [batch : SUBSET Path, data : [Path -> Content \cup {None}],
                       torn : Path \cup {None}]
      /\ UNCHANGED <<todo, links, errors>> /\ stage' = "unpack"
  BY <1>1, <1>2 DEF Packed
<1>4. Unpackable' \subseteq B
  BY <1>1, <1>2, <1>3 DEF Unpackable
<1>5. RemoteTypeOK'
  BY <1>3, <1>4
     DEF IInv, RemoteTypeOK, inputVars, sourceVars, destVars, planVars, outVars,
         Canonicals, Duplicates, Sides
<1>6. ArchiveIsWhole'
  <2>1. ASSUME unseen' = {}, NEW p \in B \ edited
        PROVE  archive'.data[p] = plan.seen[p]
    BY <1>1, <1>2, <1>3, <2>1 DEF IInv, PlannedIsThere, PlannedStages
  <2> QED
    BY <1>3, <2>1 DEF ArchiveIsWhole, Complete, inputVars, sourceVars, planVars
<1>7. SentIsWhole'
  BY <1>3 DEF IInv, SentIsWhole, Canonicals, Steady, planVars, inputVars, sourceVars,
              destVars
<1> QED
  BY <1>3, <1>5, <1>6, <1>7
     DEF IInv, NothingBeforePlan, AllToSend, FoundIsThere, PlannedIsThere,
         PlannedStages, inputVars, sourceVars, planVars

\* The batch B is over: reported as failed, or its copies are as planned.
LEMMA BatchOverIInv ==
  ASSUME IInv, stage \in {"pack", "unpack"}, NEW B \in SUBSET todo,
         BatchDone(B) \/ BatchFails(B),
         dst' \in [Path -> Content \cup {None, Torn}], dirs' \subseteq Dir,
         alive' \subseteq alive, unseen' \in SUBSET {"cut", "pipe", "scan"},
         unseen' = {} =>
           /\ unseen = {}
           /\ \A p \in Path \ B : dst'[p] = dst[p]
           /\ BatchFails(B) \/ \A p \in B \ edited : dst'[p] = plan.seen[p],
         UNCHANGED <<inputVars, planVars, warned, outVars>>
  PROVE  IInv'
<1>1. /\ todo' = todo \ B /\ archive' = NoArchive /\ stage' = "pack"
      /\ links' = links /\ errors' \in {errors, errors \cup B}
      /\ BatchFails(B) => errors' = errors \cup B
  BY DEF BatchDone, BatchFails
<1>2. RemoteTypeOK'
  BY <1>1, NoArchiveType
     DEF IInv, RemoteTypeOK, inputVars, sourceVars, planVars, outVars, Unpackable,
         Canonicals, Duplicates, Sides
<1>3. SentIsWhole'
  <2> SUFFICES ASSUME unseen' = {},
                      NEW p \in (Canonicals \cap Steady) \ (todo' \cup errors')
               PROVE  dst'[p] = plan.seen[p]
    BY DEF SentIsWhole, Canonicals, Steady, planVars, inputVars, sourceVars
  <2>1. p \in Path /\ p \notin edited
    BY PlanType, SteadyCanonicals DEF IInv
  <2>2. CASE p \in B
    BY <1>1, <2>1, <2>2
  <2>3. CASE p \notin B
    BY <1>1, <2>1, <2>3 DEF IInv, SentIsWhole
  <2> QED
    BY <2>2, <2>3
<1> QED
  BY <1>1, <1>2, <1>3
     DEF IInv, NothingBeforePlan, AllToSend, FoundIsThere, PlannedIsThere,
         PlannedStages, ArchiveIsWhole, inputVars, sourceVars, planVars

LEMMA PackIInv == ASSUME IInv, NEW B \in SUBSET todo, Pack(B) PROVE IInv'
<1>1. /\ stage = "pack"
      /\ UNCHANGED <<inputVars, destVars, planVars, warned, outVars>>
      /\ PackLocal(B) \/ PackRemote(B)
  BY DEF Pack
<1>2. /\ unseen \subseteq {"cut", "pipe", "scan"}
      /\ dst \in [Path -> Content \cup {None, Torn}] /\ dirs \subseteq Dir
      /\ Sources \subseteq Path
  BY DEF IInv, RemoteTypeOK, Sources
<1>3. ASSUME BatchFails(B), alive' \subseteq alive,
             unseen' = unseen \/ unseen' = unseen \cup {"cut"}
      PROVE  IInv'
  BY <1>1, <1>2, <1>3, BatchOverIInv DEF destVars
<1>4. ASSUME NEW files \in SUBSET (B \cap Sources),
             NEW torn \in (B \cap Sources) \cup {None}, Packed(B, files, torn),
             alive' \subseteq alive,
             \/ unseen' = unseen /\ files = B /\ torn = None
             \/ unseen' = unseen \cup {"cut"} \/ unseen' = unseen \cup {"pipe"}
      PROVE  IInv'
  BY <1>1, <1>2, <1>4, PackedIInv
<1>5. ASSUME B \subseteq Sources, Packed(B, B, None), UNCHANGED sshVars
      PROVE  IInv'
  BY <1>4, <1>5 DEF sshVars
<1>6. ASSUME PackLocal(B) PROVE IInv'
  BY <1>3, <1>5, <1>6 DEF PackLocal, sshVars
<1>7. ASSUME PackRefused(B) PROVE IInv'
  <2>1. CASE Gzipped
    <3>1. PICK files \in SUBSET (B \cap Sources) : Packed(B, files, None)
      BY <1>7, <2>1 DEF PackRefused
    <3> QED
      BY <1>4, <1>7, <2>1, <3>1 DEF PackRefused
  <2> QED
    BY <1>3, <1>7, <2>1 DEF PackRefused
<1>8. ASSUME PackCut(B) PROVE IInv'
  <2>1. alive' \subseteq alive /\ unseen' = unseen \cup {"cut"}
    BY <1>8 DEF PackCut, Cut
  <2>2. CASE Gzipped
    BY <1>3, <1>8, <2>1, <2>2 DEF PackCut
  <2>3. CASE ~Gzipped
    <3>1. PICK files \in SUBSET (B \cap Sources), torn \in (B \cap Sources) \cup {None} :
            Packed(B, files, torn)
      BY <1>8, <2>3 DEF PackCut
    <3> QED
      BY <1>4, <2>1, <3>1
  <2> QED
    BY <2>2, <2>3
<1>9. ASSUME PackRemote(B) PROVE IInv'
  BY <1>3, <1>5, <1>7, <1>8, <1>9 DEF PackRemote, sshVars
<1> QED
  BY <1>1, <1>6, <1>9

\* Unpacking writes contents of the archive, and perhaps part of a file of it.
LEMMA ExtractEffect ==
  ASSUME IInv, NEW files \in SUBSET Unpackable, NEW torn \in Path \cup {None},
         Extract(files, torn)
  PROVE  /\ dst' \in [Path -> Content \cup {None, Torn}]
         /\ dirs' \subseteq Dir
         /\ \A p \in files : dst'[p] = archive.data[p]
         /\ \A p \in Path \ files : p # torn => dst'[p] = dst[p]
<1>1. files \subseteq Path
  BY DEF Unpackable
<1> QED
  BY <1>1, RemoteAssumption DEF Extract, IInv, RemoteTypeOK

LEMMA UnpackIInv == ASSUME IInv, Unpack PROVE IInv'
<1>1. /\ stage = "unpack"
      /\ UNCHANGED <<inputVars, planVars, warned, outVars>>
      /\ UnpackLocal \/ UnpackRemote
  BY DEF Unpack
<1>2. /\ unseen \subseteq {"cut", "pipe", "scan"}
      /\ dst \in [Path -> Content \cup {None, Torn}] /\ dirs \subseteq Dir
      /\ archive.batch \in SUBSET todo /\ archive.batch \subseteq plan.entries
      /\ archive.batch \subseteq Path
      /\ Unpackable \subseteq archive.batch
      /\ archive.torn \in Path \cup {None}
  BY PlanType DEF IInv, RemoteTypeOK, Canonicals
<1>3. unseen = {} =>
        /\ archive.torn = None
        /\ \A p \in archive.batch \ edited :
             archive.data[p] = plan.seen[p] /\ p \in Unpackable
  BY <1>1, <1>2
     DEF IInv, ArchiveIsWhole, Complete, PlannedIsThere, PlannedStages, Unpackable
<1>4. ASSUME UnpackOk PROVE IInv'
  <2>1. /\ Extract(Unpackable, None) /\ BatchDone(archive.batch)
        /\ UNCHANGED sshVars
    BY <1>4 DEF UnpackOk
  <2>2. /\ dst' \in [Path -> Content \cup {None, Torn}] /\ dirs' \subseteq Dir
        /\ \A p \in Unpackable : dst'[p] = archive.data[p]
        /\ \A p \in Path \ Unpackable : dst'[p] = dst[p]
    BY <2>1, ExtractEffect, NoneAssumption
  <2> QED
    BY <1>1, <1>2, <1>3, <2>1, <2>2, BatchOverIInv DEF sshVars
<1>5. ASSUME ExtractPart
      PROVE  /\ dst' \in [Path -> Content \cup {None, Torn}] /\ dirs' \subseteq Dir
             /\ unseen = {} => \A p \in Path \ archive.batch : dst'[p] = dst[p]
  <2>1. PICK files \in SUBSET Unpackable :
          \E torn \in (Unpackable \ files) \cup {archive.torn, None} :
            Extract(files, torn)
    BY <1>5 DEF ExtractPart
  <2>2. PICK torn \in (Unpackable \ files) \cup {archive.torn, None} :
          Extract(files, torn)
    BY <2>1
  <2> QED
    BY <1>2, <1>3, <2>2, ExtractEffect, NoneAssumption
<1>6. ASSUME ExtractPart \/ UNCHANGED destVars, BatchFails(archive.batch),
             UNCHANGED sshVars
      PROVE  IInv'
  BY <1>1, <1>2, <1>5, <1>6, BatchOverIInv DEF sshVars, destVars
<1>7. ASSUME Cut("dst"), ExtractPart, BatchDone(archive.batch) PROVE IInv'
  BY <1>1, <1>2, <1>5, <1>7, BatchOverIInv DEF Cut
<1>8. ASSUME GunzipFails PROVE IInv'
  <2>1. ExtractPart
    BY <1>8 DEF GunzipFails, ExtractPart
  <2> QED BY <1>1, <1>2, <1>5, <1>8, <2>1, BatchOverIInv DEF GunzipFails
<1> QED
  BY <1>1, <1>4, <1>6, <1>7, <1>8 DEF UnpackLocal, UnpackRemote, UnpackRemoteFails

-----------------------------------------------------------------------------
(* Links                                                                    *)

LEMMA AllSentIInv == ASSUME IInv, AllSent PROVE IInv'
<1>1. RemoteTypeOK'
  BY DEF IInv, RemoteTypeOK, AllSent, inputVars, sourceVars, destVars, planVars,
         sendVars, reportVars, sshVars, outVars, Unpackable, Canonicals, Duplicates, Sides
<1> QED
  BY <1>1
     DEF IInv, AllSent, inputVars, sourceVars, destVars, planVars, sendVars, reportVars,
         sshVars, NothingBeforePlan, AllToSend, FoundIsThere, PlannedIsThere,
         PlannedStages, ArchiveIsWhole, SentIsWhole, Canonicals, Steady

\* A link changes the name of a duplicate, and no canonical copy.
LEMMA LinkIInv == ASSUME IInv, Link PROVE IInv'
<1>1. /\ stage = "link" /\ links \subseteq Duplicates /\ Duplicates \subseteq Path
      /\ UNCHANGED <<inputVars, planVars, todo, archive, errors, outVars, stage>>
  BY DEF Link, IInv, RemoteTypeOK, Duplicates, PlanRecord
<1> DEFINE Effect ==
       /\ dst' = dst \/ \E d \in links : Linked(d)
       /\ dirs' = dirs \/ \E d \in links : dirs' = dirs \cup {DirOf[d]}
       /\ links' \subseteq links
       /\ warned' = warned \/ \E S \in SUBSET links : warned' = warned \cup S
       /\ alive' \subseteq alive
       /\ unseen' = unseen \/ unseen' = unseen \cup {"cut"}
<1>2. Effect
  <2>1. CASE links # {} /\ LinkRemoteCut
    BY <2>1 DEF LinkRemoteCut, Cut, destVars
  <2>2. ASSUME NEW d \in links, LinkRemote(d) \/ LinkRemoteFails(d) \/ LinkLocal(d)
        PROVE  Effect
    BY <2>2 DEF LinkRemote, LinkRemoteFails, LinkLocal, sshVars, destVars
  <2> QED
    BY <2>1, <2>2 DEF Link
<1>3. dst' \in [Path -> Content \cup {None, Torn}] /\ dirs' \subseteq Dir
  BY <1>1, <1>2, PlanType, RemoteAssumption DEF Linked, IInv, RemoteTypeOK
<1>4. \A p \in Canonicals : dst'[p] = dst[p]
  BY <1>1, <1>2, PlanType DEF Linked, IInv, RemoteTypeOK
<1>5. RemoteTypeOK'
  BY <1>1, <1>2, <1>3
     DEF IInv, RemoteTypeOK, inputVars, sourceVars, planVars, outVars, Unpackable,
         Canonicals, Duplicates, Sides
<1>6. SentIsWhole'
  BY <1>1, <1>2, <1>4
     DEF IInv, SentIsWhole, inputVars, sourceVars, planVars, Canonicals, Steady
<1> QED
  BY <1>1, <1>2, <1>5, <1>6
     DEF IInv, inputVars, sourceVars, planVars, NothingBeforePlan, AllToSend,
         FoundIsThere, PlannedIsThere, PlannedStages, ArchiveIsWhole

-----------------------------------------------------------------------------
(* A run that exits 0: the plan                                             *)

\* A plan made from hashes groups files of the same hash, each group around an
\* entry that is copied itself.
LEMMA PlanGroups ==
  ASSUME NEW hash \in [Path -> Content \cup {None}],
         \A p \in Path : hash[p] # None => p \in Listed,
         NEW pl \in PlansFromHashes(hash), NEW d \in pl.entries, pl.canon[d] # None
  PROVE  /\ pl.canon[d] \in pl.entries /\ pl.canon[pl.canon[d]] = None
         /\ hash[d] # None /\ hash[pl.canon[d]] = hash[d]
<1>1. PICK canon \in Canons(hash) :
        pl = [entries |-> Listed, seen |-> listed, hash |-> hash, canon |-> canon]
  BY DEF PlansFromHashes
<1>2. pl.canon = canon /\ pl.entries = Listed /\ d \in Path
  BY <1>1 DEF Listed
<1>3. /\ hash[d] # None
      /\ \E head \in Group(hash, d) : \A q \in Group(hash, d) :
           canon[q] = IF q = head THEN None ELSE head
  BY <1>2 DEF Canons
<1>4. PICK head \in Group(hash, d) : \A q \in Group(hash, d) :
        canon[q] = IF q = head THEN None ELSE head
  BY <1>3
<1>5. d \in Group(hash, d) /\ head \in Path /\ hash[head] = hash[d]
  BY <1>2 DEF Group
<1> QED BY <1>2, <1>3, <1>4, <1>5

\* While there is no plan, or no longer one, nothing is promised but of a success.
LEMMA NoPlanMirror ==
  ASSUME ~HasPlan', stage' # "off" \/ exit' # EXIT_SUCCESS \/ args'.dryRun
  PROVE  MirrorParts'
BY DEF HasPlan, MirrorParts, AllPlanned, GroupsAlike, LinksWait, LinkedLikeCanonical,
       GzipIsWhole, TransferIsMirror, GzipCatchesCuts, Succeeded

\* The plan is the same, and so is the source.
LEMMA SamePlanMirror ==
  ASSUME RemoteTypeOK, MirrorParts, HasPlan, stage' # "off", UNCHANGED <<inputVars, plan>>,
         unseen' = {} => unseen = {}
  PROVE  /\ AllPlanned' /\ GroupsAlike'
         /\ TransferIsMirror' /\ GzipCatchesCuts'
         /\ Canonicals' = Canonicals /\ Duplicates' = Duplicates /\ Gzipped' = Gzipped
BY DEF MirrorParts, HasPlan, AllPlanned, GroupsAlike, Steady, Canonicals, Duplicates,
       inputVars, sourceVars, TransferIsMirror, GzipCatchesCuts, Succeeded, Gzipped

LEMMA PlannedMirror ==
  ASSUME TransferInv, NEW P, Planned(P), unseen' = {} => unseen = {},
         \A pl \in P :
           /\ pl.entries = Listed
           /\ \A d \in Listed : pl.canon[d] # None =>
                /\ pl.canon[d] \in Listed /\ pl.canon[pl.canon[d]] = None
                /\ unseen' = {} => src[d] = src[pl.canon[d]]
  PROVE  MirrorParts'
<1>1. /\ plan' \in P /\ stage = "plan" /\ stage' = "gate"
      /\ UNCHANGED inputVars
  BY DEF Planned
<1>2. plan'.entries = Listed
  BY <1>1
<1>3. AllPlanned'
  <2>1. unseen' = {} => \A p \in Path \ edited : listed[p] = src[p]
    BY <1>1 DEF TransferInv, IInv, FoundIsThere
  <2> QED BY <1>1, <1>2, <2>1 DEF AllPlanned, Listed, inputVars, sourceVars
<1>4. GroupsAlike'
  <2> SUFFICES ASSUME NEW d \in Duplicates'
               PROVE  /\ plan'.canon[d] \in Canonicals'
                      /\ unseen' = {} => src'[d] = src'[plan'.canon[d]]
    BY DEF GroupsAlike
  <2>1. d \in Listed /\ plan'.canon[d] # None
    BY <1>2 DEF Duplicates
  <2> QED BY <1>1, <1>2, <2>1 DEF Canonicals, inputVars, sourceVars
<1> QED BY <1>1, <1>3, <1>4 DEF MirrorParts, LinksWait, LinkedLikeCanonical, GzipIsWhole,
        TransferIsMirror, GzipCatchesCuts, Succeeded

LEMMA PlanMirror == ASSUME TransferInv, PlanLocal \/ PlanRemote PROVE MirrorParts'
<1>1. /\ listed \in [Path -> Content \cup {None}]
      /\ src \in [Path -> Content \cup {None}]
      /\ Listed \subseteq Path /\ RemoteTypeOK
  BY DEF TransferInv, IInv, RemoteTypeOK, Listed
<1>2. ASSUME NEW hash \in [Path -> Content \cup {None}],
             \A p \in Path : hash[p] # None => p \in Listed,
             unseen' = {} => \A p \in Path : hash[p] # None => hash[p] = src[p],
             Planned(PlansFromHashes(hash)), unseen' = {} => unseen = {}
      PROVE  MirrorParts'
  <2>1. ASSUME NEW pl \in PlansFromHashes(hash)
        PROVE  /\ pl.entries = Listed
               /\ \A d \in Listed : pl.canon[d] # None =>
                    /\ pl.canon[d] \in Listed /\ pl.canon[pl.canon[d]] = None
                    /\ unseen' = {} => src[d] = src[pl.canon[d]]
    <3>1. pl.entries = Listed
      BY <1>1, PlanOfHashes
    <3> HIDE DEF PlansFromHashes
    <3>2. ASSUME NEW d \in Listed, pl.canon[d] # None
          PROVE  /\ pl.canon[d] \in Listed /\ pl.canon[pl.canon[d]] = None
                 /\ unseen' = {} => src[d] = src[pl.canon[d]]
      <4>1. /\ pl.canon[d] \in pl.entries /\ pl.canon[pl.canon[d]] = None
            /\ hash[d] # None /\ hash[pl.canon[d]] = hash[d]
        BY <1>2, <3>1, <3>2, PlanGroups
      <4> QED BY <1>1, <1>2, <3>1, <4>1
    <3> QED BY <3>1, <3>2
  <2> HIDE DEF PlansFromHashes
  <2> QED BY <1>2, <2>1, PlannedMirror
<1>3. ASSUME Planned({FlatPlan(Listed, listed)}), UNCHANGED sshVars
      PROVE  MirrorParts'
  <2> DEFINE pl == FlatPlan(Listed, listed)
  <2>1. pl.entries = Listed /\ \A d \in Listed : pl.canon[d] = None
    BY <1>1 DEF FlatPlan
  <2> HIDE DEF pl
  <2>2. Planned({pl}) /\ (unseen' = {} => unseen = {})
    BY <1>3 DEF pl, sshVars
  <2> QED BY <2>1, <2>2, PlannedMirror
<1>4. ASSUME NEW H \in SUBSET (Listed \cap Sources)
      PROVE  /\ Only(H) \in [Path -> Content \cup {None}]
             /\ \A p \in Path : Only(H)[p] # None => p \in H /\ Only(H)[p] = src[p]
  BY <1>1 DEF Only
<1>5. ASSUME PlanLocal PROVE MirrorParts'
  <2>1. CASE args.noDedup
    BY <1>3, <1>5, <2>1 DEF PlanLocal
  <2>2. CASE ~args.noDedup
    <3>1. PICK H \in SUBSET (Listed \cap Sources) : Planned(PlansFromHashes(Only(H)))
      BY <1>1, <1>5, <2>2 DEF PlanLocal
    <3>2. UNCHANGED unseen
      BY <1>5 DEF PlanLocal, sshVars
    <3> HIDE DEF PlansFromHashes
    <3> QED BY <1>2, <1>4, <3>1, <3>2
  <2> QED BY <2>1, <2>2
<1>6. ASSUME PlanRemote PROVE MirrorParts'
  <2> DEFINE hashable == IF "src" \in alive THEN Listed \cap Sources ELSE {}
  <2>1. hashable \in SUBSET (Listed \cap Sources)
    BY <1>1
  <2> HIDE DEF hashable
  <2>2. ASSUME NEW hash \in RemoteHashes(hashable), Planned(PlansFromHashes(hash)),
               UNCHANGED sshVars
        PROVE  MirrorParts'
    <3>1. PICK H \in SUBSET (Listed \cap Sources) : hash = Only(H)
      BY <2>1 DEF RemoteHashes
    <3>2. UNCHANGED unseen
      BY <2>2 DEF sshVars
    <3> QED BY <1>2, <1>4, <2>2, <3>1, <3>2
  <2>3. ASSUME NEW p \in hashable, NEW hash \in CutHashes(hashable, p),
               Planned(PlansFromHashes(hash)), Cut("src")
        PROVE  MirrorParts'
    <3>1. PICK H \in SUBSET (Listed \cap Sources), c \in Content :
            hash = [Only(H) EXCEPT ![p] = c]
      BY <2>1 DEF CutHashes
    <3>2. /\ hash \in [Path -> Content \cup {None}]
          /\ \A q \in Path : hash[q] # None => q \in Listed
      BY <1>1, <1>4, <2>1, <3>1
    <3>3. unseen' # {}
      BY <2>3 DEF Cut
    <3> QED BY <1>2, <2>3, <3>2, <3>3
  <2> QED BY <1>6, <2>2, <2>3 DEF PlanRemote, hashable
<1> QED BY <1>5, <1>6

-----------------------------------------------------------------------------
(* A run that exits 0: sending and linking                                  *)

\* Connecting, the gate and the root: nothing has been sent yet.
LEMMA BeforeSendingMirror ==
  ASSUME TransferInv, Connect \/ PassGate \/ MakeRoot \/ ScanLocal \/ ListRemote
  PROVE  MirrorParts'
<1>1. RemoteTypeOK /\ MirrorParts
  BY DEF TransferInv, IInv
<1>2. CASE ScanLocal \/ ListRemote
  <2>1. stage' = "plan"
    BY <1>2 DEF ScanLocal, ListRemote, Found
  <2> QED BY <2>1, NoPlanMirror DEF HasPlan
<1>3. CASE Connect /\ mode # "upload"
  <2>1. stage' = "list"
    BY <1>3 DEF Connect
  <2> QED BY <2>1, NoPlanMirror DEF HasPlan
<1>4. CASE PassGate \/ MakeRoot \/ (Connect /\ mode = "upload")
  <2>1. /\ HasPlan /\ stage' \in {"connect", "mkdir", "pack"}
        /\ UNCHANGED <<inputVars, plan, dst>>
    BY <1>4 DEF PassGate, MakeRoot, Connect, HasPlan, planVars, destVars
  <2>2. unseen' = {} => unseen = {}
    BY <1>4 DEF PassGate, MakeRoot, Connect, Cut, sshVars
  <2>3. /\ AllPlanned' /\ GroupsAlike' /\ TransferIsMirror' /\ GzipCatchesCuts'
        /\ Canonicals' = Canonicals /\ Duplicates' = Duplicates
    BY <1>1, <2>1, <2>2, SamePlanMirror
  <2>4. links' = Duplicates
    BY <1>1, <1>4 DEF PassGate, MakeRoot, Connect, MirrorParts, LinksWait, HasPlan, sendVars
  <2>5. stage' = "pack" => todo' = Canonicals
    BY <1>4 DEF PassGate, MakeRoot, Connect, TransferInv, IInv, AllToSend, sendVars
  <2> QED
    BY <2>1, <2>3, <2>4, <2>5 DEF MirrorParts, LinksWait, LinkedLikeCanonical, GzipIsWhole
<1> QED BY <1>2, <1>3, <1>4

\* Batches leave the links alone, and a gzipped one comes whole or not at all.
LEMMA PackMirror == ASSUME TransferInv, NEW B \in SUBSET todo, Pack(B) PROVE MirrorParts'
<1>1. /\ RemoteTypeOK /\ MirrorParts /\ B \subseteq Path
      /\ src \in [Path -> Content \cup {None}]
  BY PlanType DEF TransferInv, IInv, RemoteTypeOK
<1>2. /\ stage = "pack" /\ stage' \in {"pack", "unpack"}
      /\ UNCHANGED <<inputVars, plan, dst, links>>
  BY DEF Pack, PackLocal, PackRemote, PackRefused, PackCut, Packed, BatchFails, planVars, destVars
<1>3. unseen' = {} => unseen = {}
  BY DEF Pack, PackLocal, PackRemote, PackRefused, PackCut, Cut, sshVars
<1>4. /\ AllPlanned' /\ GroupsAlike' /\ TransferIsMirror' /\ GzipCatchesCuts'
      /\ Canonicals' = Canonicals /\ Duplicates' = Duplicates /\ Gzipped' = Gzipped
  BY <1>1, <1>2, <1>3, SamePlanMirror DEF HasPlan
<1>5. LinksWait' /\ LinkedLikeCanonical'
  BY <1>1, <1>2, <1>4 DEF MirrorParts, LinksWait, LinkedLikeCanonical, HasPlan
<1>6. ASSUME Gzipped, "pipe" \notin unseen'
      PROVE  \/ stage' = "pack" /\ todo' = todo \ B /\ errors' = errors \cup B
             \/ /\ stage' = "unpack" /\ todo' = todo /\ errors' = errors
                /\ B \subseteq Sources
                /\ archive' = [batch |-> B, data |-> Only(B), torn |-> None]
  BY <1>6 DEF Pack, PackLocal, PackRemote, PackRefused, PackCut, Packed, BatchFails, Gzipped
<1>7. "pipe" \notin unseen' => "pipe" \notin unseen
  BY DEF Pack, PackLocal, PackRemote, PackRefused, PackCut, Cut, sshVars
<1>8. GzipIsWhole'
  <2> SUFFICES ASSUME Gzipped, "pipe" \notin unseen' PROVE GzipIsWhole'
    BY <1>4 DEF GzipIsWhole
  <2>1. \A p \in Canonicals \ (todo \cup errors \cup edited) : dst[p] = src[p]
    BY <1>1, <1>2, <1>7 DEF MirrorParts, GzipIsWhole
  <2>2. CASE stage' = "pack" /\ todo' = todo \ B /\ errors' = errors \cup B
    BY <1>2, <1>4, <2>1, <2>2 DEF GzipIsWhole, inputVars, sourceVars
  <2>3. CASE /\ stage' = "unpack" /\ todo' = todo /\ errors' = errors
             /\ B \subseteq Sources
             /\ archive' = [batch |-> B, data |-> Only(B), torn |-> None]
    <3>1. archive'.batch = B /\ archive'.torn = None /\ archive'.data = Only(B)
      BY <2>3
    <3>2. \A p \in B : Only(B)[p] = src[p] /\ src[p] # None
      BY <1>1, <2>3 DEF Only, Sources
    <3> QED BY <1>2, <1>4, <2>1, <2>3, <3>1, <3>2
            DEF GzipIsWhole, Complete, inputVars, sourceVars
  <2> QED BY <1>6, <2>2, <2>3
<1> QED BY <1>4, <1>5, <1>8 DEF MirrorParts

LEMMA UnpackMirror == ASSUME TransferInv, Unpack PROVE MirrorParts'
<1>1. /\ IInv /\ RemoteTypeOK /\ MirrorParts
      /\ Unpackable \subseteq archive.batch /\ archive.batch \subseteq Canonicals
      /\ archive.batch \subseteq Path
  BY PlanType DEF TransferInv, IInv, RemoteTypeOK
<1>2. /\ stage = "unpack" /\ stage' = "pack"
      /\ UNCHANGED <<inputVars, plan, links>>
      /\ todo' = todo \ archive.batch
  BY DEF Unpack, UnpackLocal, UnpackRemote, UnpackOk, UnpackRemoteFails, GunzipFails,
     BatchFails, BatchDone, planVars
<1>3. unseen' = {} => unseen = {}
  BY DEF Unpack, UnpackLocal, UnpackRemote, UnpackOk, UnpackRemoteFails, GunzipFails, Cut,
     sshVars
<1>4. /\ AllPlanned' /\ GroupsAlike' /\ TransferIsMirror' /\ GzipCatchesCuts'
      /\ Canonicals' = Canonicals /\ Duplicates' = Duplicates /\ Gzipped' = Gzipped
  BY <1>1, <1>2, <1>3, SamePlanMirror DEF HasPlan
<1>5. LinksWait' /\ LinkedLikeCanonical'
  BY <1>1, <1>2, <1>4 DEF MirrorParts, LinksWait, LinkedLikeCanonical, HasPlan
<1>6. GzipIsWhole'
  <2> SUFFICES ASSUME Gzipped, "pipe" \notin unseen', stage' = "pack",
                      NEW p \in Canonicals \ (todo' \cup errors' \cup edited)
               PROVE  dst'[p] = src[p]
    BY <1>2, <1>4 DEF GzipIsWhole, inputVars, sourceVars
  <2>1. UnpackLocal /\ UNCHANGED unseen
    BY DEF Unpack, UnpackRemote, UnpackLocal, UnpackOk, GunzipFails, DestIsRemote, Gzipped,
           sshVars
  <2>2. /\ Complete /\ \A q \in archive.batch : archive.data[q] # None
        /\ \A q \in archive.batch \ edited : archive.data[q] = src[q]
        /\ \A q \in Canonicals \ (todo \cup errors \cup edited) : dst[q] = src[q]
    BY <1>1, <1>2, <2>1 DEF MirrorParts, GzipIsWhole
  <2>3. p \in Path
    BY <1>1, PlanType
  <2>4. CASE UnpackOk
    <3>1. Extract(Unpackable, None) /\ errors' = errors
      BY <2>4 DEF UnpackOk, BatchDone
    <3>2. /\ \A q \in Unpackable : dst'[q] = archive.data[q]
          /\ \A q \in Path \ Unpackable : dst'[q] = dst[q]
      <4>1. IInv /\ None \in Path \cup {None} /\ Unpackable \in SUBSET Unpackable
        BY <1>1
      <4>2. /\ \A q \in Unpackable : dst'[q] = archive.data[q]
            /\ \A q \in Path \ Unpackable : q # None => dst'[q] = dst[q]
        BY <3>1, <4>1, ExtractEffect
      <4> QED BY <4>2, NoneAssumption
    <3>3. Unpackable = archive.batch
      BY <1>1, <2>2 DEF Unpackable
    <3> QED BY <1>2, <2>2, <2>3, <3>1, <3>2, <3>3
  <2>5. CASE ~UnpackOk
    <3>1. ExtractPart /\ errors' = errors \cup archive.batch
      BY <2>1, <2>5 DEF UnpackLocal, BatchFails
    <3>2. PICK files \in SUBSET Unpackable :
            \E torn \in (Unpackable \ files) \cup {archive.torn, None} : Extract(files, torn)
      BY <3>1 DEF ExtractPart
    <3>3. PICK torn \in (Unpackable \ files) \cup {archive.torn, None} : Extract(files, torn)
      BY <3>2
    <3>4. p \notin archive.batch /\ p \notin files /\ p # torn
      BY <1>1, <1>2, <2>2, <2>3, <3>1, <3>3, NoneAssumption DEF Complete
    <3>5. torn \in Path \cup {None}
      BY <1>1, <2>2 DEF Complete
    <3>6. IInv
      BY <1>1
    <3>7. \A q \in Path \ files : q # torn => dst'[q] = dst[q]
      BY <3>3, <3>5, <3>6, ExtractEffect
    <3>8. dst[p] = src[p]
      BY <1>2, <2>2, <3>1, <3>4
    <3> QED BY <2>3, <3>4, <3>7, <3>8
  <2> QED BY <2>4, <2>5
<1> QED BY <1>4, <1>5, <1>6 DEF MirrorParts

LEMMA AllSentMirror == ASSUME TransferInv, AllSent PROVE MirrorParts'
<1>1. /\ RemoteTypeOK /\ MirrorParts
  BY DEF TransferInv, IInv
<1>2. /\ stage = "pack" /\ stage' = "link"
      /\ UNCHANGED <<inputVars, plan, links, dst, todo, errors, unseen>>
  BY DEF AllSent, planVars, sendVars, destVars, reportVars, sshVars
<1>3. /\ AllPlanned' /\ GroupsAlike' /\ TransferIsMirror' /\ GzipCatchesCuts'
      /\ Canonicals' = Canonicals /\ Duplicates' = Duplicates /\ Gzipped' = Gzipped
  BY <1>1, <1>2, SamePlanMirror DEF HasPlan
<1>4. links = Duplicates /\ todo = {}
  BY <1>1, <1>2 DEF AllSent, MirrorParts, LinksWait, HasPlan
<1> QED
  BY <1>1, <1>2, <1>3, <1>4
     DEF MirrorParts, LinksWait, LinkedLikeCanonical, GzipIsWhole, inputVars, sourceVars

\* A link makes a duplicate what its canonical copy is, and it stays so: no link
\* writes a canonical copy.
LEMMA LinkMirror == ASSUME TransferInv, Link PROVE MirrorParts'
<1>1. /\ RemoteTypeOK /\ MirrorParts
      /\ links \subseteq Duplicates /\ Canonicals \cap Duplicates = {}
      /\ Duplicates \subseteq Path /\ Canonicals \subseteq Path
      /\ dst \in [Path -> Content \cup {None, Torn}]
  BY PlanType DEF TransferInv, IInv, RemoteTypeOK
<1>2. /\ stage = "link" /\ stage' = "link"
      /\ UNCHANGED <<inputVars, plan, todo, errors>>
  BY DEF Link, planVars
<1>3. \/ /\ unseen' # {} /\ ("pipe" \notin unseen' => "pipe" \notin unseen) /\ dst' = dst
      \/ unseen' = unseen /\ \E d \in links :
           \/ Linked(d) /\ links' = links \ {d} /\ warned' = warned
           \/ dst' = dst /\ links' = links \ {d} /\ warned' = warned \cup {d}
           \/ dst' = dst /\ links' = {} /\ warned' = warned \cup links
  <2>1. CASE links # {} /\ LinkRemoteCut
    BY <2>1 DEF LinkRemoteCut, Cut, destVars
  <2>2. ASSUME NEW d \in links, LinkRemote(d) \/ LinkRemoteFails(d) \/ LinkLocal(d)
        PROVE  /\ unseen' = unseen
               /\ \/ Linked(d) /\ links' = links \ {d} /\ warned' = warned
                  \/ dst' = dst /\ links' = links \ {d} /\ warned' = warned \cup {d}
                  \/ dst' = dst /\ links' = {} /\ warned' = warned \cup links
    BY <2>2 DEF LinkRemote, LinkRemoteFails, LinkLocal, sshVars, destVars
  <2> QED BY <2>1, <2>2 DEF Link
<1>4. /\ AllPlanned' /\ GroupsAlike' /\ TransferIsMirror' /\ GzipCatchesCuts'
      /\ Canonicals' = Canonicals /\ Duplicates' = Duplicates /\ Gzipped' = Gzipped
  <2>1. unseen' = {} => unseen = {}
    BY <1>3
  <2> QED BY <1>1, <1>2, <2>1, SamePlanMirror DEF HasPlan
<1>5. \A p \in Canonicals : dst'[p] = dst[p]
  BY <1>1, <1>3 DEF Linked
<1>6. \A d \in Duplicates : plan.canon[d] \in Canonicals
  BY <1>1, <1>2 DEF MirrorParts, GroupsAlike, HasPlan
<1>7. LinkedLikeCanonical'
  <2> SUFFICES ASSUME unseen' = {}, NEW e \in Duplicates \ (links' \cup warned')
               PROVE  dst'[e] = dst'[plan.canon[e]]
    BY <1>2, <1>4 DEF LinkedLikeCanonical
  <2>1. unseen = {} /\ dst'[plan.canon[e]] = dst[plan.canon[e]]
    BY <1>3, <1>5, <1>6
  <2>2. PICK d \in links :
           \/ Linked(d) /\ links' = links \ {d} /\ warned' = warned
           \/ dst' = dst /\ links' = links \ {d} /\ warned' = warned \cup {d}
           \/ dst' = dst /\ links' = {} /\ warned' = warned \cup links
    BY <1>3
  <2>3. \A q \in Duplicates \ (links \cup warned) : dst[q] = dst[plan.canon[q]]
    BY <1>1, <1>2, <2>1 DEF MirrorParts, LinkedLikeCanonical
  <2>4. CASE Linked(d) /\ links' = links \ {d} /\ warned' = warned
    BY <1>1, <2>1, <2>3, <2>4 DEF Linked
  <2>5. CASE dst' = dst /\ e \notin links \cup warned
    BY <2>1, <2>3, <2>5
  <2> QED BY <2>2, <2>4, <2>5
<1>8. GzipIsWhole'
  <2>1. "pipe" \notin unseen' => "pipe" \notin unseen
    BY <1>3
  <2> QED BY <1>1, <1>2, <1>4, <1>5, <2>1 DEF MirrorParts, GzipIsWhole, inputVars, sourceVars
<1> QED BY <1>1, <1>2, <1>4, <1>7, <1>8 DEF MirrorParts, LinksWait

-----------------------------------------------------------------------------
(* A run that exits 0: its end, and what happens around it                  *)

\* What the last step finds holds of the plan and the destination from then on.
LEMMA FinishMirror == ASSUME TransferInv, Finish PROVE MirrorParts'
<1>1. /\ RemoteTypeOK /\ IInv /\ MirrorParts
      /\ Canonicals \subseteq Path /\ Duplicates \subseteq Path
  BY PlanType DEF TransferInv, IInv
<1>2. /\ stage = "link" /\ links = {} /\ stage' = "off" /\ exit' = ExitCode
      /\ UNCHANGED <<inputVars, destVars>>
      /\ ExitCode = EXIT_SUCCESS => UNCHANGED <<plan, warned, unseen>>
  BY DEF Finish, Exit
<1>3. CASE ExitCode # EXIT_SUCCESS
  BY <1>2, <1>3, NoPlanMirror DEF HasPlan
<1>4. CASE ExitCode = EXIT_SUCCESS
  <2>1. /\ errors = {} /\ todo = {}
        /\ UNCHANGED <<inputVars, dst, plan, warned, unseen>>
    <3>1. errors = {}
      BY <1>4 DEF ExitCode
    <3>2. todo = {}
      BY <1>1, <1>2 DEF MirrorParts, LinksWait
    <3> QED BY <1>2, <1>4, <3>1, <3>2 DEF destVars
  <2>2. /\ Canonicals' = Canonicals /\ Gzipped' = Gzipped /\ Steady' = Steady
        /\ Sources' = Sources
    BY <2>1 DEF Canonicals, Gzipped, Steady, Sources, inputVars, sourceVars
  <2>3. GzipCatchesCuts'
    BY <1>1, <1>2, <2>1, <2>2, SteadyCanonicals
       DEF GzipCatchesCuts, MirrorParts, GzipIsWhole, inputVars, sourceVars
  <2>4. ASSUME unseen = {}, NEW p \in (Sources \cap Steady) \ warned
        PROVE  dst[p] = src[p]
    <3>1. p \in Path /\ p \notin edited /\ src[p] # None
      BY DEF Steady, Sources
    <3>2. p \in plan.entries
      BY <1>1, <1>2, <2>4, <3>1 DEF MirrorParts, AllPlanned, HasPlan
    <3>3. \A q \in Canonicals \ edited : dst[q] = src[q]
      <4> SUFFICES ASSUME NEW q \in Canonicals \ edited PROVE dst[q] = src[q]
        OBVIOUS
      <4>1. dst[q] = plan.seen[q]
        BY <1>1, <1>2, <2>1, <2>4, SteadyCanonicals DEF IInv, SentIsWhole
      <4>2. plan.seen[q] = src[q]
        BY <1>1, <1>2, <2>4 DEF IInv, PlannedIsThere, PlannedStages, Canonicals
      <4> QED BY <4>1, <4>2
    <3>4. CASE p \in Canonicals
      BY <3>1, <3>3, <3>4
    <3>5. CASE p \in Duplicates
      <4>1. /\ plan.canon[p] \in Canonicals /\ src[p] = src[plan.canon[p]]
        BY <1>1, <1>2, <2>4, <3>5 DEF MirrorParts, GroupsAlike, HasPlan
      <4>2. plan.canon[p] \notin edited
        BY DEF Steady
      <4>3. dst[p] = dst[plan.canon[p]]
        BY <1>1, <1>2, <2>4, <3>5 DEF MirrorParts, LinkedLikeCanonical
      <4> QED BY <3>3, <4>1, <4>2, <4>3
    <3> QED BY <3>2, <3>4, <3>5 DEF Canonicals, Duplicates
  <2>5. TransferIsMirror'
    BY <2>1, <2>2, <2>4 DEF TransferIsMirror, inputVars, sourceVars
  <2> QED BY <1>2, <2>3, <2>5 DEF MirrorParts, AllPlanned, GroupsAlike, LinksWait,
          LinkedLikeCanonical, GzipIsWhole, HasPlan
<1> QED BY <1>3, <1>4

\* Every other way a run ends is no success, or a dry run.
LEMMA OtherExitMirror ==
  ASSUME Killed \/ ConnectFails \/ ListFails \/ StopIfCancelled \/ DryRun \/ MakeRootFails,
         TransferInv
  PROVE  MirrorParts'
<1>1. stage' = "off" /\ (exit' # EXIT_SUCCESS \/ args'.dryRun)
  BY RemoteAssumption DEF Killed, ConnectFails, ListFails, StopIfCancelled, DryRun, MakeRootFails, Exit,
     inputVars
<1> QED BY <1>1, NoPlanMirror DEF HasPlan

\* What is edited counts no longer.
LEMMA EditMirror == ASSUME TransferInv, NEW p \in Path, Edit(p) PROVE MirrorParts'
<1>1. /\ RemoteTypeOK /\ IInv /\ MirrorParts
      /\ Canonicals \subseteq Path /\ Duplicates \subseteq Path
      /\ \A d \in Duplicates : plan.canon[d] \in Path
  BY PlanType DEF TransferInv, IInv
<1>2. /\ edited' = edited \cup {p} /\ stage # "off"
      /\ \A q \in Path \ {p} : src'[q] = src[q]
      /\ UNCHANGED <<mode, args, dst, plan, todo, archive, links, errors, warned, unseen, stage>>
  BY <1>1 DEF Edit, destVars, planVars, sendVars, reportVars, sshVars, RemoteTypeOK
<1>3. /\ Canonicals' = Canonicals /\ Duplicates' = Duplicates /\ Gzipped' = Gzipped
      /\ HasPlan' = HasPlan /\ Complete' = Complete
  BY <1>2 DEF Canonicals, Duplicates, Gzipped, HasPlan, Complete
<1>4. AllPlanned' /\ LinksWait' /\ LinkedLikeCanonical'
  BY <1>1, <1>2, <1>3 DEF MirrorParts, AllPlanned, LinksWait, LinkedLikeCanonical
<1>5. GroupsAlike'
  <2> SUFFICES ASSUME HasPlan, NEW d \in Duplicates
               PROVE  /\ plan.canon[d] \in Canonicals
                      /\ unseen = {} /\ d \in Steady' => src'[d] = src'[plan.canon[d]]
    BY <1>2, <1>3 DEF GroupsAlike
  <2>1. /\ plan.canon[d] \in Canonicals
        /\ unseen = {} /\ d \in Steady => src[d] = src[plan.canon[d]]
    BY <1>1 DEF MirrorParts, GroupsAlike
  <2>2. d \in Steady' => d \in Steady /\ d # p /\ plan.canon[d] # p
    BY <1>2 DEF Steady
  <2> QED BY <1>1, <1>2, <2>1, <2>2
<1>6. GzipIsWhole'
  <2>1. archive.batch \subseteq Path
    BY <1>1 DEF RemoteTypeOK
  <2> QED BY <1>1, <1>2, <1>3, <2>1 DEF MirrorParts, GzipIsWhole
<1> QED BY <1>2, <1>4, <1>5, <1>6 DEF MirrorParts, TransferIsMirror, GzipCatchesCuts, Succeeded

\* A flag, a connection that is lost, and a step that changes nothing.
LEMMA OutsideMirror ==
  ASSUME TransferInv, Cancel \/ (\E s \in {"src", "dst"} : Drop(s)) \/ UNCHANGED vars
  PROVE  MirrorParts'
<1>1. UNCHANGED <<mode, args, src, edited, dst, plan, todo, archive, links, errors, warned,
                  unseen, exit, stage>>
  BY DEF Cancel, Drop, vars, inputVars, sourceVars, destVars, planVars, sendVars, reportVars,
         sshVars, outVars
<1>2. UNCHANGED <<Canonicals, Duplicates, Steady, Sources, Complete, Gzipped, HasPlan, Succeeded>>
  BY <1>1 DEF Canonicals, Duplicates, Steady, Sources, Complete, Gzipped, HasPlan, Succeeded
<1>3. MirrorParts
  BY DEF TransferInv
<1>4. AllPlanned' /\ GroupsAlike' /\ LinksWait' /\ LinkedLikeCanonical'
  BY <1>1, <1>2, <1>3 DEF MirrorParts, AllPlanned, GroupsAlike, LinksWait, LinkedLikeCanonical
<1>5. GzipIsWhole' /\ TransferIsMirror' /\ GzipCatchesCuts'
  BY <1>1, <1>2, <1>3 DEF MirrorParts, GzipIsWhole, TransferIsMirror, GzipCatchesCuts
<1> QED BY <1>4, <1>5 DEF MirrorParts

LEMMA InitMirror == Init => TransferInv
<1> SUFFICES ASSUME Init PROVE TransferInv
  OBVIOUS
<1>1. stage \in {"list", "connect"} /\ ~HasPlan
  BY DEF Init, HasPlan
<1>2. MirrorParts
  BY <1>1 DEF MirrorParts, AllPlanned, GroupsAlike, LinksWait, LinkedLikeCanonical,
       GzipIsWhole, TransferIsMirror, GzipCatchesCuts, Succeeded
<1> QED BY <1>2, InitIInv DEF TransferInv

-----------------------------------------------------------------------------
(* The theorems                                                             *)

LEMMA NextIInv == ASSUME IInv, [Next]_vars PROVE IInv'
<1>1. CASE UNCHANGED vars
  <2>1. /\ UNCHANGED <<mode, args, src, edited, edits, dst, dirs, listed, plan>>
        /\ UNCHANGED <<todo, archive, links, errors, warned, alive, unseen>>
        /\ UNCHANGED <<cancelled, exit, stage>>
    BY <1>1 DEF vars, inputVars, sourceVars, destVars, planVars, sendVars, reportVars,
                sshVars, outVars
  <2>2. UNCHANGED <<Unpackable, Canonicals, Duplicates, Steady, Complete>>
    BY <2>1 DEF Unpackable, Canonicals, Duplicates, Steady, Complete
  <2>3. RemoteTypeOK'
    BY <2>1, <2>2 DEF IInv, RemoteTypeOK, Sides
  <2>4. NothingBeforePlan' /\ AllToSend' /\ SentIsWhole'
    BY <2>1, <2>2 DEF IInv, NothingBeforePlan, AllToSend, SentIsWhole
  <2>5. FoundIsThere' /\ PlannedIsThere' /\ ArchiveIsWhole'
    BY <2>1, <2>2 DEF IInv, FoundIsThere, PlannedIsThere, PlannedStages, ArchiveIsWhole
  <2> QED
    BY <2>3, <2>4, <2>5 DEF IInv
<1>2. CASE Cancel \/ \E s \in {"src", "dst"} : Drop(s)
  BY <1>2, OutsideIInv
<1>3. ASSUME NEW p \in Path, Edit(p) PROVE IInv'
  BY <1>3, EditIInv
<1>4. CASE Killed \/ ConnectFails \/ ListFails \/ StopIfCancelled \/ DryRun
           \/ MakeRootFails \/ Finish
  <2>1. \E code \in {None, EXIT_SUCCESS, EXIT_PARTIAL, EXIT_FAILURE} : Exit(code)
    BY <1>4 DEF Killed, ConnectFails, ListFails, StopIfCancelled, DryRun,
                MakeRootFails, Finish, ExitCode
  <2> QED
    BY <2>1, ExitIInv
<1>5. CASE Connect
  BY <1>5, ConnectIInv
<1>6. CASE ScanLocal \/ ListRemote
  BY <1>6, ListIInv
<1>7. CASE PlanLocal \/ PlanRemote
  BY <1>7, PlanIInv
<1>8. CASE PassGate
  BY <1>8, PassGateIInv
<1>9. CASE MakeRoot
  BY <1>9, MakeRootIInv
<1>10. ASSUME NEW B \in SUBSET todo, Pack(B) PROVE IInv'
  BY <1>10, PackIInv
<1>11. CASE Unpack
  BY <1>11, UnpackIInv
<1>12. CASE AllSent
  BY <1>12, AllSentIInv
<1>13. CASE Link
  BY <1>13, LinkIInv
<1> QED
  BY <1>1, <1>2, <1>3, <1>4, <1>5, <1>6, <1>7, <1>8, <1>9, <1>10, <1>11, <1>12, <1>13
     DEF Next, RunStep

LEMMA NextMirror == ASSUME TransferInv, [Next]_vars PROVE TransferInv'
<1>1. IInv'
  BY NextIInv DEF TransferInv
<1>2. MirrorParts'
  <2>1. CASE Cancel \/ (\E s \in {"src", "dst"} : Drop(s)) \/ UNCHANGED vars
    BY <2>1, OutsideMirror
  <2>2. ASSUME NEW p \in Path, Edit(p) PROVE MirrorParts'
    BY <2>2, EditMirror
  <2>3. CASE Killed \/ ConnectFails \/ ListFails \/ StopIfCancelled \/ DryRun \/ MakeRootFails
    BY <2>3, OtherExitMirror
  <2>4. CASE Connect \/ PassGate \/ MakeRoot \/ ScanLocal \/ ListRemote
    BY <2>4, BeforeSendingMirror
  <2>5. CASE PlanLocal \/ PlanRemote
    BY <2>5, PlanMirror
  <2>6. ASSUME NEW B \in SUBSET todo, Pack(B) PROVE MirrorParts'
    BY <2>6, PackMirror
  <2>7. CASE Unpack
    BY <2>7, UnpackMirror
  <2>8. CASE AllSent
    BY <2>8, AllSentMirror
  <2>9. CASE Link
    BY <2>9, LinkMirror
  <2>10. CASE Finish
    BY <2>10, FinishMirror
  <2> QED
    BY <2>1, <2>2, <2>3, <2>4, <2>5, <2>6, <2>7, <2>8, <2>9, <2>10 DEF Next, RunStep
<1> QED BY <1>1, <1>2 DEF TransferInv

\* Whatever fails, is cut, is edited or is cancelled, the bookkeeping of a
\* transfer stays consistent: what was planned, is in memory, was sent, failed.
THEOREM Inductive == Spec => []IInv
<1> QED
  BY InitIInv, NextIInv, PTL DEF Spec

\* ssh_tar.rs, the loops over batches: batches fail one by one, and what was sent
\* in the others is whole, until the run ends.
THEOREM SentIsWholeHolds == Spec => []SentIsWhole
<1>1. IInv => SentIsWhole
  BY DEF IInv
<1> QED
  BY <1>1, Inductive, PTL

\* The types, and the plan's entries going from todo to sent or failed.
THEOREM TypeCorrect == Spec => []RemoteTypeOK
<1>1. IInv => RemoteTypeOK
  BY DEF IInv
<1> QED
  BY <1>1, Inductive, PTL

\* The bookkeeping together with what the plan, the links and a gzipped archive are
\* worth at every stage.
THEOREM MirrorInductive == Spec => []TransferInv
<1> QED
  BY InitMirror, NextMirror, PTL DEF Spec

\* remote_pipeline.rs: exit code 0 means the destination has every source file that
\* was not edited meanwhile, but for the links the log names, unless the shell or
\* the connection hid a failure from its caller.
THEOREM TransferIsMirrorHolds == Spec => []TransferIsMirror
<1>1. TransferInv => TransferIsMirror
  BY DEF TransferInv, MirrorParts
<1> QED
  BY <1>1, MirrorInductive, PTL

\* ssh_tar.rs: a compressed download that was cut anywhere is not reported as a
\* success, unless tar itself failed behind gzip.
THEOREM GzipCatchesCutsHolds == Spec => []GzipCatchesCuts
<1>1. TransferInv => GzipCatchesCuts
  BY DEF TransferInv, MirrorParts
<1> QED
  BY <1>1, MirrorInductive, PTL
-----------------------------------------------------------------------------
(* A run takes a bounded number of steps                                    *)

LEMMA BatchInHandNext == ASSUME BatchInHand, [Next]_vars PROVE BatchInHand'
<1>1. ASSUME NEW B \in SUBSET todo, Pack(B) PROVE BatchInHand'
  <2>1. B # {}
    BY <1>1 DEF Pack, Batches
  <2>2. \/ stage' = "unpack" /\ archive' = [batch |-> B, data |-> archive'.data, torn |-> archive'.torn]
        \/ stage' = "pack"
    BY <1>1 DEF Pack, PackLocal, PackRemote, PackRefused, PackCut, Packed, BatchFails
  <2> QED BY <2>1, <2>2 DEF BatchInHand
<1>2. CASE UNCHANGED <<stage, archive>>
  BY <1>2 DEF BatchInHand
<1>3. CASE stage' # "unpack"
  BY <1>3 DEF BatchInHand
<1>4. CASE UNCHANGED vars \/ Cancel \/ (\E p \in Path : Edit(p)) \/ (\E s \in {"src", "dst"} : Drop(s))
  BY <1>2, <1>4 DEF vars, sendVars, Cancel, Edit, Drop
<1>5. CASE Killed \/ ConnectFails \/ ListFails \/ StopIfCancelled \/ DryRun
           \/ MakeRootFails \/ Finish
  BY <1>3, <1>5 DEF Killed, ConnectFails, ListFails, StopIfCancelled, DryRun,
                    MakeRootFails, Finish, Exit
<1>6. CASE Connect \/ ScanLocal \/ ListRemote \/ PlanLocal \/ PlanRemote \/ PassGate
           \/ MakeRoot \/ Unpack \/ AllSent \/ Link
  <2>1. stage' # "unpack"
    BY <1>6 DEF Connect, ScanLocal, ListRemote, Found, PlanLocal, PlanRemote, Planned,
                PassGate, MakeRoot, Unpack, UnpackLocal, UnpackRemote, UnpackOk,
                UnpackRemoteFails, GunzipFails, BatchDone, BatchFails, AllSent, Link
  <2> QED BY <1>3, <2>1
<1> QED
  BY <1>1, <1>4, <1>5, <1>6 DEF Next, RunStep

\* Sets of paths are finite, and what is taken away counts.
LEMMA Counting ==
  ASSUME NEW S \in SUBSET Path
  PROVE  /\ Cardinality(S) \in Nat
         /\ S # {} => Cardinality(S) > 0
         /\ \A T \in SUBSET S : Cardinality(S \ T) = Cardinality(S) - Cardinality(T)
                                /\ Cardinality(T) \in Nat
<1>1. IsFiniteSet(S)
  BY PathAssumption, FS_Subset
<1>2. Cardinality(S) \in Nat /\ (S # {} => Cardinality(S) > 0)
  BY <1>1, FS_CardinalityType, FS_EmptySet
<1>3. ASSUME NEW T \in SUBSET S
      PROVE  Cardinality(S \ T) = Cardinality(S) - Cardinality(T) /\ Cardinality(T) \in Nat
  <2>1. S \cap T = T
    OBVIOUS
  <2>2. Cardinality(S \ T) = Cardinality(S) - Cardinality(S \cap T)
    BY <1>1, FS_Difference
  <2>3. Cardinality(T) \in Nat
    BY <1>1, FS_Subset, FS_CardinalityType
  <2> QED BY <2>1, <2>2, <2>3
<1> QED BY <1>2, <1>3

\* A batch that is not empty saves more than the step that comes back for the next.
LEMMA BatchCounts ==
  ASSUME NEW S \in SUBSET Path, NEW B \in SUBSET S, B # {}
  PROVE  /\ Cardinality(S) \in Nat /\ Cardinality(S \ B) \in Nat
         /\ Cardinality(S \ B) + 1 <= Cardinality(S)
<1>1. Cardinality(S) \in Nat /\ Cardinality(B) \in Nat
      /\ Cardinality(S \ B) = Cardinality(S) - Cardinality(B)
  BY Counting
<1>2. Cardinality(B) > 0
  <2>1. B \in SUBSET Path
    OBVIOUS
  <2> QED BY <2>1, Counting
<1>3. Cardinality(S \ B) \in Nat
  <2>1. S \ B \in SUBSET Path
    OBVIOUS
  <2> QED BY <2>1, Counting
<1> QED BY <1>1, <1>2, <1>3

LEMMA TransferSizes ==
  ASSUME RemoteTypeOK
  PROVE  /\ todo \in SUBSET Path /\ links \in SUBSET Path
         /\ Cardinality(Path) \in Nat
         /\ Cardinality(todo) \in Nat /\ Cardinality(links) \in Nat
         /\ Cardinality(Canonicals) \in Nat /\ Cardinality(Duplicates) \in Nat
         /\ Cardinality(Canonicals) + Cardinality(Duplicates) <= Cardinality(Path)
<1>1. /\ todo \in SUBSET Path /\ links \in SUBSET Path
      /\ Canonicals \in SUBSET Path /\ Duplicates \in SUBSET Path
      /\ Canonicals \cap Duplicates = {}
  BY PlanType DEF RemoteTypeOK
<1>2. Path \in SUBSET Path
  OBVIOUS
<1>3. /\ Cardinality(Path) \in Nat
      /\ Cardinality(Path \ Canonicals) = Cardinality(Path) - Cardinality(Canonicals)
  BY <1>1, <1>2, Counting
<1>4. Cardinality(Duplicates) <= Cardinality(Path \ Canonicals)
  <2>1. Duplicates \in SUBSET (Path \ Canonicals) /\ IsFiniteSet(Path \ Canonicals)
    BY <1>1, PathAssumption, FS_Subset
  <2> QED BY <2>1, FS_Subset
<1>5. /\ Cardinality(todo) \in Nat /\ Cardinality(links) \in Nat
      /\ Cardinality(Canonicals) \in Nat /\ Cardinality(Duplicates) \in Nat
  BY <1>1, Counting
<1> QED BY <1>1, <1>3, <1>4, <1>5

LEMMA NextTransferSizes ==
  RemoteTypeOK'
    => (/\ Cardinality(Canonicals) \in Nat /\ Cardinality(Duplicates) \in Nat
        /\ Cardinality(Canonicals) + Cardinality(Duplicates) <= Cardinality(Path))'
<1>1. RemoteTypeOK
        => /\ Cardinality(Canonicals) \in Nat /\ Cardinality(Duplicates) \in Nat
           /\ Cardinality(Canonicals) + Cardinality(Duplicates) <= Cardinality(Path)
  BY TransferSizes
<1> QED BY <1>1, PTL

\* A run that is not over has steps left.
LEMMA TransferHasSteps ==
  ASSUME RemoteTypeOK, stage # "off"
  PROVE  RunStepsLeft > 0
<1>1. stage \in Stage
  BY DEF RemoteTypeOK
<1> QED BY <1>1, TransferSizes DEF RunStepsLeft

\* Ending the run, in whatever way.
LEMMA EndingShrinks ==
  ASSUME RemoteTypeOK,
         \/ Killed \/ ConnectFails \/ ListFails \/ StopIfCancelled \/ DryRun
         \/ MakeRootFails \/ Finish
  PROVE  RunStepsLeft' < RunStepsLeft
<1>1. stage # "off" /\ stage' = "off"
  BY DEF Killed, ConnectFails, ListFails, StopIfCancelled, DryRun, MakeRootFails, Finish, Exit
<1>2. RunStepsLeft' = 0
  BY <1>1 DEF RunStepsLeft
<1> QED BY <1>1, <1>2, TransferHasSteps

\* Connecting, listing and planning.
LEMMA PreparingShrinks ==
  ASSUME RemoteTypeOK, RemoteTypeOK',
         \/ Connect \/ ScanLocal \/ ListRemote \/ PlanLocal \/ PlanRemote \/ PassGate
         \/ MakeRoot
  PROVE  RunStepsLeft' < RunStepsLeft
<1>1. CASE Connect
  <2>1. /\ stage = "connect" /\ mode' = mode /\ todo' = todo /\ links' = links
        /\ stage' = IF mode = "upload" THEN "mkdir" ELSE "list"
    BY <1>1 DEF Connect, inputVars, sendVars
  <2> QED BY <2>1, TransferSizes DEF RunStepsLeft
<1>2. CASE ScanLocal \/ ListRemote
  <2>1. stage = "list" /\ stage' = "plan"
    BY <1>2 DEF ScanLocal, ListRemote, Found
  <2> QED BY <2>1, TransferSizes DEF RunStepsLeft
<1>3. CASE PlanLocal \/ PlanRemote
  <2>1. stage = "plan" /\ stage' = "gate"
    BY <1>3 DEF PlanLocal, PlanRemote, Planned
  <2>2. /\ Cardinality(Canonicals') \in Nat /\ Cardinality(Duplicates') \in Nat
        /\ Cardinality(Canonicals') + Cardinality(Duplicates') <= Cardinality(Path)
    BY NextTransferSizes
  <2> QED BY <2>1, <2>2, TransferSizes DEF RunStepsLeft
<1>4. CASE PassGate
  <2>1. /\ stage = "gate" /\ mode' = mode /\ todo' = Canonicals /\ links' = Duplicates
        /\ stage' = IF mode = "upload" THEN "connect" ELSE "mkdir"
    BY <1>4 DEF PassGate, inputVars
  <2> QED BY <2>1, TransferSizes DEF RunStepsLeft
<1>5. CASE MakeRoot
  <2>1. stage = "mkdir" /\ stage' = "pack" /\ todo' = todo /\ links' = links
    BY <1>5 DEF MakeRoot, sendVars
  <2> QED BY <2>1, TransferSizes DEF RunStepsLeft
<1> QED
  BY <1>1, <1>2, <1>3, <1>4, <1>5

\* Sending a batch and linking.
LEMMA SendingShrinks ==
  ASSUME RemoteTypeOK, BatchInHand,
         (\E B \in SUBSET todo : Pack(B)) \/ Unpack \/ AllSent \/ Link
  PROVE  RunStepsLeft' < RunStepsLeft
<1>1. ASSUME NEW B \in SUBSET todo, Pack(B) PROVE RunStepsLeft' < RunStepsLeft
  <2>1. /\ B # {} /\ stage = "pack" /\ links' = links
        /\ \/ stage' = "unpack" /\ todo' = todo
           \/ stage' = "pack" /\ todo' = todo \ B
    BY <1>1 DEF Pack, Batches, PackLocal, PackRemote, PackRefused, PackCut, Packed, BatchFails
  <2>2. Cardinality(todo \ B) \in Nat /\ Cardinality(todo \ B) + 1 <= Cardinality(todo)
    BY <2>1, TransferSizes, BatchCounts
  <2> QED BY <2>1, <2>2, TransferSizes DEF RunStepsLeft
<1>2. CASE Unpack
  <2>1. /\ stage = "unpack" /\ stage' = "pack" /\ links' = links
        /\ todo' = todo \ archive.batch
    BY <1>2 DEF Unpack, UnpackLocal, UnpackRemote, UnpackOk, UnpackRemoteFails, GunzipFails,
                BatchDone, BatchFails
  <2>2. archive.batch \in SUBSET todo /\ archive.batch # {}
    BY <2>1 DEF RemoteTypeOK, BatchInHand
  <2>3. /\ Cardinality(todo \ archive.batch) \in Nat
        /\ Cardinality(todo \ archive.batch) + 1 <= Cardinality(todo)
    BY <2>2, TransferSizes, BatchCounts
  <2> QED BY <2>1, <2>3, TransferSizes DEF RunStepsLeft
<1>3. CASE AllSent
  <2>1. stage = "pack" /\ stage' = "link" /\ links' = links
    BY <1>3 DEF AllSent, sendVars
  <2> QED BY <2>1, TransferSizes DEF RunStepsLeft
<1>4. CASE Link
  <2>1. /\ stage = "link" /\ stage' = "link"
        /\ \E D \in SUBSET links : D # {} /\ links' = links \ D
    <3>1. stage = "link" /\ stage' = "link"
      BY <1>4 DEF Link
    <3>2. \/ \E d \in links : links' = links \ {d}
          \/ links # {} /\ links' = links \ links
      BY <1>4 DEF Link, LinkRemote, LinkRemoteFails, LinkLocal, LinkRemoteCut
    <3> QED BY <3>1, <3>2
  <2>2. PICK D \in SUBSET links : D # {} /\ links' = links \ D
    BY <2>1
  <2>3. /\ Cardinality(links \ D) \in Nat
        /\ Cardinality(links \ D) + 1 <= Cardinality(links)
    BY <2>2, TransferSizes, BatchCounts
  <2> QED BY <2>1, <2>2, <2>3, TransferSizes DEF RunStepsLeft
<1> QED
  BY <1>1, <1>2, <1>3, <1>4

\* Around the run.
LEMMA OutsideKeepsSteps ==
  ASSUME Cancel \/ (\E s \in {"src", "dst"} : Drop(s)) \/ \E p \in Path : Edit(p)
  PROVE  RunStepsLeft' = RunStepsLeft
<1>1. UNCHANGED <<mode, stage, todo, links, plan>>
  BY DEF Cancel, Drop, Edit, inputVars, planVars, sendVars
<1>2. Canonicals' = Canonicals /\ Duplicates' = Duplicates
  BY <1>1 DEF Canonicals, Duplicates
<1> QED BY <1>1, <1>2 DEF RunStepsLeft

\* remote_pipeline.rs: whatever fails, is cut or is lost, no batch is sent and no
\* duplicate linked twice, and every step leaves the run with fewer to take.
THEOREM BoundedRunHolds == Spec => BoundedRun
<1>1. Spec => []BatchInHand
  <2>1. Init => BatchInHand
    BY DEF Init, BatchInHand
  <2> QED BY <2>1, BatchInHandNext, PTL DEF Spec
<1>2. IInv /\ IInv' /\ BatchInHand /\ [Next]_vars
        => [\/ RunStepsLeft' < RunStepsLeft
            \/ RunStepsLeft' = RunStepsLeft /\ ~(RunStep \/ Killed)]_vars
  <2> SUFFICES ASSUME IInv, IInv', BatchInHand, Next
               PROVE  \/ RunStepsLeft' < RunStepsLeft
                      \/ RunStepsLeft' = RunStepsLeft /\ ~(RunStep \/ Killed)
    OBVIOUS
  <2>1. RemoteTypeOK /\ RemoteTypeOK'
    BY DEF IInv
  <2>2. ASSUME RunStep \/ Killed PROVE RunStepsLeft' < RunStepsLeft
    BY <2>1, <2>2, EndingShrinks, PreparingShrinks, SendingShrinks DEF RunStep
  <2>3. ASSUME ~(RunStep \/ Killed) PROVE RunStepsLeft' = RunStepsLeft
    BY <2>3, OutsideKeepsSteps DEF Next
  <2> QED BY <2>2, <2>3
<1> QED
  BY <1>1, <1>2, Inductive, PTL DEF Spec, BoundedRun
===============================================================================
