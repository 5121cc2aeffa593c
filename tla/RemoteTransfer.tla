---------------------------- MODULE RemoteTransfer ----------------------------
(***************************************************************************)
(* accroitre-cli remote_pipeline and the adapters under it (ssh_tar,       *)
(* remote_fs, remote_dedup): uploads, downloads and relays of a source     *)
(* tree, edited meanwhile, into a destination that may hold anything.  A   *)
(* behaviour is one run: what runs before it left is where it begins.      *)
(*                                                                         *)
(* A run enumerates and hashes the source, plans, sends the canonical      *)
(* copies in tar batches and makes the duplicates hard links.  A batch is  *)
(* two steps: the archive comes into local memory (Pack), then it is       *)
(* unpacked where it belongs (Unpack).  Both archives and links replace a  *)
(* name and write no inode in place, so a destination is a map from names  *)
(* to contents and the directories that exist.                             *)
(*                                                                         *)
(* A remote command is one step.  Besides success and a reported failure   *)
(* it may be "cut": the caller gets Ok although the connection broke or a  *)
(* signal ended the command half way (SshChannel says when that happens).  *)
(***************************************************************************)
EXTENDS DedupPlan, FiniteSetsExt

CONSTANTS
  Torn,        \* part of a file
  Dir, Root,   \* destination directories, the destination itself
  DirOf,       \* the directory each path lies in
  BatchSize,   \* tar_config's batch_size
  Before,      \* destinations a behaviour may begin with
  Modes,       \* the kinds of transfer a behaviour may be
  ArgSets,     \* command lines a user may give
  Faults,      \* what may fail
  MaxEdits     \* bound: edits of the source

AllModes == {"upload", "download", "relay"}

\* --compress, --no-dedup, --dry-run
CopyArgs == [compress : BOOLEAN, noDedup : BOOLEAN, dryRun : BOOLEAN]

FaultKinds == {"connect", "list", "hash", "mkdir", "pack", "unpack", "link",
               "cut", "drop", "scan", "cancel", "crash"}

EXIT_SUCCESS == 0
EXIT_PARTIAL == 1
EXIT_FAILURE == 2

ASSUME RemoteAssumption ==
  /\ Torn \notin Content /\ Torn # None
  /\ None \notin {EXIT_SUCCESS, EXIT_PARTIAL, EXIT_FAILURE}
  /\ Root \in Dir
  /\ DirOf \in [Path -> Dir]
  /\ BatchSize \in Nat \ {0}
  /\ Before \subseteq [Path -> Content \cup {None, Torn}]
  /\ Modes \subseteq AllModes
  /\ ArgSets \subseteq CopyArgs
  /\ Faults \subseteq FaultKinds
  /\ MaxEdits \in Nat

VARIABLES
  mode,       \* upload, download or relay
  src,        \* source files
  dst, dirs,  \* destination files and directories
  args,       \* the command line
  stage,      \* where the run is
  alive,      \* the sides whose SSH connection works
  listed,     \* what the scan or the listing found
  plan,
  todo,       \* canonical copies not yet sent
  archive,    \* the batch in memory
  links,      \* duplicates not yet linked
  errors,     \* files of the batches in TarStreamResult.errors
  warned,     \* duplicates whose link failed, which is only logged
  unseen,     \* history: failures of this run that no caller was told of
  cancelled,  \* the Ctrl-C flag
  exit,       \* the exit code, None while the run lasts or when killed
  edited,     \* history: files edited since the run started
  edits

sourceVars == <<src, edited, edits>>
inputVars  == <<mode, args, sourceVars>>
destVars   == <<dst, dirs>>
planVars   == <<listed, plan>>
sendVars   == <<todo, archive, links>>
reportVars == <<errors, warned>>
sshVars    == <<alive, unseen>>
outVars    == <<cancelled, exit>>
vars == <<inputVars, destVars, planVars, sendVars, reportVars, sshVars, outVars,
          stage>>

Stage == {"off", "connect", "list", "plan", "gate", "mkdir", "pack", "unpack",
          "link"}

Nothing   == [p \in Path |-> None]
NoArchive == [batch |-> {}, data |-> Nothing, torn |-> None]
EmptyPlan == FlatPlan({}, Nothing)

Sources    == {p \in Path : src[p] # None}
Listed     == {p \in Path : listed[p] # None}
Canonicals == {p \in plan.entries : plan.canon[p] = None}
Duplicates == {p \in plan.entries : plan.canon[p] # None}
Unpackable == {p \in Path : archive.data[p] # None}

\* The connections a kind of transfer has.
Sides == CASE mode = "upload"   -> {"dst"}
           [] mode = "download" -> {"src"}
           [] mode = "relay"    -> {"src", "dst"}

RemoteTypeOK ==
  /\ mode \in AllModes
  /\ src \in [Path -> Content \cup {None}]
  /\ dst \in [Path -> Content \cup {None, Torn}]
  /\ dirs \subseteq Dir
  /\ args \in CopyArgs
  /\ stage \in Stage
  /\ alive \subseteq Sides
  /\ listed \in [Path -> Content \cup {None}]
  /\ plan \in PlanRecord
  /\ todo \subseteq Canonicals /\ links \subseteq Duplicates
  /\ archive \in [batch : SUBSET Path, data : [Path -> Content \cup {None}],
                  torn : Path \cup {None}]
  /\ archive.batch \subseteq todo /\ Unpackable \subseteq archive.batch
  /\ errors \subseteq Canonicals /\ warned \subseteq Duplicates
  /\ unseen \subseteq {"cut", "pipe", "scan"}
  /\ cancelled \in BOOLEAN /\ edited \subseteq Path
  /\ exit \in {None, EXIT_SUCCESS, EXIT_PARTIAL, EXIT_FAILURE}
  /\ edits \in 0..MaxEdits

\* The destination may hold anything, what an earlier run left there included.
\* An upload connects once it has something to send, the others at once.
Init ==
  /\ mode \in Modes
  /\ src \in [Path -> Content \cup {None}]
  /\ dst \in Before
  /\ dirs = IF dst = Nothing THEN {}
            ELSE {Root} \cup {DirOf[p] : p \in {q \in Path : dst[q] # None}}
  /\ args \in ArgSets
  /\ stage = IF mode = "upload" THEN "list" ELSE "connect"
  /\ alive = {} /\ unseen = {}
  /\ listed = Nothing /\ plan = EmptyPlan
  /\ todo = {} /\ archive = NoArchive /\ links = {}
  /\ errors = {} /\ warned = {}
  /\ cancelled = FALSE /\ exit = None
  /\ edited = {} /\ edits = 0

-----------------------------------------------------------------------------
(* What happens around a run                                                *)

\* A source file is written, created or removed.
Edit(p) ==
  /\ stage # "off" /\ edits < MaxEdits
  /\ \E c \in (Content \cup {None}) \ {src[p]} : src' = [src EXCEPT ![p] = c]
  /\ edits' = edits + 1
  /\ edited' = edited \cup {p}
  /\ UNCHANGED <<mode, args, destVars, planVars, sendVars, reportVars,
                 sshVars, outVars, stage>>

\* Ctrl-C only sets a flag.
Cancel ==
  /\ "cancel" \in Faults
  /\ stage # "off" /\ ~cancelled
  /\ cancelled' = TRUE
  /\ UNCHANGED <<inputVars, destVars, planVars, sendVars, reportVars, sshVars,
                 exit, stage>>

\* A connection is lost between two commands (inactivity_timeout included).
Drop(s) ==
  /\ "drop" \in Faults
  /\ s \in alive
  /\ alive' = alive \ {s}
  /\ UNCHANGED <<inputVars, destVars, planVars, sendVars, reportVars, unseen,
                 outVars, stage>>

\* The run ends: every path of the pipelines disconnects.  Of what it had in
\* memory, the properties look at the plan and the log of a successful run.
Exit(code) ==
  /\ exit' = code
  /\ stage' = "off"
  /\ alive' = {}
  /\ listed' = Nothing
  /\ todo' = {} /\ archive' = NoArchive /\ links' = {}
  /\ errors' = {} /\ cancelled' = FALSE
  /\ IF code = EXIT_SUCCESS
     THEN UNCHANGED <<plan, warned, unseen>>
     ELSE plan' = EmptyPlan /\ warned' = {} /\ unseen' = {}
  /\ UNCHANGED <<inputVars, destVars>>

Killed ==
  /\ "crash" \in Faults
  /\ stage # "off"
  /\ Exit(None)

\* exec_command on side s returns Ok with part of the command's work: the
\* connection broke, or a signal ended the command.
Cut(s) ==
  /\ "cut" \in Faults
  /\ s \in alive
  /\ alive' \in {alive, alive \ {s}}
  /\ unseen' = unseen \cup {"cut"}

-----------------------------------------------------------------------------
(* Connecting, listing, hashing, planning                                   *)

\* A download creates its destination before it connects.
Connect ==
  /\ stage = "connect"
  /\ alive' = Sides
  /\ stage' = IF mode = "upload" THEN "mkdir" ELSE "list"
  /\ dirs' = IF mode = "download" THEN dirs \cup {Root} ELSE dirs
  /\ UNCHANGED <<inputVars, dst, planVars, sendVars, reportVars, unseen, outVars>>

ConnectFails ==
  /\ stage = "connect" /\ "connect" \in Faults
  /\ Exit(EXIT_FAILURE)

\* The source has been enumerated as l.
Found(l) ==
  /\ stage = "list"
  /\ listed' = l
  /\ stage' = "plan"
  /\ UNCHANGED <<inputVars, destVars, plan, sendVars, reportVars, outVars>>

Only(E) == [p \in Path |-> IF p \in E THEN src[p] ELSE None]

\* run_scan: entries that cannot be read are in ScanResult.errors, which
\* nothing looks at.
ScanLocal ==
  /\ mode = "upload"
  /\ \/ Found(src) /\ UNCHANGED sshVars
     \/ /\ "scan" \in Faults
        /\ \E E \in SUBSET Sources : Found(Only(E))
        /\ unseen' = unseen \cup {"scan"} /\ UNCHANGED alive

\* list_remote_files.  The last line of a cut listing may name a file that
\* does not exist.
ListRemote ==
  /\ mode # "upload" /\ "src" \in alive
  /\ \/ Found(src) /\ UNCHANGED sshVars
     \/ /\ Cut("src")
        /\ \E E \in SUBSET Sources :
             \/ Found(Only(E))
             \/ \E p \in Path \ Sources, c \in Content :
                  Found([Only(E) EXCEPT ![p] = c])

ListFails ==
  /\ stage = "list" /\ mode # "upload"
  /\ "src" \notin alive \/ "list" \in Faults
  /\ Exit(EXIT_FAILURE)

\* The flag is looked at once, after the enumeration.
StopIfCancelled ==
  /\ stage = "plan" /\ cancelled
  /\ Exit(EXIT_PARTIAL)

Planned(P) ==
  /\ stage = "plan" /\ ~cancelled
  /\ plan' \in P
  /\ listed' = Nothing
  /\ stage' = "gate"
  /\ UNCHANGED <<inputVars, destVars, sendVars, reportVars, outVars>>

\* The plans for the entries found, hashed as `hash` says.
PlansFromHashes(hash) ==
  {[entries |-> Listed, seen |-> listed, hash |-> hash, canon |-> canon] :
     canon \in Canons(hash)}

\* run_dedup: files are hashed as they are now, when their listed size collides.
PlanLocal ==
  LET hashable == {p \in Listed \cap Sources : Collides(Listed, listed, p)}
  IN  /\ mode = "upload"
      /\ IF args.noDedup
         THEN Planned({FlatPlan(Listed, listed)})
         ELSE \E H \in IF "hash" \in Faults THEN SUBSET hashable ELSE {hashable} :
                Planned(PlansFromHashes(Only(H)))
      /\ UNCHANGED sshVars

\* The hashes of the files E.  The method that hashed most files wins, and
\* streaming never fails as a whole, so a file has its hash or none.
RemoteHashes(E) ==
  {Only(H) : H \in IF "hash" \in Faults THEN SUBSET E ELSE {E}}

\* A stream that is cut is hashed as far as it came.
CutHashes(E, p) ==
  {[h EXCEPT ![p] = c] : h \in {Only(H) : H \in SUBSET E},
                         c \in {x \in Content : SizeOf[x] < SizeOf[src[p]]}}

\* hash_remote_files, build_dedup_plan_from_hashes
PlanRemote ==
  LET hashable == IF "src" \in alive THEN Listed \cap Sources ELSE {}
  IN  /\ mode # "upload"
      /\ \/ /\ \E hash \in RemoteHashes(hashable) : Planned(PlansFromHashes(hash))
            /\ UNCHANGED sshVars
         \/ /\ Cut("src")
            /\ \E p \in hashable :
                 \E hash \in CutHashes(hashable, p) : Planned(PlansFromHashes(hash))

DryRun ==
  /\ stage = "gate" /\ args.dryRun
  /\ Exit(EXIT_SUCCESS)

\* Mutant: duplicates are sent as well.
PassGateAll ==
  /\ stage = "gate" /\ ~args.dryRun
  /\ todo' = plan.entries /\ links' = Duplicates
  /\ stage' = IF mode = "upload" THEN "connect" ELSE "mkdir"
  /\ UNCHANGED <<inputVars, destVars, planVars, archive, reportVars, sshVars,
                 outVars>>

\* canonical_entries
PassGate ==
  /\ stage = "gate" /\ ~args.dryRun
  /\ todo' = Canonicals /\ links' = Duplicates
  /\ stage' = IF mode = "upload" THEN "connect" ELSE "mkdir"
  /\ UNCHANGED <<inputVars, destVars, planVars, archive, reportVars, sshVars,
                 outVars>>

-----------------------------------------------------------------------------
(* Sending: one archive per batch                                           *)

DestIsRemote == mode # "download"

\* A cut mkdir may not have made the directory.
MakeRoot ==
  /\ stage = "mkdir"
  /\ DestIsRemote => "dst" \in alive
  /\ \/ dirs' = dirs \cup {Root} /\ UNCHANGED sshVars
     \/ DestIsRemote /\ Cut("dst") /\ UNCHANGED dirs
  /\ stage' = "pack"
  /\ UNCHANGED <<inputVars, dst, planVars, sendVars, reportVars, outVars>>

MakeRootFails ==
  /\ stage = "mkdir"
  /\ "mkdir" \in Faults \/ (DestIsRemote /\ "dst" \notin alive)
  /\ Exit(EXIT_FAILURE)

Bytes(S) == MapThenSumSet(LAMBDA p : SizeOf[plan.seen[p]], S)

\* Mutant: the last batch is sent only when it is full.
FullBatches ==
  {B \in SUBSET todo \ {{}} :
     /\ \E last \in B : Bytes(B \ {last}) < BatchSize
     /\ Bytes(B) >= BatchSize}

\* build_batches: a batch is closed by the file that fills it, and the last one
\* takes what is left.  The order of the plan is HashMap order.
Batches ==
  {B \in SUBSET todo \ {{}} :
     /\ \E last \in B : Bytes(B \ {last}) < BatchSize
     /\ Bytes(B) >= BatchSize \/ B = todo}

\* The batch in hand is over, with or without an error in the result.
BatchDone(B) ==
  /\ todo' = todo \ B
  /\ archive' = NoArchive
  /\ stage' = "pack"
  /\ UNCHANGED <<links, errors>>

BatchFails(B) ==
  /\ todo' = todo \ B
  /\ archive' = NoArchive
  /\ errors' = errors \cup B
  /\ stage' = "pack"
  /\ UNCHANGED links

Packed(B, files, torn) ==
  /\ archive' = [batch |-> B, data |-> Only(files), torn |-> torn]
  /\ stage' = "unpack"
  /\ UNCHANGED <<todo, links, errors>>

\* create_tar_archive, from the local disk
PackLocal(B) ==
  /\ mode = "upload"
  /\ \/ B \subseteq Sources /\ Packed(B, B, None)
     \/ ("pack" \in Faults \/ ~ B \subseteq Sources) /\ BatchFails(B)
  /\ UNCHANGED sshVars

\* Only a download looks at --compress when it reads.
Gzipped == mode = "download" /\ args.compress

\* Mutant: a truncated gzip stream is unpacked as far as it came.
PackCutUngzipped(B) ==
  /\ Cut("src")
  /\ \E files \in SUBSET (B \cap Sources), torn \in (B \cap Sources) \cup {None} :
       torn \notin files /\ Packed(B, files, torn)

\* The archive ends early: between two files, or inside one.  A gzip stream
\* that ends early does not decompress.
PackCut(B) ==
  /\ Cut("src")
  /\ IF Gzipped THEN BatchFails(B)
     ELSE \E files \in SUBSET (B \cap Sources), torn \in (B \cap Sources) \cup {None} :
            torn \notin files /\ Packed(B, files, torn)

\* tar at the source cannot read a file.  Behind `| gzip` its status is lost.
PackRefused(B) ==
  /\ "pack" \in Faults \/ ~ B \subseteq Sources
  /\ IF Gzipped
     THEN /\ \E files \in SUBSET (B \cap Sources) : Packed(B, files, None)
          /\ unseen' = unseen \cup {"pipe"}
     ELSE BatchFails(B) /\ UNCHANGED unseen
  /\ UNCHANGED alive

\* exec_command("tar cf -"), the output decompressed
PackRemote(B) ==
  /\ mode # "upload"
  /\ \/ /\ "src" \in alive /\ B \subseteq Sources
        /\ Packed(B, B, None) /\ UNCHANGED sshVars
     \/ "src" \in alive /\ PackRefused(B)
     \/ "src" \in alive /\ PackCut(B)
     \/ "src" \notin alive /\ BatchFails(B) /\ UNCHANGED sshVars

Pack(B) ==
  /\ stage = "pack" /\ B \in Batches
  /\ PackLocal(B) \/ PackRemote(B)
  /\ UNCHANGED <<inputVars, destVars, planVars, warned, outVars>>

\* `files` of the archive are unpacked into the destination, and `torn` in part.
Extract(files, torn) ==
  /\ dst' = [p \in Path |-> IF p \in files THEN archive.data[p]
                            ELSE IF p = torn THEN Torn ELSE dst[p]]
  /\ dirs' = dirs \cup {DirOf[p] : p \in files \cup ({torn} \ {None})}

\* Unpacking stops somewhere, perhaps inside a file.
ExtractPart ==
  \E files \in SUBSET Unpackable :
    \E torn \in (Unpackable \ files) \cup {archive.torn, None} :
      Extract(files, torn)

\* The archive is unpacked to its end.
Complete == archive.torn = None

UnpackOk ==
  /\ Complete
  /\ Extract(Unpackable, None)
  /\ BatchDone(archive.batch)
  /\ UNCHANGED sshVars

\* extract_tar_archive
UnpackLocal ==
  /\ ~DestIsRemote
  /\ \/ UnpackOk
     \/ /\ "unpack" \in Faults \/ archive.torn # None
        /\ ExtractPart
        /\ BatchFails(archive.batch)
        /\ UNCHANGED sshVars

\* Mutant: a failed upload of a batch is only logged.
UnpackRemoteFailsUnreported ==
  /\ \/ "dst" \notin alive \/ Root \notin dirs
     \/ "unpack" \in Faults \/ archive.torn # None
  /\ IF "dst" \in alive /\ Root \in dirs THEN ExtractPart ELSE UNCHANGED destVars
  /\ BatchDone(archive.batch)
  /\ UNCHANGED sshVars

UnpackRemoteFails ==
  /\ \/ "dst" \notin alive \/ Root \notin dirs
     \/ "unpack" \in Faults \/ archive.torn # None
  /\ IF "dst" \in alive /\ Root \in dirs THEN ExtractPart ELSE UNCHANGED destVars
  /\ BatchFails(archive.batch)
  /\ UNCHANGED sshVars

\* Behind `gzip -d |` only the status of tar counts, which takes an archive that ends
\* between two files for a whole one.
GunzipFails ==
  /\ mode = "upload" /\ args.compress /\ "unpack" \in Faults
  /\ "dst" \in alive /\ Root \in dirs
  /\ \E files \in SUBSET Unpackable : Extract(files, None)
  /\ BatchDone(archive.batch)
  /\ unseen' = unseen \cup {"pipe"}
  /\ UNCHANGED alive

\* exec_with_stdin("tar xf -")
UnpackRemote ==
  /\ DestIsRemote
  /\ \/ "dst" \in alive /\ Root \in dirs /\ UnpackOk
     \/ UnpackRemoteFails \/ GunzipFails
     \/ /\ Cut("dst") /\ Root \in dirs
        /\ ExtractPart
        /\ BatchDone(archive.batch)

Unpack ==
  /\ stage = "unpack"
  /\ UnpackLocal \/ UnpackRemote
  /\ UNCHANGED <<inputVars, planVars, warned, outVars>>

AllSent ==
  /\ stage = "pack" /\ todo = {}
  /\ stage' = "link"
  /\ UNCHANGED <<inputVars, destVars, planVars, sendVars, reportVars, sshVars,
                 outVars>>

-----------------------------------------------------------------------------
(* Linking duplicates                                                       *)

Linked(d) == dst' = [dst EXCEPT ![d] = dst[plan.canon[d]]]

\* One `ln -f` of the chain.  No directory is made for the link.
LinkRemote(d) ==
  /\ DestIsRemote /\ "dst" \in alive
  /\ dst[plan.canon[d]] # None /\ DirOf[d] \in dirs
  /\ Linked(d)
  /\ links' = links \ {d}
  /\ UNCHANGED <<dirs, warned, sshVars>>

\* The first failure ends the chain; it is logged.
LinkRemoteFails(d) ==
  /\ DestIsRemote
  /\ \/ "link" \in Faults \/ "dst" \notin alive
     \/ dst[plan.canon[d]] = None \/ DirOf[d] \notin dirs
  /\ warned' = warned \cup links
  /\ links' = {}
  /\ UNCHANGED <<destVars, sshVars>>

\* Or it ends early unnoticed.
LinkRemoteCut ==
  /\ DestIsRemote /\ Cut("dst")
  /\ links' = {}
  /\ UNCHANGED <<destVars, warned>>

\* Mutant: a duplicate that exists is as good as linked.
LinkLocalExisting(d) ==
  /\ ~DestIsRemote
  /\ links' = links \ {d}
  /\ \/ /\ "link" \in Faults
        /\ warned' = warned \cup {d} /\ UNCHANGED destVars
     \/ /\ dirs' = dirs \cup {DirOf[d]}
        /\ IF dst[plan.canon[d]] # None /\ dst[d] = None
           THEN Linked(d) /\ UNCHANGED warned
           ELSE UNCHANGED <<dst, warned>>
  /\ UNCHANGED sshVars

\* hard_link(2) does not replace a name.
LinkLocal(d) ==
  /\ ~DestIsRemote
  /\ links' = links \ {d}
  /\ \/ /\ "link" \in Faults
        /\ warned' = warned \cup {d} /\ UNCHANGED destVars
     \/ /\ dirs' = dirs \cup {DirOf[d]}
        /\ IF dst[plan.canon[d]] # None /\ dst[d] = None
           THEN Linked(d) /\ UNCHANGED warned
           ELSE warned' = warned \cup {d} /\ UNCHANGED dst
  /\ UNCHANGED sshVars

Link ==
  /\ stage = "link"
  /\ \/ \E d \in links : LinkRemote(d) \/ LinkRemoteFails(d) \/ LinkLocal(d)
     \/ links # {} /\ LinkRemoteCut
  /\ UNCHANGED <<inputVars, planVars, todo, archive, errors, outVars, stage>>

\* PipelineResult::exit_code; remote runs verify nothing, and links that
\* failed are not among the errors.
ExitCode == IF cancelled \/ errors # {} THEN EXIT_PARTIAL ELSE EXIT_SUCCESS

Finish ==
  /\ stage = "link" /\ links = {}
  /\ Exit(ExitCode)

RunStep ==
  \/ Connect \/ ConnectFails
  \/ ScanLocal \/ ListRemote \/ ListFails \/ StopIfCancelled
  \/ PlanLocal \/ PlanRemote \/ DryRun \/ PassGate
  \/ MakeRoot \/ MakeRootFails
  \/ \E B \in SUBSET todo : Pack(B)
  \/ Unpack \/ AllSent \/ Link \/ Finish

Next ==
  \/ Cancel \/ Killed \/ RunStep
  \/ \E s \in {"src", "dst"} : Drop(s)
  \/ \E p \in Path : Edit(p)

Spec     == Init /\ [][Next]_vars
FairSpec == Spec /\ WF_vars(RunStep)
-----------------------------------------------------------------------------
(* Properties                                                               *)

Succeeded == stage = "off" /\ exit = EXIT_SUCCESS /\ ~args.dryRun

\* The files no edit during the run can have mixed up: neither they nor the
\* copy they are linked to were edited.
Steady == {p \in Path \ edited : plan.canon[p] \notin edited}

\* run_*_pipeline returning exit code 0 means the destination has every source
\* file as it is, but for duplicates whose failed link the log names, unless a
\* failure of this run was hidden from every caller.
TransferIsMirror ==
  Succeeded /\ unseen = {} =>
    \A p \in (Sources \cap Steady) \ warned : dst[p] = src[p]

\* Batches fail separately: whatever later batches, their failures and the links
\* do, and in whichever order, a canonical copy that was sent and is in no batch
\* reported as failed is in the destination as it was planned.
SentIsWhole ==
  stage \in {"pack", "unpack", "link"} /\ unseen = {} =>
    \A p \in (Canonicals \cap Steady) \ (todo \cup errors) : dst[p] = plan.seen[p]

\* A compressed download cut anywhere is noticed: exit code 0 means every
\* canonical copy of the plan arrived whole, unless tar failed behind gzip.
GzipCatchesCuts ==
  Succeeded /\ Gzipped /\ "pipe" \notin unseen =>
    \A p \in Canonicals \cap Steady : dst[p] = src[p]

\* The most steps of its own the run can take from here: two for each canonical copy,
\* one for each duplicate and one for each stage still to come.
RunStepsLeft ==
  CASE stage = "off"    -> 0
    [] stage = "link"   -> Cardinality(links) + 1
    [] stage = "unpack" -> 2 * Cardinality(todo) + Cardinality(links) + 1
    [] stage = "pack"   -> 2 * Cardinality(todo) + Cardinality(links) + 2
    [] stage = "mkdir"  -> 2 * Cardinality(todo) + Cardinality(links) + 3
    [] stage = "connect" /\ mode = "upload" ->
                           2 * Cardinality(todo) + Cardinality(links) + 4
    [] stage = "gate"   -> 2 * Cardinality(Canonicals) + Cardinality(Duplicates) + 5
    [] stage = "plan"   -> 2 * Cardinality(Path) + 6
    [] stage = "list"   -> 2 * Cardinality(Path) + 7
    [] stage = "connect" /\ mode # "upload" -> 2 * Cardinality(Path) + 8

\* Nothing is sent or linked twice: whatever fails, each step of the run leaves it
\* with fewer, and edits, lost connections and Ctrl-C do not give it more.
BoundedRun ==
  [][\/ RunStepsLeft' < RunStepsLeft
     \/ RunStepsLeft' = RunStepsLeft /\ ~(RunStep \/ Killed)]_vars

\* The run ends, whatever fails in it, and nothing in it is done twice.
TransferEnds ==
  /\ BoundedRun
  /\ <>(stage = "off")

\* README.md: duplicates are materialised as hard-links on the destination.
DuplicatesMaterialised ==
  Succeeded /\ unseen = {} => \A d \in Duplicates \cap Steady : dst[d] = src[d]

-----------------------------------------------------------------------------
(* Why a batch that was sent is whole                                       *)

\* Nothing is sent, reported or in memory before there is a plan.
NothingBeforePlan ==
  stage \in {"list", "plan"} \/ (stage = "connect" /\ mode # "upload") =>
    todo = {} /\ links = {} /\ archive = NoArchive /\ errors = {} /\ warned = {}

\* Between the gate and the first batch, every canonical copy is to be sent.
AllToSend ==
  stage = "mkdir" \/ (stage = "connect" /\ mode = "upload") => todo = Canonicals

\* What was found is there unless it was edited since, or the scan missed it.
FoundIsThere ==
  stage = "plan" /\ unseen = {} => \A p \in Path \ edited : listed[p] = src[p]

PlannedStages == {"gate", "connect", "mkdir", "pack", "unpack", "link"}

\* The same of what was planned.
PlannedIsThere ==
  stage \in PlannedStages =>
    \A p \in plan.entries :
      /\ plan.seen[p] # None
      /\ unseen = {} /\ p \notin edited => plan.seen[p] = src[p]

\* An archive is whole and holds what was planned.
ArchiveIsWhole ==
  stage = "unpack" /\ unseen = {} =>
    /\ Complete
    /\ \A p \in archive.batch \ edited : archive.data[p] = plan.seen[p]

IInv ==
  /\ RemoteTypeOK
  /\ NothingBeforePlan /\ AllToSend
  /\ FoundIsThere /\ PlannedIsThere /\ ArchiveIsWhole
  /\ SentIsWhole

-----------------------------------------------------------------------------
(* Why a run that exits 0 has mirrored the source                           *)

HasPlan == \/ stage \in {"gate", "mkdir", "pack", "unpack", "link"}
           \/ stage = "connect" /\ mode = "upload"

\* Nothing of the source is missing from the plan.
AllPlanned ==
  HasPlan /\ unseen = {} => \A p \in Path \ edited : src[p] # None => p \in plan.entries

\* A duplicate's canonical copy is sent, and the two are alike.
GroupsAlike ==
  HasPlan => \A d \in Duplicates :
    /\ plan.canon[d] \in Canonicals
    /\ unseen = {} /\ d \in Steady => src[d] = src[plan.canon[d]]

\* Duplicates wait for their copies, and then are linked or named in the log.
LinksWait ==
  /\ HasPlan /\ stage \notin {"gate", "link"} => links = Duplicates
  /\ stage = "link" => todo = {}

LinkedLikeCanonical ==
  stage = "link" /\ unseen = {} =>
    \A d \in Duplicates \ (links \cup warned) : dst[d] = dst[plan.canon[d]]

\* What comes out of gzip is the whole archive of the source as it is.
GzipIsWhole ==
  Gzipped /\ "pipe" \notin unseen =>
    /\ stage = "unpack" =>
         /\ Complete
         /\ \A p \in archive.batch : archive.data[p] # None
         /\ \A p \in archive.batch \ edited : archive.data[p] = src[p]
    /\ stage \in {"pack", "unpack", "link"} =>
         \A p \in Canonicals \ (todo \cup errors \cup edited) : dst[p] = src[p]

MirrorParts ==
  /\ AllPlanned /\ GroupsAlike /\ LinksWait /\ LinkedLikeCanonical
  /\ GzipIsWhole
  /\ TransferIsMirror /\ GzipCatchesCuts

TransferInv == IInv /\ MirrorParts

-----------------------------------------------------------------------------
(* Why a run takes a bounded number of steps                                *)

\* A batch that is unpacked takes something off what is to be sent.
BatchInHand == stage = "unpack" => archive.batch # {}
==============================================================================
