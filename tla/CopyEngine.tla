------------------------------ MODULE CopyEngine ------------------------------
(***************************************************************************)
(* engine::copy::execute_copy_plan_resumable: the two-phase execution of a *)
(* copy plan into a destination, with the manifest that lets a later run   *)
(* resume it.                                                              *)
(*                                                                         *)
(* Phase 1 copies the canonical files, large ones one by one and small     *)
(* ones through one in-memory tar archive; phase 2 links the duplicates.   *)
(* The destination is a directory over inodes, because hard links make two *)
(* paths one file.  The process may be killed between any two steps; the   *)
(* next run loads the manifest from disk and executes the plan again.      *)
(*                                                                         *)
(* Saving the manifest is one step here; ManifestFile shows that the       *)
(* write-to-temp-then-rename protocol gives exactly that.                  *)
(***************************************************************************)
EXTENDS DedupPlan

CONSTANTS
  Inode,           \* inodes of the destination file system
  Torn,            \* content that is not a whole source file
  Threshold,       \* small_file_threshold, in bytes
  Mount,           \* the file system each destination path is on
  Strategy,        \* LinkStrategy: "HardLink" or "Clone"
  Reflink,         \* the destination supports FICLONE
  CopyFileRange,   \* the destination paths copy_file_range can write
  Faults,          \* which failures the environment may inject
  MaxTime,         \* bound: the latest mtime a source file has
  MaxRuns          \* bound: how many times a plan is executed

\* Per kind, the call that fails: create_dir_all, opening a large source, writing
\* a large destination, reading a small source, unpacking the archive, link(2),
\* symlink(2), CopyManifest::save, reading the manifest, hashing, walking the source,
\* remove_file; "crash" kills the process and "cancel" is Ctrl-C.
FaultKinds == {"mkdir", "open", "write", "pack", "unpack", "link", "symlink", "save",
               "load", "hash", "scan", "remove", "space", "crash", "cancel"}

ManifestEntry == [size : Nat, hash : Content \cup {None}]

ASSUME EngineAssumption ==
  /\ Torn \notin Content
  /\ None # Torn
  /\ None \notin ManifestEntry
  /\ Path \cap Inode = {}
  /\ None \notin Inode
  /\ Threshold \in Nat
  /\ Strategy \in {"HardLink", "Clone"}
  /\ Reflink \in BOOLEAN
  /\ CopyFileRange \subseteq Path
  /\ Faults \subseteq FaultKinds
  /\ MaxTime \in Nat \ {0}
  /\ MaxRuns \in Nat

VARIABLES
  src,       \* source: per path its content and mtime (seconds), or None
  dir,       \* destination: the inode of a path, the path a symlink names, or None
  data,      \* content and mtime of every inode
  disk,      \* the manifest file, per path its entry or None
  mem,       \* the manifest of the running process
  plan,      \* the plan being executed
  pc,        \* where the process is
  todo,      \* entries the current phase has not reached
  batch,     \* small_files: entries put aside for the tar archive
  archive,   \* what the archive still holds for each path
  cur,       \* the path being written
  errors,    \* entries CopyResult.errors names
  runs       \* executions started

engineVars == <<src, dir, data, disk, mem, plan, pc, todo, batch, archive,
                cur, errors, runs>>

\* The mtime of a file the engine writes without restoring the source's: the
\* wall clock, which is taken to differ from every source mtime (1, 2, ...).
CopyTime == 0

SourceFile    == [content : Content, mtime : 1..MaxTime]
InodeData     == [content : Content \cup {Torn}, mtime : 0..MaxTime]
Manifest      == [Path -> ManifestEntry \cup {None}]
NoManifest    == [p \in Path |-> None]
EmptyArchive  == [p \in Path |-> None]
PC == {"idle", "copy", "large", "saveLarge", "pack", "unpack", "mark",
       "saveSmall", "link", "fallback", "saveLink", "done"}

TypeOK ==
  /\ src \in [Path -> SourceFile \cup {None}]
  /\ dir \in [Path -> Inode \cup Path \cup {None}]
  /\ data \in [Inode -> InodeData]
  /\ disk \in Manifest
  /\ mem \in Manifest
  /\ WellFormed(plan)
  /\ pc \in PC
  /\ todo \subseteq plan.entries
  /\ batch \subseteq plan.entries
  /\ archive \in [Path -> InodeData \cup {None}]
  /\ cur \in Path \cup {None}
  /\ errors \subseteq Path
  /\ runs \in Nat

-----------------------------------------------------------------------------
(* The plan and the manifest                                                *)

Size(p)        == SizeOf[plan.seen[p]]
IsDuplicate(p) == plan.canon[p] # None
Canonicals     == {p \in plan.entries : ~IsDuplicate(p)}
Duplicates     == {p \in plan.entries : IsDuplicate(p)}
IsSmall(p)     == Size(p) < Threshold

\* mark_copied and mark_linked record the same size and hash.
EntryFor(p)  == [size |-> Size(p), hash |-> plan.hash[p]]
Mark(m, S)   == [p \in Path |-> IF p \in S THEN EntryFor(p) ELSE m[p]]

\* is_completed: sizes agree, and hashes agree when both sides have one.
IsCompleted(p) ==
  /\ mem[p] # None
  /\ mem[p].size = Size(p)
  /\ mem[p].hash = None \/ plan.hash[p] = None \/ mem[p].hash = plan.hash[p]

-----------------------------------------------------------------------------
(* The destination file system (external: POSIX)                            *)

\* The path an open(2) of p reaches: symlinks made by phase 2 are followed.
Target(p) == IF dir[p] \in Path THEN dir[p] ELSE p
Exists(p) == dir[Target(p)] \in Inode
Holds(p)  == IF Exists(p) THEN data[dir[Target(p)]].content ELSE None

\* Inodes no path but p names.
FreeFor(p) == Inode \ {dir[q] : q \in Path \ {p}}

TornNow    == [content |-> Torn, mtime |-> CopyTime]
Written(c) == [content |-> c, mtime |-> CopyTime]

\* File::create(dest): truncates the file the path reaches, in place, or makes
\* a new one there.
Create(p) ==
  IF Exists(p)
  THEN /\ data' = [data EXCEPT ![dir[Target(p)]] = TornNow]
       /\ UNCHANGED dir
  ELSE \E i \in FreeFor(Target(p)) :
         /\ dir' = [dir EXCEPT ![Target(p)] = i]
         /\ data' = [data EXCEPT ![i] = TornNow]

\* The file is created, found unusable, removed and created again.
CreateAfterRemove(p) ==
  \E i \in FreeFor(p) :
    /\ dir' = [dir EXCEPT ![p] = i]
    /\ data' = IF Exists(p)
               THEN [data EXCEPT ![dir[Target(p)]] = TornNow, ![i] = TornNow]
               ELSE [data EXCEPT ![i] = TornNow]

\* A new file replaces whatever p was: what tar unpacking does.
Replace(p) ==
  \E i \in FreeFor(p) :
    /\ dir' = [dir EXCEPT ![p] = i]
    /\ data' = [data EXCEPT ![i] = TornNow]

-----------------------------------------------------------------------------
\* Which entries each phase works on, and what it is in the middle of.
ControlOK ==
  /\ pc \in {"idle", "done"} => todo = {} /\ batch = {}
  /\ pc \in {"copy", "large", "saveLarge"} => todo \subseteq Canonicals
  /\ pc \in {"pack", "unpack", "mark", "saveSmall"} => todo = {}
  /\ pc \in {"link", "fallback", "saveLink"} => todo \subseteq Duplicates
  /\ pc \in {"saveSmall", "link", "fallback", "saveLink"} => batch = {}
  /\ \A p \in batch : p \in Canonicals /\ IsSmall(p)
  /\ \A p \in Path : archive[p] # None => pc = "unpack" /\ p \in batch
  /\ pc = "large" => cur \in Canonicals /\ ~IsSmall(cur)
  /\ pc = "unpack" /\ cur # None => archive[cur] # None
  /\ pc = "fallback" => cur \in Duplicates /\ Exists(plan.canon[cur])
  /\ cur # None => pc \in {"large", "unpack", "fallback"}

-----------------------------------------------------------------------------
(* Phase 1: canonical files, large ones directly                            *)

Fail(p) == errors' = errors \cup {p}

\* Mutant: a finished entry is put back in the queue.
SkipCompletedLater(p) ==
  /\ pc \in {"copy", "link"} /\ p \in todo
  /\ IsCompleted(p)
  /\ todo' = todo
  /\ UNCHANGED <<src, dir, data, disk, mem, plan, pc, batch, archive, cur,
                 errors, runs>>

\* The manifest has p, in either phase: nothing to do.
SkipCompleted(p) ==
  /\ pc \in {"copy", "link"} /\ p \in todo
  /\ IsCompleted(p)
  /\ todo' = todo \ {p}
  /\ UNCHANGED <<src, dir, data, disk, mem, plan, pc, batch, archive, cur,
                 errors, runs>>

ParentDirFails(p) ==
  /\ "mkdir" \in Faults
  /\ pc \in {"copy", "link"} /\ p \in todo
  /\ ~IsCompleted(p)
  /\ todo' = todo \ {p}
  /\ Fail(p)
  /\ UNCHANGED <<src, dir, data, disk, mem, plan, pc, batch, archive, cur, runs>>

\* A small file waits for the archive.
PutAside(p) ==
  /\ pc = "copy" /\ p \in todo
  /\ ~IsCompleted(p)
  /\ IsSmall(p)
  /\ todo' = todo \ {p}
  /\ batch' = batch \cup {p}
  /\ UNCHANGED <<src, dir, data, disk, mem, plan, pc, archive, cur, errors, runs>>

\* The source cannot be opened: the destination is not touched.
LargeOpenFails(p) ==
  /\ pc = "copy" /\ p \in todo
  /\ ~IsCompleted(p) /\ ~IsSmall(p)
  /\ "open" \in Faults \/ src[p] = None
  /\ todo' = todo \ {p}
  /\ Fail(p)
  /\ UNCHANGED <<src, dir, data, disk, mem, plan, pc, batch, archive, cur, runs>>

\* The destination is opened and truncated.  Without copy_file_range the
\* truncated file is removed and a new one made for the buffered copy.
LargeStart(p) ==
  /\ pc = "copy" /\ p \in todo
  /\ ~IsCompleted(p) /\ ~IsSmall(p)
  /\ src[p] # None
  /\ IF p \in CopyFileRange THEN Create(p) ELSE CreateAfterRemove(p)
  /\ todo' = todo \ {p}
  /\ cur' = p
  /\ pc' = "large"
  /\ UNCHANGED <<src, disk, mem, plan, batch, archive, errors, runs>>

\* Every byte is written; the entry is marked in memory.
LargeDone ==
  /\ pc = "large"
  /\ src[cur] # None
  /\ data' = [data EXCEPT ![dir[Target(cur)]] = Written(src[cur].content)]
  /\ mem' = Mark(mem, {cur})
  /\ cur' = None
  /\ pc' = "saveLarge"
  /\ UNCHANGED <<src, dir, disk, plan, todo, batch, archive, errors, runs>>

\* Mutant: the entry is marked whatever copy_large_file returned.
LargeFailsMarked ==
  /\ pc = "large"
  /\ "write" \in Faults
  /\ Fail(cur)
  /\ mem' = Mark(mem, {cur})
  /\ cur' = None
  /\ pc' = "saveLarge"
  /\ UNCHANGED <<src, dir, data, disk, plan, todo, batch, archive, runs>>

\* A read or write error leaves the file as far as it got.
LargeFails ==
  /\ pc = "large"
  /\ "write" \in Faults
  /\ Fail(cur)
  /\ cur' = None
  /\ pc' = "copy"
  /\ UNCHANGED <<src, dir, data, disk, mem, plan, todo, batch, archive, runs>>

-----------------------------------------------------------------------------
(* CopyManifest::save after each step that marked something                 *)

AfterSave == [saveLarge |-> "copy", saveSmall |-> "link", saveLink |-> "link"]

\* The batch is over once its manifest is saved: phase 2 starts.
LinkWork == IF pc = "saveSmall" THEN Duplicates ELSE todo

Save ==
  /\ pc \in DOMAIN AfterSave
  /\ disk' = mem
  /\ pc' = AfterSave[pc]
  /\ todo' = LinkWork
  /\ UNCHANGED <<src, dir, data, mem, plan, batch, archive, cur, errors, runs>>

\* A save that fails is logged and forgotten.
SaveFails ==
  /\ "save" \in Faults
  /\ pc \in DOMAIN AfterSave
  /\ pc' = AfterSave[pc]
  /\ todo' = LinkWork
  /\ UNCHANGED <<src, dir, data, disk, mem, plan, batch, archive, cur, errors,
                 runs>>

-----------------------------------------------------------------------------
(* Phase 1: small files through the archive                                 *)

\* Mutant: without small files, phase 2 is forgotten.
EndOfPhase1NoLinks ==
  /\ pc = "copy" /\ todo = {}
  /\ pc' = IF batch = {} THEN "done" ELSE "pack"
  /\ UNCHANGED <<src, dir, data, disk, mem, plan, todo, batch, archive, cur,
                 errors, runs>>

EndOfPhase1 ==
  /\ pc = "copy" /\ todo = {}
  /\ IF batch = {}
     THEN pc' = "link" /\ todo' = Duplicates
     ELSE pc' = "pack" /\ UNCHANGED todo
  /\ UNCHANGED <<src, dir, data, disk, mem, plan, batch, archive, cur, errors,
                 runs>>

\* Files that cannot be opened are left out of the archive (lost); a read that
\* fails after the header leaves a spoilt entry behind.  Both are errors.
Pack ==
  /\ pc = "pack"
  /\ \E lost, spoilt \in SUBSET batch :
       /\ "pack" \notin Faults => lost \cup spoilt = {}
       /\ lost \cap spoilt = {}
       /\ \A p \in batch \ lost : src[p] # None
       /\ archive' = [p \in Path |->
            IF p \notin batch \ lost THEN None
            ELSE IF p \in spoilt THEN [src[p] EXCEPT !.content = Torn]
            ELSE src[p]]
       /\ errors' = errors \cup lost \cup spoilt
  /\ pc' = "unpack"
  /\ UNCHANGED <<src, dir, data, disk, mem, plan, todo, batch, cur, runs>>

UnpackStart(p) ==
  /\ pc = "unpack" /\ cur = None
  /\ archive[p] # None
  /\ Replace(p)
  /\ cur' = p
  /\ UNCHANGED <<src, disk, mem, plan, pc, todo, batch, archive, errors, runs>>

\* The entry's bytes are out, and its mtime is the one the source had.
UnpackDone ==
  /\ pc = "unpack" /\ cur # None
  /\ data' = [data EXCEPT ![dir[cur]] = archive[cur]]
  /\ archive' = [archive EXCEPT ![cur] = None]
  /\ cur' = None
  /\ UNCHANGED <<src, dir, disk, mem, plan, pc, todo, batch, errors, runs>>

\* Unpacking stops at the first error: entries not reached are not written.
UnpackFails ==
  /\ pc = "unpack"
  /\ \/ "unpack" \in Faults
     \/ \E p \in Path : archive[p] # None /\ archive[p].content = Torn
  /\ errors' = errors \cup {p \in Path : archive[p] # None}
  /\ archive' = EmptyArchive
  /\ cur' = None
  /\ pc' = "mark"
  /\ UNCHANGED <<src, dir, data, disk, mem, plan, todo, batch, runs>>

UnpackEnds ==
  /\ pc = "unpack" /\ archive = EmptyArchive
  /\ pc' = "mark"
  /\ UNCHANGED <<src, dir, data, disk, mem, plan, todo, batch, archive, cur,
                 errors, runs>>

\* Mutant: every canonical entry of the plan is marked, not those of the batch.
MarkSmallAll ==
  /\ pc = "mark"
  /\ mem' = Mark(mem, Canonicals)
  /\ batch' = {}
  /\ pc' = "saveSmall"
  /\ UNCHANGED <<src, dir, data, disk, plan, todo, archive, cur, errors, runs>>

\* mark_small_files_in_manifest: the whole batch, whatever became of it.
MarkSmall ==
  /\ pc = "mark"
  /\ mem' = Mark(mem, batch)
  /\ batch' = {}
  /\ pc' = "saveSmall"
  /\ UNCHANGED <<src, dir, data, disk, plan, todo, archive, cur, errors, runs>>

-----------------------------------------------------------------------------
(* Phase 2: duplicates                                                      *)

AtDuplicate(p) == pc = "link" /\ p \in todo /\ ~IsCompleted(p)

Linked(p) ==
  /\ mem' = Mark(mem, {p})
  /\ todo' = todo \ {p}
  /\ pc' = "saveLink"
  /\ UNCHANGED <<src, disk, plan, batch, archive, cur, errors, runs>>

SameMount(p) == Mount[p] = Mount[plan.canon[p]]

\* The clone tier (try_reflink): the duplicate is created, truncating what is
\* there, and then shares the canonical copy's extents.
CloneWorks(p) ==
  /\ Strategy = "Clone" /\ Reflink
  /\ Exists(plan.canon[p]) /\ SameMount(p)

\* Mutant: source and destination of the clone are swapped.
CloneSwapped(p) ==
  /\ AtDuplicate(p)
  /\ CloneWorks(p)
  /\ data' = [data EXCEPT ![dir[Target(plan.canon[p])]] =
                IF Exists(p) THEN Written(Holds(p)) ELSE TornNow]
  /\ UNCHANGED dir
  /\ Linked(p)

\* Truncating a duplicate that is the canonical copy's inode leaves nothing to
\* clone: FICLONE of an empty file onto itself succeeds.
Clone(p) ==
  /\ AtDuplicate(p)
  /\ CloneWorks(p)
  /\ IF Exists(p)
     THEN /\ data' = [data EXCEPT ![dir[Target(p)]] =
                        IF dir[Target(p)] = dir[Target(plan.canon[p])]
                        THEN TornNow ELSE Written(Holds(plan.canon[p]))]
          /\ UNCHANGED dir
     ELSE \E i \in FreeFor(Target(p)) :
            /\ dir' = [dir EXCEPT ![Target(p)] = i]
            /\ data' = [data EXCEPT ![i] = Written(Holds(plan.canon[p]))]
  /\ Linked(p)

\* What the hard-link tier finds at p: the clone tier, when it was tried and
\* failed, has truncated the file that was there and removed its name.
CloneTried(p)  == Strategy = "Clone" /\ ~CloneWorks(p) /\ Exists(plan.canon[p])
Occupied(p)    == dir[p] # None /\ ~CloneTried(p)
DataAtLink(p)  == IF CloneTried(p) /\ Exists(p)
                  THEN [data EXCEPT ![dir[Target(p)]] = TornNow] ELSE data
NameAtLink(p)  == IF CloneTried(p) THEN [dir EXCEPT ![p] = None] ELSE dir

\* Mutant: the link is made to whichever canonical copy has the same size.
HardLinkBySize(p) ==
  /\ AtDuplicate(p) /\ ~CloneWorks(p)
  /\ ~Occupied(p) /\ SameMount(p)
  /\ \E q \in Canonicals : /\ dir[q] # None /\ Size(q) = Size(p)
                           /\ dir' = [NameAtLink(p) EXCEPT ![p] = dir[q]]
  /\ data' = DataAtLink(p)
  /\ Linked(p)

\* link(2) gives the duplicate the canonical copy's inode.
HardLink(p) ==
  /\ AtDuplicate(p) /\ ~CloneWorks(p)
  /\ dir[plan.canon[p]] # None /\ ~Occupied(p) /\ SameMount(p)
  /\ data' = DataAtLink(p)
  /\ dir' = [NameAtLink(p) EXCEPT ![p] = dir[plan.canon[p]]]
  /\ Linked(p)

\* link(2) fails for another reason than the mount: no canonical copy, a file
\* already at the duplicate's path, too many links, ...
HardLinkFails(p) ==
  /\ AtDuplicate(p) /\ ~CloneWorks(p)
  /\ \/ dir[plan.canon[p]] = None
     \/ Occupied(p)
     \/ "link" \in Faults
  /\ data' = DataAtLink(p)
  /\ dir' = NameAtLink(p)
  /\ todo' = todo \ {p}
  /\ Fail(p)
  /\ UNCHANGED <<src, disk, mem, plan, pc, batch, archive, cur, runs>>

AcrossMounts(p) ==
  /\ AtDuplicate(p) /\ ~CloneWorks(p)
  /\ dir[plan.canon[p]] # None /\ ~Occupied(p) /\ ~SameMount(p)

\* EXDEV: a relative symlink, kept when it resolves to a file.
Symlink(p) ==
  /\ AcrossMounts(p)
  /\ Exists(plan.canon[p])
  /\ data' = DataAtLink(p)
  /\ dir' = [dir EXCEPT ![p] = plan.canon[p]]
  /\ Linked(p)

\* EXDEV and no symlink: fs::copy of the canonical copy.
FallbackStart(p) ==
  /\ AcrossMounts(p)
  /\ "symlink" \in Faults \/ ~Exists(plan.canon[p])
  /\ IF Exists(plan.canon[p])
     THEN /\ \E i \in FreeFor(p) :
               /\ dir' = [dir EXCEPT ![p] = i]
               /\ data' = [DataAtLink(p) EXCEPT ![i] = TornNow]
          /\ cur' = p
          /\ pc' = "fallback"
          /\ UNCHANGED errors
     ELSE /\ data' = DataAtLink(p)
          /\ dir' = NameAtLink(p)
          /\ Fail(p)
          /\ UNCHANGED <<cur, pc>>
  /\ todo' = todo \ {p}
  /\ UNCHANGED <<src, disk, mem, plan, batch, archive, runs>>

FallbackDone ==
  /\ pc = "fallback"
  /\ data' = [data EXCEPT ![dir[cur]] = Written(Holds(plan.canon[cur]))]
  /\ mem' = Mark(mem, {cur})
  /\ cur' = None
  /\ pc' = "saveLink"
  /\ UNCHANGED <<src, dir, disk, plan, todo, batch, archive, errors, runs>>

FallbackFails ==
  /\ pc = "fallback"
  /\ "write" \in Faults
  /\ Fail(cur)
  /\ cur' = None
  /\ pc' = "link"
  /\ UNCHANGED <<src, dir, data, disk, mem, plan, todo, batch, archive, runs>>

EndOfPhase2 ==
  /\ pc = "link" /\ todo = {}
  /\ pc' = "done"
  /\ UNCHANGED <<src, dir, data, disk, mem, plan, todo, batch, archive, cur,
                 errors, runs>>
-----------------------------------------------------------------------------
(* Starting, stepping and losing the process                                *)

\* What load_or_create_manifest gives: the manifest on disk, or a new one when the
\* one on disk cannot be read, which the pipeline only warns of.
Loads == {disk} \cup IF "load" \in Faults THEN {NoManifest} ELSE {}

\* Mutant: every run starts from a new manifest.
BeginAfresh(p, m) ==
  /\ runs < MaxRuns
  /\ runs' = runs + 1
  /\ plan' = p
  /\ mem' = NoManifest
  /\ todo' = {q \in p.entries : p.canon[q] = None}
  /\ batch' = {} /\ archive' = EmptyArchive /\ cur' = None /\ errors' = {}
  /\ pc' = "copy"

\* execute_copy_plan_resumable is entered with plan p and manifest m.
Begin(p, m) ==
  /\ runs < MaxRuns
  /\ runs' = runs + 1
  /\ plan' = p
  /\ mem' = m
  /\ todo' = {q \in p.entries : p.canon[q] = None}
  /\ batch' = {} /\ archive' = EmptyArchive /\ cur' = None /\ errors' = {}
  /\ pc' = "copy"

\* The process is killed: its memory is gone, the file system stays.
Crash ==
  /\ "crash" \in Faults
  /\ pc \notin {"idle", "done"}
  /\ pc' = "idle"
  /\ mem' = NoManifest
  /\ todo' = {} /\ batch' = {} /\ archive' = EmptyArchive /\ cur' = None
  /\ errors' = {}
  /\ UNCHANGED <<src, dir, data, disk, plan, runs>>

Phase1Step ==
  \/ \E p \in Path : \/ SkipCompleted(p) \/ ParentDirFails(p) \/ PutAside(p)
                      \/ LargeOpenFails(p) \/ LargeStart(p) \/ UnpackStart(p)
  \/ LargeDone \/ LargeFails \/ EndOfPhase1
  \/ Pack \/ UnpackDone \/ UnpackFails \/ UnpackEnds \/ MarkSmall

Phase2Step ==
  \/ \E p \in Path : \/ Clone(p) \/ HardLink(p) \/ HardLinkFails(p)
                      \/ Symlink(p) \/ FallbackStart(p)
  \/ FallbackDone \/ FallbackFails \/ EndOfPhase2

EngineStep == Phase1Step \/ Phase2Step \/ Save \/ SaveFails

-----------------------------------------------------------------------------
(* How much a run has left to do                                            *)

InArchive == {p \in Path : archive[p] # None}

\* The most steps the engine can take from here: an entry that is not reached yet
\* takes three, one that was put aside two more, and the ends of the phases six.
CopyStepsLeft ==
  LET waiting == 3 * Cardinality(todo)
      aside   == 2 * Cardinality(batch)
      links   == 3 * Cardinality(Duplicates) + 1
  IN  CASE pc = "copy"      -> waiting + aside + links + 5
        [] pc = "saveLarge" -> waiting + aside + links + 6
        [] pc = "large"     -> waiting + aside + links + 7
        [] pc = "pack"      -> aside + links + 4
        [] pc = "unpack"    -> 2 * Cardinality(InArchive) + links
                                 + IF cur = None THEN 3 ELSE 2
        [] pc = "mark"      -> links + 2
        [] pc = "saveSmall" -> links + 1
        [] pc = "link"      -> waiting + 1
        [] pc = "saveLink"  -> waiting + 2
        [] pc = "fallback"  -> waiting + 3
        [] OTHER            -> 0
==============================================================================
