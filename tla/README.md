# Formal models of accroître

`accro` copies directory trees quickly: it scans a source, groups identical
files, copies one file of every group, links the others to it, and keeps a
manifest so that an interrupted copy can be resumed. This directory holds TLA+
models of the parts where order, failure and interruption decide whether a copy
is right, the TLC configurations that check them, and TLAPS proofs.

Paths below are relative to the repository; `A/` is `accroitre/src/` and `C/` is
`accroitre-cli/src/`.

    tlc -config ResumedHardlink.cfg MCResumedCopy.tla      # a run
    tlapm ResumedCopyProofs.tla                            # a proof module

## Inventory

| Component | State it keeps | Operations | What makes it correct |
|---|---|---|---|
| Dedup planner, `A/engine/dedup.rs` | none; returns `CopyPlan` | `build_dedup_plan`, `assemble_plan` | every duplicate has a canonical copy of the same content, copied in the same plan |
| Copy engine, `A/engine/copy.rs`, `linux_io.rs` | destination files, links, errors, in-memory manifest | `execute_copy_plan_resumable` and its two phases | what the manifest lists is there; a run without errors copied everything |
| One file, `copy_large_file`, `apply_dedup_link` with `linux_io.rs`, `macos_io.rs`, `windows_io.rs` | the destination's blocks, open files | the system's copy and clone calls, the buffered copy, the hard link | a tier that gives up leaves the next one a destination it can use |
| One batch, `copy_small_files_tar` | an archive in memory | pack, unpack | what comes out is what was read |
| Copy manifest, `A/adapters/manifest.rs` | `.accroitre-manifest.json` | `load_or_create_manifest`, `mark_*`, `is_completed`, `save`, `remove` | a save is all or nothing; entries are not lost |
| Destination lock, `A/adapters/lock.rs` | `.accroitre.lock`, flock on it | `DestLock::acquire`, `Drop` | one run per destination; no lock outlives its process |
| Delta, `A/engine/delta.rs` | destination names | `compute_delta`, `find_orphans`, `delete_orphans` | unchanged files are skipped only when they are unchanged; only orphans go |
| Verifier, `A/engine/verify.rs` | none | `verify_plan` | every hashed canonical copy is compared |
| Scanner, hasher, `A/engine/scan.rs`, `hash.rs` | none | `scan_tree`, `hash_file` | files that stay where they are are found, unreadable ones are reported |
| Local pipeline, `C/pipeline.rs` | stage, Ctrl-C flag, exit code | `run_local_pipeline` | exit code 0 means the destination mirrors the source |
| Remote pipelines, `C/remote_pipeline.rs`, `A/adapters/ssh_tar.rs` | remote and local files | `run_upload_pipeline`, `run_download_pipeline`, `run_relay_pipeline` | as the local one; batches fail separately |
| SSH, `A/adapters/ssh.rs`, `shell.rs` | a connection, a channel and its messages | `connect`, `exec_command`, `exec_with_stdin` | Ok only for a command that succeeded, with all its output; every call returns |
| Remote scan and hash, `A/adapters/remote_dedup.rs`, `remote_fs.rs` | none | `hash_remote_files`, `list_remote_files` | a truncated answer is not a complete one |
| Hash cache, `A/adapters/cache.rs` | SQLite table | `lookup`, `store`, `store_batch`, `remove` | a hit is the hash of the file as it is |
| Self-update, `C/update.rs` | the executable and its backup | `run`, `download_asset`, `replace_binary` | there is always a runnable executable |

How they interact. `run_local_pipeline` takes the lock, scans, drops unchanged
files, deletes orphans, plans, leaves at `--dry-run`, loads the manifest, calls
the engine, verifies, saves, and removes the manifest when all went well. The
stages communicate by return values; runs communicate only through the
destination: its files, the manifest and the lock. All concurrency between
processes goes through the lock; within a run, the scan, the hashes and the
verification are parallel maps without shared state, so the hard behaviours are
interruption, partial failure and what the next run makes of it. A remote run has
none of the lock, the manifest, the delta and the verification: it enumerates and
hashes the source (in place or over SSH), plans, sends the canonical copies as tar
archives of bounded size through local memory, and links the duplicates with one
chain of commands. It depends on what the SSH adapter's `Ok` is worth. `accro
update` shares nothing with the rest, and the hash cache is finished and tested but
no command opens it (`hash.rs`, line 161).

Hard behaviours: kills between a write and its manifest save; saves that fail;
a batch that fails half way; links to files that are not what they should be;
inodes shared between names and then written; a source edited between runs;
scan errors nobody looks at; a lock whose file is removed while others have it
open; files edited, and names moved, while they are walked, hashed, packed or copied;
a system call that fails half way with another one to take over; remote commands that
end early and are taken for complete. PROJECT.json lists each of them at its line under "hazards".

## Modules

| Module | What it is |
|---|---|
| `DedupPlan` | plans as sets: which files are hashed, what a group is, every plan HashMap order allows |
| `CopyEngine` | both phases of the engine over a destination with inodes, one action per step that can be interrupted |
| `ResumedCopy` | one plan, an empty destination, runs and crashes until a run reports no error |
| `LocalPipeline` | whole runs of `run_local_pipeline` with flags, Ctrl-C, exit codes, and edits of the source between them |
| `AtomicManifest` | what a manifest promises: the abstract specification |
| `ManifestFile` | the temporary file, the rename, kills and power losses; refines `AtomicManifest` |
| `RemoteTransfer` | one upload, download or relay, batch by batch, with commands that fail, are cut short or lose their connection, over a source edited meanwhile |
| `RemoteExec` | what a remote command promises: the abstract specification |
| `SshChannel` | connection, authentication, channel messages, timeouts and the remote side of one command; refines `RemoteExec` |
| `DestLock` | open, flock, unlock, unlink by any number of processes |
| `LockedManifest` | those processes with the manifest they load, or fail to, and save behind the lock |
| `FileCopy` | one large file or one duplicate through the tiers of each platform, the source being edited |
| `TarBatch` | one archive of small files, block by block, the files being edited |
| `TreeWalk` | the scan of a source that changes, the walk of the destination with its symlinks, the removal of orphans |
| `HashCache` | lookups, stores and batches of several threads, edits, restarts |
| `SelfUpdate` | choosing, checking and installing a release, failures, kills, power losses, overlapping updates, updates of the backup |
| `MC*` | constants for TLC |
| `CopyEngineProofs` | theorems about `DedupPlan` and `CopyEngine` |
| `ResumedCopyProofs`, `LocalPipelineProofs`, `RemoteTransferProofs`, `SshChannelProofs` | theorems about the module of that name |
| `FileProtocolProofs` | theorems about `FileCopy`, `TarBatch`, `SelfUpdate`, `DestLock`, `LockedManifest`, `ManifestFile` |
| `ScanProofs` | theorems about `HashCache` and `TreeWalk` |
| `JointProofs` | the exploration of `MCFileProtocols` implements its parts, so their theorems hold of it |

`LocalPipeline` and `ResumedCopy` both EXTEND `CopyEngine`, which EXTENDS `DedupPlan`.
Saving the manifest is one step in `CopyEngine`; `ManifestFile` justifies that for one
process and a power loss, `LockedManifest`, which EXTENDS `DestLock`, for several processes.
One run at a time in `LocalPipeline`; `DestLock` says when that is so. To `CopyEngine` a
large file is a start and an end and so is a batch; `FileCopy` and `TarBatch` are what
happens in between, and `TreeWalk` is the scan and the deletion that `LocalPipeline` takes
as one step each. `MCFileProtocols` extends the seven modules about files that share no
state and explores one of them at a time: `part`, fixed at the start, says which.
`RemoteTransfer` EXTENDS `DedupPlan` and gives each remote command the outcomes of
`RemoteExec` (whole, error, or `Cut`: Ok for part of the work after a hidden failure);
`SshChannel` shows that the adapter has these and no others.

### How state corresponds to the code

* **Destination.** `dir` gives a path an inode, a path (the symlink phase 2
  makes) or nothing; `data` gives an inode content and mtime. Two paths with one
  inode are hard links. `File::create` on an existing path truncates the inode
  (`Create`), unpacking an archive entry replaces the name (`Replace`). Content is
  a model value or `Torn`, anything that is not a whole source file.
* **mtime.** Archive entries carry the source's mtime; large files and links get
  the wall clock, the value `CopyTime` that no source file has. Both are seconds,
  as `is_unchanged` compares.
* **Hashes.** The content hash is the content: collisions are not modelled.
  Files of unique size have none, as in pass 1 of the planner.
* **Order.** `todo` is a set and any member may be next: plan order comes out of
  HashMap iteration and a parallel walk.
* **Failures.** `Faults` names the calls the environment may make fail. A large
  copy is two steps (opened and truncated; finished or failed), unpacking is two
  steps per entry, so a kill may fall in between. Packing is one step, since its
  result is in memory.
* **Processes.** A kill loses `mem`, `todo`, `batch`, `archive`; `src`, `dir`,
  `data` and `disk` stay.
* **Remote destination.** `dst` gives a name its content and `dirs` the
  directories that exist. Inodes are not needed: unpacking and `ln -f` replace
  names, and nothing writes a file in place. A batch is two steps, since the archive is
  complete in local memory before any of it is unpacked. `unseen` records failures
  of which no caller was told: a cut command, a `tar` failing in front of `| gzip`,
  a scan that missed files.
* **Channel.** `chan` holds the messages the client has not looked at; `quiet` is set when
  nothing came for `connect_timeout`; `input`, `sent`, `read`, `product`, `wrote`, `passed`
  and `output` count pieces of data. The order of exit status and EOF is the server's:
  OpenSSH sends them in either.

* **Lock and manifest.** Both are names of inodes: a process that has the temporary
  file open goes on writing it after another one renamed it. `saved` is what was saved
  since the manifest was last removed, or replaced by the first save of a run that had not
  read it; `afresh` holds such runs until that save.
* **One file.** An inode holds a sequence of blocks (`cells`), `Stale` where an older
  copy left them and `Zero` where nothing was written. `at` is the tier and the call in
  it, `off` and `left` its loop variables. `had` is what the source held since the start.
* **Archive.** A sequence of headers and blocks. The builder writes the size it sees on
  lookup, then the data up to the end of the file; the reader believes the header.
* **Trees.** `kids` gives each directory its names; `toVisit` is the stack of the scan,
  `listing` and `owed` what an open `read_dir` may and must still return. Paths are
  looked up again at every use, symlinks on the way followed.
* **Cache.** A row is a stamp (size, mtime in seconds) and the hash; `tx` is the open
  transaction, `conn` who holds the connection's mutex. `racy` records files edited
  without a later mtime, which no stamp can tell apart.
* **Executable.** `names`, `half` (the two halves of an inode's bytes), `mode` and
  `synced`; `journal` holds the states of the directory a power loss may bring back,
  since the directory itself is never synced. `exePath` is the name the process was
  started by, then what `current_exe` gave.

## What is checked

Runs that pass:

| Run | Properties | What it shows |
|---|---|---|
| `ResumedHardlink` | `IInv`, `ListedLargeIsWhole`, `SharedInodeIsOneGroup`, `ManifestOnlyGrows` | three files on two file systems, every engine failure, kills anywhere: listed large files stay whole; links stay in their group |
| `ResumedClone` | `CleanInv`, `CleanRunIsComplete`, `CopyEnds` | the clone tier with reflinks, three runs, kills, failed links and saves: what is listed is whole, a run without an error is complete, every run ends in a bounded number of steps |
| `PipelineMirror` | `MirrorInv`, which contains `SuccessIsWhole` | whole runs, resumed or forced, failing or killed in any stage: exit code 0 is a mirror |
| `PipelineSync` | `SuccessIsMirror`, `DeleteIsExact`, `OnlyOrphansVanish`, `RunEnds` | edits between `--no-dedup` runs, `--delete`, `--force` |
| `PipelineAllFaults` | `PipelineInv`, `VerifiedIsWhole`, `ForcedSuccessIsMirror`, `DryRunOnlyDeletes` | every failure but a short scan, under mixed flags; a dry run deletes orphans under `--delete` and does nothing else |
| `FileProtocols` | `ExclusiveUntilOrphaned`, `NoStaleLock`, `SavedIsListed` | two processes, two runs each, with `--delete` and kills: one at a time is inside, and no save is lost but to a run that did not read the manifest |
| | `AlwaysParses`, `Implements` | the file protocol of one process refines the atomic manifest |
| | `CopyIsOfSource`, `LinkKeepsCanonical`, `LinkFindsName` | every tier of every platform, failing anywhere, over an edited source |
| | `SteadyBatchIsWhole` | files up to the first that changed its length while it was packed come out whole, or with an error |
| | `StableFilesAreFound`, `DeleteSparesTheRest` | nothing that stays in its place is missed; nothing else is deleted unless symlinks lead there |
| | `HitIsCurrent`, `BatchIsWhole` | a hit is current unless an edit kept the mtime; batches are all or nothing |
| | `BinarySurvives`, `OutcomeIsTrue` | an executable remains through kills and power losses, and the exit code says which, unless two updates overlap or one is started from the backup |
| | `JointTypeOK` | the inductive invariants of the proofs, types included: `LockedInv`, `CacheInv`, `UpdateInv`, `FileInv`, `TarInv`, `WalkInv` |
| `RemoteSync` | `TransferInv`, `TransferIsMirror`, `SentIsWhole`, `GzipCatchesCuts`, `TransferEnds` | all three kinds of transfer with every failure: exit code 0 is a mirror but for logged links and hidden failures; a sent batch is whole; nothing is done twice |
| `SshCalls` | `ChannelInv`, `OkIsWhole`, `CallImplements` | a call returns; while the connection lasts its Ok comes with all the output of a command that has ended; and it is the whole result unless a failure was hidden from the client |

Runs that find a disagreement between the code and what it says of itself:

| Run | What happens |
|---|---|
| `RemoteDuplicates` | with no failure at all, an upload leaves out a duplicate whose directory holds no canonical copy: `ln -f` makes no directory, the run only logs it and exits 0 |
| `PipelineScanDelete` | the walk behind `--delete` ignores its errors: files it could not see count as orphans |
| `LockExclusion` | `Drop` removes the lock file's name after unlocking; two processes lock two files of that name |
| `CloneTruncates` | `--link-strategy clone` over a duplicate that an earlier run hard-linked cuts the canonical copy to nothing, clones the empty file onto itself and counts it as cloned |

### Where the properties stop

The passing runs leave out, by name, the failures that break a property. Besides
the three runs above, these constants make TLC show the following; each was seen
while the models were built:

* `pack` or `unpack` in `ResumedCopy`: `mark_small_files_in_manifest` (`copy.rs`, line 191) marks
  the whole batch, so a file that could not be packed is listed as copied and
  skipped by the next run. Hashed files are caught by the verifier
  (`VerifiedIsWhole`), others are not.
* clones that work in one run and not in the next: `try_reflink` (`linux_io.rs`, line 391) opens
  the duplicate with `File::create` before it tries FICLONE; if an earlier run
  hard-linked it, the canonical copy is truncated although it is listed
  (`ListedLargeIsWhole`; `CloneTruncates` shows the step itself).
* an edit that overwrites a file in `PipelineMirror`: a former duplicate is written in place
  (`copy.rs`, line 756) and the other name of its inode changes too.
* `mkdir`, or a failed write under `--link-strategy clone`, with a torn canonical copy left
  by an earlier run: phase 2 links or clones the duplicate from it, lists the
  duplicate, and a later clean run skips it (`copy.rs`, `create_hard_links_resumable`).
* `remove` with `--force`: the manifest that could not be removed stays and is
  trusted by the next unforced run after a kill.
* two contents of one size and an edit: `is_completed` compares sizes alone when
  either hash is missing, and an interrupted run's entry hides the edit.
* a file system without `copy_file_range` in `PipelineMirror` (`CopyFileRange = {}`): a failed
  write leaves a large canonical copy torn under a name that an earlier duplicate shares and
  the manifest lists. The next run's fall-back removes and recreates the canonical copy
  (`linux_io.rs`, line 93), the duplicate keeps the torn inode, is skipped, and the run exits 0.
* two edits, there and back, around an interrupted run: the manifest's entry matches again
  although the copy was made of the content in between.
* a duplicate on another mount under `--link-strategy clone`: its name is a symlink to the
  canonical copy, and `File::create` follows it and truncates the canonical copy.
* two mounts and `--delete`: a symlink whose canonical copy is gone is not among the
  files `collect_dest_files` sees, so `DeleteIsExact` is for one file system.
* `load` in `ResumedCopy`: a run that cannot read the manifest begins with an empty one
  (`pipeline.rs`, line 397) and truncates large files that the manifest on disk still lists;
  killed then, it leaves them torn for a next run that can read it, and skips them. `load` is
  among the failures of `PipelineAllFaults`, and `DryRunOnlyDeletes`, `VerifiedIsWhole` and
  `ForcedSuccessIsMirror` hold with it.
* `--dry-run --delete`: orphans are deleted before the dry-run gate. `DryRunOnlyDeletes`
  says that nothing else happens.
* every run copies large files again, their mtime being the time of the copy.

Hence `MirrorFaults` (no `mkdir`, `pack`, `unpack`, `remove`, `scan`, `load`) and no edits in
`PipelineMirror`; sizes that differ in `PipelineSync`; and in `PipelineAllFaults`
an edit that only creates or removes a file, so that no shared inode is
overwritten.

The properties of the smaller modules name in their own premises what they leave
out; without the premise TLC shows:

* `LinkFindsName` on Windows: when a ReFS clone gives up, the file it made stays, and
  the hard link it should fall back to (`README.md`, line 147) finds its name taken.
* `LinkKeepsCanonical` for a hard-linked duplicate: see `CloneTruncates`.
* `CopyIsOfSource` says nothing of a source that shrinks: `copy_file_range` then returns
  0 before `remaining` is used up, and the tier reports success with fewer bytes.
* `SteadyBatchIsWhole` ends at the first file that changes its length: a
  file that grows by a block of zeros ends the archive for the reader, one that shrinks
  takes the next header for its data. The batch is Ok, the files behind are missing or
  wrong, and all of them are marked as copied.
* `DeleteSparesTheRest` wants no symlink to a directory in the destination:
  `collect_dest_files` asks `Path::is_dir`, which follows them (`delta.rs`, line 164), so
  files outside the destination are removed, or, if a link leads back into it, files the source has.
* `SavedIsListed` lets the first save of a run that did not read the manifest take away what
  earlier runs saved: with `--force` that is meant; after a `read_to_string` that failed
  (`manifest.rs`, line 101) the entries are lost, and those files are copied again.
* `BinarySurvives` speaks of updates one after the other: two that overlap write one
  staging file and may rename each other's half. Even alone there is a moment between
  the renames with no executable at its name, where `README.md`, line 17, says "atomically
  swaps"; and line 364 of `update.rs` promises a fallback to a direct write that is not there.
* `BinarySurvives` and `OutcomeIsTrue` also leave out an update started from `.accro.backup`.
  After a kill between the two renames that is the only binary left, and it runs; but
  `current_exe` is then the backup, the first rename renames it to itself, the second
  installs the new binary in its name, and line 408 of `update.rs` removes it: exit code 0, and no
  executable is left under either name.
* `Authentic` holds of a release without a checksum: its absence is only warned about.

The properties of `RemoteTransfer` exclude by their own premises, not by constants,
what the code does not promise:

* `warned`: a link that failed is logged and not among the errors. On a download,
  `hard_link` refuses a name that exists, so a stale duplicate stays.
* `Steady`: a source file edited between hashing and packing takes its duplicates
  along, whatever they contain themselves.
* `unseen`: after a cut command nothing is promised, nor after a failure in a pipe
  whose status does not count: `tar` before `gzip` on the way down (`ssh_tar.rs`, line 271),
  `gzip -d` before `tar` on the way up (line 129). A stream cut short is hashed as
  if it were the file and may be grouped with another; only a compressed download
  notices (`GzipCatchesCuts`).
* `errors`: when the batch of a canonical copy fails, the links are made
  nevertheless, and `ln -f` replaces a good duplicate by what is at the canonical
  name. The run then reports PARTIAL.

Where the documentation says something else: `README.md` line 180 has relayed content
never travel through the local machine, while `relay_tar_stream` holds every
archive in local memory; line 178 has large files streamed individually, while they
are packed in batches like all others.

### Bounds

* **Files.** Two or three paths and as many inodes. A dedup group of three has
  two duplicates of one canonical copy, which is the most a step ever looks at;
  an inode more than the paths cannot be named at once.
* **Contents.** One below the small-file threshold and one or two above, so both
  routes and their mixture occur.
* **Runs** (`MaxRuns`). Two or three: a run that fails, one that resumes and one
  that trusts what the second saved.
* **Edits** (`MaxEdits`) one, **mtimes** (`MaxTime`) one or two: an edit may move
  the mtime either way.
* **Lock** (`MaxRuns`): three processes is the least that breaks exclusion (one
  leaves, one holds the old file, one the new), in `LockExclusion`. In
  `FileProtocols` two of them with two runs each, for what holds; the theorems are for any number.
* **Manifests.** Three values: empty, and two that differ. With the lock: one entry
  and two inodes. Until a lock file in use loses its name one process at a time writes, and
  only the manifest and the temporary file have inodes; a process that goes on writing a
  file after it was renamed takes no third one.
* **One file** (`MaxLen`, `SourceEdits`): two blocks, so a copy may stop inside the file,
  and two edits, so the source may go there and back. `CloneTruncates` needs one block and
  none.
* **Batch** (`Count`, `MaxBlocks`, `MaxWrites`): two files of at most two blocks, one edit.
  One file is enough to misalign an archive and one behind it to suffer. One of the two
  kinds of block is zeros.
* **Trees** (`MaxDepth`, `MaxMoves`): paths of two names, one change during the walk; 50
  pairs of a source and a destination with files, a directory and symlinks to a file, to
  the destination itself and out of it.
* **Cache** (`MaxScans`, `MaxEdits`, `MaxStamp`): two threads, two files, two files taken
  up, one edit, two seconds. An edit before, in or after a read each makes a different row.
* **Update** (`MaxUpdates`): two updates by two processes, three binaries, six releases: one
  for each outcome of the checks. Three inodes, so a staged file can be new.
* **Transfers.** Two files in two directories, one of them the destination's root,
  with a batch size one file may reach and the other not, so there is one batch
  or two, a full or a last one. One edit, at any point. The destination begins with
  part of a file under one name and nothing under the other: to a transfer that replaces names,
  whole or torn leftovers are alike.
* **Channel.** Up to two pieces of input and output over a window of one, so that
  writing blocks, and a call may end before, between and after the pieces. Three
  authentication attempts, as in the code.

CHECK_DEADLOCK is off where the bounds let the system stop (after the last run
nothing is left to do).

### Fairness

`FairSpec` is weak fairness of the steps of the running process (`EngineStep`,
`RunStep`) and of nothing else: a thread that can run is scheduled. Starting a
run, Ctrl-C, kills and edits are never owed. It suffices because every loop of the
code visits an entry once and takes it off its list, whatever the outcome.
Blocking system calls that never return are not modelled. In `RemoteTransfer` a
remote command is one step that always happens; `SshChannel` justifies this: its
calls return although nothing is owed by the remote command, given fairness of the
client's own steps and of its two timers (`command_timeout` around collecting output,
`inactivity_timeout` for the connection). The second one counts silence only: a server that is
`quiet` for so long loses the connection, and one that is not has answered (`Silence` is owed
where the model allows it, since time passes). Writing input has no timer of its own, and
without the connection's a command that stops reading would block the call forever.

## What is proved

Every invariant a run checks is stated by a theorem, and so is every action property. Of
`CopyEnds`, `RunEnds` and `TransferEnds` the theorems have the safety half (`BoundedWork`,
`BoundedRun`), which is its first conjunct; that a run which can still step does so is
liveness and stays with TLC.

| Theorem | For every |
|---|---|
| `CopyEngineProofs!PlansAreWellFormed` | set of files, contents and hash failures: plans are ones the engine can execute |
| `CopyEngineProofs!EngineType` | strategy, mount layout and failure: engine steps keep types and phase bookkeeping |
| `ResumedCopyProofs!TypeCorrect` | as above, over whole behaviours |
| `ResumedCopyProofs!Inductive` | number of files, runs and crashes, with hard links and a manifest that can be read: `IInv` |
| `ResumedCopyProofs!ListedLargeIsWholeHolds` | same: a large file listed on disk is whole |
| `ResumedCopyProofs!SharedInodeHolds`, `ManifestOnlyGrowsHolds` | same |
| `CopyEngineProofs!EngineShrinks`, `StepsLeftIsNatural`, `ResumedCopyProofs!BoundedWorkHolds` | strategy, mount layout, plan and failure: a copy takes at most three steps an entry and six more |
| `ResumedCopyProofs!CleanInductive`, `CleanRunIsCompleteHolds`, `ListedLargeIsWholeForClones` | either strategy, with kills and with saves and links that fail: a run without an error is complete |
| `LocalPipelineProofs!PipelineInductive`, `VerifiedIsWholeHolds`, `DryRunOnlyDeletesHolds`, `OnlyOrphansVanishHolds` | flags, failures, kills, cancellations, edits and runs |
| `LocalPipelineProofs!DeleteIsExactHolds` | same, on one file system |
| `LocalPipelineProofs!MirrorInductive`, `SuccessIsMirrorHolds`, `ForcedSuccessIsMirrorHolds` | number of files and runs, failures, kills, cancellations: exit code 0 is a mirror |
| `LocalPipelineProofs!BoundedRunHolds` | flags, failures, kills, cancellations: a run takes at most four steps a path and seventeen more |
| `RemoteTransferProofs!TypeCorrect`, `Inductive`, `SentIsWholeHolds` | number of files and directories, sizes, batch size, kind of transfer, failures, edits and cancellation |
| `RemoteTransferProofs!MirrorInductive`, `TransferIsMirrorHolds`, `GzipCatchesCutsHolds`, `BoundedRunHolds` | same |
| `SshChannelProofs!ChannelInductive`, `OkIsWholeHolds`, `CommandImplemented` | amount of input and output, window, number of attempts, set of failures |
| `FileProtocolProofs!ExclusiveUntilOrphanedHolds`, `NoStaleLockHolds` | number of processes |
| `FileProtocolProofs!LockImplemented`, `LockedInductive`, `SavedIsListedHolds` | number of processes and runs, set of files: behind the lock no save is lost but to a run that did not read the manifest |
| `FileProtocolProofs!AlwaysParsesHolds`, `Refinement` | set of manifests |
| `FileProtocolProofs!FileInductive`, `CopyIsOfSourceHolds`, `LinkKeepsCanonicalHolds`, `LinkFindsNameHolds` | platform, length, number of edits |
| `FileProtocolProofs!TarInductive`, `SteadyBatchIsWholeHolds` | number of files, lengths, edits |
| `FileProtocolProofs!UpdateInductive`, `BinarySurvivesHolds`, `OutcomeIsTrueHolds` | number of updates, set of releases, failures, kills and power losses; no two at once and none from the backup |
| `ScanProofs!CacheInductive`, `HitIsCurrentHolds`, `BatchIsWholeHolds` | number of threads and files, contents, algorithms, edits and restarts |
| `ScanProofs!WalkInductive`, `StableFilesAreFoundHolds`, `DeleteSparesTheRestHolds` | trees of any shape and depth, patterns, number of changes |
| `JointProofs!PartsImplemented`, `JointTypeHolds`, `ProtocolsAreSafe` | all of the above: what the run `FileProtocols` checks holds at any size |

### Assumptions

Those the modules name; TLC evaluates them on every run. Most say that a marker (`None`,
`Torn`, `Unset`, `Stale`, `Zero`, an exit code) is not one of the values it stands
beside, and that a parameter is a number or a subset of what the module declares. The others:

* `PathAssumption`: a tree has finitely many paths, as one that a scan comes to the end of has.
* `FileAssumption`: there is always a free inode; a full disk is a call that fails.
* `TarAssumption`: a header is told from the data it stands before by where it is, not by what it
  holds; a block of data is no header.
* `UpdateAssumption`: a release's binary reports the version of the release.
* `TreeAssumption`: in the destination a directory has one name and the root none, as every file
  system has it that allows no hard links to directories; the source may be any graph.

What a theorem needs beyond that is a premise of the invariant it states, with the reason
beside its definition and an example above that shows it is needed: `MirrorAssumption` (hard
links, one file system with `copy_file_range`, walks that see everything, no edit of a file
that may share its inode), `ResumeAssumption` (hard links, a manifest that can be read),
`Careful` (no failure that lists what was not copied, a manifest that can be read),
`DeleteAssumption` (one file system, no failing walk or removal), `CleanAssumption` (no
failing write, directory, open, pack, unpack or load; clones that always work).

### Arguments

**Why a listed large file is whole.** `ListedLargeIsWhole` is not inductive: the manifest on
disk is a copy of the one in memory, and a file may be damaged through another name. `IInv`
adds that memory is never behind the disk and lists only whole large files
(`MarkedLargeIsWhole`, `ManifestsMatchPlan`); that the file being written is not listed
(`WriteIsSafe`); and that names share an inode only inside a group, a symlink naming the
canonical copy (`SharedInodeIsOneGroup`, `SymlinksNameCanonicals`). So a write can only hit
the canonical copy being written and its own duplicates, which are not canonical. The proof
needs `ResumeAssumption`: with clones, and with a manifest that one run cannot read and the
next can, the statement is false (see "Where the properties stop"). Each action that touches
files has a lemma; all others leave the file system and the manifests alone.

**Why a run without an error is complete.** `NothingForgotten`: an entry is listed, on its
way or in error; and what is listed is whole (`ListedIsWhole`). For the second, a write must
not reach a listed duplicate through its canonical copy's inode. It cannot, since a
duplicate is listed only after its canonical copy (`ListedAfterCanonical`): phase 2 starts
when all canonical copies are listed, and lists only grow. A canonical copy that is still to
be written has therefore no listed duplicate. Clones that always work have inodes of their
own (`ClonesAreApart`).

**Why exit code 0 is a mirror (local).** Between runs anything may have been interrupted, so
the invariant must hold of what is left lying around. Names share an inode only if
the source gives them the same content (`SharedByTwins`). What the manifest lists is whole,
or large and cut through another name whose entry is still to be copied (`Sound`): the run that
trusts the entry copies that other name, and the shared inode with it. Only an unpacked
file has a source file's mtime (`StampedIsWhole`), so what the delta leaves out
is whole and small (`LeftOutIsWhole`); that a large file is never left out is why the copy of
it is repeated every run. `WritingSound` and `NothingForgotten` carry this through one
run; `SuccessIsWhole` ends it. `PipelineInv` is the bookkeeping below: which
stage has which variables, that the plan is well formed, that the verifier compares every
hashed canonical copy, that orphans are no source names.

**Why exit code 0 is a mirror (remote).** `SentIsWhole` covers the canonical copies: `IInv`
follows a batch back through the stages. Nothing is
sent or in memory before there is a plan (`NothingBeforePlan`); at the gate
everything is still to send (`AllToSend`); what the scan found is what the
source holds (`FoundIsThere`), hence what was planned (`PlannedIsThere`), hence what
a whole archive holds (`ArchiveIsWhole`), each unless the file was edited since
or a failure was hidden. Then one batch unpacks only its own names, links write only
duplicates, and a canonical copy is no duplicate. An archive that is not whole makes
its batch an error or a hidden failure. `TransferInv` adds that the plan leaves nothing out
(`AllPlanned`), that a duplicate and its canonical copy are alike in the source (`GroupsAlike`)
and, once linked, in the destination (`LinksWait`, `LinkedLikeCanonical`). `GzipIsWhole` is
separate, because it holds after hidden failures too: what comes out of gzip is what went in.

**Why a run is bounded.** `CopyStepsLeft` adds up what is still to do: three steps for each
entry in `todo` (opened, finished, saved), two for a file put aside for the batch, those of
phase 2 before phase 2 has begun, one for each stage to come. Every step, one that fails too,
lowers it, because it takes its entry off whatever the outcome; a retry, or an entry put back
after a failure, would not. `RunStepsLeft` goes on from there: in `LocalPipeline` no stage hands
on more paths than it was given (`PlanningShrinks`, `CopyingShrinks`), and in
`RemoteTransfer` a batch that is packed or unpacked is never empty (`BatchInHand`, `BatchCounts`).
The bound is a natural number, so a run cannot go on for ever; that its next step is
possible and is taken is the rest of these properties.

**Why the exploration of the file protocols is sound.** In `MCFileProtocols` one part moves and
the others rest, so a step of it is a step or a stutter of each part, and an initial state
an initial state of each (`PartsImplemented`); the parts' own theorems do the rest.

**Why an Ok call is whole.** The client stops collecting at EOF or at the close of the
channel, and a status may come before or after it. `CommandSound` ties the counters to how far
the command is; `InTransitSound` says that there is one status at most and no data behind
the EOF, and that messages not looked at account for no more than was sent;
`NothingMissing` that, while the connection lasts, they account for all of it. So the first EOF the
client sees stands behind the last piece. The same invariant makes every step of the channel
a step of `RemoteExec` or a stutter (`CommandImplemented`).

**Why a copy is of its source, and a link keeps its canonical copy.** A tier that gives up
leaves things for the next one to use, so `TiersAgree` says which tier may have which files
open. `SourceApart`: a copy never writes the inode it reads. `CopiedSoFar`: each block
written was the source's block at that place at some moment. `CanonicalApart`: what a clone
tier opens for writing is not the canonical copy, unless Linux finds a hard link of it.

**Why a batch is whole up to the first change.** The archive is cut into segments, a header
and what was read behind it. They come in the order of the files (`HeadersInOrder`), have the
length their header says (`SegmentsSound`) and cover the archive without a gap
(`NothingBetween`), up to the first file that changed its length; so the reader, who believes the
lengths, stands in front of a header each time (`UnpackedSoFar`).

**Why the executable survives.** The directory is never synced, so a power loss may bring
back any state since the start. `JournalSound` holds of each of them: the executable or,
without one, its backup (`Survivor`) is intact, synced and executable, and is not the inode
that is being staged. `astray` ends the promise: two updates at once, or one started from
the backup. `RunSound` says how far the one running update is.

**Why nothing is missed, and nothing else deleted.** A file that stays in its place lies
below a path on the stack, or below a name that the open directory still owes, that
directory being the one at its path (`Pending`); a change of the source that took such a
name would take the file from its place. Each step settles it, reports it, or moves it on.
For the deletion: directories of the destination have one path each (`DestIsTree`, by
induction over the length of the path), so the name that is removed is on the way of the
removed path only; and a path to be removed leads to no directory (`DoomedAreOrphans`), so
on the way of no other. What a path leads to is a recursive function over its length; the
inductions over it go by `SetInduction`, proved from the well-foundedness of the numbers.

**Why the lock excludes.** Until a lock file that is in use loses its name every process past
`open` has the same file (`OneFile`), and a process inside holds the lock on what
it opened (`InsideHolds`).

**Why no save is lost.** The processes of `LockedManifest` take the lock by `DestLock`'s own
steps (`LockImplemented`), so that invariant carries over. Who works on the manifest is
inside (`OneWorks`), hence alone; what it has in memory contains all that was saved
(`WorkIsSaved`), because it loaded the manifest after it got the lock and nobody saved
since; so what it renames into place takes nothing away. A run that began with an empty
manifest is the exception until its first save (`afresh`); from then on what it has in
memory is what was saved.

**Why the manifest is atomic.** The temporary file is complete when it is renamed
(`RenamedIsWhole`), and nothing else touches the name; a file that does not parse, or cannot
be read, is loaded as an empty manifest, so a power loss maps to the abstract one.

**Why a hit is current.** A row, a hash gathered for a batch and what a thread has read so
far are sound (`RowIsSound`, `JobIsSound`): their stamp is not later than the file's, and if
it is the same they are what the file holds. An edit that moves the mtime forward leaves
every older stamp behind for good; one that does not is `racy` and excluded. What was read
across an edit is wrong, but its stamp is never the file's again.

Only model-checked, because the prover reasons neither about fairness nor about `ENABLED`:
the second halves of `CopyEnds`, `RunEnds` and `TransferEnds`, and that every call returns,
the fairness part of `CallImplements`. What the theorems exclude by their premises is
checked only in the runs whose constants allow it.

## Not modelled

Host key
verification, the SSH agent, shell quoting and the parsers of remote output: what they
return is abstracted to what the planner or the connection makes of it. Several
commands at once on one connection: the pipelines run one after the other. A command
that goes on writing after its call timed out: a batch reported as failed may
still be unpacked later.

Permissions, extended attributes and the physical offsets the scan sorts by, which no
decision of the modelled parts depends on; `follow_symlinks`, which no command sets
(`pipeline.rs`, line 246); path conversion and space queries on macOS and Windows; the
`sendfile` and `io_uring` helpers, which nothing calls. HTTP, JSON and version parsing of
the update. JSON log, terminal output and the `hash` and `verify` commands have no
state. Source edits during a local run are modelled within one file, one batch and one
walk, not yet across the stages of a run: in `LocalPipeline` they happen between runs.

## Plan

Done, in this order: `DedupPlan`, `CopyEngine`, `ResumedCopy`, their proofs;
`ManifestFile` with `AtomicManifest`; `DestLock`; `LocalPipeline`; `RemoteTransfer`;
`SshChannel` with `RemoteExec`; `SelfUpdate`; `HashCache`; `FileCopy`; `LockedManifest`;
`TreeWalk`; `TarBatch`; then the invariants and proofs of all of them, and the measures of the runs.

Next, most important first:

1. `ResumedCopy`: `CleanInv` with failing writes under hard links, where a listed duplicate
   may be cut until its canonical copy is written again, as `Sound` in `MirrorInv` has it.
2. `LocalPipeline`: `MirrorInv` without `CopyFileRange = Path`, under the weaker statement that
   a success mirrors every name that no failed write of another run has reached.
3. Edits of the source between the stages of one local run.
