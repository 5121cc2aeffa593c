----------------------------- MODULE LockedManifest -----------------------------
(***************************************************************************)
(* The destination lock and the manifest together: several processes, each *)
(* of which takes the lock, loads the manifest, adds to it what it copies  *)
(* and saves it after every file, always through the same temporary name.  *)
(* lock.rs:4 says what the lock is for: without it "concurrent runs would  *)
(* race on the manifest (write-temp-then-rename to a shared `*.tmp` path)".*)
(*                                                                         *)
(* The lock is DestLock's, with its own steps.  A manifest and a temporary *)
(* file are names of inodes, since a process that has the temporary file   *)
(* open goes on writing it when another one has renamed it.  ManifestFile  *)
(* is about one process, and adds what a power loss does.                  *)
(***************************************************************************)
EXTENDS DestLock

CONSTANTS
  Work,         \* the files a run may copy
  Inode         \* inodes of manifests and temporary files

ASSUME WorkAssumption == None \notin Inode

VARIABLES
  manifest,   \* the inode of .accroitre-manifest.json, or None
  temp,       \* the inode of .accroitre-manifest.json.tmp, or None
  text,       \* what the inodes hold
  writing,    \* per process, the temporary file it has open, or None
  memory,     \* per process, the entries of its CopyManifest
  doing,      \* per process, what it does with the manifest
  saved,      \* what was saved and not taken away by a run afresh (history)
  afresh      \* the runs that did not read the manifest, before their first save

storeVars == <<manifest, temp, text, writing, memory, doing, saved, afresh>>
lockedVars == <<vars, storeVars>>

\* What a file holds: a manifest, or bytes that do not parse.
Text       == [parses : BOOLEAN, lists : SUBSET Work]
Manifest(S) == [parses |-> TRUE, lists |-> S]
Broken      == [parses |-> FALSE, lists |-> {}]

LockedTypeOK ==
  /\ manifest \in Inode \cup {None}
  /\ temp \in Inode \cup {None}
  /\ text \in [Inode -> Text]
  /\ writing \in [Proc -> Inode \cup {None}]
  /\ memory \in [Proc -> SUBSET Work]
  /\ doing \in [Proc -> {"none", "working", "opened", "written"}]
  /\ saved \subseteq Work
  /\ afresh \subseteq Proc

LockedInit ==
  /\ Init
  /\ manifest = None /\ temp = None
  /\ text = [i \in Inode |-> Broken]
  /\ writing = [p \in Proc |-> None]
  /\ memory = [p \in Proc |-> {}]
  /\ doing = [p \in Proc |-> "none"]
  /\ saved = {} /\ afresh = {}

\* Inodes that have no name and that no process writes; a new file is any of
\* them, and which one makes no difference.
NewInodes == Inode \ ({manifest, temp} \cup {writing[p] : p \in Proc})

-----------------------------------------------------------------------------
(* load_or_create_manifest                                                  *)

\* What does not exist or does not parse lists nothing.
Listed == IF manifest # None THEN text[manifest].lists ELSE {}

LoadStep(p) ==
  /\ doing[p] = "none"
  /\ memory' = [memory EXCEPT ![p] = Listed]
  /\ doing' = [doing EXCEPT ![p] = "working"]
  /\ UNCHANGED <<vars, manifest, temp, text, writing, saved, afresh>>

\* Mutant: the manifest is loaded while the lock is still waited for.
LoadManifestEarly(p) == pc[p] \in {"opened", "in"} /\ LoadStep(p)

LoadManifest(p) == pc[p] = "in" /\ LoadStep(p)

\* A run begins with an empty manifest, whatever there is.
StartsAfresh(p) ==
  /\ pc[p] = "in" /\ doing[p] = "none"
  /\ memory' = [memory EXCEPT ![p] = {}]
  /\ doing' = [doing EXCEPT ![p] = "working"]
  /\ afresh' = afresh \cup {p}
  /\ UNCHANGED <<vars, temp, text, writing>>

\* The manifest is there and cannot be read: load returns the error of
\* read_to_string, or takes a file it cannot stat for none.
LoadFails(p) ==
  /\ StartsAfresh(p)
  /\ manifest # None
  /\ UNCHANGED <<manifest, saved>>

\* --force: the manifest is removed, or it is not, and not read.
ForceAfresh(p) ==
  /\ StartsAfresh(p)
  /\ \/ manifest' = None /\ saved' = {}
     \/ UNCHANGED <<manifest, saved>>

\* mark_copied, mark_linked
Mark(p) ==
  /\ pc[p] = "in" /\ doing[p] = "working"
  /\ \E w \in Work \ memory[p] : memory' = [memory EXCEPT ![p] = @ \cup {w}]
  /\ UNCHANGED <<vars, manifest, temp, text, writing, doing, saved, afresh>>

-----------------------------------------------------------------------------
(* CopyManifest::save                                                       *)

\* fs::write truncates the temporary file, or creates it.
OpenTemp(p) ==
  /\ pc[p] = "in" /\ doing[p] = "working"
  /\ temp # None \/ NewInodes # {}
  /\ temp' = IF temp # None THEN temp ELSE CHOOSE i \in NewInodes : TRUE
  /\ text' = [text EXCEPT ![temp'] = Broken]
  /\ writing' = [writing EXCEPT ![p] = temp']
  /\ doing' = [doing EXCEPT ![p] = "opened"]
  /\ UNCHANGED <<vars, manifest, memory, saved, afresh>>

WriteTemp(p) ==
  /\ pc[p] = "in" /\ doing[p] = "opened"
  /\ text' = [text EXCEPT ![writing[p]] = Manifest(memory[p])]
  /\ writing' = [writing EXCEPT ![p] = None]
  /\ doing' = [doing EXCEPT ![p] = "written"]
  /\ UNCHANGED <<vars, manifest, temp, memory, saved, afresh>>

\* Whatever the temporary name is by then becomes the manifest; the first save of a
\* run afresh replaces what earlier runs saved.
RenameTemp(p) ==
  /\ pc[p] = "in" /\ doing[p] = "written"
  /\ temp # None
  /\ manifest' = temp /\ temp' = None
  /\ saved' = memory[p] \cup (IF p \in afresh THEN {} ELSE saved)
  /\ afresh' = afresh \ {p}
  /\ doing' = [doing EXCEPT ![p] = "working"]
  /\ UNCHANGED <<vars, text, writing, memory>>

\* A write or a rename fails, or there is no temporary file; the run goes on.
SaveError(p) ==
  /\ pc[p] = "in" /\ doing[p] \in {"opened", "written"}
  /\ writing' = [writing EXCEPT ![p] = None]
  /\ doing' = [doing EXCEPT ![p] = "working"]
  /\ UNCHANGED <<vars, manifest, temp, text, memory, saved, afresh>>

-----------------------------------------------------------------------------
(* The end of a run                                                         *)

Forgets(p) ==
  /\ memory' = [memory EXCEPT ![p] = {}]
  /\ afresh' = afresh \ {p}

\* CopyManifest::remove after a clean run, before the lock is dropped.
RemoveManifest(p) ==
  /\ pc[p] = "in" /\ doing[p] = "working"
  /\ manifest' = None /\ saved' = {}
  /\ doing' = [doing EXCEPT ![p] = "none"]
  /\ Unlock(p) /\ Forgets(p)
  /\ UNCHANGED <<temp, text, writing>>

\* A run without its manifest's removal: it failed, or the removal did.
LeaveManifest(p) ==
  /\ doing[p] \in {"none", "working"}
  /\ doing' = [doing EXCEPT ![p] = "none"]
  /\ Unlock(p) /\ Forgets(p)
  /\ UNCHANGED <<manifest, temp, text, writing, saved>>

KillRun(p) ==
  /\ Kill(p) /\ Forgets(p)
  /\ doing' = [doing EXCEPT ![p] = "none"]
  /\ writing' = [writing EXCEPT ![p] = None]
  /\ UNCHANGED <<manifest, temp, text, saved>>

\* Orphans are deleted before the manifest is loaded; delta.rs:188 spares its
\* name and that of the temporary file.
LockStep(p) ==
  /\ \/ Open(p) \/ TryLock(p) \/ Busy(p) \/ Remove(p)
     \/ doing[p] = "none" /\ DeleteOrphans(p)
  /\ UNCHANGED storeVars

LockedNext ==
  \E p \in Proc :
    \/ LockStep(p) \/ LoadManifest(p) \/ LoadFails(p) \/ ForceAfresh(p) \/ Mark(p)
    \/ OpenTemp(p) \/ WriteTemp(p) \/ RenameTemp(p) \/ SaveError(p)
    \/ RemoveManifest(p) \/ LeaveManifest(p) \/ KillRun(p)

LockedSpec == LockedInit /\ [][LockedNext]_lockedVars

-----------------------------------------------------------------------------
\* Until a lock file in use loses its name, a run finds a manifest that parses,
\* and in it everything that the runs before it saved, the killed and the failed
\* ones too: no save takes away what another run's had added, but for the first
\* one of a run that did not read the manifest, because of --force or because it
\* could not (pipeline.rs:399, "warn and start fresh").  Until that save nothing
\* is lost.  (lock.rs:4, "concurrent runs would race on the manifest")
SavedIsListed ==
  ~orphaned =>
    /\ manifest # None => text[manifest].parses
    /\ saved \subseteq Listed

\* Why: one process at a time works on a manifest, and it read what was saved.
OneWorks ==
  /\ \A p \in Proc : doing[p] # "none" => p \in Inside
  /\ \A p \in Proc : writing[p] # None => doing[p] = "opened"

WorkIsSaved ==
  ~orphaned =>
    \A p \in Proc :
      /\ doing[p] # "none" /\ p \notin afresh => saved \subseteq memory[p]
      /\ doing[p] = "opened" => writing[p] = temp /\ temp # None
      /\ doing[p] = "written" => temp # None /\ text[temp] = Manifest(memory[p])

LockedInv ==
  /\ IInv /\ LockedTypeOK
  /\ OneWorks /\ WorkIsSaved /\ SavedIsListed
  /\ temp # None => temp # manifest
================================================================================
