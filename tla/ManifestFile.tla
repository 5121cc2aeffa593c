------------------------------ MODULE ManifestFile ------------------------------
(***************************************************************************)
(* adapters::manifest on the file system: CopyManifest::save writes        *)
(* .accroitre-manifest.json.tmp and renames it, load_or_create_manifest    *)
(* reads what is there, --force and a clean finish remove it.  fs::write   *)
(* truncates the temporary file and then fills it, so the process may die  *)
(* with the file half written, and nothing is synced, so a power loss may  *)
(* leave any version of the name and any part of its bytes.                *)
(*                                                                         *)
(* One process at a time: that is the destination lock's business.         *)
(***************************************************************************)
CONSTANTS Value,       \* what a manifest may list
          Empty,       \* a new manifest
          Missing,     \* no such file
          Partial      \* bytes that do not parse

ASSUME ManifestAssumption ==
  /\ Empty \in Value
  /\ Missing \notin Value /\ Partial \notin Value /\ Missing # Partial

VARIABLES
  file,    \* .accroitre-manifest.json
  tmp,     \* .accroitre-manifest.json.tmp
  mem,     \* the CopyManifest of the running process
  stage,      \* "off", "ready", or how far save has come
  past,    \* manifests ever renamed into place (history)
  lost     \* whether the power ever failed (history)

manifestVars == <<file, tmp, mem, stage, past, lost>>

OnDisk == Value \cup {Missing, Partial}

ManifestTypeOK ==
  /\ file \in OnDisk
  /\ tmp \in OnDisk
  /\ mem \in Value
  /\ stage \in {"off", "ready", "writing", "written"}
  /\ past \subseteq Value
  /\ lost \in BOOLEAN

ManifestInit ==
  /\ file = Missing /\ tmp = Missing /\ mem = Empty /\ stage = "off"
  /\ past = {} /\ lost = FALSE

\* Mutant: a manifest that exists is taken to parse.
LoadedUnparsed == IF file # Missing THEN file ELSE Empty

\* What load_or_create_manifest makes of a file that can be read: a missing manifest
\* and one that does not parse both give an empty one.
Loaded == IF file \in Value THEN file ELSE Empty

Load ==
  /\ stage = "off"
  /\ mem' = Loaded
  /\ stage' = "ready"
  /\ UNCHANGED <<file, tmp, past, lost>>

\* It is there and cannot be read: the run begins with an empty one, and the file
\* stays until it saves.
LoadUnread ==
  /\ stage = "off" /\ file # Missing
  /\ mem' = Empty
  /\ stage' = "ready"
  /\ UNCHANGED <<file, tmp, past, lost>>

\* --force: the manifest is removed (an error is ignored) and not read.
ForceLoad ==
  /\ stage = "off"
  /\ mem' = Empty
  /\ file' \in {file, Missing}
  /\ stage' = "ready"
  /\ UNCHANGED <<tmp, past, lost>>

\* mark_copied, mark_linked
Change ==
  /\ stage = "ready"
  /\ mem' \in Value
  /\ UNCHANGED <<file, tmp, stage, past, lost>>

\* Mutant: the manifest itself is written, in place.
SaveStartInPlace ==
  /\ stage = "ready"
  /\ tmp' = Partial /\ file' = Partial
  /\ stage' = "writing"
  /\ UNCHANGED <<mem, past, lost>>

\* fs::write, first half: the temporary file is created or truncated.
SaveStart ==
  /\ stage = "ready"
  /\ tmp' = Partial
  /\ stage' = "writing"
  /\ UNCHANGED <<file, mem, past, lost>>

SaveWrite ==
  /\ stage = "writing"
  /\ tmp' = mem
  /\ stage' = "written"
  /\ UNCHANGED <<file, mem, past, lost>>

\* Mutant: the rename does not wait for the bytes.
SaveRenameEarly ==
  /\ stage \in {"writing", "written"}
  /\ file' = tmp /\ tmp' = Missing
  /\ past' = past \cup {tmp}
  /\ stage' = "ready"
  /\ UNCHANGED <<mem, lost>>

SaveRename ==
  /\ stage = "written"
  /\ file' = tmp /\ tmp' = Missing
  /\ past' = past \cup {tmp}
  /\ stage' = "ready"
  /\ UNCHANGED <<mem, lost>>

\* save returns an error at the write or at the rename; the caller goes on.
SaveFails ==
  /\ stage \in {"writing", "written"}
  /\ stage' = "ready"
  /\ UNCHANGED <<file, tmp, mem, past, lost>>

\* The run ends: CopyManifest::remove after a clean one, which may fail.
Finish ==
  /\ stage = "ready"
  /\ file' \in {file, Missing}
  /\ stage' = "off"
  /\ UNCHANGED <<tmp, mem, past, lost>>

Crash ==
  /\ stage # "off"
  /\ stage' = "off"
  /\ UNCHANGED <<file, tmp, mem, past, lost>>

PowerLoss ==
  /\ stage' = "off"
  /\ lost' = TRUE
  /\ file' \in past \cup {file, Missing, Partial}
  /\ tmp' \in {tmp, Missing, Partial}
  /\ UNCHANGED <<mem, past>>

ManifestNext ==
  \/ Load \/ LoadUnread \/ ForceLoad \/ Change
  \/ SaveStart \/ SaveWrite \/ SaveRename \/ SaveFails
  \/ Finish \/ Crash \/ PowerLoss

ManifestSpec == ManifestInit /\ [][ManifestNext]_manifestVars

-----------------------------------------------------------------------------
\* The protocol gives what AtomicManifest promises: a save is all or nothing.
\* (manifest.rs:3, "updated atomically (write-to-temp, rename) to survive crashes")
Atomic == INSTANCE AtomicManifest
            WITH stored <- Loaded, running <- stage # "off", saved <- past

Implements == Atomic!Spec

\* Until the power fails no run finds a manifest it cannot parse, however many
\* saves were interrupted or failed before (manifest.rs:3 again).
AlwaysParses == ~lost => file # Partial

\* Why: the temporary file is complete before it is renamed.
RenamedIsWhole == stage = "written" => tmp = mem
================================================================================
