------------------------------ MODULE SelfUpdate ------------------------------
(***************************************************************************)
(* accro update (accroitre-cli/src/update.rs): choose a release, download  *)
(* its binary for this platform, check it against the published SHA-256 if *)
(* there is one, and put it in the place of the running executable.        *)
(*                                                                         *)
(* replace_binary stages the new binary as .accro.update, renames the      *)
(* executable to .accro.backup and the staged file to the executable, then *)
(* removes the backup.  Any call may fail, the process may be killed       *)
(* between two calls and the power may fail.  The file's bytes are synced, *)
(* the directory is not: what a power loss leaves of the names is some     *)
(* earlier state of the journal.  Nothing keeps two updates apart, and     *)
(* nothing keeps the user from starting .accro.backup, where an update     *)
(* left it behind, and updating that.                                      *)
(***************************************************************************)
EXTENDS Naturals

CONSTANTS
  Updater,       \* accro update processes
  Binary,        \* contents an executable may have
  Ver,           \* the version compiled into each
  First,         \* the binary installed at the start
  Releases,      \* what GitHub may list
  ExeInode,      \* inodes of the executable's directory
  Hole,          \* bytes not written, and an asset that is not there
  MaxUpdates     \* bound: how many updates are started

\* The names replace_binary works with, in the executable's directory.
Names == {"exe", "backup", "staging"}

\* A release: its version, whether it is a prerelease, the asset for this
\* platform and the binary its .sha256 asset is the digest of.
ReleaseType == [version : Nat, pre : BOOLEAN, asset : Binary \cup {Hole},
                sum : Binary \cup {Hole}]

ASSUME UpdateAssumption ==
  /\ Hole \notin Binary \cup ExeInode
  /\ First \in Binary
  /\ Ver \in [Binary -> Nat]
  /\ Releases \subseteq ReleaseType
  /\ \A r \in Releases : r.asset # Hole => Ver[r.asset] = r.version
  /\ ExeInode # {}
  /\ MaxUpdates \in Nat

VARIABLES
  names,       \* the inode each name has, or Hole
  half,        \* per inode the two halves of its bytes
  mode,        \* the inodes that may be executed
  synced,      \* the inodes whose bytes are on the disk
  journal,     \* states of names and mode that a power loss may bring back
  step,        \* per process, where it is
  image,       \* per process, the inode it runs
  exePath,     \* per process, the name it was started by; then what current_exe gave
  open,        \* per process, the staging file it has open, or Hole
  target,      \* per process, the release it installs
  outcome,     \* per process, what its last update ended with
  updates,     \* updates started
  astray       \* whether two updates ever ran at once, or one was started from
               \* the backup (history)

files      == <<names, half, mode, synced, journal>>
updateVars == <<files, step, image, exePath, open, target, outcome, updates,
                astray>>

NoRelease == [version |-> 0, pre |-> FALSE, asset |-> Hole, sum |-> Hole]
Steps == {"off", "fetch", "download", "verify", "create", "low", "high", "sync",
          "chmod", "backup", "install", "restore", "cleanup"}

UpdateTypeOK ==
  /\ names \in [Names -> ExeInode \cup {Hole}]
  /\ half \in [ExeInode -> [{"low", "high"} -> Binary \cup {Hole}]]
  /\ mode \subseteq ExeInode
  /\ synced \subseteq ExeInode
  /\ journal \subseteq [Names -> ExeInode \cup {Hole}] \X SUBSET ExeInode
  /\ step \in [Updater -> Steps]
  /\ image \in [Updater -> ExeInode \cup {Hole}]
  /\ exePath \in [Updater -> {"exe", "backup", Hole}]
  /\ open \in [Updater -> ExeInode \cup {Hole}]
  /\ target \in [Updater -> Releases \cup {NoRelease}]
  /\ outcome \in [Updater -> {"none", "kept", "updated", "failed"}]
  /\ updates \in 0..MaxUpdates
  /\ astray \in BOOLEAN

Whole(b)  == [h \in {"low", "high"} |-> b]
Blank     == Whole(Hole)
Running   == {u \in Updater : step[u] # "off"}

UpdateInit ==
  /\ LET i == CHOOSE j \in ExeInode : TRUE IN
       /\ names = [n \in Names |-> IF n = "exe" THEN i ELSE Hole]
       /\ half = [j \in ExeInode |-> IF j = i THEN Whole(First) ELSE Blank]
       /\ mode = {i} /\ synced = {i}
       /\ journal = {<<names, {i}>>}
  /\ step = [u \in Updater |-> "off"]
  /\ image = [u \in Updater |-> Hole]
  /\ exePath = [u \in Updater |-> Hole]
  /\ open = [u \in Updater |-> Hole]
  /\ target = [u \in Updater |-> NoRelease]
  /\ outcome = [u \in Updater |-> "none"]
  /\ updates = 0 /\ astray = FALSE

-----------------------------------------------------------------------------
(* Files                                                                    *)

Intact(i)   == \E b \in Binary : half[i] = Whole(b)
Runnable(n) == names[n] # Hole /\ names[n] \in mode /\ Intact(names[n])

\* Every change of names and modes goes through the journal.
Journalled(ns, m) ==
  /\ names' = ns /\ mode' = m
  /\ journal' = journal \cup {<<ns, m>>}

Renamed(n, m) == [names EXCEPT ![m] = names[n], ![n] = IF n = m THEN @ ELSE Hole]
Removed(n)    == [names EXCEPT ![n] = Hole]

\* Inodes no name had since the power last failed, and no process runs.
FreshInodes == {i \in ExeInode : /\ \A j \in journal : \A n \in Names : j[1][n] # i
                                 /\ \A u \in Updater : image[u] # i}

-----------------------------------------------------------------------------
(* Choosing and downloading a release                                       *)

Goes(u, s) ==
  /\ step' = [step EXCEPT ![u] = s]
  /\ UNCHANGED <<image, outcome, updates, astray>>

Keeps == UNCHANGED <<exePath, open, target>>

\* run returns: exit code 0 for "kept" and "updated", EXIT_FAILURE for "failed".
Ends(u, o) ==
  /\ step' = [step EXCEPT ![u] = "off"]
  /\ outcome' = [outcome EXCEPT ![u] = o]
  /\ open' = [open EXCEPT ![u] = Hole]
  /\ UNCHANGED <<image, exePath, target, updates, astray>>

\* The executable is started with the update command, or the backup that an
\* earlier update could not remove.
StartUpdate(u) ==
  /\ step[u] = "off" /\ updates < MaxUpdates
  /\ \E n \in {"exe", "backup"} :
       /\ Runnable(n)
       /\ image' = [image EXCEPT ![u] = names[n]]
       /\ exePath' = [exePath EXCEPT ![u] = n]
       /\ astray' = (astray \/ Running # {} \/ n = "backup")
  /\ step' = [step EXCEPT ![u] = "fetch"]
  /\ outcome' = [outcome EXCEPT ![u] = "none"]
  /\ target' = [target EXCEPT ![u] = NoRelease]
  /\ updates' = updates + 1
  /\ UNCHANGED <<files, open>>

\* The version of the running process, from CARGO_PKG_VERSION.
Current(u) == Ver[half[image[u]]["low"]]

\* The highest release that is not a prerelease.
Latest(listed) ==
  {r \in listed : /\ ~r.pre
                  /\ \A q \in listed : ~q.pre => q.version <= r.version}

\* --version names one, a prerelease too; without it, the latest.
Wanted(listed, requested) ==
  IF requested = 0 THEN Latest(listed)
  ELSE {r \in listed : r.version = requested}

\* The list is fetched and holds a newer release.
Select(u) ==
  /\ step[u] = "fetch"
  /\ \E listed \in SUBSET Releases :
       \E requested \in {0} \cup {q.version : q \in Releases} :
         \E r \in Wanted(listed, requested) :
           /\ r.version > Current(u)
           /\ target' = [target EXCEPT ![u] = r]
  /\ Goes(u, "download")
  /\ UNCHANGED <<files, exePath, open>>

\* --check, an empty list, or nothing newer than what runs.
NothingToDo(u) ==
  /\ step[u] = "fetch"
  /\ Ends(u, "kept")
  /\ UNCHANGED files

\* The version is not listed, or nothing is but prereleases; or the API, the
\* download or the local file system fails.
GivesUp(u) ==
  /\ step[u] \in {"fetch", "download", "verify", "create", "low", "high",
                  "sync", "chmod"}
  /\ Ends(u, "failed")
  /\ UNCHANGED files

\* download_asset of the binary; a release without one for this platform fails.
Download(u) ==
  /\ step[u] = "download" /\ target[u].asset # Hole
  /\ Goes(u, "verify") /\ Keeps
  /\ UNCHANGED files

\* Mutant: a checksum that differs is only reported.
VerifyWarns(u) ==
  /\ step[u] = "verify"
  /\ Goes(u, "create") /\ Keeps
  /\ UNCHANGED files

\* The checksum agrees, or the release has none and only a warning is printed.
Verify(u) ==
  /\ step[u] = "verify"
  /\ target[u].sum \in {Hole, target[u].asset}
  /\ Goes(u, "create") /\ Keeps
  /\ UNCHANGED files

\* --dry-run writes the binary to the temporary directory and stops.
DryRunEnds(u) ==
  /\ step[u] = "create"
  /\ Ends(u, "kept")
  /\ UNCHANGED files

-----------------------------------------------------------------------------
(* replace_binary                                                           *)

\* current_exe (external): the path the process was started by, or on Linux the
\* name its inode has now, none once it is gone.
CurrentExe(u) ==
  {exePath[u]} \cup (IF \E n \in {"exe", "backup"} : names[n] = image[u]
                     THEN {n \in {"exe", "backup"} : names[n] = image[u]}
                     ELSE {Hole})

\* File::create: the staging file of an earlier update, or of one that is still
\* running, is truncated; otherwise it is a new one.
Stage(u) ==
  /\ step[u] = "create"
  /\ \E n \in CurrentExe(u) : exePath' = [exePath EXCEPT ![u] = n]
  /\ names["staging"] = Hole => FreshInodes # {}
  /\ LET i == IF names["staging"] # Hole THEN names["staging"]
              ELSE CHOOSE j \in FreshInodes : TRUE IN
       /\ half' = [half EXCEPT ![i] = Blank]
       /\ synced' = synced \ {i}
       /\ Journalled([names EXCEPT !["staging"] = i],
                     IF names["staging"] = i THEN mode ELSE mode \ {i})
       /\ open' = [open EXCEPT ![u] = i]
  /\ Goes(u, "low")
  /\ UNCHANGED target

\* write_all, in two parts, into the file that was opened, whatever its name
\* is by now.
Write(u, h, next) ==
  /\ step[u] = h
  /\ half' = [half EXCEPT ![open[u]][h] = target[u].asset]
  /\ synced' = synced \ {open[u]}
  /\ Goes(u, next) /\ Keeps
  /\ UNCHANGED <<names, mode, journal>>

WriteLow(u)  == Write(u, "low", "high")
WriteHigh(u) == Write(u, "high", "sync")

\* Mutant: the staged bytes are not synced.
SyncSkipped(u) ==
  /\ step[u] = "sync"
  /\ Goes(u, "chmod") /\ Keeps
  /\ UNCHANGED files

\* sync_all, and the file is closed.
Sync(u) ==
  /\ step[u] = "sync"
  /\ synced' = synced \cup {open[u]}
  /\ open' = [open EXCEPT ![u] = Hole]
  /\ Goes(u, "chmod")
  /\ UNCHANGED <<names, half, mode, journal, exePath, target>>

\* set_permissions of whatever the staging name is; an error when it is gone.
Chmod(u) ==
  /\ step[u] = "chmod" /\ names["staging"] # Hole
  /\ Journalled(names, mode \cup {names["staging"]})
  /\ Goes(u, "backup") /\ Keeps
  /\ UNCHANGED <<half, synced>>

\* rename(exe_path, .accro.backup)
Backup(u) ==
  /\ step[u] = "backup" /\ exePath[u] # Hole /\ names[exePath[u]] # Hole
  /\ Journalled(Renamed(exePath[u], "backup"), mode)
  /\ Goes(u, "install") /\ Keeps
  /\ UNCHANGED <<half, synced>>

\* The rename fails: the staging file is removed, an error doing so ignored.
BackupFails(u) ==
  /\ step[u] = "backup"
  /\ \/ Journalled(Removed("staging"), mode)
     \/ UNCHANGED <<names, mode, journal>>
  /\ Ends(u, "failed")
  /\ UNCHANGED <<half, synced>>

\* rename(.accro.update, exe_path)
Install(u) ==
  /\ step[u] = "install" /\ names["staging"] # Hole
  /\ Journalled(Renamed("staging", exePath[u]), mode)
  /\ Goes(u, "cleanup") /\ Keeps
  /\ UNCHANGED <<half, synced>>

InstallFails(u) ==
  /\ step[u] = "install"
  /\ Goes(u, "restore") /\ Keeps
  /\ UNCHANGED files

\* rename(.accro.backup, exe_path)
Restore(u) ==
  /\ step[u] = "restore" /\ names["backup"] # Hole
  /\ Journalled(Renamed("backup", exePath[u]), mode)
  /\ Ends(u, "failed")
  /\ UNCHANGED <<half, synced>>

\* The result of the restoring rename is ignored.
RestoreFails(u) ==
  /\ step[u] = "restore"
  /\ Ends(u, "failed")
  /\ UNCHANGED files

\* The backup is removed, an error doing so ignored.
CleanUp(u) ==
  /\ step[u] = "cleanup"
  /\ \/ Journalled(Removed("backup"), mode)
     \/ UNCHANGED <<names, mode, journal>>
  /\ Ends(u, "updated")
  /\ UNCHANGED <<half, synced>>

-----------------------------------------------------------------------------
(* Kills and power losses                                                   *)

KillUpdate(u) ==
  /\ step[u] # "off"
  /\ step' = [step EXCEPT ![u] = "off"]
  /\ open' = [open EXCEPT ![u] = Hole]
  /\ UNCHANGED <<files, image, exePath, target, outcome, updates, astray>>

\* Names and modes go back to some state of the journal; bytes that were not
\* synced may be lost.
UpdatePowerLoss ==
  /\ step' = [u \in Updater |-> "off"]
  /\ open' = [u \in Updater |-> Hole]
  /\ \E j \in journal :
       names' = j[1] /\ mode' = j[2] /\ journal' = {j}
  /\ \E lostHalves \in SUBSET ((ExeInode \ synced) \X {"low", "high"}) :
       half' = [i \in ExeInode |-> [h \in {"low", "high"} |->
                  IF <<i, h>> \in lostHalves THEN Hole ELSE half[i][h]]]
  /\ synced' = ExeInode
  /\ UNCHANGED <<image, exePath, target, outcome, updates, astray>>

UpdateNext ==
  \/ \E u \in Updater :
       \/ StartUpdate(u) \/ Select(u) \/ NothingToDo(u) \/ GivesUp(u)
       \/ Download(u) \/ Verify(u) \/ DryRunEnds(u)
       \/ Stage(u) \/ WriteLow(u) \/ WriteHigh(u) \/ Sync(u) \/ Chmod(u)
       \/ Backup(u) \/ BackupFails(u) \/ Install(u) \/ InstallFails(u)
       \/ Restore(u) \/ RestoreFails(u) \/ CleanUp(u) \/ KillUpdate(u)
  \/ UpdatePowerLoss

UpdateSpec == UpdateInit /\ [][UpdateNext]_updateVars

-----------------------------------------------------------------------------
\* As long as no two updates ran at once and none was started from the backup,
\* whatever failed, was killed or lost its power: what is at the executable's name
\* is a whole binary that may be run, and when nothing is there, between the two
\* renames, it is in the backup.
\* (replace_binary syncs and makes executable before it renames; update.rs:364,
\* "using a rename-based atomic swap where possible")
BinarySurvives ==
  ~astray =>
    /\ names["exe"] # Hole => Runnable("exe")
    /\ names["exe"] = Hole => Runnable("backup")

\* What a release's own checksum says of its asset.
Authentic(r) == r.sum \in {Hole, r.asset}

\* Exit codes tell: after "updated" the executable is the release's binary, newer
\* than the one that ran and with the checksum the release lists, if any; after
\* "kept" and after an error it is the one that ran, unless putting the backup
\* back failed too.  (Again as long as no two updates ran at once and none was
\* started from the backup: that one installs in the backup's name, which it then
\* removes.)
OutcomeIsTrue ==
  [][\A u \in Updater :
       outcome'[u] # outcome[u] /\ ~astray' =>
         \/ outcome'[u] = "none"
         \/ /\ outcome'[u] = "updated"
            /\ half[names'["exe"]] = Whole(target[u].asset)
            /\ target[u].version > Current(u)
            /\ Authentic(target[u])
         \/ outcome'[u] \in {"kept", "failed"} /\ names'["exe"] = image[u]
         \/ /\ outcome'[u] = "failed" /\ step[u] = "restore"
            /\ names'["exe"] = Hole /\ names'["backup"] = image[u]]_updateVars

-----------------------------------------------------------------------------
(* The inductive invariant, as long as nothing went astray                  *)

\* The executable, or its backup while there is none.
Survivor(ns) == IF ns["exe"] # Hole THEN ns["exe"] ELSE ns["backup"]

\* In whatever state of the names a power loss may bring back, that inode can be
\* run, its bytes are on the disk, and it is not one that updates are staged in.
JournalSound ==
  /\ <<names, mode>> \in journal
  /\ \A j \in journal :
       /\ Survivor(j[1]) \in j[2] \cap synced /\ Intact(Survivor(j[1]))
       /\ j[1]["exe"] # Hole => j[1]["exe"] # j[1]["backup"]
       /\ \A n \in {"exe", "backup"} :
            j[1][n] # Hole => j[1][n] \notin {j[1]["staging"], names["staging"]}

\* How far a running update has come, and what is in its files by then.
RunSound(u) ==
  /\ \A v \in Updater \ {u} : step[v] = "off"
  /\ image[u] # Hole
  /\ IF step[u] \in {"install", "restore"}
     THEN names["exe"] = Hole /\ names["backup"] = image[u]
     ELSE step[u] # "cleanup" => names["exe"] = image[u]
  /\ exePath[u] = "exe"
  /\ step[u] \in {"low", "high", "sync", "chmod", "backup", "install"}
       => names["staging"] # Hole
  /\ step[u] \in {"low", "high", "sync"} => open[u] = names["staging"]
  /\ step[u] \in {"high", "sync"} => half[open[u]]["low"] = target[u].asset
  /\ step[u] = "sync" => half[open[u]]["high"] = target[u].asset
  /\ step[u] \in {"chmod", "backup", "install"} =>
       names["staging"] \in synced /\ half[names["staging"]] = Whole(target[u].asset)
  /\ step[u] \in {"backup", "install"} => names["staging"] \in mode
  /\ step[u] = "cleanup" =>
       names["exe"] # Hole /\ half[names["exe"]] = Whole(target[u].asset)
  /\ step[u] # "fetch" => target[u].version > Current(u)
  /\ step[u] \notin {"fetch", "download"} => target[u].asset # Hole
  /\ step[u] \notin {"fetch", "download", "verify"} => Authentic(target[u])

UpdateInv ==
  /\ UpdateTypeOK
  /\ \A u \in Updater : step[u] \in {"low", "high", "sync"} => open[u] # Hole
  /\ ~astray => JournalSound /\ \A u \in Running : RunSound(u)
================================================================================
