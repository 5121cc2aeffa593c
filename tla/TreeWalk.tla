-------------------------------- MODULE TreeWalk --------------------------------
(***************************************************************************)
(* engine::scan::scan_tree over a source that other programs change while  *)
(* it is walked, and the walk of the destination that looks for orphans    *)
(* and removes them (engine::delta).                                       *)
(*                                                                         *)
(* The scan keeps a stack of paths.  It opens the directory at a path and  *)
(* reads its names, which may change meanwhile, and looks up each of them  *)
(* by its path again, which may lead elsewhere by then.  Errors are        *)
(* collected and the scan goes on.  The destination is held by the lock,   *)
(* so it changes by the removals only; its directories may be symlinks,    *)
(* which this walk follows (Path::is_dir), while the scan does not.        *)
(***************************************************************************)
EXTENDS Naturals, Sequences

CONSTANTS
  Name,          \* names in a directory
  Spared,        \* names that begin with .accroitre-
  SourceDirs,    \* directories of the source, and of the destination
  DestDirs,
  OtherDirs,     \* directories that are neither's
  SourceRoot,
  DestRoot,
  Regular,       \* a regular file
  Nothing,       \* no file, no directory
  MaxDepth,      \* bound: the names in a path
  Patterns,      \* for each set of --exclude patterns, the paths they match
  Trees,         \* what the directories may hold at first
  MaxMoves       \* bound: changes of the source during the scan

Dir   == SourceDirs \cup DestDirs \cup OtherDirs
Thing == Dir \cup {Regular, Nothing} \cup [to : Dir \cup {Regular}]
Paths == UNION {[1..n -> Name] : n \in 1..MaxDepth}

\* A directory of the destination has one name, and its root has none.
ASSUME TreeAssumption ==
  /\ SourceDirs \cap DestDirs = {} /\ OtherDirs \cap (SourceDirs \cup DestDirs) = {}
  /\ SourceRoot \in SourceDirs /\ DestRoot \in DestDirs
  /\ Regular \notin Dir /\ Nothing \notin Dir /\ Regular # Nothing
  /\ Spared \subseteq Name
  /\ MaxDepth \in Nat \ {0} /\ MaxMoves \in Nat
  /\ Patterns \subseteq SUBSET Paths
  /\ Trees \subseteq [Dir -> [Name -> Thing]]
  /\ \A t \in Trees, d, e \in DestDirs, n, m \in Name :
       t[d][n] \in Dir => /\ t[d][n] \in DestDirs \ {DestRoot}
                          /\ t[e][m] = t[d][n] => e = d /\ m = n

VARIABLES
  kids,         \* what the names of every directory are; [to |-> x] is a symlink
  excluded,     \* the paths the scan's patterns match
  phase,        \* "scan", "orphans", "delete", "end"
  toVisit,      \* dirs_to_visit
  reading,      \* the directory read_dir has open, or Nothing
  dirPath,      \* the path it was opened by
  listing,      \* the names it may still return
  owed,         \* those it has to return
  scanned,      \* ScanResult.entries
  scanErrors,   \* the paths of ScanResult.errors
  doomed,       \* orphans that are not removed yet
  untouched,    \* source files that were at their paths all along (history)
  moves         \* changes of the source so far

walkVars == <<toVisit, reading, dirPath, listing, owed, scanned, scanErrors>>
treeVars == <<kids, excluded, phase, walkVars, doomed, untouched, moves>>

\* What is at a path, symlinks on the way followed, the last one not.
Follow(x)      == IF x \in Dir \cup {Regular, Nothing} THEN x ELSE x.to
In(t, x, n)    == IF Follow(x) \in Dir THEN t[Follow(x)][n] ELSE Nothing

\* What is met on the way from a root along a path, in the tree t.
Trail(t, root, path) ==
  LET at[k \in 0..Len(path)] == IF k = 0 THEN root ELSE In(t, at[k - 1], path[k])
  IN  at

Reached(t, root, path) == Trail(t, root, path)[Len(path)]
At(root, path)         == Reached(kids, root, path)

Parent(p)   == SubSeq(p, 1, Len(p) - 1)
FileName(p) == p[Len(p)]

\* Paths above a path, the path itself included; <<>> is the root.
Above(p) == {SubSeq(p, 1, k) : k \in 0..Len(p)}

\* The regular files of a tree, by the paths that no symlink is on.
FilesOf(root) ==
  {p \in Paths : /\ At(root, p) = Regular
                 /\ \A q \in Above(p) \ {p} : At(root, q) \in Dir}

TreeTypeOK ==
  /\ kids \in [Dir -> [Name -> Thing]]
  /\ excluded \subseteq Paths
  /\ phase \in {"scan", "orphans", "delete", "end"}
  /\ toVisit \in Seq(Seq(Name))
  /\ reading \in Dir \cup {Nothing}
  /\ dirPath \in Seq(Name)
  /\ owed \subseteq listing /\ listing \subseteq Name
  /\ scanned \subseteq Seq(Name) /\ scanErrors \subseteq Seq(Name)
  /\ doomed \subseteq Paths /\ untouched \subseteq Paths
  /\ moves \in 0..MaxMoves

TreeInit ==
  /\ kids \in Trees
  /\ excluded \in Patterns
  /\ phase = "scan"
  /\ toVisit = << <<>> >>
  /\ reading = Nothing /\ dirPath = <<>> /\ listing = {} /\ owed = {}
  /\ scanned = {} /\ scanErrors = {} /\ doomed = {}
  /\ untouched = FilesOf(SourceRoot)
  /\ moves = 0

-----------------------------------------------------------------------------
(* Other programs (external)                                                *)

\* An entry of the source appears, disappears or is renamed.  A name that
\* disappears from the directory being read may be returned or not, and so may
\* one that appears.
Changes(gone, come) ==
  /\ listing' = IF reading \in {e[1] : e \in come}
                THEN listing \cup {e[2] : e \in {c \in come : c[1] = reading}}
                ELSE listing
  /\ owed' = owed \ {e[2] : e \in {g \in gone : g[1] = reading}}
  /\ untouched' = untouched \cap FilesOf(SourceRoot)'
  /\ moves' = moves + 1
  /\ UNCHANGED <<excluded, phase, toVisit, reading, dirPath, scanned, scanErrors,
                 doomed>>

MayChange == phase = "scan" /\ moves < MaxMoves

CreateFile(d, n) ==
  /\ MayChange /\ kids[d][n] = Nothing
  /\ kids' = [kids EXCEPT ![d][n] = Regular]
  /\ Changes({}, {<<d, n>>})

RemoveFile(d, n) ==
  /\ MayChange /\ kids[d][n] = Regular
  /\ kids' = [kids EXCEPT ![d][n] = Nothing]
  /\ Changes({<<d, n>>}, {})

Rename(d, n, e, m) ==
  /\ MayChange /\ kids[d][n] # Nothing /\ kids[e][m] = Nothing
  /\ \A p \in Paths \cup {<<>>} : At(kids[d][n], p) # e
  /\ kids' = [kids EXCEPT ![e][m] = kids[d][n], ![d][n] = Nothing]
  /\ Changes({<<d, n>>}, {<<e, m>>})

-----------------------------------------------------------------------------
(* scan_tree                                                                *)

Top    == toVisit[Len(toVisit)]
Popped == SubSeq(toVisit, 1, Len(toVisit) - 1)

\* fs::read_dir of the path popped last
OpenDir ==
  /\ phase = "scan" /\ reading = Nothing /\ toVisit # <<>>
  /\ toVisit' = Popped
  /\ dirPath' = Top
  /\ reading' = Follow(At(SourceRoot, dirPath'))
  /\ reading' \in Dir
  /\ listing' = {n \in Name : kids[reading'][n] # Nothing}
  /\ owed' = listing'
  /\ UNCHANGED <<kids, excluded, phase, scanned, scanErrors, doomed, untouched, moves>>

\* It is no directory any more, or may not be read.
OpenDirFails ==
  /\ phase = "scan" /\ reading = Nothing /\ toVisit # <<>>
  /\ toVisit' = Popped
  /\ scanErrors' = scanErrors \cup {Top}
  /\ UNCHANGED <<kids, excluded, phase, reading, dirPath, listing, owed, scanned,
                 doomed, untouched, moves>>

Returned(n) ==
  /\ reading # Nothing /\ n \in listing
  /\ listing' = listing \ {n} /\ owed' = owed \ {n}
  /\ UNCHANGED <<kids, excluded, phase, reading, dirPath, doomed, untouched, moves>>

Entry(n) == Append(dirPath, n)

Excluded(n) ==
  /\ Returned(n)
  /\ Entry(n) \in excluded
  /\ UNCHANGED <<toVisit, scanned, scanErrors>>

\* The entry's own metadata, looked up by its path: a directory is put on the
\* stack, a regular file is an entry, a symlink is passed over.
Stat(n) ==
  /\ Returned(n)
  /\ Entry(n) \notin excluded
  /\ LET x == At(SourceRoot, Entry(n))
     IN  /\ x # Nothing
         /\ toVisit' = IF x \in Dir THEN Append(toVisit, Entry(n)) ELSE toVisit
         /\ scanned' = IF x = Regular THEN scanned \cup {Entry(n)} ELSE scanned
  /\ UNCHANGED scanErrors

\* Mutant: an entry that cannot be looked up ends its directory.
StatFailsEnds(n) ==
  /\ reading # Nothing /\ n \in listing
  /\ Entry(n) \notin excluded
  /\ scanErrors' = scanErrors \cup {Entry(n)}
  /\ reading' = Nothing /\ listing' = {} /\ owed' = {}
  /\ UNCHANGED <<kids, excluded, phase, dirPath, toVisit, scanned, doomed, untouched,
                 moves>>

StatFails(n) ==
  /\ Returned(n)
  /\ Entry(n) \notin excluded
  /\ scanErrors' = scanErrors \cup {Entry(n)}
  /\ UNCHANGED <<toVisit, scanned>>

\* next_entry fails: the loop asks it again, and it may return what is left or
\* end the directory.
NextEntryFails ==
  /\ reading # Nothing
  /\ scanErrors' = scanErrors \cup {dirPath}
  /\ owed' = {}
  /\ UNCHANGED <<kids, excluded, phase, toVisit, reading, dirPath, listing, scanned,
                 doomed, untouched, moves>>

\* It has no name to return any more.
EndOfDir ==
  /\ reading # Nothing /\ owed = {}
  /\ reading' = Nothing /\ dirPath' = <<>> /\ listing' = {}
  /\ UNCHANGED <<kids, excluded, phase, toVisit, owed, scanned, scanErrors, doomed,
                 untouched, moves>>

\* Mutant: the entries of the scan with patterns serve to find the orphans.
ScanEndsForBoth ==
  /\ phase = "scan" /\ reading = Nothing /\ toVisit = <<>>
  /\ phase' = "orphans"
  /\ UNCHANGED <<kids, excluded, walkVars, doomed, untouched, moves>>

\* Orphans are sought with the entries of a scan of its own, without patterns.
ScanEnds ==
  /\ phase = "scan" /\ reading = Nothing /\ toVisit = <<>>
  /\ phase' = IF excluded = {} THEN "orphans" ELSE "end"
  /\ UNCHANGED <<kids, excluded, walkVars, doomed, untouched, moves>>

-----------------------------------------------------------------------------
(* find_orphans and delete_orphans                                          *)

\* collect_dest_files: regular files, and symlinks to them, by every path that
\* leads there; a directory that cannot be read is passed over.
FindOrphans ==
  /\ phase = "orphans"
  /\ \E unread \in SUBSET {p \in Paths \cup {<<>>} : Follow(At(DestRoot, p)) \in Dir} :
       doomed' = {p \in Paths :
                    /\ Follow(At(DestRoot, p)) = Regular
                    /\ \A k \in DOMAIN p : p[k] \notin Spared
                    /\ Above(p) \cap unread = {}
                    /\ p \notin scanned}
  /\ phase' = "delete"
  /\ UNCHANGED <<kids, excluded, walkVars, untouched, moves>>

\* remove_file of a path removes the last name, wherever its directory is by now.
RemoveOrphan(p) ==
  /\ phase = "delete" /\ p \in doomed
  /\ doomed' = doomed \ {p}
  /\ LET d == Follow(At(DestRoot, Parent(p)))
     IN  d \in Dir /\ kids' = [kids EXCEPT ![d][FileName(p)] = Nothing]
  /\ UNCHANGED <<excluded, phase, walkVars, untouched, moves>>

RemoveOrphanFails(p) ==
  /\ phase = "delete" /\ p \in doomed
  /\ doomed' = doomed \ {p}
  /\ UNCHANGED <<kids, excluded, phase, walkVars, untouched, moves>>

DeleteEnds ==
  /\ phase = "delete" /\ doomed = {}
  /\ phase' = "end"
  /\ UNCHANGED <<kids, excluded, walkVars, doomed, untouched, moves>>

TreeNext ==
  \/ OpenDir \/ OpenDirFails \/ NextEntryFails \/ EndOfDir \/ ScanEnds
  \/ \E n \in Name : Excluded(n) \/ Stat(n) \/ StatFails(n)
  \/ FindOrphans \/ DeleteEnds
  \/ \E p \in Paths : RemoveOrphan(p) \/ RemoveOrphanFails(p)
  \/ \E d \in SourceDirs, n \in Name :
       \/ CreateFile(d, n) \/ RemoveFile(d, n)
       \/ \E e \in SourceDirs, m \in Name : Rename(d, n, e, m)

TreeSpec == TreeInit /\ [][TreeNext]_treeVars

-----------------------------------------------------------------------------
\* The scan is told of, for a file it has not found.
Reported(p) == Above(p) \cap scanErrors # {}
Settled(p)  == p \in scanned \/ Reported(p) \/ Above(p) \cap excluded # {}

\* A file that was at its path the whole scan long is an entry, or an error names
\* it or a directory above it, or a pattern excludes it: whatever is created,
\* removed and renamed meanwhile.  (scan.rs:40, "Errors on individual files are
\* collected (non-fatal)")
StableFilesAreFound ==
  phase # "scan" => \A p \in untouched : Settled(p)

\* A file that goes: it had a name in the destination, and the source had no such
\* file when it was scanned, or the scan could not say.
OnlyOrphansGo ==
  phase = "delete" =>
    /\ \A d \in SourceDirs \cup OtherDirs : kids'[d] = kids[d]
    /\ \A p \in FilesOf(DestRoot) \ FilesOf(DestRoot)' : p \notin untouched \/ Reported(p)

\* --delete removes nothing else as long as no directory of the destination holds
\* a symlink to a directory.
DeleteSparesTheRest ==
  [][(\A d \in DestDirs, n \in Name : kids[d][n] \notin [to : Dir]) => OnlyOrphansGo]_treeVars

\* What --delete says: "Delete destination files not present in source (sync
\* mode)" (cli.rs:88).
DeletesOrphansOnly == [][OnlyOrphansGo]_treeVars

-----------------------------------------------------------------------------
(* Why they hold                                                            *)

\* What the scan still owes lies below a path on the stack, or below a name that the
\* open directory has to return, and that is still the directory at its path.
Pending(p) ==
  \E k \in 0..(Len(p) - 1) :
    \/ \E j \in DOMAIN toVisit : toVisit[j] = SubSeq(p, 1, k)
    \/ /\ reading # Nothing /\ reading = At(SourceRoot, dirPath)
       /\ dirPath = SubSeq(p, 1, k) /\ p[k + 1] \in owed

NothingIsMissed ==
  phase = "scan" =>
    /\ untouched \subseteq FilesOf(SourceRoot)
    /\ \A p \in untouched : Settled(p) \/ Pending(p)

\* A directory of the destination is where it was, or its parent has lost it.
DestIsTree ==
  \A d, e \in DestDirs, n, m \in Name :
    kids[d][n] \in Dir => /\ kids[d][n] \in DestDirs \ {DestRoot}
                          /\ kids[e][m] = kids[d][n] => e = d /\ m = n

\* No path to be removed leads to a directory.
DoomedAreOrphans ==
  /\ phase # "scan" => reading = Nothing
  /\ phase # "delete" => doomed = {}
  /\ phase \in {"orphans", "delete"} => excluded = {}
  /\ doomed \cap scanned = {}
  /\ \A p \in doomed : Follow(At(DestRoot, p)) \in {Regular, Nothing}

WalkInv ==
  /\ TreeTypeOK
  /\ NothingIsMissed /\ StableFilesAreFound
  /\ DestIsTree /\ DoomedAreOrphans
==============================================================================
