-------------------------------- MODULE DestLock --------------------------------
(***************************************************************************)
(* adapters::lock::DestLock: processes that sync into one destination take *)
(* an advisory lock on the file .accroitre.lock in it.                     *)
(*                                                                         *)
(* The lock belongs to the open file, not to its name: a process opens or  *)
(* creates the name, then tries to lock what it opened.  Drop unlocks and  *)
(* removes the name in two steps, whatever the name is by then; a run with *)
(* --delete removes it too, as an orphan, since delta.rs spares only names *)
(* that begin with ".accroitre-".                                          *)
(***************************************************************************)
EXTENDS Naturals

CONSTANTS Proc,        \* accro processes
          File,        \* files that may carry the lock file's name
          None,
          Deletes,     \* whether runs use --delete
          MaxRuns      \* bound: how many times each process runs

ASSUME LockAssumption ==
  /\ None \notin Proc \cup File
  /\ Deletes \in BOOLEAN
  /\ MaxRuns \in Nat

VARIABLES
  path,      \* the file .accroitre.lock names, or None
  holder,    \* per file, the process with the lock on it, or None
  fd,        \* per process, the lock file it has open, or None
  pc,        \* per process, where it is
  runs,      \* per process, runs started
  orphaned   \* whether the name of a file in use was ever removed (history)

vars == <<path, holder, fd, pc, runs, orphaned>>

TypeOK ==
  /\ path \in File \cup {None}
  /\ holder \in [File -> Proc \cup {None}]
  /\ fd \in [Proc -> File \cup {None}]
  /\ pc \in [Proc -> {"out", "opened", "in", "unlocked"}]
  /\ runs \in [Proc -> 0..MaxRuns]
  /\ orphaned \in BOOLEAN

Init ==
  /\ path = None
  /\ holder = [f \in File |-> None]
  /\ fd = [p \in Proc |-> None]
  /\ pc = [p \in Proc |-> "out"]
  /\ runs = [p \in Proc |-> 0]
  /\ orphaned = FALSE

\* Files without a name and without an open descriptor; a new file is any of them,
\* and which one makes no difference.
Unused == File \ ({path} \cup {fd[p] : p \in Proc})

\* open with create(true) and truncate(false)
Open(p) ==
  /\ pc[p] = "out" /\ runs[p] < MaxRuns
  /\ path # None \/ Unused # {}
  /\ path' = IF path # None THEN path ELSE CHOOSE f \in Unused : TRUE
  /\ fd' = [fd EXCEPT ![p] = path']
  /\ pc' = [pc EXCEPT ![p] = "opened"]
  /\ runs' = [runs EXCEPT ![p] = @ + 1]
  /\ UNCHANGED <<holder, orphaned>>

TryLock(p) ==
  /\ pc[p] = "opened" /\ holder[fd[p]] = None
  /\ holder' = [holder EXCEPT ![fd[p]] = p]
  /\ pc' = [pc EXCEPT ![p] = "in"]
  /\ UNCHANGED <<path, fd, runs, orphaned>>

\* Mutant: the error of try_lock is dropped.
BusyIgnored(p) ==
  /\ pc[p] = "opened" /\ holder[fd[p]] # None
  /\ pc' = [pc EXCEPT ![p] = "in"]
  /\ UNCHANGED <<path, holder, fd, runs, orphaned>>

\* LockError::Busy: the run ends and closes the file.
Busy(p) ==
  /\ pc[p] = "opened" /\ holder[fd[p]] # None
  /\ fd' = [fd EXCEPT ![p] = None]
  /\ pc' = [pc EXCEPT ![p] = "out"]
  /\ UNCHANGED <<path, holder, runs, orphaned>>

\* History: the name is removed, and a process that keeps the file open has lost it.
Orphans == orphaned' = (orphaned \/ \E q \in Proc : path # None /\ fd'[q] = path)

\* delete_orphans takes the lock file for one.
DeleteOrphans(p) ==
  /\ Deletes
  /\ pc[p] = "in" /\ path # None
  /\ path' = None
  /\ UNCHANGED <<holder, fd, pc, runs>>
  /\ Orphans

\* Mutant: Drop removes the name and forgets the lock.
UnlockForgotten(p) ==
  /\ pc[p] = "in"
  /\ pc' = [pc EXCEPT ![p] = "unlocked"]
  /\ UNCHANGED <<path, holder, fd, runs, orphaned>>

\* Drop, first statement
Unlock(p) ==
  /\ pc[p] = "in"
  /\ holder' = [holder EXCEPT ![fd[p]] = None]
  /\ pc' = [pc EXCEPT ![p] = "unlocked"]
  /\ UNCHANGED <<path, fd, runs, orphaned>>

\* Drop, second statement; then the file is closed.
Remove(p) ==
  /\ pc[p] = "unlocked"
  /\ path' = None
  /\ fd' = [fd EXCEPT ![p] = None]
  /\ Orphans
  /\ pc' = [pc EXCEPT ![p] = "out"]
  /\ UNCHANGED <<holder, runs>>

\* A killed process runs no Drop: the system closes its file, which unlocks it.
Kill(p) ==
  /\ pc[p] # "out"
  /\ holder' = [f \in File |-> IF holder[f] = p THEN None ELSE holder[f]]
  /\ fd' = [fd EXCEPT ![p] = None]
  /\ pc' = [pc EXCEPT ![p] = "out"]
  /\ UNCHANGED <<path, runs, orphaned>>

Next ==
  \E p \in Proc : \/ Open(p) \/ TryLock(p) \/ Busy(p) \/ DeleteOrphans(p)
                  \/ Unlock(p) \/ Remove(p) \/ Kill(p)

Spec == Init /\ [][Next]_vars

-----------------------------------------------------------------------------
Inside == {p \in Proc : pc[p] = "in"}

\* lock.rs:3: "Prevents two `accro` processes from operating on the same
\* destination at the same time."
MutualExclusion == \A p, q \in Inside : p = q

\* It does, through any races, kills and runs that finish, until the lock file's
\* name is removed while somebody has the file open: by --delete, or by the Drop
\* of a run when another process is about to lock what it opened.
ExclusiveUntilOrphaned == ~orphaned => MutualExclusion

\* A run is refused only on account of a run in progress: no lock survives its
\* process, so a lock file left behind by a kill stops nobody.
NoStaleLock == \A f \in File : holder[f] # None => holder[f] \in Inside /\ fd[holder[f]] = f

\* Why: as long as the name stays, every process has the same file open.
OneFile == ~orphaned => \A p \in Proc : pc[p] # "out" => fd[p] = path /\ path # None

\* A process that is past open has a file, and once inside the lock on it.
InsideHolds ==
  /\ \A p \in Proc : pc[p] # "out" => fd[p] \in File
  /\ \A p \in Inside : holder[fd[p]] = p

IInv == TypeOK /\ NoStaleLock /\ OneFile /\ InsideHolds
================================================================================
