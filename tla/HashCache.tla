------------------------------- MODULE HashCache -------------------------------
(***************************************************************************)
(* adapters::cache::SqliteCache, the table of hashes by path, size and     *)
(* mtime, with engine::hash reading the files it caches and other programs *)
(* editing them meanwhile.                                                 *)
(*                                                                         *)
(* A client stats a file, looks its stamp up, reads the file block by      *)
(* block when there is no row for it, and stores what it read under the    *)
(* stamp it began with, at once or in a batch.  No command of accro does   *)
(* so yet (hash.rs:161); the client here is the one the module and         *)
(* ports::cache are written for.  Each table operation holds the mutex of  *)
(* the connection; a batch is one SQLite transaction.                      *)
(***************************************************************************)
EXTENDS Naturals, Sequences

CONSTANTS
  Worker,       \* hashing threads
  Cached,       \* paths of the files that are hashed
  Block,        \* what a block of a file may be
  Data,         \* what a file may hold, a sequence of blocks
  Algorithm,    \* hash algorithms a client may ask for
  Absent,       \* no row, no path, no hash, nobody
  MaxStamp,     \* bound: the seconds that pass
  MaxEdits,     \* bound: edits of the files
  MaxScans      \* bound: files the clients take up

ASSUME CacheAssumption ==
  /\ Absent \notin Worker \cup Cached \cup Algorithm
  /\ Data # {} /\ Data \subseteq Seq(Block)
  /\ MaxStamp \in Nat /\ MaxEdits \in Nat /\ MaxScans \in Nat

VARIABLES
  tree,      \* the files: blocks and mtime in seconds
  table,      \* the rows, by path
  enabled,    \* FALSE for SqliteCache::disabled
  conn,       \* the worker inside the connection's mutex, or Absent
  tx,         \* rows of the open transaction, by path
  batch,      \* hashes gathered for store_batch, by path
  slice,      \* what the store_batch in progress was given
  work,       \* per worker, what it does
  racy,       \* files edited without a later mtime (history)
  edits,      \* edits so far
  scans       \* files taken up so far

cacheVars == <<tree, table, enabled, conn, tx, batch, slice, work, racy, edits, scans>>

HashType == [algo : Algorithm, of : Seq(Block)]
\* A row: its stamp, and the hash.  A row of another program version, with an
\* algorithm this one does not know, has none.
Row      == [size : Nat, mtime : 0..MaxStamp, hash : HashType \cup {Absent}]
NoRows   == [p \in Cached |-> Absent]
Idle     == [at |-> "idle", path |-> Absent, size |-> 0, mtime |-> 0,
             algo |-> Absent, read |-> <<>>, hash |-> Absent]
WorkType == [at : {"idle", "scanned", "reading", "hashed", "hit", "batch"},
             path : Cached \cup {Absent}, size : Nat,
             mtime : 0..MaxStamp, algo : Algorithm \cup {Absent},
             read : Seq(Block), hash : HashType \cup {Absent}]

CacheTypeOK ==
  /\ tree \in [Cached -> [data : Data, mtime : 0..MaxStamp]]
  /\ table \in [Cached -> Row \cup {Absent}]
  /\ enabled \in BOOLEAN
  /\ conn \in Worker \cup {Absent}
  /\ tx \in [Cached -> Row \cup {Absent}]
  /\ batch \in [Cached -> Row \cup {Absent}]
  /\ slice \in [Cached -> Row \cup {Absent}]
  /\ work \in [Worker -> WorkType]
  /\ racy \subseteq Cached
  /\ edits \in 0..MaxEdits /\ scans \in 0..MaxScans
  /\ conn = Absent => tx = NoRows /\ slice = NoRows

CacheInit ==
  /\ tree \in [Cached -> [data : Data, mtime : {0}]]
  /\ \/ table = NoRows
     \/ table = [p \in Cached |->
                  [size |-> Len(tree[p].data), mtime |-> 0, hash |-> Absent]]
  /\ enabled \in BOOLEAN
  /\ conn = Absent
  /\ tx = NoRows /\ batch = NoRows /\ slice = NoRows
  /\ work = [w \in Worker |-> Idle]
  /\ racy = {} /\ edits = 0 /\ scans = 0

RowOf(w) == [size |-> work[w].size, mtime |-> work[w].mtime, hash |-> work[w].hash]

-----------------------------------------------------------------------------
(* Around the cache: editors, and the client (external)                     *)

\* Another program writes a file; the mtime is the second it does so in, which
\* may be the one before, or one that it sets itself.
EditFile(p) ==
  /\ edits < MaxEdits
  /\ \E d \in Data, t \in 0..MaxStamp :
       /\ tree' = [tree EXCEPT ![p] = [data |-> d, mtime |-> t]]
       /\ racy' = IF t > tree[p].mtime THEN racy ELSE racy \cup {p}
  /\ edits' = edits + 1
  /\ UNCHANGED <<table, enabled, conn, tx, batch, slice, work, scans>>

\* The scanner's stat of a file gives the stamp everything after goes by.
TakeUp(w) ==
  /\ work[w].at = "idle" /\ scans < MaxScans
  /\ \E p \in Cached, a \in Algorithm :
       work' = [work EXCEPT ![w] = [Idle EXCEPT
                  !.at = "scanned", !.path = p, !.algo = a,
                  !.size = Len(tree[p].data), !.mtime = tree[p].mtime]]
  /\ scans' = scans + 1
  /\ UNCHANGED <<tree, table, enabled, conn, tx, batch, slice, racy, edits>>

PutDown(w) ==
  /\ work[w].at = "hit"
  /\ work' = [work EXCEPT ![w] = Idle]
  /\ UNCHANGED <<tree, table, enabled, conn, tx, batch, slice, racy, edits, scans>>

\* The hash is kept for store_batch.
Gather(w) ==
  /\ work[w].at = "hashed"
  /\ batch' = [batch EXCEPT ![work[w].path] = RowOf(w)]
  /\ work' = [work EXCEPT ![w] = Idle]
  /\ UNCHANGED <<tree, table, enabled, conn, tx, slice, racy, edits, scans>>

-----------------------------------------------------------------------------
(* hash_file                                                                *)

\* One pass of the loop: a block, and at the end of the file the digest.
ReadBlock(w) ==
  LET job  == work[w]
      data == tree[job.path].data
      next == Len(job.read) + 1
  IN  /\ job.at = "reading"
      /\ work' = IF next <= Len(data)
                 THEN [work EXCEPT ![w].read = Append(@, data[next])]
                 ELSE [work EXCEPT ![w].at = "hashed",
                         ![w].hash = [algo |-> job.algo, of |-> job.read]]
      /\ UNCHANGED <<tree, table, enabled, conn, tx, batch, slice, racy, edits, scans>>

\* HashError::Open or HashError::Io: the entry stays without a hash.
ReadFails(w) ==
  /\ work[w].at = "reading"
  /\ work' = [work EXCEPT ![w] = Idle]
  /\ UNCHANGED <<tree, table, enabled, conn, tx, batch, slice, racy, edits, scans>>

-----------------------------------------------------------------------------
(* The table                                                                *)

\* A call on a disabled cache returns before it takes the mutex.
MayCall == ~enabled \/ conn = Absent

\* Mutant: the mtime is not compared.
MatchesSize(w, row) ==
  row # Absent /\ row.size = work[w].size /\ row.hash # Absent

\* A row with the stamp asked for, whose hash decodes, whatever its algorithm.
Matches(w, row) ==
  /\ row # Absent
  /\ row.size = work[w].size /\ row.mtime = work[w].mtime
  /\ row.hash # Absent

Lookup(w) ==
  LET p == work[w].path IN
  /\ work[w].at = "scanned" /\ MayCall
  /\ work' = IF enabled /\ Matches(w, table[p])
             THEN [work EXCEPT ![w].at = "hit", ![w].hash = table[p].hash]
             ELSE [work EXCEPT ![w].at = "reading"]
  /\ UNCHANGED <<tree, table, enabled, conn, tx, batch, slice, racy, edits, scans>>

\* CacheError: the file is hashed as if it had no row, or its hash not stored.
LookupFails(w) ==
  /\ enabled /\ MayCall
  /\ \/ work[w].at = "scanned" /\ work' = [work EXCEPT ![w].at = "reading"]
     \/ work[w].at = "hashed" /\ work' = [work EXCEPT ![w] = Idle]
  /\ UNCHANGED <<tree, table, enabled, conn, tx, batch, slice, racy, edits, scans>>

\* INSERT OR REPLACE
Store(w) ==
  /\ work[w].at = "hashed" /\ MayCall
  /\ table' = IF enabled THEN [table EXCEPT ![work[w].path] = RowOf(w)] ELSE table
  /\ work' = [work EXCEPT ![w] = Idle]
  /\ UNCHANGED <<tree, enabled, conn, tx, batch, slice, racy, edits, scans>>

\* remove: DELETE, of a path of the client's choice.
Forget(p) ==
  /\ enabled /\ MayCall
  /\ table[p] # Absent
  /\ table' = [table EXCEPT ![p] = Absent]
  /\ UNCHANGED <<tree, enabled, conn, tx, batch, slice, work, racy, edits, scans>>

\* store_batch takes the mutex and opens a transaction; an empty batch and a
\* disabled cache return at once.
BatchBegin(w) ==
  /\ enabled /\ conn = Absent
  /\ work[w].at = "idle" /\ batch # NoRows
  /\ conn' = w
  /\ slice' = batch /\ batch' = NoRows
  /\ work' = [work EXCEPT ![w].at = "batch"]
  /\ UNCHANGED <<tree, table, enabled, tx, racy, edits, scans>>

\* Mutant: the rows are inserted outside of a transaction.
BatchInsertDirectly(w) ==
  /\ conn = w
  /\ \E p \in Cached :
       /\ slice[p] # Absent /\ tx[p] = Absent
       /\ tx' = [tx EXCEPT ![p] = slice[p]]
       /\ table' = [table EXCEPT ![p] = slice[p]]
  /\ UNCHANGED <<tree, enabled, conn, batch, slice, work, racy, edits, scans>>

BatchInsert(w) ==
  /\ conn = w
  /\ \E p \in Cached :
       /\ slice[p] # Absent /\ tx[p] = Absent
       /\ tx' = [tx EXCEPT ![p] = slice[p]]
  /\ UNCHANGED <<tree, table, enabled, conn, batch, slice, work, racy, edits, scans>>

BatchCommit(w) ==
  /\ conn = w /\ \A p \in Cached : slice[p] # Absent => tx[p] # Absent
  /\ table' = [p \in Cached |-> IF tx[p] # Absent THEN tx[p] ELSE table[p]]
  /\ conn' = Absent /\ tx' = NoRows /\ slice' = NoRows
  /\ work' = [work EXCEPT ![w] = Idle]
  /\ UNCHANGED <<tree, enabled, batch, racy, edits, scans>>

\* An insert or the commit fails: the transaction is dropped, which rolls it
\* back, and the client goes on without the batch.
BatchFails(w) ==
  /\ conn = w
  /\ conn' = Absent /\ tx' = NoRows /\ slice' = NoRows
  /\ work' = [work EXCEPT ![w] = Idle]
  /\ UNCHANGED <<tree, table, enabled, batch, racy, edits, scans>>

\* The process is killed; SQLite rolls its transaction back (external).  The
\* next one opens the cache again, or runs without.
CacheRestart ==
  /\ \E w \in Worker : work[w] # Idle
  /\ conn' = Absent /\ tx' = NoRows /\ slice' = NoRows /\ batch' = NoRows
  /\ work' = [w \in Worker |-> Idle]
  /\ enabled' \in BOOLEAN
  /\ UNCHANGED <<tree, table, racy, edits, scans>>

CacheNext ==
  \/ \E p \in Cached : EditFile(p) \/ Forget(p)
  \/ \E w \in Worker :
       \/ TakeUp(w) \/ PutDown(w) \/ Gather(w)
       \/ ReadBlock(w) \/ ReadFails(w)
       \/ Lookup(w) \/ LookupFails(w) \/ Store(w)
       \/ BatchBegin(w) \/ BatchInsert(w) \/ BatchCommit(w) \/ BatchFails(w)
  \/ CacheRestart

CacheSpec == CacheInit /\ [][CacheNext]_cacheVars

-----------------------------------------------------------------------------
\* A hit is the hash of the file as it is, for as long as the file has the stamp
\* it was asked for, unless an edit ever left the file without a later mtime:
\* rows stored under a stamp the file no longer had when it was read, torn reads
\* among them, are never found again, whoever stored them, and with whatever
\* kills in between.  (cache.rs:83, "Returns None if the entry is missing or stale")
HitIsCurrent ==
  \A w \in Worker :
    LET job == work[w] IN
    /\ job.at = "hit"
    /\ job.path \notin racy
    /\ tree[job.path].mtime = job.mtime
    => job.hash.of = tree[job.path].data

\* The table changes by one row stored or removed, or by the whole of a batch:
\* a batch that fails or is killed half way leaves nothing.
\* (cache.rs:173, "Batch-store multiple hashes in a single transaction")
BatchIsWhole ==
  [][table' # table =>
       \/ \E p \in Cached : /\ \A q \in Cached \ {p} : table'[q] = table[q]
                            /\ conn = Absent
       \/ \A p \in Cached : slice[p] # Absent => table'[p] = slice[p]]_cacheVars

\* Why: a row says what its file held when the file had the row's stamp, and so
\* does a worker of what it has read; an edit that is not racy takes the file to a
\* stamp that no row and no worker has.
RowIsSound(p, row) ==
  row # Absent /\ p \notin racy =>
    /\ row.mtime <= tree[p].mtime
    /\ row.mtime = tree[p].mtime /\ row.hash # Absent => row.hash.of = tree[p].data

HasReadSoFar(job) ==
  LET data == tree[job.path].data
  IN  Len(job.read) <= Len(data) /\ \A k \in 1..Len(job.read) : job.read[k] = data[k]

JobIsSound(job) ==
  job.at \notin {"idle", "batch"} =>
    /\ job.path \in Cached /\ job.algo \in Algorithm
    /\ job.at = "scanned" => job.read = <<>>
    /\ job.path \notin racy => job.mtime <= tree[job.path].mtime
    /\ job.path \notin racy /\ job.mtime = tree[job.path].mtime =>
         /\ job.at = "reading" => HasReadSoFar(job)
         /\ job.at \in {"hashed", "hit"} => job.hash.of = tree[job.path].data

CacheInv ==
  /\ CacheTypeOK
  /\ \A p \in Cached :
       /\ RowIsSound(p, table[p]) /\ RowIsSound(p, batch[p]) /\ RowIsSound(p, slice[p])
       /\ tx[p] # Absent => tx[p] = slice[p]
  /\ \A w \in Worker : JobIsSound(work[w])
================================================================================
