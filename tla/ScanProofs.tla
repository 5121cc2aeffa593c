------------------------------- MODULE ScanProofs -------------------------------
(***************************************************************************)
(* What a scan may rely on.  The hash cache: a hit is the hash of the file *)
(* as it is, and a batch is stored whole or not at all, for any number of  *)
(* threads, files, edits, failures and restarts.  The walks: a file that   *)
(* stays at its path is found or reported, whatever other programs do to   *)
(* the source, and --delete spares the files that the scan has seen, for   *)
(* trees of any shape, depth and number of changes.                        *)
(***************************************************************************)
EXTENDS HashCache, TreeWalk, Integers, WellFoundedInduction, SequenceTheorems, TLAPS

-----------------------------------------------------------------------------
(* HashCache                                                                *)

LEMMA CacheInitInv == CacheInit => CacheInv
<1> SUFFICES ASSUME CacheInit PROVE CacheInv
  OBVIOUS
<1> USE CacheAssumption
<1>1. CacheTypeOK
  BY DEF CacheInit, CacheTypeOK, NoRows, Row, Idle, WorkType
<1>2. \A p \in Cached : RowIsSound(p, table[p])
  BY DEF CacheInit, NoRows, RowIsSound
<1>3. \A w \in Worker : JobIsSound(work[w])
  BY DEF CacheInit, Idle, JobIsSound
<1> QED
  BY <1>1, <1>2, <1>3 DEF CacheInit, NoRows, RowIsSound, CacheInv

\* What the steps that edit no file leave true of a worker that does nothing.
LEMMA IdleIsSound == JobIsSound(Idle)
BY DEF Idle, JobIsSound

\* A row stored for a file is as sound as the read it came from.
LEMMA RowOfIsSound ==
  ASSUME NEW w \in Worker, JobIsSound(work[w]), work[w].at = "hashed"
  PROVE  RowIsSound(work[w].path, RowOf(w))
BY DEF JobIsSound, RowIsSound, RowOf

LEMMA RowOfType ==
  ASSUME CacheTypeOK, NEW w \in Worker PROVE RowOf(w) \in Row
BY DEF CacheTypeOK, RowOf, Row, WorkType

\* What remains a job when its fields change.
LEMMA JobType ==
  ASSUME NEW job \in WorkType,
         NEW a \in {"idle", "scanned", "reading", "hashed", "hit", "batch"},
         NEW r \in Seq(Block), NEW h \in HashType \cup {Absent}
  PROVE  /\ [job EXCEPT !.at = a] \in WorkType
         /\ [job EXCEPT !.read = r] \in WorkType
         /\ [job EXCEPT !.at = a, !.hash = h] \in WorkType
<1>1. [job EXCEPT !.at = a] \in WorkType
  BY DEF WorkType
<1>2. [job EXCEPT !.read = r] \in WorkType
  BY DEF WorkType
<1>3. [job EXCEPT !.at = a, !.hash = h] \in WorkType
  BY DEF WorkType
<1> QED
  BY <1>1, <1>2, <1>3

\* The steps of a worker that change nothing but its own job and the count.
LEMMA JobStep ==
  ASSUME CacheInv, NEW w \in Worker, NEW job \in WorkType, JobIsSound(job),
         work' = [work EXCEPT ![w] = job], scans' \in 0..MaxScans,
         UNCHANGED <<tree, table, enabled, conn, tx, batch, slice, racy, edits>>
  PROVE  CacheInv'
<1>1. CacheTypeOK'
  BY DEF CacheInv, CacheTypeOK
<1>2. \A v \in Worker : JobIsSound(work[v])'
  BY DEF CacheInv, CacheTypeOK, JobIsSound, HasReadSoFar
<1>3. \A p \in Cached :
        /\ (RowIsSound(p, table[p]) /\ RowIsSound(p, batch[p]) /\ RowIsSound(p, slice[p]))'
        /\ tx'[p] # Absent => tx'[p] = slice'[p]
  BY DEF CacheInv, RowIsSound
<1> QED
  BY <1>1, <1>2, <1>3 DEF CacheInv

LEMMA IdleType == Idle \in WorkType
BY CacheAssumption DEF Idle, WorkType

LEMMA EditInv == ASSUME CacheInv, NEW f \in Cached, EditFile(f) PROVE CacheInv'
<1> USE CacheAssumption DEF EditFile
<1>1. CacheTypeOK'
  BY DEF CacheInv, CacheTypeOK
<1>2. PICK d \in Data, t \in 0..MaxStamp :
        /\ tree' = [tree EXCEPT ![f] = [data |-> d, mtime |-> t]]
        /\ racy' = IF t > tree[f].mtime THEN racy ELSE racy \cup {f}
  OBVIOUS
<1>3. /\ \A p \in Cached \ {f} : tree'[p] = tree[p]
      /\ tree'[f].mtime = t /\ tree[f].mtime \in 0..MaxStamp
      /\ f \notin racy' => t > tree[f].mtime
      /\ racy \subseteq racy'
  BY <1>2 DEF CacheInv, CacheTypeOK
<1>4. \A v \in Worker : JobIsSound(work[v])'
  <2> SUFFICES ASSUME NEW v \in Worker PROVE JobIsSound(work[v])'
    OBVIOUS
  <2>1. work[v].mtime \in 0..MaxStamp
    BY DEF CacheInv, CacheTypeOK, WorkType
  <2>2. JobIsSound(work[v])
    BY DEF CacheInv
  <2>3. CASE work[v].path = f /\ f \notin racy'
    BY <1>3, <2>1, <2>2, <2>3 DEF JobIsSound
  <2>4. CASE ~(work[v].path = f /\ f \notin racy')
    <3>1. \/ work[v].path \in racy'
          \/ tree'[work[v].path] = tree[work[v].path] /\ work[v].path \notin racy
          \/ work[v].path \notin Cached
      BY <1>3, <2>4
    <3> QED
      BY <2>2, <3>1 DEF JobIsSound, HasReadSoFar
  <2> QED
    BY <2>3, <2>4
<1>5. ASSUME NEW p \in Cached, NEW row \in Row \cup {Absent}, RowIsSound(p, row)
      PROVE  RowIsSound(p, row)'
  BY <1>3, <1>5 DEF RowIsSound, Row
<1> QED
  BY <1>1, <1>4, <1>5 DEF CacheInv, CacheTypeOK

\* Steps that change rows, and jobs only to idle ones.
LEMMA RowStep ==
  ASSUME CacheInv, CacheTypeOK', UNCHANGED <<tree, racy>>,
         \A v \in Worker : work'[v] = work[v] \/ JobIsSound(work'[v]),
         \A p \in Cached :
           /\ RowIsSound(p, table'[p]) /\ RowIsSound(p, batch'[p])
           /\ RowIsSound(p, slice'[p])
           /\ tx'[p] # Absent => tx'[p] = slice'[p]
  PROVE  CacheInv'
<1>1. \A v \in Worker : JobIsSound(work[v])' <=> JobIsSound(work'[v])
  BY DEF JobIsSound, HasReadSoFar
<1>2. \A p \in Cached : /\ RowIsSound(p, table[p])' <=> RowIsSound(p, table'[p])
                        /\ RowIsSound(p, batch[p])' <=> RowIsSound(p, batch'[p])
                        /\ RowIsSound(p, slice[p])' <=> RowIsSound(p, slice'[p])
  BY DEF RowIsSound
<1> QED
  BY <1>1, <1>2 DEF CacheInv

LEMMA CacheNextInv == CacheInv /\ [CacheNext]_cacheVars => CacheInv'
<1> SUFFICES ASSUME CacheInv, [CacheNext]_cacheVars PROVE CacheInv'
  OBVIOUS
<1> USE CacheAssumption
<1>t. CacheTypeOK
  BY DEF CacheInv
<1>n. \A p \in Cached : NoRows[p] = Absent /\ RowIsSound(p, NoRows[p])
  BY DEF NoRows, RowIsSound
<1>nt. NoRows \in [Cached -> Row \cup {Absent}]
  BY DEF NoRows
<1>1. CASE UNCHANGED cacheVars
  BY <1>1 DEF cacheVars, CacheInv, CacheTypeOK, RowIsSound, JobIsSound, HasReadSoFar
<1>2. ASSUME NEW p \in Cached, EditFile(p) PROVE CacheInv'
  BY <1>2, EditInv
<1>3. ASSUME NEW p \in Cached, Forget(p) PROVE CacheInv'
  <2>1. CacheTypeOK'
    BY <1>3, <1>t DEF Forget, CacheTypeOK
  <2>2. \A q \in Cached : table'[q] = table[q] \/ table'[q] = Absent
    BY <1>3, <1>t DEF Forget, CacheTypeOK
  <2> QED
    BY <1>3, <2>1, <2>2, RowStep DEF Forget, CacheInv, RowIsSound
<1>4. ASSUME NEW w \in Worker, TakeUp(w) PROVE CacheInv'
  <2>1. PICK p \in Cached, a \in Algorithm :
          work' = [work EXCEPT ![w] = [Idle EXCEPT
                     !.at = "scanned", !.path = p, !.algo = a,
                     !.size = Len(tree[p].data), !.mtime = tree[p].mtime]]
    BY <1>4 DEF TakeUp
  <2> DEFINE job == [Idle EXCEPT !.at = "scanned", !.path = p, !.algo = a,
                       !.size = Len(tree[p].data), !.mtime = tree[p].mtime]
  <2>2. job \in WorkType
    <3>1. Len(tree[p].data) \in Nat /\ tree[p].mtime \in 0..MaxStamp
      BY <1>t DEF CacheTypeOK
    <3> QED
      BY <3>1, IdleType DEF WorkType
  <2>3. JobIsSound(job)
    BY <1>t DEF CacheTypeOK, Idle, JobIsSound
  <2>4. scans' \in 0..MaxScans
    BY <1>4, <1>t DEF TakeUp, CacheTypeOK
  <2> HIDE DEF job
  <2> QED
    BY <1>4, <2>1, <2>2, <2>3, <2>4, JobStep DEF TakeUp, job
<1>5. ASSUME NEW w \in Worker, PutDown(w) \/ ReadFails(w) PROVE CacheInv'
  <2>1. scans' \in 0..MaxScans
    BY <1>5, <1>t DEF PutDown, ReadFails, CacheTypeOK
  <2> QED
    BY <1>5, <2>1, JobStep, IdleIsSound, IdleType DEF PutDown, ReadFails
<1>6. ASSUME NEW w \in Worker, Gather(w) PROVE CacheInv'
  <2>1. RowOf(w) \in Row
    BY <1>t, RowOfType
  <2>2. CacheTypeOK'
    BY <1>6, <1>t, <2>1, IdleType DEF Gather, CacheTypeOK
  <2>3. RowIsSound(work[w].path, RowOf(w))
    BY <1>6, RowOfIsSound DEF Gather, CacheInv
  <2>4. \A q \in Cached : RowIsSound(q, batch'[q])
    BY <1>6, <1>t, <2>3 DEF Gather, CacheInv, CacheTypeOK
  <2>5. \A v \in Worker : work'[v] = work[v] \/ JobIsSound(work'[v])
    BY <1>6, <1>t, IdleIsSound DEF Gather, CacheTypeOK
  <2> QED
    BY <1>6, <2>2, <2>4, <2>5, RowStep DEF Gather, CacheInv
<1>7. ASSUME NEW w \in Worker, ReadBlock(w) PROVE CacheInv'
  <2> DEFINE data == tree[work[w].path].data
             next == Len(work[w].read) + 1
  <2>1. /\ work[w] \in WorkType /\ JobIsSound(work[w]) /\ work[w].at = "reading"
        /\ work[w].path \in Cached /\ work[w].algo \in Algorithm
    BY <1>7, <1>t DEF ReadBlock, CacheInv, CacheTypeOK, JobIsSound
  <2>2. data \in Seq(Block) /\ work[w].read \in Seq(Block)
    BY <2>1, <1>t DEF CacheTypeOK, WorkType
  <2>3. scans' \in 0..MaxScans
    BY <1>7, <1>t DEF ReadBlock, CacheTypeOK
  <2>4. CASE next <= Len(data)
    <3> DEFINE job == [work[w] EXCEPT !.read = Append(work[w].read, data[next])]
    <3>1. data[next] \in Block
      BY <2>2, <2>4
    <3>2. job \in WorkType
      <4>1. Append(work[w].read, data[next]) \in Seq(Block)
        BY <2>2, <3>1
      <4> QED
        BY <2>1, <4>1, JobType
    <3>3. JobIsSound(job)
      <4>1. HasReadSoFar(work[w]) => HasReadSoFar(job)
        BY <2>1, <2>2, <2>4, <3>1 DEF HasReadSoFar, WorkType
      <4> QED
        BY <2>1, <4>1 DEF JobIsSound, WorkType
    <3>4. work' = [work EXCEPT ![w] = job]
      BY <1>7, <1>t, <2>4 DEF ReadBlock, CacheTypeOK
    <3> HIDE DEF job
    <3> QED
      BY <1>7, <2>3, <3>2, <3>3, <3>4, JobStep DEF ReadBlock
  <2>5. CASE ~(next <= Len(data))
    <3> DEFINE hash == [algo |-> work[w].algo, of |-> work[w].read]
               job  == [work[w] EXCEPT !.at = "hashed", !.hash = hash]
    <3>1. job \in WorkType
      BY <2>1, <2>2 DEF WorkType, HashType
    <3>2. JobIsSound(job)
      <4>1. HasReadSoFar(work[w]) => work[w].read = data
        BY <2>2, <2>5 DEF HasReadSoFar
      <4> QED
        BY <2>1, <4>1 DEF JobIsSound, WorkType
    <3>3. work' = [work EXCEPT ![w] = job]
      BY <1>7, <1>t, <2>5 DEF ReadBlock, CacheTypeOK
    <3> HIDE DEF job
    <3> QED
      BY <1>7, <2>3, <3>1, <3>2, <3>3, JobStep DEF ReadBlock
  <2> QED
    BY <2>4, <2>5
<1>8. ASSUME NEW w \in Worker, Lookup(w) \/ LookupFails(w) PROVE CacheInv'
  <2> DEFINE p    == work[w].path
             hit  == [work[w] EXCEPT !.at = "hit", !.hash = table[p].hash]
             miss == [work[w] EXCEPT !.at = "reading"]
  <2>1. work[w] \in WorkType /\ JobIsSound(work[w]) /\ scans' \in 0..MaxScans
    BY <1>8, <1>t DEF Lookup, LookupFails, CacheInv, CacheTypeOK
  <2>2. ASSUME work[w].at = "scanned" PROVE miss \in WorkType /\ JobIsSound(miss)
    <3>1. miss \in WorkType
      BY <2>1, JobType
    <3>2. /\ miss.at = "reading" /\ miss.path = p /\ miss.algo = work[w].algo
          /\ miss.mtime = work[w].mtime /\ miss.read = work[w].read
      BY <2>1 DEF WorkType
    <3>3. work[w].read = <<>> /\ p \in Cached /\ tree[p].data \in Seq(Block)
      BY <2>1, <2>2, <1>t DEF JobIsSound, CacheTypeOK
    <3>4. HasReadSoFar(miss)
      BY <3>2, <3>3 DEF HasReadSoFar
    <3> QED
      BY <2>1, <2>2, <3>1, <3>2, <3>4 DEF JobIsSound
  <2>3. ASSUME work[w].at = "scanned", Matches(w, table[p])
        PROVE  hit \in WorkType /\ JobIsSound(hit)
    <3>1. p \in Cached /\ RowIsSound(p, table[p]) /\ table[p] \in Row
      BY <2>1, <2>3, <1>t DEF JobIsSound, CacheInv, CacheTypeOK, Matches
    <3>2. hit \in WorkType
      BY <2>1, <2>3, <3>1 DEF WorkType, Row, Matches
    <3> QED
      BY <2>1, <2>3, <3>1, <3>2 DEF JobIsSound, RowIsSound, Matches, WorkType
  <2>4. \E job \in WorkType : JobIsSound(job) /\ work' = [work EXCEPT ![w] = job]
    <3>1. CASE /\ work[w].at = "scanned" /\ Matches(w, table[p])
               /\ work' = [work EXCEPT ![w] = hit]
      BY <2>3, <3>1
    <3>2. CASE work[w].at = "scanned" /\ work' = [work EXCEPT ![w] = miss]
      BY <2>2, <3>2
    <3>3. CASE work' = [work EXCEPT ![w] = Idle]
      BY <3>3, IdleIsSound, IdleType
    <3> QED
      BY <1>8, <1>t, <3>1, <3>2, <3>3 DEF Lookup, LookupFails, CacheTypeOK
  <2> QED
    BY <1>8, <2>1, <2>4, JobStep DEF Lookup, LookupFails
<1>9. ASSUME NEW w \in Worker, Store(w) PROVE CacheInv'
  <2>1. RowOf(w) \in Row
    BY <1>t, RowOfType
  <2>2. CacheTypeOK'
    BY <1>9, <1>t, <2>1, IdleType DEF Store, CacheTypeOK
  <2>3. RowIsSound(work[w].path, RowOf(w))
    BY <1>9, RowOfIsSound DEF Store, CacheInv
  <2>4. \A q \in Cached : RowIsSound(q, table'[q])
    BY <1>9, <1>t, <2>3 DEF Store, CacheInv, CacheTypeOK
  <2>5. \A v \in Worker : work'[v] = work[v] \/ JobIsSound(work'[v])
    BY <1>9, <1>t, IdleIsSound DEF Store, CacheTypeOK
  <2> QED
    BY <1>9, <2>2, <2>4, <2>5, RowStep DEF Store, CacheInv
<1>10. ASSUME NEW w \in Worker, BatchBegin(w) PROVE CacheInv'
  <2>1. [work[w] EXCEPT !.at = "batch"] \in WorkType
    <3>1. work[w] \in WorkType
      BY <1>t DEF CacheTypeOK
    <3> QED
      BY <3>1, JobType
  <2>2. CacheTypeOK'
    BY <1>10, <1>t, <1>nt, <2>1 DEF BatchBegin, CacheTypeOK
  <2>3. \A v \in Worker : work'[v] = work[v] \/ JobIsSound(work'[v])
    BY <1>10, <1>t DEF BatchBegin, CacheTypeOK, JobIsSound, WorkType
  <2>4. tx' = NoRows
    BY <1>10, <1>t DEF BatchBegin, CacheTypeOK
  <2> QED
    BY <1>10, <1>n, <2>2, <2>3, <2>4, RowStep DEF BatchBegin, CacheInv
<1>11. ASSUME NEW w \in Worker, BatchInsert(w) PROVE CacheInv'
  <2>0. conn # Absent
    BY <1>11, CacheAssumption DEF BatchInsert
  <2>1. CacheTypeOK'
    BY <1>11, <1>t, <2>0 DEF BatchInsert, CacheTypeOK
  <2> QED
    BY <1>11, <1>t, <2>1, RowStep DEF BatchInsert, CacheInv, CacheTypeOK
<1>12. ASSUME NEW w \in Worker, BatchCommit(w) PROVE CacheInv'
  <2>1. CacheTypeOK'
    BY <1>12, <1>t, <1>nt, IdleType DEF BatchCommit, CacheTypeOK
  <2>2. \A q \in Cached : RowIsSound(q, table'[q])
    BY <1>12 DEF BatchCommit, CacheInv
  <2>3. \A v \in Worker : work'[v] = work[v] \/ JobIsSound(work'[v])
    BY <1>12, <1>t, IdleIsSound DEF BatchCommit, CacheTypeOK
  <2> QED
    BY <1>12, <1>n, <2>1, <2>2, <2>3, RowStep DEF BatchCommit, CacheInv
<1>13. ASSUME NEW w \in Worker, BatchFails(w) PROVE CacheInv'
  <2>1. CacheTypeOK'
    BY <1>13, <1>t, <1>nt, IdleType DEF BatchFails, CacheTypeOK
  <2>2. \A v \in Worker : work'[v] = work[v] \/ JobIsSound(work'[v])
    BY <1>13, <1>t, IdleIsSound DEF BatchFails, CacheTypeOK
  <2> QED
    BY <1>13, <1>n, <2>1, <2>2, RowStep DEF BatchFails, CacheInv
<1>14. ASSUME CacheRestart PROVE CacheInv'
  <2>1. CacheTypeOK'
    BY <1>14, <1>t, <1>nt, IdleType DEF CacheRestart, CacheTypeOK
  <2>2. \A v \in Worker : JobIsSound(work'[v])
    BY <1>14, IdleIsSound DEF CacheRestart
  <2> QED
    BY <1>14, <1>n, <2>1, <2>2, RowStep DEF CacheRestart, CacheInv
<1> QED
  BY <1>1, <1>2, <1>3, <1>4, <1>5, <1>6, <1>7, <1>8, <1>9, <1>10, <1>11, <1>12, <1>13,
     <1>14 DEF CacheNext

\* The inductive invariant holds: every row and every job is sound.  (cache.rs)
THEOREM CacheInductive == CacheSpec => []CacheInv
BY CacheInitInv, CacheNextInv, PTL DEF CacheSpec

\* A hit is the hash of the file as it is, as long as the file keeps the stamp it
\* was asked for.  (cache.rs:83, lookup)
THEOREM HitIsCurrentHolds == CacheSpec => []HitIsCurrent
<1>1. CacheInv => HitIsCurrent
  BY DEF CacheInv, JobIsSound, HitIsCurrent
<1> QED
  BY <1>1, CacheInductive, PTL

\* The table changes by one row or by a whole batch.  (cache.rs:173, store_batch)
THEOREM BatchIsWholeHolds == CacheSpec => BatchIsWhole
<1>1. ASSUME CacheInv, [CacheNext]_cacheVars, table' # table
      PROVE  \/ \E p \in Cached : /\ \A q \in Cached \ {p} : table'[q] = table[q]
                                  /\ conn = Absent
             \/ \A p \in Cached : slice[p] # Absent => table'[p] = slice[p]
  <2>1. CacheTypeOK
    BY <1>1 DEF CacheInv
  <2>2. CASE \E p \in Cached : Forget(p)
    BY <2>1, <2>2 DEF Forget, MayCall, CacheTypeOK
  <2>3. CASE \E w \in Worker : Store(w)
    <3>1. PICK w \in Worker : Store(w)
      BY <2>3
    <3>2. work[w].path \in Cached
      BY <1>1, <3>1 DEF Store, CacheInv, JobIsSound
    <3> QED
      BY <1>1, <2>1, <3>1, <3>2 DEF Store, MayCall, CacheTypeOK
  <2>4. CASE \E w \in Worker : BatchCommit(w)
    BY <1>1, <2>4 DEF BatchCommit, CacheInv
  <2> QED
    BY <1>1, <2>2, <2>3, <2>4 DEF CacheNext, cacheVars, EditFile, TakeUp, PutDown, Gather,
       ReadBlock, ReadFails, Lookup, LookupFails, BatchBegin, BatchInsert, BatchFails,
       CacheRestart
<1> QED
  BY <1>1, CacheInductive, PTL DEF BatchIsWhole, CacheSpec

-----------------------------------------------------------------------------
(* TreeWalk: the way along a path                                           *)

\* Induction over a set of numbers, from the least number outside it.
LEMMA SetInduction ==
  ASSUME NEW S, 0 \in S, \A n \in Nat : n \in S => n + 1 \in S
  PROVE  Nat \subseteq S
<1> SUFFICES ASSUME Nat \ S # {} PROVE FALSE
  OBVIOUS
<1> DEFINE R == OpToRel(<, Nat)
<1>1. IsWellFoundedOn(R, Nat)
  BY NatLessThanWellFounded
<1>2. \A x, y \in Nat : <<x, y>> \in R <=> x < y
  BY DEF OpToRel
<1> HIDE DEF R
<1>3. PICK x \in Nat \ S : \A y \in Nat \ S : ~(<<y, x>> \in R)
  <2>1. Nat \ S \subseteq Nat
    OBVIOUS
  <2> QED BY <1>1, <2>1, WFMin, Zenon
<1>4. x # 0 /\ x - 1 \in Nat /\ x - 1 < x /\ (x - 1) + 1 = x
  BY <1>3
<1>5. x - 1 \in S
  BY <1>2, <1>3, <1>4
<1> QED
  BY <1>3, <1>4, <1>5

\* The recursion of Trail is sound: there is a function that it describes.
LEMMA TrailExists ==
  ASSUME NEW t, NEW root, NEW path, Len(path) \in Nat
  PROVE  Trail(t, root, path) =
           [k \in 0..Len(path) |->
              IF k = 0 THEN root ELSE In(t, Trail(t, root, path)[k - 1], path[k])]
<1> DEFINE Solves(f, m) ==
             f = [k \in 0..m |-> IF k = 0 THEN root ELSE In(t, f[k - 1], path[k])]
           S == {m \in Nat : \E f : Solves(f, m)}
<1>1. 0 \in S
  <2>1. Solves([k \in 0..0 |-> root], 0)
    OBVIOUS
  <2> QED BY <2>1
<1>2. ASSUME NEW m \in Nat, m \in S PROVE m + 1 \in S
  <2>1. PICK f : Solves(f, m)
    BY <1>2
  <2> DEFINE g == [k \in 0..(m + 1) |-> IF k = m + 1 THEN In(t, f[m], path[m + 1]) ELSE f[k]]
  <2>2. \A k \in 0..m : g[k] = f[k]
    OBVIOUS
  <2>3. \A k \in 0..(m + 1) :
          g[k] = IF k = 0 THEN root ELSE In(t, g[k - 1], path[k])
    <3> SUFFICES ASSUME NEW k \in 0..(m + 1)
                 PROVE  g[k] = IF k = 0 THEN root ELSE In(t, g[k - 1], path[k])
      OBVIOUS
    <3>1. CASE k = m + 1
      <4>1. g[k] = In(t, f[m], path[m + 1]) /\ k - 1 = m /\ k # 0
        BY <3>1
      <4> QED BY <2>2, <3>1, <4>1
    <3>2. CASE k # m + 1
      <4>1. k \in 0..m /\ (k # 0 => k - 1 \in 0..m)
        BY <3>2
      <4>2. f[k] = IF k = 0 THEN root ELSE In(t, f[k - 1], path[k])
        BY <2>1, <4>1
      <4>3. g[k] = f[k] /\ (k # 0 => g[k - 1] = f[k - 1])
        BY <2>2, <4>1
      <4> QED BY <4>2, <4>3
    <3> QED BY <3>1, <3>2
  <2>4. Solves(g, m + 1)
    <3> DEFINE h == [k \in 0..(m + 1) |-> IF k = 0 THEN root ELSE In(t, g[k - 1], path[k])]
    <3>1. DOMAIN g = 0..(m + 1) /\ \A k \in 0..(m + 1) : g[k] = h[k]
      BY <2>3
    <3>2. g = [k \in 0..(m + 1) |-> g[k]] /\ h = [k \in 0..(m + 1) |-> h[k]]
      OBVIOUS
    <3> HIDE DEF g
    <3>3. g = h
      BY <3>1, <3>2
    <3> QED BY <3>3
  <2> HIDE DEF g, Solves
  <2> QED BY <2>4
<1>3. Len(path) \in S
  <2> HIDE DEF S
  <2> QED BY <1>1, <1>2, SetInduction
<1>4. PICK h : Solves(h, Len(path))
  BY <1>3
<1>5. Trail(t, root, path) = CHOOSE f : Solves(f, Len(path))
  BY DEF Trail
<1>6. Solves(Trail(t, root, path), Len(path))
  <2> HIDE DEF Solves
  <2> QED BY <1>4, <1>5
<1> QED
  BY <1>6

\* The beginning of a path.
LEMMA Prefix ==
  ASSUME NEW p \in Seq(Name), NEW k \in 0..Len(p)
  PROVE  /\ SubSeq(p, 1, k) \in Seq(Name) /\ Len(SubSeq(p, 1, k)) = k
         /\ \A j \in 1..k : SubSeq(p, 1, k)[j] = p[j]
         /\ k = 0 => SubSeq(p, 1, k) = <<>>
         /\ k = Len(p) => SubSeq(p, 1, k) = p
<1>1. Len(p) \in Nat
  OBVIOUS
<1>2. k \in Nat /\ k <= Len(p) /\ \A j \in 1..k : p[j] \in Name
  BY <1>1, ElementOfSeq
<1>3. SubSeq(p, 1, k) = [j \in 1..k |-> p[j]]
  BY <1>1, <1>2
<1>4. SubSeq(p, 1, k) \in Seq(Name)
  BY <1>2, <1>3, IsASeq
<1>5. Len(SubSeq(p, 1, k)) = k
  BY <1>2, <1>3
<1>6. k = Len(p) => SubSeq(p, 1, k) = p
  BY <1>1, SubSeqFull
<1>7. k = 0 => SubSeq(p, 1, k) = <<>>
  BY SubSeqEmpty
<1> QED
  BY <1>3, <1>4, <1>5, <1>6, <1>7

LEMMA PrefixAppends ==
  ASSUME NEW p \in Seq(Name), NEW k \in 0..(Len(p) - 1), p[k + 1] \in Name
  PROVE  SubSeq(p, 1, k + 1) = Append(SubSeq(p, 1, k), p[k + 1])
<1>1. k \in Nat /\ k \in 0..Len(p) /\ k + 1 \in 0..Len(p)
  OBVIOUS
<1> DEFINE a == SubSeq(p, 1, k + 1)
           b == Append(SubSeq(p, 1, k), p[k + 1])
<1>2. a \in Seq(Name) /\ Len(a) = k + 1 /\ \A j \in 1..(k + 1) : a[j] = p[j]
  BY <1>1, Prefix
<1>3. SubSeq(p, 1, k) \in Seq(Name) /\ Len(SubSeq(p, 1, k)) = k
      /\ \A j \in 1..k : SubSeq(p, 1, k)[j] = p[j]
  BY <1>1, Prefix
<1>4. b \in Seq(Name) /\ Len(b) = k + 1
      /\ (\A j \in 1..k : b[j] = SubSeq(p, 1, k)[j]) /\ b[k + 1] = p[k + 1]
  BY <1>3, AppendProperties
<1> HIDE DEF a, b
<1>5. \A j \in 1..(k + 1) : a[j] = b[j]
  <2>1. \A j \in 1..(k + 1) : j \in 1..k \/ j = k + 1
    BY <1>1
  <2> QED BY <1>2, <1>3, <1>4, <2>1
<1>6. a = b
  BY <1>2, <1>4, <1>5, SeqEqual
<1> QED
  BY <1>6 DEF a, b

LEMMA TrailOfPrefix ==
  ASSUME NEW t, NEW root, NEW p \in Seq(Name), NEW k \in 0..Len(p), NEW j \in 0..k
  PROVE  Trail(t, root, SubSeq(p, 1, k))[j] = Trail(t, root, p)[j]
<1> DEFINE q == SubSeq(p, 1, k)
           S == {i \in Nat : i <= k => Trail(t, root, q)[i] = Trail(t, root, p)[i]}
<1>1. Len(p) \in Nat /\ Len(q) = k /\ k \in Nat /\ \A i \in 1..k : q[i] = p[i]
  BY Prefix
<1>2. \A i \in 0..Len(p) : Trail(t, root, p)[i] =
        IF i = 0 THEN root ELSE In(t, Trail(t, root, p)[i - 1], p[i])
  <2> DEFINE f == Trail(t, root, p)
  <2>1. f = [i \in 0..Len(p) |-> IF i = 0 THEN root ELSE In(t, f[i - 1], p[i])]
    BY <1>1, TrailExists
  <2> HIDE DEF f
  <2>2. \A i \in 0..Len(p) : f[i] = IF i = 0 THEN root ELSE In(t, f[i - 1], p[i])
    BY <2>1
  <2> QED BY <2>2 DEF f
<1>3. \A i \in 0..k : Trail(t, root, q)[i] =
        IF i = 0 THEN root ELSE In(t, Trail(t, root, q)[i - 1], q[i])
  <2> DEFINE f == Trail(t, root, q)
  <2> HIDE DEF q
  <2>1. f = [i \in 0..Len(q) |-> IF i = 0 THEN root ELSE In(t, f[i - 1], q[i])]
    BY <1>1, TrailExists
  <2> HIDE DEF f
  <2>2. \A i \in 0..Len(q) : f[i] = IF i = 0 THEN root ELSE In(t, f[i - 1], q[i])
    BY <2>1
  <2> QED BY <1>1, <2>2 DEF f
<1> HIDE DEF q
<1>4. 0 \in S
  BY <1>1, <1>2, <1>3
<1>5. ASSUME NEW i \in Nat, i \in S PROVE i + 1 \in S
  <2> SUFFICES ASSUME i + 1 <= k
               PROVE  Trail(t, root, q)[i + 1] = Trail(t, root, p)[i + 1]
    OBVIOUS
  <2>1. i + 1 \in 1..k /\ i + 1 \in 0..k /\ i + 1 \in 0..Len(p) /\ (i + 1) - 1 = i /\ i + 1 # 0
    BY <1>1
  <2>2. Trail(t, root, q)[i] = Trail(t, root, p)[i]
    BY <1>1, <1>5
  <2>3. q[i + 1] = p[i + 1]
    BY <1>1, <2>1
  <2> QED BY <1>2, <1>3, <2>1, <2>2, <2>3
<1>6. j \in S
  <2> HIDE DEF S
  <2>1. Nat \subseteq S
    BY <1>4, <1>5, SetInduction
  <2> QED BY <2>1
<1> QED
  BY <1>6 DEF q

\* One step of a way: what is at the longer path is found in what is at the shorter.
LEMMA OneStepFurther ==
  ASSUME NEW t, NEW root, NEW p \in Seq(Name), NEW k \in 0..(Len(p) - 1)
  PROVE  Reached(t, root, SubSeq(p, 1, k + 1)) =
           In(t, Reached(t, root, SubSeq(p, 1, k)), p[k + 1])
<1>1. /\ Len(p) \in Nat /\ k + 1 \in 0..Len(p) /\ k \in 0..Len(p) /\ k \in 0..k
      /\ k + 1 \in 0..(k + 1) /\ k + 1 # 0 /\ (k + 1) - 1 = k
  OBVIOUS
<1>2. Len(SubSeq(p, 1, k + 1)) = k + 1 /\ Len(SubSeq(p, 1, k)) = k
  BY <1>1, Prefix
<1>3. /\ Trail(t, root, SubSeq(p, 1, k + 1))[k + 1] = Trail(t, root, p)[k + 1]
      /\ Trail(t, root, SubSeq(p, 1, k))[k] = Trail(t, root, p)[k]
  BY <1>1, TrailOfPrefix
<1>4. Trail(t, root, p)[k + 1] = In(t, Trail(t, root, p)[k], p[k + 1])
  <2> DEFINE f == Trail(t, root, p)
  <2>1. f = [i \in 0..Len(p) |-> IF i = 0 THEN root ELSE In(t, f[i - 1], p[i])]
    BY <1>1, TrailExists
  <2> HIDE DEF f
  <2>2. f[k + 1] = In(t, f[k], p[k + 1])
    BY <1>1, <2>1
  <2> QED BY <2>2 DEF f
<1> QED
  BY <1>2, <1>3, <1>4 DEF Reached

LEMMA TrailBegins ==
  ASSUME NEW t, NEW root, NEW path, Len(path) \in Nat
  PROVE  Trail(t, root, path)[0] = root
<1> DEFINE f == Trail(t, root, path)
<1>1. f = [i \in 0..Len(path) |-> IF i = 0 THEN root ELSE In(t, f[i - 1], path[i])]
  BY TrailExists
<1> HIDE DEF f
<1>2. f[0] = root
  BY <1>1
<1> QED
  BY <1>2 DEF f

LEMMA AtTheRoot ==
  ASSUME NEW t, NEW root, NEW path, Len(path) = 0
  PROVE  Reached(t, root, path) = root
BY TrailBegins DEF Reached

LEMMA PathsAreSeqs ==
  ASSUME NEW p \in Paths
  PROVE  p \in Seq(Name) /\ Len(p) \in Nat \ {0}
<1>1. PICK n \in 1..MaxDepth : p \in [1..n -> Name]
  BY DEF Paths
<1>2. n \in Nat \ {0}
  BY <1>1, TreeAssumption
<1> QED
  BY <1>1, <1>2

\* The regular files of the tree t below a root.
FilesIn(t, root) ==
  {p \in Paths : /\ Reached(t, root, p) = Regular
                 /\ \A q \in Above(p) \ {p} : Reached(t, root, q) \in Dir}

LEMMA FileWay ==
  ASSUME NEW t, NEW root, NEW p \in Paths
  PROVE  p \in FilesIn(t, root) <=>
           /\ Reached(t, root, p) = Regular
           /\ \A k \in 0..(Len(p) - 1) : Reached(t, root, SubSeq(p, 1, k)) \in Dir
<1>1. p \in Seq(Name) /\ Len(p) \in Nat \ {0}
  BY PathsAreSeqs
<1>2. ASSUME NEW k \in 0..(Len(p) - 1) PROVE SubSeq(p, 1, k) # p
  <2>1. k \in 0..Len(p) /\ k # Len(p)
    BY <1>1
  <2> QED BY <1>1, <2>1, Prefix
<1>3. SubSeq(p, 1, Len(p)) = p
  BY <1>1, Prefix
<1>4. Above(p) \ {p} = {SubSeq(p, 1, k) : k \in 0..(Len(p) - 1)}
  <2>1. 0..Len(p) = (0..(Len(p) - 1)) \cup {Len(p)}
    BY <1>1
  <2> QED BY <1>2, <1>3, <2>1 DEF Above
<1> QED
  BY <1>4 DEF FilesIn

LEMMA IsAbove ==
  ASSUME NEW p \in Seq(Name), NEW k \in 0..Len(p)
  PROVE  SubSeq(p, 1, k) \in Above(p)
BY DEF Above

\* What lies on the way to a file: a directory or the file itself, found under the
\* next name in the directory before.
LEMMA SourceFileStep ==
  ASSUME NEW t, NEW root, NEW p \in FilesIn(t, root), NEW k \in 0..(Len(p) - 1)
  PROVE  LET d == Reached(t, root, SubSeq(p, 1, k))
             x == Reached(t, root, SubSeq(p, 1, k + 1))
         IN  /\ d \in Dir /\ Follow(d) = d
             /\ x = t[d][p[k + 1]]
             /\ IF k + 1 = Len(p) THEN x = Regular ELSE x \in Dir
             /\ x # Nothing
             /\ k + 1 \in 1..Len(p) /\ p[k + 1] \in Name
<1>1. p \in Paths
  BY DEF FilesIn
<1>2. p \in Seq(Name) /\ Len(p) \in Nat \ {0}
  BY <1>1, PathsAreSeqs
<1> DEFINE d == Reached(t, root, SubSeq(p, 1, k))
           x == Reached(t, root, SubSeq(p, 1, k + 1))
<1>3. d \in Dir
  BY <1>1, FileWay
<1>4. Follow(d) = d
  BY <1>3 DEF Follow
<1>5. x = t[d][p[k + 1]]
  BY <1>2, <1>3, <1>4, OneStepFurther DEF In
<1>6. k + 1 \in 1..Len(p) /\ p[k + 1] \in Name
  BY <1>2, ElementOfSeq
<1>7. IF k + 1 = Len(p) THEN x = Regular ELSE x \in Dir
  <2>1. CASE k + 1 = Len(p)
    <3>1. SubSeq(p, 1, k + 1) = p
      BY <1>2, <2>1, Prefix
    <3> QED BY <1>1, <2>1, <3>1, FileWay
  <2>2. CASE k + 1 # Len(p)
    <3>1. k + 1 \in 0..(Len(p) - 1)
      BY <1>2, <2>2
    <3>2. x \in Dir
      BY <1>1, <3>1, FileWay
    <3> QED BY <2>2, <3>2
  <2> QED BY <2>1, <2>2
<1>8. x # Nothing
  BY <1>7, TreeAssumption
<1> HIDE DEF d, x
<1>9. /\ d \in Dir /\ Follow(d) = d
      /\ x = t[d][p[k + 1]]
      /\ IF k + 1 = Len(p) THEN x = Regular ELSE x \in Dir
      /\ x # Nothing
      /\ k + 1 \in 1..Len(p) /\ p[k + 1] \in Name
  BY <1>3, <1>4, <1>5, <1>6, <1>7, <1>8
<1> QED
  BY <1>9 DEF d, x

\* A file that is in a tree before and after a change is reached by the same way, if
\* no name of the tree comes to mean something else without meaning nothing before
\* or after.
LEMMA SameWay ==
  ASSUME NEW t, NEW u, NEW root, NEW p \in FilesIn(t, root) \cap FilesIn(u, root),
         \A d \in Dir, n \in Name : t[d][n] = u[d][n] \/ t[d][n] = Nothing \/ u[d][n] = Nothing
  PROVE  \A k \in 0..Len(p) :
           Reached(u, root, SubSeq(p, 1, k)) = Reached(t, root, SubSeq(p, 1, k))
<1>1. p \in Seq(Name) /\ Len(p) \in Nat \ {0}
  BY PathsAreSeqs DEF FilesIn
<1> DEFINE S == {k \in Nat : k <= Len(p) =>
                   Reached(u, root, SubSeq(p, 1, k)) = Reached(t, root, SubSeq(p, 1, k))}
<1>2. 0 \in S
  <2>1. Len(SubSeq(p, 1, 0)) = 0
    BY <1>1, Prefix
  <2>2. Reached(u, root, SubSeq(p, 1, 0)) = root /\ Reached(t, root, SubSeq(p, 1, 0)) = root
    BY <2>1, AtTheRoot
  <2> QED BY <2>2
<1>3. ASSUME NEW k \in Nat, k \in S PROVE k + 1 \in S
  <2> SUFFICES ASSUME k + 1 <= Len(p)
               PROVE  Reached(u, root, SubSeq(p, 1, k + 1)) = Reached(t, root, SubSeq(p, 1, k + 1))
    OBVIOUS
  <2>1. k \in 0..(Len(p) - 1) /\ k <= Len(p)
    BY <1>1
  <2>2. Reached(u, root, SubSeq(p, 1, k)) = Reached(t, root, SubSeq(p, 1, k))
    BY <1>3, <2>1
  <2>3. PICK d \in Dir : d = Reached(t, root, SubSeq(p, 1, k))
    BY <2>1, SourceFileStep
  <2>4. /\ Reached(t, root, SubSeq(p, 1, k + 1)) = t[d][p[k + 1]]
        /\ Reached(t, root, SubSeq(p, 1, k + 1)) # Nothing
        /\ p[k + 1] \in Name
    BY <2>1, <2>3, SourceFileStep
  <2>5. /\ Reached(u, root, SubSeq(p, 1, k + 1)) = u[d][p[k + 1]]
        /\ Reached(u, root, SubSeq(p, 1, k + 1)) # Nothing
    BY <2>1, <2>2, <2>3, SourceFileStep
  <2> QED BY <2>4, <2>5
<1>4. Nat \subseteq S
  <2> HIDE DEF S
  <2> QED BY <1>2, <1>3, SetInduction
<1> QED
  BY <1>1, <1>4

-----------------------------------------------------------------------------
LEMMA FilesOfIs ==
  /\ \A root : FilesOf(root) = FilesIn(kids, root)
  /\ FilesOf(SourceRoot)' = FilesIn(kids', SourceRoot)
  /\ FilesOf(DestRoot)' = FilesIn(kids', DestRoot)
BY DEF FilesOf, FilesIn, At

\* The paths that the stack holds, and their files' names, are sequences of names.
LEMMA Pops ==
  ASSUME toVisit \in Seq(Seq(Name)), toVisit # <<>>
  PROVE  /\ Popped \in Seq(Seq(Name)) /\ Top \in Seq(Name)
         /\ Len(toVisit) \in Nat \ {0}
         /\ Len(Popped) = Len(toVisit) - 1
         /\ \A j \in 1..(Len(toVisit) - 1) : Popped[j] = toVisit[j]
<1> DEFINE l == Len(toVisit)
<1>1. l \in Nat \ {0} /\ l - 1 \in Nat /\ l \in 1..l
  BY EmptySeq
<1>2. \A j \in 1..l : toVisit[j] \in Seq(Name)
  BY ElementOfSeq
<1>3. Popped = [j \in 1..(l - 1) |-> toVisit[j]]
  BY <1>1 DEF Popped
<1>4. Popped \in Seq(Seq(Name))
  BY <1>1, <1>2, <1>3, IsASeq
<1>5. Len(Popped) = l - 1
  BY <1>1, <1>3
<1>6. Top \in Seq(Name)
  BY <1>1, <1>2 DEF Top
<1> QED
  BY <1>1, <1>3, <1>4, <1>5, <1>6

LEMMA WalkType ==
  ASSUME TreeTypeOK, [TreeNext]_treeVars
  PROVE  TreeTypeOK'
<1> USE TreeAssumption
<1>1. CASE UNCHANGED treeVars
  BY <1>1 DEF TreeTypeOK, treeVars, walkVars
<1>2. CASE OpenDir
  BY <1>2, Pops DEF OpenDir, TreeTypeOK
<1>3. CASE OpenDirFails
  BY <1>3, Pops DEF OpenDirFails, TreeTypeOK
<1>4. CASE EndOfDir \/ NextEntryFails
  <2>1. dirPath' \in Seq(Name)
    <3>1. CASE EndOfDir
      BY <3>1 DEF EndOfDir, TreeTypeOK
    <3>2. CASE NextEntryFails
      BY <3>2 DEF NextEntryFails, TreeTypeOK
    <3> QED BY <1>4, <3>1, <3>2
  <2>2. scanErrors' \subseteq Seq(Name)
    BY <1>4 DEF EndOfDir, NextEntryFails, TreeTypeOK
  <2> QED BY <1>4, <2>1, <2>2 DEF EndOfDir, NextEntryFails, TreeTypeOK
<1>5. CASE ScanEnds
  BY <1>5 DEF ScanEnds, TreeTypeOK, walkVars
<1>6. ASSUME NEW n \in Name, Excluded(n) \/ Stat(n) \/ StatFails(n) PROVE TreeTypeOK'
  <2>1. Entry(n) \in Seq(Name)
    BY AppendProperties DEF Entry, TreeTypeOK
  <2>2. Append(toVisit, Entry(n)) \in Seq(Seq(Name))
    BY <2>1, AppendProperties DEF TreeTypeOK
  <2>3. toVisit' \in Seq(Seq(Name))
    BY <1>6, <2>2 DEF Excluded, Stat, StatFails, TreeTypeOK
  <2>4. scanned' \subseteq Seq(Name) /\ scanErrors' \subseteq Seq(Name)
    BY <1>6, <2>1 DEF Excluded, Stat, StatFails, TreeTypeOK
  <2> QED BY <1>6, <2>3, <2>4 DEF Excluded, Stat, StatFails, Returned, TreeTypeOK
<1>7. CASE FindOrphans
  BY <1>7 DEF FindOrphans, TreeTypeOK, walkVars
<1>8. CASE DeleteEnds
  BY <1>8 DEF DeleteEnds, TreeTypeOK, walkVars
<1>9. ASSUME NEW p \in Paths, RemoveOrphan(p) \/ RemoveOrphanFails(p) PROVE TreeTypeOK'
  <2>1. Nothing \in Thing
    BY DEF Thing
  <2>2. CASE RemoveOrphan(p)
    <3>1. PICK d \in Dir : kids' = [kids EXCEPT ![d][FileName(p)] = Nothing]
      BY <2>2 DEF RemoveOrphan
    <3>2. kids' \in [Dir -> [Name -> Thing]]
      BY <2>1, <3>1 DEF TreeTypeOK
    <3> QED BY <2>2, <3>2 DEF RemoveOrphan, TreeTypeOK, walkVars
  <2>3. CASE RemoveOrphanFails(p)
    BY <2>3 DEF RemoveOrphanFails, TreeTypeOK, walkVars
  <2> QED BY <1>9, <2>2, <2>3
<1>10. ASSUME NEW gone, NEW come \in SUBSET (SourceDirs \X Name), MayChange, Changes(gone, come),
              kids' \in [Dir -> [Name -> Thing]]
       PROVE  TreeTypeOK'
  <2>1. listing' \subseteq Name /\ owed' \subseteq listing'
    BY <1>10 DEF Changes, TreeTypeOK
  <2>2. moves' \in 0..MaxMoves
    BY <1>10 DEF Changes, MayChange, TreeTypeOK
  <2> QED BY <1>10, <2>1, <2>2 DEF Changes, TreeTypeOK
<1>11. ASSUME NEW d \in SourceDirs, NEW n \in Name, CreateFile(d, n) PROVE TreeTypeOK'
  <2>1. kids' \in [Dir -> [Name -> Thing]]
    BY <1>11 DEF CreateFile, TreeTypeOK, Thing
  <2> QED BY <1>10, <1>11, <2>1 DEF CreateFile
<1>12. ASSUME NEW d \in SourceDirs, NEW n \in Name, RemoveFile(d, n) PROVE TreeTypeOK'
  <2>1. kids' \in [Dir -> [Name -> Thing]]
    BY <1>12 DEF RemoveFile, TreeTypeOK, Thing
  <2> QED BY <1>10, <1>12, <2>1 DEF RemoveFile
<1>13. ASSUME NEW d \in SourceDirs, NEW n \in Name, NEW e \in SourceDirs, NEW m \in Name,
              Rename(d, n, e, m)
       PROVE  TreeTypeOK'
  <2>1. d \in Dir /\ e \in Dir /\ kids[d][n] \in Thing /\ Nothing \in Thing
    BY DEF TreeTypeOK, Dir, Thing
  <2> DEFINE b == [kids EXCEPT ![e][m] = kids[d][n]]
  <2>2. b \in [Dir -> [Name -> Thing]]
    BY <2>1 DEF TreeTypeOK
  <2>3. kids' = [b EXCEPT ![d][n] = Nothing]
    BY <1>13 DEF Rename
  <2> HIDE DEF b
  <2>4. kids' \in [Dir -> [Name -> Thing]]
    BY <2>1, <2>2, <2>3
  <2>5. Changes({<<d, n>>}, {<<e, m>>}) /\ MayChange
    BY <1>13 DEF Rename
  <2> QED BY <1>10, <2>4, <2>5
<1> QED
  BY <1>1, <1>2, <1>3, <1>4, <1>5, <1>6, <1>7, <1>8, <1>9, <1>11, <1>12, <1>13 DEF TreeNext

\* A step that leaves the source and what is owed to it alone keeps its promise, if
\* whatever it does not settle stays pending.
LEMMA MissStep ==
  ASSUME TreeTypeOK, NothingIsMissed, phase = "scan", phase' = "scan",
         UNCHANGED <<kids, untouched, excluded>>,
         scanned \subseteq scanned', scanErrors \subseteq scanErrors',
         \A p \in untouched : p \in FilesOf(SourceRoot) /\ Pending(p) => (Settled(p) \/ Pending(p))'
  PROVE  NothingIsMissed'
<1>1. untouched' \subseteq FilesOf(SourceRoot)'
  BY FilesOfIs DEF NothingIsMissed
<1>2. ASSUME NEW p \in untouched PROVE (Settled(p) \/ Pending(p))'
  <2>1. Settled(p) => Settled(p)'
    BY DEF Settled, Reported
  <2>2. p \in FilesOf(SourceRoot)
    BY DEF NothingIsMissed
  <2> QED BY <2>1, <2>2 DEF NothingIsMissed
<1> QED
  BY <1>1, <1>2 DEF NothingIsMissed

\* Pending, by the two ways of it.
OnStack(p, k) == \E j \in DOMAIN toVisit : toVisit[j] = SubSeq(p, 1, k)
InOpen(p, k)  == /\ reading # Nothing /\ reading = At(SourceRoot, dirPath)
                 /\ dirPath = SubSeq(p, 1, k) /\ p[k + 1] \in owed

LEMMA PendingIs ==
  \A p : Pending(p) <=> \E k \in 0..(Len(p) - 1) : OnStack(p, k) \/ InOpen(p, k)
BY DEF Pending, OnStack, InOpen

LEMMA PendingIsNext ==
  ASSUME NEW p
  PROVE  Pending(p)' <=> \E k \in 0..(Len(p) - 1) : OnStack(p, k)' \/ InOpen(p, k)'
BY DEF Pending, OnStack, InOpen

\* A file is below the directory above it.
LEMMA FileBelow ==
  ASSUME NEW p \in FilesOf(SourceRoot), NEW k \in 0..(Len(p) - 1)
  PROVE  /\ p \in Seq(Name) /\ Len(p) \in Nat \ {0} /\ k \in Nat
         /\ SubSeq(p, 1, k) \in Above(p) /\ SubSeq(p, 1, k + 1) \in Above(p)
         /\ At(SourceRoot, SubSeq(p, 1, k)) \in Dir
         /\ Follow(At(SourceRoot, SubSeq(p, 1, k))) = At(SourceRoot, SubSeq(p, 1, k))
         /\ kids[At(SourceRoot, SubSeq(p, 1, k))][p[k + 1]] # Nothing
         /\ p[k + 1] \in Name
         /\ SubSeq(p, 1, k + 1) = Append(SubSeq(p, 1, k), p[k + 1])
         /\ IF k + 1 = Len(p) THEN SubSeq(p, 1, k + 1) = p /\ At(SourceRoot, p) = Regular
            ELSE At(SourceRoot, SubSeq(p, 1, k + 1)) \in Dir /\ k + 1 \in 0..(Len(p) - 1)
<1>1. p \in FilesIn(kids, SourceRoot) /\ p \in Paths
  BY FilesOfIs DEF FilesOf
<1>2. p \in Seq(Name) /\ Len(p) \in Nat \ {0}
  BY <1>1, PathsAreSeqs
<1>3. k \in Nat /\ k \in 0..Len(p) /\ k + 1 \in 0..Len(p)
  BY <1>2
<1>4. SubSeq(p, 1, k) \in Above(p) /\ SubSeq(p, 1, k + 1) \in Above(p)
  BY <1>2, <1>3, IsAbove
<1>5. /\ At(SourceRoot, SubSeq(p, 1, k)) \in Dir
      /\ Follow(At(SourceRoot, SubSeq(p, 1, k))) = At(SourceRoot, SubSeq(p, 1, k))
      /\ kids[At(SourceRoot, SubSeq(p, 1, k))][p[k + 1]] # Nothing
      /\ p[k + 1] \in Name
      /\ IF k + 1 = Len(p) THEN At(SourceRoot, SubSeq(p, 1, k + 1)) = Regular
                           ELSE At(SourceRoot, SubSeq(p, 1, k + 1)) \in Dir
  BY <1>1, SourceFileStep DEF At
<1>6. SubSeq(p, 1, k + 1) = Append(SubSeq(p, 1, k), p[k + 1])
  BY <1>2, <1>5, PrefixAppends
<1>7. k + 1 = Len(p) => SubSeq(p, 1, k + 1) = p
  BY <1>2, <1>3, Prefix
<1>8. k + 1 # Len(p) => k + 1 \in 0..(Len(p) - 1)
  BY <1>2, <1>3
<1> QED
  BY <1>2, <1>3, <1>4, <1>5, <1>6, <1>7, <1>8

LEMMA OpenDirMisses ==
  ASSUME TreeTypeOK, NothingIsMissed, OpenDir
  PROVE  NothingIsMissed'
<1>1. /\ toVisit \in Seq(Seq(Name)) /\ toVisit # <<>>
      /\ Len(Popped) = Len(toVisit) - 1 /\ Len(toVisit) \in Nat \ {0}
      /\ \A j \in 1..(Len(toVisit) - 1) : Popped[j] = toVisit[j]
      /\ Popped \in Seq(Seq(Name)) /\ DOMAIN toVisit = 1..Len(toVisit)
  BY Pops, LenProperties DEF OpenDir, TreeTypeOK
<1>2. ASSUME NEW p \in untouched, p \in FilesOf(SourceRoot), Pending(p)
      PROVE  Pending(p)'
  <2>1. PICK k \in 0..(Len(p) - 1) : OnStack(p, k)
    BY <1>2, PendingIs DEF OpenDir, InOpen
  <2>2. PICK j \in 1..Len(toVisit) : toVisit[j] = SubSeq(p, 1, k)
    BY <1>1, <2>1 DEF OnStack
  <2>3. CASE j < Len(toVisit)
    <3>1. j \in 1..(Len(toVisit) - 1) /\ j \in DOMAIN Popped
      BY <1>1, <2>3
    <3>2. Popped[j] = SubSeq(p, 1, k)
      BY <1>1, <2>2, <3>1
    <3>3. OnStack(p, k)'
      BY <3>1, <3>2 DEF OnStack, OpenDir
    <3> QED BY <3>3, PendingIsNext
  <2>4. CASE j = Len(toVisit)
    <3>1. dirPath' = SubSeq(p, 1, k)
      BY <2>2, <2>4 DEF OpenDir, Top
    <3>2. /\ At(SourceRoot, SubSeq(p, 1, k)) \in Dir
          /\ Follow(At(SourceRoot, SubSeq(p, 1, k))) = At(SourceRoot, SubSeq(p, 1, k))
          /\ kids[At(SourceRoot, SubSeq(p, 1, k))][p[k + 1]] # Nothing
          /\ p[k + 1] \in Name
      BY <1>2, FileBelow
    <3>3. reading' = At(SourceRoot, SubSeq(p, 1, k))
      BY <3>1, <3>2 DEF OpenDir
    <3>4. reading' # Nothing
      BY <3>2, <3>3, TreeAssumption
    <3>5. p[k + 1] \in owed'
      BY <3>2, <3>3 DEF OpenDir
    <3>6. reading' = At(SourceRoot, dirPath)'
      BY <3>1, <3>3 DEF At, OpenDir
    <3>7. InOpen(p, k)'
      BY <3>1, <3>4, <3>5, <3>6 DEF InOpen
    <3> QED BY <3>7, PendingIsNext
  <2> QED BY <1>1, <2>3, <2>4
<1> QED
  BY <1>2, MissStep DEF OpenDir

LEMMA OpenDirFailsMisses ==
  ASSUME TreeTypeOK, NothingIsMissed, OpenDirFails
  PROVE  NothingIsMissed'
<1>1. /\ toVisit \in Seq(Seq(Name)) /\ toVisit # <<>>
      /\ Len(Popped) = Len(toVisit) - 1 /\ Len(toVisit) \in Nat \ {0}
      /\ \A j \in 1..(Len(toVisit) - 1) : Popped[j] = toVisit[j]
      /\ Popped \in Seq(Seq(Name)) /\ DOMAIN toVisit = 1..Len(toVisit)
  BY Pops, LenProperties DEF OpenDirFails, TreeTypeOK
<1>2. ASSUME NEW p \in untouched, p \in FilesOf(SourceRoot), Pending(p)
      PROVE  (Settled(p) \/ Pending(p))'
  <2>1. PICK k \in 0..(Len(p) - 1) : OnStack(p, k)
    BY <1>2, PendingIs DEF OpenDirFails, InOpen
  <2>2. PICK j \in 1..Len(toVisit) : toVisit[j] = SubSeq(p, 1, k)
    BY <1>1, <2>1 DEF OnStack
  <2>3. CASE j < Len(toVisit)
    <3>1. j \in 1..(Len(toVisit) - 1) /\ j \in DOMAIN Popped
      BY <1>1, <2>3
    <3>2. Popped[j] = SubSeq(p, 1, k)
      BY <1>1, <2>2, <3>1
    <3>3. OnStack(p, k)'
      BY <3>1, <3>2 DEF OnStack, OpenDirFails
    <3> QED BY <3>3, PendingIsNext
  <2>4. CASE j = Len(toVisit)
    <3>1. SubSeq(p, 1, k) \in scanErrors' /\ SubSeq(p, 1, k) \in Above(p)
      BY <1>2, <2>2, <2>4, FileBelow DEF OpenDirFails, Top
    <3> QED BY <3>1 DEF Settled, Reported, Above
  <2> QED BY <1>1, <2>3, <2>4
<1> QED
  BY <1>2, MissStep DEF OpenDirFails

LEMMA EndOfDirMisses ==
  ASSUME TreeTypeOK, NothingIsMissed, EndOfDir \/ NextEntryFails, phase = "scan"
  PROVE  NothingIsMissed'
<1>1. ASSUME NEW p \in untouched, p \in FilesOf(SourceRoot), Pending(p)
      PROVE  (Settled(p) \/ Pending(p))'
  <2>1. PICK k \in 0..(Len(p) - 1) : OnStack(p, k) \/ InOpen(p, k)
    BY <1>1, PendingIs
  <2>2. CASE OnStack(p, k)
    <3>1. OnStack(p, k)'
      BY <2>2 DEF OnStack, EndOfDir, NextEntryFails
    <3> QED BY <3>1, PendingIsNext
  <2>3. CASE InOpen(p, k)
    <3>1. SubSeq(p, 1, k) \in scanErrors'
      BY <2>3 DEF InOpen, EndOfDir, NextEntryFails
    <3>2. SubSeq(p, 1, k) \in Above(p)
      BY <1>1, FileBelow
    <3> QED BY <3>1, <3>2 DEF Settled, Reported, Above
  <2> QED BY <2>1, <2>2, <2>3
<1>2. /\ untouched' = untouched /\ excluded' = excluded /\ kids' = kids /\ phase' = phase
      /\ scanned' = scanned /\ scanErrors \subseteq scanErrors'
  BY DEF EndOfDir, NextEntryFails
<1> QED
  BY <1>1, <1>2, MissStep

LEMMA NameMisses ==
  ASSUME TreeTypeOK, NothingIsMissed, phase = "scan", NEW n \in Name,
         Excluded(n) \/ Stat(n) \/ StatFails(n)
  PROVE  NothingIsMissed'
<1>1. ASSUME NEW p \in untouched, p \in FilesOf(SourceRoot), Pending(p)
      PROVE  (Settled(p) \/ Pending(p))'
  <2>1. PICK k \in 0..(Len(p) - 1) : OnStack(p, k) \/ InOpen(p, k)
    BY <1>1, PendingIs
  <2>2. ASSUME NEW i \in 0..(Len(p) - 1), OnStack(p, i) PROVE Pending(p)'
    <3>1. CASE toVisit' = toVisit
      <4>1. OnStack(p, i)'
        BY <2>2, <3>1 DEF OnStack
      <4> QED BY <4>1, PendingIsNext
    <3>2. CASE toVisit' # toVisit
      <4>1. /\ toVisit' = Append(toVisit, Entry(n)) /\ toVisit \in Seq(Seq(Name))
            /\ DOMAIN toVisit = 1..Len(toVisit)
        BY <1>1, <3>2, LenProperties DEF Excluded, Stat, StatFails, TreeTypeOK
      <4>2. Entry(n) \in Seq(Name)
        BY AppendProperties DEF Entry, TreeTypeOK
      <4>3. PICK j \in 1..Len(toVisit) : toVisit[j] = SubSeq(p, 1, i)
        BY <2>2, <4>1 DEF OnStack
      <4>4. toVisit'[j] = toVisit[j] /\ j \in DOMAIN toVisit'
        BY <4>1, <4>2, <4>3, AppendProperties
      <4>5. OnStack(p, i)'
        BY <4>3, <4>4 DEF OnStack
      <4> QED BY <4>5, PendingIsNext
    <3> QED BY <3>1, <3>2
  <2>3. CASE InOpen(p, k) /\ p[k + 1] # n
    <3>1. InOpen(p, k)'
      BY <2>3 DEF InOpen, Excluded, Stat, StatFails, Returned, At
    <3> QED BY <3>1, PendingIsNext
  <2>4. CASE InOpen(p, k) /\ p[k + 1] = n
    <3>1. Entry(n) = SubSeq(p, 1, k + 1) /\ Entry(n) \in Above(p)
      BY <1>1, <2>4, FileBelow DEF InOpen, Entry
    <3>2. CASE Excluded(n)
      BY <3>1, <3>2 DEF Excluded, Returned, Settled, Above
    <3>3. CASE StatFails(n)
      BY <3>1, <3>3 DEF StatFails, Returned, Settled, Reported, Above
    <3>4. CASE Stat(n) /\ k + 1 = Len(p)
      <4>1. Entry(n) = p /\ At(SourceRoot, Entry(n)) = Regular
        BY <1>1, <3>1, <3>4, FileBelow
      <4>2. p \in scanned'
        BY <3>4, <4>1 DEF Stat
      <4> QED BY <4>2 DEF Settled
    <3>5. CASE Stat(n) /\ k + 1 # Len(p)
      <4>1. At(SourceRoot, Entry(n)) \in Dir /\ k + 1 \in 0..(Len(p) - 1)
        BY <1>1, <3>1, <3>5, FileBelow
      <4>2. toVisit' = Append(toVisit, Entry(n))
        BY <3>5, <4>1 DEF Stat
      <4>3. Entry(n) \in Seq(Name) /\ toVisit \in Seq(Seq(Name)) /\ Len(toVisit) \in Nat
        BY AppendProperties DEF Entry, TreeTypeOK
      <4>4. toVisit'[Len(toVisit) + 1] = Entry(n) /\ Len(toVisit) + 1 \in DOMAIN toVisit'
        BY <4>2, <4>3, AppendProperties
      <4>5. OnStack(p, k + 1)'
        BY <3>1, <4>4 DEF OnStack
      <4> QED BY <4>1, <4>5, PendingIsNext
    <3> QED BY <3>2, <3>3, <3>4, <3>5
  <2> QED BY <2>1, <2>2, <2>3, <2>4
<1> QED
  BY <1>1, MissStep DEF Excluded, Stat, StatFails, Returned

\* The source changes: names come, and names go, but none is given a new meaning in
\* one step.
LEMMA ChangeMisses ==
  ASSUME TreeTypeOK, NothingIsMissed, MayChange, NEW gone, NEW come, Changes(gone, come),
         \A x \in Dir, n \in Name :
           kids[x][n] = kids'[x][n] \/ kids[x][n] = Nothing \/ kids'[x][n] = Nothing,
         \A g \in gone : g[1] \in Dir => kids'[g[1]][g[2]] = Nothing
  PROVE  NothingIsMissed'
<1>1. phase = "scan" /\ untouched \subseteq FilesOf(SourceRoot)
  BY DEF MayChange, NothingIsMissed
<1>2. untouched' \subseteq FilesOf(SourceRoot)' /\ untouched' \subseteq untouched
  BY DEF Changes
<1>3. ASSUME NEW p \in untouched' PROVE (Settled(p) \/ Pending(p))'
  <2>1. p \in FilesIn(kids, SourceRoot) /\ p \in FilesIn(kids', SourceRoot)
    BY <1>1, <1>2, FilesOfIs
  <2>2. \A k \in 0..Len(p) : Reached(kids', SourceRoot, SubSeq(p, 1, k))
                               = Reached(kids, SourceRoot, SubSeq(p, 1, k))
    <3> DEFINE u == kids'
    <3>1. p \in FilesIn(kids, SourceRoot) \cap FilesIn(u, SourceRoot)
      BY <2>1
    <3>2. \A d \in Dir, n \in Name :
            kids[d][n] = u[d][n] \/ kids[d][n] = Nothing \/ u[d][n] = Nothing
      OBVIOUS
    <3> HIDE DEF u
    <3>3. \A k \in 0..Len(p) : Reached(u, SourceRoot, SubSeq(p, 1, k))
                               = Reached(kids, SourceRoot, SubSeq(p, 1, k))
      BY <3>1, <3>2, SameWay
    <3> QED BY <3>3 DEF u
  <2>3. Settled(p) => Settled(p)'
    BY DEF Settled, Reported, Changes
  <2>4. ASSUME NEW k \in 0..(Len(p) - 1), OnStack(p, k) PROVE Pending(p)'
    <3>1. OnStack(p, k)'
      BY <2>4 DEF OnStack, Changes
    <3> QED BY <3>1, PendingIsNext
  <2>5. ASSUME NEW k \in 0..(Len(p) - 1), InOpen(p, k) PROVE Pending(p)'
    <3>1. k \in 0..Len(p)
      BY <2>1, PathsAreSeqs DEF FilesIn
    <3>2. reading = Reached(kids, SourceRoot, SubSeq(p, 1, k))
      BY <2>5 DEF InOpen, At
    <3>3. reading = Reached(kids', SourceRoot, SubSeq(p, 1, k))
      BY <2>2, <3>1, <3>2
    <3>4. reading \in Dir /\ kids'[reading][p[k + 1]] # Nothing
      <4> DEFINE u == kids'
      <4>1. p \in FilesIn(u, SourceRoot)
        BY <2>1
      <4>2. reading = Reached(u, SourceRoot, SubSeq(p, 1, k))
        BY <3>3
      <4> HIDE DEF u
      <4>3. reading \in Dir /\ u[reading][p[k + 1]] # Nothing
        BY <4>1, <4>2, SourceFileStep
      <4> QED BY <4>3 DEF u
    <3>5. p[k + 1] \in owed'
      BY <2>5, <3>4 DEF InOpen, Changes
    <3>6. reading' = At(SourceRoot, dirPath)' /\ dirPath' = SubSeq(p, 1, k) /\ reading' # Nothing
      BY <2>5, <3>3 DEF InOpen, At, Changes
    <3>7. InOpen(p, k)'
      BY <3>5, <3>6 DEF InOpen
    <3> QED BY <3>7, PendingIsNext
  <2>6. Settled(p) \/ \E k \in 0..(Len(p) - 1) : OnStack(p, k) \/ InOpen(p, k)
    BY <1>1, <1>2, PendingIs DEF NothingIsMissed
  <2> QED BY <2>3, <2>4, <2>5, <2>6
<1> QED
  BY <1>2, <1>3 DEF NothingIsMissed

\* What a change of the source does to the names.
LEMMA SourceEdges ==
  ASSUME TreeTypeOK, NEW d \in SourceDirs, NEW n \in Name, NEW e \in SourceDirs, NEW m \in Name,
         CreateFile(d, n) \/ RemoveFile(d, n) \/ Rename(d, n, e, m)
  PROVE  /\ MayChange
         /\ \E gone, come : Changes(gone, come) /\ \A g \in gone : g = <<d, n>> /\ kids'[d][n] = Nothing
         /\ \A x \in Dir, y \in Name :
              kids[x][y] = kids'[x][y] \/ kids[x][y] = Nothing \/ kids'[x][y] = Nothing
         /\ \A x \in Dir \ SourceDirs : kids'[x] = kids[x]
<1>1. d \in Dir /\ e \in Dir /\ kids \in [Dir -> [Name -> Thing]]
  BY DEF TreeTypeOK, Dir
<1>2. CASE CreateFile(d, n)
  <2>1. kids[d][n] = Nothing /\ kids' = [kids EXCEPT ![d][n] = Regular] /\ Changes({}, {<<d, n>>})
    BY <1>2 DEF CreateFile
  <2> QED BY <1>1, <1>2, <2>1 DEF CreateFile
<1>3. CASE RemoveFile(d, n)
  <2>1. kids' = [kids EXCEPT ![d][n] = Nothing] /\ Changes({<<d, n>>}, {})
    BY <1>3 DEF RemoveFile
  <2> QED BY <1>1, <1>3, <2>1 DEF RemoveFile
<1>4. CASE Rename(d, n, e, m)
  <2>1. /\ kids' = [kids EXCEPT ![e][m] = kids[d][n], ![d][n] = Nothing]
        /\ Changes({<<d, n>>}, {<<e, m>>}) /\ kids[e][m] = Nothing /\ kids[d][n] # Nothing
    BY <1>4 DEF Rename
  <2>2. \A x \in Dir, y \in Name :
          kids'[x][y] = IF x = d /\ y = n THEN Nothing
                        ELSE IF x = e /\ y = m THEN kids[d][n] ELSE kids[x][y]
    <3> DEFINE b == [kids EXCEPT ![e][m] = kids[d][n]]
    <3>1. \A x \in Dir, y \in Name : b[x][y] = IF x = e /\ y = m THEN kids[d][n] ELSE kids[x][y]
      BY <1>1
    <3>2. DOMAIN b = Dir /\ \A x \in Dir : DOMAIN b[x] = Name
      BY <1>1
    <3>3. kids' = [b EXCEPT ![d][n] = Nothing]
      BY <2>1
    <3> HIDE DEF b
    <3> QED BY <1>1, <3>1, <3>2, <3>3
  <2>3. \A x \in Dir \ SourceDirs : kids'[x] = kids[x]
    BY <1>1, <2>1
  <2>4. kids'[d][n] = Nothing
    BY <1>1, <2>2
  <2>5. ASSUME NEW x \in Dir, NEW y \in Name
        PROVE  kids[x][y] = kids'[x][y] \/ kids[x][y] = Nothing \/ kids'[x][y] = Nothing
    <3>1. kids[e][m] = Nothing
      BY <2>1
    <3>2. kids'[x][y] = IF x = d /\ y = n THEN Nothing
                        ELSE IF x = e /\ y = m THEN kids[d][n] ELSE kids[x][y]
      BY <2>2
    <3> QED BY <3>1, <3>2, Zenon
  <2>6. \E gone, come : Changes(gone, come) /\ \A g \in gone : g = <<d, n>> /\ kids'[d][n] = Nothing
    <3> DEFINE gone == {<<d, n>>}
               come == {<<e, m>>}
    <3>1. Changes(gone, come) /\ \A g \in gone : g = <<d, n>> /\ kids'[d][n] = Nothing
      BY <2>1, <2>4
    <3> HIDE DEF gone, come
    <3> QED BY <3>1
  <2>7. MayChange
    BY <1>4 DEF Rename
  <2> QED BY <2>3, <2>5, <2>6, <2>7
<1> QED
  BY <1>2, <1>3, <1>4

LEMMA MissedNext ==
  ASSUME WalkInv, [TreeNext]_treeVars
  PROVE  NothingIsMissed' /\ StableFilesAreFound'
<1>1. TreeTypeOK /\ NothingIsMissed /\ StableFilesAreFound
      /\ (phase # "scan" => reading = Nothing)
  BY DEF WalkInv, DoomedAreOrphans
<1>2. ASSUME phase' = phase, phase # "scan", UNCHANGED <<untouched, excluded>>,
             scanned \subseteq scanned', scanErrors \subseteq scanErrors'
      PROVE  NothingIsMissed' /\ StableFilesAreFound'
  BY <1>1, <1>2 DEF NothingIsMissed, StableFilesAreFound, Settled, Reported
<1>3. CASE UNCHANGED treeVars
  <2>1. \A p : Pending(p) => Pending(p)'
    BY <1>3, PendingIs, PendingIsNext DEF OnStack, InOpen, At, treeVars, walkVars
  <2>2. CASE phase = "scan"
    <3>1. NothingIsMissed'
      BY <1>1, <1>3, <2>1, <2>2, MissStep DEF treeVars, walkVars
    <3> QED BY <1>3, <2>2, <3>1 DEF StableFilesAreFound, treeVars
  <2> QED BY <1>2, <1>3, <2>2 DEF treeVars, walkVars
<1>4. CASE OpenDir
  BY <1>1, <1>4, OpenDirMisses DEF OpenDir, StableFilesAreFound
<1>5. CASE OpenDirFails
  BY <1>1, <1>5, OpenDirFailsMisses DEF OpenDirFails, StableFilesAreFound
<1>6. CASE EndOfDir \/ NextEntryFails
  <2>1. phase = "scan" /\ phase' = "scan"
    BY <1>1, <1>6 DEF EndOfDir, NextEntryFails
  <2> QED BY <1>1, <1>6, <2>1, EndOfDirMisses DEF StableFilesAreFound
<1>7. CASE ScanEnds
  <2>1. phase = "scan" /\ phase' # "scan"
    BY <1>7 DEF ScanEnds
  <2>2. ASSUME NEW p \in untouched PROVE Settled(p)
    <3>1. ~Pending(p)
      BY <1>7, EmptySeq DEF Pending, ScanEnds
    <3> QED BY <1>1, <2>1, <3>1 DEF NothingIsMissed
  <2>3. \A p \in untouched' : Settled(p)'
    BY <1>7, <2>2 DEF ScanEnds, Settled, Reported, walkVars
  <2> QED BY <2>1, <2>3 DEF NothingIsMissed, StableFilesAreFound
<1>8. ASSUME NEW n \in Name, Excluded(n) \/ Stat(n) \/ StatFails(n)
      PROVE  NothingIsMissed' /\ StableFilesAreFound'
  <2>1. phase = "scan" /\ phase' = "scan"
    BY <1>1, <1>8 DEF Excluded, Stat, StatFails, Returned
  <2> QED BY <1>1, <1>8, <2>1, NameMisses DEF StableFilesAreFound
<1>9. CASE FindOrphans
  BY <1>1, <1>9 DEF FindOrphans, NothingIsMissed, StableFilesAreFound, Settled, Reported, walkVars
<1>10. CASE DeleteEnds
  BY <1>1, <1>10 DEF DeleteEnds, NothingIsMissed, StableFilesAreFound, Settled, Reported, walkVars
<1>11. ASSUME NEW p \in Paths, RemoveOrphan(p) \/ RemoveOrphanFails(p)
       PROVE  NothingIsMissed' /\ StableFilesAreFound'
  BY <1>2, <1>11 DEF RemoveOrphan, RemoveOrphanFails, walkVars
<1>12. ASSUME NEW d \in SourceDirs, NEW n \in Name, NEW e \in SourceDirs, NEW m \in Name,
              CreateFile(d, n) \/ RemoveFile(d, n) \/ Rename(d, n, e, m)
       PROVE  NothingIsMissed' /\ StableFilesAreFound'
  <2>1. MayChange
    BY <1>1, <1>12, SourceEdges
  <2>2. PICK gone, come : Changes(gone, come) /\ \A g \in gone : g = <<d, n>> /\ kids'[d][n] = Nothing
    BY <1>1, <1>12, SourceEdges
  <2>3. \A x \in Dir, y \in Name :
          kids[x][y] = kids'[x][y] \/ kids[x][y] = Nothing \/ kids'[x][y] = Nothing
    BY <1>1, <1>12, SourceEdges
  <2>4. \A g \in gone : g[1] \in Dir => kids'[g[1]][g[2]] = Nothing
    BY <2>2
  <2>5. NothingIsMissed'
    BY <1>1, <2>1, <2>2, <2>3, <2>4, ChangeMisses
  <2>6. phase' = "scan"
    BY <2>1, <2>2 DEF MayChange, Changes
  <2> QED BY <2>5, <2>6 DEF StableFilesAreFound
<1>13. ASSUME NEW d \in SourceDirs, NEW n \in Name, CreateFile(d, n) \/ RemoveFile(d, n)
       PROVE  NothingIsMissed' /\ StableFilesAreFound'
  BY <1>12, <1>13
<1> QED
  BY <1>3, <1>4, <1>5, <1>6, <1>7, <1>8, <1>9, <1>10, <1>11, <1>12, <1>13 DEF TreeNext

-----------------------------------------------------------------------------
LEMMA DestDirsApart ==
  /\ \A d \in DestDirs : d \in Dir /\ d \notin SourceDirs
  /\ \A d \in SourceDirs \cup OtherDirs : d \in Dir /\ d \notin DestDirs
BY TreeAssumption DEF Dir

LEMMA DestTreeNext ==
  ASSUME TreeTypeOK, DestIsTree, [TreeNext]_treeVars
  PROVE  DestIsTree'
<1> USE DestDirsApart, TreeAssumption
<1>1. ASSUME \A d \in DestDirs, n \in Name : kids'[d][n] = kids[d][n] \/ kids'[d][n] = Nothing
      PROVE  DestIsTree'
  BY <1>1 DEF DestIsTree
<1>2. CASE kids' = kids
  BY <1>1, <1>2
<1>3. ASSUME NEW d \in SourceDirs, NEW n \in Name, NEW e \in SourceDirs, NEW m \in Name,
              CreateFile(d, n) \/ RemoveFile(d, n) \/ Rename(d, n, e, m)
      PROVE  DestIsTree'
  <2>1. \A x \in Dir \ SourceDirs : kids'[x] = kids[x]
    BY <1>3, SourceEdges
  <2> QED BY <1>1, <2>1
<1>4. ASSUME NEW p \in Paths, RemoveOrphan(p) PROVE DestIsTree'
  <2>1. PICK d \in Dir : kids' = [kids EXCEPT ![d][FileName(p)] = Nothing]
    BY <1>4 DEF RemoveOrphan
  <2> QED BY <1>1, <2>1 DEF TreeTypeOK
<1>5. ASSUME NEW d \in SourceDirs, NEW n \in Name, CreateFile(d, n) \/ RemoveFile(d, n)
      PROVE  DestIsTree'
  BY <1>3, <1>5
<1> QED
  BY <1>2, <1>3, <1>4, <1>5 DEF TreeNext, treeVars, walkVars, OpenDir, OpenDirFails, NextEntryFails,
     EndOfDir, ScanEnds, Excluded, Stat, StatFails, Returned, FindOrphans, DeleteEnds,
     RemoveOrphanFails

\* Take a name away: every path leads where it led, or nowhere.
LEMMA RemovalReaches ==
  ASSUME NEW t, NEW u, NEW root, NEW p \in Seq(Name),
         \A d \in Dir, n \in Name : u[d][n] = t[d][n] \/ u[d][n] = Nothing
  PROVE  Reached(u, root, p) \in {Reached(t, root, p), Nothing}
<1>1. Len(p) \in Nat
  OBVIOUS
<1> DEFINE S == {k \in Nat : k <= Len(p) =>
                   Reached(u, root, SubSeq(p, 1, k)) \in {Reached(t, root, SubSeq(p, 1, k)), Nothing}}
<1>2. 0 \in S
  <2>1. Len(SubSeq(p, 1, 0)) = 0
    BY <1>1, Prefix
  <2>2. Reached(u, root, SubSeq(p, 1, 0)) = root /\ Reached(t, root, SubSeq(p, 1, 0)) = root
    BY <2>1, AtTheRoot
  <2> QED BY <2>2
<1>3. ASSUME NEW k \in Nat, k \in S PROVE k + 1 \in S
  <2> SUFFICES ASSUME k + 1 <= Len(p)
               PROVE  Reached(u, root, SubSeq(p, 1, k + 1))
                        \in {Reached(t, root, SubSeq(p, 1, k + 1)), Nothing}
    OBVIOUS
  <2>1. k \in 0..(Len(p) - 1) /\ k <= Len(p) /\ p[k + 1] \in Name
    BY <1>1, ElementOfSeq
  <2>2. Reached(u, root, SubSeq(p, 1, k)) \in {Reached(t, root, SubSeq(p, 1, k)), Nothing}
    BY <1>3, <2>1
  <2>3. /\ Reached(u, root, SubSeq(p, 1, k + 1)) = In(u, Reached(u, root, SubSeq(p, 1, k)), p[k + 1])
        /\ Reached(t, root, SubSeq(p, 1, k + 1)) = In(t, Reached(t, root, SubSeq(p, 1, k)), p[k + 1])
    BY <2>1, OneStepFurther
  <2>4. In(u, Nothing, p[k + 1]) = Nothing
    BY TreeAssumption DEF In, Follow
  <2>5. \A x : In(u, x, p[k + 1]) \in {In(t, x, p[k + 1]), Nothing}
    BY <2>1 DEF In
  <2> QED BY <2>2, <2>3, <2>4, <2>5
<1>4. Nat \subseteq S
  <2> HIDE DEF S
  <2> QED BY <1>2, <1>3, SetInduction
<1>5. \A k \in 0..Len(p) :
        Reached(u, root, SubSeq(p, 1, k)) \in {Reached(t, root, SubSeq(p, 1, k)), Nothing}
  BY <1>1, <1>4
<1>6. SubSeq(p, 1, Len(p)) = p /\ Len(p) \in 0..Len(p)
  BY <1>1, Prefix
<1> HIDE DEF S
<1> QED
  BY <1>5, <1>6

LEMMA DoomedNext ==
  ASSUME WalkInv, [TreeNext]_treeVars
  PROVE  DoomedAreOrphans'
<1>1. TreeTypeOK /\ DoomedAreOrphans
  BY DEF WalkInv
<1>2. ASSUME NEW p \in doomed, \A d \in Dir, n \in Name : kids'[d][n] = kids[d][n] \/ kids'[d][n] = Nothing
      PROVE  Follow(At(DestRoot, p))' \in {Regular, Nothing}
  <2>1. p \in Seq(Name)
    BY <1>1, PathsAreSeqs DEF TreeTypeOK
  <2>2. Follow(At(DestRoot, p)) \in {Regular, Nothing}
    BY <1>1 DEF DoomedAreOrphans
  <2>3. Reached(kids', DestRoot, p) \in {Reached(kids, DestRoot, p), Nothing}
    <3> DEFINE u == kids'
    <3>1. \A d \in Dir, n \in Name : u[d][n] = kids[d][n] \/ u[d][n] = Nothing
      BY <1>2
    <3> HIDE DEF u
    <3>2. Reached(u, DestRoot, p) \in {Reached(kids, DestRoot, p), Nothing}
      BY <2>1, <3>1, RemovalReaches
    <3> QED BY <3>2 DEF u
  <2>4. Follow(Nothing) = Nothing
    BY DEF Follow
  <2> QED BY <2>2, <2>3, <2>4 DEF At
<1>3. ASSUME phase = "scan", phase' = "scan", UNCHANGED <<excluded, doomed>>
      PROVE  DoomedAreOrphans'
  BY <1>1, <1>3 DEF DoomedAreOrphans
<1>4. CASE UNCHANGED treeVars
  <2>1. \A p \in doomed' : Follow(At(DestRoot, p))' = Follow(At(DestRoot, p)) /\ p \in doomed
    BY <1>4 DEF treeVars, At
  <2> QED BY <1>1, <1>4, <2>1 DEF treeVars, walkVars, DoomedAreOrphans
<1>5. CASE OpenDir
  BY <1>3, <1>5 DEF OpenDir
<1>6. CASE OpenDirFails
  BY <1>3, <1>6 DEF OpenDirFails
<1>7. CASE EndOfDir \/ NextEntryFails
  <2>1. phase = "scan"
    BY <1>1, <1>7 DEF EndOfDir, NextEntryFails, DoomedAreOrphans
  <2> QED BY <1>3, <1>7, <2>1 DEF EndOfDir, NextEntryFails
<1>8. CASE ScanEnds
  BY <1>1, <1>8 DEF ScanEnds, DoomedAreOrphans, walkVars
<1>9. ASSUME NEW n \in Name, Excluded(n) \/ Stat(n) \/ StatFails(n) PROVE DoomedAreOrphans'
  <2>1. phase = "scan"
    BY <1>1, <1>9 DEF Excluded, Stat, StatFails, Returned, DoomedAreOrphans
  <2> QED BY <1>3, <1>9, <2>1 DEF Excluded, Stat, StatFails, Returned
<1>10. CASE FindOrphans
  <2>1. \A p \in doomed' : Follow(At(DestRoot, p)) = Regular /\ p \notin scanned
    BY <1>10 DEF FindOrphans
  <2>2. \A p \in doomed' : Follow(At(DestRoot, p))' \in {Regular, Nothing}
    BY <1>10, <2>1 DEF FindOrphans, At
  <2> QED BY <1>1, <1>10, <2>1, <2>2 DEF FindOrphans, DoomedAreOrphans, walkVars
<1>11. CASE DeleteEnds
  BY <1>1, <1>11 DEF DeleteEnds, DoomedAreOrphans, walkVars
<1>12. ASSUME NEW p \in Paths, RemoveOrphan(p) \/ RemoveOrphanFails(p) PROVE DoomedAreOrphans'
  <2>1. \A d \in Dir, n \in Name : kids'[d][n] = kids[d][n] \/ kids'[d][n] = Nothing
    <3>1. CASE RemoveOrphan(p)
      <4>1. PICK d \in Dir : kids' = [kids EXCEPT ![d][FileName(p)] = Nothing]
        BY <3>1 DEF RemoveOrphan
      <4> QED BY <1>1, <4>1 DEF TreeTypeOK
    <3> QED BY <1>12, <3>1 DEF RemoveOrphanFails
  <2>2. doomed' \subseteq doomed /\ phase = "delete" /\ UNCHANGED <<phase, excluded, scanned, reading>>
    BY <1>12 DEF RemoveOrphan, RemoveOrphanFails, walkVars
  <2>3. \A q \in doomed' : Follow(At(DestRoot, q))' \in {Regular, Nothing}
    BY <1>2, <2>1, <2>2
  <2> QED BY <1>1, <2>2, <2>3 DEF DoomedAreOrphans
<1>13. ASSUME NEW d \in SourceDirs, NEW n \in Name, NEW e \in SourceDirs, NEW m \in Name,
              CreateFile(d, n) \/ RemoveFile(d, n) \/ Rename(d, n, e, m)
       PROVE  DoomedAreOrphans'
  BY <1>3, <1>13 DEF CreateFile, RemoveFile, Rename, MayChange, Changes
<1>14. ASSUME NEW d \in SourceDirs, NEW n \in Name, CreateFile(d, n) \/ RemoveFile(d, n)
       PROVE  DoomedAreOrphans'
  BY <1>13, <1>14
<1> QED
  BY <1>4, <1>5, <1>6, <1>7, <1>8, <1>9, <1>10, <1>11, <1>12, <1>13, <1>14 DEF TreeNext

-----------------------------------------------------------------------------
\* The walks' invariant is inductive: what is owed stays pending until it is settled,
\* and no path to be removed comes to lead to a directory.  (scan.rs, delta.rs)
THEOREM WalkInductive == TreeSpec => []WalkInv
<1> USE TreeAssumption
<1>1. TreeInit => WalkInv
  <2> SUFFICES ASSUME TreeInit PROVE WalkInv
    OBVIOUS
  <2>1. FilesOf(SourceRoot) \subseteq Paths /\ <<>> \in Seq(Name) /\ << <<>> >> \in Seq(Seq(Name))
    BY EmptySeq DEF FilesOf
  <2>2. TreeTypeOK
    BY <2>1 DEF TreeInit, TreeTypeOK
  <2>3. ASSUME NEW p \in untouched PROVE Pending(p)
    <3>1. p \in Seq(Name) /\ Len(p) \in Nat \ {0}
      BY <2>1, PathsAreSeqs DEF TreeInit
    <3>2. 0 \in 0..(Len(p) - 1) /\ SubSeq(p, 1, 0) = <<>>
      BY <3>1, SubSeqEmpty
    <3>3. 1 \in DOMAIN toVisit /\ toVisit[1] = <<>>
      BY DEF TreeInit
    <3>4. OnStack(p, 0)
      BY <3>2, <3>3 DEF OnStack
    <3> QED BY <3>2, <3>4, PendingIs
  <2>4. NothingIsMissed /\ StableFilesAreFound
    BY <2>3 DEF TreeInit, NothingIsMissed, StableFilesAreFound
  <2>5. DestIsTree
    BY DEF TreeInit, DestIsTree
  <2>6. DoomedAreOrphans
    BY DEF TreeInit, DoomedAreOrphans
  <2> QED BY <2>2, <2>4, <2>5, <2>6 DEF WalkInv
<1>2. WalkInv /\ [TreeNext]_treeVars => WalkInv'
  <2> SUFFICES ASSUME WalkInv, [TreeNext]_treeVars PROVE WalkInv'
    OBVIOUS
  <2>1. TreeTypeOK /\ DestIsTree
    BY DEF WalkInv
  <2> QED BY <2>1, WalkType, MissedNext, DestTreeNext, DoomedNext DEF WalkInv
<1> QED
  BY <1>1, <1>2, PTL DEF TreeSpec

\* A file that is at its path the whole scan long is an entry, or reported, or
\* excluded, whatever other programs do to the source meanwhile.  (scan.rs:40)
THEOREM StableFilesAreFoundHolds == TreeSpec => []StableFilesAreFound
<1>1. WalkInv => StableFilesAreFound
  BY DEF WalkInv
<1> QED
  BY <1>1, WalkInductive, PTL

-----------------------------------------------------------------------------
\* A tree as the invariant has it, whose destination holds no symlink to a directory.
PlainDest(t) ==
  /\ t \in [Dir -> [Name -> Thing]]
  /\ \A d \in DestDirs, n \in Name : t[d][n] \notin [to : Dir]
  /\ \A d, e \in DestDirs, n, m \in Name :
       t[d][n] \in Dir => /\ t[d][n] \in DestDirs \ {DestRoot}
                          /\ t[e][m] = t[d][n] => e = d /\ m = n

\* Paths of the destination meet directories of the destination only.
LEMMA StaysInDest ==
  ASSUME NEW t, PlainDest(t), NEW p \in Seq(Name), NEW k \in 0..Len(p),
         Follow(Reached(t, DestRoot, SubSeq(p, 1, k))) \in Dir
  PROVE  /\ Reached(t, DestRoot, SubSeq(p, 1, k)) \in DestDirs
         /\ Follow(Reached(t, DestRoot, SubSeq(p, 1, k))) = Reached(t, DestRoot, SubSeq(p, 1, k))
<1>1. Len(p) \in Nat
  OBVIOUS
<1> DEFINE R(i) == Reached(t, DestRoot, SubSeq(p, 1, i))
           S == {i \in Nat : i <= Len(p) => (Follow(R(i)) \in Dir => R(i) \in DestDirs)}
<1>2. 0 \in S
  <2>1. Len(SubSeq(p, 1, 0)) = 0
    BY <1>1, Prefix
  <2>2. R(0) = DestRoot
    BY <2>1, AtTheRoot
  <2> HIDE DEF R
  <2> QED BY <2>2, TreeAssumption
<1>3. ASSUME NEW i \in Nat, i \in S PROVE i + 1 \in S
  <2> SUFFICES ASSUME i + 1 <= Len(p), Follow(R(i + 1)) \in Dir PROVE R(i + 1) \in DestDirs
    OBVIOUS
  <2>1. i \in 0..(Len(p) - 1) /\ i <= Len(p) /\ i + 1 \in 1..Len(p) /\ p[i + 1] \in Name
    BY <1>1, ElementOfSeq
  <2>2. R(i + 1) = In(t, R(i), p[i + 1])
    BY <2>1, OneStepFurther
  <2>3. Follow(R(i)) \in Dir => R(i) \in DestDirs
    BY <1>3, <2>1
  <2> HIDE DEF R
  <2>4. Follow(Nothing) \notin Dir
    BY TreeAssumption DEF Follow
  <2>5. R(i) \in DestDirs
    BY <2>2, <2>3, <2>4 DEF In
  <2>6. Follow(R(i)) = R(i)
    BY <2>5, DestDirsApart DEF Follow
  <2>7. R(i + 1) = t[R(i)][p[i + 1]]
    BY <2>2, <2>5, <2>6, DestDirsApart DEF In
  <2>8. R(i + 1) \in Thing /\ R(i + 1) \notin [to : Dir]
    BY <2>1, <2>5, <2>7, DestDirsApart DEF PlainDest
  <2>9. R(i + 1) \in Dir
    <3>1. CASE R(i + 1) \in {Regular, Nothing}
      BY <3>1, TreeAssumption DEF Follow
    <3>2. CASE R(i + 1) \in [to : Dir \cup {Regular}] /\ R(i + 1) \notin Dir \cup {Regular, Nothing}
      <4>1. Follow(R(i + 1)) = R(i + 1).to
        BY <3>2 DEF Follow
      <4>2. R(i + 1) = [to |-> R(i + 1).to]
        BY <3>2
      <4>3. R(i + 1) \in [to : Dir]
        BY <4>1, <4>2
      <4> QED BY <2>8, <4>3
    <3> QED BY <2>8, <3>1, <3>2 DEF Thing
  <2> QED BY <2>1, <2>5, <2>7, <2>9 DEF PlainDest
<1>4. Nat \subseteq S
  <2> HIDE DEF S
  <2> QED BY <1>2, <1>3, SetInduction
<1>5. R(k) \in DestDirs
  BY <1>1, <1>4
<1> HIDE DEF R
<1>6. Follow(R(k)) = R(k)
  BY <1>5, DestDirsApart DEF Follow
<1> QED
  BY <1>5, <1>6 DEF R

\* A path that leads to a directory of the destination: the root's is empty, and
\* another ends in the one name that its directory has.
LEMMA LastName ==
  ASSUME NEW t, PlainDest(t), NEW p \in Seq(Name), Reached(t, DestRoot, p) \in DestDirs
  PROVE  \/ p = <<>> /\ Reached(t, DestRoot, p) = DestRoot
         \/ \E a \in Seq(Name), x \in Name :
              /\ p = Append(a, x) /\ Len(p) = Len(a) + 1
              /\ Reached(t, DestRoot, a) \in DestDirs
              /\ Reached(t, DestRoot, p) = t[Reached(t, DestRoot, a)][x]
              /\ Reached(t, DestRoot, p) # DestRoot
<1>1. CASE p = <<>>
  <2>1. Len(p) = 0
    BY <1>1
  <2>2. Reached(t, DestRoot, p) = DestRoot
    BY <2>1, AtTheRoot
  <2> QED BY <1>1, <2>2
<1>2. CASE p # <<>>
  <2>1. Len(p) \in Nat \ {0}
    BY <1>2, EmptySeq
  <2> DEFINE k == Len(p) - 1
  <2>2. k \in 0..(Len(p) - 1) /\ k \in 0..Len(p) /\ k + 1 = Len(p) /\ k \in Nat /\ k + 1 \in 1..Len(p)
    BY <2>1
  <2> HIDE DEF k
  <2>3. p[k + 1] \in Name /\ SubSeq(p, 1, k + 1) = p
    <3>1. SubSeq(p, 1, Len(p)) = p
      BY <2>1, Prefix
    <3> QED BY <2>2, <3>1, ElementOfSeq
  <2>4. SubSeq(p, 1, k) \in Seq(Name) /\ Len(SubSeq(p, 1, k)) = k
    BY <2>2, Prefix
  <2>5. Reached(t, DestRoot, p) = In(t, Reached(t, DestRoot, SubSeq(p, 1, k)), p[k + 1])
    BY <2>2, <2>3, OneStepFurther
  <2>6. Follow(Reached(t, DestRoot, SubSeq(p, 1, k))) \in Dir
    BY <2>5, TreeAssumption, DestDirsApart DEF In
  <2>7. /\ Reached(t, DestRoot, SubSeq(p, 1, k)) \in DestDirs
        /\ Follow(Reached(t, DestRoot, SubSeq(p, 1, k))) = Reached(t, DestRoot, SubSeq(p, 1, k))
    BY <2>2, <2>6, StaysInDest
  <2>8. Reached(t, DestRoot, p) = t[Reached(t, DestRoot, SubSeq(p, 1, k))][p[k + 1]]
    BY <2>5, <2>6, <2>7 DEF In
  <2>9. Reached(t, DestRoot, p) # DestRoot
    BY <2>3, <2>7, <2>8, DestDirsApart DEF PlainDest
  <2>10. p = Append(SubSeq(p, 1, k), p[k + 1])
    BY <2>2, <2>3, PrefixAppends
  <2>11. Len(p) = Len(SubSeq(p, 1, k)) + 1
    BY <2>2, <2>4
  <2> QED BY <2>3, <2>4, <2>7, <2>8, <2>9, <2>10, <2>11
<1> QED
  BY <1>1, <1>2

\* A directory of the destination has one path.
LEMMA OnePath ==
  ASSUME NEW t, PlainDest(t), NEW p \in Seq(Name), NEW q \in Seq(Name),
         Reached(t, DestRoot, p) \in DestDirs,
         Reached(t, DestRoot, q) = Reached(t, DestRoot, p)
  PROVE  p = q
<1> DEFINE Same(n) == \A a, b \in Seq(Name) :
                        (/\ Len(a) = n
                         /\ Reached(t, DestRoot, a) \in DestDirs
                         /\ Reached(t, DestRoot, b) = Reached(t, DestRoot, a)) => a = b
           S == {n \in Nat : Same(n)}
<1>1. 0 \in S
  <2> SUFFICES ASSUME NEW a \in Seq(Name), NEW b \in Seq(Name), Len(a) = 0,
                      Reached(t, DestRoot, a) \in DestDirs,
                      Reached(t, DestRoot, b) = Reached(t, DestRoot, a)
               PROVE  a = b
    OBVIOUS
  <2>1. Reached(t, DestRoot, a) = DestRoot
    BY AtTheRoot
  <2>2. a = <<>>
    BY EmptySeq
  <2>3. Reached(t, DestRoot, b) \in DestDirs
    OBVIOUS
  <2>4. b = <<>>
    BY <2>1, <2>3, LastName
  <2> QED BY <2>2, <2>4
<1>2. ASSUME NEW n \in Nat, n \in S PROVE n + 1 \in S
  <2> SUFFICES ASSUME NEW a \in Seq(Name), NEW b \in Seq(Name), Len(a) = n + 1,
                      Reached(t, DestRoot, a) \in DestDirs,
                      Reached(t, DestRoot, b) = Reached(t, DestRoot, a)
               PROVE  a = b
    OBVIOUS
  <2>1. a # <<>>
    BY EmptySeq
  <2>2. PICK c \in Seq(Name), x \in Name :
          /\ a = Append(c, x) /\ Len(a) = Len(c) + 1 /\ Reached(t, DestRoot, c) \in DestDirs
          /\ Reached(t, DestRoot, a) = t[Reached(t, DestRoot, c)][x]
          /\ Reached(t, DestRoot, a) # DestRoot
    BY <2>1, LastName
  <2>3. Reached(t, DestRoot, b) \in DestDirs /\ Reached(t, DestRoot, b) # DestRoot
    BY <2>2
  <2>4. PICK e \in Seq(Name), y \in Name :
          /\ b = Append(e, y) /\ Reached(t, DestRoot, e) \in DestDirs
          /\ Reached(t, DestRoot, b) = t[Reached(t, DestRoot, e)][y]
    BY <2>3, LastName
  <2>5. Reached(t, DestRoot, e) = Reached(t, DestRoot, c) /\ y = x
    BY <2>2, <2>4, DestDirsApart DEF PlainDest
  <2>6. Len(c) = n
    BY <2>2
  <2>7. Same(n)
    BY <1>2
  <2>8. c = e
    BY <2>2, <2>5, <2>6, <2>7
  <2> QED BY <2>2, <2>4, <2>5, <2>8
<1>3. Nat \subseteq S
  <2> HIDE DEF S
  <2> QED BY <1>1, <1>2, SetInduction
<1>4. Len(p) \in Nat
  OBVIOUS
<1>5. Same(Len(p))
  BY <1>3, <1>4
<1> QED
  BY <1>5

\* The removal of a path that leads to no directory takes no other file away.
LEMMA RemovalSpares ==
  ASSUME NEW t, NEW u, PlainDest(t), NEW p \in Paths, NEW d \in Dir,
         Follow(Reached(t, DestRoot, Parent(p))) = d,
         \A x \in Dir, n \in Name :
           u[x][n] = IF x = d /\ n = FileName(p) THEN Nothing ELSE t[x][n],
         Follow(Reached(t, DestRoot, p)) \in {Regular, Nothing}
  PROVE  /\ d \in DestDirs
         /\ \A q \in FilesIn(t, DestRoot) : q # p => q \in FilesIn(u, DestRoot)
<1>1. p \in Seq(Name) /\ Len(p) \in Nat \ {0}
  BY PathsAreSeqs
<1> DEFINE l == Len(p) - 1
           f == FileName(p)
<1>2. l \in 0..(Len(p) - 1) /\ l \in 0..Len(p) /\ l + 1 = Len(p) /\ Parent(p) = SubSeq(p, 1, l)
      /\ f = p[l + 1] /\ l \in Nat
  BY <1>1 DEF Parent, FileName
<1>3. Parent(p) \in Seq(Name) /\ f \in Name
  BY <1>1, <1>2, Prefix, ElementOfSeq DEF FileName
<1>4. d \in DestDirs /\ d = Reached(t, DestRoot, Parent(p))
  BY <1>1, <1>2, StaysInDest
<1>5. p = Append(Parent(p), f)
  <2>1. SubSeq(p, 1, l + 1) = p
    BY <1>1, <1>2, Prefix
  <2> QED BY <1>1, <1>2, <1>3, <2>1, PrefixAppends
<1> HIDE DEF l, f
<1>6. \A x \in Dir, n \in Name : u[x][n] = IF x = d /\ n = f THEN Nothing ELSE t[x][n]
  BY DEF f
<1>7. ASSUME NEW q \in FilesIn(t, DestRoot), q # p PROVE q \in FilesIn(u, DestRoot)
  <2>1. q \in Paths /\ q \in Seq(Name) /\ Len(q) \in Nat \ {0}
    BY PathsAreSeqs DEF FilesIn
  <2>2. ASSUME NEW k \in 0..(Len(q) - 1),
               Reached(t, DestRoot, SubSeq(q, 1, k)) = d, q[k + 1] = f
        PROVE  FALSE
    <3>1. SubSeq(q, 1, k) \in Seq(Name) /\ k \in 0..Len(q)
      BY <2>1, Prefix
    <3>2. Reached(t, DestRoot, Parent(p)) \in DestDirs
          /\ Reached(t, DestRoot, SubSeq(q, 1, k)) = Reached(t, DestRoot, Parent(p))
      BY <1>4, <2>2
    <3>3. SubSeq(q, 1, k) = Parent(p)
      BY <1>3, <3>1, <3>2, OnePath
    <3>4. SubSeq(q, 1, k + 1) = p
      BY <1>3, <1>5, <2>1, <2>2, <3>3, PrefixAppends
    <3>5. CASE k + 1 = Len(q)
      <4>1. SubSeq(q, 1, Len(q)) = q
        BY <2>1, Prefix
      <4> QED BY <1>7, <3>4, <3>5, <4>1
    <3>6. CASE k + 1 # Len(q)
      <4>1. Reached(t, DestRoot, p) \in Dir
        BY <3>4, <3>6, SourceFileStep
      <4>2. Follow(Reached(t, DestRoot, p)) \in Dir
        BY <4>1 DEF Follow
      <4> QED BY <4>2, TreeAssumption
    <3> QED BY <3>5, <3>6
  <2> DEFINE S == {k \in Nat : k <= Len(q) =>
                     Reached(u, DestRoot, SubSeq(q, 1, k)) = Reached(t, DestRoot, SubSeq(q, 1, k))}
  <2>3. 0 \in S
    <3>1. Len(SubSeq(q, 1, 0)) = 0
      BY <2>1, Prefix
    <3>2. Reached(u, DestRoot, SubSeq(q, 1, 0)) = DestRoot /\ Reached(t, DestRoot, SubSeq(q, 1, 0)) = DestRoot
      BY <3>1, AtTheRoot
    <3> QED BY <3>2
  <2>4. ASSUME NEW k \in Nat, k \in S PROVE k + 1 \in S
    <3> SUFFICES ASSUME k + 1 <= Len(q)
                 PROVE  Reached(u, DestRoot, SubSeq(q, 1, k + 1)) = Reached(t, DestRoot, SubSeq(q, 1, k + 1))
      OBVIOUS
    <3>1. k \in 0..(Len(q) - 1) /\ k <= Len(q)
      BY <2>1
    <3>2. Reached(u, DestRoot, SubSeq(q, 1, k)) = Reached(t, DestRoot, SubSeq(q, 1, k))
      BY <2>4, <3>1
    <3>3. PICK x \in Dir : x = Reached(t, DestRoot, SubSeq(q, 1, k))
      BY <3>1, SourceFileStep
    <3>4. Follow(x) = x
      BY DEF Follow
    <3>5. Reached(t, DestRoot, SubSeq(q, 1, k + 1)) = t[x][q[k + 1]] /\ q[k + 1] \in Name
      BY <3>1, <3>3, SourceFileStep
    <3>6. Reached(u, DestRoot, SubSeq(q, 1, k + 1)) = u[x][q[k + 1]]
      <4>1. Reached(u, DestRoot, SubSeq(q, 1, k + 1))
              = In(u, Reached(u, DestRoot, SubSeq(q, 1, k)), q[k + 1])
        BY <2>1, <3>1, OneStepFurther
      <4>2. In(u, x, q[k + 1]) = u[x][q[k + 1]]
        BY <3>4 DEF In
      <4> QED BY <3>2, <3>3, <4>1, <4>2
    <3>7. ~(x = d /\ q[k + 1] = f)
      BY <2>2, <3>1, <3>3
    <3> QED BY <1>6, <3>5, <3>6, <3>7
  <2>5. Nat \subseteq S
    <3> HIDE DEF S
    <3> QED BY <2>3, <2>4, SetInduction
  <2>6. ASSUME NEW k \in 0..Len(q)
        PROVE  Reached(u, DestRoot, SubSeq(q, 1, k)) = Reached(t, DestRoot, SubSeq(q, 1, k))
    <3>1. k \in Nat /\ k <= Len(q)
      BY <2>1
    <3>2. k \in S
      BY <2>5, <3>1
    <3> QED BY <3>1, <3>2
  <2> HIDE DEF S
  <2>7. SubSeq(q, 1, Len(q)) = q /\ Len(q) \in 0..Len(q)
    BY <2>1, Prefix
  <2>8. Reached(t, DestRoot, q) = Regular
        /\ \A k \in 0..(Len(q) - 1) : Reached(t, DestRoot, SubSeq(q, 1, k)) \in Dir
    BY <2>1, FileWay
  <2>9. Reached(u, DestRoot, q) = Regular
    BY <2>6, <2>7, <2>8
  <2>10. ASSUME NEW k \in 0..(Len(q) - 1) PROVE Reached(u, DestRoot, SubSeq(q, 1, k)) \in Dir
    <3>1. k \in 0..Len(q)
      BY <2>1
    <3> QED BY <2>6, <2>8, <3>1
  <2> QED BY <2>1, <2>9, <2>10, FileWay
<1> QED
  BY <1>4, <1>7

\* Without symlinks to directories --delete removes no file that the scan has seen at
\* its path.  (delta.rs)
THEOREM DeleteSparesTheRestHolds == TreeSpec => DeleteSparesTheRest
<1> DEFINE NoLinks == \A d \in DestDirs, n \in Name : kids[d][n] \notin [to : Dir]
<1>1. ASSUME WalkInv, [TreeNext]_treeVars, NoLinks, phase = "delete" PROVE OnlyOrphansGo
  <2>1. TreeTypeOK /\ DestIsTree /\ DoomedAreOrphans /\ StableFilesAreFound
    BY <1>1 DEF WalkInv
  <2>2. ASSUME kids' = kids PROVE OnlyOrphansGo
    <3>1. FilesOf(DestRoot)' = FilesOf(DestRoot)
      BY <2>2, FilesOfIs
    <3> QED BY <2>2, <3>1 DEF OnlyOrphansGo
  <2>3. ASSUME NEW p \in Paths, RemoveOrphan(p) PROVE OnlyOrphansGo
    <3>1. PlainDest(kids)
      BY <1>1, <2>1 DEF PlainDest, TreeTypeOK, DestIsTree
    <3>2. p \in doomed /\ p \notin scanned /\ Follow(At(DestRoot, p)) \in {Regular, Nothing}
      BY <2>1, <2>3 DEF RemoveOrphan, DoomedAreOrphans
    <3>3. PICK d \in Dir : /\ Follow(At(DestRoot, Parent(p))) = d
                           /\ kids' = [kids EXCEPT ![d][FileName(p)] = Nothing]
      BY <2>3 DEF RemoveOrphan
    <3>4. d \in DestDirs /\ \A q \in FilesIn(kids, DestRoot) : q # p => q \in FilesIn(kids', DestRoot)
      <4> DEFINE u == kids'
      <4>1. \A x \in Dir, n \in Name :
              u[x][n] = IF x = d /\ n = FileName(p) THEN Nothing ELSE kids[x][n]
        BY <2>1, <3>3 DEF TreeTypeOK
      <4>2. Follow(Reached(kids, DestRoot, Parent(p))) = d
        BY <3>3 DEF At
      <4>3. Follow(Reached(kids, DestRoot, p)) \in {Regular, Nothing}
        BY <3>2 DEF At
      <4>4. d \in Dir /\ p \in Paths
        BY <2>3, <3>3
      <4> HIDE DEF u
      <4>5. d \in DestDirs /\ \A q \in FilesIn(kids, DestRoot) : q # p => q \in FilesIn(u, DestRoot)
        BY <3>1, <4>1, <4>2, <4>3, <4>4, RemovalSpares
      <4> QED BY <4>5 DEF u
    <3>5. \A x \in SourceDirs \cup OtherDirs : kids'[x] = kids[x]
      BY <2>1, <3>3, <3>4, DestDirsApart DEF TreeTypeOK
    <3>6. p \notin untouched \/ Reported(p)
      BY <1>1, <2>1, <3>2 DEF StableFilesAreFound, Settled, DoomedAreOrphans
    <3>7. \A q \in FilesOf(DestRoot) \ FilesOf(DestRoot)' : q = p
      BY <3>4, FilesOfIs
    <3> QED BY <3>5, <3>6, <3>7 DEF OnlyOrphansGo
  <2>4. \/ kids' = kids
        \/ \E p \in Paths : RemoveOrphan(p)
    BY <1>1 DEF TreeNext, treeVars, walkVars, OpenDir, OpenDirFails, NextEntryFails, EndOfDir, ScanEnds,
       Excluded, Stat, StatFails, Returned, FindOrphans, DeleteEnds, RemoveOrphanFails, CreateFile,
       RemoveFile, Rename, MayChange
  <2> QED BY <2>2, <2>3, <2>4
<1>2. WalkInv /\ [TreeNext]_treeVars => [NoLinks => OnlyOrphansGo]_treeVars
  <2>1. phase # "delete" => OnlyOrphansGo
    BY DEF OnlyOrphansGo
  <2> QED BY <1>1, <2>1
<1> QED
  BY <1>2, WalkInductive, PTL DEF TreeSpec, DeleteSparesTheRest
=================================================================================
