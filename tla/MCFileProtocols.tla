---------------------------- MODULE MCFileProtocols ----------------------------
(***************************************************************************)
(* The protocols on files that the commands rely on, each checked by       *)
(* itself in one exploration: the lock and the manifest behind it, one     *)
(* process's manifest when the power may fail, the hash cache, the update  *)
(* of the executable, the copy of one large file, the batch of small files *)
(* and the walks of the source and the destination.  They share no state,  *)
(* so part, chosen at the start, says which one of them moves while the    *)
(* others rest in one initial state.                                       *)
(***************************************************************************)
EXTENDS LockedManifest, ManifestFile, HashCache, SelfUpdate, FileCopy, TarBatch,
        TreeWalk

CONSTANTS p1, p2, f1, f2, f3, i1, i2, g,       \* LockedManifest
          v1, v2,                              \* ManifestFile
          w1, w2, c1, c2, q1, q2,                \* HashCache
          u1, u2, e1, e2, e3, b1, b2, b3,      \* SelfUpdate
          n1, n2, n3, n4, n5, k1, k2,          \* FileCopy
          na, nb, nm, s0, s1, d0, d1, o0       \* TreeWalk

Procs2  == {p1, p2}
Files3  == {f1, f2, f3}
Inodes2 == {i1, i2}

Values  == {Empty, v1, v2}

Workers2 == {w1, w2}
Cached2  == {c1, c2}
Blocks2  == {q1, q2}
Contents == {<<q1, q1>>, <<q2, q2>>, <<q1>>}

\* A release with its checksum, one without, one whose checksum is another
\* binary's, a prerelease, the version that runs, and one for other platforms.
Updaters2 == {u1, u2}
Exes3     == {e1, e2, e3}
Binaries  == {b1, b2, b3}
Versions  == [b \in Binaries |-> IF b = b1 THEN 1 ELSE IF b = b2 THEN 2 ELSE 3]
Offered   == {[version |-> 1, pre |-> FALSE, asset |-> b1, sum |-> b1],
              [version |-> 2, pre |-> FALSE, asset |-> b2, sum |-> b2],
              [version |-> 2, pre |-> FALSE, asset |-> b2, sum |-> Hole],
              [version |-> 3, pre |-> TRUE, asset |-> b3, sum |-> b3],
              [version |-> 3, pre |-> FALSE, asset |-> b3, sum |-> b2],
              [version |-> 4, pre |-> FALSE, asset |-> Hole, sum |-> Hole]}

Nodes5 == {n1, n2, n3, n4, n5}
Cells2 == {k1, k2}

Chunks2 == {Zeros, k1}

\* Sources with a directory, files and a symlink; destinations whose directory may
\* be a file, with files and symlinks to a file, to the destination itself and out
\* of it.  nm is the manifest's name, and the patterns match nothing or nb.
Names3  == {na, nb, nm}
Link(t) == [to |-> t]
Two(t, u) == [n \in Name |-> IF n = na THEN t ELSE IF n = nb THEN u ELSE Nothing]
Tree(s, d) == [z \in Dir |-> CASE z = s0 -> Two(s[1], s[2])
                               [] z = s1 -> Two(Regular, s[3])
                               [] z = d0 -> [Two(d[1], d[2]) EXCEPT ![nm] = Regular]
                               [] z = d1 -> Two(Regular, d[3])
                               [] z = o0 -> Two(Regular, Nothing)]
SourceTrees == {s1} \X {Nothing, Regular, Link(Regular)} \X {Nothing, Regular}
DestTrees   == {d1, Regular} \X {Nothing, Regular, Link(Regular), Link(d0), Link(o0)}
                             \X {Nothing, Regular}
Trees50     == {Tree(s, <<d1, Regular, Nothing>>) : s \in SourceTrees}
                 \cup {Tree(<<s1, Nothing, Nothing>>, d) : d \in DestTrees}
NoneOrNb    == {{}, {p \in Paths : p[Len(p)] = nb}}

VARIABLE part

jointVars == <<part, lockedVars, manifestVars, cacheVars, updateVars, fileVars, tarVars,
               treeVars>>

CacheRests == table = NoRows /\ ~enabled /\ \A c \in Cached : tree[c].data = <<q1>>
FileRests  == os = "other" /\ job = "link" /\ found = "free" /\ canon = <<>>
TarRests   == \A i \in Smalls : small[i] = <<>>
TreeRests  == excluded = {} /\ kids = CHOOSE t \in Trees : TRUE

JointInit ==
  /\ part \in {"lock", "manifest", "cache", "update", "file", "tar", "tree"}
  /\ LockedInit /\ ManifestInit /\ UpdateInit
  /\ CacheInit /\ (part # "cache" => CacheRests)
  /\ FileInit  /\ (part # "file" => FileRests)
  /\ TarInit   /\ (part # "tar" => TarRests)
  /\ TreeInit  /\ (part # "tree" => TreeRests)

LockPart     == /\ part = "lock" /\ LockedNext
                /\ UNCHANGED <<part, manifestVars, cacheVars, updateVars, fileVars,
                               tarVars, treeVars>>
ManifestPart == /\ part = "manifest" /\ ManifestNext
                /\ UNCHANGED <<part, lockedVars, cacheVars, updateVars, fileVars,
                               tarVars, treeVars>>
CachePart    == /\ part = "cache" /\ CacheNext
                /\ UNCHANGED <<part, lockedVars, manifestVars, updateVars, fileVars,
                               tarVars, treeVars>>
UpdatePart   == /\ part = "update" /\ UpdateNext
                /\ UNCHANGED <<part, lockedVars, manifestVars, cacheVars, fileVars,
                               tarVars, treeVars>>
FilePart     == /\ part = "file" /\ FileNext
                /\ UNCHANGED <<part, lockedVars, manifestVars, cacheVars, updateVars,
                               tarVars, treeVars>>
TarPart      == /\ part = "tar" /\ TarNext
                /\ UNCHANGED <<part, lockedVars, manifestVars, cacheVars, updateVars,
                               fileVars, treeVars>>
TreePart     == /\ part = "tree" /\ TreeNext
                /\ UNCHANGED <<part, lockedVars, manifestVars, cacheVars, updateVars,
                               fileVars, tarVars>>

JointNext == \/ LockPart \/ ManifestPart \/ CachePart \/ UpdatePart \/ FilePart
             \/ TarPart \/ TreePart

JointSpec == JointInit /\ [][JointNext]_jointVars

\* The variables of the part that moves have their types, and the inductive
\* invariants of the proofs hold (lock.rs, manifest.rs, cache.rs, update.rs,
\* copy.rs, scan.rs, delta.rs).
JointTypeOK ==
  CASE part = "lock"     -> LockedInv
    [] part = "manifest" -> ManifestTypeOK
    [] part = "cache"    -> CacheInv
    [] part = "update"   -> UpdateInv
    [] part = "file"     -> FileInv
    [] part = "tar"      -> TarInv
    [] part = "tree"     -> WalkInv
================================================================================
