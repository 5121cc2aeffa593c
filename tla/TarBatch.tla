-------------------------------- MODULE TarBatch --------------------------------
(***************************************************************************)
(* engine::copy::copy_small_files_tar: the small files of a plan are       *)
(* packed into one tar archive in memory, which is then unpacked into the  *)
(* destination, while other programs write, cut or extend the files.       *)
(*                                                                         *)
(* An archive is a sequence of blocks.  The builder takes a file's size    *)
(* when it looks the file up and puts it in the header; the data are       *)
(* whatever is read up to the end of the file.  The reader takes as many   *)
(* blocks after a header as it says, data or not, and wants a header after *)
(* them; a block of zeros ends the archive.                                *)
(***************************************************************************)
EXTENDS Naturals, Sequences

CONSTANTS
  Count,        \* how many small files
  Chunk,        \* blocks of data, the block of zeros among them
  Zeros,        \* a block of zeros
  Unset,        \* what is in the destination before
  MaxBlocks,    \* bound: the length of a file
  MaxWrites     \* bound: edits of the files

Smalls  == 1..Count
Texts   == UNION {[1..n -> Chunk] : n \in 0..MaxBlocks}
Headers == [of : Smalls, size : 0..MaxBlocks]

\* No block of data passes for a header.
ASSUME TarAssumption ==
  /\ Count \in Nat \ {0} /\ MaxBlocks \in Nat /\ MaxWrites \in Nat
  /\ Zeros \in Chunk
  /\ \A c \in Chunk : c \notin Headers
  /\ Unset \notin Texts

VARIABLES
  small,        \* the files' blocks
  listed,       \* the files' lengths when they were scanned
  archive,      \* archive_buf
  packing,      \* the file that is packed next, or now
  reader,       \* blocks read of it, or NotOpen
  position,     \* the block of the archive that is unpacked next
  placed,       \* per file, what is in the destination
  tar,          \* "pack", "unpack", "ok", "failed"
  packErrors,   \* the files with CopyError::TarPack
  held,         \* per file, what it held since it was looked up (history)
  steady,       \* files whose length was the same from lookup to end (history)
  writes        \* edits so far

smallVars == <<small, listed, held, steady, writes>>
packVars  == <<packing, reader, packErrors>>
tarVars   == <<smallVars, archive, packVars, position, placed, tar>>

NotOpen == MaxBlocks + 1

TarTypeOK ==
  /\ small \in [Smalls -> Texts] /\ listed \in [Smalls -> 0..MaxBlocks]
  /\ archive \in Seq(Chunk \cup Headers)
  /\ packing \in 1..(Count + 1) /\ reader \in 0..NotOpen
  /\ position \in 1..(Len(archive) + 1)
  /\ tar \in {"pack", "unpack", "ok", "failed"}
  /\ packErrors \subseteq Smalls /\ steady \subseteq Smalls
  /\ placed \in [Smalls -> {Unset} \cup Seq(Chunk \cup Headers)]
  /\ held \in [Smalls -> SUBSET Texts]
  /\ writes \in 0..MaxWrites

TarInit ==
  /\ small \in [Smalls -> Texts]
  /\ listed = [i \in Smalls |-> Len(small[i])]
  /\ archive = <<>> /\ packing = 1 /\ reader = NotOpen /\ position = 1
  /\ placed = [i \in Smalls |-> Unset]
  /\ tar = "pack" /\ packErrors = {}
  /\ held = [i \in Smalls |-> {}] /\ steady = Smalls
  /\ writes = 0

\* A file is open.
Reading == tar = "pack" /\ packing \in Smalls /\ reader # NotOpen

\* Another program writes, cuts or extends a file (external).
EditSmall(i) ==
  /\ tar = "pack" /\ i >= packing /\ writes < MaxWrites
  /\ \E d \in Texts \ {small[i]} :
       /\ small' = [small EXCEPT ![i] = d]
       /\ IF i = packing /\ Reading
          THEN /\ held' = [held EXCEPT ![i] = @ \cup {d}]
               /\ steady' = IF Len(d) = Len(small[i]) THEN steady ELSE steady \ {i}
          ELSE UNCHANGED <<held, steady>>
  /\ writes' = writes + 1
  /\ UNCHANGED <<listed, archive, packVars, position, placed, tar>>

-----------------------------------------------------------------------------
(* Packing (append_path_with_name, external)                                *)

Headed(size) ==
  /\ tar = "pack" /\ packing \in Smalls /\ reader = NotOpen
  /\ archive' = Append(archive, [of |-> packing, size |-> size])
  /\ reader' = 0
  /\ held' = [held EXCEPT ![packing] = {small[packing]}]
  /\ UNCHANGED <<small, listed, packing, position, placed, tar, packErrors, steady, writes>>

\* Mutant: the header has the size that the scan found.
PackHeaderListed == Headed(listed[packing])

PackHeader == Headed(Len(small[packing]))

PackData ==
  /\ Reading /\ reader < Len(small[packing])
  /\ archive' = Append(archive, small[packing][reader + 1])
  /\ reader' = reader + 1
  /\ UNCHANGED <<smallVars, packing, position, placed, tar, packErrors>>

PackEnd ==
  /\ Reading /\ reader >= Len(small[packing])
  /\ packing' = packing + 1 /\ reader' = NotOpen
  /\ UNCHANGED <<smallVars, archive, position, placed, tar, packErrors>>

\* The file is gone or cannot be opened, and nothing is in the archive; or a read
\* fails, and what was read stays there.
PackFails ==
  /\ tar = "pack" /\ packing \in Smalls
  /\ packErrors' = packErrors \cup {packing}
  /\ steady' = IF Reading THEN steady \ {packing} ELSE steady
  /\ packing' = packing + 1 /\ reader' = NotOpen
  /\ UNCHANGED <<small, listed, archive, position, placed, tar, held, writes>>

\* builder.finish()
FinishTar ==
  /\ tar = "pack" /\ packing = Count + 1
  /\ archive' = archive \o <<Zeros, Zeros>>
  /\ tar' = "unpack"
  /\ UNCHANGED <<smallVars, packVars, position, placed>>

-----------------------------------------------------------------------------
(* Unpacking (archive.unpack, external)                                     *)

Item     == archive[position]
AtHeader == position <= Len(archive) /\ Item \in Headers
AtEnd    == position <= Len(archive) => Item = Zeros
CutShort == position + Item.size > Len(archive)

UnpackFile ==
  /\ tar = "unpack" /\ AtHeader /\ ~CutShort
  /\ placed' = [placed EXCEPT ![Item.of] =
                  SubSeq(archive, position + 1, position + Item.size)]
  /\ position' = position + 1 + Item.size
  /\ UNCHANGED <<smallVars, archive, packVars, tar>>

UnpackEnds ==
  /\ tar = "unpack" /\ AtEnd
  /\ tar' = "ok"
  /\ UNCHANGED <<smallVars, archive, packVars, position, placed>>

\* CopyError::TarUnpack: a block that is no header, the archive is too short, or a
\* file cannot be written.
UnpackFails ==
  /\ tar = "unpack" /\ ~AtEnd
  /\ \/ UNCHANGED placed
     \/ AtHeader /\ \E n \in 0..Item.size :
          /\ position + n <= Len(archive)
          /\ placed' = [placed EXCEPT ![Item.of] =
                          SubSeq(archive, position + 1, position + n)]
  /\ tar' = "failed"
  /\ UNCHANGED <<smallVars, archive, packVars, position>>

TarNext ==
  \/ \E i \in Smalls : EditSmall(i)
  \/ PackHeader \/ PackData \/ PackEnd \/ PackFails \/ FinishTar
  \/ UnpackFile \/ UnpackEnds \/ UnpackFails

TarSpec == TarInit /\ [][TarNext]_tarVars

-----------------------------------------------------------------------------
\* What was read of a file, block by block, in the time it was read.
IsOfSmall(i) ==
  \E d \in held[i] : /\ Len(placed[i]) = Len(d)
                     /\ \A k \in DOMAIN d : \E e \in held[i] : placed[i][k] = e[k]

\* A small file that comes out of a batch is what was read of it, and one that
\* does not has an error of its own, or of the batch: so it is for every file up
\* to the first whose length changed while it was packed, whatever is written
\* before, meanwhile and behind it.  (copy.rs:784, "Batch-copy small files using a
\* tar stream")  Behind that one nothing is promised: the rest may be lost and the
\* batch be Ok.
SteadyBatchIsWhole ==
  tar \in {"unpack", "ok"} =>
    \A i \in Smalls : 1..i \subseteq steady =>
      IF placed[i] = Unset THEN tar = "unpack" \/ i \in packErrors ELSE IsOfSmall(i)

-----------------------------------------------------------------------------
(* The inductive invariant                                                  *)

HeaderAt(k)   == k \in DOMAIN archive /\ archive[k] \in Headers
HeaderOf(i)   == \E k \in DOMAIN archive : HeaderAt(k) /\ archive[k].of = i
Begun         == IF Reading THEN packing ELSE packing - 1
SteadyUpTo(i) == 1..i \subseteq steady

\* The headers come in the order of the files, and none is missing.
HeadersInOrder ==
  /\ \A k \in DOMAIN archive : HeaderAt(k) =>
       /\ archive[k].of <= Begun
       /\ \A l \in 1..(k - 1) : HeaderAt(l) => archive[l].of < archive[k].of
  /\ \A i \in 1..Begun : i \in Smalls /\ SteadyUpTo(i) => i \in packErrors \/ HeaderOf(i)
  /\ \A i \in packErrors : i < packing

\* Behind the header of a file whose length does not change is what was read of it.
SegmentsSound ==
  \A k \in DOMAIN archive : HeaderAt(k) /\ SteadyUpTo(archive[k].of) =>
    LET i == archive[k].of
        n == IF Reading /\ i = packing THEN reader ELSE archive[k].size
    IN  /\ k + n <= Len(archive)
        /\ \A x \in 1..n : /\ archive[k + x] \in Chunk
                            /\ \E e \in held[i] : archive[k + x] = e[x]
        /\ \E d \in held[i] : Len(d) = archive[k].size
        /\ Reading /\ i = packing =>
             /\ Len(archive) = k + n
             /\ small[i] \in held[i] /\ Len(small[i]) = archive[k].size

\* There is nothing between these segments.
Covered(x) == \E l \in 1..x : HeaderAt(l) /\ x <= l + archive[l].size

NothingBetween ==
  /\ \A k \in DOMAIN archive : HeaderAt(k) /\ SteadyUpTo(archive[k].of) =>
       \A x \in 1..k : Covered(x)
  /\ tar = "pack" /\ SteadyUpTo(Begun) => \A x \in DOMAIN archive : Covered(x)

\* The reader is in front of such a segment, or behind it and has unpacked it.
UnpackedSoFar ==
  /\ tar = "pack" => position = 1 /\ \A i \in Smalls : placed[i] = Unset
  /\ tar # "pack" => packing = Count + 1
  /\ tar = "unpack" =>
       \A k \in DOMAIN archive : HeaderAt(k) /\ SteadyUpTo(archive[k].of) =>
         \/ position <= k /\ placed[archive[k].of] = Unset
         \/ /\ position > k + archive[k].size
            /\ placed[archive[k].of] \in Texts /\ IsOfSmall(archive[k].of)
  /\ tar \in {"unpack", "ok"} => \A i \in Smalls : placed[i] = Unset \/ HeaderOf(i)

TarInv ==
  /\ TarTypeOK
  /\ HeadersInOrder
  /\ SegmentsSound
  /\ NothingBetween
  /\ UnpackedSoFar
  /\ SteadyBatchIsWhole
================================================================================
