-------------------------------- MODULE FileCopy --------------------------------
(***************************************************************************)
(* One file, as engine::copy hands it to the platform: copy_large_file     *)
(* tries the system's own copy calls before a buffered copy, and           *)
(* apply_dedup_link tries its clone call before a hard link.  A tier that  *)
(* does not work must leave the next one a destination it can use.         *)
(*                                                                         *)
(*   linux     copy_file_range, then buffered; FICLONE, then link(2)       *)
(*   macos     clonefile, fcopyfile, buffered; clonefile, then link(2)     *)
(*   windows   ReFS clone, CopyFileExW, buffered; ReFS clone, then a link  *)
(*   other     buffered; link                                              *)
(*                                                                         *)
(* Files are sequences of blocks in inodes, and a path may be one of two   *)
(* names of its inode.  While a file is copied, other programs write,      *)
(* truncate, extend or replace the source.  Links across mounts are left   *)
(* to CopyEngine, which sees a call of this module as a start and an end.  *)
(***************************************************************************)
EXTENDS Integers, Sequences

CONSTANTS
  Node,          \* inodes
  Cell,          \* blocks a source file may have
  Stale,         \* a block an older copy left
  Zero,          \* a block never written
  NoFile,        \* no file, no open file
  MaxLen,        \* bound: the length of a file, in blocks
  SourceEdits    \* bound: edits of the source

\* An inode can always be had for a new file: the three entries and the open
\* files are never more than four.
ASSUME FileAssumption ==
  /\ NoFile \notin Node
  /\ Node # {} /\ \A a, b, c, d \in Node : Node \ {a, b, c, d} # {}
  /\ Stale \notin Cell /\ Zero \notin Cell /\ Cell # {}
  /\ MaxLen \in Nat \ {0} /\ SourceEdits \in Nat

Systems == {"linux", "macos", "windows", "other"}
Entries   == {"from", "to", "other"}

VARIABLES
  os,         \* the system the program was built for
  job,        \* "copy" a large file, or "clone" or "link" a duplicate
  entry,      \* the inodes of the source, the destination and another name
  cells,      \* the blocks of every inode
  at,         \* the tier, and how far it is
  rfd, wfd,   \* the inodes open for reading and for writing, or NoFile
  off,        \* blocks written
  left,       \* remaining, of copy_file_range
  result,     \* what the call returned
  canon,      \* the source when the call began (history)
  found,      \* what the destination was then (history)
  had,        \* what the source held since (history)
  changes     \* edits of the source so far

fileVars == <<os, job, entry, cells, at, rfd, wfd, off, left, result, canon,
              found, had, changes>>

Blocks  == Seq(Cell \cup {Stale, Zero})
Start   == [copy  |-> [linux |-> "range", macos |-> "clonefile", windows |-> "refs",
                       other |-> "buffered"],
            clone |-> [linux |-> "reflink", macos |-> "clonefile", windows |-> "refs",
                       other |-> "link"],
            link  |-> [s \in Systems |-> "link"]]
Points  == {"range", "ranging", "clonefile", "kernel", "kernelling", "refs",
            "created", "extended", "reflink", "ficlone", "buffered", "buffering",
            "link", "end"}

FileTypeOK ==
  /\ os \in Systems /\ job \in {"copy", "clone", "link"}
  /\ entry \in [Entries -> Node \cup {NoFile}] /\ entry["from"] # NoFile
  /\ cells \in [Node -> Blocks]
  /\ at \in Points
  /\ rfd \in Node \cup {NoFile} /\ wfd \in Node \cup {NoFile}
  /\ off \in Nat /\ left \in Nat
  /\ result \in {"none", "ok", "cloned", "linked", "failed"}
  /\ found \in {"free", "linked", "old"} /\ canon \in had /\ had \subseteq Blocks
  /\ changes \in 0..SourceEdits

Source == cells[entry["from"]]
Dest   == cells[entry["to"]]

\* An inode for a new file: which one makes no difference.
NewNode == CHOOSE i \in Node : i \notin {entry[e] : e \in Entries} \cup {rfd, wfd}

\* The destination may be an older copy, which an earlier run may have linked
\* to another name or, a duplicate, to its canonical copy.
FileInit ==
  /\ os \in Systems /\ job \in {"copy", "clone", "link"}
  /\ LET f == CHOOSE i \in Node : TRUE
         t == CHOOSE i \in Node \ {f} : TRUE
     IN  /\ \E d \in {NoFile, t} \cup (IF job = "copy" THEN {} ELSE {f}) :
              \E o \in {NoFile, d} :
                entry = [e \in Entries |-> CASE e = "from" -> f [] e = "to" -> d [] e = "other" -> o]
         /\ \E n \in 0..MaxLen : \E d \in [1..n -> Cell] :
              cells = [i \in Node |-> IF i = f THEN d
                                      ELSE IF i = t THEN [k \in 1..MaxLen |-> Stale]
                                      ELSE <<>>]
  /\ at = Start[job][os]
  /\ rfd = NoFile /\ wfd = NoFile /\ off = 0 /\ left = 0
  /\ result = "none"
  /\ canon = cells[entry["from"]]
  /\ found = IF entry["to"] = NoFile THEN "free"
             ELSE IF entry["to"] = entry["from"] THEN "linked" ELSE "old"
  /\ had = {canon} /\ changes = 0

-----------------------------------------------------------------------------
(* The file system (external) and the source's other users                  *)

\* An open Windows handle of try_refs_block_clone keeps writers away.
Shared == ~(os = "windows" /\ at \in {"created", "extended"})

\* The source is written, cut or extended in place, or replaced by a rename.
EditSource ==
  /\ job = "copy" /\ at # "end" /\ Shared /\ changes < SourceEdits
  /\ \E n \in 0..MaxLen : \E d \in [1..n -> Cell] :
       /\ d # Source
       /\ \/ cells' = [cells EXCEPT ![entry["from"]] = d] /\ UNCHANGED entry
          \/ /\ cells' = [cells EXCEPT ![NewNode] = d]
             /\ entry' = [entry EXCEPT !["from"] = NewNode]
       /\ had' = had \cup {d}
  /\ changes' = changes + 1
  /\ UNCHANGED <<os, job, at, rfd, wfd, off, left, result, canon, found>>

Comes(p) == at' = p /\ UNCHANGED <<os, job, canon, found, had, changes>>

Closed == rfd' = NoFile /\ wfd' = NoFile /\ off' = 0 /\ left' = 0

\* The call returns; what it opened is closed.
Returns(r) ==
  /\ result' = r
  /\ Closed /\ Comes("end")

\* The tier gives up and the next one begins.
FallsTo(p) ==
  /\ Closed /\ Comes(p)
  /\ UNCHANGED result

\* Both files are opened; the destination is created where there is none, and
\* begins with the given blocks.
OpensBoth(p, blocks) ==
  /\ rfd' = entry["from"]
  /\ IF entry["to"] # NoFile
     THEN wfd' = entry["to"] /\ UNCHANGED entry
     ELSE wfd' = NewNode /\ entry' = [entry EXCEPT !["to"] = NewNode]
  /\ cells' = [cells EXCEPT ![wfd'] = blocks]
  /\ off' = 0
  /\ Comes(p) /\ UNCHANGED result

RemovesDest == entry' = [entry EXCEPT !["to"] = NoFile] /\ UNCHANGED cells

\* What is left to read, and n blocks of it copied to the same offset.
Available == Len(cells[rfd]) - off
Moves(n) ==
  /\ cells' = [cells EXCEPT ![wfd] =
                 SubSeq(@, 1, off) \o SubSeq(cells[rfd], off + 1, off + n)
                                   \o SubSeq(@, off + n + 1, Len(@))]
  /\ off' = off + n
  /\ Comes(at)
  /\ UNCHANGED <<entry, rfd, wfd, result>>

-----------------------------------------------------------------------------
(* copy_file_range (linux_io::try_copy_file_range)                          *)

\* The size to copy is taken once, after both files are open.
RangeOpen ==
  /\ at = "range"
  /\ OpensBoth("ranging", <<>>)
  /\ left' = Len(Source)

RangeChunk ==
  /\ at = "ranging" /\ left > 0
  /\ \E n \in 1..Available : n <= left /\ Moves(n) /\ left' = left - n

\* All of it is copied, or the source ends early by now: either is Ok(true).
RangeEnds ==
  /\ at = "ranging" /\ (left = 0 \/ Available <= 0)
  /\ Returns("ok")
  /\ UNCHANGED <<entry, cells>>

\* ENOSYS, EXDEV, EOPNOTSUPP, EINVAL: the destination is removed.
RangeUnsupported ==
  /\ at = "ranging" /\ left > 0
  /\ RemovesDest /\ FallsTo("buffered")

\* Any other error, of a call or of an open: copy_large_file takes it for
\* Ok(false), and the destination is as far as it got.
RangeFails ==
  /\ at = "range" \/ (at = "ranging" /\ left > 0)
  /\ FallsTo("buffered")
  /\ UNCHANGED <<entry, cells>>

-----------------------------------------------------------------------------
(* buffered_copy                                                            *)

\* Mutant: the destination is opened without truncating it.
BufferedOpenKeeps ==
  /\ at = "buffered"
  /\ OpensBoth("buffering", IF entry["to"] # NoFile THEN Dest ELSE <<>>)
  /\ UNCHANGED left

BufferedOpen ==
  /\ at = "buffered"
  /\ OpensBoth("buffering", <<>>)
  /\ UNCHANGED left

BufferedChunk ==
  /\ at = "buffering"
  /\ \E n \in 1..Available : Moves(n)
  /\ UNCHANGED left

BufferedEnds ==
  /\ at = "buffering" /\ Available <= 0
  /\ Returns("ok")
  /\ UNCHANGED <<entry, cells>>

\* An open, a read or a write fails, and with it the copy.
BufferedFails ==
  /\ at \in {"buffered", "buffering"}
  /\ Returns("failed")
  /\ UNCHANGED <<entry, cells>>

-----------------------------------------------------------------------------
(* macOS                                                                    *)

Cloned == IF job = "copy" THEN "ok" ELSE "cloned"

\* clonefile: a new file with the source's blocks, where there was none.
CloneFile ==
  /\ at = "clonefile" /\ entry["to"] = NoFile
  /\ entry' = [entry EXCEPT !["to"] = NewNode]
  /\ cells' = [cells EXCEPT ![NewNode] = Source]
  /\ Returns(Cloned)

\* It fails, or is not to be tried (try_clonefile); nothing is touched.
CloneFileFails ==
  /\ at = "clonefile"
  /\ FallsTo(IF job = "copy" THEN "kernel" ELSE "link")
  /\ UNCHANGED <<entry, cells>>

-----------------------------------------------------------------------------
(* The system's copy call: fcopyfile, CopyFileExW (external)                *)

KernelOpen ==
  /\ at = "kernel"
  /\ OpensBoth("kernelling", <<>>)
  /\ UNCHANGED left

KernelChunk ==
  /\ at = "kernelling"
  /\ \E n \in 1..Available : Moves(n)
  /\ UNCHANGED left

KernelEnds ==
  /\ at = "kernelling" /\ Available <= 0
  /\ Returns("ok")
  /\ UNCHANGED <<entry, cells>>

\* try_fcopyfile removes the destination once it is open; CopyFileExW may leave
\* it.
KernelFails ==
  /\ at \in {"kernel", "kernelling"}
  /\ \/ at = "kernelling" /\ RemovesDest
     \/ (os = "windows" \/ at = "kernel") /\ UNCHANGED <<entry, cells>>
  /\ FallsTo("buffered")

-----------------------------------------------------------------------------
(* ReFS (windows_io::try_refs_block_clone)                                  *)

\* The source is opened for shared reading only, so the destination cannot be
\* opened when it is the same file; an empty source is not cloned.
RefsCreate ==
  /\ at = "refs" /\ Len(Source) > 0 /\ entry["to"] # entry["from"]
  /\ OpensBoth("created", <<>>)
  /\ UNCHANGED left

\* SetEndOfFile gives the destination its size, with blocks of zeros.
RefsExtend ==
  /\ at = "created"
  /\ cells' = [cells EXCEPT ![wfd] = [k \in 1..Len(cells[rfd]) |-> Zero]]
  /\ Comes("extended")
  /\ UNCHANGED <<entry, rfd, wfd, off, left, result>>

RefsClone ==
  /\ at = "extended"
  /\ cells' = [cells EXCEPT ![wfd] = cells[rfd]]
  /\ Returns(Cloned)
  /\ UNCHANGED entry

\* Not ReFS, or an error: the destination stays as it is.
RefsFails ==
  /\ at \in {"refs", "created", "extended"}
  /\ FallsTo(IF job = "copy" THEN "kernel" ELSE "link")
  /\ UNCHANGED <<entry, cells>>

-----------------------------------------------------------------------------
(* FICLONE (linux_io::try_reflink)                                          *)

ReflinkOpen ==
  /\ at = "reflink"
  /\ OpensBoth("ficlone", <<>>)
  /\ UNCHANGED left

Reflink ==
  /\ at = "ficlone"
  /\ cells' = [cells EXCEPT ![wfd] = cells[rfd]]
  /\ Returns("cloned")
  /\ UNCHANGED entry

\* Mutant: the destination is left when the ioctl fails.
ReflinkFailsLeaves ==
  /\ at \in {"reflink", "ficlone"}
  /\ UNCHANGED <<entry, cells>>
  /\ FallsTo("link")

\* The ioctl fails and the destination is removed, or an open failed.
ReflinkFails ==
  /\ at \in {"reflink", "ficlone"}
  /\ IF at = "ficlone" THEN RemovesDest ELSE UNCHANGED <<entry, cells>>
  /\ FallsTo("link")

-----------------------------------------------------------------------------
(* fs::hard_link                                                            *)

\* Mutant: a file in the way is no error.
MakeLinkAnyway ==
  /\ at = "link"
  /\ entry' = IF entry["to"] = NoFile THEN [entry EXCEPT !["to"] = entry["from"]]
              ELSE entry
  /\ Returns("linked")
  /\ UNCHANGED cells

MakeLink ==
  /\ at = "link" /\ entry["to"] = NoFile
  /\ entry' = [entry EXCEPT !["to"] = entry["from"]]
  /\ Returns("linked")
  /\ UNCHANGED cells

\* CopyError::HardLink: a file is in the way, or link(2) fails.
MakeLinkFails ==
  /\ at = "link"
  /\ Returns("failed")
  /\ UNCHANGED <<entry, cells>>

FileStep ==
  \/ RangeOpen \/ RangeChunk \/ RangeEnds \/ RangeUnsupported \/ RangeFails
  \/ BufferedOpen \/ BufferedChunk \/ BufferedEnds \/ BufferedFails
  \/ CloneFile \/ CloneFileFails
  \/ KernelOpen \/ KernelChunk \/ KernelEnds \/ KernelFails
  \/ RefsCreate \/ RefsExtend \/ RefsClone \/ RefsFails
  \/ ReflinkOpen \/ Reflink \/ ReflinkFails
  \/ MakeLink \/ MakeLinkFails

FileNext == FileStep \/ EditSource

FileSpec == FileInit /\ [][FileNext]_fileVars

-----------------------------------------------------------------------------
\* A large file that was copied without an error is made of the source's own
\* blocks, each as the source had it in its place at some time during the copy,
\* and is as long as the source was at its shortest: whatever tiers failed before, and
\* whoever wrote, cut or replaced the source meanwhile.  So a copy of a source
\* that nobody touched is that source.  (copy.rs:715, "Copy a large file using
\* platform-optimal methods.")
CopyIsOfSource ==
  result = "ok" =>
    /\ entry["to"] # NoFile
    /\ \A k \in DOMAIN Dest : \E d \in had : k \in DOMAIN d /\ d[k] = Dest[k]
    /\ \E d \in had : Len(d) <= Len(Dest)

\* Cloning or linking a duplicate changes the canonical copy at no step, whatever
\* fails, and gives the duplicate the same content; the exception is the clone
\* tier of Linux for a duplicate that is a hard link already (see CloneIsCopy).
LinkKeepsCanonical ==
  job # "copy" /\ ~(os = "linux" /\ job = "clone" /\ found = "linked") =>
    /\ Source = canon
    /\ result \in {"cloned", "linked"} => Dest = canon

\* A clone tier that gives up has left nothing in the way of the hard link, where
\* nothing was; on Windows the file it made is still there, and the link fails.
LinkFindsName ==
  found = "free" /\ at = "link" /\ os # "windows" => entry["to"] = NoFile

\* What --link-strategy clone says a clone is: separate inodes, with the same
\* content.  (README.md:15, "to produce separate inodes that can diverge after
\* the copy"; false for a duplicate that an earlier run hard-linked)  An empty
\* file has nothing to clone.
CloneIsCopy ==
  result = "cloned" /\ canon # <<>> => entry["to"] # entry["from"] /\ Dest = canon

-----------------------------------------------------------------------------
(* The inductive invariant                                                  *)

Copying == {"ranging", "kernelling", "buffering"}
Opened  == Copying \cup {"created", "extended", "ficlone"}

\* Which tiers a job passes through, and what is open in them.
TiersAgree ==
  /\ result = "none" <=> at # "end"
  /\ result = "ok" => job = "copy"
  /\ result \in {"cloned", "linked"} => job # "copy"
  /\ at \in {"range", "kernel", "buffered"} \cup Copying => job = "copy"
  /\ at \in {"reflink", "ficlone"} => os = "linux" /\ job = "clone"
  /\ at \in {"refs", "created", "extended"} => os = "windows"
  /\ at = "link" => job # "copy"
  /\ IF at \in Opened THEN rfd # NoFile /\ wfd = entry["to"] /\ wfd # NoFile
     ELSE rfd = NoFile /\ wfd = NoFile

\* A copy reads what the source held, and writes to another inode.
SourceApart ==
  job = "copy" =>
    /\ Source \in had /\ entry["to"] # entry["from"]
    /\ at \in Opened => cells[rfd] \in had /\ rfd # wfd

\* What a copy has written comes from the source block by block, with the size
\* that copy_file_range goes by as what is left of one that the source had.
CopiedSoFar ==
  /\ at \in Copying =>
       /\ Len(cells[wfd]) = off
       /\ \A k \in 1..off : \E d \in had : k \in DOMAIN d /\ d[k] = cells[wfd][k]
  /\ at = "ranging" => \E d \in had : Len(d) = off + left

\* Nothing is written to the canonical copy of a duplicate: it is not what the
\* clone tiers open for writing.
CanonicalApart ==
  job # "copy" =>
    /\ had = {canon}
    /\ at \in Opened => rfd = entry["from"]
    /\ at \in {"reflink", "created", "extended", "ficlone"} /\ ~(os = "linux" /\ found = "linked")
         => entry["to"] # entry["from"]
    /\ found = "free" /\ at \in {"reflink", "clonefile"} => entry["to"] = NoFile

FileInv ==
  /\ FileTypeOK
  /\ TiersAgree
  /\ SourceApart
  /\ CopiedSoFar
  /\ CanonicalApart
  /\ CopyIsOfSource
  /\ LinkKeepsCanonical
  /\ LinkFindsName
================================================================================
