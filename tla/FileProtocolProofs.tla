--------------------------- MODULE FileProtocolProofs ---------------------------
(***************************************************************************)
(* The protocols on files, proved for every value of the constants: the    *)
(* copy or link of one file over the tiers of every platform (FileCopy),   *)
(* the batch of small files that crosses as one tar archive (TarBatch),    *)
(* the update of the executable (SelfUpdate), what the destination's lock  *)
(* guarantees and that it keeps the manifest whole (LockedManifest), since *)
(* every step of the composition is a step of the lock or leaves it alone, *)
(* and that one process's write-then-rename protocol implements the atomic *)
(* manifest, with process crashes and power losses (ManifestFile).         *)
(***************************************************************************)
EXTENDS LockedManifest, ManifestFile, FileCopy, TarBatch, SelfUpdate,
        SequenceTheorems, TLAPS

-----------------------------------------------------------------------------
(* Sequences and inodes                                                     *)

\* Moves on a file that ends where the writing is: the file is longer by what was
\* read, and what was there before stays (FileCopy.Moves, a read and a write).
LEMMA SpliceAtEnd ==
  ASSUME NEW S, NEW c \in Seq(S), NEW r \in Seq(S), NEW n \in Nat,
         Len(c) + n <= Len(r)
  PROVE  \A x : x = SubSeq(c, 1, Len(c)) \o SubSeq(r, Len(c) + 1, Len(c) + n)
                                         \o SubSeq(c, Len(c) + n + 1, Len(c))
           => /\ x \in Seq(S)
              /\ Len(x) = Len(c) + n
              /\ \A k \in 1..Len(c) : x[k] = c[k]
              /\ \A k \in 1..(Len(c) + n) : k > Len(c) => x[k] = r[k]
<1> DEFINE b == SubSeq(r, Len(c) + 1, Len(c) + n)
<1>1. Len(c) \in Nat /\ Len(r) \in Nat
  OBVIOUS
<1>2. SubSeq(c, 1, Len(c)) = c
  BY SubSeqFull
<1>3. b \in Seq(S) /\ Len(b) = n /\ \A k \in 1..n : b[k] = r[k + Len(c)]
  <2>1. \A k \in (Len(c) + 1)..(Len(c) + n) : r[k] \in S
    BY <1>1
  <2>2. /\ b \in Seq(S)
        /\ Len(b) = IF Len(c) + 1 <= Len(c) + n THEN Len(c) + n - (Len(c) + 1) + 1 ELSE 0
        /\ \A k \in 1..(Len(c) + n - (Len(c) + 1) + 1) : b[k] = r[Len(c) + 1 + k - 1]
    BY <1>1, <2>1, SubSeqProperties
  <2>3. Len(b) = n
    BY <1>1, <2>2
  <2>4. \A k \in 1..n : b[k] = r[k + Len(c)]
    BY <1>1, <2>2
  <2> QED BY <2>2, <2>3, <2>4
<1>4. SubSeq(c, Len(c) + n + 1, Len(c)) = <<>>
  BY <1>1, SubSeqEmpty
<1> HIDE DEF b
<1>5. /\ c \o b \in Seq(S)
      /\ Len(c \o b) = Len(c) + n
      /\ \A k \in 1..(Len(c) + n) : (c \o b)[k] = IF k <= Len(c) THEN c[k] ELSE b[k - Len(c)]
  BY <1>3, ConcatProperties
<1>6. (c \o b) \o <<>> = c \o b
  BY <1>5, ConcatEmptySeq
<1>7. \A k \in 1..Len(c) : (c \o b)[k] = c[k]
  BY <1>1, <1>5
<1>8. ASSUME NEW k \in 1..(Len(c) + n), k > Len(c) PROVE (c \o b)[k] = r[k]
  <2>1. k - Len(c) \in 1..n /\ ~(k <= Len(c))
    BY <1>1, <1>8
  <2>2. (c \o b)[k] = b[k - Len(c)]
    BY <1>5, <2>1
  <2>3. b[k - Len(c)] = r[(k - Len(c)) + Len(c)]
    BY <1>3, <2>1
  <2> QED BY <1>1, <2>2, <2>3
<1>9. c \o b \o SubSeq(c, Len(c) + n + 1, Len(c)) = c \o b
  BY <1>4, <1>6
<1> QED
  BY <1>2, <1>5, <1>7, <1>8, <1>9 DEF b

\* A new file gets an inode that no entry has and nobody has open.
LEMMA NewNodeIsNew ==
  ASSUME FileTypeOK, TiersAgree
  PROVE  /\ NewNode \in Node
         /\ NewNode \notin {entry["from"], entry["to"], entry["other"], rfd, wfd}
<1>1. ASSUME NEW a \in Node, NEW b \in Node \cup {NoFile},
             NEW c \in Node \cup {NoFile}, NEW d \in Node \cup {NoFile}
      PROVE  \E z \in Node : z \notin {a, b, c, d}
  <2> DEFINE in(x) == IF x = NoFile THEN a ELSE x
  <2>1. in(b) \in Node /\ in(c) \in Node /\ in(d) \in Node
    OBVIOUS
  <2>2. PICK z \in Node : z \notin {a, in(b), in(c), in(d)}
    <3> HIDE DEF in
    <3> QED BY <2>1, FileAssumption
  <2>3. z \notin {a, b, c, d}
    BY <2>2, FileAssumption
  <2> QED BY <2>3
<1>2. PICK i \in Node : i \notin {entry["from"], entry["to"], entry["other"], rfd}
  <2>1. /\ entry["from"] \in Node /\ entry["to"] \in Node \cup {NoFile}
        /\ entry["other"] \in Node \cup {NoFile} /\ rfd \in Node \cup {NoFile}
    BY DEF FileTypeOK, Entries
  <2> QED BY <1>1, <2>1
<1>3. wfd \in {entry["to"], NoFile} /\ i # NoFile
  BY FileAssumption DEF TiersAgree
<1>4. i \notin {entry[e] : e \in Entries} \cup {rfd, wfd}
  BY <1>2, <1>3 DEF Entries
<1>5. /\ NewNode \in Node
      /\ NewNode \notin {entry[e] : e \in Entries} \cup {rfd, wfd}
  BY <1>4 DEF NewNode
<1> QED
  BY <1>5 DEF Entries

-----------------------------------------------------------------------------
(* FileCopy: the types, and what the tiers have open                        *)

LEMMA StartTiers ==
  ASSUME FileInit
  PROVE  /\ job = "copy" => at = CASE os = "linux" -> "range" [] os = "macos" -> "clonefile"
                                   [] os = "windows" -> "refs" [] os = "other" -> "buffered"
         /\ job = "clone" => at = CASE os = "linux" -> "reflink" [] os = "macos" -> "clonefile"
                                   [] os = "windows" -> "refs" [] os = "other" -> "link"
         /\ job = "link" => at = "link"
<1>1. os \in Systems /\ at = Start[job][os]
  BY DEF FileInit
<1>2. Start["copy"]["linux"] = "range" /\ Start["copy"]["macos"] = "clonefile"
      /\ Start["copy"]["windows"] = "refs" /\ Start["copy"]["other"] = "buffered"
  BY DEF Start
<1>3. Start["clone"]["linux"] = "reflink" /\ Start["clone"]["macos"] = "clonefile"
      /\ Start["clone"]["windows"] = "refs" /\ Start["clone"]["other"] = "link"
  BY DEF Start
<1>4. \A s \in Systems : Start["link"][s] = "link"
  BY DEF Start
<1> QED
  BY <1>1, <1>2, <1>3, <1>4 DEF Systems

LEMMA FileInitTypes == FileInit => FileTypeOK /\ TiersAgree
<1> SUFFICES ASSUME FileInit PROVE FileTypeOK /\ TiersAgree
  OBVIOUS
<1> DEFINE f == CHOOSE i \in Node : TRUE
           t == CHOOSE i \in Node \ {f} : TRUE
           old == [k \in 1..MaxLen |-> Stale]
<1>1. f \in Node /\ t \in Node \ {f}
  BY FileAssumption
<1>2. \E d \in {NoFile, t} \cup (IF job = "copy" THEN {} ELSE {f}) : \E o \in {NoFile, d} :
        entry = [e \in Entries |-> CASE e = "from" -> f [] e = "to" -> d [] e = "other" -> o]
  BY DEF FileInit
<1>3. \E n \in 0..MaxLen : \E s \in [1..n -> Cell] :
        cells = [i \in Node |-> IF i = f THEN s ELSE IF i = t THEN old ELSE <<>>]
  BY DEF FileInit
<1> HIDE DEF f, t, old
<1>4. entry \in [Entries -> Node \cup {NoFile}] /\ entry["from"] \in Node
  <2>1. PICK d \in {NoFile, t, f} : \E o \in {NoFile, t, f} :
          entry = [e \in Entries |-> CASE e = "from" -> f [] e = "to" -> d [] e = "other" -> o]
    BY <1>2
  <2>2. PICK o \in {NoFile, t, f} :
          entry = [e \in Entries |-> CASE e = "from" -> f [] e = "to" -> d [] e = "other" -> o]
    BY <2>1
  <2>3. /\ entry = [e \in Entries |-> entry[e]]
        /\ entry["from"] = f /\ entry["to"] = d /\ entry["other"] = o
    BY <2>2 DEF Entries
  <2>4. \A e \in Entries : entry[e] \in Node \cup {NoFile}
    BY <1>1, <2>3 DEF Entries
  <2> QED BY <1>1, <2>3, <2>4
<1>5. cells \in [Node -> Blocks]
  <2>1. PICK n \in 0..MaxLen : \E s \in [1..n -> Cell] :
          cells = [i \in Node |-> IF i = f THEN s ELSE IF i = t THEN old ELSE <<>>]
    BY <1>3
  <2>2. PICK s \in [1..n -> Cell] :
          cells = [i \in Node |-> IF i = f THEN s ELSE IF i = t THEN old ELSE <<>>]
    BY <2>1
  <2>3. n \in Nat /\ MaxLen \in Nat
    BY FileAssumption
  <2>4. s \in Blocks
    BY <2>3 DEF Blocks
  <2>5. old \in Blocks
    BY <2>3 DEF Blocks, old
  <2> QED BY <2>2, <2>4, <2>5 DEF Blocks
<1>6. /\ at \in {"range", "clonefile", "refs", "buffered", "reflink", "link"}
      /\ at \in {"range", "buffered"} => job = "copy"
      /\ at = "reflink" => os = "linux" /\ job = "clone"
      /\ at = "refs" => os = "windows"
      /\ at = "link" => job # "copy"
  BY StartTiers DEF FileInit, Systems
<1>7. /\ os \in Systems /\ job \in {"copy", "clone", "link"}
      /\ rfd = NoFile /\ wfd = NoFile /\ off = 0 /\ left = 0 /\ result = "none"
      /\ canon = cells[entry["from"]] /\ found \in {"free", "linked", "old"}
      /\ had = {canon} /\ changes = 0
  BY DEF FileInit
<1>8. FileTypeOK
  <2>1. 0 \in 0..SourceEdits
    BY FileAssumption
  <2> QED
    BY <1>4, <1>5, <1>6, <1>7, <2>1, FileAssumption DEF FileTypeOK, Points
<1>9. TiersAgree
  BY <1>6, <1>7 DEF TiersAgree, Copying, Opened
<1> QED BY <1>8, <1>9

\* A write to a file leaves the others, and blocks of files are blocks.
LEMMA OpensBothTypes ==
  ASSUME FileTypeOK, TiersAgree, NEW p, OpensBoth(p, <<>>)
  PROVE  /\ entry' \in [Entries -> Node \cup {NoFile}]
         /\ cells' \in [Node -> Blocks]
         /\ rfd' = entry["from"] /\ wfd' = entry'["to"] /\ off' = 0 /\ at' = p
         /\ rfd' \in Node /\ wfd' \in Node
         /\ entry'["from"] = entry["from"] /\ entry'["other"] = entry["other"]
         /\ entry["to"] # NoFile => entry'["to"] = entry["to"]
         /\ entry["to"] = NoFile => entry'["to"] = NewNode
         /\ cells' = [cells EXCEPT ![wfd'] = <<>>]
         /\ UNCHANGED <<os, job, canon, found, had, changes, result>>
<1>1. NewNode \in Node
  BY NewNodeIsNew
<1>2. entry \in [Entries -> Node \cup {NoFile}] /\ entry["from"] \in Node
      /\ entry["to"] \in Node \cup {NoFile} /\ entry["other"] \in Node \cup {NoFile}
  BY DEF FileTypeOK, Entries
<1>3. <<>> \in Blocks
  BY DEF Blocks
<1>4. /\ rfd' = entry["from"] /\ off' = 0 /\ at' = p /\ cells' = [cells EXCEPT ![wfd'] = <<>>]
      /\ UNCHANGED <<os, job, canon, found, had, changes, result>>
      /\ IF entry["to"] # NoFile THEN wfd' = entry["to"] /\ entry' = entry
         ELSE wfd' = NewNode /\ entry' = [entry EXCEPT !["to"] = NewNode]
  BY DEF OpensBoth, Comes
<1>5. /\ entry' \in [Entries -> Node \cup {NoFile}]
      /\ wfd' = entry'["to"] /\ wfd' \in Node
      /\ entry'["from"] = entry["from"] /\ entry'["other"] = entry["other"]
      /\ entry["to"] # NoFile => entry'["to"] = entry["to"]
      /\ entry["to"] = NoFile => entry'["to"] = NewNode
  <2>1. CASE entry["to"] # NoFile
    BY <1>2, <1>4, <2>1
  <2>2. CASE entry["to"] = NoFile
    BY <1>1, <1>2, <1>4, <2>2 DEF Entries
  <2> QED BY <2>1, <2>2
<1>6. cells' \in [Node -> Blocks]
  BY <1>3, <1>4, <1>5 DEF FileTypeOK
<1> QED
  BY <1>2, <1>4, <1>5, <1>6

-----------------------------------------------------------------------------
(* FileCopy: the inductive invariant, by what a step does                   *)

LEMMA FileInitInv == FileInit => FileInv
<1> SUFFICES ASSUME FileInit PROVE FileInv
  OBVIOUS
<1>1. FileTypeOK /\ TiersAgree
  BY FileInitTypes
<1>2. /\ at \in {"range", "clonefile", "refs", "buffered", "reflink", "link"}
      /\ result = "none" /\ had = {Source} /\ canon = Source
  BY StartTiers DEF FileInit, Systems, Source
<1>3. found = IF entry["to"] = NoFile THEN "free"
              ELSE IF entry["to"] = entry["from"] THEN "linked" ELSE "old"
  BY DEF FileInit
<1>4. job = "copy" => entry["to"] # entry["from"]
  <2> DEFINE f == CHOOSE i \in Node : TRUE
             t == CHOOSE i \in Node \ {f} : TRUE
  <2>1. f \in Node /\ t \in Node \ {f}
    BY FileAssumption
  <2>2. job = "copy" => \E d \in {NoFile, t} : \E o \in {NoFile, d} :
          entry = [e \in Entries |-> CASE e = "from" -> f [] e = "to" -> d [] e = "other" -> o]
    BY DEF FileInit
  <2> HIDE DEF f, t
  <2>3. SUFFICES ASSUME job = "copy" PROVE entry["to"] # entry["from"]
    OBVIOUS
  <2>4. PICK d \in {NoFile, t} : \E o \in {NoFile, d} :
          entry = [e \in Entries |-> CASE e = "from" -> f [] e = "to" -> d [] e = "other" -> o]
    BY <2>2, <2>3
  <2>5. entry["to"] = d /\ entry["from"] = f
    BY <2>4 DEF Entries
  <2> QED BY <2>1, <2>5, FileAssumption
<1>5. SourceApart /\ CopiedSoFar
  BY <1>2, <1>4 DEF SourceApart, CopiedSoFar, Copying, Opened
<1>6. at = "reflink" => os = "linux"
  BY <1>1 DEF TiersAgree
<1>7. CanonicalApart
  BY <1>1, <1>2, <1>3, <1>6 DEF CanonicalApart, Opened, Copying, FileTypeOK
<1>8. CopyIsOfSource /\ LinkKeepsCanonical
  BY <1>2 DEF CopyIsOfSource, LinkKeepsCanonical
<1>9. LinkFindsName
  BY <1>3 DEF LinkFindsName
<1> QED BY <1>1, <1>5, <1>7, <1>8, <1>9 DEF FileInv

\* A tier opens both files.
LEMMA OpensKeeps ==
  ASSUME FileInv, NEW p \in Opened, OpensBoth(p, <<>>), at \notin Opened \cup {"end"}, left' \in Nat,
         \/ job = "copy" /\ p \in Copying /\ (p = "ranging" => left' = Len(Source))
         \/ at = "refs" /\ p = "created" /\ entry["to"] # entry["from"]
         \/ at = "reflink" /\ p = "ficlone"
  PROVE  FileInv'
<1>1. FileTypeOK /\ TiersAgree /\ SourceApart /\ CanonicalApart /\ LinkKeepsCanonical
  BY DEF FileInv
<1>2. /\ NewNode \in Node
      /\ NewNode \notin {entry["from"], entry["to"], entry["other"], rfd, wfd}
  BY <1>1, NewNodeIsNew
<1>3. /\ entry' \in [Entries -> Node \cup {NoFile}]
      /\ cells' \in [Node -> Blocks]
      /\ rfd' = entry["from"] /\ wfd' = entry'["to"] /\ off' = 0 /\ at' = p
      /\ rfd' \in Node /\ wfd' \in Node
      /\ entry'["from"] = entry["from"]
      /\ entry["to"] # NoFile => entry'["to"] = entry["to"]
      /\ entry["to"] = NoFile => entry'["to"] = NewNode
      /\ cells' = [cells EXCEPT ![wfd'] = <<>>]
      /\ UNCHANGED <<os, job, canon, found, had, changes, result>>
  BY <1>1, OpensBothTypes
<1>4. FileTypeOK'
  BY <1>1, <1>3 DEF FileTypeOK, Points, Opened, Copying
<1>5. TiersAgree'
  BY <1>1, <1>3, FileAssumption DEF TiersAgree, Opened, Copying
<1>6. /\ cells'[wfd'] = <<>>
      /\ \A i \in Node : i # wfd' => cells'[i] = cells[i]
  BY <1>1, <1>3 DEF FileTypeOK
<1>7. entry["to"] # entry["from"] => wfd' # entry["from"]
  BY <1>2, <1>3
<1>8. entry["to"] # entry["from"] => Source' = Source
  BY <1>3, <1>6, <1>7 DEF Source
<1>9. SourceApart'
  BY <1>1, <1>3, <1>6, <1>7, <1>8 DEF SourceApart, Source
<1>10. CopiedSoFar'
  <2>1. p = "ranging" => Source \in had /\ left' = Len(Source)
    BY <1>1 DEF TiersAgree, SourceApart, Copying
  <2>2. p = "ranging" => Len(Source) = off' + left'
    <3>1. off' = 0
      BY <1>3
    <3>a. left' \in Nat
      OBVIOUS
    <3>b. \A k \in Nat : 0 + k = k
      OBVIOUS
    <3>2. off' + left' = left'
      BY <3>1, <3>a, <3>b
    <3> QED BY <2>1, <3>2
  <2>3. Len(cells'[wfd']) = off' /\ 1..off' = {}
    BY <1>3, <1>6
  <2> QED BY <1>3, <2>1, <2>2, <2>3 DEF CopiedSoFar
<1>11. CanonicalApart'
  BY <1>1, <1>3, <1>7 DEF CanonicalApart, Opened, Copying, TiersAgree
<1>12. result' = "none"
  BY <1>1, <1>3 DEF TiersAgree, Opened, Copying
<1>13. LinkKeepsCanonical'
  BY <1>1, <1>3, <1>8, <1>12 DEF LinkKeepsCanonical, CanonicalApart, Opened, TiersAgree
<1>14. CopyIsOfSource' /\ LinkFindsName'
  BY <1>3, <1>12 DEF CopyIsOfSource, LinkFindsName, Opened, Copying
<1> QED
  BY <1>4, <1>5, <1>9, <1>10, <1>11, <1>13, <1>14 DEF FileInv

\* A tier copies some blocks.
LEMMA MovesKeeps ==
  ASSUME FileInv, at \in Copying, NEW n \in 1..Available, Moves(n), left' \in Nat,
         at = "ranging" => left' = left - n
  PROVE  FileInv'
<1>1. FileTypeOK /\ TiersAgree /\ SourceApart /\ CopiedSoFar /\ CanonicalApart
  BY DEF FileInv
<1>2. job = "copy" /\ rfd \in Node /\ wfd \in Node /\ wfd = entry["to"] /\ rfd # wfd
      /\ cells[rfd] \in had /\ result = "none" /\ Len(cells[wfd]) = off
      /\ entry["from"] \in Node /\ entry["to"] # entry["from"]
  BY <1>1 DEF FileTypeOK, TiersAgree, SourceApart, CopiedSoFar, Opened, Copying, Entries
<1>3. cells[rfd] \in Blocks /\ cells[wfd] \in Blocks
  BY <1>1, <1>2 DEF FileTypeOK
<1>4. n \in Nat /\ off + n <= Len(cells[rfd]) /\ off \in Nat
  <2>1. Len(cells[rfd]) \in Nat /\ off \in Nat
    BY <1>1, <1>3 DEF FileTypeOK, Blocks
  <2> QED BY <2>1 DEF Available
<1> DEFINE x == SubSeq(cells[wfd], 1, off) \o SubSeq(cells[rfd], off + 1, off + n)
                                       \o SubSeq(cells[wfd], off + n + 1, Len(cells[wfd]))
<1>5. /\ x \in Blocks /\ Len(x) = off + n
      /\ \A k \in 1..off : x[k] = cells[wfd][k]
      /\ \A k \in 1..(off + n) : k > off => x[k] = cells[rfd][k]
  <2>1. PICK c \in Blocks : c = cells[wfd]
    BY <1>3
  <2>2. PICK r \in Blocks : r = cells[rfd]
    BY <1>3
  <2>3. Len(c) = off /\ Len(c) + n <= Len(r)
    BY <1>2, <1>4, <2>1, <2>2
  <2>4. x = SubSeq(c, 1, Len(c)) \o SubSeq(r, Len(c) + 1, Len(c) + n)
                                 \o SubSeq(c, Len(c) + n + 1, Len(c))
    BY <2>1, <2>2, <2>3, Zenon
  <2> HIDE DEF x
  <2>5. /\ x \in Blocks
        /\ Len(x) = Len(c) + n
        /\ \A k \in 1..Len(c) : x[k] = c[k]
        /\ \A k \in 1..(Len(c) + n) : k > Len(c) => x[k] = r[k]
    BY <1>4, <2>3, <2>4, SpliceAtEnd DEF Blocks
  <2> QED BY <2>1, <2>2, <2>3, <2>5
<1>6. /\ cells' = [cells EXCEPT ![wfd] = x]
      /\ off' = off + n /\ at' = at
      /\ UNCHANGED <<entry, rfd, wfd, result, os, job, canon, found, had, changes>>
  BY DEF Moves, Comes
<1> HIDE DEF x
<1>7. cells'[wfd] = x /\ \A i \in Node : i # wfd => cells'[i] = cells[i]
  BY <1>1, <1>2, <1>6 DEF FileTypeOK
<1>8. FileTypeOK'
  <2>1. cells' \in [Node -> Blocks]
    BY <1>1, <1>2, <1>5, <1>6 DEF FileTypeOK
  <2>2. off' \in Nat
    BY <1>4, <1>6
  <2> QED
    BY <1>1, <1>6, <2>1, <2>2 DEF FileTypeOK
<1>9. TiersAgree'
  BY <1>1, <1>6 DEF TiersAgree
<1>10. SourceApart'
  BY <1>1, <1>2, <1>6, <1>7 DEF SourceApart, Source
<1>11. CopiedSoFar'
  <2>1. Len(cells'[wfd']) = off'
    BY <1>5, <1>6, <1>7
  <2>2. ASSUME NEW k \in 1..off'
        PROVE  \E d \in had : k \in DOMAIN d /\ d[k] = cells'[wfd'][k]
    <3>1. CASE k <= off
      <4>1. k \in 1..off
        BY <1>4, <1>6, <2>2, <3>1
      <4>2. PICK d \in had : k \in DOMAIN d /\ d[k] = cells[wfd][k]
        BY <1>1, <4>1 DEF CopiedSoFar
      <4> QED BY <1>5, <1>6, <1>7, <4>1, <4>2
    <3>2. CASE k > off
      <4>1. k \in 1..(off + n)
        BY <1>6, <2>2
      <4>2. x[k] = cells[rfd][k]
        BY <1>5, <3>2, <4>1
      <4>3. k \in DOMAIN cells[rfd]
        BY <1>3, <1>4, <4>1 DEF Blocks
      <4> QED BY <1>2, <1>6, <1>7, <4>2, <4>3
    <3> QED BY <1>4, <2>2, <1>6, <3>1, <3>2
  <2>3. at = "ranging" => \E d \in had : Len(d) = off' + left'
    <3> SUFFICES ASSUME at = "ranging" PROVE \E d \in had : Len(d) = off' + left'
      OBVIOUS
    <3>1. left \in Nat /\ left' = left - n
      BY <1>1 DEF FileTypeOK
    <3>2. off' + left' = off + left
      BY <1>4, <1>6, <3>1
    <3> QED BY <1>1, <3>2 DEF CopiedSoFar
  <2> QED
    BY <1>6, <2>1, <2>2, <2>3 DEF CopiedSoFar
<1>12. CanonicalApart'
  BY <1>2, <1>6 DEF CanonicalApart
<1>13. CopyIsOfSource' /\ LinkKeepsCanonical' /\ LinkFindsName'
  BY <1>2, <1>6 DEF CopyIsOfSource, LinkKeepsCanonical, LinkFindsName, Copying
<1> QED
  BY <1>8, <1>9, <1>10, <1>11, <1>12, <1>13 DEF FileInv

\* A tier gives up and leaves the files, or removes the destination.
LEMMA FallsKeeps ==
  ASSUME FileInv, at # "end", NEW p, FallsTo(p), UNCHANGED cells,
         entry' \in {entry, [entry EXCEPT !["to"] = NoFile]},
         \/ job = "copy" /\ p \in {"buffered", "kernel"}
         \/ /\ job # "copy" /\ p = "link"
            /\ found = "free" /\ os # "windows" => entry'["to"] = NoFile
  PROVE  FileInv'
<1>1. FileTypeOK /\ TiersAgree /\ SourceApart /\ CanonicalApart /\ LinkKeepsCanonical
  BY DEF FileInv
<1>2. /\ rfd' = NoFile /\ wfd' = NoFile /\ off' = 0 /\ left' = 0 /\ at' = p
      /\ UNCHANGED <<os, job, canon, found, had, changes, result, cells>>
  BY DEF FallsTo, Closed, Comes
<1>3. /\ entry' \in [Entries -> Node \cup {NoFile}]
      /\ entry'["from"] = entry["from"] /\ entry'["to"] \in {entry["to"], NoFile}
      /\ entry["from"] \in Node
  BY <1>1 DEF FileTypeOK, Entries
<1>4. result = "none" /\ p \notin Opened /\ p # "end"
  BY <1>1 DEF TiersAgree, Opened, Copying
<1>5. FileTypeOK'
  BY <1>1, <1>2, <1>3 DEF FileTypeOK, Points
<1>6. TiersAgree'
  BY <1>1, <1>2, <1>4 DEF TiersAgree, Opened, Copying
<1>7. SourceApart' /\ CopiedSoFar' /\ CanonicalApart'
  <2>1. SourceApart'
    BY <1>1, <1>2, <1>3, <1>4, FileAssumption DEF SourceApart, Source
  <2>2. CopiedSoFar'
    BY <1>2 DEF CopiedSoFar, Copying
  <2>3. CanonicalApart'
    BY <1>1, <1>2, <1>4 DEF CanonicalApart
  <2> QED BY <2>1, <2>2, <2>3
<1>8. LinkKeepsCanonical'
  BY <1>1, <1>2, <1>3, <1>4 DEF LinkKeepsCanonical, Source
<1>9. CopyIsOfSource' /\ LinkFindsName'
  BY <1>2, <1>4 DEF CopyIsOfSource, LinkFindsName
<1> QED
  BY <1>5, <1>6, <1>7, <1>8, <1>9 DEF FileInv

\* The call returns, and files and names stay as they are.
LEMMA ReturnsKeeps ==
  ASSUME FileInv, at # "end", NEW r, Returns(r), UNCHANGED <<entry, cells>>,
         \/ r = "failed"
         \/ r = "ok" /\ at \in Copying /\ Available <= 0
         \/ r = "ok" /\ at = "ranging" /\ left = 0
  PROVE  FileInv'
<1>1. FileTypeOK /\ TiersAgree /\ SourceApart /\ CopiedSoFar /\ CanonicalApart
      /\ LinkKeepsCanonical
  BY DEF FileInv
<1>2. /\ rfd' = NoFile /\ wfd' = NoFile /\ off' = 0 /\ left' = 0 /\ at' = "end"
      /\ result' = r
      /\ UNCHANGED <<os, job, canon, found, had, changes, cells, entry>>
  BY DEF Returns, Closed, Comes
<1>3. FileTypeOK'
  BY <1>1, <1>2 DEF FileTypeOK, Points
<1>4. TiersAgree'
  BY <1>1, <1>2 DEF TiersAgree, Opened, Copying
<1>5. SourceApart' /\ CopiedSoFar' /\ CanonicalApart'
  BY <1>1, <1>2 DEF SourceApart, CopiedSoFar, CanonicalApart, Opened, Copying, Source
<1>6. LinkKeepsCanonical' /\ LinkFindsName'
  BY <1>1, <1>2 DEF LinkKeepsCanonical, LinkFindsName, Source
<1>7. CopyIsOfSource'
  <2> SUFFICES ASSUME r = "ok" PROVE CopyIsOfSource'
    BY <1>2 DEF CopyIsOfSource
  <2>1. at \in Copying
    BY DEF Copying
  <2>2. /\ wfd = entry["to"] /\ wfd \in Node /\ wfd # NoFile /\ rfd \in Node
        /\ cells[rfd] \in had
    BY <1>1, <2>1 DEF TiersAgree, FileTypeOK, SourceApart, Opened, Copying
  <2>3. /\ Len(Dest) = off
        /\ \A k \in 1..off : \E d \in had : k \in DOMAIN d /\ d[k] = Dest[k]
    BY <1>1, <2>1, <2>2 DEF CopiedSoFar, Dest
  <2>4. DOMAIN Dest = 1..off
    BY <1>1, <2>2, <2>3 DEF FileTypeOK, Blocks, Dest
  <2>5. \E d \in had : Len(d) <= Len(Dest)
    <3>0. off \in Nat /\ left \in Nat
      BY <1>1 DEF FileTypeOK
    <3>1. CASE Available <= 0
      <4>1. Len(cells[rfd]) \in Nat
        BY <1>1, <2>2 DEF FileTypeOK, Blocks
      <4>2. Len(cells[rfd]) <= off
        BY <3>0, <3>1, <4>1 DEF Available
      <4> QED BY <2>2, <2>3, <4>2
    <3>2. CASE at = "ranging" /\ left = 0
      <4>1. PICK d \in had : Len(d) = off + left
        BY <1>1, <3>2 DEF CopiedSoFar
      <4>2. Len(d) <= off
        BY <3>0, <3>2, <4>1
      <4> QED BY <2>3, <4>2
    <3> QED BY <3>1, <3>2
  <2>6. Dest' = Dest /\ had' = had /\ entry' = entry
    BY <1>2 DEF Dest
  <2> QED
    BY <2>2, <2>3, <2>4, <2>5, <2>6 DEF CopyIsOfSource
<1> QED
  BY <1>3, <1>4, <1>5, <1>6, <1>7 DEF FileInv

\* The call returns with the whole source in the destination: a clone or a link.
LEMMA ClonesKeep ==
  ASSUME FileInv, at # "end", NEW r \in {"ok", "cloned", "linked"}, Returns(r),
         cells' \in [Node -> Blocks],
         entry' \in [Entries -> Node \cup {NoFile}],
         entry'["from"] = entry["from"], entry'["to"] \in Node,
         Source' = Source,
         ~(os = "linux" /\ job = "clone" /\ found = "linked") => Dest' \in had,
         job = "copy" <=> r = "ok",
         job = "copy" => entry'["to"] # entry["from"]
  PROVE  FileInv'
<1>1. FileTypeOK /\ TiersAgree /\ SourceApart /\ CanonicalApart /\ LinkKeepsCanonical
  BY DEF FileInv
<1>2. /\ rfd' = NoFile /\ wfd' = NoFile /\ off' = 0 /\ left' = 0 /\ at' = "end"
      /\ result' = r
      /\ UNCHANGED <<os, job, canon, found, had, changes>>
  BY DEF Returns, Closed, Comes
<1>3. FileTypeOK'
  BY <1>1, <1>2 DEF FileTypeOK, Points
<1>4. TiersAgree'
  BY <1>1, <1>2 DEF TiersAgree, Opened, Copying
<1>5. SourceApart' /\ CopiedSoFar' /\ CanonicalApart'
  BY <1>1, <1>2 DEF SourceApart, CopiedSoFar, CanonicalApart, Opened, Copying
<1>6. LinkKeepsCanonical'
  <2>1. job # "copy" /\ ~(os = "linux" /\ job = "clone" /\ found = "linked") => Dest' = canon
    BY <1>1 DEF CanonicalApart
  <2> QED BY <1>1, <1>2, <2>1 DEF LinkKeepsCanonical
<1>7. LinkFindsName'
  BY <1>2 DEF LinkFindsName
<1>8. CopyIsOfSource'
  <2> SUFFICES ASSUME r = "ok" PROVE CopyIsOfSource'
    BY <1>2 DEF CopyIsOfSource
  <2>1. Dest' \in Blocks /\ Len(Dest') \in Nat
    BY DEF Dest, Blocks
  <2>2. had' = had /\ Dest' \in had /\ entry'["to"] # NoFile
    BY <1>2, FileAssumption
  <2>3. \A k \in DOMAIN Dest' : \E d \in had' : k \in DOMAIN d /\ d[k] = Dest'[k]
    BY <2>2
  <2>4. \E d \in had' : Len(d) <= Len(Dest')
    BY <2>1, <2>2
  <2> QED
    BY <2>2, <2>3, <2>4 DEF CopyIsOfSource
<1> QED
  BY <1>3, <1>4, <1>5, <1>6, <1>7, <1>8 DEF FileInv

\* SetEndOfFile gives the new file its size.
LEMMA ExtendKeeps ==
  ASSUME FileInv, RefsExtend
  PROVE  FileInv'
<1>1. FileTypeOK /\ TiersAgree /\ SourceApart /\ CanonicalApart /\ LinkKeepsCanonical
  BY DEF FileInv
<1>2. /\ at = "created" /\ at' = "extended"
      /\ cells' = [cells EXCEPT ![wfd] = [k \in 1..Len(cells[rfd]) |-> Zero]]
      /\ UNCHANGED <<os, job, canon, found, had, changes, entry, rfd, wfd, off, left, result>>
  BY DEF RefsExtend, Comes
<1>3. /\ rfd \in Node /\ wfd \in Node /\ wfd = entry["to"] /\ os = "windows" /\ result = "none"
      /\ entry["from"] \in Node
  BY <1>1, <1>2 DEF TiersAgree, FileTypeOK, Opened, Copying, Entries
<1>4. rfd # wfd /\ wfd # entry["from"]
  BY <1>1, <1>2, <1>3 DEF SourceApart, CanonicalApart, Opened, FileTypeOK
<1>5. [k \in 1..Len(cells[rfd]) |-> Zero] \in Blocks
  <2>1. Len(cells[rfd]) \in Nat
    BY <1>1, <1>3 DEF FileTypeOK, Blocks
  <2> QED BY <2>1 DEF Blocks
<1>6. cells' \in [Node -> Blocks] /\ \A i \in Node : i # wfd => cells'[i] = cells[i]
  BY <1>1, <1>2, <1>3, <1>5 DEF FileTypeOK
<1>7. Source' = Source /\ cells'[rfd] = cells[rfd]
  BY <1>2, <1>3, <1>4, <1>6 DEF Source
<1>8. FileTypeOK'
  BY <1>1, <1>2, <1>6 DEF FileTypeOK, Points
<1>9. TiersAgree'
  BY <1>1, <1>2 DEF TiersAgree, Opened, Copying
<1>10. SourceApart' /\ CopiedSoFar' /\ CanonicalApart'
  BY <1>1, <1>2, <1>7 DEF SourceApart, CopiedSoFar, CanonicalApart, Opened, Copying
<1>11. LinkKeepsCanonical' /\ LinkFindsName' /\ CopyIsOfSource'
  BY <1>1, <1>2, <1>3, <1>7 DEF LinkKeepsCanonical, LinkFindsName, CopyIsOfSource
<1> QED
  BY <1>8, <1>9, <1>10, <1>11 DEF FileInv

\* The source is edited in place, or another file takes its name.
LEMMA EditKeeps ==
  ASSUME FileInv, EditSource
  PROVE  FileInv'
<1>1. FileTypeOK /\ TiersAgree /\ SourceApart /\ CopiedSoFar /\ CanonicalApart
  BY DEF FileInv
<1>2. PICK n \in 0..MaxLen : \E d \in [1..n -> Cell] :
        /\ \/ cells' = [cells EXCEPT ![entry["from"]] = d] /\ UNCHANGED entry
           \/ /\ cells' = [cells EXCEPT ![NewNode] = d]
              /\ entry' = [entry EXCEPT !["from"] = NewNode]
        /\ had' = had \cup {d}
  BY DEF EditSource
<1>3. PICK d \in [1..n -> Cell] :
        /\ \/ cells' = [cells EXCEPT ![entry["from"]] = d] /\ UNCHANGED entry
           \/ /\ cells' = [cells EXCEPT ![NewNode] = d]
              /\ entry' = [entry EXCEPT !["from"] = NewNode]
        /\ had' = had \cup {d}
  BY <1>2
<1>4. /\ job = "copy" /\ at # "end" /\ changes < SourceEdits /\ changes' = changes + 1
      /\ UNCHANGED <<os, job, at, rfd, wfd, off, left, result, canon, found>>
  BY DEF EditSource
<1>5. d \in Blocks
  <2>1. n \in Nat
    BY FileAssumption
  <2> QED BY <2>1 DEF Blocks
<1>6. /\ NewNode \in Node
      /\ NewNode \notin {entry["from"], entry["to"], entry["other"], rfd, wfd}
  BY <1>1, NewNodeIsNew
<1>7. entry["from"] \in Node /\ entry["to"] \in Node \cup {NoFile} /\ entry["to"] # entry["from"]
  BY <1>1, <1>4 DEF FileTypeOK, SourceApart, Entries
<1>8. /\ entry' \in [Entries -> Node \cup {NoFile}]
      /\ entry'["to"] = entry["to"] /\ entry'["from"] \in Node
      /\ entry'["from"] # entry["to"]
      /\ cells' = [cells EXCEPT ![entry'["from"]] = d]
      /\ entry'["from"] \in {entry["from"], NewNode}
  <2>1. CASE UNCHANGED entry /\ cells' = [cells EXCEPT ![entry["from"]] = d]
    BY <1>1, <1>7, <2>1 DEF FileTypeOK
  <2>2. CASE entry' = [entry EXCEPT !["from"] = NewNode] /\ cells' = [cells EXCEPT ![NewNode] = d]
    BY <1>1, <1>6, <1>7, <2>2 DEF FileTypeOK, Entries
  <2> QED BY <1>3, <2>1, <2>2
<1>9. /\ cells' \in [Node -> Blocks] /\ cells'[entry'["from"]] = d
      /\ \A i \in Node : i # entry'["from"] => cells'[i] = cells[i]
  BY <1>1, <1>5, <1>8 DEF FileTypeOK
<1>10. FileTypeOK'
  <2>1. changes' \in 0..SourceEdits
    BY <1>1, <1>4, FileAssumption DEF FileTypeOK
  <2>2. had' \subseteq Blocks /\ canon \in had'
    BY <1>1, <1>3, <1>5 DEF FileTypeOK
  <2> QED
    BY <1>1, <1>4, <1>8, <1>9, <2>1, <2>2, FileAssumption DEF FileTypeOK
<1>11. TiersAgree'
  BY <1>1, <1>4, <1>8 DEF TiersAgree
<1>12. at \in Opened => /\ rfd \in Node /\ wfd = entry["to"] /\ wfd \in Node
                        /\ cells'[wfd] = cells[wfd]
                        /\ cells'[rfd] \in {cells[rfd], d}
  BY <1>1, <1>7, <1>8, <1>9 DEF TiersAgree, FileTypeOK
<1>13. SourceApart'
  BY <1>1, <1>3, <1>4, <1>8, <1>9, <1>12 DEF SourceApart, Source
<1>14. CopiedSoFar'
  BY <1>1, <1>3, <1>4, <1>12 DEF CopiedSoFar, Opened
<1>15. result' = "none"
  BY <1>1, <1>4 DEF TiersAgree
<1>16. CanonicalApart' /\ CopyIsOfSource' /\ LinkKeepsCanonical' /\ LinkFindsName'
  BY <1>1, <1>4, <1>15
     DEF CanonicalApart, CopyIsOfSource, LinkKeepsCanonical, LinkFindsName, TiersAgree
<1> QED
  BY <1>10, <1>11, <1>13, <1>14, <1>16 DEF FileInv

LEMMA CloneStepsKeep ==
  ASSUME FileInv, CloneFile \/ RefsClone \/ Reflink \/ MakeLink
  PROVE  FileInv'
<1>1. FileTypeOK /\ TiersAgree /\ SourceApart /\ CanonicalApart /\ LinkKeepsCanonical
  BY DEF FileInv
<1>2. /\ NewNode \in Node
      /\ NewNode \notin {entry["from"], entry["to"], entry["other"], rfd, wfd}
  BY <1>1, NewNodeIsNew
<1>3. entry \in [Entries -> Node \cup {NoFile}] /\ entry["from"] \in Node
      /\ cells \in [Node -> Blocks] /\ cells[entry["from"]] \in Blocks
  BY <1>1 DEF FileTypeOK, Entries
<1>4. at # "end" => \/ job = "copy" /\ Source \in had
                    \/ os = "linux" /\ job = "clone" /\ found = "linked"
                    \/ job # "copy" /\ Source = canon /\ had = {canon}
  BY <1>1 DEF SourceApart, CanonicalApart, LinkKeepsCanonical
<1>5. job \in {"copy", "clone", "link"}
  BY <1>1 DEF FileTypeOK
<1>6. ASSUME CloneFile PROVE FileInv'
  <2>1. /\ at = "clonefile" /\ entry["to"] = NoFile /\ Returns(Cloned) /\ at # "end"
        /\ entry' = [entry EXCEPT !["to"] = NewNode]
        /\ cells' = [cells EXCEPT ![NewNode] = Source]
    BY <1>6 DEF CloneFile
  <2>2. /\ entry' \in [Entries -> Node \cup {NoFile}]
        /\ entry'["from"] = entry["from"] /\ entry'["to"] = NewNode
    BY <1>2, <1>3, <2>1 DEF Entries
  <2>3. cells' \in [Node -> Blocks] /\ cells'[NewNode] = Source
        /\ cells'[entry["from"]] = cells[entry["from"]]
    BY <1>2, <1>3, <2>1 DEF Source
  <2>4. Source' = Source /\ Dest' = Source
    BY <2>2, <2>3 DEF Source, Dest
  <2>5. Cloned \in {"ok", "cloned", "linked"} /\ (job = "copy" <=> Cloned = "ok")
    BY DEF Cloned
  <2>6. ~(os = "linux" /\ job = "clone" /\ found = "linked") => Dest' \in had
    BY <1>4, <2>1, <2>4
  <2>7. entry'["to"] \in Node /\ entry'["to"] # entry["from"]
    BY <1>2, <2>2
  <2> HIDE DEF Cloned
  <2> QED BY <2>1, <2>2, <2>3, <2>4, <2>5, <2>6, <2>7, ClonesKeep
<1>7. ASSUME at \in {"extended", "ficlone"}, NEW r \in {"ok", "cloned"}, Returns(r),
             job = "copy" <=> r = "ok",
             cells' = [cells EXCEPT ![wfd] = cells[rfd]], UNCHANGED entry
      PROVE  FileInv'
  <2>1. /\ rfd \in Node /\ wfd \in Node /\ wfd = entry["to"] /\ at \in Opened /\ at # "end"
        /\ cells[rfd] \in Blocks
    BY <1>1, <1>7 DEF TiersAgree, FileTypeOK, Opened, Copying
  <2>2. cells' \in [Node -> Blocks] /\ cells'[wfd] = cells[rfd]
        /\ \A i \in Node : i # wfd => cells'[i] = cells[i]
    BY <1>3, <1>7, <2>1
  <2>3. wfd = entry["from"] => rfd = entry["from"]
    BY <1>1, <2>1 DEF SourceApart, CanonicalApart
  <2>4. Source' = Source
    BY <1>3, <1>7, <2>2, <2>3 DEF Source
  <2>5. Dest' = cells[rfd]
    BY <1>7, <2>1, <2>2 DEF Dest
  <2>6. ~(os = "linux" /\ job = "clone" /\ found = "linked") => Dest' \in had
    <3>1. CASE job = "copy"
      BY <1>1, <2>1, <2>5, <3>1 DEF SourceApart
    <3>2. CASE job # "copy"
      <4>1. rfd = entry["from"]
        BY <1>1, <2>1, <3>2 DEF CanonicalApart
      <4>2. Dest' = Source
        BY <2>5, <4>1 DEF Source
      <4> QED BY <1>4, <2>1, <3>2, <4>2
    <3> QED BY <3>1, <3>2
  <2>7. job = "copy" => entry'["to"] # entry["from"]
    BY <1>1, <1>7 DEF SourceApart
  <2>8. r \in {"ok", "cloned", "linked"} /\ entry' = entry /\ entry'["to"] \in Node
    BY <1>7, <2>1
  <2> QED BY <1>3, <1>7, <2>1, <2>2, <2>4, <2>6, <2>7, <2>8, ClonesKeep
<1>8. ASSUME RefsClone PROVE FileInv'
  <2>1. Cloned \in {"ok", "cloned"} /\ (job = "copy" <=> Cloned = "ok")
    BY DEF Cloned
  <2> QED BY <1>7, <1>8, <2>1 DEF RefsClone
<1>9. ASSUME Reflink PROVE FileInv'
  <2>1. job # "copy" /\ at = "ficlone"
    BY <1>1, <1>9 DEF Reflink, TiersAgree
  <2> QED BY <1>7, <1>9, <2>1 DEF Reflink
<1>10. ASSUME MakeLink PROVE FileInv'
  <2>1. /\ at = "link" /\ entry["to"] = NoFile /\ Returns("linked") /\ at # "end"
        /\ entry' = [entry EXCEPT !["to"] = entry["from"]] /\ cells' = cells
        /\ job # "copy"
    BY <1>1, <1>10 DEF MakeLink, TiersAgree
  <2>2. /\ entry' \in [Entries -> Node \cup {NoFile}]
        /\ entry'["from"] = entry["from"] /\ entry'["to"] = entry["from"]
    BY <1>3, <2>1 DEF Entries
  <2>3. Source' = Source /\ Dest' = Source
    BY <2>1, <2>2 DEF Source, Dest
  <2>4. ~(os = "linux" /\ job = "clone" /\ found = "linked") => Dest' \in had
    BY <1>4, <2>1, <2>3
  <2> QED BY <1>3, <2>1, <2>2, <2>3, <2>4, ClonesKeep
<1> QED BY <1>6, <1>8, <1>9, <1>10

LEMMA FileStepInv == FileInv /\ [FileNext]_fileVars => FileInv'
<1> SUFFICES ASSUME FileInv, [FileNext]_fileVars PROVE FileInv'
  OBVIOUS
<1>1. FileTypeOK /\ TiersAgree /\ CanonicalApart /\ LinkFindsName
  BY DEF FileInv
<1>2. entry \in [Entries -> Node \cup {NoFile}] /\ left \in Nat /\ 0 \in Nat
  BY <1>1 DEF FileTypeOK
<1>3. [entry EXCEPT !["to"] = NoFile]["to"] = NoFile
  BY <1>2 DEF Entries
<1>4. CASE RangeOpen
  <2>1. Source \in Blocks
    BY <1>1 DEF FileTypeOK, Source, Entries
  <2>2. left' \in Nat
    BY <1>4, <2>1 DEF RangeOpen, Blocks
  <2> QED BY <1>1, <1>4, <2>2, OpensKeeps DEF RangeOpen, Opened, Copying, TiersAgree
<1>5. CASE BufferedOpen
  BY <1>1, <1>2, <1>5, OpensKeeps DEF BufferedOpen, Opened, Copying, TiersAgree
<1>6. CASE KernelOpen
  BY <1>1, <1>2, <1>6, OpensKeeps DEF KernelOpen, Opened, Copying, TiersAgree
<1>7. CASE RefsCreate
  BY <1>1, <1>2, <1>7, OpensKeeps DEF RefsCreate, Opened, Copying, TiersAgree
<1>8. CASE ReflinkOpen
  BY <1>1, <1>2, <1>8, OpensKeeps DEF ReflinkOpen, Opened, Copying, TiersAgree
<1>9. CASE RangeChunk
  <2>1. PICK n \in 1..Available : n <= left /\ Moves(n) /\ left' = left - n
    BY <1>9 DEF RangeChunk
  <2>2. left' \in Nat
    BY <1>2, <2>1
  <2> QED BY <1>9, <2>1, <2>2, MovesKeeps DEF RangeChunk, Copying
<1>10. CASE BufferedChunk
  BY <1>2, <1>10, MovesKeeps DEF BufferedChunk, Copying
<1>11. CASE KernelChunk
  BY <1>2, <1>11, MovesKeeps DEF KernelChunk, Copying
<1>12. CASE RangeEnds
  BY <1>12, ReturnsKeeps DEF RangeEnds, Copying
<1>13. CASE BufferedEnds
  BY <1>13, ReturnsKeeps DEF BufferedEnds, Copying
<1>14. CASE KernelEnds
  BY <1>14, ReturnsKeeps DEF KernelEnds, Copying
<1>15. CASE BufferedFails
  BY <1>15, ReturnsKeeps DEF BufferedFails
<1>16. CASE MakeLinkFails
  BY <1>16, ReturnsKeeps DEF MakeLinkFails
<1>17. CASE RangeUnsupported
  BY <1>1, <1>17, FallsKeeps DEF RangeUnsupported, RemovesDest, TiersAgree, Copying
<1>18. CASE RangeFails
  BY <1>1, <1>18, FallsKeeps DEF RangeFails, TiersAgree, Copying
<1>19. CASE KernelFails
  BY <1>1, <1>19, FallsKeeps DEF KernelFails, RemovesDest, TiersAgree, Copying
<1>20. CASE CloneFileFails
  <2>1. job # "copy" => (found = "free" => entry["to"] = NoFile)
    BY <1>1, <1>20 DEF CloneFileFails, CanonicalApart
  <2> QED BY <1>20, <2>1, FallsKeeps DEF CloneFileFails
<1>21. CASE RefsFails
  BY <1>1, <1>21, FallsKeeps DEF RefsFails, TiersAgree
<1>22. CASE ReflinkFails
  <2>1. job = "clone" /\ (at = "reflink" /\ found = "free" => entry["to"] = NoFile)
    BY <1>1, <1>22 DEF ReflinkFails, TiersAgree, CanonicalApart
  <2> QED BY <1>3, <1>22, <2>1, FallsKeeps DEF ReflinkFails, RemovesDest
<1>23. CASE RefsExtend
  BY <1>23, ExtendKeeps
<1>24. CASE CloneFile \/ RefsClone \/ Reflink \/ MakeLink
  BY <1>24, CloneStepsKeep
<1>25. CASE EditSource
  BY <1>25, EditKeeps
<1>26. CASE UNCHANGED fileVars
  BY <1>26 DEF FileInv, fileVars, FileTypeOK, TiersAgree, SourceApart, CopiedSoFar,
               CanonicalApart, CopyIsOfSource, LinkKeepsCanonical, LinkFindsName,
               Source, Dest
<1> QED
  BY <1>4, <1>5, <1>6, <1>7, <1>8, <1>9, <1>10, <1>11, <1>12, <1>13, <1>14, <1>15, <1>16,
     <1>17, <1>18, <1>19, <1>20, <1>21, <1>22, <1>23, <1>24, <1>25, <1>26
     DEF FileNext, FileStep

\* The inductive invariant of the copy or link of one file, on every system: what
\* the tiers have open, where the blocks come from, and the three invariants below
\* (copy.rs copy_large_file and apply_dedup_link).
THEOREM FileInductive == FileSpec => []FileInv
BY FileInitInv, FileStepInv, PTL DEF FileSpec

\* A large file that was copied without an error is made of the source's own
\* blocks, however often and however the source is edited meanwhile.
THEOREM CopyIsOfSourceHolds == FileSpec => []CopyIsOfSource
<1>1. FileInv => CopyIsOfSource
  BY DEF FileInv
<1> QED BY <1>1, FileInductive, PTL

\* Cloning or linking a duplicate leaves the canonical copy as it was, the clone
\* tier of Linux for a duplicate that is a hard link already excepted.
THEOREM LinkKeepsCanonicalHolds == FileSpec => []LinkKeepsCanonical
<1>1. FileInv => LinkKeepsCanonical
  BY DEF FileInv
<1> QED BY <1>1, FileInductive, PTL

\* A clone tier that gives up leaves nothing in the way of the hard link, but on
\* Windows.
THEOREM LinkFindsNameHolds == FileSpec => []LinkFindsName
<1>1. FileInv => LinkFindsName
  BY DEF FileInv
<1> QED BY <1>1, FileInductive, PTL

-----------------------------------------------------------------------------
(* TarBatch: the archive of a batch                                         *)

\* A block is added to the archive.
LEMMA Appended ==
  ASSUME TarTypeOK, NEW b \in Chunk \cup Headers, archive' = Append(archive, b)
  PROVE  /\ archive' \in Seq(Chunk \cup Headers)
         /\ Len(archive) \in Nat /\ Len(archive') = Len(archive) + 1
         /\ DOMAIN archive = 1..Len(archive) /\ DOMAIN archive' = 1..(Len(archive) + 1)
         /\ \A k \in 1..Len(archive) : archive'[k] = archive[k]
         /\ archive'[Len(archive) + 1] = b
BY DEF TarTypeOK

LEMMA TextsAreSequences ==
  \A d \in Texts : d \in Seq(Chunk) /\ Len(d) \in 0..MaxBlocks /\ DOMAIN d = 1..Len(d)
<1> SUFFICES ASSUME NEW d \in Texts
             PROVE  d \in Seq(Chunk) /\ Len(d) \in 0..MaxBlocks /\ DOMAIN d = 1..Len(d)
  OBVIOUS
<1>1. PICK n \in 0..MaxBlocks : d \in [1..n -> Chunk]
  BY DEF Texts
<1>2. n \in Nat
  BY TarAssumption
<1>3. d \in Seq(Chunk) /\ Len(d) = n
  BY <1>1, <1>2
<1> QED BY <1>1, <1>3

\* A header names a file and a size.
LEMMA HeaderTypes ==
  ASSUME NEW h \in Headers
  PROVE  h.of \in Smalls /\ h.size \in 0..MaxBlocks /\ h.of \in Nat /\ h.size \in Nat
BY TarAssumption DEF Headers, Smalls

LEMMA TarTypes ==
  ASSUME TarTypeOK
  PROVE  /\ Len(archive) \in Nat /\ DOMAIN archive = 1..Len(archive)
         /\ \A k \in 1..Len(archive) : archive[k] \in Chunk \cup Headers
         /\ packing \in Nat /\ packing <= Count + 1 /\ Count \in Nat
         /\ reader \in Nat /\ position \in Nat /\ Begun \in Nat
         /\ packing \in Smalls => packing <= Count
         /\ \A i \in Smalls : small[i] \in Texts /\ held[i] \subseteq Texts
BY TarAssumption DEF TarTypeOK, Smalls, NotOpen, Begun

LEMMA TarInitInv == TarInit => TarInv
<1> SUFFICES ASSUME TarInit PROVE TarInv
  OBVIOUS
<1>1. /\ small \in [Smalls -> Texts] /\ listed = [i \in Smalls |-> Len(small[i])]
      /\ archive = <<>> /\ packing = 1 /\ reader = NotOpen /\ position = 1
      /\ placed = [i \in Smalls |-> Unset]
      /\ tar = "pack" /\ packErrors = {}
      /\ held = [i \in Smalls |-> {}] /\ steady = Smalls /\ writes = 0
  BY DEF TarInit
<1>2. TarTypeOK
  <2>1. listed \in [Smalls -> 0..MaxBlocks]
    BY <1>1, TextsAreSequences
  <2>2. archive \in Seq(Chunk \cup Headers) /\ Len(archive) = 0
    BY <1>1
  <2>3. packing \in 1..(Count + 1) /\ reader \in 0..NotOpen /\ position \in 1..(Len(archive) + 1)
    BY <1>1, <2>2, TarAssumption DEF NotOpen
  <2>4. writes \in 0..MaxWrites
    BY <1>1, TarAssumption
  <2> QED BY <1>1, <2>1, <2>2, <2>3, <2>4 DEF TarTypeOK
<1>3. DOMAIN archive = {}
  BY <1>1
<1>4. ~Reading /\ Begun = 0
  BY <1>1 DEF Reading, Begun
<1>5. 1..Begun = {}
  BY <1>4
<1>6. HeadersInOrder
  BY <1>1, <1>3, <1>5 DEF HeadersInOrder
<1>7. SegmentsSound /\ NothingBetween
  BY <1>3 DEF SegmentsSound, NothingBetween
<1>8. UnpackedSoFar /\ SteadyBatchIsWhole
  BY <1>1 DEF UnpackedSoFar, SteadyBatchIsWhole
<1> QED BY <1>2, <1>6, <1>7, <1>8 DEF TarInv

\* Another program edits a file.
LEMMA EditSmallKeeps ==
  ASSUME TarInv, NEW i \in Smalls, EditSmall(i)
  PROVE  TarInv'
<1>1. TarTypeOK /\ HeadersInOrder /\ SegmentsSound /\ NothingBetween /\ UnpackedSoFar
  BY DEF TarInv
<1>2. PICK d \in Texts \ {small[i]} :
        /\ small' = [small EXCEPT ![i] = d]
        /\ IF i = packing /\ Reading
           THEN /\ held' = [held EXCEPT ![i] = @ \cup {d}]
                /\ steady' = IF Len(d) = Len(small[i]) THEN steady ELSE steady \ {i}
           ELSE UNCHANGED <<held, steady>>
  BY DEF EditSmall
<1>3. /\ tar = "pack" /\ writes < MaxWrites /\ writes' = writes + 1
      /\ UNCHANGED <<listed, archive, packing, reader, packErrors, position, placed, tar>>
  BY DEF EditSmall, packVars
<1>4. steady' \subseteq steady /\ (Reading' <=> Reading) /\ Begun' = Begun
  BY <1>2, <1>3 DEF Reading, Begun
<1>5. \A j \in Smalls : held[j] \subseteq held'[j]
  BY <1>1, <1>2 DEF TarTypeOK
<1>6. TarTypeOK'
  <2>1. small' \in [Smalls -> Texts] /\ held' \in [Smalls -> SUBSET Texts]
    BY <1>1, <1>2 DEF TarTypeOK
  <2>2. steady' \subseteq Smalls
    BY <1>1, <1>4 DEF TarTypeOK
  <2>3. writes' \in 0..MaxWrites
    BY <1>1, <1>3, TarAssumption DEF TarTypeOK
  <2> QED BY <1>1, <1>3, <2>1, <2>2, <2>3 DEF TarTypeOK
<1>7. HeadersInOrder'
  BY <1>1, <1>3, <1>4 DEF HeadersInOrder, HeaderAt, HeaderOf, SteadyUpTo
<1>8. SegmentsSound'
  <2> SUFFICES ASSUME NEW k \in DOMAIN archive, HeaderAt(k),
                      1..archive[k].of \subseteq steady'
               PROVE  LET j == archive[k].of
                          n == IF Reading /\ j = packing THEN reader ELSE archive[k].size
                      IN  /\ k + n <= Len(archive)
                          /\ \A x \in 1..n : /\ archive[k + x] \in Chunk
                                              /\ \E e \in held'[j] : archive[k + x] = e[x]
                          /\ \E e \in held'[j] : Len(e) = archive[k].size
                          /\ Reading /\ j = packing =>
                               /\ Len(archive) = k + n
                               /\ small'[j] \in held'[j] /\ Len(small'[j]) = archive[k].size
    BY <1>3, <1>4 DEF SegmentsSound, HeaderAt, SteadyUpTo
  <2> DEFINE j == archive[k].of
             n == IF Reading /\ j = packing THEN reader ELSE archive[k].size
  <2>1. j \in Smalls /\ j \in Nat
    BY HeaderTypes DEF HeaderAt
  <2>2. /\ k + n <= Len(archive)
        /\ \A x \in 1..n : /\ archive[k + x] \in Chunk
                           /\ \E e \in held[j] : archive[k + x] = e[x]
        /\ \E e \in held[j] : Len(e) = archive[k].size
        /\ Reading /\ j = packing =>
             /\ Len(archive) = k + n
             /\ small[j] \in held[j] /\ Len(small[j]) = archive[k].size
    BY <1>1, <1>4 DEF SegmentsSound, SteadyUpTo
  <2> HIDE DEF n
  <2>3. Reading /\ j = packing => small'[j] \in held'[j] /\ Len(small'[j]) = archive[k].size
    <3> SUFFICES ASSUME Reading, j = packing
                 PROVE  small'[j] \in held'[j] /\ Len(small'[j]) = archive[k].size
      OBVIOUS
    <3>1. CASE i = packing
      <4>1. small'[j] = d /\ held'[j] = held[j] \cup {d}
        BY <1>1, <1>2, <3>1, <2>1 DEF TarTypeOK
      <4>2. j \in steady'
        BY <2>1 DEF Smalls
      <4>3. Len(d) = Len(small[j])
        BY <1>2, <3>1, <4>2
      <4> QED BY <2>2, <4>1, <4>3
    <3>2. CASE i # packing
      <4>1. small'[j] = small[j] /\ held' = held
        BY <1>1, <1>2, <3>2, <2>1 DEF TarTypeOK
      <4> QED BY <2>2, <4>1
    <3> QED BY <3>1, <3>2
  <2>4. \A x \in 1..n : \E e \in held'[j] : archive[k + x] = e[x]
    BY <1>5, <2>1, <2>2
  <2>5. \E e \in held'[j] : Len(e) = archive[k].size
    BY <1>5, <2>1, <2>2
  <2> QED BY <2>2, <2>3, <2>4, <2>5 DEF n
<1>9. NothingBetween'
  BY <1>1, <1>3, <1>4 DEF NothingBetween, HeaderAt, SteadyUpTo, Covered
<1>10. UnpackedSoFar' /\ SteadyBatchIsWhole'
  BY <1>1, <1>3 DEF UnpackedSoFar, SteadyBatchIsWhole
<1> QED BY <1>6, <1>7, <1>8, <1>9, <1>10 DEF TarInv

\* The header of the next file is written.
LEMMA PackHeaderKeeps ==
  ASSUME TarInv, PackHeader
  PROVE  TarInv'
<1>1. TarTypeOK /\ HeadersInOrder /\ SegmentsSound /\ NothingBetween /\ UnpackedSoFar
  BY DEF TarInv
<1> DEFINE h == [of |-> packing, size |-> Len(small[packing])]
<1>z. PICK z \in Nat : z = Len(archive) + 1
  BY <1>1, TarTypes
<1>2. /\ tar = "pack" /\ packing \in Smalls /\ reader = NotOpen
      /\ archive' = Append(archive, h)
      /\ reader' = 0 /\ held' = [held EXCEPT ![packing] = {small[packing]}]
      /\ UNCHANGED <<small, listed, packing, position, placed, tar, packErrors, steady, writes>>
  BY DEF PackHeader, Headed
<1>3. h \in Headers /\ h.of = packing /\ h.size = Len(small[packing])
      /\ small[packing] \in Texts
  BY <1>1, <1>2, TextsAreSequences DEF Headers, TarTypeOK
<1> HIDE DEF h
<1>4. /\ archive' \in Seq(Chunk \cup Headers)
      /\ Len(archive) \in Nat /\ Len(archive') = z /\ z = Len(archive) + 1
      /\ DOMAIN archive = 1..Len(archive) /\ DOMAIN archive' = 1..z
      /\ \A k \in 1..Len(archive) : archive'[k] = archive[k]
      /\ archive'[z] = h
  BY <1>z, <1>1, <1>2, <1>3, Appended
<1>5. ~Reading /\ Reading' /\ Begun = packing - 1 /\ Begun' = packing /\ packing \in Nat
      /\ packing <= Count /\ Count \in Nat
  BY <1>1, <1>2, TarTypes, TarAssumption DEF Reading, Begun, NotOpen
<1>6. /\ HeaderAt(z)' /\ \A k \in 1..Len(archive) : HeaderAt(k)' <=> HeaderAt(k)
      /\ \A i : HeaderOf(i) => HeaderOf(i)'
      /\ HeaderOf(packing)'
  <2>1. HeaderAt(z)' /\ \A k \in 1..Len(archive) : HeaderAt(k)' <=> HeaderAt(k)
    BY <1>3, <1>4 DEF HeaderAt
  <2>2. ASSUME NEW i, HeaderOf(i) PROVE HeaderOf(i)'
    BY <1>4, <2>1, <2>2 DEF HeaderOf
  <2>3. HeaderOf(packing)'
    BY <1>2, <1>3, <1>4, <2>1 DEF HeaderOf
  <2> QED BY <2>1, <2>2, <2>3
<1>7. TarTypeOK'
  <2>1. held' \in [Smalls -> SUBSET Texts]
    BY <1>1, <1>2, <1>3 DEF TarTypeOK
  <2>2. reader' \in 0..NotOpen /\ position' \in 1..(Len(archive') + 1)
    BY <1>1, <1>2, <1>4, TarAssumption DEF TarTypeOK, NotOpen
  <2> QED BY <1>1, <1>2, <1>4, <2>1, <2>2 DEF TarTypeOK
<1>8. HeadersInOrder'
  <2>1. ASSUME NEW k \in DOMAIN archive', HeaderAt(k)'
        PROVE  /\ archive'[k].of <= Begun'
               /\ \A l \in 1..(k - 1) : HeaderAt(l)' => archive'[l].of < archive'[k].of
    <3>1. CASE k = z
      <4>1. ASSUME NEW l \in 1..(k - 1), HeaderAt(l)' PROVE archive'[l].of < packing
        <5>1. l \in 1..Len(archive) /\ l \in DOMAIN archive
          BY <1>4, <3>1
        <5>2. HeaderAt(l) /\ archive'[l] = archive[l]
          BY <1>4, <1>6, <4>1, <5>1
        <5>3. archive[l].of <= packing - 1 /\ archive[l].of \in Nat
          BY <1>1, <1>5, <5>1, <5>2, HeaderTypes DEF HeadersInOrder, HeaderAt
        <5> QED BY <1>5, <5>2, <5>3
      <4> QED BY <1>3, <1>4, <1>5, <3>1, <4>1
    <3>2. CASE k # z
      <4>1. k \in 1..Len(archive) /\ k \in DOMAIN archive
        BY <1>4, <2>1, <3>2
      <4>2. HeaderAt(k) /\ archive'[k] = archive[k]
        BY <1>4, <1>6, <2>1, <4>1
      <4>3. archive[k].of <= packing - 1 /\ archive[k].of \in Nat
        BY <1>1, <1>5, <4>1, <4>2, HeaderTypes DEF HeadersInOrder, HeaderAt
      <4>4. ASSUME NEW l \in 1..(k - 1), HeaderAt(l)' PROVE archive'[l].of < archive'[k].of
        <5>1. l \in 1..Len(archive)
          BY <1>4, <4>1
        <5> QED BY <1>1, <1>4, <1>6, <4>1, <4>2, <4>4, <5>1 DEF HeadersInOrder
      <4> QED BY <1>5, <4>2, <4>3, <4>4
    <3> QED BY <3>1, <3>2
  <2>2. ASSUME NEW i \in 1..Begun', i \in Smalls /\ SteadyUpTo(i)'
        PROVE  i \in packErrors' \/ HeaderOf(i)'
    <3>1. i = packing \/ i \in 1..Begun
      BY <1>5
    <3>2. SteadyUpTo(i)
      BY <1>2, <2>2 DEF SteadyUpTo
    <3> QED BY <1>1, <1>2, <1>6, <2>2, <3>1, <3>2 DEF HeadersInOrder
  <2> QED BY <1>1, <1>2, <2>1, <2>2 DEF HeadersInOrder
<1>9. SegmentsSound'
  <2> SUFFICES ASSUME NEW k \in DOMAIN archive', HeaderAt(k)', SteadyUpTo(archive[k].of)'
               PROVE  LET i == archive'[k].of
                          n == IF Reading' /\ i = packing' THEN reader' ELSE archive'[k].size
                      IN  /\ k + n <= Len(archive')
                          /\ \A x \in 1..n : /\ archive'[k + x] \in Chunk
                                              /\ \E e \in held'[i] : archive'[k + x] = e[x]
                          /\ \E d \in held'[i] : Len(d) = archive'[k].size
                          /\ Reading' /\ i = packing' =>
                               /\ Len(archive') = k + n
                               /\ small'[i] \in held'[i] /\ Len(small'[i]) = archive'[k].size
    BY DEF SegmentsSound
  <2>1. CASE k = z
    <3>1. held'[packing] = {small[packing]}
      BY <1>1, <1>2 DEF TarTypeOK
    <3>2. 1..0 = {} /\ z + 0 = z /\ z <= z
      BY <1>4
    <3> QED BY <1>2, <1>3, <1>4, <1>5, <2>1, <3>1, <3>2
  <2>2. CASE k # z
    <3>1. k \in 1..Len(archive) /\ k \in DOMAIN archive
      BY <1>4, <2>2
    <3> DEFINE i == archive[k].of
               n == archive[k].size
    <3>2. HeaderAt(k) /\ archive'[k] = archive[k]
      BY <1>4, <1>6, <3>1
    <3>3. i <= packing - 1 /\ i \in Nat /\ n \in Nat /\ i \in Smalls
      BY <1>1, <1>5, <3>1, <3>2, HeaderTypes DEF HeadersInOrder, HeaderAt
    <3>4. i # packing /\ held'[i] = held[i]
      BY <1>1, <1>2, <1>5, <3>3 DEF TarTypeOK
    <3>5. SteadyUpTo(i)
      BY <1>2, <3>2 DEF SteadyUpTo
    <3>6. /\ k + n <= Len(archive)
          /\ \A x \in 1..n : /\ archive[k + x] \in Chunk
                             /\ \E e \in held[i] : archive[k + x] = e[x]
          /\ \E d \in held[i] : Len(d) = archive[k].size
      BY <1>1, <1>5, <3>1, <3>2, <3>4, <3>5 DEF SegmentsSound
    <3>7. \A x \in 1..n : k + x \in 1..Len(archive) /\ archive'[k + x] = archive[k + x]
      BY <1>4, <3>1, <3>3, <3>6
    <3>8. k + n <= Len(archive')
      BY <1>4, <3>1, <3>3, <3>6
    <3> QED BY <1>2, <3>2, <3>4, <3>6, <3>7, <3>8
  <2> QED BY <2>1, <2>2
<1>10. NothingBetween'
  <2>1. ASSUME SteadyUpTo(packing) PROVE \A x \in 1..z : Covered(x)'
    <3>1. SteadyUpTo(Begun)
      BY <1>5, <2>1 DEF SteadyUpTo
    <3>2. \A x \in DOMAIN archive : Covered(x)
      BY <1>1, <1>2, <3>1 DEF NothingBetween
    <3>3. ASSUME NEW x \in 1..Len(archive) PROVE Covered(x)'
      <4>1. PICK l \in 1..x : HeaderAt(l) /\ x <= l + archive[l].size
        BY <1>4, <3>2 DEF Covered
      <4>2. l \in 1..Len(archive)
        BY <1>4, <4>1
      <4> QED BY <1>4, <1>6, <4>1, <4>2 DEF Covered
    <3>4. Covered(z)'
      <4>1. h.size \in Nat
        BY <1>3, HeaderTypes
      <4>2. z \in 1..z /\ z <= z + h.size
        BY <1>4, <4>1
      <4> QED BY <1>4, <1>6, <4>2 DEF Covered
    <3> QED BY <1>4, <3>3, <3>4
  <2>2. ASSUME NEW k \in DOMAIN archive', HeaderAt(k)', SteadyUpTo(archive[k].of)',
               NEW x \in 1..k
        PROVE  Covered(x)'
    <3>1. CASE k = z
      <4>1. SteadyUpTo(packing)
        BY <1>2, <1>3, <1>4, <2>2, <3>1 DEF SteadyUpTo
      <4> QED BY <2>1, <3>1, <4>1
    <3>2. CASE k # z
      <4>1. k \in 1..Len(archive) /\ HeaderAt(k) /\ archive'[k] = archive[k]
        BY <1>4, <1>6, <2>2, <3>2
      <4>2. SteadyUpTo(archive[k].of)
        BY <1>2, <2>2, <4>1 DEF SteadyUpTo
      <4>3. PICK l \in 1..x : HeaderAt(l) /\ x <= l + archive[l].size
        BY <1>1, <1>4, <4>1, <4>2 DEF NothingBetween, Covered
      <4>4. l \in 1..Len(archive)
        BY <1>4, <4>1, <4>3
      <4> QED BY <1>4, <1>6, <4>3, <4>4 DEF Covered
    <3> QED BY <3>1, <3>2
  <2>3. SteadyUpTo(Begun)' => SteadyUpTo(packing)
    BY <1>2, <1>5 DEF SteadyUpTo
  <2> QED BY <1>4, <2>1, <2>2, <2>3 DEF NothingBetween
<1>11. UnpackedSoFar' /\ SteadyBatchIsWhole'
  BY <1>1, <1>2 DEF UnpackedSoFar, SteadyBatchIsWhole
<1> QED BY <1>7, <1>8, <1>9, <1>10, <1>11 DEF TarInv

\* Blocks that are no headers are added to the archive.
LEMMA DataAdded ==
  ASSUME TarTypeOK, archive' \in Seq(Chunk \cup Headers), Len(archive) <= Len(archive'),
         \A k \in 1..Len(archive) : archive'[k] = archive[k],
         \A k \in 1..Len(archive') : k > Len(archive) => archive'[k] \in Chunk
  PROVE  /\ \A k \in DOMAIN archive' : HeaderAt(k)' =>
              k \in DOMAIN archive /\ HeaderAt(k) /\ archive'[k] = archive[k]
         /\ \A k \in DOMAIN archive : k \in DOMAIN archive' /\ (HeaderAt(k) => HeaderAt(k)')
         /\ \A i : HeaderOf(i) => HeaderOf(i)'
         /\ \A x \in 1..Len(archive) : Covered(x) => Covered(x)'
<1>1. /\ Len(archive) \in Nat /\ Len(archive') \in Nat
      /\ DOMAIN archive = 1..Len(archive) /\ DOMAIN archive' = 1..Len(archive')
  BY TarTypes
<1>2. ASSUME NEW k \in DOMAIN archive', HeaderAt(k)'
      PROVE  k \in DOMAIN archive /\ HeaderAt(k) /\ archive'[k] = archive[k]
  <2>1. archive'[k] \notin Chunk
    BY <1>2, TarAssumption DEF HeaderAt
  <2>2. k \in 1..Len(archive)
    BY <1>1, <1>2, <2>1
  <2> QED BY <1>1, <1>2, <2>2 DEF HeaderAt
<1>3. ASSUME NEW k \in DOMAIN archive
      PROVE  k \in DOMAIN archive' /\ (HeaderAt(k) => HeaderAt(k)')
  BY <1>1, <1>3 DEF HeaderAt
<1>4. ASSUME NEW i, HeaderOf(i) PROVE HeaderOf(i)'
  BY <1>1, <1>3, <1>4 DEF HeaderOf
<1>5. ASSUME NEW x \in 1..Len(archive), Covered(x) PROVE Covered(x)'
  <2>1. PICK l \in 1..x : HeaderAt(l) /\ x <= l + archive[l].size
    BY <1>5 DEF Covered
  <2>2. l \in 1..Len(archive)
    BY <1>1, <2>1
  <2> QED BY <1>1, <1>3, <2>1, <2>2 DEF Covered
<1> QED BY <1>2, <1>3, <1>4, <1>5

\* A block of the file that is read is added.
LEMMA PackDataKeeps ==
  ASSUME TarInv, PackData
  PROVE  TarInv'
<1>1. TarTypeOK /\ HeadersInOrder /\ SegmentsSound /\ NothingBetween /\ UnpackedSoFar
  BY DEF TarInv
<1>2. /\ Reading /\ reader < Len(small[packing])
      /\ archive' = Append(archive, small[packing][reader + 1]) /\ reader' = reader + 1
      /\ UNCHANGED <<small, listed, held, steady, writes, packing, position, placed, tar,
                     packErrors>>
  BY DEF PackData, smallVars
<1>3. tar = "pack" /\ packing \in Smalls /\ reader \in Nat /\ reader # NotOpen
  BY <1>1, <1>2, TarTypes DEF Reading
<1>4. small[packing] \in Texts /\ Len(small[packing]) \in 0..MaxBlocks
      /\ small[packing] \in Seq(Chunk)
  BY <1>1, <1>3, TextsAreSequences DEF TarTypeOK
<1>5. small[packing][reader + 1] \in Chunk /\ reader + 1 \in 1..Len(small[packing])
  BY <1>2, <1>3, <1>4
<1>6. /\ archive' \in Seq(Chunk \cup Headers)
      /\ Len(archive) \in Nat /\ Len(archive') = Len(archive) + 1
      /\ DOMAIN archive = 1..Len(archive) /\ DOMAIN archive' = 1..(Len(archive) + 1)
      /\ \A k \in 1..Len(archive) : archive'[k] = archive[k]
      /\ archive'[Len(archive) + 1] = small[packing][reader + 1]
  BY <1>1, <1>2, <1>5, Appended
<1>7. Len(archive) <= Len(archive')
      /\ \A k \in 1..Len(archive') : k > Len(archive) => archive'[k] \in Chunk
  BY <1>5, <1>6
<1>8. /\ \A k \in DOMAIN archive' : HeaderAt(k)' =>
           k \in DOMAIN archive /\ HeaderAt(k) /\ archive'[k] = archive[k]
      /\ \A k \in DOMAIN archive : k \in DOMAIN archive' /\ (HeaderAt(k) => HeaderAt(k)')
      /\ \A i : HeaderOf(i) => HeaderOf(i)'
      /\ \A x \in 1..Len(archive) : Covered(x) => Covered(x)'
  BY <1>1, <1>6, <1>7, DataAdded
<1>9. Reading' /\ Begun = packing /\ Begun' = packing
  <2>1. reader + 1 <= MaxBlocks
    BY <1>2, <1>3, <1>4, TarAssumption
  <2>2. reader' # NotOpen
    BY <1>2, <1>3, <2>1, TarAssumption DEF NotOpen
  <2> QED BY <1>2, <1>3, <2>2 DEF Reading, Begun
<1>10. TarTypeOK'
  <2>1. reader' \in 0..NotOpen /\ position' \in 1..(Len(archive') + 1)
    BY <1>1, <1>2, <1>3, <1>4, <1>6, TarAssumption DEF TarTypeOK, NotOpen
  <2> QED BY <1>1, <1>2, <1>6, <2>1 DEF TarTypeOK
<1>11. HeadersInOrder'
  <2>1. ASSUME NEW k \in DOMAIN archive', HeaderAt(k)'
        PROVE  /\ archive'[k].of <= Begun'
               /\ \A l \in 1..(k - 1) : HeaderAt(l)' => archive'[l].of < archive'[k].of
    <3>1. k \in 1..Len(archive) /\ HeaderAt(k) /\ archive'[k] = archive[k]
      BY <1>6, <1>8, <2>1
    <3>2. ASSUME NEW l \in 1..(k - 1), HeaderAt(l)' PROVE archive'[l].of < archive'[k].of
      <4>1. l \in DOMAIN archive'
        BY <3>2 DEF HeaderAt
      <4> QED BY <1>1, <1>6, <1>8, <3>1, <3>2, <4>1 DEF HeadersInOrder
    <3> QED BY <1>1, <1>6, <1>9, <3>1, <3>2 DEF HeadersInOrder
  <2>2. ASSUME NEW i \in 1..Begun', i \in Smalls /\ SteadyUpTo(i)'
        PROVE  i \in packErrors' \/ HeaderOf(i)'
    BY <1>1, <1>2, <1>8, <1>9, <2>2 DEF HeadersInOrder, SteadyUpTo
  <2> QED BY <1>1, <1>2, <2>1, <2>2 DEF HeadersInOrder
<1>12. SegmentsSound'
  <2> SUFFICES ASSUME NEW k \in DOMAIN archive', HeaderAt(k)', SteadyUpTo(archive[k].of)'
               PROVE  LET i == archive'[k].of
                          n == IF Reading' /\ i = packing' THEN reader' ELSE archive'[k].size
                      IN  /\ k + n <= Len(archive')
                          /\ \A x \in 1..n : /\ archive'[k + x] \in Chunk
                                              /\ \E e \in held'[i] : archive'[k + x] = e[x]
                          /\ \E d \in held'[i] : Len(d) = archive'[k].size
                          /\ Reading' /\ i = packing' =>
                               /\ Len(archive') = k + n
                               /\ small'[i] \in held'[i] /\ Len(small'[i]) = archive'[k].size
    BY DEF SegmentsSound
  <2> DEFINE i == archive[k].of
             n == IF i = packing THEN reader ELSE archive[k].size
  <2>1. k \in 1..Len(archive) /\ HeaderAt(k) /\ archive'[k] = archive[k]
    BY <1>6, <1>8
  <2>2. i \in Smalls /\ n \in Nat
    BY <1>3, <2>1, HeaderTypes DEF HeaderAt
  <2>3. SteadyUpTo(i)
    BY <1>2, <2>1 DEF SteadyUpTo
  <2>4. /\ k + n <= Len(archive)
        /\ \A x \in 1..n : /\ archive[k + x] \in Chunk
                           /\ \E e \in held[i] : archive[k + x] = e[x]
        /\ \E d \in held[i] : Len(d) = archive[k].size
        /\ i = packing => /\ Len(archive) = k + n
                          /\ small[i] \in held[i] /\ Len(small[i]) = archive[k].size
    BY <1>1, <1>2, <1>6, <2>1, <2>3 DEF SegmentsSound
  <2>5. \A x \in 1..n : k + x \in 1..Len(archive) /\ archive'[k + x] = archive[k + x]
    BY <1>6, <2>1, <2>2, <2>4
  <2>6. CASE i # packing
    <3>1. k + n <= Len(archive')
      BY <1>6, <2>1, <2>2, <2>4
    <3> QED BY <1>2, <2>1, <2>4, <2>5, <2>6, <3>1
  <2>7. CASE i = packing
    <3>1. n = reader /\ Len(archive) = k + reader /\ small[packing] \in held[packing]
      BY <2>4, <2>7
    <3>a. k \in Nat /\ Len(archive') = Len(archive) + 1 /\ reader' = reader + 1
      BY <1>2, <1>6, <2>1
    <3>b. k + reader' = Len(archive) + 1
      BY <1>3, <3>1, <3>a
    <3>2. Len(archive') = k + reader' /\ k + reader' <= Len(archive') /\ k + reader' = Len(archive) + 1
      BY <1>6, <3>a, <3>b
    <3>3. ASSUME NEW x \in 1..reader'
          PROVE  /\ archive'[k + x] \in Chunk
                 /\ \E e \in held[packing] : archive'[k + x] = e[x]
      <4>1. CASE x = reader + 1
        BY <1>2, <1>5, <1>6, <3>1, <3>2, <4>1
      <4>2. CASE x # reader + 1
        <5>1. x \in 1..n
          BY <1>2, <1>3, <3>1, <3>3, <4>2
        <5> QED BY <2>4, <2>5, <2>7, <5>1
      <4> QED BY <4>1, <4>2
    <3> QED BY <1>2, <1>9, <2>1, <2>4, <2>7, <3>2, <3>3
  <2> QED BY <2>6, <2>7
<1>13. NothingBetween'
  <2>1. ASSUME NEW k \in DOMAIN archive', HeaderAt(k)', SteadyUpTo(archive[k].of)',
               NEW x \in 1..k
        PROVE  Covered(x)'
    <3>1. k \in 1..Len(archive) /\ HeaderAt(k) /\ archive'[k] = archive[k]
      BY <1>6, <1>8, <2>1
    <3>2. SteadyUpTo(archive[k].of)
      BY <1>2, <2>1, <3>1 DEF SteadyUpTo
    <3>3. Covered(x) /\ x \in 1..Len(archive)
      BY <1>1, <1>6, <3>1, <3>2 DEF NothingBetween
    <3> QED BY <1>8, <3>3
  <2>2. ASSUME SteadyUpTo(packing), NEW x \in 1..(Len(archive) + 1) PROVE Covered(x)'
    <3>1. \A y \in DOMAIN archive : Covered(y)
      BY <1>1, <1>3, <1>9, <2>2 DEF NothingBetween
    <3>2. CASE x = Len(archive) + 1
      <4>1. packing \in 1..Begun /\ packing \notin packErrors
        BY <1>1, <1>3, <1>9, TarTypes DEF HeadersInOrder, Smalls
      <4>2. PICK k \in DOMAIN archive : HeaderAt(k) /\ archive[k].of = packing
        BY <1>1, <1>3, <2>2, <4>1 DEF HeadersInOrder, HeaderOf
      <4>3. /\ Len(archive) = k + reader /\ Len(small[packing]) = archive[k].size
        BY <1>1, <1>2, <2>2, <4>2 DEF SegmentsSound
      <4>4. k \in 1..x /\ x <= k + archive[k].size /\ k \in 1..Len(archive)
        BY <1>2, <1>3, <1>4, <1>6, <3>2, <4>2, <4>3
      <4>5. HeaderAt(k)' /\ archive'[k] = archive[k]
        BY <1>6, <1>8, <4>2, <4>4
      <4> QED BY <4>4, <4>5 DEF Covered
    <3>3. CASE x # Len(archive) + 1
      <4>1. x \in 1..Len(archive)
        BY <1>6, <2>2, <3>3
      <4> QED BY <1>6, <1>8, <3>1, <4>1
    <3> QED BY <3>2, <3>3
  <2>3. SteadyUpTo(Begun)' => SteadyUpTo(packing)
    BY <1>2, <1>9 DEF SteadyUpTo
  <2> QED BY <1>6, <2>1, <2>2, <2>3 DEF NothingBetween
<1>14. UnpackedSoFar' /\ SteadyBatchIsWhole'
  BY <1>1, <1>2, <1>3 DEF UnpackedSoFar, SteadyBatchIsWhole
<1> QED BY <1>10, <1>11, <1>12, <1>13, <1>14 DEF TarInv

\* The packing goes on with the next file.
LEMMA NextFileKeeps ==
  ASSUME TarInv, PackEnd \/ PackFails
  PROVE  TarInv'
<1>1. TarTypeOK /\ HeadersInOrder /\ SegmentsSound /\ NothingBetween /\ UnpackedSoFar
  BY DEF TarInv
<1>2. /\ tar = "pack" /\ packing \in Smalls /\ packing' = packing + 1 /\ reader' = NotOpen
      /\ UNCHANGED <<small, listed, held, writes, archive, position, placed, tar>>
      /\ \/ /\ Reading /\ reader >= Len(small[packing])
            /\ steady' = steady /\ packErrors' = packErrors
         \/ /\ packErrors' = packErrors \cup {packing}
            /\ steady' = IF Reading THEN steady \ {packing} ELSE steady
  BY DEF PackEnd, PackFails, Reading, smallVars
<1>3. /\ Len(archive) \in Nat /\ DOMAIN archive = 1..Len(archive)
      /\ packing \in Nat /\ packing <= Count /\ Count \in Nat /\ reader \in Nat
  BY <1>1, <1>2, TarTypes
<1>4. /\ ~Reading' /\ Begun' = packing
      /\ Begun = IF Reading THEN packing ELSE packing - 1
      /\ steady' \subseteq steady
  BY <1>2, <1>3 DEF Reading, Begun
<1>5. TarTypeOK'
  <2>1. packing' \in 1..(Count + 1) /\ reader' \in 0..NotOpen
    BY <1>2, <1>3, TarAssumption DEF NotOpen
  <2> QED BY <1>1, <1>2, <1>4, <2>1 DEF TarTypeOK
<1>6. HeadersInOrder'
  <2>1. ASSUME NEW k \in DOMAIN archive, HeaderAt(k) PROVE archive[k].of <= Begun'
    <3>1. archive[k].of <= Begun /\ archive[k].of \in Nat
      BY <1>1, <2>1, HeaderTypes DEF HeadersInOrder, HeaderAt
    <3> QED BY <1>3, <1>4, <3>1
  <2>2. ASSUME NEW i \in 1..Begun', i \in Smalls /\ SteadyUpTo(i)'
        PROVE  i \in packErrors' \/ HeaderOf(i)
    <3>1. i \in 1..Begun \/ (i = packing /\ ~Reading)
      BY <1>3, <1>4
    <3>2. SteadyUpTo(i)
      BY <1>4, <2>2 DEF SteadyUpTo
    <3>3. i \in 1..Begun => i \in packErrors \/ HeaderOf(i)
      BY <1>1, <2>2, <3>2 DEF HeadersInOrder
    <3> QED BY <1>2, <3>1, <3>3
  <2>3. \A i \in packErrors' : i < packing'
    <3>1. \A i \in packErrors : i < packing /\ i \in Nat
      BY <1>1 DEF HeadersInOrder, TarTypeOK, Smalls
    <3> QED BY <1>2, <1>3, <3>1
  <2> QED BY <1>1, <1>2, <2>1, <2>2, <2>3 DEF HeadersInOrder, HeaderAt, HeaderOf
<1>7. SegmentsSound'
  <2> SUFFICES ASSUME NEW k \in DOMAIN archive, HeaderAt(k), 1..archive[k].of \subseteq steady'
               PROVE  LET i == archive[k].of
                          n == archive[k].size
                      IN  /\ k + n <= Len(archive)
                          /\ \A x \in 1..n : /\ archive[k + x] \in Chunk
                                              /\ \E e \in held[i] : archive[k + x] = e[x]
                          /\ \E d \in held[i] : Len(d) = archive[k].size
    BY <1>2, <1>4 DEF SegmentsSound, HeaderAt, SteadyUpTo
  <2> DEFINE i == archive[k].of
             m == IF Reading /\ i = packing THEN reader ELSE archive[k].size
  <2>1. i \in Nat /\ archive[k].size \in Nat /\ i >= 1
    BY HeaderTypes DEF HeaderAt, Smalls
  <2>2. SteadyUpTo(i)
    BY <1>4 DEF SteadyUpTo
  <2>3. /\ k + m <= Len(archive)
        /\ \A x \in 1..m : /\ archive[k + x] \in Chunk
                           /\ \E e \in held[i] : archive[k + x] = e[x]
        /\ \E d \in held[i] : Len(d) = archive[k].size
        /\ Reading /\ i = packing => Len(small[i]) = archive[k].size
    BY <1>1, <2>2 DEF SegmentsSound
  <2>4. archive[k].size <= m /\ m \in Nat
    <3>1. CASE Reading /\ i = packing
      <4>1. packing \in steady'
        BY <1>3, <2>1, <3>1
      <4>2. reader >= Len(small[packing])
        BY <1>2, <3>1, <4>1
      <4> QED BY <1>3, <2>3, <3>1, <4>2
    <3>2. CASE ~(Reading /\ i = packing)
      BY <2>1, <3>2
    <3> QED BY <3>1, <3>2
  <2> HIDE DEF m
  <2>5. \A x \in 1..archive[k].size : x \in 1..m
    BY <2>1, <2>4
  <2>6. k + archive[k].size <= Len(archive)
    BY <1>3, <2>1, <2>3, <2>4
  <2> QED BY <2>3, <2>5, <2>6
<1>8. NothingBetween'
  <2>1. SteadyUpTo(Begun)' => SteadyUpTo(Begun)
    <3> SUFFICES ASSUME 1..packing \subseteq steady' PROVE 1..Begun \subseteq steady
      BY <1>4 DEF SteadyUpTo
    <3>1. Begun <= packing /\ Begun \in Nat
      BY <1>1, <1>3, <1>4, TarTypes
    <3> QED BY <1>3, <1>4, <3>1
  <2>2. SteadyUpTo(Begun)' => \A x \in DOMAIN archive : Covered(x)
    BY <1>1, <1>2, <2>1 DEF NothingBetween
  <2>3. ASSUME NEW k \in DOMAIN archive, HeaderAt(k), 1..archive[k].of \subseteq steady'
        PROVE  \A x \in 1..k : Covered(x)
    BY <1>1, <1>4, <2>3 DEF NothingBetween, SteadyUpTo
  <2> QED BY <1>2, <2>2, <2>3 DEF NothingBetween, Covered, HeaderAt, SteadyUpTo
<1>9. UnpackedSoFar' /\ SteadyBatchIsWhole'
  BY <1>1, <1>2 DEF UnpackedSoFar, SteadyBatchIsWhole
<1> QED BY <1>5, <1>6, <1>7, <1>8, <1>9 DEF TarInv

\* The archive is finished.
LEMMA FinishTarKeeps ==
  ASSUME TarInv, FinishTar
  PROVE  TarInv'
<1>1. TarTypeOK /\ HeadersInOrder /\ SegmentsSound /\ NothingBetween /\ UnpackedSoFar
  BY DEF TarInv
<1>2. /\ tar = "pack" /\ packing = Count + 1 /\ tar' = "unpack"
      /\ archive' = archive \o <<Zeros, Zeros>>
      /\ UNCHANGED <<small, listed, held, steady, writes, packing, reader, packErrors,
                     position, placed>>
  BY DEF FinishTar, smallVars, packVars
<1>3. /\ Len(archive) \in Nat /\ DOMAIN archive = 1..Len(archive)
      /\ Count \in Nat /\ archive \in Seq(Chunk \cup Headers)
  BY <1>1, TarTypes DEF TarTypeOK
<1>4. /\ archive' \in Seq(Chunk \cup Headers) /\ Len(archive') = Len(archive) + 2
      /\ \A k \in 1..(Len(archive) + 2) :
           archive'[k] = IF k <= Len(archive) THEN archive[k] ELSE <<Zeros, Zeros>>[k - Len(archive)]
  <2>1. <<Zeros, Zeros>> \in Seq(Chunk \cup Headers) /\ Len(<<Zeros, Zeros>>) = 2
    BY TarAssumption
  <2> QED BY <1>2, <1>3, <2>1, ConcatProperties
<1>5. /\ Len(archive) <= Len(archive')
      /\ \A k \in 1..Len(archive) : archive'[k] = archive[k]
      /\ \A k \in 1..Len(archive') : k > Len(archive) => archive'[k] \in Chunk
  <2>1. \A j \in {1, 2} : <<Zeros, Zeros>>[j] \in Chunk
    BY TarAssumption
  <2>2. ASSUME NEW k \in 1..Len(archive'), k > Len(archive) PROVE archive'[k] \in Chunk
    <3>1. k - Len(archive) \in {1, 2} /\ ~(k <= Len(archive))
      BY <1>3, <1>4, <2>2
    <3> QED BY <1>4, <2>1, <3>1
  <2> QED BY <1>3, <1>4, <2>2
<1>6. /\ \A k \in DOMAIN archive' : HeaderAt(k)' =>
           k \in DOMAIN archive /\ HeaderAt(k) /\ archive'[k] = archive[k]
      /\ \A k \in DOMAIN archive : k \in DOMAIN archive' /\ (HeaderAt(k) => HeaderAt(k)')
      /\ \A i : HeaderOf(i) => HeaderOf(i)'
      /\ \A x \in 1..Len(archive) : Covered(x) => Covered(x)'
  BY <1>1, <1>4, <1>5, DataAdded
<1>7. ~Reading /\ ~Reading' /\ Begun' = Begun /\ Begun = Count
  BY <1>2, <1>3 DEF Reading, Begun, Smalls
<1>8. TarTypeOK'
  <2>1. position' \in 1..(Len(archive') + 1)
    BY <1>1, <1>2, <1>3, <1>4 DEF TarTypeOK
  <2> QED BY <1>1, <1>2, <1>4, <2>1 DEF TarTypeOK
<1>9. HeadersInOrder'
  <2>1. ASSUME NEW k \in DOMAIN archive', HeaderAt(k)'
        PROVE  /\ archive'[k].of <= Begun'
               /\ \A l \in 1..(k - 1) : HeaderAt(l)' => archive'[l].of < archive'[k].of
    <3>1. k \in DOMAIN archive /\ HeaderAt(k) /\ archive'[k] = archive[k]
      BY <1>6, <2>1
    <3>2. ASSUME NEW l \in 1..(k - 1), HeaderAt(l)' PROVE archive'[l].of < archive'[k].of
      <4>1. l \in DOMAIN archive'
        BY <3>2 DEF HeaderAt
      <4> QED BY <1>1, <1>6, <3>1, <3>2, <4>1 DEF HeadersInOrder
    <3> QED BY <1>1, <1>7, <3>1, <3>2 DEF HeadersInOrder
  <2>2. ASSUME NEW i \in 1..Begun', i \in Smalls /\ SteadyUpTo(i)'
        PROVE  i \in packErrors' \/ HeaderOf(i)'
    BY <1>1, <1>2, <1>6, <1>7, <2>2 DEF HeadersInOrder, SteadyUpTo
  <2> QED BY <1>1, <1>2, <2>1, <2>2 DEF HeadersInOrder
<1>10. SegmentsSound'
  <2> SUFFICES ASSUME NEW k \in DOMAIN archive', HeaderAt(k)', SteadyUpTo(archive[k].of)'
               PROVE  LET i == archive'[k].of
                          n == archive'[k].size
                      IN  /\ k + n <= Len(archive')
                          /\ \A x \in 1..n : /\ archive'[k + x] \in Chunk
                                              /\ \E e \in held'[i] : archive'[k + x] = e[x]
                          /\ \E d \in held'[i] : Len(d) = archive'[k].size
    BY <1>7 DEF SegmentsSound
  <2> DEFINE i == archive[k].of
             n == archive[k].size
  <2>1. k \in 1..Len(archive) /\ HeaderAt(k) /\ archive'[k] = archive[k] /\ n \in Nat
    BY <1>3, <1>6, HeaderTypes DEF HeaderAt
  <2>2. SteadyUpTo(i)
    BY <1>2, <2>1 DEF SteadyUpTo
  <2>3. /\ k + n <= Len(archive)
        /\ \A x \in 1..n : /\ archive[k + x] \in Chunk
                           /\ \E e \in held[i] : archive[k + x] = e[x]
        /\ \E d \in held[i] : Len(d) = archive[k].size
    BY <1>1, <1>3, <1>7, <2>1, <2>2 DEF SegmentsSound
  <2>4. \A x \in 1..n : k + x \in 1..Len(archive) /\ archive'[k + x] = archive[k + x]
    BY <1>3, <1>5, <2>1, <2>3
  <2>5. k + n <= Len(archive')
    BY <1>3, <1>4, <2>1, <2>3
  <2> QED BY <1>2, <2>1, <2>3, <2>4, <2>5
<1>11. NothingBetween'
  <2>1. ASSUME NEW k \in DOMAIN archive', HeaderAt(k)', SteadyUpTo(archive[k].of)',
               NEW x \in 1..k
        PROVE  Covered(x)'
    <3>1. k \in 1..Len(archive) /\ HeaderAt(k) /\ archive'[k] = archive[k]
      BY <1>3, <1>6, <2>1
    <3>2. SteadyUpTo(archive[k].of)
      BY <1>2, <2>1, <3>1 DEF SteadyUpTo
    <3>3. Covered(x) /\ x \in 1..Len(archive)
      BY <1>1, <1>3, <3>1, <3>2 DEF NothingBetween
    <3> QED BY <1>6, <3>3
  <2> QED BY <1>2, <2>1 DEF NothingBetween
<1>12. UnpackedSoFar'
  <2>1. ASSUME NEW k \in DOMAIN archive', HeaderAt(k)', SteadyUpTo(archive[k].of)'
        PROVE  position' <= k /\ placed'[archive'[k].of] = Unset
    <3>1. k \in 1..Len(archive) /\ HeaderAt(k) /\ archive'[k] = archive[k]
      BY <1>3, <1>6, <2>1
    <3>2. archive[k].of \in Smalls
      BY <3>1, HeaderTypes DEF HeaderAt
    <3> QED BY <1>1, <1>2, <1>3, <3>1, <3>2 DEF UnpackedSoFar
  <2>2. \A i \in Smalls : placed'[i] = Unset
    BY <1>1, <1>2 DEF UnpackedSoFar
  <2> QED BY <1>2, <2>1, <2>2 DEF UnpackedSoFar
<1>13. SteadyBatchIsWhole'
  BY <1>1, <1>2 DEF UnpackedSoFar, SteadyBatchIsWhole
<1> QED BY <1>8, <1>9, <1>10, <1>11, <1>12, <1>13 DEF TarInv

\* Unpacking leaves the archive and what is known of it.
LEMMA UnpackingLeaves ==
  ASSUME TarInv, tar = "unpack", tar' # "pack",
         UNCHANGED <<small, listed, held, steady, writes, archive, packing, reader, packErrors>>
  PROVE  /\ HeadersInOrder' /\ SegmentsSound' /\ NothingBetween'
         /\ ~Reading /\ packing = Count + 1
<1>1. HeadersInOrder /\ SegmentsSound /\ NothingBetween /\ UnpackedSoFar
  BY DEF TarInv
<1>2. ~Reading /\ ~Reading' /\ Begun' = Begun /\ packing = Count + 1
  BY <1>1 DEF Reading, Begun, UnpackedSoFar
<1>3. HeadersInOrder'
  BY <1>1, <1>2 DEF HeadersInOrder, HeaderAt, HeaderOf, SteadyUpTo
<1>4. SegmentsSound'
  BY <1>1, <1>2 DEF SegmentsSound, HeaderAt, SteadyUpTo
<1>5. NothingBetween'
  BY <1>1, <1>2 DEF NothingBetween, HeaderAt, SteadyUpTo, Covered
<1> QED BY <1>2, <1>3, <1>4, <1>5

\* A file is unpacked.
LEMMA UnpackFileKeeps ==
  ASSUME TarInv, UnpackFile
  PROVE  TarInv'
<1>1. TarTypeOK /\ HeadersInOrder /\ SegmentsSound /\ NothingBetween /\ UnpackedSoFar
  BY DEF TarInv
<1> DEFINE n == archive[position].size
           s == SubSeq(archive, position + 1, position + n)
<1>i. PICK i \in Smalls : i = archive[position].of
  BY HeaderTypes DEF UnpackFile, AtHeader, Item
<1>2. /\ tar = "unpack" /\ tar' = "unpack"
      /\ position <= Len(archive) /\ archive[position] \in Headers
      /\ ~(position + n > Len(archive))
      /\ placed' = [placed EXCEPT ![i] = s]
      /\ position' = position + 1 + n
      /\ UNCHANGED <<small, listed, held, steady, writes, archive, packing, reader, packErrors>>
  BY <1>i DEF UnpackFile, AtHeader, CutShort, Item, smallVars, packVars
<1>3. HeadersInOrder' /\ SegmentsSound' /\ NothingBetween' /\ ~Reading
  BY <1>2, UnpackingLeaves
<1>4. /\ Len(archive) \in Nat /\ DOMAIN archive = 1..Len(archive)
      /\ position \in 1..Len(archive) /\ n \in Nat /\ i \in Smalls /\ n \in 0..MaxBlocks
      /\ position + n <= Len(archive)
  <2>1. position \in 1..(Len(archive) + 1) /\ Len(archive) \in Nat
    BY <1>1, TarTypes DEF TarTypeOK
  <2>2. n \in Nat /\ i \in Smalls /\ n \in 0..MaxBlocks
    BY <1>2, HeaderTypes
  <2> QED BY <1>1, <1>2, <2>1, <2>2, TarTypes
<1>5. HeaderAt(position) /\ archive[position].of = i
  BY <1>i, <1>2, <1>4 DEF HeaderAt
<1>6. s \in Seq(Chunk \cup Headers) /\ Len(s) = n
      /\ \A x \in 1..n : s[x] = archive[position + x]
  <2>1. \A x \in (position + 1)..(position + n) : archive[x] \in Chunk \cup Headers
    BY <1>1, <1>4, TarTypes
  <2>2. /\ s \in Seq(Chunk \cup Headers)
        /\ Len(s) = IF position + 1 <= position + n THEN position + n - (position + 1) + 1 ELSE 0
        /\ \A x \in 1..(position + n - (position + 1) + 1) : s[x] = archive[position + 1 + x - 1]
    BY <1>4, <2>1, SubSeqProperties
  <2>3. Len(s) = n
    BY <1>4, <2>2
  <2>4. ASSUME NEW x \in 1..n PROVE s[x] = archive[position + x]
    <3>1. x \in 1..(position + n - (position + 1) + 1) /\ position + 1 + x - 1 = position + x
      BY <1>4
    <3> QED BY <2>2, <3>1
  <2> QED BY <2>2, <2>3, <2>4
<1> HIDE DEF s
<1>7. TarTypeOK'
  <2>1. placed' \in [Smalls -> {Unset} \cup Seq(Chunk \cup Headers)]
    BY <1>1, <1>2, <1>4, <1>6 DEF TarTypeOK
  <2>2. position' \in 1..(Len(archive') + 1)
    BY <1>2, <1>4
  <2> QED BY <1>1, <1>2, <2>1, <2>2 DEF TarTypeOK
<1>8. placed'[i] = s /\ \A j \in Smalls : j # i => placed'[j] = placed[j]
  BY <1>1, <1>2, <1>4 DEF TarTypeOK
\* A segment whose file kept its length gives what was read of the file.
<1>9. SteadyUpTo(i) => /\ s \in Texts
                       /\ \E d \in held[i] : Len(s) = Len(d)
                       /\ \A x \in 1..n : archive[position + x] \in Chunk
                                          /\ \E e \in held[i] : s[x] = e[x]
  <2> SUFFICES ASSUME SteadyUpTo(i)
               PROVE  /\ s \in Texts
                      /\ \E d \in held[i] : Len(s) = Len(d)
                      /\ \A x \in 1..n : archive[position + x] \in Chunk
                                         /\ \E e \in held[i] : s[x] = e[x]
    OBVIOUS
  <2>1. /\ \A x \in 1..n : /\ archive[position + x] \in Chunk
                           /\ \E e \in held[i] : archive[position + x] = e[x]
        /\ \E d \in held[i] : Len(d) = n
    BY <1>1, <1>3, <1>4, <1>5 DEF SegmentsSound
  <2>2. \A x \in 1..n : s[x] \in Chunk
    BY <1>6, <2>1
  <2>3. s \in [1..n -> Chunk]
    BY <1>6, <2>2
  <2> QED BY <1>4, <1>6, <2>1, <2>3 DEF Texts
<1>10. SteadyUpTo(i) => IsOfSmall(i)'
  <2> SUFFICES ASSUME SteadyUpTo(i) PROVE \E d \in held[i] :
                        /\ Len(s) = Len(d)
                        /\ \A x \in DOMAIN d : \E e \in held[i] : s[x] = e[x]
    BY <1>2, <1>8 DEF IsOfSmall
  <2>1. PICK d \in held[i] : Len(s) = Len(d)
    BY <1>9
  <2>2. DOMAIN d = 1..n
    BY <1>1, <1>4, <1>6, <2>1, TarTypes, TextsAreSequences
  <2> QED BY <1>9, <2>1, <2>2
<1>11. ASSUME NEW k \in DOMAIN archive, HeaderAt(k), SteadyUpTo(archive[k].of)
       PROVE  \/ position' <= k /\ placed'[archive[k].of] = Unset
              \/ /\ position' > k + archive[k].size
                 /\ placed'[archive[k].of] \in Texts /\ IsOfSmall(archive[k].of)'
  <2>1. archive[k].size \in Nat /\ archive[k].of \in Smalls /\ k \in 1..Len(archive)
    BY <1>4, <1>11, HeaderTypes DEF HeaderAt
  <2>2. CASE k = position
    <3>1. position' > k + archive[k].size
      BY <1>2, <1>4, <2>2
    <3>2. archive[k].of = i /\ SteadyUpTo(i)
      BY <1>5, <1>11, <2>2
    <3>3. s \in Texts /\ IsOfSmall(i)'
      BY <1>9, <1>10, <3>2
    <3>4. IsOfSmall(archive[k].of)'
      BY <1>2, <3>2, <3>3 DEF IsOfSmall
    <3> QED BY <1>8, <3>1, <3>2, <3>3, <3>4
  <2>3. CASE k # position
    <3>1. archive[k].of # i
      <4>1. k < position => archive[k].of < i
        BY <1>1, <1>4, <1>5, <1>11, <2>1 DEF HeadersInOrder
      <4>2. k > position => i < archive[k].of
        BY <1>1, <1>4, <1>5, <1>11, <2>1 DEF HeadersInOrder
      <4>3. i \in Nat /\ archive[k].of \in Nat
        BY <1>4, <2>1 DEF Smalls
      <4> QED BY <1>4, <2>1, <2>3, <4>1, <4>2, <4>3
    <3>2. placed'[archive[k].of] = placed[archive[k].of]
      BY <1>8, <2>1, <3>1
    <3>3. CASE position <= k
      <4>1. position < k
        BY <1>4, <2>1, <2>3, <3>3
      <4>2. i < archive[k].of
        BY <1>1, <1>4, <1>5, <1>11, <2>1, <4>1 DEF HeadersInOrder
      <4>3. SteadyUpTo(i)
        BY <1>4, <1>11, <2>1, <4>2 DEF SteadyUpTo, Smalls
      <4>4. \A x \in 1..n : archive[position + x] \in Chunk
        BY <1>9, <4>3
      <4>5. archive[k] \notin Chunk
        BY <1>11, TarAssumption DEF HeaderAt
      <4>6. k - position \notin 1..n
        <5>1. position + (k - position) = k
          BY <1>4, <2>1
        <5> QED BY <4>4, <4>5, <5>1
      <4>7. position' <= k
        BY <1>2, <1>4, <2>1, <4>1, <4>6
      <4>8. placed[archive[k].of] = Unset
        <5>1. ~(position > k + archive[k].size)
          BY <1>4, <2>1, <4>1
        <5> QED BY <1>1, <1>2, <1>11, <5>1 DEF UnpackedSoFar
      <4> QED BY <3>2, <4>7, <4>8
    <3>4. CASE ~(position <= k)
      <4>1. /\ position > k + archive[k].size
            /\ placed[archive[k].of] \in Texts /\ IsOfSmall(archive[k].of)
        BY <1>1, <1>2, <1>11, <3>4 DEF UnpackedSoFar
      <4>2. position' > k + archive[k].size
        BY <1>2, <1>4, <2>1, <4>1
      <4>3. IsOfSmall(archive[k].of)'
        BY <1>2, <3>2, <4>1 DEF IsOfSmall
      <4> QED BY <3>2, <4>1, <4>2, <4>3
    <3> QED BY <3>3, <3>4
  <2> QED BY <2>2, <2>3
<1>12. \A j \in Smalls : placed'[j] = Unset \/ HeaderOf(j)
  <2>1. HeaderOf(i)
    BY <1>4, <1>5 DEF HeaderOf
  <2> QED BY <1>1, <1>2, <1>8, <2>1 DEF UnpackedSoFar
<1>13. UnpackedSoFar'
  <2>1. packing' = Count + 1
    BY <1>1, <1>2 DEF UnpackedSoFar
  <2> QED
    BY <1>2, <1>11, <1>12, <2>1 DEF UnpackedSoFar, HeaderAt, HeaderOf, SteadyUpTo, IsOfSmall
<1>14. SteadyBatchIsWhole'
  <2> SUFFICES ASSUME NEW j \in Smalls, 1..j \subseteq steady, placed'[j] # Unset
               PROVE  IsOfSmall(j)'
    BY <1>2 DEF SteadyBatchIsWhole
  <2>1. PICK k \in DOMAIN archive : HeaderAt(k) /\ archive[k].of = j
    BY <1>12 DEF HeaderOf
  <2>2. placed'[j] # Unset => IsOfSmall(archive[k].of)'
    BY <1>11, <2>1 DEF SteadyUpTo
  <2> QED BY <1>2, <2>1, <2>2 DEF IsOfSmall
<1> QED BY <1>3, <1>7, <1>13, <1>14 DEF TarInv

\* The reader comes to the end, or to what it cannot read.
LEMMA UnpackStopsKeeps ==
  ASSUME TarInv, UnpackEnds \/ UnpackFails
  PROVE  TarInv'
<1>1. TarTypeOK /\ HeadersInOrder /\ SegmentsSound /\ NothingBetween /\ UnpackedSoFar
  BY DEF TarInv
<1>2. /\ tar = "unpack" /\ tar' \in {"ok", "failed"}
      /\ UNCHANGED <<small, listed, held, steady, writes, archive, packing, reader, packErrors,
                     position>>
  BY DEF UnpackEnds, UnpackFails, smallVars, packVars
<1>3. HeadersInOrder' /\ SegmentsSound' /\ NothingBetween' /\ ~Reading /\ packing = Count + 1
  BY <1>2, UnpackingLeaves
<1>4. placed' \in [Smalls -> {Unset} \cup Seq(Chunk \cup Headers)]
  <2>1. CASE UNCHANGED placed
    BY <1>1, <2>1 DEF TarTypeOK
  <2>2. CASE AtHeader /\ \E n \in 0..Item.size :
          /\ position + n <= Len(archive)
          /\ placed' = [placed EXCEPT ![Item.of] =
                          SubSeq(archive, position + 1, position + n)]
    <3>1. PICK n \in 0..Item.size :
            /\ position + n <= Len(archive)
            /\ placed' = [placed EXCEPT ![Item.of] =
                            SubSeq(archive, position + 1, position + n)]
      BY <2>2
    <3>2. Item.size \in Nat /\ Item.of \in Smalls
      BY <2>2, HeaderTypes DEF AtHeader
    <3>3. position \in Nat /\ Len(archive) \in Nat /\ n \in Nat
      BY <1>1, <3>2, TarTypes
    <3>4. \A x \in (position + 1)..(position + n) : archive[x] \in Chunk \cup Headers
      BY <1>1, <3>1, <3>3, TarTypes
    <3>5. SubSeq(archive, position + 1, position + n) \in Seq(Chunk \cup Headers)
      BY <3>3, <3>4, SubSeqProperties
    <3> QED BY <1>1, <3>1, <3>5 DEF TarTypeOK
  <2> QED BY <2>1, <2>2 DEF UnpackEnds, UnpackFails
<1>5. TarTypeOK'
  BY <1>1, <1>2, <1>4 DEF TarTypeOK
<1>6. ASSUME UnpackFails PROVE UnpackedSoFar' /\ SteadyBatchIsWhole'
  BY <1>2, <1>3, <1>6 DEF UnpackFails, UnpackedSoFar, SteadyBatchIsWhole
<1>7. ASSUME UnpackEnds PROVE UnpackedSoFar' /\ SteadyBatchIsWhole'
  <2>1. placed' = placed /\ tar' = "ok" /\ (position <= Len(archive) => archive[position] = Zeros)
    BY <1>7 DEF UnpackEnds, AtEnd, Item
  <2>2. \A j \in Smalls : placed[j] = Unset \/ HeaderOf(j)
    BY <1>1, <1>2 DEF UnpackedSoFar
  <2>3. UnpackedSoFar'
    BY <1>2, <1>3, <2>1, <2>2 DEF UnpackedSoFar, HeaderOf, HeaderAt
  <2>4. ASSUME NEW k \in DOMAIN archive, HeaderAt(k), SteadyUpTo(archive[k].of)
        PROVE  position > k + archive[k].size
    <3> SUFFICES ASSUME position <= k PROVE FALSE
      BY <1>1, <1>2, <2>4 DEF UnpackedSoFar
    <3>1. /\ Len(archive) \in Nat /\ k \in 1..Len(archive) /\ position \in 1..k
          /\ archive[k].of \in Smalls
      BY <1>1, <2>4, TarTypes, HeaderTypes DEF TarTypeOK, HeaderAt
    <3>2. PICK l \in 1..position : HeaderAt(l) /\ position <= l + archive[l].size
      BY <1>1, <2>4, <3>1 DEF NothingBetween, Covered
    <3>3. l \in DOMAIN archive /\ archive[l].of \in Smalls /\ archive[l].size \in Nat
      BY <3>2, HeaderTypes DEF HeaderAt
    <3>4. archive[l].of <= archive[k].of
      <4>1. CASE l = k
        BY <3>1, <4>1 DEF Smalls
      <4>2. CASE l # k
        <5>1. l \in 1..(k - 1)
          BY <3>1, <3>2, <4>2
        <5>2. archive[l].of < archive[k].of
          BY <1>1, <2>4, <3>2, <5>1 DEF HeadersInOrder
        <5> QED BY <3>1, <3>3, <5>2 DEF Smalls
      <4> QED BY <4>1, <4>2
    <3>5. SteadyUpTo(archive[l].of)
      BY <2>4, <3>1, <3>3, <3>4 DEF SteadyUpTo, Smalls
    <3>6. position <= l
      <4>1. ~(position > l + archive[l].size)
        BY <3>1, <3>2, <3>3
      <4> QED BY <1>1, <1>2, <3>2, <3>3, <3>5, <4>1 DEF UnpackedSoFar
    <3>7. archive[position] \in Headers
      <4>1. position = l
        BY <3>1, <3>2, <3>6
      <4> QED BY <3>2, <4>1 DEF HeaderAt
    <3> QED BY <2>1, <3>1, <3>7, TarAssumption
  <2>5. SteadyBatchIsWhole'
    <3> SUFFICES ASSUME NEW j \in Smalls, 1..j \subseteq steady
                 PROVE  IF placed[j] = Unset THEN j \in packErrors ELSE IsOfSmall(j)
      BY <1>2, <2>1 DEF SteadyBatchIsWhole, IsOfSmall
    <3>1. j \in 1..Begun
      BY <1>3, TarAssumption DEF Begun, Smalls
    <3>2. j \in packErrors \/ HeaderOf(j)
      BY <1>1, <3>1 DEF HeadersInOrder, SteadyUpTo
    <3>3. ASSUME HeaderOf(j) PROVE placed[j] \in Texts /\ IsOfSmall(j)
      <4>1. PICK k \in DOMAIN archive : HeaderAt(k) /\ archive[k].of = j
        BY <3>3 DEF HeaderOf
      <4>2. position > k + archive[k].size
        BY <2>4, <4>1 DEF SteadyUpTo
      <4>3. ~(position <= k)
        <5>1. k \in Nat /\ archive[k].size \in Nat /\ position \in Nat
          BY <1>1, <4>1, TarTypes, HeaderTypes DEF HeaderAt
        <5> QED BY <4>2, <5>1
      <4> QED BY <1>1, <1>2, <4>1, <4>3 DEF UnpackedSoFar, SteadyUpTo
    <3> QED BY <2>2, <3>2, <3>3, TarAssumption
  <2> QED BY <2>3, <2>5
<1> QED BY <1>3, <1>5, <1>6, <1>7 DEF TarInv

LEMMA TarStepInv == TarInv /\ [TarNext]_tarVars => TarInv'
<1> SUFFICES ASSUME TarInv, [TarNext]_tarVars PROVE TarInv'
  OBVIOUS
<1>1. CASE UNCHANGED tarVars
  <2>1. UNCHANGED <<small, listed, held, steady, writes, packing, reader, packErrors, archive,
                    position, placed, tar>>
    BY <1>1 DEF tarVars, smallVars, packVars
  <2>2. TarTypeOK' /\ SteadyBatchIsWhole'
    BY <2>1 DEF TarInv, TarTypeOK, SteadyBatchIsWhole, IsOfSmall
  <2>3. (Reading' <=> Reading) /\ Begun' = Begun
    BY <2>1 DEF Reading, Begun
  <2>4. HeadersInOrder' /\ NothingBetween'
    BY <2>1, <2>3
       DEF TarInv, HeadersInOrder, NothingBetween, HeaderAt, HeaderOf, SteadyUpTo, Covered
  <2>5. SegmentsSound'
    BY <2>1, <2>3 DEF TarInv, SegmentsSound, HeaderAt, SteadyUpTo
  <2>6. UnpackedSoFar'
    BY <2>1 DEF TarInv, UnpackedSoFar, HeaderAt, HeaderOf, SteadyUpTo, IsOfSmall
  <2> QED BY <2>2, <2>4, <2>5, <2>6 DEF TarInv
<1> QED
  BY <1>1, EditSmallKeeps, PackHeaderKeeps, PackDataKeeps, NextFileKeeps, FinishTarKeeps,
     UnpackFileKeeps, UnpackStopsKeeps DEF TarNext

\* The inductive invariant of the batch of small files: how the archive is laid out
\* up to the first file whose length changed, and how far the reader is in it
\* (copy.rs copy_small_files_tar).
THEOREM TarInductive == TarSpec => []TarInv
BY TarInitInv, TarStepInv, PTL DEF TarSpec

\* A small file that comes out of a batch is what was read of it, and one that does
\* not has an error, up to the first whose length changed while it was packed.
THEOREM SteadyBatchIsWholeHolds == TarSpec => []SteadyBatchIsWhole
<1>1. TarInv => SteadyBatchIsWhole
  BY DEF TarInv
<1> QED BY <1>1, TarInductive, PTL

-----------------------------------------------------------------------------
(* The update of the executable                                            *)

\* The first state: one whole binary, at the executable's name.
LEMMA UpdateInitInv == UpdateInit => UpdateInv
<1> SUFFICES ASSUME UpdateInit PROVE UpdateInv
  OBVIOUS
<1> USE UpdateAssumption
<1>1. PICK i \in ExeInode :
        /\ names = [n \in Names |-> IF n = "exe" THEN i ELSE Hole]
        /\ half = [j \in ExeInode |-> IF j = i THEN Whole(First) ELSE Blank]
        /\ mode = {i} /\ synced = {i}
        /\ journal = {<<names, {i}>>}
  BY DEF UpdateInit
<1>2. /\ i # Hole /\ First \in Binary
      /\ names["exe"] = i /\ names["backup"] = Hole /\ names["staging"] = Hole
  BY <1>1 DEF Names
<1>3. names \in [Names -> ExeInode \cup {Hole}]
  BY <1>1
<1>4. half \in [ExeInode -> [{"low", "high"} -> Binary \cup {Hole}]]
  BY <1>1, <1>2 DEF Whole, Blank
<1>5. UpdateTypeOK
  <2>1. journal \subseteq [Names -> ExeInode \cup {Hole}] \X SUBSET ExeInode
    BY <1>1, <1>3
  <2>2. updates \in 0..MaxUpdates /\ astray \in BOOLEAN
    <3>1. MaxUpdates \in Nat /\ updates = 0
      BY DEF UpdateInit, UpdateAssumption
    <3>2. updates \in 0..MaxUpdates
      BY ONLY <3>1
    <3> QED BY <3>2 DEF UpdateInit
  <2>3. /\ step \in [Updater -> Steps]
        /\ image \in [Updater -> ExeInode \cup {Hole}]
        /\ exePath \in [Updater -> {"exe", "backup", Hole}]
        /\ open \in [Updater -> ExeInode \cup {Hole}]
        /\ target \in [Updater -> Releases \cup {NoRelease}]
        /\ outcome \in [Updater -> {"none", "kept", "updated", "failed"}]
    BY DEF UpdateInit, Steps
  <2> QED BY <1>1, <1>3, <1>4, <2>1, <2>2, <2>3 DEF UpdateTypeOK
<1>6. Intact(i)
  BY <1>1, <1>2 DEF Intact
<1>7. JournalSound
  BY <1>1, <1>2, <1>6 DEF JournalSound, Survivor
<1>8. Running = {} /\ \A u \in Updater : step[u] = "off"
  BY DEF Running, UpdateInit
<1> QED BY <1>5, <1>7, <1>8 DEF UpdateInv

\* What a step of one process does to the type invariant, part by part.
LEMMA UpdateStepTyped ==
  ASSUME UpdateInv, NEW u \in Updater,
         \/ StartUpdate(u) \/ Select(u) \/ NothingToDo(u) \/ GivesUp(u)
         \/ Download(u) \/ Verify(u) \/ DryRunEnds(u)
         \/ Stage(u) \/ WriteLow(u) \/ WriteHigh(u) \/ Sync(u) \/ Chmod(u)
         \/ Backup(u) \/ BackupFails(u) \/ Install(u) \/ InstallFails(u)
         \/ Restore(u) \/ RestoreFails(u) \/ CleanUp(u) \/ KillUpdate(u)
  PROVE  /\ UpdateTypeOK'
         /\ \A v \in Updater : step'[v] \in {"low", "high", "sync"} => open'[v] # Hole
<1> USE UpdateAssumption
<1>1. UpdateTypeOK /\ \A v \in Updater : step[v] \in {"low", "high", "sync"} => open[v] # Hole
  BY DEF UpdateInv
<1>2. \A n, m \in Names : Renamed(n, m) \in [Names -> ExeInode \cup {Hole}]
  BY <1>1 DEF Renamed, UpdateTypeOK
<1>3. \A n \in Names : Removed(n) \in [Names -> ExeInode \cup {Hole}]
  BY <1>1 DEF Removed, UpdateTypeOK
<1>4. ASSUME NEW ns \in [Names -> ExeInode \cup {Hole}], NEW m \in SUBSET ExeInode,
             Journalled(ns, m)
      PROVE  /\ names' \in [Names -> ExeInode \cup {Hole}]
             /\ mode' \subseteq ExeInode
             /\ journal' \subseteq [Names -> ExeInode \cup {Hole}] \X SUBSET ExeInode
  BY <1>1, <1>4 DEF Journalled, UpdateTypeOK
<1>5. target[u].asset \in Binary \cup {Hole}
  BY <1>1 DEF UpdateTypeOK, NoRelease, ReleaseType
<1>6. CASE StartUpdate(u)
  <2>1. PICK n \in {"exe", "backup"} :
          /\ image' = [image EXCEPT ![u] = names[n]]
          /\ exePath' = [exePath EXCEPT ![u] = n]
          /\ astray' = (astray \/ Running # {} \/ n = "backup")
    BY <1>6 DEF StartUpdate
  <2>2. names[n] \in ExeInode \cup {Hole}
    BY <1>1 DEF UpdateTypeOK, Names
  <2>3. /\ image' \in [Updater -> ExeInode \cup {Hole}]
        /\ exePath' \in [Updater -> {"exe", "backup", Hole}]
        /\ astray' \in BOOLEAN
    BY <1>1, <2>1, <2>2 DEF UpdateTypeOK
  <2> QED BY <1>1, <1>6, <2>3 DEF StartUpdate, UpdateTypeOK, files, Steps
<1>7. CASE Select(u)
  <2>1. target' \in [Updater -> Releases \cup {NoRelease}]
    BY <1>1, <1>7 DEF Select, UpdateTypeOK, Wanted, Latest
  <2> QED BY <1>1, <1>7, <2>1 DEF Select, UpdateTypeOK, files, Steps, Goes
<1>8. CASE NothingToDo(u) \/ GivesUp(u) \/ DryRunEnds(u) \/ RestoreFails(u) \/ KillUpdate(u)
  BY <1>1, <1>8 DEF NothingToDo, GivesUp, DryRunEnds, RestoreFails, KillUpdate, UpdateTypeOK,
     files, Steps, Ends
<1>9. CASE Download(u) \/ Verify(u) \/ InstallFails(u)
  BY <1>1, <1>9 DEF Download, Verify, InstallFails, UpdateTypeOK, files, Steps, Goes, Keeps
<1>10. CASE Stage(u)
  <2> DEFINE j == CHOOSE k \in FreshInodes : TRUE
             i == IF names["staging"] # Hole THEN names["staging"] ELSE j
  <2>1. i \in ExeInode
    <3>1. FreshInodes \subseteq ExeInode /\ (FreshInodes # {} => j \in FreshInodes)
      BY DEF FreshInodes
    <3> QED BY <1>1, <1>10, <3>1 DEF Stage, UpdateTypeOK, Names
  <2>2. /\ half' = [half EXCEPT ![i] = Blank]
        /\ synced' = synced \ {i}
        /\ Journalled([names EXCEPT !["staging"] = i],
                      IF names["staging"] = i THEN mode ELSE mode \ {i})
        /\ open' = [open EXCEPT ![u] = i]
        /\ exePath' \in [Updater -> {"exe", "backup", Hole}]
        /\ Goes(u, "low") /\ UNCHANGED target
    BY <1>1, <1>10 DEF Stage, UpdateTypeOK, CurrentExe
  <2> HIDE DEF i, j
  <2>3. [names EXCEPT !["staging"] = i] \in [Names -> ExeInode \cup {Hole}]
    BY <1>1, <2>1 DEF UpdateTypeOK
  <2>4. (IF names["staging"] = i THEN mode ELSE mode \ {i}) \in SUBSET ExeInode
    BY <1>1 DEF UpdateTypeOK
  <2>5. half' \in [ExeInode -> [{"low", "high"} -> Binary \cup {Hole}]]
    BY <1>1, <2>2 DEF UpdateTypeOK, Blank, Whole
  <2> QED BY <1>1, <1>4, <2>1, <2>2, <2>3, <2>4, <2>5 DEF UpdateTypeOK, Steps, Goes
<1>11. CASE WriteLow(u) \/ WriteHigh(u)
  <2>1. half' \in [ExeInode -> [{"low", "high"} -> Binary \cup {Hole}]]
    <3>1. PICK h \in {"low", "high"} :
            half' = [half EXCEPT ![open[u]][h] = target[u].asset]
      BY <1>11 DEF WriteLow, WriteHigh, Write
    <3>2. half \in [ExeInode -> [{"low", "high"} -> Binary \cup {Hole}]]
      BY <1>1 DEF UpdateTypeOK
    <3> QED BY ONLY <1>5, <3>1, <3>2
  <2> QED BY <1>1, <1>11, <2>1 DEF UpdateTypeOK, WriteLow, WriteHigh, Write, Steps, Goes, Keeps
<1>12. CASE Sync(u)
  BY <1>1, <1>12 DEF UpdateTypeOK, Sync, Steps, Goes
<1>13. CASE Chmod(u)
  <2>1. names["staging"] \in ExeInode
    BY <1>1, <1>13 DEF Chmod, UpdateTypeOK, Names
  <2>2. mode \cup {names["staging"]} \in SUBSET ExeInode
    BY <1>1, <2>1 DEF UpdateTypeOK
  <2> QED BY <1>1, <1>4, <1>13, <2>2 DEF UpdateTypeOK, Chmod, Steps, Goes, Keeps
<1>14. CASE Backup(u)
  <2>1. Renamed(exePath[u], "backup") \in [Names -> ExeInode \cup {Hole}]
    BY <1>1, <1>2, <1>14 DEF Backup, UpdateTypeOK, Names
  <2> QED BY <1>1, <1>4, <1>14, <2>1 DEF UpdateTypeOK, Backup, Steps, Goes, Keeps
<1>15. CASE BackupFails(u) \/ CleanUp(u)
  <2>1. Removed("staging") \in [Names -> ExeInode \cup {Hole}]
    BY <1>3 DEF Names
  <2>2. Removed("backup") \in [Names -> ExeInode \cup {Hole}]
    BY <1>3 DEF Names
  <2>3. /\ names' \in [Names -> ExeInode \cup {Hole}]
        /\ mode' \subseteq ExeInode
        /\ journal' \subseteq [Names -> ExeInode \cup {Hole}] \X SUBSET ExeInode
    BY <1>1, <1>4, <1>15, <2>1, <2>2 DEF UpdateTypeOK, BackupFails, CleanUp
  <2> QED BY <1>1, <1>15, <2>3 DEF UpdateTypeOK, BackupFails, CleanUp, Steps, Ends
<1>16. CASE Install(u) \/ Restore(u)
  <2>1. /\ Renamed("staging", exePath[u]) \in [Names -> ExeInode \cup {Hole}]
        /\ Renamed("backup", exePath[u]) \in [Names -> ExeInode \cup {Hole}]
    BY <1>1 DEF UpdateTypeOK, Names, Renamed
  <2>2. /\ names' \in [Names -> ExeInode \cup {Hole}]
        /\ mode' \subseteq ExeInode
        /\ journal' \subseteq [Names -> ExeInode \cup {Hole}] \X SUBSET ExeInode
    BY <1>1, <1>4, <1>16, <2>1 DEF UpdateTypeOK, Install, Restore
  <2> QED BY <1>1, <1>16, <2>2 DEF UpdateTypeOK, Install, Restore, Steps, Ends, Goes, Keeps
<1> QED BY <1>6, <1>7, <1>8, <1>9, <1>10, <1>11, <1>12, <1>13, <1>14, <1>15, <1>16

\* A process that is running is the only one, while nothing ever went astray.
LEMMA RunsAlone ==
  ASSUME UpdateInv, ~astray, NEW u \in Updater, step[u] # "off"
  PROVE  RunSound(u) /\ JournalSound /\ \A v \in Updater \ {u} : step[v] = "off"
BY DEF UpdateInv, Running, RunSound

\* When it ends there is nothing left to say of it.
LEMMA RunEnds ==
  ASSUME UpdateInv, ~astray, NEW u \in Updater, step[u] # "off",
         step' = [step EXCEPT ![u] = "off"]
  PROVE  Running' = {}
BY RunsAlone DEF Running, UpdateInv, UpdateTypeOK

\* When it goes on, it is enough to look at that process.
LEMMA RunGoesOn ==
  ASSUME UpdateInv, ~astray, NEW u \in Updater, step[u] # "off", NEW s,
         step' = [step EXCEPT ![u] = s]
  PROVE  /\ step'[u] = s
         /\ \A v \in Updater \ {u} : step'[v] = "off"
         /\ Running' \subseteq {u}
BY RunsAlone DEF Running, UpdateInv, UpdateTypeOK

\* Nothing of the journal speaks of anything but files.
LEMMA JournalKept == JournalSound /\ UNCHANGED files => JournalSound'
BY DEF JournalSound, files, Intact

\* A new state of names and modes that keeps a survivor may be journalled
\* (Chmod, and the renames and removals of replace_binary).
LEMMA JournalGrows ==
  ASSUME JournalSound, UNCHANGED <<half, synced>>, NEW ns, NEW m, Journalled(ns, m),
         Survivor(ns) \in m \cap synced, Intact(Survivor(ns)),
         ns["exe"] # Hole => ns["exe"] # ns["backup"],
         \A n \in {"exe", "backup"} : ns[n] # Hole => ns[n] # ns["staging"],
         ns["staging"] \in {names["staging"], Hole}
  PROVE  JournalSound'
<1>1. /\ names' = ns /\ mode' = m /\ journal' = journal \cup {<<ns, m>>}
      /\ half' = half /\ synced' = synced
  BY DEF Journalled
<1>2. \A i : Intact(i) <=> \E b \in Binary : half'[i] = Whole(b)
  BY <1>1 DEF Intact
<1>3. ASSUME NEW j \in journal'
      PROVE  /\ Survivor(j[1]) \in j[2] \cap synced' /\ Intact(Survivor(j[1]))
             /\ j[1]["exe"] # Hole => j[1]["exe"] # j[1]["backup"]
             /\ \A n \in {"exe", "backup"} :
                  j[1][n] # Hole => j[1][n] \notin {j[1]["staging"], names'["staging"]}
  <2>1. CASE j \in journal
    BY <1>1, <2>1 DEF JournalSound
  <2>2. CASE j = <<ns, m>>
    <3>1. j[1] = ns /\ j[2] = m
      BY <2>2
    <3> QED BY <1>1, <3>1
  <2> QED BY <1>1, <2>1, <2>2
<1>4. <<names', mode'>> \in journal'
  BY <1>1
<1> QED BY <1>2, <1>3, <1>4 DEF JournalSound, Survivor, Intact

\* What the running process knows of the files it works on.
LEMMA RunFacts ==
  ASSUME UpdateInv, ~astray, NEW u \in Updater, step[u] # "off"
  PROVE  /\ names \in [Names -> ExeInode \cup {Hole}] /\ Hole \notin ExeInode
         /\ Survivor(names) \in mode \cap synced /\ Intact(Survivor(names))
         /\ names["exe"] # Hole => names["exe"] # names["backup"]
         /\ \A n \in {"exe", "backup"} : names[n] # Hole => names[n] # names["staging"]
<1>1. JournalSound
  BY RunsAlone
<1>2. <<names, mode>>[1] = names /\ <<names, mode>>[2] = mode
  OBVIOUS
<1> QED BY <1>1, <1>2, UpdateAssumption DEF JournalSound, UpdateInv, UpdateTypeOK

\* Starting an update: no other one runs and it is not the backup that is started,
\* or things are astray from here on.
LEMMA StartKeeps ==
  ASSUME UpdateInv, NEW u \in Updater, StartUpdate(u), ~astray'
  PROVE  ~astray /\ JournalSound' /\ \A v \in Running' : RunSound(v)'
<1>1. ~astray /\ Running = {} /\ UNCHANGED files /\ Runnable("exe")
      /\ image' = [image EXCEPT ![u] = names["exe"]]
      /\ exePath' = [exePath EXCEPT ![u] = "exe"]
  BY DEF StartUpdate
<1>2. JournalSound'
  BY <1>1, JournalKept DEF UpdateInv
<1>3. /\ step' = [step EXCEPT ![u] = "fetch"] /\ image'[u] = names["exe"] /\ names["exe"] # Hole
      /\ names'["exe"] = names["exe"] /\ exePath'[u] = "exe"
  BY <1>1 DEF StartUpdate, UpdateInv, UpdateTypeOK, Runnable, files
<1>4. step'[u] = "fetch" /\ \A v \in Updater \ {u} : step'[v] = "off"
  BY <1>1, <1>3 DEF Running, UpdateInv, UpdateTypeOK
<1>5. RunSound(u)'
  BY <1>3, <1>4 DEF RunSound
<1>6. Running' \subseteq {u}
  BY <1>4 DEF Running
<1> QED BY <1>1, <1>2, <1>5, <1>6

\* Steps that only go on: the release is chosen, downloaded and verified, and the
\* second rename fails.
LEMMA GoOnKeeps ==
  ASSUME UpdateInv, ~astray, NEW u \in Updater,
         Select(u) \/ Download(u) \/ Verify(u) \/ InstallFails(u)
  PROVE  JournalSound' /\ \A v \in Running' : RunSound(v)'
<1>1. step[u] # "off" /\ UNCHANGED <<files, exePath, open, image>>
  BY DEF Select, Download, Verify, InstallFails, Goes, Keeps
<1>2. RunSound(u) /\ JournalSound
  BY <1>1, RunsAlone
<1>3. JournalSound'
  BY <1>1, <1>2, JournalKept
<1>4. PICK s \in {"download", "verify", "create", "restore"} :
        step' = [step EXCEPT ![u] = s]
  BY DEF Select, Download, Verify, InstallFails, Goes
<1>5. step'[u] = s /\ (\A v \in Updater \ {u} : step'[v] = "off") /\ Running' \subseteq {u}
  BY <1>1, <1>4, RunGoesOn
<1>6. Current(u)' = Current(u) /\ names' = names /\ half' = half
  BY <1>1 DEF Current, files
<1>7. RunSound(u)'
  <2>1. CASE Select(u)
    <3>1. step'[u] = "download" /\ step[u] = "fetch" /\ target'[u].version > Current(u)
      BY <1>5, <2>1 DEF Select, Goes, UpdateInv, UpdateTypeOK
    <3> QED BY <1>1, <1>2, <1>5, <1>6, <3>1 DEF RunSound
  <2>2. CASE Download(u)
    <3>1. step'[u] = "verify" /\ step[u] = "download" /\ target' = target
          /\ target[u].asset # Hole
      BY <1>5, <2>2 DEF Download, Goes, Keeps, UpdateInv, UpdateTypeOK
    <3> QED BY <1>1, <1>2, <1>5, <1>6, <3>1 DEF RunSound
  <2>3. CASE Verify(u)
    <3>1. step'[u] = "create" /\ step[u] = "verify" /\ target' = target
          /\ Authentic(target[u])
      BY <1>5, <2>3 DEF Verify, Goes, Keeps, UpdateInv, UpdateTypeOK, Authentic
    <3> QED BY <1>1, <1>2, <1>5, <1>6, <3>1 DEF RunSound
  <2>4. CASE InstallFails(u)
    <3>1. step'[u] = "restore" /\ step[u] = "install" /\ target' = target
      BY <1>5, <2>4 DEF InstallFails, Goes, Keeps, UpdateInv, UpdateTypeOK
    <3> QED BY <1>1, <1>2, <1>5, <1>6, <3>1 DEF RunSound
  <2> QED BY <2>1, <2>2, <2>3, <2>4
<1> QED BY <1>3, <1>5, <1>7

\* Steps that end the update and leave the files alone.
LEMMA QuietEndKeeps ==
  ASSUME UpdateInv, ~astray, NEW u \in Updater,
         NothingToDo(u) \/ GivesUp(u) \/ DryRunEnds(u) \/ RestoreFails(u) \/ KillUpdate(u)
  PROVE  JournalSound' /\ Running' = {}
<1>1. step[u] # "off" /\ UNCHANGED files /\ step' = [step EXCEPT ![u] = "off"]
  BY DEF NothingToDo, GivesUp, DryRunEnds, RestoreFails, KillUpdate, Ends
<1> QED BY <1>1, RunsAlone, RunEnds, JournalKept

\* The renames and removals that end it: putting the backup back, removing the
\* backup, and removing the staged file when the first rename failed.
LEMMA LoudEndKeeps ==
  ASSUME UpdateInv, ~astray, NEW u \in Updater,
         BackupFails(u) \/ Restore(u) \/ CleanUp(u)
  PROVE  JournalSound' /\ Running' = {}
<1>1. step[u] # "off" /\ UNCHANGED <<half, synced>> /\ step' = [step EXCEPT ![u] = "off"]
  BY DEF BackupFails, Restore, CleanUp, Ends
<1>2. RunSound(u) /\ JournalSound
  BY <1>1, RunsAlone
<1>3. /\ names \in [Names -> ExeInode \cup {Hole}] /\ Hole \notin ExeInode
      /\ Survivor(names) \in mode \cap synced /\ Intact(Survivor(names))
      /\ names["exe"] # Hole => names["exe"] # names["backup"]
      /\ \A n \in {"exe", "backup"} : names[n] # Hole => names[n] # names["staging"]
  BY <1>1, RunFacts
<1>4. Running' = {}
  BY <1>1, RunEnds
<1>5. CASE UNCHANGED <<names, mode, journal>>
  <2>1. UNCHANGED files
    BY <1>1, <1>5 DEF files
  <2> QED BY <1>2, <1>4, <2>1, JournalKept
<1>6. CASE BackupFails(u) /\ Journalled(Removed("staging"), mode)
  <2> DEFINE ns == Removed("staging")
  <2>1. ns["exe"] = names["exe"] /\ ns["backup"] = names["backup"] /\ ns["staging"] = Hole
    BY <1>3 DEF Removed, Names
  <2>2. Survivor(ns) = Survivor(names)
    BY <2>1 DEF Survivor
  <2>3. Journalled(ns, mode)
    BY <1>6
  <2> HIDE DEF ns
  <2>4. /\ Survivor(ns) \in mode \cap synced /\ Intact(Survivor(ns))
        /\ ns["exe"] # Hole => ns["exe"] # ns["backup"]
        /\ \A n \in {"exe", "backup"} : ns[n] # Hole => ns[n] # ns["staging"]
        /\ ns["staging"] \in {names["staging"], Hole}
    BY <1>3, <2>1, <2>2
  <2> QED BY <1>1, <1>2, <1>4, <2>3, <2>4, JournalGrows
<1>7. CASE Restore(u)
  <2> DEFINE ns == Renamed("backup", "exe")
  <2>1. step[u] = "restore" /\ exePath[u] = "exe" /\ names["exe"] = Hole
        /\ names["backup"] # Hole
    BY <1>2, <1>7 DEF Restore, RunSound
  <2>2. ns["exe"] = names["backup"] /\ ns["backup"] = Hole /\ ns["staging"] = names["staging"]
    BY <1>3 DEF Renamed, Names
  <2>3. Survivor(ns) = Survivor(names)
    BY <2>1, <2>2 DEF Survivor
  <2>4. Journalled(ns, mode)
    BY <1>7, <2>1 DEF Restore
  <2> HIDE DEF ns
  <2>5. /\ Survivor(ns) \in mode \cap synced /\ Intact(Survivor(ns))
        /\ ns["exe"] # Hole => ns["exe"] # ns["backup"]
        /\ \A n \in {"exe", "backup"} : ns[n] # Hole => ns[n] # ns["staging"]
        /\ ns["staging"] \in {names["staging"], Hole}
    BY <1>3, <2>1, <2>2, <2>3
  <2> QED BY <1>1, <1>2, <1>4, <2>4, <2>5, JournalGrows
<1>8. CASE CleanUp(u) /\ Journalled(Removed("backup"), mode)
  <2> DEFINE ns == Removed("backup")
  <2>1. names["exe"] # Hole
    BY <1>2, <1>8 DEF CleanUp, RunSound
  <2>2. ns["exe"] = names["exe"] /\ ns["backup"] = Hole /\ ns["staging"] = names["staging"]
    BY <1>3 DEF Removed, Names
  <2>3. Survivor(ns) = Survivor(names)
    BY <2>1, <2>2 DEF Survivor
  <2>4. Journalled(ns, mode)
    BY <1>8
  <2> HIDE DEF ns
  <2>5. /\ Survivor(ns) \in mode \cap synced /\ Intact(Survivor(ns))
        /\ ns["exe"] # Hole => ns["exe"] # ns["backup"]
        /\ \A n \in {"exe", "backup"} : ns[n] # Hole => ns[n] # ns["staging"]
        /\ ns["staging"] \in {names["staging"], Hole}
    BY <1>3, <2>1, <2>2, <2>3
  <2> QED BY <1>1, <1>2, <1>4, <2>4, <2>5, JournalGrows
<1>9. \/ UNCHANGED <<names, mode, journal>>
      \/ BackupFails(u) /\ Journalled(Removed("staging"), mode)
      \/ Restore(u)
      \/ CleanUp(u) /\ Journalled(Removed("backup"), mode)
  BY DEF BackupFails, CleanUp
<1> QED BY <1>4, <1>5, <1>6, <1>7, <1>8, <1>9

\* The inode that is written is none that any state of the journal survives by: the
\* executable or its backup is left as it is.
LEMMA StagedApart ==
  ASSUME UpdateInv, ~astray, NEW u \in Updater, step[u] \in {"create", "low", "high"},
         NEW i,
         \/ i = names["staging"] /\ i # Hole
         \/ i \in FreshInodes
  PROVE  /\ i \in ExeInode /\ i # image[u]
         /\ \A j \in journal : /\ Survivor(j[1]) # i
                               /\ \A n \in {"exe", "backup"} : j[1][n] # i
<1>1. JournalSound /\ RunSound(u)
  BY RunsAlone
<1>2. \A j \in journal : /\ j[1] \in [Names -> ExeInode \cup {Hole}] /\ j[2] \subseteq ExeInode
  BY DEF UpdateInv, UpdateTypeOK
<1>3. names \in [Names -> ExeInode \cup {Hole}] /\ Hole \notin ExeInode
  BY UpdateAssumption DEF UpdateInv, UpdateTypeOK
<1>4. i \in ExeInode /\ i # Hole
  BY <1>3 DEF FreshInodes, Names
<1>5. ASSUME NEW j \in journal, NEW n \in {"exe", "backup"} PROVE j[1][n] # i
  <2>1. CASE i = names["staging"]
    BY <1>1, <1>4, <2>1 DEF JournalSound
  <2>2. CASE i \in FreshInodes
    BY <2>2 DEF FreshInodes, Names
  <2> QED BY <2>1, <2>2
<1>6. \A j \in journal : Survivor(j[1]) # i
  BY <1>5 DEF Survivor
<1>7. i # image[u]
  <2>1. CASE i \in FreshInodes
    BY <2>1 DEF FreshInodes
  <2>2. CASE i = names["staging"]
    <3>1. <<names, mode>> \in journal /\ <<names, mode>>[1] = names
      BY <1>1 DEF JournalSound
    <3>2. names["exe"] # i /\ names["backup"] # i
      BY <1>5, <3>1
    <3> QED BY <1>1, <3>2 DEF RunSound
  <2> QED BY <2>1, <2>2
<1> QED BY <1>4, <1>5, <1>6, <1>7

\* Creating the staging file, which empties what is there.
LEMMA StageKeeps ==
  ASSUME UpdateInv, ~astray, NEW u \in Updater, Stage(u)
  PROVE  JournalSound' /\ \A v \in Running' : RunSound(v)'
<1> DEFINE i0 == IF names["staging"] # Hole THEN names["staging"]
                 ELSE CHOOSE j \in FreshInodes : TRUE
<1>1. step[u] = "create"
  BY DEF Stage
<1>2. RunSound(u) /\ JournalSound
  BY <1>1, RunsAlone
<1>3. \/ i0 = names["staging"] /\ i0 # Hole
      \/ i0 \in FreshInodes
  BY DEF Stage
<1>4. /\ half' = [half EXCEPT ![i0] = Blank]
      /\ synced' = synced \ {i0}
      /\ Journalled([names EXCEPT !["staging"] = i0],
                    IF names["staging"] = i0 THEN mode ELSE mode \ {i0})
      /\ open' = [open EXCEPT ![u] = i0]
      /\ step' = [step EXCEPT ![u] = "low"]
      /\ UNCHANGED <<image, target>>
  BY DEF Stage, Goes
<1> HIDE DEF i0
<1>5. PICK i : i = i0
  OBVIOUS
<1>6. /\ i \in ExeInode /\ i # image[u]
      /\ \A j \in journal : /\ Survivor(j[1]) # i
                            /\ \A n \in {"exe", "backup"} : j[1][n] # i
  BY <1>1, <1>3, <1>5, StagedApart
<1>7. /\ names \in [Names -> ExeInode \cup {Hole}] /\ Hole \notin ExeInode
      /\ half \in [ExeInode -> [{"low", "high"} -> Binary \cup {Hole}]]
      /\ open \in [Updater -> ExeInode \cup {Hole}]
      /\ exePath \in [Updater -> {"exe", "backup", Hole}]
  BY UpdateAssumption DEF UpdateInv, UpdateTypeOK
<1>8. /\ names' = [names EXCEPT !["staging"] = i]
      /\ mode \ {i} \subseteq mode'
      /\ journal' = journal \cup {<<names', mode'>>}
      /\ \A k \in ExeInode : k # i => half'[k] = half[k]
      /\ synced' = synced \ {i} /\ open'[u] = i
  BY <1>4, <1>5, <1>7 DEF Journalled
<1>9. /\ names'["staging"] = i
      /\ names'["exe"] = names["exe"] /\ names'["backup"] = names["backup"]
  BY <1>7, <1>8 DEF Names
<1>10. exePath'[u] = "exe"
  <2>1. names["exe"] = image[u] /\ image[u] # Hole
    BY <1>1, <1>2 DEF RunSound
  <2>2. names["backup"] # image[u]
    BY <1>1, <2>1, RunFacts
  <2>3. CurrentExe(u) = {"exe"}
    BY <1>2, <2>1, <2>2 DEF CurrentExe, RunSound
  <2> QED BY <1>7, <2>3 DEF Stage
<1>11. JournalSound'
  <2>1. ASSUME NEW j \in journal
        PROVE  /\ Survivor(j[1]) \in j[2] \cap synced'
               /\ \E b \in Binary : half'[Survivor(j[1])] = Whole(b)
               /\ j[1]["exe"] # Hole => j[1]["exe"] # j[1]["backup"]
               /\ \A n \in {"exe", "backup"} :
                    j[1][n] # Hole => j[1][n] \notin {j[1]["staging"], names'["staging"]}
    <3>1. /\ Survivor(j[1]) \in j[2] \cap synced /\ Intact(Survivor(j[1]))
          /\ j[1]["exe"] # Hole => j[1]["exe"] # j[1]["backup"]
          /\ \A n \in {"exe", "backup"} : j[1][n] # Hole => j[1][n] # j[1]["staging"]
      BY <1>2 DEF JournalSound
    <3>2. Survivor(j[1]) \in ExeInode
      BY <3>1 DEF UpdateInv, UpdateTypeOK
    <3> QED BY <1>6, <1>8, <1>9, <3>1, <3>2 DEF Intact
  <2>2. <<names, mode>> \in journal /\ <<names, mode>>[1] = names /\ <<names, mode>>[2] = mode
    BY <1>2 DEF JournalSound
  <2>3. Survivor(names') = Survivor(names) /\ Survivor(names) # i
    BY <1>6, <1>9, <2>2 DEF Survivor
  <2>4. /\ Survivor(names') \in mode' \cap synced'
        /\ \E b \in Binary : half'[Survivor(names')] = Whole(b)
        /\ names'["exe"] # Hole => names'["exe"] # names'["backup"]
        /\ \A n \in {"exe", "backup"} : names'[n] # Hole => names'[n] # names'["staging"]
    <3>1. /\ Survivor(names) \in mode \cap synced'
          /\ \E b \in Binary : half'[Survivor(names)] = Whole(b)
          /\ names["exe"] # Hole => names["exe"] # names["backup"]
      BY <2>1, <2>2
    <3>2. names["exe"] # i /\ names["backup"] # i
      BY <1>6, <2>2
    <3> QED BY <1>8, <1>9, <2>3, <3>1, <3>2
  <2>5. <<names', mode'>>[1] = names' /\ <<names', mode'>>[2] = mode'
    OBVIOUS
  <2> QED BY <1>8, <2>1, <2>4, <2>5 DEF JournalSound, Survivor, Intact
<1>12. /\ step'[u] = "low" /\ (\A v \in Updater \ {u} : step'[v] = "off")
       /\ Running' \subseteq {u}
  BY <1>1, <1>4, RunGoesOn
<1>13. RunSound(u)'
  <2>1. names["exe"] = image[u] /\ image[u] # Hole /\ target' = target /\ image' = image
    BY <1>1, <1>2, <1>4 DEF RunSound
  <2>2. /\ target[u].version > Current(u) /\ target[u].asset # Hole /\ Authentic(target[u])
    BY <1>1, <1>2 DEF RunSound
  <2>3. image[u] \in ExeInode
    BY <2>1 DEF UpdateInv, UpdateTypeOK
  <2>4. Current(u)' = Current(u)
    BY <1>6, <1>8, <2>1, <2>3 DEF Current
  <2> QED BY <1>6, <1>7, <1>8, <1>9, <1>10, <1>12, <2>1, <2>2, <2>4 DEF RunSound
<1> QED BY <1>11, <1>12, <1>13

\* Writing either half of the staged bytes.
LEMMA WriteKeeps ==
  ASSUME UpdateInv, ~astray, NEW u \in Updater, WriteLow(u) \/ WriteHigh(u)
  PROVE  JournalSound' /\ \A v \in Running' : RunSound(v)'
<1>1. step[u] \in {"low", "high"}
  BY DEF WriteLow, WriteHigh, Write
<1>2. RunSound(u) /\ JournalSound
  BY <1>1, RunsAlone
<1>3. PICK i : i = open[u]
  OBVIOUS
<1>4. i = names["staging"] /\ i # Hole
  BY <1>1, <1>2, <1>3 DEF RunSound
<1>5. /\ i \in ExeInode /\ i # image[u]
      /\ \A j \in journal : /\ Survivor(j[1]) # i
                            /\ \A n \in {"exe", "backup"} : j[1][n] # i
  BY <1>1, <1>4, StagedApart
<1>6. /\ names \in [Names -> ExeInode \cup {Hole}] /\ Hole \notin ExeInode
      /\ half \in [ExeInode -> [{"low", "high"} -> Binary \cup {Hole}]]
      /\ step \in [Updater -> Steps]
  BY UpdateAssumption DEF UpdateInv, UpdateTypeOK
<1>7. /\ UNCHANGED <<names, mode, journal, exePath, open, target, image>>
      /\ synced' = synced \ {i}
      /\ \A k \in ExeInode : k # i => half'[k] = half[k]
  BY <1>3, <1>6 DEF WriteLow, WriteHigh, Write, Goes, Keeps
<1>8. JournalSound'
  <2>1. ASSUME NEW j \in journal
        PROVE  Survivor(j[1]) \in j[2] \cap synced' /\ \E b \in Binary : half'[Survivor(j[1])] = Whole(b)
    <3>1. Survivor(j[1]) \in j[2] \cap synced /\ Intact(Survivor(j[1]))
      BY <1>2 DEF JournalSound
    <3>2. Survivor(j[1]) \in ExeInode
      BY <3>1 DEF UpdateInv, UpdateTypeOK
    <3> QED BY <1>5, <1>7, <3>1, <3>2 DEF Intact
  <2> QED BY <1>2, <1>7, <2>1 DEF JournalSound, Survivor, Intact
<1>9. PICK s \in {"high", "sync"} : step' = [step EXCEPT ![u] = s]
  BY DEF WriteLow, WriteHigh, Write, Goes
<1>10. /\ step'[u] = s /\ (\A v \in Updater \ {u} : step'[v] = "off")
       /\ Running' \subseteq {u}
  BY <1>1, <1>9, RunGoesOn
<1>11. RunSound(u)'
  <2>1. names["exe"] = image[u] /\ image[u] # Hole /\ exePath[u] = "exe"
    BY <1>1, <1>2 DEF RunSound
  <2>2. /\ target[u].version > Current(u) /\ target[u].asset # Hole /\ Authentic(target[u])
    BY <1>1, <1>2 DEF RunSound
  <2>3. image[u] \in ExeInode
    BY <2>1 DEF UpdateInv, UpdateTypeOK
  <2>4. Current(u)' = Current(u)
    BY <1>5, <1>7, <2>3 DEF Current
  <2>5. half'[i]["low"] = target[u].asset /\ (s = "sync" => half'[i]["high"] = target[u].asset)
    <3>1. CASE WriteLow(u)
      <4>1. half' = [half EXCEPT ![i]["low"] = target[u].asset]
        BY <1>3, <3>1 DEF WriteLow, Write
      <4>2. half'[i]["low"] = target[u].asset
        BY <1>5, <1>6, <4>1
      <4>3. s = "high"
        BY <1>6, <1>10, <3>1 DEF WriteLow, Write, Goes
      <4> QED BY <4>2, <4>3
    <3>2. CASE WriteHigh(u)
      <4>1. half' = [half EXCEPT ![i]["high"] = target[u].asset]
        BY <1>3, <3>2 DEF WriteHigh, Write
      <4>2. half[i]["low"] = target[u].asset
        BY <1>2, <1>3, <3>2 DEF WriteHigh, Write, RunSound
      <4> QED BY <1>5, <1>6, <4>1, <4>2
    <3> QED BY <3>1, <3>2
  <2> QED BY <1>3, <1>4, <1>7, <1>10, <2>1, <2>2, <2>4, <2>5 DEF RunSound
<1> QED BY <1>8, <1>10, <1>11

\* The staged bytes reach the disk.
LEMMA SyncKeeps ==
  ASSUME UpdateInv, ~astray, NEW u \in Updater, Sync(u)
  PROVE  JournalSound' /\ \A v \in Running' : RunSound(v)'
<1>1. step[u] = "sync"
  BY DEF Sync
<1>2. RunSound(u) /\ JournalSound
  BY <1>1, RunsAlone
<1>3. /\ synced' = synced \cup {open[u]} /\ step' = [step EXCEPT ![u] = "chmod"]
      /\ UNCHANGED <<names, half, mode, journal, exePath, target, image>>
  BY DEF Sync, Goes
<1>4. JournalSound'
  BY <1>2, <1>3 DEF JournalSound, Survivor, Intact
<1>5. /\ step'[u] = "chmod" /\ (\A v \in Updater \ {u} : step'[v] = "off")
      /\ Running' \subseteq {u}
  BY <1>1, <1>3, RunGoesOn
<1>6. PICK i : i = names["staging"]
  OBVIOUS
<1>7. /\ i # Hole /\ open[u] = i
      /\ half[i]["low"] = target[u].asset /\ half[i]["high"] = target[u].asset
  BY <1>1, <1>2, <1>6 DEF RunSound
<1>8. half[i] = Whole(target[u].asset)
  <2>1. half[i] \in [{"low", "high"} -> Binary \cup {Hole}]
    BY <1>6, <1>7 DEF UpdateInv, UpdateTypeOK, Names
  <2> QED BY <1>7, <2>1 DEF Whole
<1>9. Current(u)' = Current(u)
  BY <1>3 DEF Current
<1>10. RunSound(u)'
  BY <1>1, <1>2, <1>3, <1>5, <1>6, <1>7, <1>8, <1>9 DEF RunSound
<1> QED BY <1>4, <1>5, <1>10

\* It is made executable and renamed into place: permissions and the two renames.
LEMMA PlaceKeeps ==
  ASSUME UpdateInv, ~astray, NEW u \in Updater, Chmod(u) \/ Backup(u) \/ Install(u)
  PROVE  JournalSound' /\ \A v \in Running' : RunSound(v)'
<1>1. step[u] \in {"chmod", "backup", "install"}
  BY DEF Chmod, Backup, Install
<1>2. RunSound(u) /\ JournalSound
  BY <1>1, RunsAlone
<1>3. /\ names \in [Names -> ExeInode \cup {Hole}] /\ Hole \notin ExeInode
      /\ Survivor(names) \in mode \cap synced /\ Intact(Survivor(names))
      /\ names["exe"] # Hole => names["exe"] # names["backup"]
      /\ \A n \in {"exe", "backup"} : names[n] # Hole => names[n] # names["staging"]
  BY <1>1, RunFacts
<1>4. /\ exePath[u] = "exe" /\ image[u] # Hole
      /\ names["staging"] # Hole /\ names["staging"] \in synced
      /\ half[names["staging"]] = Whole(target[u].asset)
      /\ target[u].version > Current(u) /\ target[u].asset # Hole /\ Authentic(target[u])
  BY <1>1, <1>2 DEF RunSound
<1>5. /\ UNCHANGED <<half, synced, exePath, open, target, image>>
  BY DEF Chmod, Backup, Install, Goes, Keeps
<1>6. Current(u)' = Current(u)
  BY <1>5 DEF Current
<1>7. PICK s \in {"backup", "install", "cleanup"} : step' = [step EXCEPT ![u] = s]
  BY DEF Chmod, Backup, Install, Goes
<1>8. /\ step'[u] = s /\ (\A v \in Updater \ {u} : step'[v] = "off")
      /\ Running' \subseteq {u}
  BY <1>1, <1>7, RunGoesOn
<1>9. JournalSound' /\ RunSound(u)'
  <2>1. CASE Chmod(u)
    <3>1. /\ Journalled(names, mode \cup {names["staging"]})
          /\ names' = names /\ mode' = mode \cup {names["staging"]}
          /\ step[u] = "chmod" /\ step'[u] = "backup"
      BY <2>1, <1>8 DEF Chmod, Goes, Journalled, UpdateInv, UpdateTypeOK
    <3>2. JournalSound'
      BY <1>2, <1>3, <1>5, <3>1, JournalGrows
    <3>3. RunSound(u)'
      BY <1>2, <1>4, <1>5, <1>6, <1>8, <3>1 DEF RunSound
    <3> QED BY <3>2, <3>3
  <2>2. CASE Backup(u)
    <3> DEFINE ns == Renamed("exe", "backup")
    <3>1. /\ Journalled(ns, mode) /\ names' = ns /\ mode' = mode
          /\ step[u] = "backup" /\ step'[u] = "install"
      BY <2>2, <1>4, <1>8 DEF Backup, Goes, Journalled, UpdateInv, UpdateTypeOK
    <3>2. names["exe"] = image[u] /\ names["staging"] \in mode
      BY <1>2, <3>1 DEF RunSound
    <3>3. ns["exe"] = Hole /\ ns["backup"] = names["exe"] /\ ns["staging"] = names["staging"]
      BY <1>3 DEF Renamed, Names
    <3> HIDE DEF ns
    <3>4. Survivor(ns) = Survivor(names)
      BY <1>4, <3>2, <3>3 DEF Survivor
    <3>5. /\ Survivor(ns) \in mode \cap synced /\ Intact(Survivor(ns))
          /\ ns["exe"] # Hole => ns["exe"] # ns["backup"]
          /\ \A n \in {"exe", "backup"} : ns[n] # Hole => ns[n] # ns["staging"]
          /\ ns["staging"] \in {names["staging"], Hole}
      BY <1>3, <3>3, <3>4
    <3>6. JournalSound'
      BY <1>2, <1>5, <3>1, <3>5, JournalGrows
    <3>7. RunSound(u)'
      BY <1>2, <1>4, <1>5, <1>6, <1>8, <3>1, <3>2, <3>3 DEF RunSound
    <3> QED BY <3>6, <3>7
  <2>3. CASE Install(u)
    <3> DEFINE ns == Renamed("staging", "exe")
    <3>1. /\ Journalled(ns, mode) /\ names' = ns /\ mode' = mode
          /\ step[u] = "install" /\ step'[u] = "cleanup"
      BY <2>3, <1>4, <1>8 DEF Install, Goes, Journalled, UpdateInv, UpdateTypeOK
    <3>2. names["exe"] = Hole /\ names["backup"] = image[u] /\ names["staging"] \in mode
      BY <1>2, <3>1 DEF RunSound
    <3>3. ns["exe"] = names["staging"] /\ ns["backup"] = names["backup"] /\ ns["staging"] = Hole
      BY <1>3 DEF Renamed, Names
    <3> HIDE DEF ns
    <3>4. Intact(names["staging"])
      <4>1. target[u].asset \in Binary
        BY <1>4, UpdateAssumption DEF UpdateInv, UpdateTypeOK, NoRelease, ReleaseType
      <4> QED BY <1>4, <4>1 DEF Intact
    <3>5. /\ Survivor(ns) \in mode \cap synced /\ Intact(Survivor(ns))
          /\ ns["exe"] # Hole => ns["exe"] # ns["backup"]
          /\ \A n \in {"exe", "backup"} : ns[n] # Hole => ns[n] # ns["staging"]
          /\ ns["staging"] \in {names["staging"], Hole}
      BY <1>3, <1>4, <3>2, <3>3, <3>4 DEF Survivor
    <3>6. JournalSound'
      BY <1>2, <1>5, <3>1, <3>5, JournalGrows
    <3>7. RunSound(u)'
      BY <1>2, <1>4, <1>5, <1>6, <1>8, <3>1, <3>2, <3>3 DEF RunSound
    <3> QED BY <3>6, <3>7
  <2> QED BY <2>1, <2>2, <2>3
<1> QED BY <1>8, <1>9

\* Nothing that a survivor needs is gone with the power.
LEMMA PowerLossKeeps ==
  ASSUME UpdateInv, UpdatePowerLoss
  PROVE  /\ UpdateTypeOK' /\ \A v \in Updater : step'[v] = "off"
         /\ ~astray' => JournalSound'
<1>1. PICK j \in journal : names' = j[1] /\ mode' = j[2] /\ journal' = {j}
  BY DEF UpdatePowerLoss
<1>2. PICK gone \in SUBSET ((ExeInode \ synced) \X {"low", "high"}) :
        half' = [i \in ExeInode |-> [h \in {"low", "high"} |->
                   IF <<i, h>> \in gone THEN Hole ELSE half[i][h]]]
  BY DEF UpdatePowerLoss
<1>3. /\ step' = [u \in Updater |-> "off"] /\ open' = [u \in Updater |-> Hole]
      /\ synced' = ExeInode
      /\ UNCHANGED <<image, exePath, target, outcome, updates, astray>>
  BY DEF UpdatePowerLoss
<1>4. /\ half \in [ExeInode -> [{"low", "high"} -> Binary \cup {Hole}]]
      /\ journal \subseteq [Names -> ExeInode \cup {Hole}] \X SUBSET ExeInode
      /\ synced \subseteq ExeInode
  BY DEF UpdateInv, UpdateTypeOK
<1>5. \A i \in synced : half'[i] = half[i]
  BY <1>2, <1>4
<1>6. UpdateTypeOK'
  <2>1. half' \in [ExeInode -> [{"low", "high"} -> Binary \cup {Hole}]]
    BY <1>2, <1>4
  <2> QED BY <1>1, <1>3, <1>4, <2>1 DEF UpdateInv, UpdateTypeOK, Steps
<1>7. ASSUME ~astray' PROVE JournalSound'
  <2>1. JournalSound
    BY <1>3, <1>7 DEF UpdateInv
  <2>2. /\ Survivor(j[1]) \in j[2] \cap synced /\ Intact(Survivor(j[1]))
        /\ j[1]["exe"] # Hole => j[1]["exe"] # j[1]["backup"]
        /\ \A n \in {"exe", "backup"} : j[1][n] # Hole => j[1][n] # j[1]["staging"]
    BY <2>1 DEF JournalSound
  <2>3. Survivor(j[1]) \in j[2] \cap ExeInode /\ \E b \in Binary : half'[Survivor(j[1])] = Whole(b)
    BY <1>4, <1>5, <2>2 DEF Intact
  <2>4. j = <<j[1], j[2]>>
    BY <1>4
  <2> QED BY <1>1, <1>3, <2>2, <2>3, <2>4 DEF JournalSound, Survivor, Intact
<1> QED BY <1>3, <1>6, <1>7

\* One step of the protocol.
LEMMA UpdateStep == UpdateInv /\ [UpdateNext]_updateVars => UpdateInv'
<1> SUFFICES ASSUME UpdateInv, [UpdateNext]_updateVars PROVE UpdateInv'
  OBVIOUS
<1>1. CASE UpdatePowerLoss
  <2>1. Running' = {}
    BY <1>1, PowerLossKeeps DEF Running
  <2> QED BY <1>1, <2>1, PowerLossKeeps DEF UpdateInv
<1>2. CASE UNCHANGED updateVars
  BY <1>2 DEF UpdateInv, UpdateTypeOK, JournalSound, Intact, Running, RunSound, Current,
     updateVars, files
<1>3. ASSUME NEW u \in Updater,
             \/ StartUpdate(u) \/ Select(u) \/ NothingToDo(u) \/ GivesUp(u)
             \/ Download(u) \/ Verify(u) \/ DryRunEnds(u)
             \/ Stage(u) \/ WriteLow(u) \/ WriteHigh(u) \/ Sync(u) \/ Chmod(u)
             \/ Backup(u) \/ BackupFails(u) \/ Install(u) \/ InstallFails(u)
             \/ Restore(u) \/ RestoreFails(u) \/ CleanUp(u) \/ KillUpdate(u)
      PROVE  UpdateInv'
  <2>1. /\ UpdateTypeOK'
        /\ \A v \in Updater : step'[v] \in {"low", "high", "sync"} => open'[v] # Hole
    BY <1>3, UpdateStepTyped
  <2>2. ASSUME ~astray' PROVE JournalSound' /\ \A v \in Running' : RunSound(v)'
    <3>1. CASE StartUpdate(u)
      BY <2>2, <3>1, StartKeeps
    <3>2. CASE ~StartUpdate(u)
      <4>1. ~astray
        BY <1>3, <2>2, <3>2 DEF Select, NothingToDo, GivesUp, Download, Verify, DryRunEnds, Stage,
           WriteLow, WriteHigh, Write, Sync, Chmod, Backup, BackupFails, Install, InstallFails,
           Restore, RestoreFails, CleanUp, KillUpdate, Goes, Ends
      <4>2. CASE Select(u) \/ Download(u) \/ Verify(u) \/ InstallFails(u)
        BY <4>1, <4>2, GoOnKeeps
      <4>3. CASE NothingToDo(u) \/ GivesUp(u) \/ DryRunEnds(u) \/ RestoreFails(u) \/ KillUpdate(u)
        BY <4>1, <4>3, QuietEndKeeps
      <4>4. CASE BackupFails(u) \/ Restore(u) \/ CleanUp(u)
        BY <4>1, <4>4, LoudEndKeeps
      <4>5. CASE Stage(u)
        BY <4>1, <4>5, StageKeeps
      <4>6. CASE WriteLow(u) \/ WriteHigh(u)
        BY <4>1, <4>6, WriteKeeps
      <4>7. CASE Sync(u)
        BY <4>1, <4>7, SyncKeeps
      <4>8. CASE Chmod(u) \/ Backup(u) \/ Install(u)
        BY <4>1, <4>8, PlaceKeeps
      <4> QED BY <1>3, <3>2, <4>2, <4>3, <4>4, <4>5, <4>6, <4>7, <4>8
    <3> QED BY <3>1, <3>2
  <2> QED BY <2>1, <2>2 DEF UpdateInv
<1> QED BY <1>1, <1>2, <1>3 DEF UpdateNext

\* SelfUpdate's inductive invariant holds of every behaviour: while no two updates
\* overlap and none is started from the backup, every state of the names that a power loss may bring back has a whole,
\* synced executable at its name or in its backup (update.rs, replace_binary).
THEOREM UpdateInductive == UpdateSpec => []UpdateInv
<1>1. UpdateInit => UpdateInv
  BY UpdateInitInv
<1>2. UpdateInv /\ [UpdateNext]_updateVars => UpdateInv'
  BY UpdateStep
<1> QED BY <1>1, <1>2, PTL DEF UpdateSpec

\* What is at the executable's name can be run, and between the two renames its
\* backup can, whatever fails, is killed or loses power (update.rs:364), while no
\* two updates overlap and none is started from the backup.
THEOREM BinarySurvivesHolds == UpdateSpec => []BinarySurvives
<1>1. UpdateInv => BinarySurvives
  <2> SUFFICES ASSUME UpdateInv, ~astray
               PROVE  /\ names["exe"] # Hole => Runnable("exe")
                      /\ names["exe"] = Hole => Runnable("backup")
    BY DEF BinarySurvives
  <2>1. JournalSound /\ <<names, mode>>[1] = names /\ <<names, mode>>[2] = mode
    BY DEF UpdateInv
  <2>2. Survivor(names) \in mode \cap synced /\ Intact(Survivor(names))
    BY <2>1 DEF JournalSound
  <2>3. Hole \notin mode
    BY UpdateAssumption DEF UpdateInv, UpdateTypeOK
  <2> QED BY <2>2, <2>3 DEF Survivor, Runnable
<1> QED BY <1>1, UpdateInductive, PTL

\* An exit code tells what is installed: the release's binary, checked and newer,
\* after "updated", and the one that ran after "kept" or an error, but for a
\* backup that could not be put back (update.rs, run and replace_binary), while no
\* two updates overlap and none is started from the backup.
THEOREM OutcomeIsTrueHolds == UpdateSpec => OutcomeIsTrue
<1> DEFINE Told(u) ==
      outcome'[u] # outcome[u] /\ ~astray' =>
         \/ outcome'[u] = "none"
         \/ /\ outcome'[u] = "updated"
            /\ half[names'["exe"]] = Whole(target[u].asset)
            /\ target[u].version > Current(u)
            /\ Authentic(target[u])
         \/ outcome'[u] \in {"kept", "failed"} /\ names'["exe"] = image[u]
         \/ /\ outcome'[u] = "failed" /\ step[u] = "restore"
            /\ names'["exe"] = Hole /\ names'["backup"] = image[u]
<1>1. UpdateInv /\ [UpdateNext]_updateVars => [\A u \in Updater : Told(u)]_updateVars
  <2> SUFFICES ASSUME UpdateInv, UpdateNext, NEW u \in Updater,
                      outcome'[u] # outcome[u], ~astray'
               PROVE  Told(u)
    BY DEF Told
  <2> USE DEF UpdateInv, UpdateTypeOK
  <2>1. \/ StartUpdate(u) \/ NothingToDo(u) \/ GivesUp(u) \/ DryRunEnds(u) \/ BackupFails(u)
        \/ Restore(u) \/ RestoreFails(u) \/ CleanUp(u)
    <3>1. ASSUME NEW v \in Updater,
                 \/ Select(v) \/ Download(v) \/ Verify(v) \/ Stage(v) \/ WriteLow(v)
                 \/ WriteHigh(v) \/ Sync(v) \/ Chmod(v) \/ Backup(v) \/ Install(v)
                 \/ InstallFails(v) \/ KillUpdate(v) \/ UpdatePowerLoss
          PROVE  FALSE
      BY <3>1 DEF Select, Download, Verify, Stage, WriteLow, WriteHigh, Write, Sync, Chmod,
         Backup, Install, InstallFails, KillUpdate, Goes, UpdatePowerLoss
    <3>2. ASSUME NEW v \in Updater,
                 \/ StartUpdate(v) \/ NothingToDo(v) \/ GivesUp(v) \/ DryRunEnds(v)
                 \/ BackupFails(v) \/ Restore(v) \/ RestoreFails(v) \/ CleanUp(v)
          PROVE  v = u
      <4>1. PICK o : outcome' = [outcome EXCEPT ![v] = o]
        BY <3>2 DEF StartUpdate, NothingToDo, GivesUp, DryRunEnds, BackupFails, Restore,
           RestoreFails, CleanUp, Ends
      <4> QED BY <4>1
    <3> QED BY <3>1, <3>2 DEF UpdateNext
  <2>2. CASE StartUpdate(u)
    BY <2>2 DEF StartUpdate, Told
  <2>3. CASE ~StartUpdate(u)
    <3>1. ~astray /\ step[u] # "off"
      BY <2>1, <2>3 DEF NothingToDo, GivesUp, DryRunEnds, BackupFails, Restore, RestoreFails,
         CleanUp, Ends
    <3>2. RunSound(u) /\ names \in [Names -> ExeInode \cup {Hole}]
      BY <3>1, RunsAlone
    <3>3. CASE NothingToDo(u) \/ GivesUp(u) \/ DryRunEnds(u)
      BY <3>2, <3>3 DEF NothingToDo, GivesUp, DryRunEnds, Ends, Told, RunSound, files
    <3>4. CASE BackupFails(u)
      <4>1. names'["exe"] = names["exe"]
        BY <3>2, <3>4 DEF BackupFails, Journalled, Removed, Names
      <4> QED BY <3>2, <3>4, <4>1 DEF BackupFails, Ends, Told, RunSound
    <3>5. CASE Restore(u)
      <4>1. names'["exe"] = names["backup"]
        BY <3>2, <3>5 DEF Restore, Journalled, Renamed, Names, RunSound
      <4> QED BY <3>2, <3>5, <4>1 DEF Restore, Ends, Told, RunSound
    <3>6. CASE RestoreFails(u)
      BY <3>2, <3>6 DEF RestoreFails, Ends, Told, RunSound, files
    <3>7. CASE CleanUp(u)
      <4>1. names'["exe"] = names["exe"]
        BY <3>2, <3>7 DEF CleanUp, Journalled, Removed, Names
      <4> QED BY <3>2, <3>7, <4>1 DEF CleanUp, Ends, Told, RunSound
    <3> QED BY <2>1, <2>3, <3>3, <3>4, <3>5, <3>6, <3>7
  <2> QED BY <2>2, <2>3
<1> QED BY <1>1, UpdateInductive, PTL DEF UpdateSpec, OutcomeIsTrue, Told

-----------------------------------------------------------------------------
(***************************************************************************)
(* DestLock                                                                *)
(***************************************************************************)
LEMMA LockInitInv == Init => IInv
<1> SUFFICES ASSUME Init PROVE IInv
  OBVIOUS
<1>1. TypeOK
  <2>1. runs \in [Proc -> 0..MaxRuns]
    BY LockAssumption DEF Init
  <2>2. orphaned \in BOOLEAN
    BY Zenon DEF Init
  <2> QED BY <2>1, <2>2 DEF Init, TypeOK
<1>2. NoStaleLock /\ OneFile /\ InsideHolds
  BY DEF Init, NoStaleLock, OneFile, InsideHolds, Inside
<1> QED
  BY <1>1, <1>2 DEF IInv

LEMMA LockNextInv == IInv /\ [Next]_vars => IInv'
<1> SUFFICES ASSUME IInv, [Next]_vars PROVE IInv'
  OBVIOUS
<1> USE LockAssumption
    DEF IInv, TypeOK, NoStaleLock, OneFile, InsideHolds, Inside
<1>1. ASSUME NEW p \in Proc, Open(p) PROVE IInv'
  <2>1. path' \in File /\ (path # None => path' = path)
    BY <1>1 DEF Open, Unused
  <2>2. TypeOK'
    BY <1>1, <2>1 DEF Open
  <2>3. /\ holder' = holder /\ orphaned' = orphaned
        /\ fd' = [fd EXCEPT ![p] = path'] /\ pc' = [pc EXCEPT ![p] = "opened"]
        /\ pc[p] = "out"
    BY <1>1 DEF Open
  <2>4. NoStaleLock' /\ InsideHolds'
    BY <2>1, <2>3
  <2>5. OneFile'
    BY <2>1, <2>3
  <2> QED BY <2>2, <2>4, <2>5
<1>2. ASSUME NEW p \in Proc, TryLock(p) PROVE IInv'
  BY <1>2 DEF TryLock
<1>3. ASSUME NEW p \in Proc, Busy(p) PROVE IInv'
  BY <1>3 DEF Busy
<1>4. ASSUME NEW p \in Proc, DeleteOrphans(p) PROVE IInv'
  <2>1. ~orphaned => fd[p] = path
    BY <1>4 DEF DeleteOrphans
  <2>2. orphaned' = TRUE
    BY <1>4, <2>1 DEF DeleteOrphans, Orphans
  <2> QED BY <1>4, <2>2 DEF DeleteOrphans
<1>5. ASSUME NEW p \in Proc, Unlock(p) PROVE IInv'
  BY <1>5 DEF Unlock
<1>6. ASSUME NEW p \in Proc, Remove(p) PROVE IInv'
  <2>1. orphaned' \in BOOLEAN /\ (~orphaned' => ~orphaned)
    BY <1>6 DEF Remove, Orphans
  <2>2. ASSUME ~orphaned', NEW q \in Proc PROVE pc'[q] = "out"
    BY <1>6, <2>1, <2>2 DEF Remove, Orphans
  <2>3. OneFile'
    BY <2>2
  <2>4. TypeOK' /\ NoStaleLock' /\ InsideHolds'
    BY <1>6, <2>1 DEF Remove
  <2> QED BY <2>3, <2>4
<1>7. ASSUME NEW p \in Proc, Kill(p) PROVE IInv'
  BY <1>7 DEF Kill
<1>8. ASSUME UNCHANGED vars PROVE IInv'
  BY <1>8 DEF vars
<1> QED
  BY <1>1, <1>2, <1>3, <1>4, <1>5, <1>6, <1>7, <1>8 DEF Next

LEMMA LockInductive == Spec => []IInv
BY LockInitInv, LockNextInv, PTL DEF Spec

\* However processes race to open, lock and die, no two are inside together
\* before the name of a lock file in use is removed.
THEOREM ExclusiveUntilOrphanedHolds == Spec => []ExclusiveUntilOrphaned
<1>1. IInv => ExclusiveUntilOrphaned
  BY DEF IInv, ExclusiveUntilOrphaned, MutualExclusion, OneFile, InsideHolds, Inside
<1> QED
  BY <1>1, LockInductive, PTL

\* No lock outlives its process.
THEOREM NoStaleLockHolds == Spec => []NoStaleLock
<1>1. IInv => NoStaleLock
  BY DEF IInv
<1> QED
  BY <1>1, LockInductive, PTL

-----------------------------------------------------------------------------
(***************************************************************************)
(* LockedManifest                                                          *)
(***************************************************************************)
LEMMA StepIsLockStep == ASSUME LockedNext PROVE [Next]_vars
BY DEF LockedNext, LockStep, LoadManifest, LoadStep, LoadFails, ForceAfresh, StartsAfresh, Mark, OpenTemp,
       WriteTemp, RenameTemp, SaveError, RemoveManifest, LeaveManifest, KillRun,
       Next, vars

\* What the processes do with the manifest is invisible to the lock.
THEOREM LockImplemented == LockedSpec => Spec
<1>1. LockedInit => Init
  BY DEF LockedInit
<1>2. [LockedNext]_lockedVars => [Next]_vars
  BY StepIsLockStep DEF lockedVars, vars
<1> QED
  BY <1>1, <1>2, PTL DEF LockedSpec, Spec

\* At most one process is past the lock.
LEMMA OneInside ==
  ASSUME IInv, ~orphaned, NEW p \in Inside, NEW q \in Inside
  PROVE  p = q
BY DEF IInv, OneFile, InsideHolds, Inside

LEMMA LockedInitInv == LockedInit => LockedInv
<1> SUFFICES ASSUME LockedInit PROVE LockedInv
  OBVIOUS
<1>1. IInv
  BY LockInitInv DEF LockedInit
<1>2. LockedTypeOK
  BY DEF LockedInit, LockedTypeOK, Text, Broken
<1>3. OneWorks /\ WorkIsSaved /\ SavedIsListed /\ temp = None
  BY DEF LockedInit, OneWorks, WorkIsSaved, SavedIsListed, Inside
<1> QED
  BY <1>1, <1>2, <1>3 DEF LockedInv

LEMMA LockedNextInv == LockedInv /\ [LockedNext]_lockedVars => LockedInv'
<1> SUFFICES ASSUME LockedInv, [LockedNext]_lockedVars PROVE LockedInv'
  OBVIOUS
<1> USE WorkAssumption, LockAssumption
<1>i. IInv'
  BY StepIsLockStep, LockNextInv DEF LockedInv, lockedVars, vars
<1>o. \A p, q \in Inside : ~orphaned => p = q
  BY OneInside DEF LockedInv
<1> DEFINE Rest == /\ LockedTypeOK
                   /\ OneWorks /\ WorkIsSaved /\ SavedIsListed
                   /\ temp # None => temp # manifest
<1>r. Rest
  BY DEF LockedInv
<1> HIDE DEF Rest
<1>t. TypeOK
  BY DEF LockedInv, IInv
<1>1. ASSUME NEW p \in Proc, LockStep(p) PROVE Rest'
  <2>1. UNCHANGED storeVars
    BY <1>1 DEF LockStep
  <2>2. ~orphaned' => ~orphaned
    BY <1>1, <1>t DEF LockStep, TypeOK, Open, TryLock, Busy, Remove, DeleteOrphans,
       Orphans
  <2>3. pc' = pc \/ \E x \in {"opened", "in", "out"} : pc[p] # "in" /\ pc' = [pc EXCEPT ![p] = x]
    BY <1>1 DEF LockStep, Open, TryLock, Busy, Remove, DeleteOrphans
  <2>4. OneWorks'
    BY <2>1, <2>3, <1>r, <1>t DEF Rest, OneWorks, Inside, storeVars, TypeOK
  <2> QED
    BY <2>1, <2>2, <2>4, <1>r DEF Rest, storeVars, LockedTypeOK, WorkIsSaved,
       SavedIsListed, Listed
<1>2. ASSUME NEW p \in Proc, LoadManifest(p) PROVE Rest'
  <2>1. Listed \in SUBSET Work
    BY <1>r DEF Rest, LockedTypeOK, Listed, Text
  <2> QED
    BY <1>2, <1>r, <2>1 DEF Rest, LoadManifest, LoadStep, LockedTypeOK, OneWorks,
       WorkIsSaved, SavedIsListed, Listed, Inside, vars
<1>3. ASSUME NEW p \in Proc, LoadFails(p) \/ ForceAfresh(p) PROVE Rest'
  BY <1>3, <1>r DEF Rest, LoadFails, ForceAfresh, StartsAfresh, LockedTypeOK, OneWorks,
     WorkIsSaved, SavedIsListed, Listed, Inside, vars
<1>4. ASSUME NEW p \in Proc, Mark(p) PROVE Rest'
  BY <1>4, <1>r DEF Rest, Mark, LockedTypeOK, OneWorks,
     WorkIsSaved, SavedIsListed, Listed, Inside, vars
<1>5. ASSUME NEW p \in Proc, OpenTemp(p) PROVE Rest'
  BY <1>5, <1>r, <1>o DEF Rest, OpenTemp, LockedTypeOK, OneWorks, NewInodes, Broken,
     Text, WorkIsSaved, SavedIsListed, Listed, Inside, vars
<1>6. ASSUME NEW p \in Proc, WriteTemp(p) PROVE Rest'
  BY <1>6, <1>r, <1>o DEF Rest, WriteTemp, LockedTypeOK, OneWorks, Manifest, Text,
     WorkIsSaved, SavedIsListed, Listed, Inside, vars
<1>7. ASSUME NEW p \in Proc, RenameTemp(p) PROVE Rest'
  <2>1. LockedTypeOK' /\ OneWorks' /\ temp' = None
    BY <1>7, <1>r DEF Rest, RenameTemp, LockedTypeOK, OneWorks, Inside, vars
  <2>2. orphaned' = orphaned /\ manifest' = temp /\ afresh' = afresh \ {p}
        /\ saved' = memory[p] \cup (IF p \in afresh THEN {} ELSE saved)
        /\ text' = text /\ memory' = memory /\ pc' = pc
        /\ doing' = [doing EXCEPT ![p] = "working"]
    BY <1>7 DEF RenameTemp, vars
  <2>3. ~orphaned => temp # None /\ text[temp] = Manifest(memory[p])
                     /\ (p \in afresh \/ saved \subseteq memory[p])
    BY <1>7, <1>r DEF Rest, RenameTemp, WorkIsSaved
  <2>4. SavedIsListed'
    BY <2>2, <2>3 DEF SavedIsListed, Listed, Manifest
  <2>5. ~orphaned => \A q \in Proc : doing[q] # "none" => q = p
    BY <1>7, <1>o, <1>r DEF Rest, RenameTemp, OneWorks, Inside
  <2>6. WorkIsSaved'
    BY <2>2, <2>3, <2>5, <1>r DEF Rest, WorkIsSaved, LockedTypeOK
  <2> QED
    BY <2>1, <2>4, <2>6 DEF Rest
<1>8. ASSUME NEW p \in Proc, SaveError(p) PROVE Rest'
  BY <1>8, <1>r DEF Rest, SaveError, LockedTypeOK, OneWorks,
     WorkIsSaved, SavedIsListed, Listed, Inside, vars
<1>9. ASSUME NEW p \in Proc, RemoveManifest(p) PROVE Rest'
  BY <1>9, <1>r, <1>o DEF Rest, RemoveManifest, Forgets, Unlock, LockedTypeOK, OneWorks,
     WorkIsSaved, SavedIsListed, Listed, Inside, IInv, TypeOK, LockedInv
<1>10. ASSUME NEW p \in Proc, LeaveManifest(p) PROVE Rest'
  BY <1>10, <1>r, <1>o DEF Rest, LeaveManifest, Forgets, Unlock, LockedTypeOK, OneWorks,
     WorkIsSaved, SavedIsListed, Listed, Inside, IInv, TypeOK, LockedInv
<1>11. ASSUME NEW p \in Proc, KillRun(p) PROVE Rest'
  BY <1>11, <1>r, <1>o DEF Rest, KillRun, Forgets, Kill, LockedTypeOK, OneWorks,
     WorkIsSaved, SavedIsListed, Listed, Inside, IInv, TypeOK, LockedInv
<1>12. ASSUME UNCHANGED lockedVars PROVE Rest'
  BY <1>12, <1>r DEF Rest, lockedVars, storeVars, vars, LockedTypeOK, OneWorks,
     WorkIsSaved, SavedIsListed, Listed, Inside
<1>13. Rest'
  BY <1>1, <1>2, <1>3, <1>4, <1>5, <1>6, <1>7, <1>8, <1>9, <1>10, <1>11, <1>12
     DEF LockedNext
<1> QED
  BY <1>i, <1>13 DEF Rest, LockedInv

\* The inductive invariant of the composition.
THEOREM LockedInductive == LockedSpec => []LockedInv
BY LockedInitInv, LockedNextInv, PTL DEF LockedSpec

\* Whatever processes run, race, fail and are killed: until a lock file in use
\* loses its name, the manifest parses and lists everything that was saved.
THEOREM SavedIsListedHolds == LockedSpec => []SavedIsListed
<1>1. LockedInv => SavedIsListed
  BY DEF LockedInv
<1> QED
  BY <1>1, LockedInductive, PTL

-----------------------------------------------------------------------------
(***************************************************************************)
(* ManifestFile                                                            *)
(***************************************************************************)
\* What is renamed is what memory held, and only a power loss spoils the file.
ManifestInv == ManifestTypeOK /\ RenamedIsWhole /\ AlwaysParses

LEMMA ManifestInitInv == ManifestInit => ManifestInv
BY ManifestAssumption DEF ManifestInit, ManifestInv, ManifestTypeOK, OnDisk, RenamedIsWhole, AlwaysParses

LEMMA ManifestNextInv == ManifestInv /\ [ManifestNext]_manifestVars => ManifestInv'
<1> SUFFICES ASSUME ManifestInv, [ManifestNext]_manifestVars PROVE ManifestInv'
  OBVIOUS
<1> USE ManifestAssumption
    DEF ManifestInv, ManifestTypeOK, OnDisk, RenamedIsWhole, AlwaysParses
<1>1. CASE Load \/ LoadUnread
  BY <1>1 DEF Load, LoadUnread, Loaded
<1>2. CASE ForceLoad
  BY <1>2 DEF ForceLoad
<1>3. CASE Change
  BY <1>3 DEF Change
<1>4. CASE SaveStart
  BY <1>4 DEF SaveStart
<1>5. CASE SaveWrite
  BY <1>5 DEF SaveWrite
<1>6. CASE SaveRename
  BY <1>6 DEF SaveRename
<1>7. CASE SaveFails
  BY <1>7 DEF SaveFails
<1>8. CASE Finish
  BY <1>8 DEF Finish
<1>9. CASE Crash
  BY <1>9 DEF Crash
<1>10. CASE PowerLoss
  BY <1>10 DEF PowerLoss
<1>11. CASE UNCHANGED manifestVars
  BY <1>11 DEF manifestVars
<1> QED
  BY <1>1, <1>2, <1>3, <1>4, <1>5, <1>6, <1>7, <1>8, <1>9, <1>10, <1>11 DEF ManifestNext

LEMMA ManifestInductive == ManifestSpec => []ManifestInv
BY ManifestInitInv, ManifestNextInv, PTL DEF ManifestSpec

\* Without a power loss, no run ever meets a manifest that does not parse.
THEOREM AlwaysParsesHolds == ManifestSpec => []AlwaysParses
<1>1. ManifestInv => AlwaysParses
  BY DEF ManifestInv
<1> QED
  BY <1>1, ManifestInductive, PTL

-----------------------------------------------------------------------------
LEMMA InitImplements == ManifestInit => Atomic!Init
BY ManifestAssumption DEF ManifestInit, Atomic!Init, Loaded

LEMMA StepImplements == ManifestInv /\ [ManifestNext]_manifestVars => [Atomic!Next]_(Atomic!atomicVars)
<1> SUFFICES ASSUME ManifestInv, [ManifestNext]_manifestVars PROVE [Atomic!Next]_(Atomic!atomicVars)
  OBVIOUS
<1> USE ManifestAssumption DEF ManifestInv, ManifestTypeOK, Loaded, Atomic!atomicVars
<1>1. CASE Load \/ LoadUnread
  BY <1>1 DEF Load, LoadUnread, Atomic!Next, Atomic!Load
<1>2. CASE ForceLoad
  BY <1>2 DEF ForceLoad, Atomic!Next, Atomic!Load
<1>3. CASE Change
  BY <1>3 DEF Change, Atomic!Next, Atomic!Change
<1>4. CASE SaveStart \/ SaveWrite \/ SaveFails
  \* Nothing of this is visible: the temporary file is no manifest.
  BY <1>4 DEF SaveStart, SaveWrite, SaveFails
<1>5. CASE SaveRename
  BY <1>5 DEF SaveRename, RenamedIsWhole, Atomic!Next, Atomic!Save
<1>6. CASE Finish \/ Crash
  BY <1>6 DEF Finish, Crash, Atomic!Next, Atomic!End
<1>7. CASE PowerLoss
  BY <1>7 DEF PowerLoss, Atomic!Next, Atomic!PowerLoss
<1>8. CASE UNCHANGED manifestVars
  BY <1>8 DEF manifestVars
<1> QED
  BY <1>1, <1>2, <1>3, <1>4, <1>5, <1>6, <1>7, <1>8 DEF ManifestNext

\* Every behaviour of the protocol is one of the atomic manifest.
THEOREM Refinement == ManifestSpec => Implements
BY InitImplements, StepImplements, ManifestInductive, PTL DEF ManifestSpec, Implements, Atomic!Spec
================================================================================
