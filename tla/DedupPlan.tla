------------------------------ MODULE DedupPlan ------------------------------
(***************************************************************************)
(* What a copy plan is (engine::dedup and domain::CopyPlan), as a set.     *)
(*                                                                         *)
(* A plan lists the scanned files, gives a hash to those that share their  *)
(* size with another file, and names, for every file whose hash another    *)
(* file has, the canonical copy it will be linked to.  Entries are a set   *)
(* and the canonical member of a group is any member: both orders come out *)
(* of HashMap iteration and of a parallel scan, and the code fixes neither.*)
(*                                                                         *)
(* The content hash is taken to be collision free: hash = content.         *)
(***************************************************************************)
EXTENDS Naturals, FiniteSets

CONSTANTS Path,      \* paths relative to the source and destination roots
          Content,   \* what a file may contain
          SizeOf,    \* length in bytes of each content
          None       \* Option::None, a missing file, a missing entry

ASSUME SizeAssumption == SizeOf \in [Content -> Nat]
ASSUME PathAssumption == IsFiniteSet(Path)
ASSUME NoneAssumption == None \notin Path \cup Content

\* Pass 1 hashes a file only when another scanned file has its size.
Collides(E, seen, p) == \E q \in E \ {p} : SizeOf[seen[q]] = SizeOf[seen[p]]

\* The hash each entry carries after pass 2; `failed` could not be read.
HashOf(E, seen, failed) ==
  [p \in Path |-> IF p \in E \ failed /\ Collides(E, seen, p)
                  THEN seen[p] ELSE None]

\* The entries that share p's hash.
Group(hash, p) == {q \in Path : hash[q] = hash[p]}

\* Mutant: the head of a group is listed among its own duplicates.
CanonsWithHead(hash) ==
  {canon \in [Path -> Path \cup {None}] :
     \A p \in Path :
       IF hash[p] = None
       THEN canon[p] = None
       ELSE \E head \in Group(hash, p) : \A q \in Group(hash, p) : canon[q] = head}

\* canon[p] is the canonical copy p is a duplicate of, None when p is copied.
\* Every hash group has exactly one head.
Canons(hash) ==
  {canon \in [Path -> Path \cup {None}] :
     \A p \in Path :
       IF hash[p] = None
       THEN canon[p] = None
       ELSE \E head \in Group(hash, p) :
              \A q \in Group(hash, p) :
                canon[q] = IF q = head THEN None ELSE head}

PlanRecord == [entries : SUBSET Path,
               seen    : [Path -> Content \cup {None}],
               hash    : [Path -> Content \cup {None}],
               canon   : [Path -> Path \cup {None}]]

\* What the copy engine relies on: a duplicate has a canonical copy, which is an
\* entry of the plan, is copied itself, and has the same content.
WellFormed(pl) ==
  /\ pl \in PlanRecord
  /\ \A p \in pl.entries : pl.seen[p] \in Content
  /\ \A p \in Path : pl.hash[p] # None =>
       p \in pl.entries /\ pl.hash[p] = pl.seen[p]
  /\ \A p \in Path : pl.canon[p] # None =>
       /\ p \in pl.entries /\ pl.canon[p] \in pl.entries
       /\ pl.canon[pl.canon[p]] = None
       /\ pl.hash[p] # None /\ pl.hash[pl.canon[p]] = pl.hash[p]

\* Every plan build_dedup_plan may return for the scanned entries E.
Plans(E, seen, failed) ==
  LET hash == HashOf(E, seen, failed)
  IN  {[entries |-> E, seen |-> seen, hash |-> hash, canon |-> canon] :
         canon \in Canons(hash)}

\* --no-dedup: every entry is copied and none is hashed.
FlatPlan(E, seen) ==
  [entries |-> E, seen |-> seen,
   hash |-> [p \in Path |-> None], canon |-> [p \in Path |-> None]]
==============================================================================
