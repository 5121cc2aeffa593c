--------------------------- MODULE MCLocalPipeline ---------------------------
EXTENDS LocalPipeline, TLC

CONSTANTS a, b, c, i1, i2, i3, s1, big1, big2

Paths2   == {a, b}
Inodes2  == {i1, i2}
AllPaths == Path
OneMount == [p \in Path |-> "m1"]

Contents   == {s1, big1}
TwoBig     == {big1, big2}
ThreeSizes == {s1, big1, big2}
Sizes      == [x \in Content |-> IF x = s1 THEN 1 ELSE IF x = big2 THEN 5 ELSE 4]

\* Command lines
Plain == [force |-> FALSE, delete |-> FALSE, dryRun |-> FALSE,
          noVerify |-> FALSE, noDedup |-> FALSE]
Flat  == [Plain EXCEPT !.noDedup = TRUE]
PlainArgs  == {Plain}
DeleteArgs == {[Plain EXCEPT !.delete = TRUE]}
ForceArgs  == {Plain, [Plain EXCEPT !.force = TRUE]}
SyncArgs   == {Flat, [Flat EXCEPT !.force = TRUE], [Flat EXCEPT !.delete = TRUE]}
DryArgs    == {Plain, [Plain EXCEPT !.force = TRUE], [Plain EXCEPT !.delete = TRUE],
               [Plain EXCEPT !.dryRun = TRUE],
               [Plain EXCEPT !.dryRun = TRUE, !.delete = TRUE]}

\* Failures after which exit code 0 still means a mirror; the README says which
\* others break it, and how.
MirrorFaults == {"open", "write", "link", "save", "hash", "space", "cancel",
                 "crash"}
AllButScan   == FaultKinds \ {"scan"}
SyncFaults   == {"open", "write", "save", "space", "cancel", "crash"}
==============================================================================
