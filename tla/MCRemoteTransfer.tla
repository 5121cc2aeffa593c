--------------------------- MODULE MCRemoteTransfer ---------------------------
EXTENDS RemoteTransfer, TLC

CONSTANTS a, b, small, big, top, sub

Paths2 == {a, b}
TwoSizes == {small, big}

Sizes  == [x \in Content |-> IF x = small THEN 1 ELSE 2]
Dirs   == {top, sub}
DirMap == [p \in Path |-> IF p = b THEN sub ELSE top]

\* An empty destination, and one with part of a file.
Empty     == {[p \in Path |-> None]}
Leftovers == {[p \in Path |-> IF p = a THEN Torn ELSE None]}

Plain == [compress |-> FALSE, noDedup |-> FALSE, dryRun |-> FALSE]
\* --compress concerns downloads, --no-dedup uploads.
MixedArgs == {Plain, [Plain EXCEPT !.compress = TRUE, !.noDedup = TRUE],
              [Plain EXCEPT !.dryRun = TRUE]}
PlainArgs == {Plain}
NoFaults == {}
Uploads == {"upload"}
==============================================================================
