---------------------------- MODULE MCResumedCopy ----------------------------
EXTENDS ResumedCopy, TLC

CONSTANTS a, b, c, i1, i2, i3, s1, big1, big2

Paths2   == {a, b}
Paths3   == {a, b, c}
Inodes2  == {i1, i2}
Inodes3  == {i1, i2, i3}
Contents == {s1, big1}
Sizes    == [x \in Content |-> IF x = s1 THEN 1 ELSE IF x = big1 THEN 4 ELSE 5]
OneMount == [p \in Path |-> "m1"]
AllPaths == Path

\* One path on a file system of its own, which copy_file_range cannot reach.
TwoMounts == [p \in Path |-> IF p = b THEN "m2" ELSE "m1"]
NotOnB    == Path \ {b}

EngineFaults == {"mkdir", "open", "write", "pack", "unpack", "link", "symlink",
                 "save", "crash"}
==============================================================================
