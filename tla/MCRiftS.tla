------------------------------ MODULE MCRiftS ------------------------------
EXTENDS RiftS

AllRemotes == {"l", "r"}
HandOf == [x \in AllRemotes |-> IF x = "l" THEN "left" ELSE "right"]
\* The list cannot be read, misses the right remote, or names both.
ListsRead == {{}, {"l"}, AllRemotes}
=============================================================================
