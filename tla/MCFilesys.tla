------------------------------ MODULE MCFilesys ------------------------------
(* Small instances of Filesys for TLC.                                     *)
EXTENDS Filesys, TLC

CONSTANTS a, b, p1, p2, f1, f2, n1, n2, n3

\* All names, and all file objects, are alike.
Alike == Permutations(Name) \cup Permutations(File)

\* Without what sectors hold that belong to no file, and that nobody reads before they
\* are written.
ViewOf ==
    LET files == UNION {Extent(s) : s \in {t \in Linked \cup Opened : disk[t] \in InodeDisk}}
        built == {Run(loc[p].start, loc[p].size) \cup {loc[p].sector} :
                    p \in {q \in Proc : pc[q] \in {"zero", "lookup", "slot", "entry"}}}
    IN <<[s \in Sector |-> IF s \in files \cup UNION built THEN disk[s] ELSE None],
         disk_map, slots, free_map, inode, file, pc, loc, panic>>
=============================================================================
