------------------------------- MODULE Filesys -------------------------------
(***************************************************************************)
(* The file system: filesys.c, inode.c, file.c, directory.c and free-map.c *)
(* over a disk on which every sector is written at once and on its own.    *)
(*                                                                         *)
(* A process is in "user" or in one of the operations, between two steps   *)
(* that reach the disk or that others can see (pc[p]):                     *)
(*   "map"     free_map_allocate or _release, before bitmap_write; goes on *)
(*             to the place loc[p].then                                    *)
(*   "data"    inode_create, before the sectors of the data are allocated  *)
(*   "inode"   ... before the inode is written;  "zero" ... a data sector  *)
(*   "lookup"  dir_add, before lookup;  "slot" ... the search of a slot;   *)
(*   "entry"   ... the write of the entry;  "undo" a failed filesys_create *)
(*   "iopen"   inode_open;  "iread" ... before disk_read                   *)
(*   "open"    file_open;  "remove" dir_remove, before the entry is erased *)
(*   "close"   inode_close;  "freedata" ... after the inode's sector       *)
(*                                                                         *)
(* The root directory and the free map file have their sectors elsewhere:  *)
(* slots and disk_map.  A data sector holds one value.                     *)
(***************************************************************************)
EXTENDS Integers, FiniteSets, FiniteSetsExt, Functions

CONSTANTS
    Proc,
    Name,
    Sectors,      \* the disk has the sectors 1..Sectors for files
    Sizes,        \* the sizes of files, in sectors
    Slots,        \* entries in the root directory
    Inodes, File, \* memory for open inodes and for file objects
    Value, Zero,  \* what a data sector can hold
    None

Sector == 1..Sectors
Inode == 1..Inodes

ASSUME CountAssumption == Sectors \in Nat /\ Slots \in Nat /\ Inodes \in Nat /\ Sizes \subseteq Nat
ASSUME ZeroAssumption == Zero \in Value

InodeDisk == [start : Sector \cup {0}, length : Sizes]
Entry == [name : Name, sector : Sector]
InodeStruct == [sector : Sector, open_cnt : Nat \ {0}, deny_write_cnt : Nat, removed : BOOLEAN,
                data : {None} \cup InodeDisk]
FileStruct == [inode : Inode, deny_write : BOOLEAN]

\* None is no record and no sector, and the memory for file objects is finite.
ASSUME NoneAssumption ==
    None \notin InodeDisk \cup Entry \cup InodeStruct \cup FileStruct \cup Sector
ASSUME FileAssumption == IsFiniteSet(File)

VARIABLES
    disk,       \* what a sector holds: a value, or an inode_disk
    disk_map,   \* the free map file: the sectors that are taken
    slots,      \* the root directory: an entry, or None when it is not in use
    free_map,   \* the bitmap in memory
    inode,      \* open_inodes: a struct inode, or None when it is not on the list
    file,       \* a struct file, or None
    pc, loc,    \* the place of a process and its local variables
    panic       \* an ASSERT failed

diskVars == <<disk, disk_map, slots>>
memVars == <<free_map, inode, file>>
vars == <<diskVars, memVars, pc, loc, panic>>

Idle == [then |-> "user", name |-> None, size |-> 0, sector |-> 0, start |-> 0, slot |-> 0, ino |-> 0]

\* A new file system.
Init ==
    /\ disk = [s \in Sector |-> Zero]
    /\ disk_map = {}
    /\ slots = [k \in 1..Slots |-> None]
    /\ free_map = {}
    /\ inode = [i \in Inode |-> None]
    /\ file = [f \in File |-> None]
    /\ pc = [p \in Proc |-> "user"]
    /\ loc = [p \in Proc |-> Idle]
    /\ panic = FALSE

-----------------------------------------------------------------------------
Goto(p, place) == pc' = [pc EXCEPT ![p] = place]
Set(p, locals) == loc' = [loc EXCEPT ![p] = locals]

\* Back from the call.
Return(p) == Goto(p, "user") /\ Set(p, Idle)

\* On to the write of the free map, and then to the place next.
SaveMap(p, locals, next) == Goto(p, "map") /\ Set(p, [locals EXCEPT !.then = next])

\* On to inode_close.
CloseNext(p, i) == Goto(p, "close") /\ Set(p, [Idle EXCEPT !.ino = i])

\* cnt sectors from start on, and where bitmap_scan finds cnt free ones: at 0 if
\* none are needed.
Run(start, cnt) == start..start + cnt - 1
Fits(cnt) == IF cnt = 0 THEN {0} ELSE {s \in Sector : Run(s, cnt) \subseteq Sector \ free_map}

\* free_map_release, up to the write of the map.
Release(p, sectors, locals, next) ==
    IF sectors \subseteq free_map
    THEN /\ free_map' = free_map \ sectors
         /\ SaveMap(p, locals, next)
         /\ UNCHANGED panic
    ELSE panic' = TRUE /\ UNCHANGED <<free_map, pc, loc>>

\* lookup: the slots of the directory with this name.
Lookup(n) == {k \in 1..Slots : slots[k] # None /\ slots[k].name = n}

\* bitmap_write.
WriteMap(p) ==
    /\ pc[p] = "map"
    /\ disk_map' = free_map
    /\ IF loc[p].then = "user" THEN Return(p)
       ELSE Goto(p, loc[p].then) /\ UNCHANGED loc
    /\ UNCHANGED <<disk, slots, memVars, panic>>

-----------------------------------------------------------------------------
(* filesys_create.                                                         *)

Create(p, n, size) ==
    /\ pc[p] = "user" /\ Fits(1) # {}
    /\ LET s == Min(Fits(1)) IN
         /\ free_map' = free_map \cup {s}
         /\ SaveMap(p, [Idle EXCEPT !.name = n, !.size = size, !.sector = s], "data")
    /\ UNCHANGED <<diskVars, inode, file, panic>>

\* There is a run of free sectors for the data, or not.
AllocateData(p) ==
    LET l == loc[p] IN
    /\ pc[p] = "data"
    /\ IF Fits(l.size) = {}
       THEN Goto(p, "undo") /\ UNCHANGED <<free_map, loc>>
       ELSE LET s == Min(Fits(l.size)) IN
              /\ free_map' = free_map \cup Run(s, l.size)
              /\ SaveMap(p, [l EXCEPT !.start = s], "inode")
    /\ UNCHANGED <<diskVars, inode, file, panic>>

\* There is no memory for the inode_disk.
CreateFails(p) ==
    /\ pc[p] = "data"
    /\ Goto(p, "undo")
    /\ UNCHANGED <<diskVars, memVars, loc, panic>>

WriteInode(p) ==
    LET l == loc[p] IN
    /\ pc[p] = "inode"
    /\ disk' = [disk EXCEPT ![l.sector] = [start |-> l.start, length |-> l.size]]
    /\ Goto(p, "zero") /\ Set(p, [l EXCEPT !.slot = 0])
    /\ UNCHANGED <<disk_map, slots, memVars, panic>>

\* Which sectors of the data the loop of inode_create clears; the mutant leaves out
\* the first.
ZeroFromOne(cnt) == 1..cnt - 1
Zeroed(cnt) == 0..cnt - 1

\* The loop, one sector a turn: slot is its i.
WriteZero(p) ==
    LET l == loc[p] IN
    /\ pc[p] = "zero"
    /\ IF l.slot < l.size
       THEN /\ disk' = IF l.slot \in Zeroed(l.size) THEN [disk EXCEPT ![l.start + l.slot] = Zero]
                       ELSE disk
            /\ Set(p, [l EXCEPT !.slot = @ + 1])
            /\ UNCHANGED pc
       ELSE Goto(p, "lookup") /\ UNCHANGED <<disk, loc>>
    /\ UNCHANGED <<disk_map, slots, memVars, panic>>

\* dir_add: is the name there?
AddLookup(p) ==
    /\ pc[p] = "lookup"
    /\ Goto(p, IF Lookup(loc[p].name) = {} THEN "slot" ELSE "undo")
    /\ UNCHANGED <<diskVars, memVars, loc, panic>>

\* The first slot that is not in use, or the end of the directory.
FindSlot(p) ==
    LET free == {k \in 1..Slots : slots[k] = None} IN
    /\ pc[p] = "slot"
    /\ Goto(p, "entry")
    /\ Set(p, [loc[p] EXCEPT !.slot = Min(free \cup {Slots + 1})])
    /\ UNCHANGED <<diskVars, memVars, panic>>

\* The directory does not grow: at its end nothing is written.
WriteEntry(p) ==
    LET l == loc[p] IN
    /\ pc[p] = "entry"
    /\ IF l.slot > Slots
       THEN Goto(p, "undo") /\ UNCHANGED <<slots, loc>>
       ELSE /\ slots' = [slots EXCEPT ![l.slot] = [name |-> l.name, sector |-> l.sector]]
            /\ Return(p)
    /\ UNCHANGED <<disk, disk_map, memVars, panic>>

\* The sector of the inode is released; the sectors of the data are not.
Undo(p) ==
    /\ pc[p] = "undo"
    /\ Release(p, {loc[p].sector}, loc[p], "user")
    /\ UNCHANGED <<diskVars, inode, file>>

-----------------------------------------------------------------------------
(* filesys_open and filesys_remove, up to the inode.                       *)

\* dir_lookup, or lookup in dir_remove; next is what is done with the inode.
Find(p, n, next) ==
    /\ pc[p] = "user" /\ Lookup(n) # {}
    /\ LET k == Min(Lookup(n)) IN
         Set(p, [Idle EXCEPT !.then = next, !.slot = k, !.sector = slots[k].sector])
    /\ Goto(p, "iopen")
    /\ UNCHANGED <<diskVars, memVars, panic>>

Open(p, n) == Find(p, n, "open")
Remove(p, n) == Find(p, n, "remove")

\* The open inode of a sector, if there is one; the mutant does not look.
NeverOpen(s) == {}
OpenInode(s) == {i \in Inode : inode[i] # None /\ inode[i].sector = s}

\* inode_open; the new inode is on the list before its data are read.
InodeOpen(p) ==
    LET l == loc[p] new == {i \in Inode : inode[i] = None} IN
    /\ pc[p] = "iopen"
    /\ IF OpenInode(l.sector) # {}
       THEN LET i == Min(OpenInode(l.sector)) IN
              /\ inode' = [inode EXCEPT ![i].open_cnt = @ + 1]
              /\ Set(p, [l EXCEPT !.ino = i]) /\ Goto(p, l.then)
       ELSE /\ new # {}
            /\ inode' = [inode EXCEPT ![Min(new)] =
                   [sector |-> l.sector, open_cnt |-> 1, deny_write_cnt |-> 0,
                    removed |-> FALSE, data |-> None]]
            /\ Set(p, [l EXCEPT !.ino = Min(new)]) /\ Goto(p, "iread")
    /\ UNCHANGED <<diskVars, free_map, file, panic>>

\* There is no memory for another one.
InodeOpenFails(p) ==
    /\ pc[p] = "iopen" /\ OpenInode(loc[p].sector) = {}
    /\ Return(p)
    /\ UNCHANGED <<diskVars, memVars, panic>>

InodeRead(p) ==
    /\ pc[p] = "iread"
    /\ inode' = [inode EXCEPT ![loc[p].ino].data = disk[loc[p].sector]]
    /\ Goto(p, loc[p].then)
    /\ UNCHANGED <<diskVars, free_map, file, loc, panic>>

FileOpen(p, f) ==
    /\ pc[p] = "open" /\ file[f] = None
    /\ file' = [file EXCEPT ![f] = [inode |-> loc[p].ino, deny_write |-> FALSE]]
    /\ Return(p)
    /\ UNCHANGED <<diskVars, free_map, inode, panic>>

\* There is no memory for a struct file.
FileOpenFails(p) ==
    /\ pc[p] = "open"
    /\ CloseNext(p, loc[p].ino)
    /\ UNCHANGED <<diskVars, memVars, panic>>

\* dir_remove erases the entry and inode_remove marks the inode.
EraseEntry(p) ==
    /\ pc[p] = "remove"
    /\ slots' = [slots EXCEPT ![loc[p].slot] = None]
    /\ inode' = [inode EXCEPT ![loc[p].ino].removed = TRUE]
    /\ CloseNext(p, loc[p].ino)
    /\ UNCHANGED <<disk, disk_map, free_map, file, panic>>

-----------------------------------------------------------------------------
(* inode_close.                                                            *)

\* Who closes frees the sectors; the mutant does not ask whether he is the last.
EveryoneFrees(i) == inode[i].removed
LastFrees(i) == inode[i].removed /\ inode[i].open_cnt = 1

\* The last opener takes the inode off the list, and frees its sectors if the file
\* is removed: its own, then those of the data.
InodeClose(p) ==
    LET l == loc[p] i == l.ino IN
    /\ pc[p] = "close"
    /\ IF inode[i].open_cnt = 1
       THEN inode' = [inode EXCEPT ![i] = None]
       ELSE inode' = [inode EXCEPT ![i].open_cnt = @ - 1]
    /\ IF LastFrees(i)
       THEN inode[i].data # None /\
            Release(p, {inode[i].sector},
                    [l EXCEPT !.start = inode[i].data.start, !.size = inode[i].data.length], "freedata")
       ELSE Return(p) /\ UNCHANGED <<free_map, panic>>
    /\ UNCHANGED <<diskVars, file>>

FreeData(p) ==
    /\ pc[p] = "freedata"
    /\ Release(p, Run(loc[p].start, loc[p].size), loc[p], "user")
    /\ UNCHANGED <<diskVars, inode, file>>

-----------------------------------------------------------------------------
(* The operations on open files.                                           *)

\* What file_allow_write takes from deny_write_cnt.
Allowed(f) == IF file[f].deny_write THEN 1 ELSE 0

\* file_close: file_allow_write, and on to inode_close.
Close(p, f) ==
    /\ pc[p] = "user" /\ file[f] # None
    /\ file' = [file EXCEPT ![f] = None]
    /\ inode' = [inode EXCEPT ![file[f].inode].deny_write_cnt = @ - Allowed(f)]
    /\ CloseNext(p, file[f].inode)
    /\ UNCHANGED <<diskVars, free_map, panic>>

\* file_reopen, of mmap, and file_duplicate, of fork, which keeps deny_write.
Again(p, f, g, deny) ==
    LET i == file[f].inode IN
    /\ pc[p] = "user" /\ file[f] # None /\ file[g] = None
    /\ file' = [file EXCEPT ![g] = [inode |-> i, deny_write |-> deny]]
    /\ inode' = [inode EXCEPT ![i].open_cnt = @ + 1,
                              ![i].deny_write_cnt = IF deny THEN @ + 1 ELSE @]
    /\ UNCHANGED <<diskVars, free_map, pc, loc, panic>>

Reopen(p, f, g) == Again(p, f, g, FALSE)
Duplicate(p, f, g) == file[f] # None /\ Again(p, f, g, file[f].deny_write)

\* file_deny_write, of load.
DenyWrite(p, f) ==
    /\ pc[p] = "user" /\ file[f] # None /\ ~file[f].deny_write
    /\ file' = [file EXCEPT ![f].deny_write = TRUE]
    /\ inode' = [inode EXCEPT ![file[f].inode].deny_write_cnt = @ + 1]
    /\ UNCHANGED <<diskVars, free_map, pc, loc, panic>>

\* inode_write_at, of one sector; not while another process is still reading the
\* inode, when the length is what malloc left.
Write(p, f, v) ==
    /\ pc[p] = "user" /\ file[f] # None
    /\ inode[file[f].inode].deny_write_cnt = 0 /\ inode[file[f].inode].data # None
    /\ \E k \in 0..inode[file[f].inode].data.length - 1 :
         disk' = [disk EXCEPT ![inode[file[f].inode].data.start + k] = v]
    /\ UNCHANGED <<disk_map, slots, memVars, pc, loc, panic>>

\* The machine is switched off, or fails, and starts again: filesys_init.
PowerOff ==
    /\ free_map' = disk_map
    /\ inode' = [i \in Inode |-> None]
    /\ file' = [f \in File |-> None]
    /\ pc' = [p \in Proc |-> "user"]
    /\ loc' = [p \in Proc |-> Idle]
    /\ panic' = FALSE
    /\ UNCHANGED diskVars

-----------------------------------------------------------------------------
Step(p) ==
    \/ \E n \in Name : Open(p, n) \/ Remove(p, n) \/ \E size \in Sizes : Create(p, n, size)
    \/ WriteMap(p) \/ AllocateData(p) \/ CreateFails(p) \/ WriteInode(p) \/ WriteZero(p)
    \/ AddLookup(p) \/ FindSlot(p) \/ WriteEntry(p) \/ Undo(p)
    \/ InodeOpen(p) \/ InodeOpenFails(p) \/ InodeRead(p) \/ FileOpenFails(p) \/ EraseEntry(p)
    \/ InodeClose(p) \/ FreeData(p)
    \/ \E f \in File : \/ FileOpen(p, f) \/ Close(p, f) \/ DenyWrite(p, f)
                       \/ \E v \in Value : Write(p, f, v)
                       \/ \E g \in File : Reopen(p, f, g) \/ Duplicate(p, f, g)

Next == (~panic /\ \E p \in Proc : Step(p)) \/ PowerOff

Spec == Init /\ [][Next]_vars

-----------------------------------------------------------------------------
(* Properties.                                                             *)

Where == {"user", "map", "data", "inode", "zero", "lookup", "slot", "entry", "undo",
          "iopen", "iread", "open", "remove", "close", "freedata"}
Locals == [then : {"user", "data", "inode", "open", "remove", "freedata"}, name : Name \cup {None},
           size : Sizes \cup {0}, sector : Sector \cup {0}, start : Sector \cup {0}, slot : Nat,
           ino : Inode \cup {0}]

\* The state of the file system is well formed; the counters of an inode are never
\* negative.
TypeOK ==
    /\ disk \in [Sector -> Value \cup InodeDisk]
    /\ disk_map \subseteq Sector /\ free_map \subseteq Sector
    /\ slots \in [1..Slots -> {None} \cup Entry]
    /\ inode \in [Inode -> {None} \cup InodeStruct]
    /\ file \in [File -> {None} \cup FileStruct]
    /\ pc \in [Proc -> Where] /\ loc \in [Proc -> Locals]
    /\ panic \in BOOLEAN

\* The inode sectors of the files that have a name, and of those that are open.
Linked == {slots[k].sector : k \in {j \in 1..Slots : slots[j] # None}}
Opened == {inode[i].sector : i \in {j \in Inode : inode[j] # None}}
Extent(s) == {s} \cup Run(disk[s].start, disk[s].length)

\* free_map_allocate, free_map_release and the order of the writes to the disk, at any
\* time when the power may go: the sectors of a file that has a name, or is open, are
\* taken in the free map and belong to no other file, and on the disk the free map
\* says so for the files that have a name.
SectorsAreOwned ==
    /\ TypeOK
    /\ Linked \subseteq Sector
    /\ \A s \in Linked \cup Opened :
         /\ disk[s] \in InodeDisk
         /\ Extent(s) \subseteq free_map
         /\ \A t \in (Linked \cup Opened) \ {s} : Extent(s) \cap Extent(t) = {}
    /\ \A s \in Linked : Extent(s) \subseteq disk_map

\* Who has inode i open: files and the process that looks it up, removes or closes it.
Openers(i) == {f \in File : file[f] # None /\ file[f].inode = i}
Users(i) == {p \in Proc : pc[p] \in {"iread", "open", "remove", "close"} /\ loc[p].ino = i}

\* inode_open, inode_close, inode_deny_write and inode_remove: a file that is open has
\* one inode, which counts its openers and those that deny writing, has what is on the
\* disk, and is removed when no name leads to it.
InodesAgree ==
    \A i \in Inode : inode[i] # None =>
        /\ \A j \in Inode \ {i} : inode[j] # None => inode[j].sector # inode[i].sector
        /\ inode[i].open_cnt = Cardinality(Openers(i)) + Cardinality(Users(i))
        /\ inode[i].deny_write_cnt = Cardinality({f \in Openers(i) : file[f].deny_write})
        /\ inode[i].removed <=> inode[i].sector \notin Linked
        /\ inode[i].data = disk[inode[i].sector] \/ \E p \in Users(i) : pc[p] = "iread"

\* dir_add: "DIR, which must not already contain a file by that name".
NamesAreUnique == \A n \in Name : Cardinality(Lookup(n)) <= 1

\* As Files has it: the files that the names lead to, those of the file objects, who
\* denies writing, and what the files hold.
SectorOf(f) == IF file[f] = None THEN None ELSE inode[file[f].inode].sector
LinkOf == [n \in Name |-> IF Lookup(n) = {} THEN None ELSE slots[Min(Lookup(n))].sector]
OpenOf == [f \in File |-> SectorOf(f)]
Deniers == {f \in File : file[f] # None /\ file[f].deny_write}
Held(s) == [k \in 1..disk[s].length |-> disk[disk[s].start + k - 1]]
Used == Linked \cup ({SectorOf(f) : f \in File} \ {None})
ContentOf == [s \in Sector |-> IF s \in Used THEN Held(s) ELSE None]

F == INSTANCE Files WITH
       Handle <- File, Id <- Sector, MaxSize <- Sectors, link <- LinkOf, open <- OpenOf,
       locked <- Deniers, content <- ContentOf

\* Through creation, removal of open files, denial of writing, full disks and
\* directories and the loss of power, names and handles lead to what was written.
ImplementsFiles == F!Spec
=============================================================================
