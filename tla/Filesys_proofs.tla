---------------------------- MODULE Filesys_proofs ----------------------------
(***************************************************************************)
(* Proofs about Filesys: with one process at a time in the file system, a  *)
(* sector belongs to one file, in memory and on the disk, whenever the     *)
(* power goes, an open file has one inode that counts its openers, and     *)
(* names and handles lead to what was written (Files), for any number of   *)
(* names, sectors, slots, inodes, file objects and values.                 *)
(***************************************************************************)
EXTENDS Filesys, FiniteSetTheorems, WellFoundedInduction, TLAPS

(***************************************************************************)
(* The inductive invariant.  One process at a time is in the file system,  *)
(* as project2/introduction.html asks of the system calls.                 *)
(***************************************************************************)
OneProcess == \A p, q \in Proc : p = q

\* The files that have a name or are open.
Live == Linked \cup Opened

\* A file's sectors are its own; those of a file with a name are so on the disk.
Owned ==
    \A s \in Live :
        /\ disk[s] \in InodeDisk
        /\ s \notin Run(disk[s].start, disk[s].length)
        /\ Extent(s) \subseteq free_map
        /\ s \in Linked => Extent(s) \subseteq disk_map
        /\ \A t \in Live \ {s} : Extent(s) \cap Extent(t) = {}

\* No two entries lead to one file.
NamedOnce ==
    \A j, k \in 1..Slots :
        slots[j] # None /\ slots[k] # None /\ slots[j].sector = slots[k].sector => j = k

FilesAreOpen == \A f \in File : file[f] # None => inode[file[f].inode] # None

\* The place of a process once the free map is on the disk, and the sectors it has
\* in its hands: those of a file that has no name yet, or has no opener any more.
Place(p) == IF pc[p] = "map" THEN loc[p].then ELSE pc[p]
Bare == {"data", "undo"}
Written == {"zero", "lookup", "slot", "entry"}
Building == Written \cup {"inode"}
Data(p) == Run(loc[p].start, loc[p].size)
Mine(p) == (IF Place(p) \in Bare \cup Building THEN {loc[p].sector} ELSE {})
           \cup (IF Place(p) \in Building \cup {"freedata"} THEN Data(p) ELSE {})

Private(p) ==
    /\ Mine(p) \subseteq free_map
    /\ \A s \in Live : Mine(p) \cap Extent(s) = {}
    /\ Place(p) \in Building => loc[p].sector \notin Data(p)
    /\ Place(p) \in Building \cup {"data"} => loc[p].size \in Sizes /\ loc[p].name \in Name
    /\ Place(p) \in Written =>
         disk[loc[p].sector] = [start |-> loc[p].start, length |-> loc[p].size]
    /\ pc[p] = "entry" => /\ loc[p].slot \in 1..(Slots + 1)
                          /\ loc[p].slot <= Slots => slots[loc[p].slot] = None

\* The free map on the disk is behind only while it is about to be written.
Saved(p) == /\ pc[p] # "map" => disk_map = free_map
            /\ pc[p] = "map" => loc[p].then \in {"user", "data", "inode", "freedata"}

\* A process that looks a file up is at its entry; its inode is on the list.
Looks(p) ==
    /\ pc[p] \in {"iopen", "iread", "open", "remove"} =>
         /\ loc[p].slot \in 1..Slots /\ slots[loc[p].slot] # None
         /\ slots[loc[p].slot].sector = loc[p].sector
    /\ pc[p] \in {"iopen", "iread"} => loc[p].then \in {"open", "remove"}
    /\ pc[p] \in {"iread", "open", "remove", "close"} => loc[p].ino \in Inode /\ inode[loc[p].ino] # None
    /\ pc[p] \in {"iread", "open", "remove"} => inode[loc[p].ino].sector = loc[p].sector

Places == \A p \in Proc : Private(p) /\ Saved(p) /\ Looks(p)

FInv == TypeOK /\ ~panic /\ Owned /\ NamedOnce /\ InodesAgree /\ FilesAreOpen /\ Places
-----------------------------------------------------------------------------
(* Lemmas about the operators.                                             *)

LEMMA MinIs ==
    ASSUME NEW S \in SUBSET Nat, S # {}
    PROVE  Min(S) \in S /\ \A y \in S : Min(S) <= y
<1>1. PICK m \in S : \A y \in S : ~(<<y, m>> \in OpToRel(<, Nat))
  BY NatLessThanWellFounded, WFMin
<1>2. ASSUME NEW y \in S PROVE m <= y
  <2>1. <<y, m>> \in Nat \X Nat /\ OpToRel(<, Nat) = {ss \in Nat \X Nat : ss[1] < ss[2]}
    BY DEF OpToRel
  <2>2. ~(y < m)
    BY <1>1, <2>1
  <2> QED
    BY <2>2
<1> QED
  BY <1>2 DEF Min

LEMMA FilesysConstants ==
    /\ None \notin InodeDisk /\ None \notin Entry /\ None \notin InodeStruct
    /\ None \notin FileStruct /\ Zero \in Value /\ IsFiniteSet(File)
    /\ Sectors \in Nat /\ Slots \in Nat /\ Inodes \in Nat /\ Sizes \subseteq Nat
    /\ Sector \subseteq Nat \ {0} /\ Inode \subseteq Nat \ {0} /\ Idle \in Locals
  BY NoneAssumption, ZeroAssumption, FileAssumption, CountAssumption DEF Sector, Inode, Idle, Locals

LEMMA Numbers == (\A s \in Sector \cup {0} : s \in Nat) /\ (\A n \in Sizes : n \in Nat)
  BY FilesysConstants

LEMMA FilesysState ==
    ASSUME TypeOK
    PROVE  /\ disk \in [Sector -> Value \cup InodeDisk]
           /\ disk_map \subseteq Sector /\ free_map \subseteq Sector
           /\ slots \in [1..Slots -> {None} \cup Entry]
           /\ inode \in [Inode -> {None} \cup InodeStruct]
           /\ file \in [File -> {None} \cup FileStruct]
           /\ pc \in [Proc -> Where] /\ loc \in [Proc -> Locals]
  BY DEF TypeOK

LEMMA LinkedIs ==
    /\ \A s : s \in Linked <=> \E k \in 1..Slots : slots[k] # None /\ slots[k].sector = s
    /\ \A s : s \in Opened <=> \E i \in Inode : inode[i] # None /\ inode[i].sector = s
  BY DEF Linked, Opened

LEMMA LiveSectors == TypeOK => Live \subseteq Sector
<1> SUFFICES ASSUME TypeOK, NEW s \in Live PROVE s \in Sector
  OBVIOUS
<1>1. CASE s \in Linked
  BY <1>1, FilesysState, LinkedIs DEF Entry
<1>2. CASE s \in Opened
  BY <1>2, FilesysState, LinkedIs DEF InodeStruct
<1> QED
  BY <1>1, <1>2 DEF Live

\* The run of sectors that free_map_allocate finds is free.
LEMMA FitsIs ==
    ASSUME TypeOK, NEW cnt \in Nat, Fits(cnt) # {}
    PROVE  /\ Min(Fits(cnt)) \in Sector \cup {0}
           /\ Run(Min(Fits(cnt)), cnt) \subseteq Sector \ free_map
           /\ cnt = 1 => Min(Fits(cnt)) \in Sector \ free_map
<1>1. Fits(cnt) \subseteq Nat
  BY FilesysConstants DEF Fits
<1>2. Min(Fits(cnt)) \in Fits(cnt)
  BY <1>1, MinIs
<1>3. CASE cnt = 0
  <2>1. Min(Fits(cnt)) = 0
    BY <1>2, <1>3 DEF Fits
  <2>2. Run(0, cnt) = {}
    BY <1>3 DEF Run
  <2> QED
    BY <1>3, <2>1, <2>2
<1>4. CASE cnt # 0
  <2>1. Min(Fits(cnt)) \in Sector /\ Run(Min(Fits(cnt)), cnt) \subseteq Sector \ free_map
    BY <1>2, <1>4 DEF Fits
  <2>2. Min(Fits(cnt)) \in Run(Min(Fits(cnt)), cnt)
    <3>1. \A m, c \in Nat : c # 0 => m \in m..(m + c - 1)
      OBVIOUS
    <3>2. Min(Fits(cnt)) \in Nat
      BY <2>1, FilesysConstants
    <3> QED
      BY <1>4, <3>1, <3>2 DEF Run
  <2> QED
    BY <2>1, <2>2
<1> QED
  BY <1>3, <1>4

\* A process's own step to a place, with other local variables.
LEMMA GotoIs ==
    ASSUME TypeOK, NEW p \in Proc, NEW place \in Where, Goto(p, place)
    PROVE  pc' \in [Proc -> Where] /\ pc'[p] = place
  BY FilesysState DEF Goto

LEMMA SetIs ==
    ASSUME TypeOK, NEW p \in Proc, NEW l \in Locals, Set(p, l)
    PROVE  loc' \in [Proc -> Locals] /\ loc'[p] = l
  BY FilesysState DEF Set

\* Local variables that differ in some fields.
LEMMA LocalsThen ==
    ASSUME NEW l \in Locals, NEW next \in {"user", "data", "inode", "open", "remove", "freedata"},
           NEW m, m = [l EXCEPT !.then = next]
    PROVE  /\ m \in Locals /\ m.then = next /\ m.name = l.name /\ m.size = l.size
           /\ m.sector = l.sector /\ m.start = l.start /\ m.slot = l.slot /\ m.ino = l.ino
  BY DEF Locals

LEMMA LocalsStart ==
    ASSUME NEW l \in Locals, NEW s \in Sector \cup {0},
           NEW m, m = [l EXCEPT !.start = s]
    PROVE  /\ m \in Locals /\ m.then = l.then /\ m.name = l.name /\ m.size = l.size
           /\ m.sector = l.sector /\ m.start = s /\ m.slot = l.slot /\ m.ino = l.ino
  BY DEF Locals

LEMMA LocalsSlot ==
    ASSUME NEW l \in Locals, NEW k \in Nat,
           NEW m, m = [l EXCEPT !.slot = k]
    PROVE  /\ m \in Locals /\ m.then = l.then /\ m.name = l.name /\ m.size = l.size
           /\ m.sector = l.sector /\ m.start = l.start /\ m.slot = k /\ m.ino = l.ino
  BY DEF Locals

LEMMA LocalsIno ==
    ASSUME NEW l \in Locals, NEW i \in Inode,
           NEW m, m = [l EXCEPT !.ino = i]
    PROVE  /\ m \in Locals /\ m.then = l.then /\ m.name = l.name /\ m.size = l.size
           /\ m.sector = l.sector /\ m.start = l.start /\ m.slot = l.slot /\ m.ino = i
  BY DEF Locals

LEMMA ReturnIs ==
    ASSUME TypeOK, NEW p \in Proc, Return(p)
    PROVE  /\ pc' \in [Proc -> Where] /\ pc'[p] = "user"
           /\ loc' \in [Proc -> Locals] /\ loc'[p] = Idle
  BY GotoIs, SetIs, FilesysConstants DEF Return, Where
LEMMA SaveMapIs ==
    ASSUME TypeOK, NEW p \in Proc, NEW l \in Locals,
           NEW next \in {"user", "data", "inode", "freedata"}, SaveMap(p, l, next)
    PROVE  /\ pc' \in [Proc -> Where] /\ pc'[p] = "map"
           /\ loc' \in [Proc -> Locals] /\ loc'[p].then = next
           /\ loc'[p].size = l.size /\ loc'[p].sector = l.sector /\ loc'[p].start = l.start
           /\ loc'[p].name = l.name
<1>1. PICK m : m = [l EXCEPT !.then = next]
  OBVIOUS
<1>2. /\ m \in Locals /\ m.then = next /\ m.size = l.size /\ m.name = l.name
      /\ m.sector = l.sector /\ m.start = l.start
  BY <1>1, LocalsThen
<1>3. Goto(p, "map") /\ Set(p, m)
  BY <1>1 DEF SaveMap
<1>4. pc' \in [Proc -> Where] /\ pc'[p] = "map"
  BY <1>3, GotoIs DEF Where
<1>5. loc' \in [Proc -> Locals] /\ loc'[p] = m
  BY <1>2, <1>3, SetIs
<1> QED
  BY <1>2, <1>4, <1>5

-----------------------------------------------------------------------------
(* What a step keeps of the invariant when it leaves something alone.      *)

\* Files go, or are opened that have a name, and their sectors stay theirs.
LEMMA OwnedKept ==
    ASSUME Owned, Live' \subseteq Live, Linked' \subseteq Linked,
           \A s \in Live' : disk'[s] = disk[s] /\ Extent(s) \subseteq free_map',
           \A s \in Linked' : Extent(s) \subseteq disk_map'
    PROVE  Owned'
<1>1. \A s \in Live' : Extent(s)' = Extent(s)
  BY DEF Extent
<1> QED
  BY <1>1 DEF Owned

\* A process with no sectors in its hands.
LEMMA NothingPrivate ==
    ASSUME NEW p, Place(p)' \notin Bare \cup Building \cup {"freedata"}, pc'[p] # "entry"
    PROVE  Private(p)'
  BY DEF Private, Mine, Bare, Building, Written

LEMMA PlacesOfOne ==
    ASSUME OneProcess, NEW p \in Proc, Private(p)', Saved(p)', Looks(p)'
    PROVE  Places'
<1>1. \A q \in Proc : q = p
  BY DEF OneProcess
<1> QED
  BY <1>1 DEF Places

\* The inodes, when neither they nor the files nor the processes at them change.
LEMMA InodesStay ==
    ASSUME InodesAgree, UNCHANGED <<inode, file>>,
           \A s \in Opened : s \in Linked' <=> s \in Linked,
           \A i \in Inode : Users(i)' = Users(i),
           \A p \in Proc : pc[p] = "iread" => pc'[p] = "iread",
           \A s \in Opened : disk'[s] = disk[s]
    PROVE  InodesAgree'
<1> SUFFICES ASSUME NEW i \in Inode, inode[i] # None
             PROVE  /\ \A j \in Inode \ {i} : inode[j] # None => inode[j].sector # inode[i].sector
                    /\ inode[i].open_cnt = Cardinality(Openers(i)') + Cardinality(Users(i)')
                    /\ inode[i].deny_write_cnt =
                         Cardinality({f \in Openers(i)' : file[f].deny_write})
                    /\ inode[i].removed <=> inode[i].sector \notin Linked'
                    /\ \/ inode[i].data = disk'[inode[i].sector]
                       \/ \E p \in Users(i)' : pc'[p] = "iread"
  BY ZenonT(30) DEF InodesAgree
<1>1. Openers(i)' = Openers(i) /\ Users(i)' = Users(i) /\ Users(i) \subseteq Proc
  BY DEF Openers, Users
<1>2. /\ disk'[inode[i].sector] = disk[inode[i].sector]
      /\ inode[i].sector \in Linked' <=> inode[i].sector \in Linked
  BY LinkedIs
<1>3. /\ \A j \in Inode \ {i} : inode[j] # None => inode[j].sector # inode[i].sector
      /\ inode[i].open_cnt = Cardinality(Openers(i)) + Cardinality(Users(i))
      /\ inode[i].deny_write_cnt = Cardinality({f \in Openers(i) : file[f].deny_write})
      /\ inode[i].removed <=> inode[i].sector \notin Linked
      /\ inode[i].data = disk[inode[i].sector] \/ \E p \in Users(i) : pc[p] = "iread"
  BY DEF InodesAgree
<1>4. {f \in Openers(i)' : file[f].deny_write} = {f \in Openers(i) : file[f].deny_write}
  BY <1>1
<1>5. inode[i].data = disk'[inode[i].sector] \/ \E p \in Users(i)' : pc'[p] = "iread"
  BY <1>1, <1>2, <1>3
<1> QED
  BY <1>1, <1>2, <1>3, <1>4, <1>5

UserPlaces == {"iread", "open", "remove", "close"}

\* What every step may assume of a state.
LEMMA Before ==
    ASSUME FInv, OneProcess, NEW p \in Proc
    PROVE  /\ TypeOK /\ Owned /\ NamedOnce /\ InodesAgree /\ FilesAreOpen /\ ~panic
           /\ Private(p) /\ Saved(p) /\ Looks(p) /\ \A q \in Proc : q = p
           /\ pc[p] \in Where /\ loc[p] \in Locals /\ Live \subseteq Sector
           /\ \A s \in Live : /\ s \in Sector /\ s \in Extent(s) /\ Extent(s) \subseteq free_map
                             /\ disk[s] \in InodeDisk /\ Mine(p) \cap Extent(s) = {}
           /\ \A s \in Linked : s \in Live /\ Extent(s) \subseteq disk_map
           /\ Mine(p) \subseteq free_map /\ Mine(p) \cap Live = {}
<1>1. /\ TypeOK /\ Owned /\ NamedOnce /\ InodesAgree /\ FilesAreOpen /\ ~panic
      /\ Private(p) /\ Saved(p) /\ Looks(p) /\ \A q \in Proc : q = p
  BY DEF FInv, Places, OneProcess
<1>2. pc[p] \in Where /\ loc[p] \in Locals /\ Live \subseteq Sector
  BY <1>1, FilesysState, LiveSectors
<1>3. \A s : s \in Extent(s)
  BY DEF Extent
<1>4. \A s \in Live : Extent(s) \subseteq free_map /\ disk[s] \in InodeDisk
  BY <1>1 DEF Owned
<1>5. /\ Mine(p) \subseteq free_map
      /\ \A s \in Live : Mine(p) \cap Extent(s) = {}
  BY <1>1 DEF Private
<1>6. \A s \in Linked : s \in Live /\ Extent(s) \subseteq disk_map
  BY <1>1 DEF Owned, Live
<1>7. Mine(p) \cap Live = {}
  BY <1>3, <1>5
<1> QED
  BY <1>1, <1>2, <1>3, <1>4, <1>5, <1>6, <1>7

\* A step of a process that is at no inode and goes to none.
LEMMA QuietInodes ==
    ASSUME FInv, OneProcess, NEW p \in Proc, UNCHANGED <<inode, file>>,
           pc[p] \notin UserPlaces, pc'[p] \notin UserPlaces,
           \A s \in Opened : (s \in Linked' <=> s \in Linked) /\ disk'[s] = disk[s]
    PROVE  InodesAgree' /\ FilesAreOpen' /\ Opened' = Opened
<1>0. \A q \in Proc : q = p
  BY Before
<1>1. ASSUME NEW i \in Inode PROVE Users(i) = {} /\ Users(i)' = {}
  BY <1>0 DEF Users, UserPlaces
<1>2. \A q \in Proc : pc[q] = "iread" => pc'[q] = "iread"
  BY <1>0 DEF UserPlaces
<1>3. InodesAgree'
  BY <1>1, <1>2, Before, InodesStay
<1>4. FilesAreOpen' /\ Opened' = Opened
  BY Before DEF FilesAreOpen, Opened
<1> QED
  BY <1>3, <1>4

\* The same when it leaves the directory alone.
LEMMA QuietStep ==
    ASSUME FInv, OneProcess, NEW p \in Proc, UNCHANGED <<slots, inode, file, panic>>,
           pc' \in [Proc -> Where], loc' \in [Proc -> Locals],
           disk' \in [Sector -> Value \cup InodeDisk],
           disk_map' \subseteq Sector, free_map' \subseteq Sector,
           pc[p] \notin UserPlaces, pc'[p] \notin UserPlaces,
           \A s \in Live : disk'[s] = disk[s] /\ Extent(s) \subseteq free_map',
           \A s \in Linked : Extent(s) \subseteq disk_map',
           Private(p)', Saved(p)', Looks(p)'
    PROVE  FInv'
<1>0. TypeOK /\ Owned /\ NamedOnce /\ ~panic
  BY Before
<1>1. TypeOK'
  BY <1>0 DEF TypeOK
<1>2. Linked' = Linked /\ Opened' = Opened /\ Live' = Live
  BY DEF Linked, Opened, Live
<1>3. Owned'
  BY <1>0, <1>2, OwnedKept
<1>4. NamedOnce'
  BY <1>0 DEF NamedOnce
<1>5. InodesAgree' /\ FilesAreOpen'
  BY <1>2, QuietInodes DEF Live
<1>6. Places'
  BY PlacesOfOne
<1> QED
  BY <1>0, <1>1, <1>3, <1>4, <1>5, <1>6 DEF FInv

\* The file's own parts of the invariant for a process that looks nothing up.
LEMMA NoLooks ==
    ASSUME NEW p, pc'[p] \notin UserPlaces, pc'[p] # "iopen"
    PROVE  Looks(p)'
  BY DEF Looks, UserPlaces
-----------------------------------------------------------------------------
(* filesys_create.                                                         *)

LEMMA WriteMapStep ==
    ASSUME FInv, OneProcess, NEW p \in Proc, WriteMap(p)
    PROVE  FInv'
<1>0. /\ TypeOK /\ Private(p) /\ Saved(p)
      /\ \A s \in Live : Extent(s) \subseteq free_map
      /\ \A s \in Linked : s \in Live
      /\ free_map \subseteq Sector /\ disk \in [Sector -> Value \cup InodeDisk]
  BY Before, FilesysState
<1>1. /\ pc[p] = "map" /\ disk_map' = free_map
      /\ UNCHANGED <<disk, slots, inode, file, free_map, panic>>
      /\ loc[p].then \in {"user", "data", "inode", "freedata"}
  BY <1>0 DEF WriteMap, Saved, memVars
<1>2. /\ pc' \in [Proc -> Where] /\ loc' \in [Proc -> Locals] /\ pc'[p] = loc[p].then
      /\ loc[p].then # "user" => loc' = loc
  <2>1. CASE loc[p].then = "user"
    BY <1>0, <1>1, <2>1, ReturnIs DEF WriteMap
  <2>2. CASE loc[p].then # "user"
    <3>1. Goto(p, loc[p].then) /\ loc' = loc /\ loc[p].then \in Where
      BY <1>1, <2>2 DEF WriteMap, Where
    <3> QED
      BY <1>0, <3>1, GotoIs, FilesysState
  <2> QED
    BY <2>1, <2>2
<1>3. Private(p)'
  <2>1. CASE loc[p].then = "user"
    BY <1>2, <2>1, NothingPrivate DEF Place, Bare, Building, Written
  <2>2. CASE loc[p].then # "user"
    <3>1. Place(p)' = Place(p) /\ loc'[p] = loc[p]
      BY <1>1, <1>2, <2>2 DEF Place
    <3>2. Mine(p)' = Mine(p) /\ Data(p)' = Data(p)
      BY <3>1 DEF Mine, Data
    <3>3. Live' = Live /\ \A s \in Live : Extent(s)' = Extent(s)
      BY <1>1 DEF Live, Linked, Opened, Extent
    <3>4. Mine(p)' \subseteq free_map' /\ \A t \in Live' : Mine(p)' \cap Extent(t)' = {}
      BY <1>0, <1>1, <3>2, <3>3 DEF Private
    <3>5. /\ Place(p)' \in Building => loc'[p].sector \notin Data(p)'
          /\ Place(p)' \in Building \cup {"data"} => loc'[p].size \in Sizes /\ loc'[p].name \in Name
          /\ Place(p)' \in Written =>
               disk'[loc'[p].sector] = [start |-> loc'[p].start, length |-> loc'[p].size]
      BY <1>0, <1>1, <3>1, <3>2 DEF Private
    <3>6. pc'[p] # "entry"
      BY <1>1, <1>2
    <3> QED
      BY <3>4, <3>5, <3>6 DEF Private
  <2> QED
    BY <2>1, <2>2
<1>4. Saved(p)' /\ Looks(p)'
  BY <1>1, <1>2, NoLooks DEF Saved, UserPlaces
<1> QED
  BY <1>0, <1>1, <1>2, <1>3, <1>4, QuietStep DEF UserPlaces

\* The steps of filesys_create that leave disk and free map alone, on the same file.
LEMMA MovesOn ==
    ASSUME FInv, OneProcess, NEW p \in Proc, NEW place \in {"lookup", "slot", "undo"},
           pc[p] \in {"data", "zero", "lookup", "entry"}, pc[p] = "data" => place = "undo",
           Goto(p, place), UNCHANGED <<diskVars, memVars, loc, panic>>
    PROVE  FInv'
<1>0. /\ TypeOK /\ Private(p) /\ Saved(p) /\ loc \in [Proc -> Locals]
      /\ \A s \in Live : Extent(s) \subseteq free_map
      /\ \A s \in Linked : s \in Live /\ Extent(s) \subseteq disk_map
      /\ disk \in [Sector -> Value \cup InodeDisk] /\ free_map \subseteq Sector /\ disk_map \subseteq Sector
  BY Before, FilesysState
<1>1. UNCHANGED <<disk, disk_map, slots, free_map, inode, file, loc, panic>>
  BY DEF diskVars, memVars
<1>2. pc' \in [Proc -> Where] /\ pc'[p] = place
  BY <1>0, GotoIs DEF Where
<1>3. /\ Place(p) = pc[p] /\ Place(p)' = place /\ Data(p)' = Data(p)
      /\ Mine(p)' \subseteq Mine(p)
  BY <1>1, <1>2 DEF Place, Data, Mine, Bare, Building, Written
<1>4. Live' = Live /\ \A s \in Live : Extent(s)' = Extent(s)
  BY <1>1 DEF Live, Linked, Opened, Extent
<1>5. Private(p)'
  <2>1. Mine(p)' \subseteq free_map' /\ \A s \in Live' : Mine(p)' \cap Extent(s)' = {}
    BY <1>0, <1>1, <1>3, <1>4 DEF Private
  <2>2. Place(p)' \in Building \cup {"data"} => Place(p) \in Written
    BY <1>3 DEF Building, Written
  <2>3. /\ Place(p)' \in Building => loc'[p].sector \notin Data(p)'
        /\ Place(p)' \in Building \cup {"data"} => loc'[p].size \in Sizes /\ loc'[p].name \in Name
        /\ Place(p)' \in Written =>
             disk'[loc'[p].sector] = [start |-> loc'[p].start, length |-> loc'[p].size]
    BY <1>0, <1>1, <1>3, <2>2 DEF Private, Building, Written
  <2>4. pc'[p] # "entry"
    BY <1>2
  <2> QED
    BY <2>1, <2>3, <2>4 DEF Private
<1>6. Saved(p)' /\ Looks(p)'
  BY <1>0, <1>1, <1>2, NoLooks DEF Saved, UserPlaces
<1> QED
  BY <1>0, <1>1, <1>2, <1>5, <1>6, QuietStep DEF UserPlaces

LEMMA CreateStep ==
    ASSUME FInv, OneProcess, NEW p \in Proc, NEW n \in Name, NEW size \in Sizes, Create(p, n, size)
    PROVE  FInv'
<1>0. /\ TypeOK /\ Saved(p)
      /\ \A t \in Live : Extent(t) \subseteq free_map
      /\ \A t \in Linked : t \in Live /\ Extent(t) \subseteq disk_map
      /\ disk \in [Sector -> Value \cup InodeDisk] /\ free_map \subseteq Sector /\ disk_map \subseteq Sector
  BY Before, FilesysState
<1>1. PICK s : s = Min(Fits(1))
  OBVIOUS
<1>2. /\ pc[p] = "user" /\ Fits(1) # {} /\ free_map' = free_map \cup {s}
      /\ SaveMap(p, [Idle EXCEPT !.name = n, !.size = size, !.sector = s], "data")
      /\ UNCHANGED <<disk, disk_map, slots, inode, file, panic>>
  BY <1>1 DEF Create, diskVars
<1>3. s \in Sector \ free_map
  BY <1>0, <1>1, <1>2, FitsIs
<1>4. PICK m : m = [Idle EXCEPT !.name = n, !.size = size, !.sector = s]
  OBVIOUS
<1>5. SaveMap(p, m, "data") /\ m \in Locals /\ m.size = size /\ m.sector = s /\ m.name = n
  <2>1. SaveMap(p, m, "data")
    BY <1>2, <1>4
  <2>2. m \in Locals /\ m.size = size /\ m.sector = s /\ m.name = n
    BY <1>3, <1>4 DEF Locals, Idle
  <2> QED
    BY <2>1, <2>2
<1>6. /\ pc' \in [Proc -> Where] /\ pc'[p] = "map" /\ loc' \in [Proc -> Locals]
      /\ loc'[p].then = "data" /\ loc'[p].size = size /\ loc'[p].sector = s /\ loc'[p].name = n
  BY <1>0, <1>5, SaveMapIs
<1>7. Place(p)' = "data" /\ Mine(p)' = {s}
  BY <1>6 DEF Place, Mine, Bare, Building, Written
<1>8. Live' = Live /\ \A t \in Live : Extent(t)' = Extent(t)
  BY <1>2 DEF Live, Linked, Opened, Extent
<1>9. Private(p)'
  BY <1>0, <1>2, <1>3, <1>6, <1>7, <1>8 DEF Private, Building, Written
<1>10. Saved(p)' /\ Looks(p)'
  BY <1>6, NoLooks DEF Saved, UserPlaces
<1> QED
  BY <1>0, <1>2, <1>3, <1>6, <1>9, <1>10, QuietStep DEF UserPlaces

LEMMA AllocateDataStep ==
    ASSUME FInv, OneProcess, NEW p \in Proc, AllocateData(p)
    PROVE  FInv'
<1>0. /\ TypeOK /\ Private(p) /\ Saved(p) /\ loc[p] \in Locals
      /\ \A t \in Live : Extent(t) \subseteq free_map
      /\ \A t \in Linked : t \in Live /\ Extent(t) \subseteq disk_map
      /\ disk \in [Sector -> Value \cup InodeDisk] /\ free_map \subseteq Sector /\ disk_map \subseteq Sector
  BY Before, FilesysState
<1>1. PICK l \in Locals : l = loc[p]
  BY <1>0
<1>2. PICK s : s = Min(Fits(l.size))
  OBVIOUS
<1>3. PICK run : run = Run(s, l.size)
  OBVIOUS
<1>4. CASE Fits(l.size) = {}
  BY <1>1, <1>4, MovesOn DEF AllocateData, memVars
<1>5. CASE Fits(l.size) # {}
  <2>1. /\ pc[p] = "data" /\ free_map' = free_map \cup run
        /\ SaveMap(p, [l EXCEPT !.start = s], "inode")
        /\ UNCHANGED <<disk, disk_map, slots, inode, file, panic>>
    BY <1>1, <1>2, <1>3, <1>5 DEF AllocateData, diskVars
  <2>2. Place(p) = "data"
    BY <2>1 DEF Place
  <2>3. /\ l.sector \in free_map /\ l.size \in Sizes /\ l.name \in Name
        /\ \A t \in Live : l.sector \notin Extent(t)
    BY <1>0, <1>1, <2>2 DEF Private, Mine, Bare, Building, Written
  <2>4. s \in Sector \cup {0} /\ run \subseteq Sector \ free_map
    BY <1>0, <1>2, <1>3, <1>5, <2>3, FitsIs, FilesysConstants
  <2>5. PICK m : m = [l EXCEPT !.start = s]
    OBVIOUS
  <2>6. m \in Locals /\ m.start = s /\ m.size = l.size /\ m.sector = l.sector /\ m.name = l.name
    BY <2>4, <2>5, LocalsStart
  <2>7. /\ pc' \in [Proc -> Where] /\ pc'[p] = "map" /\ loc' \in [Proc -> Locals]
        /\ loc'[p].then = "inode" /\ loc'[p].size = l.size /\ loc'[p].sector = l.sector
        /\ loc'[p].name = l.name
        /\ loc'[p].start = s
    BY <1>0, <2>1, <2>5, <2>6, SaveMapIs
  <2>8. Place(p)' = "inode" /\ Data(p)' = run /\ Mine(p)' = {l.sector} \cup run
    BY <1>3, <2>7 DEF Place, Mine, Data, Run, Bare, Building, Written
  <2>9. Live' = Live /\ \A t \in Live : Extent(t)' = Extent(t)
    BY <2>1 DEF Live, Linked, Opened, Extent
  <2>10. Private(p)'
    <3>1. Mine(p)' \subseteq free_map' /\ \A t \in Live' : Mine(p)' \cap Extent(t)' = {}
      BY <1>0, <2>1, <2>3, <2>4, <2>8, <2>9
    <3>2. loc'[p].sector \notin Data(p)' /\ loc'[p].size \in Sizes /\ loc'[p].name \in Name
      BY <2>3, <2>4, <2>7, <2>8
    <3> QED
      BY <2>7, <2>8, <3>1, <3>2 DEF Private, Building, Written
  <2>11. Saved(p)' /\ Looks(p)'
    BY <2>7, NoLooks DEF Saved, UserPlaces
  <2>12. free_map' \subseteq Sector /\ \A t \in Live : Extent(t) \subseteq free_map'
    BY <1>0, <2>1, <2>4
  <2> QED
    BY <1>0, <2>1, <2>7, <2>10, <2>11, <2>12, QuietStep DEF UserPlaces
<1> QED
  BY <1>4, <1>5

\* The extents of the files, when the directory, the inodes and the files' sectors stay.
LEMMA ExtentsStay ==
    ASSUME UNCHANGED <<slots, inode>>, \A t \in Live : disk'[t] = disk[t]
    PROVE  Live' = Live /\ Linked' = Linked /\ \A t \in Live : Extent(t)' = Extent(t)
  BY DEF Live, Linked, Opened, Extent

LEMMA WriteInodeStep ==
    ASSUME FInv, OneProcess, NEW p \in Proc, WriteInode(p)
    PROVE  FInv'
<1>0. /\ TypeOK /\ Private(p) /\ Saved(p) /\ loc[p] \in Locals /\ Live \subseteq Sector
      /\ \A t \in Live : Extent(t) \subseteq free_map
      /\ \A t \in Linked : t \in Live /\ Extent(t) \subseteq disk_map
      /\ disk \in [Sector -> Value \cup InodeDisk] /\ free_map \subseteq Sector /\ disk_map \subseteq Sector
      /\ Mine(p) \subseteq free_map /\ Mine(p) \cap Live = {}
  BY Before, FilesysState
<1>1. PICK l \in Locals : l = loc[p]
  BY <1>0
<1>2. PICK r : r = [start |-> l.start, length |-> l.size]
  OBVIOUS
<1>3. PICK m : m = [l EXCEPT !.slot = 0]
  OBVIOUS
<1>4. /\ pc[p] = "inode" /\ disk' = [disk EXCEPT ![l.sector] = r] /\ Goto(p, "zero") /\ Set(p, m)
      /\ UNCHANGED <<disk_map, slots, free_map, inode, file, panic>>
  BY <1>1, <1>2, <1>3 DEF WriteInode, memVars
<1>5. /\ m \in Locals /\ m.size = l.size /\ m.sector = l.sector /\ m.start = l.start
      /\ m.name = l.name
  BY <1>3, LocalsSlot
<1>6. pc' \in [Proc -> Where] /\ pc'[p] = "zero" /\ loc' \in [Proc -> Locals] /\ loc'[p] = m
  BY <1>0, <1>4, <1>5, GotoIs, SetIs DEF Where
<1>7. Place(p) = "inode" /\ Place(p)' = "zero" /\ Data(p)' = Data(p)
  BY <1>1, <1>4, <1>5, <1>6 DEF Place, Data
<1>8. Mine(p)' = Mine(p) /\ l.sector \in Mine(p)
  BY <1>1, <1>5, <1>6, <1>7 DEF Mine, Bare, Building, Written
<1>9. /\ l.sector \in Sector /\ l.sector \notin Live /\ l.size \in Sizes
      /\ l.sector \notin Data(p) /\ l.name \in Name
  BY <1>0, <1>1, <1>7, <1>8 DEF Private, Building, Written
<1>10. r \in InodeDisk
  BY <1>2, <1>9 DEF InodeDisk, Locals
<1>11. /\ disk' \in [Sector -> Value \cup InodeDisk] /\ disk'[l.sector] = r
       /\ \A t \in Live : disk'[t] = disk[t]
  BY <1>0, <1>4, <1>9, <1>10
<1>12. Live' = Live /\ \A t \in Live : Extent(t)' = Extent(t)
  BY <1>4, <1>11, ExtentsStay
<1>13. Private(p)'
  <2>1. Mine(p)' \subseteq free_map' /\ \A t \in Live' : Mine(p)' \cap Extent(t)' = {}
    BY <1>0, <1>4, <1>8, <1>12 DEF Private
  <2>2. disk'[loc'[p].sector] = [start |-> loc'[p].start, length |-> loc'[p].size]
    BY <1>2, <1>5, <1>6, <1>11
  <2>3. loc'[p].sector \notin Data(p)' /\ loc'[p].size \in Sizes /\ loc'[p].name \in Name
    BY <1>5, <1>6, <1>7, <1>9
  <2> QED
    BY <1>6, <2>1, <2>2, <2>3 DEF Private
<1>14. Saved(p)' /\ Looks(p)'
  BY <1>0, <1>4, <1>6, NoLooks DEF Saved, UserPlaces
<1> QED
  BY <1>0, <1>4, <1>6, <1>11, <1>13, <1>14, QuietStep DEF UserPlaces

LEMMA WriteZeroStep ==
    ASSUME FInv, OneProcess, NEW p \in Proc, WriteZero(p)
    PROVE  FInv'
<1>0. /\ TypeOK /\ Private(p) /\ Saved(p) /\ loc[p] \in Locals /\ Live \subseteq Sector
      /\ \A t \in Live : Extent(t) \subseteq free_map
      /\ \A t \in Linked : t \in Live /\ Extent(t) \subseteq disk_map
      /\ disk \in [Sector -> Value \cup InodeDisk] /\ free_map \subseteq Sector /\ disk_map \subseteq Sector
      /\ Mine(p) \subseteq free_map /\ Mine(p) \cap Live = {} /\ pc[p] = "zero" /\ pc \in [Proc -> Where]
  BY Before, FilesysState DEF WriteZero
<1>1. PICK l \in Locals : l = loc[p]
  BY <1>0
<1>2. CASE ~(l.slot < l.size)
  BY <1>0, <1>1, <1>2, MovesOn DEF WriteZero, diskVars
<1>3. CASE l.slot < l.size
  <2>1. PICK m : m = [l EXCEPT !.slot = @ + 1]
    OBVIOUS
  <2>2. PICK d : d = l.start + l.slot
    OBVIOUS
  <2>3. /\ disk' = IF l.slot \in Zeroed(l.size) THEN [disk EXCEPT ![d] = Zero] ELSE disk
        /\ Set(p, m) /\ UNCHANGED <<pc, disk_map, slots, free_map, inode, file, panic>>
    BY <1>1, <1>3, <2>1, <2>2 DEF WriteZero, memVars
  <2>4. /\ m \in Locals /\ m.size = l.size /\ m.sector = l.sector /\ m.start = l.start
        /\ m.name = l.name
    <3>1. m = [l EXCEPT !.slot = l.slot + 1] /\ l.slot + 1 \in Nat
      BY <2>1 DEF Locals
    <3> QED
      BY <3>1, LocalsSlot
  <2>5. loc' \in [Proc -> Locals] /\ loc'[p] = m
    BY <1>0, <2>3, <2>4, SetIs
  <2>6. Place(p) = "zero" /\ Place(p)' = "zero" /\ Data(p)' = Data(p)
    BY <1>0, <1>1, <2>3, <2>4, <2>5 DEF Place, Data
  <2>7. Mine(p)' = Mine(p) /\ Data(p) \subseteq Mine(p)
    BY <1>1, <2>4, <2>5, <2>6 DEF Mine, Bare, Building, Written
  <2>8. /\ l.size \in Sizes /\ l.name \in Name /\ l.sector \notin Data(p)
        /\ disk[l.sector] = [start |-> l.start, length |-> l.size]
    BY <1>0, <1>1, <2>6 DEF Private, Building, Written
  <2>9. d \in Data(p)
    <3>1. l.start \in Nat /\ l.slot \in Nat /\ l.size \in Nat
      <4>1. l.start \in Sector \cup {0} /\ l.slot \in Nat
        BY DEF Locals
      <4> QED
        BY <2>8, <4>1, Numbers
    <3>2. d \in l.start..(l.start + l.size - 1)
      BY <1>3, <2>2, <3>1
    <3> QED
      BY <1>1, <3>2 DEF Data, Run
  <2>10. /\ disk' \in [Sector -> Value \cup InodeDisk] /\ disk'[l.sector] = disk[l.sector]
         /\ \A t \in Live : disk'[t] = disk[t]
    <3>1. d # l.sector /\ d \notin Live /\ d \in Sector /\ Zero \in Value \cup InodeDisk
      BY <1>0, <2>7, <2>8, <2>9, FilesysConstants
    <3>2. CASE disk' = disk
      BY <1>0, <3>2
    <3>3. CASE disk' = [disk EXCEPT ![d] = Zero]
      BY <1>0, <3>1, <3>3
    <3> QED
      BY <2>3, <3>2, <3>3
  <2>11. Live' = Live /\ \A t \in Live : Extent(t)' = Extent(t)
    BY <2>3, <2>10, ExtentsStay
  <2>12. Private(p)'
    <3>1. Mine(p)' \subseteq free_map' /\ \A t \in Live' : Mine(p)' \cap Extent(t)' = {}
      BY <1>0, <2>3, <2>7, <2>11 DEF Private
    <3>2. disk'[loc'[p].sector] = [start |-> loc'[p].start, length |-> loc'[p].size]
      BY <2>4, <2>5, <2>8, <2>10
    <3>3. loc'[p].sector \notin Data(p)' /\ loc'[p].size \in Sizes /\ loc'[p].name \in Name
      BY <2>4, <2>5, <2>6, <2>8
    <3>4. pc'[p] # "entry"
      BY <1>0, <2>3
    <3> QED
      BY <3>1, <3>2, <3>3, <3>4 DEF Private
  <2>13. Saved(p)' /\ Looks(p)'
    BY <1>0, <2>3, NoLooks DEF Saved, UserPlaces
  <2>14. pc' \in [Proc -> Where] /\ pc[p] \notin UserPlaces /\ pc'[p] \notin UserPlaces
    BY <1>0, <2>3 DEF UserPlaces
  <2> QED
    BY <1>0, <2>3, <2>5, <2>10, <2>12, <2>13, <2>14, QuietStep
<1> QED
  BY <1>2, <1>3

LEMMA FindSlotStep ==
    ASSUME FInv, OneProcess, NEW p \in Proc, FindSlot(p)
    PROVE  FInv'
<1>0. /\ TypeOK /\ Private(p) /\ Saved(p) /\ loc[p] \in Locals
      /\ \A t \in Live : Extent(t) \subseteq free_map
      /\ \A t \in Linked : t \in Live /\ Extent(t) \subseteq disk_map
      /\ disk \in [Sector -> Value \cup InodeDisk] /\ free_map \subseteq Sector /\ disk_map \subseteq Sector
  BY Before, FilesysState
<1>1. PICK l \in Locals : l = loc[p]
  BY <1>0
<1>2. PICK k : k = Min({j \in 1..Slots : slots[j] = None} \cup {Slots + 1})
  OBVIOUS
<1>3. k \in 1..(Slots + 1) /\ (k <= Slots => slots[k] = None)
  <2>1. PICK free : free = {j \in 1..Slots : slots[j] = None} \cup {Slots + 1}
    OBVIOUS
  <2>2. free \subseteq Nat /\ free # {}
    BY <2>1, FilesysConstants
  <2>3. k \in free
    BY <1>2, <2>1, <2>2, MinIs
  <2> QED
    BY <2>1, <2>3, FilesysConstants
<1>4. PICK m : m = [l EXCEPT !.slot = k]
  OBVIOUS
<1>5. /\ pc[p] = "slot" /\ Goto(p, "entry") /\ Set(p, m)
      /\ UNCHANGED <<disk, disk_map, slots, free_map, inode, file, panic>>
  BY <1>1, <1>2, <1>4 DEF FindSlot, diskVars, memVars
<1>6. /\ m \in Locals /\ m.size = l.size /\ m.sector = l.sector /\ m.start = l.start /\ m.slot = k
      /\ m.name = l.name
  <2>1. k \in Nat
    BY <1>3, FilesysConstants
  <2> QED
    BY <1>4, <2>1, LocalsSlot
<1>7. pc' \in [Proc -> Where] /\ pc'[p] = "entry" /\ loc' \in [Proc -> Locals] /\ loc'[p] = m
  BY <1>0, <1>5, <1>6, GotoIs, SetIs DEF Where
<1>8. /\ Place(p) = "slot" /\ Place(p)' = "entry" /\ Data(p)' = Data(p)
      /\ Mine(p)' = Mine(p)
  BY <1>1, <1>5, <1>6, <1>7 DEF Place, Data, Mine, Bare, Building, Written
<1>9. Live' = Live /\ \A t \in Live : Extent(t)' = Extent(t)
  BY <1>5, ExtentsStay
<1>10. Private(p)'
  <2>1. Mine(p)' \subseteq free_map' /\ \A t \in Live' : Mine(p)' \cap Extent(t)' = {}
    BY <1>0, <1>5, <1>8, <1>9 DEF Private
  <2>2. /\ loc'[p].sector \notin Data(p)' /\ loc'[p].size \in Sizes /\ loc'[p].name \in Name
        /\ disk'[loc'[p].sector] = [start |-> loc'[p].start, length |-> loc'[p].size]
    BY <1>0, <1>1, <1>5, <1>6, <1>7, <1>8 DEF Private, Building, Written
  <2>3. loc'[p].slot \in 1..(Slots + 1) /\ (loc'[p].slot <= Slots => slots'[loc'[p].slot] = None)
    BY <1>3, <1>5, <1>6, <1>7
  <2> QED
    BY <2>1, <2>2, <2>3 DEF Private
<1>11. Saved(p)' /\ Looks(p)'
  BY <1>0, <1>5, <1>7, NoLooks DEF Saved, UserPlaces
<1> QED
  BY <1>0, <1>5, <1>7, <1>10, <1>11, QuietStep DEF UserPlaces

-----------------------------------------------------------------------------
(* The release of sectors, and the quiet steps of open, remove and write.  *)

\* free_map_release, by the process that has the sectors, and has no others after it.
LEMMA ReleaseStep ==
    ASSUME FInv, OneProcess, NEW p \in Proc, NEW sectors, sectors \subseteq Mine(p),
           pc[p] \in {"undo", "freedata"}, Release(p, sectors, loc[p], "user"),
           UNCHANGED <<diskVars, inode, file>>
    PROVE  FInv'
<1>0. /\ TypeOK /\ ~panic /\ loc[p] \in Locals
      /\ \A t \in Live : Extent(t) \subseteq free_map /\ Mine(p) \cap Extent(t) = {}
      /\ \A t \in Linked : t \in Live /\ Extent(t) \subseteq disk_map
      /\ disk \in [Sector -> Value \cup InodeDisk] /\ free_map \subseteq Sector /\ disk_map \subseteq Sector
      /\ Mine(p) \subseteq free_map
  BY Before, FilesysState
<1>1. /\ free_map' = free_map \ sectors /\ SaveMap(p, loc[p], "user")
      /\ UNCHANGED <<disk, disk_map, slots, inode, file, panic>>
  BY <1>0 DEF Release, diskVars
<1>2. /\ pc' \in [Proc -> Where] /\ pc'[p] = "map" /\ loc' \in [Proc -> Locals]
      /\ loc'[p].then = "user"
  BY <1>0, <1>1, SaveMapIs
<1>3. Private(p)' /\ Saved(p)' /\ Looks(p)'
  BY <1>2, NothingPrivate, NoLooks DEF Place, Bare, Building, Written, Saved, UserPlaces
<1>4. free_map' \subseteq Sector /\ \A t \in Live : Extent(t) \subseteq free_map'
  BY <1>0, <1>1
<1> QED
  BY <1>0, <1>1, <1>2, <1>3, <1>4, QuietStep DEF UserPlaces

LEMMA UndoStep ==
    ASSUME FInv, OneProcess, NEW p \in Proc, Undo(p)
    PROVE  FInv'
<1>1. /\ pc[p] = "undo" /\ Release(p, {loc[p].sector}, loc[p], "user")
      /\ UNCHANGED <<diskVars, inode, file>>
  BY DEF Undo
<1>2. {loc[p].sector} \subseteq Mine(p)
  BY <1>1 DEF Mine, Place, Bare
<1> QED
  BY <1>1, <1>2, ReleaseStep

LEMMA FreeDataStep ==
    ASSUME FInv, OneProcess, NEW p \in Proc, FreeData(p)
    PROVE  FInv'
<1>1. /\ pc[p] = "freedata" /\ Release(p, Data(p), loc[p], "user")
      /\ UNCHANGED <<diskVars, inode, file>>
  BY DEF FreeData, Data
<1>2. Data(p) \subseteq Mine(p)
  BY <1>1 DEF Mine, Place
<1> QED
  BY <1>1, <1>2, ReleaseStep

LEMMA FindStep ==
    ASSUME FInv, OneProcess, NEW p \in Proc, NEW n, NEW next \in {"open", "remove"}, Find(p, n, next)
    PROVE  FInv'
<1>0. /\ TypeOK /\ Saved(p)
      /\ \A t \in Live : Extent(t) \subseteq free_map
      /\ \A t \in Linked : t \in Live /\ t \in Sector /\ Extent(t) \subseteq disk_map
      /\ disk \in [Sector -> Value \cup InodeDisk] /\ free_map \subseteq Sector /\ disk_map \subseteq Sector
  BY Before, FilesysState
<1>1. PICK k : k = Min(Lookup(n))
  OBVIOUS
<1>2. PICK m : m = [Idle EXCEPT !.then = next, !.slot = k, !.sector = slots[k].sector]
  OBVIOUS
<1>3. /\ pc[p] = "user" /\ Lookup(n) # {} /\ Goto(p, "iopen") /\ Set(p, m)
      /\ UNCHANGED <<disk, disk_map, slots, free_map, inode, file, panic>>
  BY <1>1, <1>2 DEF Find, diskVars, memVars
<1>4. k \in 1..Slots /\ slots[k] # None /\ slots[k].sector \in Sector
  <2>1. Lookup(n) \subseteq Nat
    BY FilesysConstants DEF Lookup
  <2>2. k \in Lookup(n)
    BY <1>1, <1>3, <2>1, MinIs
  <2> QED
    BY <1>0, <2>2, LinkedIs DEF Lookup
<1>5. m \in Locals /\ m.then = next /\ m.slot = k /\ m.sector = slots[k].sector
  <2>1. k \in Nat
    BY <1>4, FilesysConstants
  <2> QED
    BY <1>2, <1>4, <2>1 DEF Idle, Locals
<1>6. pc' \in [Proc -> Where] /\ pc'[p] = "iopen" /\ loc' \in [Proc -> Locals] /\ loc'[p] = m
  BY <1>0, <1>3, <1>5, GotoIs, SetIs DEF Where
<1>7. Private(p)'
  BY <1>6, NothingPrivate DEF Place, Bare, Building, Written
<1>8. Saved(p)' /\ Looks(p)'
  BY <1>0, <1>3, <1>4, <1>5, <1>6 DEF Saved, Looks
<1> QED
  BY <1>0, <1>3, <1>6, <1>7, <1>8, QuietStep DEF UserPlaces

LEMMA InodeOpenFailsStep ==
    ASSUME FInv, OneProcess, NEW p \in Proc, InodeOpenFails(p)
    PROVE  FInv'
<1>0. /\ TypeOK /\ Saved(p)
      /\ \A t \in Live : Extent(t) \subseteq free_map
      /\ \A t \in Linked : Extent(t) \subseteq disk_map
      /\ disk \in [Sector -> Value \cup InodeDisk] /\ free_map \subseteq Sector /\ disk_map \subseteq Sector
  BY Before, FilesysState
<1>1. /\ pc[p] = "iopen" /\ Return(p)
      /\ UNCHANGED <<disk, disk_map, slots, free_map, inode, file, panic>>
  BY DEF InodeOpenFails, diskVars, memVars
<1>2. pc' \in [Proc -> Where] /\ pc'[p] = "user" /\ loc' \in [Proc -> Locals]
  BY <1>0, <1>1, ReturnIs
<1>3. Private(p)' /\ Saved(p)' /\ Looks(p)'
  BY <1>0, <1>1, <1>2, NothingPrivate, NoLooks
  DEF Place, Bare, Building, Written, Saved, UserPlaces
<1> QED
  BY <1>0, <1>1, <1>2, <1>3, QuietStep DEF UserPlaces

LEMMA WriteStep ==
    ASSUME FInv, OneProcess, NEW p \in Proc, NEW f \in File, NEW v \in Value, Write(p, f, v)
    PROVE  FInv'
<1>0. /\ TypeOK /\ Saved(p) /\ Owned /\ InodesAgree /\ FilesAreOpen /\ \A q \in Proc : q = p
      /\ \A t \in Live : /\ t \in Sector /\ t \in Extent(t) /\ Extent(t) \subseteq free_map
                        /\ disk[t] \in InodeDisk
      /\ \A t \in Linked : Extent(t) \subseteq disk_map
      /\ disk \in [Sector -> Value \cup InodeDisk] /\ free_map \subseteq Sector /\ disk_map \subseteq Sector
      /\ pc \in [Proc -> Where] /\ loc \in [Proc -> Locals]
      /\ file \in [File -> {None} \cup FileStruct]
  BY Before, FilesysState
<1>1. PICK i : i = file[f].inode
  OBVIOUS
<1>2. PICK k \in 0..inode[i].data.length - 1 :
        /\ pc[p] = "user" /\ file[f] # None /\ inode[i].data # None
        /\ disk' = [disk EXCEPT ![inode[i].data.start + k] = v]
        /\ UNCHANGED <<disk_map, slots, free_map, inode, file, pc, loc, panic>>
  BY <1>1 DEF Write, memVars
<1>3. i \in Inode /\ inode[i] # None
  BY <1>0, <1>1, <1>2 DEF FileStruct, FilesAreOpen
<1>4. PICK s : s = inode[i].sector
  OBVIOUS
<1>5. s \in Live /\ inode[i].data = disk[s]
  <2>1. inode[i].data = disk[s] \/ \E q \in Users(i) : pc[q] = "iread"
    BY <1>0, <1>3, <1>4 DEF InodesAgree
  <2>2. \A q \in Users(i) : pc[q] # "iread"
    BY <1>0, <1>2 DEF Users
  <2> QED
    BY <1>3, <1>4, <2>1, <2>2, LinkedIs DEF Live
<1>6. PICK d : d = inode[i].data.start + k
  OBVIOUS
<1>7. d \in Extent(s) /\ d # s /\ d \in Sector
  <2>1. disk[s].start \in Nat /\ disk[s].length \in Nat
    <3>1. disk[s].start \in Sector \cup {0} /\ disk[s].length \in Sizes
      BY <1>0, <1>5 DEF InodeDisk
    <3> QED
      BY <3>1, Numbers
  <2>2. d \in Run(disk[s].start, disk[s].length)
    BY <1>2, <1>5, <1>6, <2>1 DEF Run
  <2> QED
    BY <1>0, <1>5, <2>2 DEF Owned, Extent
<1>8. d \notin Live
  BY <1>0, <1>5, <1>7 DEF Owned
<1>9. disk' \in [Sector -> Value \cup InodeDisk] /\ \A t \in Live : disk'[t] = disk[t]
  BY <1>0, <1>2, <1>6, <1>7, <1>8
<1>10. Private(p)' /\ Saved(p)' /\ Looks(p)'
  BY <1>0, <1>2, NothingPrivate, NoLooks DEF Place, Bare, Building, Written, Saved, UserPlaces
<1> QED
  BY <1>0, <1>2, <1>9, <1>10, QuietStep DEF UserPlaces

-----------------------------------------------------------------------------
(* The counts of an open inode.                                            *)

\* The users of an inode are the one process, or nobody.
LEMMA UsersAre ==
    ASSUME OneProcess, NEW p \in Proc, NEW i
    PROVE  /\ Users(i) = IF pc[p] \in UserPlaces /\ loc[p].ino = i THEN {p} ELSE {}
           /\ Users(i)' = IF pc'[p] \in UserPlaces /\ loc'[p].ino = i THEN {p} ELSE {}
           /\ Cardinality({p}) = 1 /\ Cardinality({}) = 0
<1>1. \A q \in Proc : q = p
  BY DEF OneProcess
<1>2. Users(i) = IF pc[p] \in UserPlaces /\ loc[p].ino = i THEN {p} ELSE {}
  BY <1>1 DEF Users, UserPlaces
<1>3. Users(i)' = IF pc'[p] \in UserPlaces /\ loc'[p].ino = i THEN {p} ELSE {}
  BY <1>1 DEF Users, UserPlaces
<1>4. Cardinality({p}) = 1
  BY FS_Singleton
<1>5. Cardinality({}) = 0
  BY FS_EmptySet
<1> QED
  BY <1>2, <1>3, <1>4, <1>5

\* The files that have inode i open and deny its writing.
Denying(i) == {f \in Openers(i) : file[f].deny_write}

LEMMA OpenersAre ==
    ASSUME NEW i
    PROVE  /\ IsFiniteSet(Openers(i)) /\ IsFiniteSet(Denying(i))
           /\ Cardinality(Openers(i)) \in Nat /\ Cardinality(Denying(i)) \in Nat
           /\ Openers(i) \subseteq File /\ Denying(i) \subseteq File
           /\ \A f : f \in Openers(i) <=> f \in File /\ file[f] # None /\ file[f].inode = i
           /\ \A f : f \in Openers(i)' <=> f \in File /\ file'[f] # None /\ file'[f].inode = i
           /\ \A f : f \in Denying(i) <=> f \in Openers(i) /\ file[f].deny_write
           /\ \A f : f \in Denying(i)' <=> f \in Openers(i)' /\ file'[f].deny_write
<1>1. Openers(i) \subseteq File /\ Denying(i) \subseteq File
  BY DEF Openers, Denying
<1>2. IsFiniteSet(Openers(i)) /\ IsFiniteSet(Denying(i))
  BY <1>1, FileAssumption, FS_Subset
<1>3. Cardinality(Openers(i)) \in Nat /\ Cardinality(Denying(i)) \in Nat
  BY <1>2, FS_CardinalityType
<1>4. /\ \A f : f \in Openers(i) <=> f \in File /\ file[f] # None /\ file[f].inode = i
      /\ \A f : f \in Openers(i)' <=> f \in File /\ file'[f] # None /\ file'[f].inode = i
  BY DEF Openers
<1>5. /\ \A f : f \in Denying(i) <=> f \in Openers(i) /\ file[f].deny_write
      /\ \A f : f \in Denying(i)' <=> f \in Openers(i)' /\ file'[f].deny_write
  BY DEF Denying
<1> QED
  BY <1>1, <1>2, <1>3, <1>4, <1>5

\* What InodesAgree says of one inode.
Agrees(i) ==
    /\ inode[i].open_cnt = Cardinality(Openers(i)) + Cardinality(Users(i))
    /\ inode[i].deny_write_cnt = Cardinality(Denying(i))
    /\ inode[i].removed <=> inode[i].sector \notin Linked
    /\ inode[i].data = disk[inode[i].sector] \/ \E p \in Users(i) : pc[p] = "iread"

Distinct == \A i, j \in Inode : inode[i] # None /\ inode[j] # None /\ inode[i].sector = inode[j].sector
                                  => i = j

LEMMA AgreeIs ==
    /\ InodesAgree <=> Distinct /\ \A i \in Inode : inode[i] # None => Agrees(i)
    /\ InodesAgree' <=> Distinct' /\ \A i \in Inode : inode'[i] # None => Agrees(i)'
<1>1. InodesAgree <=> Distinct /\ \A i \in Inode : inode[i] # None => Agrees(i)
  BY DEF InodesAgree, Distinct, Agrees, Denying
<1>2. InodesAgree' <=> Distinct' /\ \A i \in Inode : inode'[i] # None => Agrees(i)'
  BY DEF InodesAgree, Distinct, Agrees, Denying
<1> QED
  BY <1>1, <1>2

\* A step of the process at inode i only.
LEMMA OneInode ==
    ASSUME FInv, OneProcess, NEW p \in Proc, NEW i \in Inode, disk' = disk,
           pc[p] \in UserPlaces => loc[p].ino = i, pc'[p] \in UserPlaces => loc'[p].ino = i,
           \A j \in Inode \ {i} :
               /\ inode'[j] = inode[j]
               /\ inode[j] # None => /\ Openers(j)' = Openers(j) /\ Denying(j)' = Denying(j)
                                     /\ inode[j].sector \in Linked' <=> inode[j].sector \in Linked,
           inode'[i] # None =>
               /\ \A j \in Inode \ {i} : inode[j] # None => inode[j].sector # inode'[i].sector
               /\ Agrees(i)'
    PROVE  InodesAgree'
<1>0. Distinct /\ \A j \in Inode : inode[j] # None => Agrees(j)
  BY Before, AgreeIs
<1>1. Distinct'
  BY <1>0 DEF Distinct
<1>2. ASSUME NEW j \in Inode \ {i}, inode'[j] # None PROVE Agrees(j)'
  <2>1. Users(j) = {} /\ Users(j)' = {}
    BY UsersAre
  <2>2. /\ inode'[j] = inode[j] /\ Openers(j)' = Openers(j) /\ Denying(j)' = Denying(j)
        /\ inode[j].sector \in Linked' <=> inode[j].sector \in Linked
    BY <1>2
  <2>3. Agrees(j)
    BY <1>0, <1>2, <2>2
  <2>4. inode[j].data = disk[inode[j].sector]
    BY <2>1, <2>3 DEF Agrees
  <2> QED
    BY <2>1, <2>2, <2>3, <2>4 DEF Agrees
<1> QED
  BY <1>1, <1>2, AgreeIs

\* A step that opens or closes: the files, or fewer, keep their sectors.
LEMMA OpenStep ==
    ASSUME FInv, OneProcess, NEW p \in Proc, UNCHANGED <<disk, disk_map, slots, panic>>,
           pc' \in [Proc -> Where], loc' \in [Proc -> Locals], free_map' \subseteq Sector,
           inode' \in [Inode -> {None} \cup InodeStruct],
           file' \in [File -> {None} \cup FileStruct],
           Live' \subseteq Live, \A s \in Live' : Extent(s) \subseteq free_map',
           InodesAgree', FilesAreOpen', Private(p)', Saved(p)', Looks(p)'
    PROVE  FInv'
<1>0. TypeOK /\ Owned /\ NamedOnce /\ ~panic /\ \A s \in Linked : Extent(s) \subseteq disk_map
  BY Before
<1>1. TypeOK'
  BY <1>0 DEF TypeOK
<1>2. Linked' = Linked
  BY DEF Linked
<1>3. Owned'
  BY <1>0, <1>2, OwnedKept
<1>4. NamedOnce'
  BY <1>0 DEF NamedOnce
<1>5. Places'
  BY PlacesOfOne
<1> QED
  BY <1>0, <1>1, <1>3, <1>4, <1>5 DEF FInv

\* The state of one that opens or closes.
LEMMA AtInode ==
    ASSUME FInv, OneProcess, NEW p \in Proc, pc[p] \in UserPlaces \cup {"iopen", "user"}
    PROVE  /\ TypeOK /\ Looks(p) /\ InodesAgree /\ Distinct /\ FilesAreOpen /\ ~panic
           /\ \A i \in Inode : inode[i] # None => Agrees(i)
           /\ \A t \in Live : t \in Sector /\ Extent(t) \subseteq free_map
           /\ \A t \in Linked : t \in Live
           /\ \A i \in Inode : inode[i] # None => inode[i].sector \in Live
           /\ disk_map = free_map /\ free_map \subseteq Sector
           /\ pc \in [Proc -> Where] /\ loc \in [Proc -> Locals] /\ loc[p] \in Locals
           /\ inode \in [Inode -> {None} \cup InodeStruct]
           /\ file \in [File -> {None} \cup FileStruct]
           /\ slots \in [1..Slots -> {None} \cup Entry]
           /\ None \notin InodeStruct /\ None \notin FileStruct
<1>1. /\ TypeOK /\ Looks(p) /\ Saved(p) /\ InodesAgree /\ FilesAreOpen /\ ~panic
      /\ \A t \in Live : t \in Sector /\ Extent(t) \subseteq free_map
      /\ \A t \in Linked : t \in Live
  BY Before
<1>2. Distinct /\ \A i \in Inode : inode[i] # None => Agrees(i)
  BY <1>1, AgreeIs
<1>3. \A i \in Inode : inode[i] # None => inode[i].sector \in Live
  BY LinkedIs DEF Live
<1>4. disk_map = free_map
  BY <1>1 DEF Saved, UserPlaces
<1>5. /\ free_map \subseteq Sector
      /\ pc \in [Proc -> Where] /\ loc \in [Proc -> Locals] /\ loc[p] \in Locals
      /\ inode \in [Inode -> {None} \cup InodeStruct]
      /\ file \in [File -> {None} \cup FileStruct]
      /\ slots \in [1..Slots -> {None} \cup Entry]
  BY <1>1, FilesysState
<1>6. None \notin InodeStruct /\ None \notin FileStruct
  BY FilesysConstants
<1> QED
  BY <1>1, <1>2, <1>3, <1>4, <1>5, <1>6

\* The struct of an open inode, and its fields.
LEMMA InodeIs ==
    ASSUME TypeOK, NEW i \in Inode, inode[i] # None
    PROVE  /\ inode[i] \in InodeStruct /\ inode[i].sector \in Sector
           /\ inode[i].open_cnt \in Nat \ {0} /\ inode[i].deny_write_cnt \in Nat
           /\ inode[i].removed \in BOOLEAN /\ inode[i].data \in {None} \cup InodeDisk
           /\ inode[i] = [sector |-> inode[i].sector, open_cnt |-> inode[i].open_cnt,
                          deny_write_cnt |-> inode[i].deny_write_cnt,
                          removed |-> inode[i].removed, data |-> inode[i].data]
<1>1. inode[i] \in InodeStruct
  BY FilesysState
<1> QED
  BY <1>1 DEF InodeStruct

LEMMA FileIs ==
    ASSUME FInv, NEW f \in File, file[f] # None
    PROVE  /\ file[f] \in FileStruct /\ file[f].inode \in Inode /\ file[f].deny_write \in BOOLEAN
           /\ inode[file[f].inode] # None
<1>1. TypeOK /\ FilesAreOpen
  BY DEF FInv
<1>2. file[f] \in FileStruct
  BY <1>1, FilesysState
<1>3. file[f].inode \in Inode /\ file[f].deny_write \in BOOLEAN
  BY <1>2 DEF FileStruct
<1> QED
  BY <1>1, <1>2, <1>3 DEF FilesAreOpen

LEMMA FilesStay ==
    ASSUME FInv, file' = file, \A i \in Inode : inode[i] # None => inode'[i] # None
    PROVE  FilesAreOpen'
<1> SUFFICES ASSUME NEW f \in File, file[f] # None PROVE inode'[file[f].inode] # None
  BY DEF FilesAreOpen
<1> QED
  BY FileIs

\* Another value of the struct of an open inode of the same sector.
LEMMA InodeSet ==
    ASSUME TypeOK, NEW i \in Inode, inode[i] # None, slots' = slots,
           NEW r \in InodeStruct, r.sector = inode[i].sector, inode' = [inode EXCEPT ![i] = r]
    PROVE  /\ inode' \in [Inode -> {None} \cup InodeStruct]
           /\ inode'[i] = r /\ inode'[i] # None
           /\ \A j \in Inode \ {i} : inode'[j] = inode[j]
           /\ Linked' = Linked /\ Live' = Live
<1>1. inode \in [Inode -> {None} \cup InodeStruct] /\ None \notin InodeStruct
  BY FilesysState, FilesysConstants
<1>2. /\ inode' \in [Inode -> {None} \cup InodeStruct] /\ inode'[i] = r /\ inode'[i] # None
      /\ \A j \in Inode \ {i} : inode'[j] = inode[j]
  BY <1>1
<1>3. \A j \in Inode : inode'[j] # None <=> inode[j] # None
  BY <1>2
<1>4. \A j \in Inode : inode'[j].sector = inode[j].sector
  BY <1>2
<1>5. Linked' = Linked
  BY DEF Linked
<1>6. Opened' = Opened
  BY <1>3, <1>4 DEF Opened
<1> QED
  BY <1>2, <1>5, <1>6 DEF Live
-----------------------------------------------------------------------------
(* inode_open and file_open.                                               *)

LEMMA InodeOpenStep ==
    ASSUME FInv, OneProcess, NEW p \in Proc, InodeOpen(p)
    PROVE  FInv'
<1>0. pc[p] = "iopen" /\ UNCHANGED <<disk, disk_map, slots, free_map, file, panic>>
  BY DEF InodeOpen, diskVars
<1>1. /\ TypeOK /\ Looks(p) /\ FilesAreOpen /\ Distinct
      /\ \A i \in Inode : inode[i] # None => Agrees(i)
      /\ \A t \in Live : Extent(t) \subseteq free_map
      /\ disk_map = free_map /\ free_map \subseteq Sector
      /\ inode \in [Inode -> {None} \cup InodeStruct]
      /\ file \in [File -> {None} \cup FileStruct]
      /\ None \notin InodeStruct
  BY <1>0, AtInode
<1>2. PICK l \in Locals : l = loc[p]
  BY <1>1, FilesysState
<1>3. /\ l.slot \in 1..Slots /\ slots[l.slot] # None /\ slots[l.slot].sector = l.sector
      /\ l.then \in {"open", "remove"} /\ l.sector \in Linked
  BY <1>0, <1>1, <1>2, LinkedIs DEF Looks
<1>4. PICK old : old = OpenInode(l.sector)
  OBVIOUS
<1>5. \A i : i \in old <=> i \in Inode /\ inode[i] # None /\ inode[i].sector = l.sector
  BY <1>4 DEF OpenInode
<1>6. l.sector \in Sector /\ l.sector \in Live /\ Inode \subseteq Nat
  BY <1>3, Before, FilesysConstants
<1>7. CASE old # {}
  <2>1. PICK i : i = Min(old)
    OBVIOUS
  <2>2. i \in Inode /\ inode[i] # None /\ inode[i].sector = l.sector
    <3>1. i \in old
      BY <1>5, <1>6, <1>7, <2>1, MinIs
    <3> QED
      BY <1>5, <3>1
  <2>3. PICK m : m = [l EXCEPT !.ino = i]
    OBVIOUS
  <2>4. PICK r : r = [inode[i] EXCEPT !.open_cnt = @ + 1]
    OBVIOUS
  <2>5. inode' = [inode EXCEPT ![i] = r] /\ Set(p, m) /\ Goto(p, l.then)
    BY <1>2, <1>4, <1>7, <2>1, <2>3, <2>4 DEF InodeOpen
  <2>6. m \in Locals /\ m.ino = i /\ m.slot = l.slot /\ m.sector = l.sector /\ m.then = l.then
    BY <2>2, <2>3, LocalsIno
  <2>7. /\ r \in InodeStruct /\ r.sector = l.sector /\ r.open_cnt = inode[i].open_cnt + 1
        /\ r.deny_write_cnt = inode[i].deny_write_cnt /\ r.removed = inode[i].removed
        /\ r.data = inode[i].data
    BY <1>1, <2>2, <2>4, InodeIs DEF InodeStruct
  <2>8. /\ inode' \in [Inode -> {None} \cup InodeStruct] /\ inode'[i] = r /\ inode'[i] # None
        /\ \A j \in Inode \ {i} : inode'[j] = inode[j]
        /\ Linked' = Linked /\ Live' = Live
    BY <1>0, <1>1, <2>2, <2>5, <2>7, InodeSet
  <2>9. /\ pc' \in [Proc -> Where] /\ pc'[p] = l.then /\ loc' \in [Proc -> Locals] /\ loc'[p] = m
    BY <1>1, <1>3, <2>5, <2>6, GotoIs, SetIs DEF Where
  <2>10. \A j \in Inode : Openers(j)' = Openers(j) /\ Denying(j)' = Denying(j)
    BY <1>0 DEF Openers, Denying
  <2>11. Agrees(i)'
    <3>1. Agrees(i) /\ Users(i) = {} /\ Users(i)' = {p} /\ Cardinality({p}) = 1
          /\ Cardinality({}) = 0
      BY <1>0, <1>1, <1>3, <2>2, <2>6, <2>9, UsersAre DEF UserPlaces
    <3>2. inode[i].open_cnt = Cardinality(Openers(i)) /\ Cardinality(Openers(i)) \in Nat
      BY <3>1, OpenersAre DEF Agrees
    <3>3. r.open_cnt = Cardinality(Openers(i)') + Cardinality(Users(i)')
      BY <2>2, <2>7, <2>10, <3>1, <3>2
    <3>4. inode[i].data = disk[inode[i].sector]
      BY <3>1 DEF Agrees
    <3>5. /\ r.deny_write_cnt = Cardinality(Denying(i)')
          /\ r.removed <=> r.sector \notin Linked'
          /\ r.data = disk'[r.sector]
      BY <1>0, <2>2, <2>7, <2>8, <2>10, <3>1, <3>4 DEF Agrees
    <3> QED
      BY <2>8, <3>3, <3>5 DEF Agrees
  <2>12. \A j \in Inode \ {i} : inode[j] # None => inode[j].sector # inode'[i].sector
    BY <1>1, <2>2, <2>7, <2>8 DEF Distinct
  <2>13. InodesAgree'
    BY <1>0, <2>2, <2>6, <2>8, <2>9, <2>10, <2>11, <2>12, OneInode DEF UserPlaces
  <2>14. FilesAreOpen'
    BY <1>0, <2>8, FilesStay
  <2>15. Private(p)' /\ Saved(p)'
    BY <1>0, <1>1, <1>3, <2>9, NothingPrivate DEF Place, Bare, Building, Written, Saved
  <2>16. Looks(p)'
    BY <1>0, <1>3, <2>2, <2>6, <2>7, <2>8, <2>9 DEF Looks
  <2> QED
    BY <1>0, <1>1, <2>8, <2>9, <2>13, <2>14, <2>15, <2>16, OpenStep
<1>8. CASE old = {}
  <2>1. PICK new : new = {i \in Inode : inode[i] = None}
    OBVIOUS
  <2>2. PICK i : i = Min(new)
    OBVIOUS
  <2>3. PICK m : m = [l EXCEPT !.ino = i]
    OBVIOUS
  <2>4. PICK r : r = [sector |-> l.sector, open_cnt |-> 1, deny_write_cnt |-> 0,
                      removed |-> FALSE, data |-> None]
    OBVIOUS
  <2>5. new # {} /\ inode' = [inode EXCEPT ![i] = r] /\ Set(p, m) /\ Goto(p, "iread")
    BY <1>2, <1>4, <1>8, <2>1, <2>2, <2>3, <2>4 DEF InodeOpen
  <2>6. i \in Inode /\ inode[i] = None
    <3>1. new \subseteq Nat
      BY <1>6, <2>1
    <3>2. i \in new
      BY <2>2, <2>5, <3>1, MinIs
    <3> QED
      BY <2>1, <3>2
  <2>7. m \in Locals /\ m.ino = i /\ m.slot = l.slot /\ m.sector = l.sector /\ m.then = l.then
    BY <2>3, <2>6, LocalsIno
  <2>8. /\ r \in InodeStruct /\ r.sector = l.sector /\ r.open_cnt = 1 /\ r.deny_write_cnt = 0
        /\ r.removed = FALSE /\ r.data = None
    BY <1>6, <2>4 DEF InodeStruct
  <2>9. /\ inode' \in [Inode -> {None} \cup InodeStruct] /\ inode'[i] = r /\ inode'[i] # None
        /\ \A j \in Inode \ {i} : inode'[j] = inode[j]
    BY <1>1, <2>5, <2>6, <2>8
  <2>10. Linked' = Linked /\ \A t \in Live' : t \in Live
    <3>1. Linked' = Linked
      BY <1>0 DEF Linked
    <3>2. \A t : t \in Opened' => \E j \in Inode : inode'[j] # None /\ inode'[j].sector = t
      BY DEF Opened
    <3>3. ASSUME NEW t, t \in Opened' PROVE t \in Live
      <4>1. PICK j \in Inode : inode'[j] # None /\ inode'[j].sector = t
        BY <3>2, <3>3
      <4>2. CASE j = i
        BY <1>6, <2>8, <2>9, <4>1, <4>2
      <4>3. CASE j # i
        BY <2>9, <4>1, <4>3, LinkedIs DEF Live
      <4> QED
        BY <4>2, <4>3
    <3> QED
      BY <3>1, <3>3 DEF Live
  <2>11. /\ pc' \in [Proc -> Where] /\ pc'[p] = "iread" /\ loc' \in [Proc -> Locals]
         /\ loc'[p] = m
    BY <1>1, <2>5, <2>7, GotoIs, SetIs DEF Where
  <2>12. \A j \in Inode : Openers(j)' = Openers(j) /\ Denying(j)' = Denying(j)
    BY <1>0 DEF Openers, Denying
  <2>13. Agrees(i)'
    <3>1. Openers(i) = {} /\ Denying(i) = {}
      BY <1>1, <2>6 DEF FilesAreOpen, Openers, Denying
    <3>2. Users(i)' = {p} /\ Cardinality({p}) = 1 /\ Cardinality({}) = 0
      BY <2>7, <2>11, UsersAre DEF UserPlaces
    <3>3. r.open_cnt = Cardinality(Openers(i)') + Cardinality(Users(i)')
      BY <2>6, <2>8, <2>12, <3>1, <3>2
    <3>4. /\ r.deny_write_cnt = Cardinality(Denying(i)')
          /\ r.removed <=> r.sector \notin Linked'
          /\ \E q \in Users(i)' : pc'[q] = "iread"
      BY <1>3, <2>6, <2>8, <2>10, <2>11, <2>12, <3>1, <3>2
    <3> QED
      BY <2>9, <3>3, <3>4 DEF Agrees
  <2>14. \A j \in Inode \ {i} : inode[j] # None => inode[j].sector # inode'[i].sector
    BY <1>5, <1>8, <2>8, <2>9
  <2>15. InodesAgree'
    BY <1>0, <2>6, <2>7, <2>9, <2>10, <2>11, <2>12, <2>13, <2>14, OneInode DEF UserPlaces
  <2>16. FilesAreOpen'
    BY <1>0, <2>6, <2>9, FilesStay
  <2>17. Private(p)' /\ Saved(p)'
    BY <1>0, <1>1, <2>11, NothingPrivate DEF Place, Bare, Building, Written, Saved
  <2>18. Looks(p)'
    BY <1>0, <1>3, <2>6, <2>7, <2>8, <2>9, <2>11 DEF Looks
  <2> QED
    BY <1>0, <1>1, <2>9, <2>10, <2>11, <2>15, <2>16, <2>17, <2>18, OpenStep
<1> QED
  BY <1>7, <1>8

LEMMA InodeReadStep ==
    ASSUME FInv, OneProcess, NEW p \in Proc, InodeRead(p)
    PROVE  FInv'
<1>0. pc[p] = "iread" /\ UNCHANGED <<disk, disk_map, slots, free_map, file, loc, panic>>
  BY DEF InodeRead, diskVars
<1>1. /\ TypeOK /\ Looks(p) /\ Distinct
      /\ \A i \in Inode : inode[i] # None => Agrees(i)
      /\ \A t \in Live : Extent(t) \subseteq free_map
      /\ disk_map = free_map /\ free_map \subseteq Sector /\ loc \in [Proc -> Locals]
      /\ file \in [File -> {None} \cup FileStruct]
  BY <1>0, AtInode DEF UserPlaces
<1>2. PICK l \in Locals : l = loc[p]
  BY <1>1
<1>3. PICK i : i = l.ino
  OBVIOUS
<1>4. /\ l.slot \in 1..Slots /\ slots[l.slot] # None /\ slots[l.slot].sector = l.sector
      /\ l.then \in {"open", "remove"} /\ i \in Inode /\ inode[i] # None
      /\ inode[i].sector = l.sector
  BY <1>0, <1>1, <1>2, <1>3 DEF Looks
<1>5. disk[l.sector] \in InodeDisk
  BY <1>4, LinkedIs, Before
<1>6. PICK r : r = [inode[i] EXCEPT !.data = disk[l.sector]]
  OBVIOUS
<1>7. inode' = [inode EXCEPT ![i] = r] /\ Goto(p, l.then)
  BY <1>2, <1>3, <1>6 DEF InodeRead
<1>8. /\ r \in InodeStruct /\ r.sector = l.sector /\ r.open_cnt = inode[i].open_cnt
      /\ r.deny_write_cnt = inode[i].deny_write_cnt /\ r.removed = inode[i].removed
      /\ r.data = disk[l.sector]
  BY <1>1, <1>4, <1>5, <1>6, InodeIs DEF InodeStruct
<1>9. /\ inode' \in [Inode -> {None} \cup InodeStruct] /\ inode'[i] = r /\ inode'[i] # None
      /\ \A j \in Inode \ {i} : inode'[j] = inode[j]
      /\ Linked' = Linked /\ Live' = Live
  BY <1>0, <1>1, <1>4, <1>7, <1>8, InodeSet
<1>10. pc' \in [Proc -> Where] /\ pc'[p] = l.then /\ loc'[p] = l
  BY <1>0, <1>1, <1>2, <1>4, <1>7, GotoIs DEF Where
<1>11. \A j \in Inode : Openers(j)' = Openers(j) /\ Denying(j)' = Denying(j)
  BY <1>0 DEF Openers, Denying
<1>12. Agrees(i)'
  <2>1. Agrees(i) /\ Users(i)' = Users(i)
    BY <1>0, <1>1, <1>2, <1>3, <1>4, <1>10, UsersAre DEF UserPlaces
  <2>2. /\ r.open_cnt = Cardinality(Openers(i)') + Cardinality(Users(i)')
        /\ r.deny_write_cnt = Cardinality(Denying(i)')
        /\ r.removed <=> r.sector \notin Linked'
        /\ r.data = disk'[r.sector]
    BY <1>0, <1>4, <1>8, <1>9, <1>11, <2>1 DEF Agrees
  <2> QED
    BY <1>9, <2>2 DEF Agrees
<1>13. \A j \in Inode \ {i} : inode[j] # None => inode[j].sector # inode'[i].sector
  BY <1>1, <1>4, <1>8, <1>9 DEF Distinct
<1>14. InodesAgree'
  BY <1>0, <1>2, <1>3, <1>4, <1>9, <1>10, <1>11, <1>12, <1>13, OneInode DEF UserPlaces
<1>15. FilesAreOpen'
  BY <1>0, <1>9, FilesStay
<1>16. Private(p)' /\ Saved(p)'
  BY <1>0, <1>1, <1>4, <1>10, NothingPrivate DEF Place, Bare, Building, Written, Saved
<1>17. Looks(p)'
  BY <1>0, <1>3, <1>4, <1>8, <1>9, <1>10 DEF Looks
<1> QED
  BY <1>0, <1>1, <1>9, <1>10, <1>14, <1>15, <1>16, <1>17, OpenStep

LEMMA FileOpenStep ==
    ASSUME FInv, OneProcess, NEW p \in Proc, NEW f \in File, FileOpen(p, f)
    PROVE  FInv'
<1>0. /\ pc[p] = "open" /\ file[f] = None /\ Return(p)
      /\ UNCHANGED <<disk, disk_map, slots, free_map, inode, panic>>
  BY DEF FileOpen, diskVars
<1>1. /\ TypeOK /\ Looks(p) /\ Distinct /\ FilesAreOpen
      /\ \A i \in Inode : inode[i] # None => Agrees(i)
      /\ \A t \in Live : Extent(t) \subseteq free_map
      /\ disk_map = free_map /\ free_map \subseteq Sector
      /\ inode \in [Inode -> {None} \cup InodeStruct]
      /\ file \in [File -> {None} \cup FileStruct] /\ None \notin FileStruct
  BY <1>0, AtInode DEF UserPlaces
<1>2. PICK i : i = loc[p].ino
  OBVIOUS
<1>3. i \in Inode /\ inode[i] # None
  BY <1>0, <1>1, <1>2 DEF Looks
<1>4. PICK r : r = [inode |-> i, deny_write |-> FALSE]
  OBVIOUS
<1>5. file' = [file EXCEPT ![f] = r] /\ r \in FileStruct /\ r.inode = i /\ r.deny_write = FALSE
  BY <1>2, <1>3, <1>4 DEF FileOpen, FileStruct
<1>6. /\ file' \in [File -> {None} \cup FileStruct] /\ file'[f] = r /\ file'[f] # None
      /\ \A g \in File \ {f} : file'[g] = file[g]
  BY <1>1, <1>5
<1>7. pc' \in [Proc -> Where] /\ pc'[p] = "user" /\ loc' \in [Proc -> Locals]
  BY <1>0, <1>1, ReturnIs
<1>8. Live' = Live /\ Linked' = Linked
  BY <1>0 DEF Live, Linked, Opened
<1>9. \A j \in Inode \ {i} : Openers(j)' = Openers(j) /\ Denying(j)' = Denying(j)
  BY <1>0, <1>5, <1>6 DEF Openers, Denying
<1>10. f \notin Openers(i) /\ Openers(i)' = Openers(i) \cup {f} /\ Denying(i)' = Denying(i)
  BY <1>0, <1>5, <1>6 DEF Openers, Denying
<1>11. Agrees(i)'
  <2>1. Agrees(i) /\ Users(i) = {p} /\ Users(i)' = {} /\ Cardinality({p}) = 1
        /\ Cardinality({}) = 0
    BY <1>0, <1>1, <1>2, <1>3, <1>7, UsersAre DEF UserPlaces
  <2>2. Cardinality(Openers(i)') = Cardinality(Openers(i)) + 1
    BY <1>10, OpenersAre, FS_AddElement, ZenonT(30)
  <2>3. inode[i].open_cnt = Cardinality(Openers(i)) + 1
    BY <2>1 DEF Agrees
  <2>4. inode[i].open_cnt = Cardinality(Openers(i)') + Cardinality(Users(i)')
    BY <2>1, <2>2, <2>3, OpenersAre
  <2>5. inode[i].data = disk[inode[i].sector]
    BY <1>0, <2>1 DEF Agrees
  <2>6. inode[i].deny_write_cnt = Cardinality(Denying(i)')
    BY <1>10, <2>1 DEF Agrees
  <2> QED
    BY <1>0, <1>8, <2>1, <2>4, <2>5, <2>6 DEF Agrees
<1>12. \A j \in Inode \ {i} : inode[j] # None => inode[j].sector # inode'[i].sector
  BY <1>0, <1>1, <1>3 DEF Distinct
<1>13. InodesAgree'
  BY <1>0, <1>2, <1>3, <1>7, <1>8, <1>9, <1>11, <1>12, OneInode DEF UserPlaces
<1>14. FilesAreOpen'
  BY <1>0, <1>1, <1>3, <1>5, <1>6 DEF FilesAreOpen
<1>15. Private(p)' /\ Saved(p)' /\ Looks(p)'
  BY <1>0, <1>1, <1>7, NothingPrivate, NoLooks
  DEF Place, Bare, Building, Written, Saved, UserPlaces
<1> QED
  BY <1>0, <1>1, <1>6, <1>7, <1>8, <1>13, <1>14, <1>15, OpenStep

LEMMA CloseNextIs ==
    ASSUME TypeOK, NEW p \in Proc, NEW i \in Inode, CloseNext(p, i)
    PROVE  /\ pc' \in [Proc -> Where] /\ pc'[p] = "close"
           /\ loc' \in [Proc -> Locals] /\ loc'[p].ino = i
<1>1. PICK m : m = [Idle EXCEPT !.ino = i]
  OBVIOUS
<1>2. Goto(p, "close") /\ Set(p, m)
  BY <1>1 DEF CloseNext
<1>3. m \in Locals /\ m.ino = i
  BY <1>1, FilesysConstants DEF Idle, Locals
<1>4. pc' \in [Proc -> Where] /\ pc'[p] = "close"
  BY <1>2, GotoIs DEF Where
<1>5. loc' \in [Proc -> Locals] /\ loc'[p] = m
  BY <1>2, <1>3, SetIs
<1> QED
  BY <1>3, <1>4, <1>5

\* A process on its way to inode_close.
LEMMA Closing ==
    ASSUME NEW p, pc'[p] = "close", disk_map' = free_map', loc'[p].ino \in Inode,
           inode'[loc'[p].ino] # None
    PROVE  Private(p)' /\ Saved(p)' /\ Looks(p)'
<1>1. Private(p)'
  BY NothingPrivate DEF Place, Bare, Building, Written
<1> QED
  BY <1>1 DEF Saved, Looks

LEMMA FileOpenFailsStep ==
    ASSUME FInv, OneProcess, NEW p \in Proc, FileOpenFails(p)
    PROVE  FInv'
<1>0. /\ pc[p] = "open" /\ CloseNext(p, loc[p].ino)
      /\ UNCHANGED <<disk, disk_map, slots, free_map, inode, file, panic>>
  BY DEF FileOpenFails, diskVars, memVars
<1>1. /\ TypeOK /\ Looks(p) /\ Distinct
      /\ \A i \in Inode : inode[i] # None => Agrees(i)
      /\ \A t \in Live : Extent(t) \subseteq free_map
      /\ disk_map = free_map /\ free_map \subseteq Sector
      /\ inode \in [Inode -> {None} \cup InodeStruct]
      /\ file \in [File -> {None} \cup FileStruct]
  BY <1>0, AtInode DEF UserPlaces
<1>2. PICK i : i = loc[p].ino
  OBVIOUS
<1>3. i \in Inode /\ inode[i] # None
  BY <1>0, <1>1, <1>2 DEF Looks
<1>4. /\ pc' \in [Proc -> Where] /\ pc'[p] = "close" /\ loc' \in [Proc -> Locals]
      /\ loc'[p].ino = i
  BY <1>0, <1>1, <1>2, <1>3, CloseNextIs
<1>5. Live' = Live /\ Linked' = Linked
  BY <1>0 DEF Live, Linked, Opened
<1>6. \A j \in Inode : Openers(j)' = Openers(j) /\ Denying(j)' = Denying(j)
  BY <1>0 DEF Openers, Denying
<1>7. Agrees(i)'
  <2>1. Agrees(i) /\ Users(i) = {p} /\ Users(i)' = {p}
    BY <1>0, <1>1, <1>2, <1>3, <1>4, UsersAre DEF UserPlaces
  <2>2. inode[i].data = disk[inode[i].sector]
    BY <1>0, <2>1 DEF Agrees
  <2> QED
    BY <1>0, <1>3, <1>5, <1>6, <2>1, <2>2 DEF Agrees
<1>8. \A j \in Inode \ {i} : inode[j] # None => inode[j].sector # inode'[i].sector
  BY <1>0, <1>1, <1>3 DEF Distinct
<1>9. InodesAgree'
  BY <1>0, <1>2, <1>3, <1>4, <1>5, <1>6, <1>7, <1>8, OneInode DEF UserPlaces
<1>10. FilesAreOpen'
  BY <1>0, FilesStay
<1>11. Private(p)' /\ Saved(p)' /\ Looks(p)'
  BY <1>0, <1>1, <1>3, <1>4, Closing
<1> QED
  BY <1>0, <1>1, <1>4, <1>5, <1>9, <1>10, <1>11, OpenStep

-----------------------------------------------------------------------------
(* dir_remove and inode_close.                                             *)

LEMMA EraseEntryStep ==
    ASSUME FInv, OneProcess, NEW p \in Proc, EraseEntry(p)
    PROVE  FInv'
<1>0. pc[p] = "remove" /\ UNCHANGED <<disk, disk_map, free_map, file, panic>>
  BY DEF EraseEntry
<1>1. /\ TypeOK /\ Looks(p) /\ Distinct /\ ~panic
      /\ \A i \in Inode : inode[i] # None => Agrees(i)
      /\ \A t \in Live : Extent(t) \subseteq free_map
      /\ disk_map = free_map /\ free_map \subseteq Sector
      /\ slots \in [1..Slots -> {None} \cup Entry]
  BY <1>0, AtInode DEF UserPlaces
<1>2. PICK i : i = loc[p].ino
  OBVIOUS
<1>3. PICK k : k = loc[p].slot
  OBVIOUS
<1>4. /\ k \in 1..Slots /\ slots[k] # None /\ i \in Inode /\ inode[i] # None
      /\ inode[i].sector = slots[k].sector
  BY <1>0, <1>1, <1>2, <1>3 DEF Looks
<1>5. PICK r : r = [inode[i] EXCEPT !.removed = TRUE]
  OBVIOUS
<1>6. /\ slots' = [slots EXCEPT ![k] = None] /\ inode' = [inode EXCEPT ![i] = r]
      /\ CloseNext(p, i)
  BY <1>2, <1>3, <1>5 DEF EraseEntry
<1>7. /\ r \in InodeStruct /\ r.sector = inode[i].sector /\ r.open_cnt = inode[i].open_cnt
      /\ r.deny_write_cnt = inode[i].deny_write_cnt /\ r.removed = TRUE /\ r.data = inode[i].data
  BY <1>1, <1>4, <1>5, InodeIs DEF InodeStruct
<1>8. /\ inode' \in [Inode -> {None} \cup InodeStruct] /\ inode'[i] = r /\ inode'[i] # None
      /\ \A j \in Inode \ {i} : inode'[j] = inode[j]
  BY <1>1, <1>4, <1>6, <1>7, FilesysState, FilesysConstants
<1>9. Opened' = Opened
  <2>1. \A j \in Inode : (inode'[j] # None <=> inode[j] # None) /\ inode'[j].sector = inode[j].sector
    BY <1>4, <1>7, <1>8
  <2> QED
    BY <2>1 DEF Opened
<1>10. /\ slots' \in [1..Slots -> {None} \cup Entry] /\ slots'[k] = None
       /\ \A j \in 1..Slots : j # k => slots'[j] = slots[j]
  BY <1>1, <1>4, <1>6
<1>11. \A t : t \in Linked' <=> t \in Linked /\ t # inode[i].sector
  <2>1. \A t : t \in Linked' <=> \E j \in 1..Slots : slots'[j] # None /\ slots'[j].sector = t
    BY DEF Linked
  <2>2. \A j \in 1..Slots : slots[j] # None /\ slots[j].sector = slots[k].sector => j = k
    BY <1>4, Before DEF NamedOnce
  <2>3. \A j \in 1..Slots : slots'[j] # None => j # k /\ slots[j] # None /\ slots'[j] = slots[j]
    BY <1>10
  <2>4. \A j \in 1..Slots : j # k => slots'[j] = slots[j]
    BY <1>10
  <2>5. ASSUME NEW t, t \in Linked' PROVE t \in Linked /\ t # inode[i].sector
    <3>1. PICK j \in 1..Slots : slots'[j] # None /\ slots'[j].sector = t
      BY <2>1, <2>5
    <3> QED
      BY <1>4, <2>2, <2>3, <3>1, LinkedIs
  <2>6. ASSUME NEW t, t \in Linked, t # inode[i].sector PROVE t \in Linked'
    <3>1. PICK j \in 1..Slots : slots[j] # None /\ slots[j].sector = t
      BY <2>6, LinkedIs
    <3> QED
      BY <1>4, <2>1, <2>4, <2>6, <3>1
  <2> QED
    BY <2>5, <2>6
<1>12. /\ pc' \in [Proc -> Where] /\ pc'[p] = "close" /\ loc' \in [Proc -> Locals]
       /\ loc'[p].ino = i
  BY <1>1, <1>4, <1>6, CloseNextIs
<1>13. \A j \in Inode : Openers(j)' = Openers(j) /\ Denying(j)' = Denying(j)
  BY <1>0 DEF Openers, Denying
<1>14. Agrees(i)'
  <2>1. Agrees(i) /\ Users(i) = {p} /\ Users(i)' = {p}
    BY <1>0, <1>1, <1>2, <1>4, <1>12, UsersAre DEF UserPlaces
  <2>2. inode[i].data = disk[inode[i].sector]
    BY <1>0, <2>1 DEF Agrees
  <2>3. r.sector \notin Linked'
    BY <1>7, <1>11
  <2>4. /\ r.open_cnt = Cardinality(Openers(i)') + Cardinality(Users(i)')
        /\ r.deny_write_cnt = Cardinality(Denying(i)')
        /\ r.removed <=> r.sector \notin Linked'
        /\ r.data = disk'[r.sector]
    BY <1>0, <1>4, <1>7, <1>13, <2>1, <2>2, <2>3 DEF Agrees
  <2> QED
    BY <1>8, <2>4 DEF Agrees
<1>15. \A j \in Inode \ {i} : inode[j] # None => inode[j].sector # inode'[i].sector
  BY <1>1, <1>4, <1>7, <1>8 DEF Distinct
<1>16. \A j \in Inode \ {i} :
         inode[j] # None => (inode[j].sector \in Linked' <=> inode[j].sector \in Linked)
  BY <1>7, <1>8, <1>11, <1>15
<1>17. InodesAgree'
  BY <1>0, <1>2, <1>4, <1>8, <1>12, <1>13, <1>14, <1>15, <1>16, OneInode DEF UserPlaces
<1>18. FilesAreOpen'
  BY <1>0, <1>8, FilesStay
<1>19. Places'
  <2>1. Private(p)' /\ Saved(p)' /\ Looks(p)'
    BY <1>0, <1>1, <1>4, <1>8, <1>12, Closing
  <2> QED
    BY <2>1, PlacesOfOne
<1>20. TypeOK'
  BY <1>0, <1>1, <1>8, <1>10, <1>12 DEF TypeOK
<1>21. Owned'
  <2>1. Owned /\ \A t \in Linked : Extent(t) \subseteq disk_map
    BY Before
  <2>2. Linked' \subseteq Linked /\ Live' \subseteq Live
    BY <1>9, <1>11 DEF Live
  <2> QED
    BY <1>0, <1>1, <2>1, <2>2, OwnedKept
<1>22. NamedOnce'
  <2>1. NamedOnce /\ \A j \in 1..Slots : slots'[j] # None => slots[j] # None /\ slots'[j] = slots[j]
    BY <1>10, Before
  <2> QED
    BY <2>1 DEF NamedOnce
<1> QED
  BY <1>0, <1>1, <1>17, <1>18, <1>19, <1>20, <1>21, <1>22 DEF FInv

LEMMA InodeCloseStep ==
    ASSUME FInv, OneProcess, NEW p \in Proc, InodeClose(p)
    PROVE  FInv'
<1>0. pc[p] = "close" /\ UNCHANGED <<disk, disk_map, slots, file>>
  BY DEF InodeClose, diskVars
<1>1. /\ TypeOK /\ Looks(p) /\ Distinct /\ FilesAreOpen /\ ~panic
      /\ \A i \in Inode : inode[i] # None => Agrees(i)
      /\ \A t \in Live : Extent(t) \subseteq free_map
      /\ disk_map = free_map /\ free_map \subseteq Sector
      /\ inode \in [Inode -> {None} \cup InodeStruct] /\ None \notin InodeStruct
      /\ file \in [File -> {None} \cup FileStruct]
  BY <1>0, AtInode DEF UserPlaces
<1>2. PICK l \in Locals : l = loc[p]
  BY <1>1, FilesysState
<1>3. PICK i : i = l.ino
  OBVIOUS
<1>4. i \in Inode /\ inode[i] # None
  BY <1>0, <1>1, <1>2, <1>3 DEF Looks
<1>5. PICK s : s = inode[i].sector
  OBVIOUS
<1>6. s \in Live
  BY <1>4, <1>5, LinkedIs DEF Live
<1>7. /\ Agrees(i) /\ Users(i) = {p} /\ Cardinality({p}) = 1 /\ Cardinality({}) = 0
      /\ inode[i].data = disk[s]
  <2>1. Agrees(i) /\ Users(i) = {p} /\ Cardinality({p}) = 1 /\ Cardinality({}) = 0
    BY <1>0, <1>1, <1>2, <1>3, <1>4, UsersAre DEF UserPlaces
  <2> QED
    BY <1>0, <1>5, <2>1 DEF Agrees
<1>8. /\ inode[i].open_cnt = Cardinality(Openers(i)) + 1
      /\ Cardinality(Openers(i)) \in Nat /\ IsFiniteSet(Openers(i))
  BY <1>7, OpenersAre DEF Agrees
<1>9. Linked' = Linked
  BY <1>0 DEF Linked
<1>10. \A j \in Inode : Openers(j)' = Openers(j) /\ Denying(j)' = Denying(j)
  BY <1>0 DEF Openers, Denying
\* The step to another place, and the inode as it is left.
<1>11. ASSUME pc' \in [Proc -> Where], pc'[p] \in {"user", "map"}, loc' \in [Proc -> Locals],
              free_map' \subseteq Sector, panic' = panic,
              \A t \in Live' : Extent(t) \subseteq free_map',
              Private(p)', Saved(p)'
       PROVE  FInv'
  <2>1. CASE inode[i].open_cnt = 1
    <3>1. inode' = [inode EXCEPT ![i] = None]
      BY <1>2, <1>3, <2>1 DEF InodeClose
    <3>2. /\ inode' \in [Inode -> {None} \cup InodeStruct] /\ inode'[i] = None
          /\ \A j \in Inode \ {i} : inode'[j] = inode[j]
      BY <1>1, <1>4, <3>1
    <3>3. Openers(i) = {}
      BY <1>8, <2>1, FS_EmptySet
    <3>4. FilesAreOpen'
      <4> SUFFICES ASSUME NEW f \in File, file[f] # None PROVE inode'[file[f].inode] # None
        BY <1>0 DEF FilesAreOpen
      <4>1. file[f].inode # i
        BY <3>3, OpenersAre
      <4> QED
        BY <3>2, <4>1, FileIs
    <3>5. InodesAgree'
      BY <1>0, <1>2, <1>3, <1>4, <1>9, <1>10, <1>11, <3>2, OneInode DEF UserPlaces
    <3>6. Live' \subseteq Live
      <4>1. \A j \in Inode : inode'[j] # None => inode[j] # None /\ inode'[j] = inode[j]
        BY <3>2
      <4>2. Opened' \subseteq Opened
        BY <4>1 DEF Opened
      <4> QED
        BY <1>9, <4>2 DEF Live
    <3> QED
      BY <1>0, <1>1, <1>11, <3>2, <3>4, <3>5, <3>6, OpenStep, NoLooks DEF UserPlaces
  <2>2. CASE inode[i].open_cnt # 1
    <3>1. PICK r : r = [inode[i] EXCEPT !.open_cnt = @ - 1]
      OBVIOUS
    <3>2. inode' = [inode EXCEPT ![i] = r]
      BY <1>2, <1>3, <2>2, <3>1 DEF InodeClose
    <3>3. /\ r \in InodeStruct /\ r.sector = s /\ r.open_cnt = inode[i].open_cnt - 1
          /\ r.deny_write_cnt = inode[i].deny_write_cnt /\ r.removed = inode[i].removed
          /\ r.data = inode[i].data
      BY <1>1, <1>4, <1>5, <2>2, <3>1, InodeIs DEF InodeStruct
    <3>4. /\ inode' \in [Inode -> {None} \cup InodeStruct] /\ inode'[i] = r /\ inode'[i] # None
          /\ \A j \in Inode \ {i} : inode'[j] = inode[j]
          /\ Live' = Live
      BY <1>0, <1>1, <1>4, <1>5, <3>2, <3>3, InodeSet
    <3>5. Agrees(i)'
      <4>1. Users(i)' = {}
        BY <1>11, UsersAre DEF UserPlaces
      <4>2. r.open_cnt = Cardinality(Openers(i)') + Cardinality(Users(i)')
        BY <1>4, <1>7, <1>8, <1>10, <3>3, <4>1
      <4>3. /\ r.deny_write_cnt = Cardinality(Denying(i)')
            /\ r.removed <=> r.sector \notin Linked'
            /\ r.data = disk'[r.sector]
        BY <1>0, <1>4, <1>5, <1>7, <1>9, <1>10, <3>3 DEF Agrees
      <4> QED
        BY <3>4, <4>2, <4>3 DEF Agrees
    <3>6. \A j \in Inode \ {i} : inode[j] # None => inode[j].sector # inode'[i].sector
      BY <1>1, <1>4, <1>5, <3>3, <3>4 DEF Distinct
    <3>7. InodesAgree'
      BY <1>0, <1>2, <1>3, <1>4, <1>9, <1>10, <1>11, <3>4, <3>5, <3>6, OneInode DEF UserPlaces
    <3>8. FilesAreOpen'
      BY <1>0, <3>4, FilesStay
    <3> QED
      BY <1>0, <1>1, <1>11, <3>4, <3>7, <3>8, OpenStep, NoLooks DEF UserPlaces
  <2> QED
    BY <2>1, <2>2
<1>12. CASE ~LastFrees(i)
  <2>1. Return(p) /\ UNCHANGED <<free_map, panic>>
    BY <1>2, <1>3, <1>12 DEF InodeClose
  <2>2. pc' \in [Proc -> Where] /\ pc'[p] = "user" /\ loc' \in [Proc -> Locals]
    BY <1>1, <2>1, ReturnIs
  <2>3. Private(p)' /\ Saved(p)'
    BY <1>0, <1>1, <2>1, <2>2, NothingPrivate DEF Place, Bare, Building, Written, Saved
  <2>4. Live' \subseteq Live
    <3>1. \A j \in Inode : inode'[j] # None => inode[j] # None /\ inode'[j].sector = inode[j].sector
      <4>1. PICK v : v = [inode[i] EXCEPT !.open_cnt = @ - 1]
        OBVIOUS
      <4>2. v.sector = inode[i].sector
        BY <1>1, <1>4, <4>1, InodeIs
      <4>3. inode' = [inode EXCEPT ![i] = None] \/ inode' = [inode EXCEPT ![i] = v]
        BY <1>2, <1>3, <4>1 DEF InodeClose
      <4> QED
        BY <1>1, <1>4, <4>2, <4>3
    <3>2. Opened' \subseteq Opened
      BY <3>1 DEF Opened
    <3> QED
      BY <1>9, <3>2 DEF Live
  <2> QED
    BY <1>1, <1>11, <2>1, <2>2, <2>3, <2>4
<1>13. CASE LastFrees(i)
  <2>1. inode[i].removed /\ inode[i].open_cnt = 1
    BY <1>13 DEF LastFrees
  <2>2. PICK m : m = [l EXCEPT !.start = inode[i].data.start, !.size = inode[i].data.length]
    OBVIOUS
  <2>3. /\ inode[i].data \in InodeDisk /\ disk[s] \in InodeDisk
        /\ s \notin Run(disk[s].start, disk[s].length)
        /\ Extent(s) \subseteq free_map
        /\ \A t \in Live \ {s} : Extent(s) \cap Extent(t) = {}
    BY <1>6, <1>7, Before DEF Owned
  <2>4. free_map' = free_map \ {s} /\ SaveMap(p, m, "freedata") /\ panic' = panic
    <3>1. Release(p, {s}, m, "freedata")
      BY <1>2, <1>3, <1>5, <1>13, <2>2 DEF InodeClose
    <3>2. {s} \subseteq free_map
      BY <2>3 DEF Extent
    <3> QED
      BY <3>1, <3>2 DEF Release
  <2>5. m \in Locals /\ m.start = disk[s].start /\ m.size = disk[s].length
    <3>1. inode[i].data.start \in Sector \cup {0} /\ inode[i].data.length \in Sizes \cup {0}
      BY <2>3 DEF InodeDisk
    <3> QED
      BY <1>7, <2>2, <3>1 DEF Locals
  <2>6. /\ pc' \in [Proc -> Where] /\ pc'[p] = "map" /\ loc' \in [Proc -> Locals]
        /\ loc'[p].then = "freedata" /\ loc'[p].start = disk[s].start
        /\ loc'[p].size = disk[s].length
    BY <1>1, <2>4, <2>5, SaveMapIs
  <2>7. Place(p)' = "freedata" /\ Mine(p)' = Run(disk[s].start, disk[s].length)
    BY <2>6 DEF Place, Mine, Data, Run, Bare, Building, Written
  <2>8. Live' \subseteq Live \ {s}
    <3>1. inode' = [inode EXCEPT ![i] = None]
      BY <1>2, <1>3, <2>1 DEF InodeClose
    <3>2. \A j \in Inode : inode'[j] # None => j # i /\ inode[j] # None /\ inode'[j] = inode[j]
      BY <1>1, <1>4, <3>1
    <3>3. \A j \in Inode : inode'[j] # None => inode'[j].sector # s /\ inode'[j].sector \in Opened
      BY <1>1, <1>4, <1>5, <3>2, LinkedIs DEF Distinct
    <3>4. \A t \in Opened' : t # s /\ t \in Opened
      BY <3>3 DEF Opened
    <3>5. s \notin Linked
      BY <1>5, <1>7, <2>1 DEF Agrees
    <3> QED
      BY <1>9, <3>4, <3>5 DEF Live
  <2>9. \A t \in Live' : Extent(t) \subseteq free_map'
    <3>1. s \in Extent(s)
      BY DEF Extent
    <3> QED
      BY <1>1, <2>3, <2>4, <2>8, <3>1
  <2>10. Private(p)'
    <3>1. \A t : Extent(t)' = Extent(t)
      BY <1>0 DEF Extent
    <3>2. Mine(p)' \subseteq free_map'
      BY <2>3, <2>4, <2>7 DEF Extent
    <3>3. \A t \in Live' : Mine(p)' \cap Extent(t) = {}
      BY <2>3, <2>7, <2>8 DEF Extent
    <3> QED
      BY <2>6, <2>7, <3>1, <3>2, <3>3 DEF Private, Building, Written
  <2>11. Saved(p)'
    BY <2>6 DEF Saved
  <2>12. free_map' \subseteq Sector
    BY <1>1, <2>4
  <2> QED
    BY <1>11, <2>4, <2>6, <2>9, <2>10, <2>11, <2>12
<1> QED
  BY <1>12, <1>13

-----------------------------------------------------------------------------
(* The operations on open files.                                           *)

LEMMA CloseStep ==
    ASSUME FInv, OneProcess, NEW p \in Proc, NEW f \in File, Close(p, f)
    PROVE  FInv'
<1>0. pc[p] = "user" /\ file[f] # None /\ UNCHANGED <<disk, disk_map, slots, free_map, panic>>
  BY DEF Close, diskVars
<1>1. /\ TypeOK /\ Distinct /\ FilesAreOpen
      /\ \A i \in Inode : inode[i] # None => Agrees(i)
      /\ \A t \in Live : Extent(t) \subseteq free_map
      /\ disk_map = free_map /\ free_map \subseteq Sector
      /\ inode \in [Inode -> {None} \cup InodeStruct] /\ None \notin InodeStruct
      /\ file \in [File -> {None} \cup FileStruct]
  BY <1>0, AtInode
<1>2. PICK i : i = file[f].inode
  OBVIOUS
<1>3. i \in Inode /\ inode[i] # None /\ file[f].deny_write \in BOOLEAN
  BY <1>0, <1>2, FileIs
<1>4. PICK r : r = [inode[i] EXCEPT !.deny_write_cnt = @ - Allowed(f)]
  OBVIOUS
<1>5. /\ file' = [file EXCEPT ![f] = None] /\ inode' = [inode EXCEPT ![i] = r]
      /\ CloseNext(p, i)
  BY <1>2, <1>4 DEF Close
<1>6. /\ Agrees(i) /\ Users(i) = {} /\ Cardinality({p}) = 1 /\ Cardinality({}) = 0
  BY <1>0, <1>1, <1>3, UsersAre DEF UserPlaces
<1>7. file' \in [File -> {None} \cup FileStruct] /\ \A g \in File : g # f => file'[g] = file[g]
  BY <1>1, <1>5
<1>8. file'[f] = None
  BY <1>1, <1>5
<1>9. Openers(i)' = Openers(i) \ {f} /\ f \in Openers(i)
  BY <1>0, <1>2, <1>7, <1>8 DEF Openers
<1>10. /\ file[f].deny_write => f \in Denying(i) /\ Denying(i)' = Denying(i) \ {f}
       /\ ~file[f].deny_write => Denying(i)' = Denying(i)
  <2>1. \A g : g \in Denying(i)' <=> g \in Denying(i) /\ g # f
    BY <1>7, <1>9, OpenersAre
  <2>2. f \in Denying(i) <=> file[f].deny_write
    BY <1>9, OpenersAre
  <2> QED
    BY <2>1, <2>2
<1>11. \A j \in Inode \ {i} : Openers(j)' = Openers(j) /\ Denying(j)' = Denying(j)
  <2> SUFFICES ASSUME NEW j \in Inode \ {i}
               PROVE  Openers(j)' = Openers(j) /\ Denying(j)' = Denying(j)
    OBVIOUS
  <2>1. \A g : g \in Openers(j)' <=> g \in Openers(j)
    BY <1>2, <1>7, <1>8, OpenersAre
  <2>2. \A g : g \in Denying(j)' <=> g \in Denying(j)
    BY <1>2, <1>7, <2>1, OpenersAre
  <2> QED
    BY <2>1, <2>2 DEF Openers, Denying
\* The counts.
<1>12. /\ inode[i].open_cnt = Cardinality(Openers(i)') + 1
       /\ inode[i].deny_write_cnt - Allowed(f) = Cardinality(Denying(i)')
       /\ Cardinality(Denying(i)') \in Nat
  <2>1. Cardinality(Openers(i)') = Cardinality(Openers(i)) - 1
    BY <1>9, OpenersAre, FS_RemoveElement
  <2>2. Cardinality(Openers(i)) \in Nat /\ Cardinality(Denying(i)) \in Nat
    BY OpenersAre
  <2>3. inode[i].open_cnt = Cardinality(Openers(i))
    BY <1>6, <2>2 DEF Agrees
  <2>4. inode[i].deny_write_cnt = Cardinality(Denying(i))
    BY <1>6 DEF Agrees
  <2>5. CASE file[f].deny_write
    <3>1. Cardinality(Denying(i)') = Cardinality(Denying(i)) - 1
      BY <1>10, <2>5, OpenersAre, FS_RemoveElement
    <3>2. IsFiniteSet(Denying(i)')
      BY <1>10, <2>5, OpenersAre, FS_Subset
    <3>3. Cardinality(Denying(i)') \in Nat
      BY <3>2, FS_CardinalityType
    <3> QED
      BY <2>1, <2>2, <2>3, <2>4, <2>5, <3>1, <3>3 DEF Allowed
  <2>6. CASE ~file[f].deny_write
    BY <1>10, <2>1, <2>2, <2>3, <2>4, <2>6 DEF Allowed
  <2> QED
    BY <1>3, <2>5, <2>6
<1>13. /\ r \in InodeStruct /\ r.sector = inode[i].sector /\ r.open_cnt = inode[i].open_cnt
       /\ r.deny_write_cnt = inode[i].deny_write_cnt - Allowed(f)
       /\ r.removed = inode[i].removed /\ r.data = inode[i].data
  BY <1>1, <1>3, <1>4, <1>12, InodeIs DEF InodeStruct
<1>14. /\ inode' \in [Inode -> {None} \cup InodeStruct] /\ inode'[i] = r /\ inode'[i] # None
       /\ \A j \in Inode \ {i} : inode'[j] = inode[j]
       /\ Linked' = Linked /\ Live' = Live
  BY <1>0, <1>1, <1>3, <1>5, <1>13, InodeSet
<1>15. /\ pc' \in [Proc -> Where] /\ pc'[p] = "close" /\ loc' \in [Proc -> Locals]
       /\ loc'[p].ino = i
  BY <1>1, <1>3, <1>5, CloseNextIs
<1>16. Agrees(i)'
  <2>1. Users(i)' = {p}
    BY <1>15, UsersAre DEF UserPlaces
  <2>2. /\ r.open_cnt = Cardinality(Openers(i)') + Cardinality(Users(i)')
        /\ r.deny_write_cnt = Cardinality(Denying(i)')
    BY <1>6, <1>12, <1>13, <2>1
  <2>3. r.removed <=> r.sector \notin Linked'
    BY <1>6, <1>13, <1>14 DEF Agrees
  <2>4. r.data = disk'[r.sector]
    BY <1>0, <1>6, <1>13 DEF Agrees
  <2> QED
    BY <1>14, <2>2, <2>3, <2>4 DEF Agrees
<1>17. \A j \in Inode \ {i} : inode[j] # None => inode[j].sector # inode'[i].sector
  BY <1>1, <1>3, <1>13, <1>14 DEF Distinct
<1>18. InodesAgree'
  BY <1>0, <1>3, <1>11, <1>14, <1>15, <1>16, <1>17, OneInode DEF UserPlaces
<1>19. FilesAreOpen'
  <2> SUFFICES ASSUME NEW g \in File, file'[g] # None PROVE inode'[file'[g].inode] # None
    BY DEF FilesAreOpen
  <2>1. file'[g] = file[g]
    BY <1>7, <1>8
  <2>2. file[g].inode \in Inode /\ inode[file[g].inode] # None
    BY <2>1, FileIs
  <2> QED
    BY <1>14, <2>1, <2>2
<1>20. Private(p)' /\ Saved(p)' /\ Looks(p)'
  BY <1>0, <1>1, <1>3, <1>14, <1>15, Closing
<1> QED
  BY <1>0, <1>1, <1>7, <1>14, <1>15, <1>18, <1>19, <1>20, OpenStep

\* Whether f is another opener, and whether it is another denier, when it becomes o.
Opens(f) == IF file[f] = None THEN 1 ELSE 0
Denies(f, o) == IF o.deny_write /\ f \notin Denying(o.inode) THEN 1 ELSE 0

\* Another file object at an open inode, or one that now denies writing: one opener or
\* one denier more.
LEMMA FileStep ==
    ASSUME FInv, OneProcess, NEW p \in Proc, pc[p] = "user",
           UNCHANGED <<diskVars, free_map, pc, loc, panic>>,
           NEW f \in File, NEW o \in FileStruct, file' = [file EXCEPT ![f] = o],
           file[f] # None => file[f].inode = o.inode, f \in Denying(o.inode) => o.deny_write,
           NEW r \in InodeStruct, inode[o.inode] # None, inode' = [inode EXCEPT ![o.inode] = r],
           r.sector = inode[o.inode].sector,
           r.open_cnt = inode[o.inode].open_cnt + Opens(f),
           r.deny_write_cnt = inode[o.inode].deny_write_cnt + Denies(f, o),
           r.removed = inode[o.inode].removed, r.data = inode[o.inode].data
    PROVE  FInv'
<1>i. PICK i \in Inode : i = o.inode
  BY DEF FileStruct
<1>c. PICK c \in {0, 1} : /\ r.open_cnt = inode[i].open_cnt + c /\ (c = 1 => file[f] = None)
                          /\ c = 0 => file[f] # None /\ file[f].inode = i
  <2>1. CASE file[f] = None
    BY <1>i, <2>1 DEF Opens
  <2>2. CASE file[f] # None
    BY <1>i, <2>2 DEF Opens
  <2> QED
    BY <2>1, <2>2
<1>d. PICK d \in {0, 1} : /\ r.deny_write_cnt = inode[i].deny_write_cnt + d
                          /\ d = 1 => o.deny_write /\ f \notin Denying(i)
                          /\ d = 0 => (o.deny_write <=> f \in Denying(i))
  <2>1. CASE o.deny_write /\ f \notin Denying(i)
    BY <1>i, <2>1 DEF Denies
  <2>2. CASE ~(o.deny_write /\ f \notin Denying(i))
    BY <1>i, <2>2 DEF Denies
  <2> QED
    BY <2>1, <2>2
<1>s. /\ inode[i] # None /\ inode' = [inode EXCEPT ![i] = r] /\ r.sector = inode[i].sector
      /\ r.removed = inode[i].removed /\ r.data = inode[i].data
  BY <1>i
<1>0. UNCHANGED <<disk, disk_map, slots, free_map, pc, loc, panic>>
  BY DEF diskVars
<1>1. /\ TypeOK /\ Distinct /\ FilesAreOpen
      /\ \A j \in Inode : inode[j] # None => Agrees(j)
      /\ \A t \in Live : Extent(t) \subseteq free_map
      /\ disk_map = free_map /\ free_map \subseteq Sector
      /\ pc \in [Proc -> Where] /\ loc \in [Proc -> Locals]
      /\ inode \in [Inode -> {None} \cup InodeStruct] /\ None \notin InodeStruct
      /\ file \in [File -> {None} \cup FileStruct] /\ None \notin FileStruct
  BY <1>0, AtInode
<1>2. /\ Agrees(i) /\ Users(i) = {} /\ Users(i)' = {} /\ Cardinality({}) = 0
  BY <1>0, <1>1, <1>s, UsersAre DEF UserPlaces
<1>3. PICK deny : deny = o.deny_write
  OBVIOUS
<1>4. o.inode = i /\ o.deny_write = deny /\ o # None /\ deny \in BOOLEAN
  BY <1>1, <1>3, <1>i DEF FileStruct
<1>5. /\ file' \in [File -> {None} \cup FileStruct] /\ file'[f] = o
      /\ \A g \in File : g # f => file'[g] = file[g]
  BY <1>1, <1>4
<1>6. /\ r \in InodeStruct /\ r.sector = inode[i].sector /\ r.open_cnt = inode[i].open_cnt + c
      /\ r.deny_write_cnt = inode[i].deny_write_cnt + d
      /\ r.removed = inode[i].removed /\ r.data = inode[i].data
  BY <1>c, <1>d, <1>s
<1>7. /\ inode' \in [Inode -> {None} \cup InodeStruct] /\ inode'[i] = r /\ inode'[i] # None
      /\ \A j \in Inode \ {i} : inode'[j] = inode[j]
      /\ Linked' = Linked /\ Live' = Live
  BY <1>0, <1>1, <1>6, <1>s, InodeSet
<1>8. \A g : g \in Openers(i)' <=> g \in Openers(i) \/ g = f
  BY <1>4, <1>5, OpenersAre
<1>9. \A g : g \in Denying(i)' <=> (IF g = f THEN deny ELSE g \in Denying(i))
  BY <1>4, <1>5, <1>8, OpenersAre
<1>10. \A j \in Inode \ {i} : Openers(j)' = Openers(j) /\ Denying(j)' = Denying(j)
  <2> SUFFICES ASSUME NEW j \in Inode \ {i}
               PROVE  Openers(j)' = Openers(j) /\ Denying(j)' = Denying(j)
    OBVIOUS
  <2>1. \A g : g \in Openers(j)' <=> g \in Openers(j)
    BY <1>4, <1>5, OpenersAre
  <2>2. \A g : g \in Denying(j)' <=> g \in Denying(j)
    BY <1>4, <1>5, <2>1, OpenersAre
  <2> QED
    BY <2>1, <2>2 DEF Openers, Denying
<1>11. Cardinality(Openers(i)') = Cardinality(Openers(i)) + c
  <2>1. CASE c = 1
    <3>1. f \notin Openers(i) /\ IsFiniteSet(Openers(i))
      BY <1>c, <2>1, OpenersAre
    <3>2. Openers(i)' = Openers(i) \cup {f}
      BY <1>8 DEF Openers
    <3>3. Cardinality(Openers(i) \cup {f}) = Cardinality(Openers(i)) + 1
      BY <3>1, FS_AddElement
    <3> QED
      BY <2>1, <3>2, <3>3
  <2>2. CASE c = 0
    <3>1. f \in Openers(i)
      BY <1>c, <2>2, OpenersAre
    <3>2. Openers(i)' = Openers(i)
      BY <1>8, <3>1 DEF Openers
    <3> QED
      BY <2>2, <3>2, OpenersAre
  <2> QED
    BY <2>1, <2>2
<1>12. Cardinality(Denying(i)') = Cardinality(Denying(i)) + d
  <2>1. CASE d = 1
    <3>1. deny /\ f \notin Denying(i) /\ IsFiniteSet(Denying(i))
      BY <1>4, <1>d, <2>1, OpenersAre
    <3>2. \A g : g \in Denying(i)' <=> g \in Denying(i) \/ g = f
      BY <1>9, <3>1
    <3>3. Denying(i)' = Denying(i) \cup {f}
      BY <3>2 DEF Denying
    <3>4. Cardinality(Denying(i) \cup {f}) = Cardinality(Denying(i)) + 1
      BY <3>1, FS_AddElement
    <3> QED
      BY <2>1, <3>3, <3>4
  <2>2. CASE d = 0
    <3>0. deny <=> f \in Denying(i)
      BY <1>4, <1>d, <2>2
    <3>1. Denying(i)' = Denying(i)
      <4>1. \A g : g \in Denying(i)' <=> g \in Denying(i)
        BY <1>9, <3>0
      <4> QED
        BY <4>1 DEF Denying
    <3> QED
      BY <2>2, <3>1, OpenersAre
  <2> QED
    BY <2>1, <2>2
<1>13. Agrees(i)'
  <2>1. /\ inode[i].open_cnt = Cardinality(Openers(i)) + 0
        /\ inode[i].deny_write_cnt = Cardinality(Denying(i))
    BY <1>2 DEF Agrees
  <2>2. /\ r.open_cnt = Cardinality(Openers(i)') + Cardinality(Users(i)')
        /\ r.deny_write_cnt = Cardinality(Denying(i)')
    BY <1>2, <1>6, <1>11, <1>12, <2>1, OpenersAre
  <2>3. (r.removed <=> r.sector \notin Linked') /\ r.data = disk'[r.sector]
    BY <1>0, <1>2, <1>6, <1>7 DEF Agrees
  <2> QED
    BY <1>7, <2>2, <2>3 DEF Agrees
<1>14. \A j \in Inode \ {i} : inode[j] # None => inode[j].sector # inode'[i].sector
  BY <1>1, <1>6, <1>7, <1>s DEF Distinct
<1>15. InodesAgree'
  BY <1>0, <1>7, <1>10, <1>13, <1>14, OneInode DEF UserPlaces
<1>16. FilesAreOpen'
  <2> SUFFICES ASSUME NEW g \in File, file'[g] # None PROVE inode'[file'[g].inode] # None
    BY DEF FilesAreOpen
  <2>1. CASE g = f
    BY <1>4, <1>5, <1>7, <2>1
  <2>2. CASE g # f
    <3>1. file'[g] = file[g] /\ file[g] # None
      BY <1>5, <2>2
    <3>2. file[g].inode \in Inode /\ inode[file[g].inode] # None
      BY <3>1, FileIs
    <3> QED
      BY <1>7, <3>1, <3>2
  <2> QED
    BY <2>1, <2>2
<1>17. Private(p)' /\ Saved(p)' /\ Looks(p)'
  BY <1>0, <1>1, NothingPrivate, NoLooks DEF Place, Bare, Building, Written, Saved, UserPlaces
<1> QED
  BY <1>0, <1>1, <1>5, <1>7, <1>15, <1>16, <1>17, OpenStep

LEMMA AgainStep ==
    ASSUME FInv, OneProcess, NEW p \in Proc, NEW f \in File, NEW g \in File, NEW deny \in BOOLEAN,
           Again(p, f, g, deny)
    PROVE  FInv'
<1>1. PICK i : i = file[f].inode
  OBVIOUS
<1>2. PICK d \in Nat : d = IF deny THEN 1 ELSE 0
  OBVIOUS
<1>3. /\ pc[p] = "user" /\ file[f] # None /\ file[g] = None
      /\ file' = [file EXCEPT ![g] = [inode |-> i, deny_write |-> deny]]
      /\ inode' = [inode EXCEPT ![i].open_cnt = @ + 1,
                                ![i].deny_write_cnt = IF deny THEN @ + 1 ELSE @]
      /\ UNCHANGED <<diskVars, free_map, pc, loc, panic>>
  BY <1>1 DEF Again
<1>4. i \in Inode /\ inode[i] # None
  BY <1>1, <1>3, FileIs
<1>5. TypeOK /\ inode \in [Inode -> {None} \cup InodeStruct]
  BY Before, FilesysState
<1>6. PICK q : q = [inode[i] EXCEPT !.open_cnt = @ + 1]
  OBVIOUS
<1>7. /\ q \in InodeStruct /\ q.sector = inode[i].sector /\ q.open_cnt = inode[i].open_cnt + 1
      /\ q.deny_write_cnt = inode[i].deny_write_cnt /\ q.deny_write_cnt \in Nat
      /\ q.removed = inode[i].removed /\ q.data = inode[i].data
  BY <1>4, <1>5, <1>6, InodeIs DEF InodeStruct
<1>8. PICK r : r = [q EXCEPT !.deny_write_cnt = @ + d]
  OBVIOUS
<1>9. /\ r \in InodeStruct /\ r.sector = q.sector /\ r.open_cnt = q.open_cnt
      /\ r.deny_write_cnt = q.deny_write_cnt + d /\ r.removed = q.removed /\ r.data = q.data
  BY <1>7, <1>8 DEF InodeStruct
<1>10. inode' = [inode EXCEPT ![i] = r]
  <2>1. CASE deny
    <3>1. r = [q EXCEPT !.deny_write_cnt = @ + 1]
      BY <1>2, <1>8, <2>1
    <3> QED
      BY <1>3, <1>4, <1>5, <1>6, <2>1, <3>1
  <2>2. CASE ~deny
    <3>1. r = q
      BY <1>2, <1>7, <1>8, <2>2 DEF InodeStruct
    <3> QED
      BY <1>3, <1>4, <1>5, <1>6, <2>2, <3>1
  <2> QED
    BY <2>1, <2>2
<1>11. PICK o : o = [inode |-> i, deny_write |-> deny]
  OBVIOUS
<1>12. o \in FileStruct /\ o.inode = i /\ o.deny_write = deny
  BY <1>4, <1>11 DEF FileStruct
<1>13. g \notin Denying(i)
  BY <1>3, OpenersAre
<1>14. /\ Opens(g) = 1 /\ Denies(g, o) = d
  BY <1>2, <1>3, <1>12, <1>13 DEF Opens, Denies
<1>15. /\ r.sector = inode[o.inode].sector
       /\ r.open_cnt = inode[o.inode].open_cnt + Opens(g)
       /\ r.deny_write_cnt = inode[o.inode].deny_write_cnt + Denies(g, o)
       /\ r.removed = inode[o.inode].removed /\ r.data = inode[o.inode].data
       /\ inode[o.inode] # None /\ inode' = [inode EXCEPT ![o.inode] = r]
  BY <1>4, <1>7, <1>9, <1>10, <1>12, <1>14
<1>16. file' = [file EXCEPT ![g] = o]
  BY <1>3, <1>11
<1>17. /\ pc[p] = "user" /\ UNCHANGED <<diskVars, free_map, pc, loc, panic>>
       /\ file[g] # None => file[g].inode = o.inode
  BY <1>3
<1>18. g \in Denying(o.inode) => o.deny_write
  BY <1>12, <1>13
<1> QED
  BY <1>9, <1>12, <1>15, <1>16, <1>17, <1>18, FileStep

LEMMA DenyWriteStep ==
    ASSUME FInv, OneProcess, NEW p \in Proc, NEW f \in File, DenyWrite(p, f)
    PROVE  FInv'
<1>1. PICK i : i = file[f].inode
  OBVIOUS
<1>2. /\ pc[p] = "user" /\ file[f] # None /\ ~file[f].deny_write
      /\ file' = [file EXCEPT ![f].deny_write = TRUE]
      /\ inode' = [inode EXCEPT ![i].deny_write_cnt = @ + 1]
      /\ UNCHANGED <<diskVars, free_map, pc, loc, panic>>
  BY <1>1 DEF DenyWrite
<1>3. i \in Inode /\ inode[i] # None /\ file[f] \in FileStruct
  BY <1>1, <1>2, FileIs
<1>4. PICK r : r = [inode[i] EXCEPT !.deny_write_cnt = @ + 1]
  OBVIOUS
<1>5. TypeOK /\ inode \in [Inode -> {None} \cup InodeStruct]
  BY Before, FilesysState
<1>6. inode' = [inode EXCEPT ![i] = r]
  BY <1>2, <1>4
<1>7. /\ r \in InodeStruct /\ r.sector = inode[i].sector /\ r.open_cnt = inode[i].open_cnt + 0
      /\ r.deny_write_cnt = inode[i].deny_write_cnt + 1
      /\ r.removed = inode[i].removed /\ r.data = inode[i].data
  BY <1>3, <1>4, <1>5, InodeIs DEF InodeStruct
<1>8. PICK o : o = [file[f] EXCEPT !.deny_write = TRUE]
  OBVIOUS
<1>9. file' = [file EXCEPT ![f] = o]
  BY <1>2, <1>8
<1>10. o \in FileStruct /\ o.inode = i /\ o.deny_write
  BY <1>1, <1>3, <1>8 DEF FileStruct
<1>11. f \notin Denying(i)
  BY <1>2, OpenersAre
<1>12. Opens(f) = 0 /\ Denies(f, o) = 1
  BY <1>2, <1>10, <1>11 DEF Opens, Denies
<1>13. /\ r.sector = inode[o.inode].sector
       /\ r.open_cnt = inode[o.inode].open_cnt + Opens(f)
       /\ r.deny_write_cnt = inode[o.inode].deny_write_cnt + Denies(f, o)
       /\ r.removed = inode[o.inode].removed /\ r.data = inode[o.inode].data
       /\ inode[o.inode] # None /\ inode' = [inode EXCEPT ![o.inode] = r]
  BY <1>3, <1>6, <1>7, <1>10, <1>12
<1>14. /\ pc[p] = "user" /\ UNCHANGED <<diskVars, free_map, pc, loc, panic>>
       /\ file[f] # None => file[f].inode = o.inode
  BY <1>1, <1>2, <1>10
<1>15. f \in Denying(o.inode) => o.deny_write
  BY <1>10, <1>11
<1>16. r \in InodeStruct /\ o \in FileStruct
  BY <1>7, <1>10
<1> QED
  BY <1>9, <1>13, <1>14, <1>15, <1>16, FileStep

-----------------------------------------------------------------------------
(* The last step of filesys_create, and the loss of power.                 *)

LEMMA WriteEntryStep ==
    ASSUME FInv, OneProcess, NEW p \in Proc, WriteEntry(p)
    PROVE  FInv'
<1>0. /\ TypeOK /\ Private(p) /\ Saved(p) /\ Owned /\ NamedOnce /\ ~panic /\ loc[p] \in Locals
      /\ \A t \in Live : Extent(t) \subseteq free_map /\ Mine(p) \cap Extent(t) = {}
      /\ \A t \in Live : t \in Extent(t)
      /\ \A t \in Linked : t \in Live
      /\ Mine(p) \subseteq free_map /\ pc[p] = "entry"
      /\ slots \in [1..Slots -> {None} \cup Entry] /\ free_map \subseteq Sector
  BY Before, FilesysState DEF WriteEntry
<1>1. PICK l \in Locals : l = loc[p]
  BY <1>0
<1>2. CASE l.slot > Slots
  BY <1>0, <1>1, <1>2, MovesOn DEF WriteEntry, diskVars
<1>3. CASE ~(l.slot > Slots)
  <2>1. PICK e : e = [name |-> l.name, sector |-> l.sector]
    OBVIOUS
  <2>2. PICK k : k = l.slot
    OBVIOUS
  <2>3. PICK s : s = l.sector
    OBVIOUS
  <2>4. /\ slots' = [slots EXCEPT ![k] = e] /\ Return(p)
        /\ UNCHANGED <<disk, disk_map, free_map, inode, file, panic>>
    BY <1>1, <1>3, <2>1, <2>2 DEF WriteEntry, memVars
  <2>5. Place(p) = "entry" /\ Mine(p) = {s} \cup Data(p)
    BY <1>0, <1>1, <2>3 DEF Place, Mine, Bare, Building, Written
  <2>6. /\ s \notin Data(p) /\ l.size \in Sizes /\ l.name \in Name /\ k \in 1..Slots
        /\ slots[k] = None /\ disk[s] = [start |-> l.start, length |-> l.size]
        /\ disk_map = free_map
    <3>1. /\ s \notin Data(p) /\ l.size \in Sizes /\ l.name \in Name
          /\ disk[s] = [start |-> l.start, length |-> l.size]
      BY <1>0, <1>1, <2>3, <2>5 DEF Private, Building, Written
    <3>2. k \in 1..(Slots + 1) /\ (k <= Slots => slots[k] = None)
      BY <1>0, <1>1, <2>2 DEF Private
    <3>3. k \in 1..Slots
      BY <1>3, <2>2, <3>2, FilesysConstants
    <3>4. k <= Slots
      BY <3>3, FilesysConstants
    <3> QED
      BY <1>0, <3>1, <3>2, <3>3, <3>4 DEF Saved
  <2>7. /\ disk[s].start = l.start /\ disk[s].length = l.size /\ disk[s] \in InodeDisk
        /\ Data(p) = Run(disk[s].start, disk[s].length) /\ Extent(s) = Mine(p)
    BY <1>1, <2>5, <2>6 DEF InodeDisk, Locals, Data, Extent
  <2>8. s \in Sector /\ s \notin Live
    BY <1>0, <2>5
  <2>9. e \in Entry /\ e # None /\ e.sector = s
    BY <2>1, <2>3, <2>6, <2>8, FilesysConstants DEF Entry
  <2>10. /\ slots' \in [1..Slots -> {None} \cup Entry] /\ slots'[k] = e
         /\ \A j \in 1..Slots : j # k => slots'[j] = slots[j]
    BY <1>0, <2>4, <2>6, <2>9
  <2>11. \A t : t \in Linked' <=> t \in Linked \/ t = s
    <3>1. \A t : t \in Linked' <=> \E j \in 1..Slots : slots'[j] # None /\ slots'[j].sector = t
      BY DEF Linked
    <3>2. ASSUME NEW t, t \in Linked' PROVE t \in Linked \/ t = s
      <4>1. PICK j \in 1..Slots : slots'[j] # None /\ slots'[j].sector = t
        BY <3>1, <3>2
      <4> QED
        BY <2>9, <2>10, <4>1, LinkedIs
    <3>3. ASSUME NEW t, t \in Linked PROVE t \in Linked'
      <4>1. PICK j \in 1..Slots : slots[j] # None /\ slots[j].sector = t
        BY <3>3, LinkedIs
      <4>2. j # k
        BY <2>6, <4>1
      <4> QED
        BY <2>10, <3>1, <4>1, <4>2
    <3>4. s \in Linked'
      BY <2>6, <2>9, <2>10, <3>1
    <3> QED
      BY <3>2, <3>3, <3>4
  <2>12. Opened' = Opened /\ \A t : t \in Live' <=> t \in Live \/ t = s
    <3>1. Opened' = Opened
      BY <2>4 DEF Opened
    <3> QED
      BY <2>11, <3>1 DEF Live
  <2>13. \A t : Extent(t)' = Extent(t)
    BY <2>4 DEF Extent
  <2>14. pc' \in [Proc -> Where] /\ pc'[p] = "user" /\ loc' \in [Proc -> Locals]
    BY <1>0, <2>4, ReturnIs
  <2>15. TypeOK'
    BY <1>0, <2>4, <2>10, <2>14 DEF TypeOK
  <2>16. Owned'
    <3> SUFFICES ASSUME NEW t, t \in Live'
                 PROVE  /\ disk[t] \in InodeDisk
                        /\ t \notin Run(disk[t].start, disk[t].length)
                        /\ Extent(t) \subseteq free_map
                        /\ t \in Linked' => Extent(t) \subseteq disk_map
                        /\ \A u \in Live' : u # t => Extent(t) \cap Extent(u) = {}
      BY <2>4, <2>13 DEF Owned
    <3>1. CASE t = s
      <4>1. \A u \in Live' : u # t => Extent(t) \cap Extent(u) = {}
        BY <1>0, <2>7, <2>12, <3>1
      <4> QED
        BY <1>0, <2>6, <2>7, <3>1, <4>1
    <3>2. CASE t # s
      <4>1. t \in Live
        BY <2>12, <3>2
      <4>2. \A u \in Live' : u # t => Extent(t) \cap Extent(u) = {}
        BY <1>0, <2>7, <2>12, <4>1 DEF Owned
      <4> QED
        BY <1>0, <2>11, <3>2, <4>1, <4>2 DEF Owned
    <3> QED
      BY <3>1, <3>2
  <2>17. NamedOnce'
    <3>1. s \notin Linked
      BY <1>0, <2>8
    <3>2. \A j \in 1..Slots : j # k /\ slots[j] # None => slots[j].sector # s
      BY <3>1, LinkedIs
    <3> QED
      BY <1>0, <2>9, <2>10, <3>2 DEF NamedOnce
  <2>18. InodesAgree' /\ FilesAreOpen'
    <3>1. \A t \in Opened : t \in Linked' <=> t \in Linked
      BY <2>8, <2>11 DEF Live
    <3>2. pc[p] \notin UserPlaces /\ pc'[p] \notin UserPlaces
      BY <1>0, <2>14 DEF UserPlaces
    <3>3. \A t \in Opened : disk'[t] = disk[t]
      BY <2>4
    <3> QED
      BY <2>4, <3>1, <3>2, <3>3, QuietInodes
  <2>19. Places'
    <3>1. Private(p)' /\ Saved(p)' /\ Looks(p)'
      BY <2>4, <2>6, <2>14, NothingPrivate, NoLooks
      DEF Place, Bare, Building, Written, Saved, UserPlaces
    <3> QED
      BY <3>1, PlacesOfOne
  <2> QED
    BY <1>0, <2>4, <2>15, <2>16, <2>17, <2>18, <2>19 DEF FInv
<1> QED
  BY <1>2, <1>3

\* Nothing is open and nobody is anywhere.
AtRest ==
    /\ pc = [p \in Proc |-> "user"] /\ loc = [p \in Proc |-> Idle]
    /\ inode = [i \in Inode |-> None] /\ file = [f \in File |-> None]
    /\ disk_map = free_map /\ panic = FALSE

Rested ==
    /\ ~panic /\ InodesAgree /\ FilesAreOpen /\ Places /\ Live = Linked
    /\ pc \in [Proc -> Where] /\ loc \in [Proc -> Locals]
    /\ inode \in [Inode -> {None} \cup InodeStruct]
    /\ file \in [File -> {None} \cup FileStruct]

LEMMA RestIs == AtRest => Rested
<1> SUFFICES ASSUME AtRest PROVE Rested
  OBVIOUS
<1>0. /\ pc = [p \in Proc |-> "user"] /\ loc = [p \in Proc |-> Idle]
      /\ inode = [i \in Inode |-> None] /\ file = [f \in File |-> None]
      /\ disk_map = free_map /\ panic = FALSE
  BY DEF AtRest
<1>1. InodesAgree /\ FilesAreOpen
  BY <1>0 DEF InodesAgree, FilesAreOpen
<1>2. ASSUME NEW p \in Proc PROVE Private(p) /\ Saved(p) /\ Looks(p)
  <2>1. pc[p] = "user" /\ disk_map = free_map
    BY <1>0
  <2>2. Place(p) = "user" /\ Mine(p) = {}
    BY <2>1 DEF Place, Mine, Bare, Building, Written
  <2> QED
    BY <2>1, <2>2 DEF Private, Saved, Looks, Building, Written
<1>3. Opened = {}
  BY <1>0 DEF Opened
<1>4. /\ pc \in [Proc -> Where] /\ loc \in [Proc -> Locals]
      /\ inode \in [Inode -> {None} \cup InodeStruct]
      /\ file \in [File -> {None} \cup FileStruct]
  BY <1>0, FilesysConstants DEF Where
<1> QED
  BY <1>0, <1>1, <1>2, <1>3, <1>4 DEF Rested, Live, Places

LEMMA RestNext == (AtRest => Rested)'
  BY RestIs, PTL

LEMMA PowerOffStep ==
    ASSUME FInv, PowerOff
    PROVE  FInv'
<1>0. TypeOK /\ Owned /\ NamedOnce /\ disk_map \subseteq Sector
  BY FilesysState DEF FInv
<1>1. /\ free_map' = disk_map /\ UNCHANGED <<disk, disk_map, slots>>
      /\ inode' = [i \in Inode |-> None] /\ file' = [f \in File |-> None]
      /\ pc' = [p \in Proc |-> "user"] /\ loc' = [p \in Proc |-> Idle] /\ panic' = FALSE
  BY DEF PowerOff, diskVars
<1>2. Rested'
  BY <1>1, RestNext DEF AtRest
<1>3. /\ ~panic' /\ InodesAgree' /\ FilesAreOpen' /\ Places' /\ Live' = Linked'
      /\ pc' \in [Proc -> Where] /\ loc' \in [Proc -> Locals]
      /\ inode' \in [Inode -> {None} \cup InodeStruct]
      /\ file' \in [File -> {None} \cup FileStruct]
  BY <1>2 DEF Rested
<1>4. TypeOK'
  BY <1>0, <1>1, <1>3 DEF TypeOK
<1>5. Owned'
  <2>1. Linked' = Linked
    BY <1>1 DEF Linked
  <2>2. \A s \in Linked : s \in Live /\ Extent(s) \subseteq disk_map
    BY <1>0 DEF Owned, Live
  <2> QED
    BY <1>0, <1>1, <1>3, <2>1, <2>2, OwnedKept
<1>6. NamedOnce'
  BY <1>0, <1>1 DEF NamedOnce
<1> QED
  BY <1>3, <1>4, <1>5, <1>6 DEF FInv

-----------------------------------------------------------------------------
(* The theorems.                                                           *)

LEMMA FilesysInit == Init => FInv
<1> SUFFICES ASSUME Init PROVE FInv
  OBVIOUS
<1>1. /\ disk = [s \in Sector |-> Zero] /\ disk_map = {} /\ free_map = {}
      /\ slots = [k \in 1..Slots |-> None]
  BY DEF Init
<1>2. Rested
  <2>1. AtRest
    BY DEF Init, AtRest
  <2> QED
    BY <2>1, RestIs
<1>3. /\ ~panic /\ InodesAgree /\ FilesAreOpen /\ Places /\ Live = Linked
      /\ pc \in [Proc -> Where] /\ loc \in [Proc -> Locals]
      /\ inode \in [Inode -> {None} \cup InodeStruct]
      /\ file \in [File -> {None} \cup FileStruct]
  BY <1>2 DEF Rested
<1>4. TypeOK
  BY <1>1, <1>3, FilesysConstants DEF TypeOK, Init
<1>5. Linked = {}
  BY <1>1 DEF Linked
<1>6. Owned /\ NamedOnce
  BY <1>1, <1>3, <1>5 DEF Owned, NamedOnce
<1> QED
  BY <1>3, <1>4, <1>6 DEF FInv

LEMMA FilesysStep == OneProcess /\ FInv /\ [Next]_vars => FInv'
<1> SUFFICES ASSUME OneProcess, FInv, [Next]_vars PROVE FInv'
  OBVIOUS
<1>1. ASSUME NEW p \in Proc, Step(p) PROVE FInv'
  <2>1. CASE \E n \in Name : Open(p, n) \/ Remove(p, n) \/ \E size \in Sizes : Create(p, n, size)
    <3>1. PICK n \in Name : Open(p, n) \/ Remove(p, n) \/ \E size \in Sizes : Create(p, n, size)
      BY <2>1
    <3>2. CASE Open(p, n)
      BY <3>2, FindStep DEF Open
    <3>3. CASE Remove(p, n)
      BY <3>3, FindStep DEF Remove
    <3>4. CASE \E size \in Sizes : Create(p, n, size)
      BY <3>4, CreateStep
    <3> QED
      BY <3>1, <3>2, <3>3, <3>4
  <2>2. CASE WriteMap(p) \/ AllocateData(p) \/ WriteInode(p) \/ WriteZero(p)
    BY <2>2, WriteMapStep, AllocateDataStep, WriteInodeStep, WriteZeroStep
  <2>3. CASE CreateFails(p)
    BY <2>3, MovesOn DEF CreateFails
  <2>4. CASE AddLookup(p)
    <3>1. PICK place : place = IF Lookup(loc[p].name) = {} THEN "slot" ELSE "undo"
      OBVIOUS
    <3>2. /\ place \in {"slot", "undo"} /\ Goto(p, place) /\ pc[p] = "lookup"
          /\ UNCHANGED <<diskVars, memVars, loc, panic>>
      BY <2>4, <3>1 DEF AddLookup
    <3> QED
      BY <3>2, MovesOn
  <2>5. CASE FindSlot(p) \/ WriteEntry(p) \/ Undo(p) \/ FreeData(p)
    BY <2>5, FindSlotStep, WriteEntryStep, UndoStep, FreeDataStep
  <2>6. CASE InodeOpen(p) \/ InodeOpenFails(p) \/ InodeRead(p) \/ FileOpenFails(p)
    BY <2>6, InodeOpenStep, InodeOpenFailsStep, InodeReadStep, FileOpenFailsStep
  <2>7. CASE EraseEntry(p) \/ InodeClose(p)
    BY <2>7, EraseEntryStep, InodeCloseStep
  <2>8. CASE \E f \in File : \/ FileOpen(p, f) \/ Close(p, f) \/ DenyWrite(p, f)
                             \/ \E v \in Value : Write(p, f, v)
                             \/ \E g \in File : Reopen(p, f, g) \/ Duplicate(p, f, g)
    <3>1. PICK f \in File : \/ FileOpen(p, f) \/ Close(p, f) \/ DenyWrite(p, f)
                            \/ \E v \in Value : Write(p, f, v)
                            \/ \E g \in File : Reopen(p, f, g) \/ Duplicate(p, f, g)
      BY <2>8
    <3>2. CASE FileOpen(p, f) \/ Close(p, f) \/ DenyWrite(p, f)
      BY <3>2, FileOpenStep, CloseStep, DenyWriteStep
    <3>3. CASE \E v \in Value : Write(p, f, v)
      BY <3>3, WriteStep
    <3>4. ASSUME NEW g \in File, Reopen(p, f, g) PROVE FInv'
      BY <3>4, AgainStep DEF Reopen
    <3>5. ASSUME NEW g \in File, Duplicate(p, f, g) PROVE FInv'
      <4>1. PICK deny : deny = file[f].deny_write
        OBVIOUS
      <4>2. Again(p, f, g, deny) /\ file[f] # None
        BY <3>5, <4>1 DEF Duplicate
      <4>3. deny \in BOOLEAN
        BY <4>1, <4>2, FileIs
      <4> QED
        BY <4>2, <4>3, AgainStep
    <3> QED
      BY <3>1, <3>2, <3>3, <3>4, <3>5
  <2> QED
    BY <1>1, <2>1, <2>2, <2>3, <2>4, <2>5, <2>6, <2>7, <2>8 DEF Step
<1>2. CASE PowerOff
  BY <1>2, PowerOffStep
<1>3. CASE UNCHANGED vars
  <2>1. UNCHANGED <<disk, disk_map, slots, free_map, inode, file, pc, loc, panic>>
    BY <1>3 DEF vars, diskVars, memVars
  <2>2. TypeOK' /\ ~panic'
    BY <2>1 DEF FInv, TypeOK
  <2>3. Owned' /\ NamedOnce'
    <3>1. Live' = Live /\ Linked' = Linked
      BY <2>1 DEF Live, Linked, Opened
    <3>2. Owned'
      BY <2>1, <3>1 DEF FInv, Owned, Extent
    <3>3. NamedOnce'
      BY <2>1, <3>1 DEF FInv, NamedOnce
    <3> QED
      BY <3>2, <3>3
  <2>4. InodesAgree' /\ FilesAreOpen'
    <3>1. Linked' = Linked /\ Opened' = Opened
      BY <2>1 DEF Linked, Opened
    <3>2. \A i \in Inode : Users(i)' = Users(i)
      BY <2>1 DEF Users
    <3>3. InodesAgree'
      BY <2>1, <3>1, <3>2, InodesStay DEF FInv
    <3> QED
      BY <2>1, <3>3 DEF FInv, FilesAreOpen
  <2>5. Places'
    <3> SUFFICES ASSUME NEW p \in Proc PROVE Private(p)' /\ Saved(p)' /\ Looks(p)'
      BY DEF Places
    <3>1. Private(p) /\ Saved(p) /\ Looks(p)
      BY DEF FInv, Places
    <3>2. Place(p)' = Place(p) /\ Data(p)' = Data(p)
      BY <2>1 DEF Place, Data
    <3>3. Mine(p)' = Mine(p)
      BY <2>1, <3>2 DEF Mine
    <3>4. Live' = Live /\ \A s \in Live : Extent(s)' = Extent(s)
      BY <2>1, ExtentsStay
    <3>5. Private(p)'
      <4>1. Mine(p)' \subseteq free_map' /\ \A s \in Live' : Mine(p)' \cap Extent(s)' = {}
        BY <2>1, <3>1, <3>3, <3>4 DEF Private
      <4> QED
        BY <2>1, <3>1, <3>2, <4>1 DEF Private
    <3>6. Saved(p)' /\ Looks(p)'
      BY <2>1, <3>1 DEF Saved, Looks
    <3> QED
      BY <3>5, <3>6
  <2> QED
    BY <2>2, <2>3, <2>4, <2>5 DEF FInv
<1> QED
  BY <1>1, <1>2, <1>3 DEF Next

\* In every state, with one process at a time in the file system, no ASSERT of the free
\* map has failed and the invariant above holds.
THEOREM FilesysInvariance == OneProcess => (Spec => []FInv)
<1>1. ASSUME OneProcess PROVE FInv /\ [Next]_vars => FInv'
  BY <1>1, FilesysStep
<1>2. ASSUME OneProcess PROVE Spec => []FInv
  BY <1>1, <1>2, FilesysInit, PTL DEF Spec
<1> QED
  BY <1>2

\* free_map_allocate, free_map_release and the order of the writes to the disk: at any
\* time when the power may go, the sectors of a file that has a name or is open are
\* taken in the free map and belong to no other file.
THEOREM SectorsAreTheirOwn == OneProcess => (Spec => []SectorsAreOwned)
<1>1. FInv => SectorsAreOwned
  <2> SUFFICES ASSUME FInv PROVE SectorsAreOwned
    OBVIOUS
  <2>1. TypeOK /\ Owned /\ Linked \subseteq Live /\ Live \subseteq Sector
    BY LiveSectors DEF FInv, Live
  <2> QED
    BY <2>1 DEF SectorsAreOwned, Owned, Live
<1>2. ASSUME OneProcess PROVE Spec => []SectorsAreOwned
  <2>1. Spec => []FInv
    BY <1>2, FilesysInvariance
  <2> QED
    BY <1>1, <2>1, PTL
<1> QED
  BY <1>2

\* inode_open, inode_close, inode_deny_write and inode_remove: an open file has one
\* inode, which counts its openers and deniers and is removed when no name leads to it.
THEOREM InodesCount == OneProcess => (Spec => []InodesAgree)
<1>1. FInv => InodesAgree
  BY DEF FInv
<1>2. ASSUME OneProcess PROVE Spec => []InodesAgree
  <2>1. Spec => []FInv
    BY <1>2, FilesysInvariance
  <2> QED
    BY <1>1, <2>1, PTL
<1> QED
  BY <1>2

-----------------------------------------------------------------------------
(* The refinement of Files.  A name is in the directory once, and not yet  *)
(* when a file of that name is being created; what was cleared stays so.   *)

Unique ==
    \A j, k \in 1..Slots :
        slots[j] # None /\ slots[k] # None /\ slots[j].name = slots[k].name => j = k
Blank(p, cnt) == \A k \in 0..cnt - 1 : disk[loc[p].start + k] = Zero
Clear(p) ==
    /\ pc[p] = "zero" => loc[p].slot <= loc[p].size /\ Blank(p, loc[p].slot)
    /\ pc[p] \in {"lookup", "slot", "entry"} => Blank(p, loc[p].size)
    /\ pc[p] \in {"slot", "entry"} =>
         \A k \in 1..Slots : slots[k] # None => slots[k].name # loc[p].name

NInv == Unique /\ \A p \in Proc : Clear(p)

LEMMA NothingCleared ==
    ASSUME NEW p, pc'[p] \notin {"zero", "lookup", "slot", "entry"}
    PROVE  Clear(p)'
  BY DEF Clear

\* A step of a process that has no file in the making, or leaves the place it has.
LEMMA NamesQuiet ==
    ASSUME NInv, OneProcess, NEW p \in Proc, slots' = slots,
           pc'[p] \notin {"zero", "lookup", "slot", "entry"}
    PROVE  NInv'
<1>1. \A q \in Proc : q = p
  BY DEF OneProcess
<1>2. Unique'
  BY DEF NInv, Unique
<1> QED
  BY <1>1, <1>2, NothingCleared DEF NInv

LEMMA NamesOfOne ==
    ASSUME OneProcess, NEW p \in Proc, Unique', Clear(p)'
    PROVE  NInv'
<1>1. \A q \in Proc : q = p
  BY DEF OneProcess
<1> QED
  BY <1>1 DEF NInv

LEMMA PlaceIs ==
    ASSUME FInv, NEW p \in Proc, NEW place, Goto(p, place)
    PROVE  pc'[p] = place
  BY FilesysState DEF FInv, Goto

LEMMA LocIs ==
    ASSUME FInv, NEW p \in Proc, NEW l, Set(p, l)
    PROVE  loc'[p] = l
  BY FilesysState DEF FInv, Set

LEMMA WriteInodeNames ==
    ASSUME FInv, NInv, OneProcess, NEW p \in Proc, WriteInode(p)
    PROVE  NInv'
<1>1. PICK l : l = [loc[p] EXCEPT !.slot = 0]
  OBVIOUS
<1>2. Goto(p, "zero") /\ Set(p, l) /\ slots' = slots /\ pc[p] = "inode"
  BY <1>1 DEF WriteInode
<1>3. pc'[p] = "zero" /\ loc'[p] = l
  BY <1>2, PlaceIs, LocIs
<1>4. l.slot = 0 /\ l.size \in Nat
  <2>1. loc[p] \in Locals /\ Private(p)
    BY Before
  <2>2. loc[p].size \in Sizes
    BY <1>2, <2>1 DEF Private, Place, Building, Written
  <2>3. l.slot = 0 /\ l.size = loc[p].size
    BY <1>1, <2>1, LocalsSlot
  <2> QED
    BY <2>2, <2>3, Numbers
<1>5. Clear(p)'
  <2>1. \A k \in 0..(0 - 1) : FALSE
    OBVIOUS
  <2> QED
    BY <1>3, <1>4, <2>1 DEF Clear, Blank
<1>6. Unique'
  BY <1>2 DEF NInv, Unique
<1> QED
  BY <1>5, <1>6, NamesOfOne

LEMMA WriteZeroNames ==
    ASSUME FInv, NInv, OneProcess, NEW p \in Proc, WriteZero(p)
    PROVE  NInv'
<1>0. /\ loc[p] \in Locals /\ pc[p] = "zero" /\ slots' = slots /\ Private(p) /\ Clear(p)
      /\ disk \in [Sector -> Value \cup InodeDisk] /\ free_map \subseteq Sector
  BY Before, FilesysState DEF WriteZero, NInv
<1>1. PICK l \in Locals : l = loc[p]
  BY <1>0
<1>2. l.size \in Nat /\ l.start \in Nat /\ l.slot \in Nat /\ l.slot <= l.size
  <2>1. l.size \in Sizes /\ l.slot <= l.size
    BY <1>0, <1>1 DEF Private, Place, Building, Written, Clear
  <2>2. l.start \in Sector \cup {0} /\ l.slot \in Nat
    BY DEF Locals
  <2> QED
    BY <2>1, <2>2, Numbers
<1>3. Unique'
  BY <1>0 DEF NInv, Unique
<1>4. CASE ~(l.slot < l.size)
  <2>1. Goto(p, "lookup") /\ UNCHANGED <<disk, loc>>
    BY <1>1, <1>4 DEF WriteZero
  <2>2. pc'[p] = "lookup" /\ l.slot = l.size
    BY <1>2, <1>4, <2>1, PlaceIs
  <2>3. Clear(p)'
    BY <1>0, <1>1, <2>1, <2>2 DEF Clear, Blank
  <2> QED
    BY <1>3, <2>3, NamesOfOne
<1>5. CASE l.slot < l.size
  <2>1. PICK m : m = [l EXCEPT !.slot = l.slot + 1]
    OBVIOUS
  <2>2. PICK d : d = l.start + l.slot
    OBVIOUS
  <2>3. /\ disk' = [disk EXCEPT ![d] = Zero] /\ Set(p, m) /\ pc' = pc
    <3>1. l.slot \in Zeroed(l.size)
      BY <1>2, <1>5 DEF Zeroed
    <3> QED
      BY <1>1, <1>5, <2>1, <2>2, <3>1 DEF WriteZero
  <2>4. /\ loc'[p] = m /\ m.slot = l.slot + 1 /\ m.size = l.size /\ m.start = l.start
    BY <1>2, <2>1, <2>3, LocIs, LocalsSlot
  <2>5. d \in Sector
    <3>1. Data(p) \subseteq Sector
      BY <1>0, <1>1 DEF Private, Mine, Place, Building, Written
    <3>2. d \in l.start..(l.start + l.size - 1)
      BY <1>2, <1>5, <2>2
    <3> QED
      BY <1>1, <3>1, <3>2 DEF Data, Run
  <2>6. ASSUME NEW k \in 0..m.slot - 1 PROVE disk'[m.start + k] = Zero
    <3>1. CASE k = l.slot
      BY <1>0, <2>2, <2>3, <2>4, <2>5, <3>1
    <3>2. CASE k # l.slot
      <4>1. k \in 0..l.slot - 1
        BY <1>2, <2>4, <3>2
      <4>2. disk[l.start + k] = Zero
        BY <1>0, <1>1, <4>1 DEF Clear, Blank
      <4>3. l.start + k # d
        BY <1>2, <2>2, <4>1
      <4> QED
        BY <1>0, <2>3, <2>4, <4>2, <4>3
    <3> QED
      BY <3>1, <3>2
  <2>7. m.slot <= m.size
    BY <1>2, <1>5, <2>4
  <2>8. Clear(p)'
    BY <1>0, <2>3, <2>4, <2>6, <2>7 DEF Clear, Blank
  <2> QED
    BY <1>3, <2>8, NamesOfOne
<1> QED
  BY <1>4, <1>5

LEMMA AddLookupNames ==
    ASSUME FInv, NInv, OneProcess, NEW p \in Proc, AddLookup(p)
    PROVE  NInv'
<1>1. /\ pc[p] = "lookup" /\ UNCHANGED <<slots, disk, loc>> /\ Clear(p)
      /\ Goto(p, IF Lookup(loc[p].name) = {} THEN "slot" ELSE "undo")
  BY DEF AddLookup, diskVars, NInv
<1>2. pc'[p] = IF Lookup(loc[p].name) = {} THEN "slot" ELSE "undo"
  BY <1>1, PlaceIs
<1>3. Unique'
  BY <1>1 DEF NInv, Unique
<1>4. CASE Lookup(loc[p].name) = {}
  <2>1. \A k \in 1..Slots : slots[k] # None => slots[k].name # loc[p].name
    BY <1>4 DEF Lookup
  <2>2. Clear(p)'
    BY <1>1, <1>2, <1>4, <2>1 DEF Clear, Blank
  <2> QED
    BY <1>3, <2>2, NamesOfOne
<1>5. CASE Lookup(loc[p].name) # {}
  BY <1>1, <1>2, <1>5, NamesQuiet
<1> QED
  BY <1>4, <1>5

LEMMA FindSlotNames ==
    ASSUME FInv, NInv, OneProcess, NEW p \in Proc, FindSlot(p)
    PROVE  NInv'
<1>1. PICK k : k = Min({j \in 1..Slots : slots[j] = None} \cup {Slots + 1})
  OBVIOUS
<1>2. PICK l : l = [loc[p] EXCEPT !.slot = k]
  OBVIOUS
<1>3. /\ pc[p] = "slot" /\ UNCHANGED <<slots, disk>> /\ Clear(p) /\ Goto(p, "entry") /\ Set(p, l)
  BY <1>1, <1>2 DEF FindSlot, diskVars, NInv
<1>4. pc'[p] = "entry" /\ loc'[p] = l
  BY <1>3, PlaceIs, LocIs
<1>5. l.start = loc[p].start /\ l.size = loc[p].size /\ l.name = loc[p].name
  BY <1>2, Before DEF Locals
<1>6. Unique'
  BY <1>3 DEF NInv, Unique
<1>7. Clear(p)'
  BY <1>3, <1>4, <1>5 DEF Clear, Blank
<1> QED
  BY <1>6, <1>7, NamesOfOne

LEMMA EraseEntryNames ==
    ASSUME FInv, NInv, OneProcess, NEW p \in Proc, EraseEntry(p)
    PROVE  NInv'
<1>1. PICK k : k = loc[p].slot
  OBVIOUS
<1>2. slots' = [slots EXCEPT ![k] = None] /\ CloseNext(p, loc[p].ino) /\ Unique
  BY <1>1 DEF EraseEntry, NInv
<1>3. pc'[p] = "close"
  BY <1>2, PlaceIs DEF CloseNext
<1>4. \A j \in 1..Slots : slots'[j] # None => slots'[j] = slots[j]
  BY <1>2, FilesysState DEF FInv
<1>5. Unique'
  BY <1>2, <1>4 DEF Unique
<1>6. Clear(p)'
  BY <1>3, NothingCleared
<1> QED
  BY <1>5, <1>6, NamesOfOne

LEMMA WriteEntryNames ==
    ASSUME FInv, NInv, OneProcess, NEW p \in Proc, WriteEntry(p)
    PROVE  NInv'
<1>0. pc[p] = "entry" /\ Clear(p) /\ Unique
  BY DEF WriteEntry, NInv
<1>1. CASE loc[p].slot > Slots
  <2>1. slots' = slots /\ pc'[p] = "undo"
    BY <1>1, PlaceIs DEF WriteEntry
  <2> QED
    BY <2>1, NamesQuiet
<1>2. CASE ~(loc[p].slot > Slots)
  <2>1. PICK e : e = [name |-> loc[p].name, sector |-> loc[p].sector]
    OBVIOUS
  <2>2. PICK k : k = loc[p].slot
    OBVIOUS
  <2>3. slots' = [slots EXCEPT ![k] = e] /\ Return(p)
    BY <1>2, <2>1, <2>2 DEF WriteEntry
  <2>4. pc'[p] = "user"
    BY <2>3, PlaceIs DEF Return
  <2>5. \A j \in 1..Slots : slots'[j] = slots[j] \/ (j = k /\ slots'[j] = e)
    BY <2>3, FilesysState DEF FInv
  <2>6. \A j \in 1..Slots : slots[j] # None => slots[j].name # e.name
    BY <1>0, <2>1 DEF Clear
  <2>7. Unique'
    BY <1>0, <2>5, <2>6 DEF Unique
  <2>8. Clear(p)'
    BY <2>4, NothingCleared
  <2> QED
    BY <2>7, <2>8, NamesOfOne
<1> QED
  BY <1>1, <1>2

\* Where the other steps lead.
Making == {"zero", "lookup", "slot", "entry"}

LEMMA LeadsNowhere ==
    ASSUME FInv, OneProcess, NEW p \in Proc,
           \/ WriteMap(p) \/ AllocateData(p) \/ CreateFails(p) \/ Undo(p) \/ FreeData(p)
           \/ \E n \in Name : Open(p, n) \/ Remove(p, n) \/ \E size \in Sizes : Create(p, n, size)
    PROVE  pc'[p] \notin Making /\ UNCHANGED <<disk, slots, inode, file>>
<1>0. Saved(p)
  BY Before
<1>1. CASE WriteMap(p)
  <2>1. CASE loc[p].then = "user"
    BY <1>1, <2>1, PlaceIs DEF WriteMap, Return, Making, memVars
  <2>2. CASE loc[p].then # "user"
    <3>1. pc'[p] = loc[p].then
      BY <1>1, <2>2, PlaceIs DEF WriteMap
    <3> QED
      BY <1>0, <1>1, <3>1 DEF Saved, WriteMap, Making, memVars
  <2> QED
    BY <2>1, <2>2
<1>2. CASE AllocateData(p)
  <2>1. Goto(p, "undo") \/ Goto(p, "map")
    BY <1>2 DEF AllocateData, SaveMap
  <2> QED
    BY <1>2, <2>1, PlaceIs DEF AllocateData, Making, diskVars
<1>3. CASE CreateFails(p)
  BY <1>3, PlaceIs DEF CreateFails, Making, diskVars, memVars
<1>4. ASSUME NEW sectors, NEW l, NEW next, Release(p, sectors, l, next), pc[p] \notin Making
      PROVE  pc'[p] \notin Making
  <2>1. CASE Goto(p, "map")
    BY <2>1, PlaceIs DEF Making
  <2> QED
    BY <1>4, <2>1 DEF Release, SaveMap
<1>5. CASE Undo(p)
  BY <1>4, <1>5 DEF Undo, Making, diskVars
<1>6. CASE FreeData(p)
  BY <1>4, <1>6 DEF FreeData, Making, diskVars
<1>7. ASSUME NEW n \in Name, NEW next, Find(p, n, next)
      PROVE  pc'[p] \notin Making /\ UNCHANGED <<disk, slots, inode, file>>
  BY <1>7, PlaceIs DEF Find, Making, diskVars, memVars
<1>8. ASSUME NEW n \in Name, NEW size \in Sizes, Create(p, n, size)
      PROVE  pc'[p] \notin Making /\ UNCHANGED <<disk, slots, inode, file>>
  BY <1>8, PlaceIs DEF Create, SaveMap, Making, diskVars
<1> QED
  BY <1>1, <1>2, <1>3, <1>5, <1>6, <1>7, <1>8 DEF Open, Remove

LEMMA AtInodeLeads ==
    ASSUME FInv, OneProcess, NEW p \in Proc,
           \/ InodeOpen(p) \/ InodeOpenFails(p) \/ InodeRead(p) \/ FileOpenFails(p) \/ InodeClose(p)
    PROVE  pc'[p] \notin Making /\ UNCHANGED <<disk, slots, file>>
<1>0. Looks(p)
  BY Before
<1>1. CASE InodeOpen(p)
  <2>1. /\ UNCHANGED <<disk, slots, file>> /\ loc[p].then \in {"open", "remove"}
        /\ Goto(p, loc[p].then) \/ Goto(p, "iread")
    BY <1>0, <1>1 DEF InodeOpen, diskVars, Looks
  <2> QED
    BY <2>1, PlaceIs DEF Making
<1>2. CASE InodeOpenFails(p)
  BY <1>2, PlaceIs DEF InodeOpenFails, Return, Making, diskVars, memVars
<1>3. CASE InodeRead(p)
  <2>1. UNCHANGED <<disk, slots, file>> /\ loc[p].then \in {"open", "remove"} /\ Goto(p, loc[p].then)
    BY <1>0, <1>3 DEF InodeRead, diskVars, Looks
  <2> QED
    BY <2>1, PlaceIs DEF Making
<1>4. CASE FileOpenFails(p)
  BY <1>4, PlaceIs DEF FileOpenFails, CloseNext, Making, diskVars, memVars
<1>5. CASE InodeClose(p)
  <2>1. /\ UNCHANGED <<disk, slots, file>> /\ pc[p] = "close"
        /\ Goto(p, "map") \/ Goto(p, "user") \/ pc' = pc
    BY <1>5 DEF InodeClose, diskVars, Release, SaveMap, Return
  <2>2. CASE pc' = pc
    BY <2>1, <2>2 DEF Making
  <2>3. CASE Goto(p, "map") \/ Goto(p, "user")
    BY <2>1, <2>3, PlaceIs DEF Making
  <2> QED
    BY <2>1, <2>2, <2>3
<1> QED
  BY <1>1, <1>2, <1>3, <1>4, <1>5

LEMMA FileLeads ==
    ASSUME FInv, OneProcess, NEW p \in Proc, NEW f \in File,
           \/ FileOpen(p, f) \/ Close(p, f) \/ DenyWrite(p, f) \/ \E v \in Value : Write(p, f, v)
           \/ \E g \in File : Reopen(p, f, g) \/ Duplicate(p, f, g)
    PROVE  pc'[p] \notin Making /\ slots' = slots
<1>1. CASE FileOpen(p, f)
  BY <1>1, PlaceIs DEF FileOpen, Return, Making, diskVars
<1>2. CASE Close(p, f)
  BY <1>2, PlaceIs DEF Close, CloseNext, Making, diskVars
<1>3. CASE DenyWrite(p, f)
  BY <1>3 DEF DenyWrite, Making, diskVars
<1>4. ASSUME NEW v \in Value, Write(p, f, v) PROVE pc'[p] \notin Making /\ slots' = slots
  BY <1>4 DEF Write, Making
<1>5. ASSUME NEW g \in File, NEW deny, Again(p, f, g, deny)
      PROVE  pc'[p] \notin Making /\ slots' = slots
  BY <1>5 DEF Again, Making, diskVars
<1> QED
  BY <1>1, <1>2, <1>3, <1>4, <1>5 DEF Reopen, Duplicate

LEMMA NamesStep == OneProcess /\ FInv /\ NInv /\ [Next]_vars => NInv'
<1> SUFFICES ASSUME OneProcess, FInv, NInv, [Next]_vars PROVE NInv'
  OBVIOUS
<1>1. ASSUME NEW p \in Proc, Step(p) PROVE NInv'
  <2>1. CASE \/ WriteMap(p) \/ AllocateData(p) \/ CreateFails(p) \/ Undo(p) \/ FreeData(p)
             \/ \E n \in Name : Open(p, n) \/ Remove(p, n) \/ \E size \in Sizes : Create(p, n, size)
    BY <2>1, LeadsNowhere, NamesQuiet DEF Making
  <2>2. CASE \/ InodeOpen(p) \/ InodeOpenFails(p) \/ InodeRead(p) \/ FileOpenFails(p)
             \/ InodeClose(p)
    BY <2>2, AtInodeLeads, NamesQuiet DEF Making
  <2>3. CASE WriteInode(p) \/ WriteZero(p) \/ AddLookup(p) \/ FindSlot(p)
    BY <2>3, WriteInodeNames, WriteZeroNames, AddLookupNames, FindSlotNames
  <2>4. CASE WriteEntry(p) \/ EraseEntry(p)
    BY <2>4, WriteEntryNames, EraseEntryNames
  <2>5. CASE \E f \in File : \/ FileOpen(p, f) \/ Close(p, f) \/ DenyWrite(p, f)
                             \/ \E v \in Value : Write(p, f, v)
                             \/ \E g \in File : Reopen(p, f, g) \/ Duplicate(p, f, g)
    <3>1. pc'[p] \notin Making /\ slots' = slots
      BY <2>5, FileLeads
    <3> QED
      BY <3>1, NamesQuiet DEF Making
  <2> QED
    BY <1>1, <2>1, <2>2, <2>3, <2>4, <2>5 DEF Step
<1>2. CASE PowerOff
  <2>1. slots' = slots /\ \A p \in Proc : pc'[p] = "user"
    BY <1>2 DEF PowerOff, diskVars
  <2> QED
    BY <2>1, NothingCleared DEF NInv, Unique
<1>3. CASE UNCHANGED vars
  BY <1>3 DEF vars, diskVars, memVars, NInv, Unique, Clear, Blank
<1> QED
  BY <1>1, <1>2, <1>3 DEF Next

LEMMA NamesInit == Init => NInv
  BY DEF Init, NInv, Unique, Clear

\* The files the names lead to, those of the file objects, and what they hold.
Mapped ==
    /\ \A n \in Name, k \in 1..Slots :
         slots[k] # None /\ slots[k].name = n => LinkOf[n] = slots[k].sector
    /\ \A n \in Name :
         (\A k \in 1..Slots : slots[k] # None => slots[k].name # n) => LinkOf[n] = None
    /\ \A f \in File : OpenOf[f] = SectorOf(f) /\ (OpenOf[f] = None <=> file[f] = None)
    /\ \A s : s \in Used <=> s \in Linked \/ \E f \in File : file[f] # None /\ SectorOf(f) = s
    /\ \A s \in Sector : s \in F!InUse <=> s \in Used
    /\ Used \subseteq Live /\ Used \subseteq Sector

LEMMA RangeOf ==
    ASSUME NEW S, NEW f, DOMAIN f = S
    PROVE  \A y : y \in Range(f) <=> \E x \in S : f[x] = y
  BY DEF Range

LEMMA LookupIs ==
    ASSUME NEW n
    PROVE  /\ \A k : k \in Lookup(n) <=> k \in 1..Slots /\ slots[k] # None /\ slots[k].name = n
           /\ Lookup(n) # {} => Min(Lookup(n)) \in Lookup(n)
<1>1. Lookup(n) \subseteq Nat
  BY FilesysConstants DEF Lookup
<1> QED
  BY <1>1, MinIs DEF Lookup

LEMMA NoneIsNoSector == None \notin Sector
  BY NoneAssumption

LEMMA MapIs == FInv /\ NInv => Mapped
<1> SUFFICES ASSUME FInv, NInv PROVE Mapped
  OBVIOUS
<1>0. TypeOK /\ Unique /\ FilesAreOpen /\ Live \subseteq Sector
  BY LiveSectors DEF FInv, NInv
<1>1. ASSUME NEW n \in Name, NEW k \in 1..Slots, slots[k] # None, slots[k].name = n
      PROVE  LinkOf[n] = slots[k].sector
  <2>1. k \in Lookup(n) /\ Min(Lookup(n)) \in Lookup(n)
    BY <1>1, LookupIs
  <2>2. Min(Lookup(n)) = k
    BY <1>0, <1>1, <2>1, LookupIs DEF Unique
  <2> QED
    BY <2>1, <2>2 DEF LinkOf
<1>2. ASSUME NEW n \in Name, \A k \in 1..Slots : slots[k] # None => slots[k].name # n
      PROVE  LinkOf[n] = None
  <2>1. Lookup(n) = {}
    BY <1>2, LookupIs
  <2> QED
    BY <2>1 DEF LinkOf
<1>3. ASSUME NEW f \in File, file[f] # None
      PROVE  SectorOf(f) \in Opened /\ SectorOf(f) \in Sector
  <2>1. file[f].inode \in Inode /\ inode[file[f].inode] # None
    BY <1>3, FileIs
  <2>2. SectorOf(f) \in Opened
    BY <1>3, <2>1, LinkedIs DEF SectorOf
  <2> QED
    BY <1>0, <2>2 DEF Live
<1>4. \A f \in File : OpenOf[f] = SectorOf(f) /\ (OpenOf[f] = None <=> file[f] = None)
  BY <1>3, NoneIsNoSector DEF OpenOf, SectorOf
<1>5. \A s : s \in Used <=> s \in Linked \/ \E f \in File : file[f] # None /\ SectorOf(f) = s
  BY <1>4 DEF Used
<1>6. Used \subseteq Live /\ Used \subseteq Sector
  BY <1>0, <1>3, <1>5 DEF Live
<1>7. ASSUME NEW s \in Sector PROVE s \in F!InUse <=> s \in Used
  <2>1. s \in F!InUse <=> s \in Range(LinkOf) \/ s \in Range(OpenOf)
    BY DEF F!InUse, F!Range, Range
  <2>2. s \in Range(LinkOf) <=> \E n \in Name : LinkOf[n] = s
    BY RangeOf DEF LinkOf
  <2>3. s \in Range(OpenOf) <=> \E f \in File : OpenOf[f] = s
    BY RangeOf DEF OpenOf
  <2>4. (\E n \in Name : LinkOf[n] = s) <=> s \in Linked
    <3>1. ASSUME NEW n \in Name, LinkOf[n] = s PROVE s \in Linked
      <4>1. Lookup(n) # {} /\ s = slots[Min(Lookup(n))].sector
        BY <3>1, NoneIsNoSector DEF LinkOf
      <4> QED
        BY <4>1, LookupIs, LinkedIs
    <3>2. ASSUME s \in Linked PROVE \E n \in Name : LinkOf[n] = s
      <4>1. PICK k \in 1..Slots : slots[k] # None /\ slots[k].sector = s
        BY <3>2, LinkedIs
      <4>2. slots[k].name \in Name
        BY <1>0, <4>1, FilesysState DEF Entry
      <4> QED
        BY <1>1, <4>1, <4>2
    <3> QED
      BY <3>1, <3>2
  <2>5. (\E f \in File : OpenOf[f] = s) <=> \E f \in File : file[f] # None /\ SectorOf(f) = s
    BY <1>4, NoneIsNoSector
  <2> QED
    BY <1>5, <2>1, <2>2, <2>3, <2>4, <2>5
<1> QED
  BY <1>1, <1>2, <1>4, <1>5, <1>6, <1>7 DEF Mapped

LEMMA MapNext == (FInv /\ NInv => Mapped)'
  BY MapIs, PTL

LEMMA LinkStays ==
    ASSUME slots' = slots
    PROVE  LinkOf' = LinkOf /\ Linked' = Linked
  BY DEF LinkOf, Lookup, Linked

\* A file whose sectors stay as they are keeps what it holds.
LEMMA HeldStays ==
    ASSUME FInv, NEW s \in Live, \A t \in Extent(s) : disk'[t] = disk[t]
    PROVE  Held(s)' = Held(s)
<1>1. disk[s] \in InodeDisk /\ s \in Extent(s)
  BY DEF FInv, Owned, Extent
<1>2. disk[s].start \in Nat /\ disk[s].length \in Nat
  <2>1. disk[s].start \in Sector \cup {0} /\ disk[s].length \in Sizes
    BY <1>1 DEF InodeDisk
  <2> QED
    BY <2>1, Numbers
<1>3. disk'[s] = disk[s]
  BY <1>1
<1>4. ASSUME NEW k \in 1..disk[s].length
      PROVE  disk'[disk[s].start + k - 1] = disk[disk[s].start + k - 1]
  <2>1. disk[s].start + k - 1 \in disk[s].start..(disk[s].start + disk[s].length - 1)
    BY <1>2
  <2> QED
    BY <2>1 DEF Extent, Run
<1> QED
  BY <1>3, <1>4 DEF Held

LEMMA ContentStays ==
    ASSUME Used' = Used, \A s \in Used : Held(s)' = Held(s)
    PROVE  ContentOf' = ContentOf
  BY DEF ContentOf

LEMMA KeepIs ==
    ASSUME FInv, NInv, FInv', NInv', Used' \subseteq Used, \A s \in Used' : Held(s)' = Held(s)
    PROVE  F!Keep
<1>1. \A s \in Sector : s \in F!InUse' <=> s \in Used'
  BY MapNext DEF Mapped
<1>2. \A s \in Sector : ContentOf'[s] = IF s \in F!InUse' THEN ContentOf[s] ELSE None
  BY <1>1 DEF ContentOf
<1>3. ContentOf' = [s \in Sector |-> IF s \in F!InUse' THEN ContentOf[s] ELSE None]
  BY <1>2 DEF ContentOf
<1> QED
  BY <1>3 DEF F!Keep

\* A step that changes no name and no file object, no file's sector, and nothing of
\* what the files hold.
LEMMA Stutters ==
    ASSUME FInv, NInv, FInv', NInv', UNCHANGED <<slots, file>>,
           \A f \in File : file[f] # None =>
               inode'[file[f].inode].sector = inode[file[f].inode].sector,
           \A s \in Used : \A t \in Extent(s) : disk'[t] = disk[t]
    PROVE  UNCHANGED <<LinkOf, OpenOf, Deniers, ContentOf>>
<1>1. \A f \in File : SectorOf(f)' = SectorOf(f)
  BY DEF SectorOf
<1>2. OpenOf' = OpenOf /\ Deniers' = Deniers
  BY <1>1 DEF OpenOf, Deniers
<1>3. LinkOf' = LinkOf /\ Linked' = Linked
  BY LinkStays
<1>4. Used' = Used
  BY <1>1, <1>3 DEF Used
<1>5. \A s \in Used : Held(s)' = Held(s)
  BY MapIs, HeldStays DEF Mapped
<1> QED
  BY <1>2, <1>3, <1>4, <1>5, ContentStays

-----------------------------------------------------------------------------
(* The steps of Filesys as steps of Files.                                 *)

\* What a step may assume, and what it shows.
Kept == OneProcess /\ FInv /\ NInv /\ FInv' /\ NInv'
Same == UNCHANGED <<LinkOf, OpenOf, Deniers, ContentOf>>

LEMMA KeptIs ==
    ASSUME Kept
    PROVE  /\ OneProcess /\ FInv /\ NInv /\ FInv' /\ NInv' /\ Mapped /\ Mapped'
           /\ None \notin Sector
  BY MapIs, MapNext, NoneIsNoSector DEF Kept

LEMMA QuietStutters ==
    ASSUME Kept, UNCHANGED <<disk, slots, inode, file>>
    PROVE  Same
  BY KeptIs, Stutters DEF Same

LEMMA InodeStutters ==
    ASSUME Kept, NEW p \in Proc, InodeOpen(p) \/ InodeRead(p) \/ InodeClose(p)
    PROVE  Same
<1>0. /\ TypeOK /\ Looks(p) /\ InodesAgree /\ OneProcess /\ FInv
      /\ inode \in [Inode -> {None} \cup InodeStruct]
  BY Before, FilesysState DEF Kept
<1>1. UNCHANGED <<disk, slots, file>>
  BY DEF InodeOpen, InodeRead, InodeClose, diskVars
<1>2. ASSUME NEW f \in File, file[f] # None
      PROVE  inode'[file[f].inode].sector = inode[file[f].inode].sector
  <2>1. PICK j : j = file[f].inode
    OBVIOUS
  <2>2. j \in Inode /\ inode[j] # None /\ inode[j] \in InodeStruct
    BY <1>0, <1>2, <2>1, FileIs
  <2>3. CASE InodeOpen(p)
    <3>1. CASE OpenInode(loc[p].sector) # {}
      <4>1. PICK i : i = Min(OpenInode(loc[p].sector))
        OBVIOUS
      <4>2. inode' = [inode EXCEPT ![i].open_cnt = @ + 1]
        BY <2>3, <3>1, <4>1 DEF InodeOpen
      <4> QED
        BY <1>0, <2>1, <2>2, <4>2 DEF InodeStruct
    <3>2. CASE OpenInode(loc[p].sector) = {}
      <4>1. PICK new : new = {i \in Inode : inode[i] = None}
        OBVIOUS
      <4>2. PICK r : r = [sector |-> loc[p].sector, open_cnt |-> 1, deny_write_cnt |-> 0,
                          removed |-> FALSE, data |-> None]
        OBVIOUS
      <4>3. new # {} /\ inode' = [inode EXCEPT ![Min(new)] = r]
        BY <2>3, <3>2, <4>1, <4>2 DEF InodeOpen
      <4>4. Min(new) \in new
        BY <4>1, <4>3, FilesysConstants, MinIs
      <4> QED
        BY <2>1, <2>2, <4>1, <4>3, <4>4
    <3> QED
      BY <3>1, <3>2
  <2>4. CASE InodeRead(p)
    <3>1. PICK i, d : i = loc[p].ino /\ d = disk[loc[p].sector]
      OBVIOUS
    <3>2. inode' = [inode EXCEPT ![i].data = d]
      BY <2>4, <3>1 DEF InodeRead
    <3> QED
      BY <1>0, <2>1, <2>2, <3>2 DEF InodeStruct
  <2>5. CASE InodeClose(p)
    <3>1. PICK i : i = loc[p].ino
      OBVIOUS
    <3>2. pc[p] = "close" /\ i \in Inode /\ inode[i] # None
      BY <1>0, <2>5, <3>1 DEF InodeClose, Looks
    <3>3. CASE inode[i].open_cnt = 1
      <4>1. inode' = [inode EXCEPT ![i] = None]
        BY <2>5, <3>1, <3>3 DEF InodeClose
      <4>2. inode[i].open_cnt = Cardinality(Openers(i)) + Cardinality(Users(i))
        BY <1>0, <3>2, AgreeIs DEF Agrees
      <4>3. Cardinality(Users(i)) = 1
        BY <1>0, <3>1, <3>2, UsersAre DEF UserPlaces
      <4>4. Cardinality(Openers(i)) = 0 /\ IsFiniteSet(Openers(i))
        BY <3>3, <4>2, <4>3, OpenersAre
      <4>5. Openers(i) = {}
        BY <4>4, FS_EmptySet
      <4>6. j # i
        BY <1>2, <2>1, <4>5, OpenersAre
      <4> QED
        BY <2>1, <2>2, <4>1, <4>6
    <3>4. CASE inode[i].open_cnt # 1
      <4>1. inode' = [inode EXCEPT ![i].open_cnt = @ - 1]
        BY <2>5, <3>1, <3>4 DEF InodeClose
      <4> QED
        BY <1>0, <2>1, <2>2, <4>1 DEF InodeStruct
    <3> QED
      BY <3>3, <3>4
  <2> QED
    BY <2>3, <2>4, <2>5
<1> QED
  BY <1>1, <1>2, KeptIs, Stutters DEF Same

\* The inode and the data of a file that has no name yet.
LEMMA MakingStutters ==
    ASSUME Kept, NEW p \in Proc, WriteInode(p) \/ WriteZero(p)
    PROVE  Same
<1>0. /\ loc[p] \in Locals /\ Private(p) /\ Clear(p) /\ FInv /\ OneProcess
      /\ disk \in [Sector -> Value \cup InodeDisk] /\ free_map \subseteq Sector
      /\ \A s \in Live : Extent(s) \subseteq free_map /\ Mine(p) \cap Extent(s) = {}
  BY Before, FilesysState DEF Kept, NInv
<1>1. PICK l \in Locals : l = loc[p]
  BY <1>0
<1>2. UNCHANGED <<slots, inode, file>>
  BY DEF WriteInode, WriteZero, memVars
<1>3. \A t \in Sector \ Mine(p) : disk'[t] = disk[t]
  <2>1. CASE WriteInode(p)
    <3>1. PICK r : r = [start |-> l.start, length |-> l.size]
      OBVIOUS
    <3>2. pc[p] = "inode" /\ disk' = [disk EXCEPT ![l.sector] = r]
      BY <1>1, <2>1, <3>1 DEF WriteInode
    <3>3. l.sector \in Mine(p)
      BY <1>1, <3>2 DEF Mine, Place, Building, Written, Bare
    <3> QED
      BY <1>0, <3>2, <3>3
  <2>2. CASE WriteZero(p)
    <3>1. /\ pc[p] = "zero"
          /\ disk' # disk => l.slot < l.size /\ disk' = [disk EXCEPT ![l.start + l.slot] = Zero]
      BY <1>1, <2>2 DEF WriteZero
    <3>2. CASE l.slot < l.size
      <4>1. l.size \in Nat /\ l.start \in Nat /\ l.slot \in Nat
        <5>1. l.size \in Sizes
          BY <1>0, <1>1, <3>1 DEF Private, Place, Building, Written
        <5>2. l.start \in Sector \cup {0} /\ l.slot \in Nat
          BY DEF Locals
        <5> QED
          BY <5>1, <5>2, Numbers
      <4>2. l.start + l.slot \in l.start..(l.start + l.size - 1)
        BY <3>2, <4>1
      <4>3. l.start + l.slot \in Mine(p)
        BY <1>1, <3>1, <4>2 DEF Mine, Data, Run, Place, Building, Written, Bare
      <4> QED
        BY <1>0, <3>1, <4>3
    <3>3. CASE ~(l.slot < l.size)
      BY <3>1, <3>3
    <3> QED
      BY <3>2, <3>3
  <2> QED
    BY <2>1, <2>2
<1>4. Used \subseteq Live
  BY KeptIs DEF Mapped
<1>5. \A s \in Used : \A t \in Extent(s) : disk'[t] = disk[t]
  BY <1>0, <1>3, <1>4
<1> QED
  BY <1>2, <1>5, KeptIs, Stutters DEF Same

\* A change of one entry changes where its name leads, and no other.
LEMMA LinkOthers ==
    ASSUME Kept, NEW k \in 1..Slots, NEW n,
           slots[k] # None => slots[k].name = n,
           slots'[k] # None => slots'[k].name = n,
           \A j \in (1..Slots) \ {k} : slots'[j] = slots[j]
    PROVE  \A m \in Name \ {n} : LinkOf'[m] = LinkOf[m]
<1> SUFFICES ASSUME NEW m \in Name \ {n} PROVE LinkOf'[m] = LinkOf[m]
  OBVIOUS
<1>1. CASE \E j \in 1..Slots : slots[j] # None /\ slots[j].name = m
  <2>1. PICK j \in 1..Slots : slots[j] # None /\ slots[j].name = m
    BY <1>1
  <2>2. j # k /\ slots'[j] = slots[j]
    BY <2>1
  <2>3. LinkOf[m] = slots[j].sector
    BY <2>1, KeptIs DEF Mapped
  <2>4. LinkOf'[m] = slots'[j].sector
    BY <2>1, <2>2, KeptIs DEF Mapped
  <2> QED
    BY <2>2, <2>3, <2>4
<1>2. CASE \A j \in 1..Slots : slots[j] # None => slots[j].name # m
  <2>1. \A j \in 1..Slots : slots'[j] # None => slots'[j].name # m
    BY <1>2
  <2>2. LinkOf[m] = None
    BY <1>2, KeptIs DEF Mapped
  <2>3. LinkOf'[m] = None
    BY <2>1, KeptIs DEF Mapped
  <2> QED
    BY <2>2, <2>3
<1> QED
  BY <1>1, <1>2

LEMMA LinkFunction == LinkOf = [n \in Name |-> LinkOf[n]] /\ DOMAIN LinkOf = Name
                      /\ LinkOf' = [n \in Name |-> LinkOf'[n]] /\ DOMAIN LinkOf' = Name
  BY DEF LinkOf

\* The name of a new file leads to it, and it holds zeros.
LEMMA WriteEntryIs ==
    ASSUME Kept, NEW p \in Proc, WriteEntry(p)
    PROVE  Same \/ \E n \in Name : F!Create(n)
<1>0. /\ Private(p) /\ Clear(p) /\ FInv /\ OneProcess /\ Mapped /\ Mapped'
      /\ loc[p] \in Locals /\ slots \in [1..Slots -> {None} \cup Entry] /\ free_map \subseteq Sector
      /\ Mine(p) \subseteq free_map /\ Mine(p) \cap Live = {} /\ pc[p] = "entry"
      /\ UNCHANGED <<disk, inode, file>>
  BY Before, FilesysState, KeptIs DEF NInv, WriteEntry, memVars
<1>1. CASE loc[p].slot > Slots
  <2>1. slots' = slots
    BY <1>1 DEF WriteEntry
  <2> QED
    BY <1>0, <2>1, QuietStutters
<1>2. CASE ~(loc[p].slot > Slots)
  <2>1. PICK l \in Locals : l = loc[p]
    BY <1>0
  <2>2. PICK e, k, s, n, size :
          /\ e = [name |-> l.name, sector |-> l.sector] /\ k = l.slot /\ s = l.sector
          /\ n = l.name /\ size = l.size
    OBVIOUS
  <2>3. slots' = [slots EXCEPT ![k] = e] /\ e.name = n /\ e.sector = s
    BY <1>2, <2>1, <2>2 DEF WriteEntry
  <2>4. /\ n \in Name /\ size \in Nat /\ l.start \in Nat /\ k \in 1..Slots
        /\ s \in Mine(p) /\ Data(p) \subseteq Mine(p) /\ Data(p) = Run(l.start, size)
        /\ disk[s] = [start |-> l.start, length |-> size]
        /\ \A j \in 1..Slots : slots[j] # None => slots[j].name # n
        /\ \A j \in 0..size - 1 : disk[l.start + j] = Zero
    <3>1. Place(p) = "entry"
      BY <1>0 DEF Place
    <3>2. /\ n \in Name /\ size \in Sizes /\ disk[s] = [start |-> l.start, length |-> size]
          /\ k \in 1..(Slots + 1)
      BY <1>0, <2>1, <2>2, <3>1 DEF Private, Building, Written
    <3>3. s \in Mine(p) /\ Data(p) \subseteq Mine(p) /\ Data(p) = Run(l.start, size)
      BY <2>1, <2>2, <3>1 DEF Mine, Data, Building, Written
    <3>4. /\ \A j \in 1..Slots : slots[j] # None => slots[j].name # n
          /\ \A j \in 0..size - 1 : disk[l.start + j] = Zero
      BY <1>0, <2>1, <2>2 DEF Clear, Blank
    <3>5. l.start \in Sector \cup {0}
      BY DEF Locals
    <3>6. k \in 1..Slots
      BY <1>2, <2>1, <2>2, <3>2, FilesysConstants
    <3> QED
      BY <3>2, <3>3, <3>4, <3>5, <3>6, Numbers
  <2>5. /\ s \in Sector /\ s \notin Used
    BY <1>0, <2>4 DEF Mapped
  <2>6. size \in 0..Sectors
    <3>1. CASE size = 0
      BY <3>1, FilesysConstants
    <3>2. CASE size # 0
      <4>1. /\ l.start \in l.start..(l.start + size - 1)
            /\ l.start + size - 1 \in l.start..(l.start + size - 1)
        BY <2>4, <3>2
      <4>2. l.start \in 1..Sectors /\ l.start + size - 1 \in 1..Sectors
        BY <1>0, <2>4, <4>1 DEF Run, Sector
      <4> QED
        BY <2>4, <4>2, FilesysConstants
    <3> QED
      BY <3>1, <3>2
  <2>7. slots[k] = None /\ slots'[k] = e /\ e # None /\ \A j \in (1..Slots) \ {k} : slots'[j] = slots[j]
    <3>1. k <= Slots
      BY <2>4, FilesysConstants
    <3>2. slots[k] = None
      BY <1>0, <2>1, <2>2, <3>1 DEF Private
    <3>3. e \in Entry
      BY <2>2, <2>4, <2>5 DEF Entry
    <3> QED
      BY <1>0, <2>3, <2>4, <3>2, <3>3, FilesysConstants
  <2>8. LinkOf[n] = None /\ LinkOf' = [LinkOf EXCEPT ![n] = s]
    <3>1. LinkOf[n] = None /\ LinkOf'[n] = s
      BY <1>0, <2>3, <2>4, <2>7 DEF Mapped
    <3>2. \A m \in Name \ {n} : LinkOf'[m] = LinkOf[m]
      BY <2>3, <2>4, <2>7, LinkOthers
    <3> QED
      BY <3>1, <3>2, LinkFunction
  <2>9. UNCHANGED <<OpenOf, Deniers>> /\ \A f \in File : SectorOf(f)' = SectorOf(f)
    BY <1>0 DEF OpenOf, Deniers, SectorOf
  <2>10. \A t : t \in Used' <=> t \in Used \/ t = s
    <3>1. \A t : t \in Linked' <=> t \in Linked \/ t = s
      <4>1. \A t : t \in Linked' <=> \E j \in 1..Slots : slots'[j] # None /\ slots'[j].sector = t
        BY DEF Linked
      <4> QED
        BY <2>3, <2>4, <2>7, <4>1, LinkedIs
    <3> QED
      BY <1>0, <2>9, <3>1 DEF Mapped
  <2>11. \A t \in Sector : Held(t)' = Held(t)
    BY <1>0 DEF Held
  <2>12. Held(s) = [j \in 1..size |-> Zero]
    <3>1. disk[s].start = l.start /\ disk[s].length = size
      BY <2>4
    <3>2. ASSUME NEW j \in 1..size PROVE disk[l.start + j - 1] = Zero
      <4>1. j - 1 \in 0..size - 1 /\ l.start + (j - 1) = l.start + j - 1
        BY <2>4
      <4> QED
        BY <2>4, <4>1
    <3> QED
      BY <3>1, <3>2 DEF Held
  <2>13. ContentOf' = [ContentOf EXCEPT ![s] = [j \in 1..size |-> Zero]]
    BY <2>5, <2>10, <2>11, <2>12 DEF ContentOf
  <2>14. s \in Sector \ F!InUse
    BY <1>0, <2>5 DEF Mapped
  <2>15. F!Create(n)
    BY <2>6, <2>8, <2>9, <2>13, <2>14 DEF F!Create
  <2> QED
    BY <2>4, <2>15
<1> QED
  BY <1>1, <1>2

LEMMA EraseEntryIs ==
    ASSUME Kept, NEW p \in Proc, EraseEntry(p)
    PROVE  \E n \in Name : F!Remove(n)
<1>0. /\ Looks(p) /\ FInv /\ OneProcess /\ Mapped /\ Mapped' /\ Unique /\ pc[p] = "remove"
      /\ slots \in [1..Slots -> {None} \cup Entry]
      /\ inode \in [Inode -> {None} \cup InodeStruct] /\ UNCHANGED <<disk, file>>
  BY Before, FilesysState, KeptIs DEF NInv, EraseEntry
<1>1. PICK i, k, n : i = loc[p].ino /\ k = loc[p].slot /\ n = slots[k].name
  OBVIOUS
<1>2. /\ slots' = [slots EXCEPT ![k] = None] /\ inode' = [inode EXCEPT ![i].removed = TRUE]
  BY <1>1 DEF EraseEntry
<1>3. /\ k \in 1..Slots /\ slots[k] # None /\ i \in Inode /\ inode[i] # None
  BY <1>0, <1>1 DEF Looks
<1>4. slots[k] \in Entry /\ n \in Name
  <2>1. slots[k] \in Entry
    BY <1>0, <1>3
  <2> QED
    BY <1>1, <2>1 DEF Entry
<1>5. slots'[k] = None /\ \A j \in (1..Slots) \ {k} : slots'[j] = slots[j]
  BY <1>0, <1>2, <1>3
<1>6. \A j \in 1..Slots : slots'[j] # None => slots'[j].name # n
  BY <1>0, <1>1, <1>3, <1>5 DEF Unique
<1>7. LinkOf' = [LinkOf EXCEPT ![n] = None]
  <2>1. LinkOf'[n] = None
    BY <1>0, <1>4, <1>6 DEF Mapped
  <2>2. \A m \in Name \ {n} : LinkOf'[m] = LinkOf[m]
    BY <1>1, <1>3, <1>5, LinkOthers
  <2> QED
    BY <2>1, <2>2, LinkFunction
<1>8. \A f \in File : SectorOf(f)' = SectorOf(f)
  <2>1. ASSUME NEW j \in Inode, inode[j] # None PROVE inode'[j].sector = inode[j].sector
    <3>1. inode[j] \in InodeStruct
      BY <1>0, <2>1
    <3> QED
      BY <1>0, <1>2, <3>1 DEF InodeStruct
  <2>2. \A f \in File : file[f] # None => file[f].inode \in Inode /\ inode[file[f].inode] # None
    BY <1>0, FileIs
  <2> QED
    BY <1>0, <2>1, <2>2 DEF SectorOf
<1>9. UNCHANGED <<OpenOf, Deniers>>
  BY <1>0, <1>8 DEF OpenOf, Deniers
<1>10. Used' \subseteq Used
  <2>1. \A t : t \in Linked' <=> \E j \in 1..Slots : slots'[j] # None /\ slots'[j].sector = t
    BY DEF Linked
  <2>2. Linked' \subseteq Linked
    BY <1>5, <2>1, LinkedIs
  <2> QED
    BY <1>0, <1>8, <2>2 DEF Mapped
<1>11. F!Keep
  <2>1. \A s \in Used' : Held(s)' = Held(s)
    BY <1>0 DEF Held
  <2> QED
    BY <1>10, <2>1, KeptIs, KeepIs
<1>12. F!Remove(n)
  BY <1>7, <1>9, <1>11 DEF F!Remove
<1> QED
  BY <1>4, <1>12

LEMMA OpenFunction ==
    /\ OpenOf = [f \in File |-> OpenOf[f]] /\ DOMAIN OpenOf = File
    /\ OpenOf' = [f \in File |-> OpenOf'[f]] /\ DOMAIN OpenOf' = File
    /\ \A f \in File : OpenOf[f] = SectorOf(f) /\ OpenOf'[f] = SectorOf(f)'
    /\ \A f : f \in Deniers <=> f \in File /\ file[f] # None /\ file[f].deny_write
    /\ \A f : f \in Deniers' <=> f \in File /\ file'[f] # None /\ file'[f].deny_write
  BY DEF OpenOf, Deniers

\* A step that opens files that are in use or leaves those that are open.
LEMMA ContentKept ==
    ASSUME Kept, UNCHANGED <<disk, slots>>,
           \A f \in File : file'[f] # None => SectorOf(f)' \in Used,
           \A f \in File : file[f] # None => file'[f] # None /\ SectorOf(f)' = SectorOf(f)
    PROVE  UNCHANGED <<LinkOf, ContentOf>>
<1>1. LinkOf' = LinkOf /\ Linked' = Linked
  BY LinkStays
<1>2. Used' = Used
  <2>1. \A s : s \in Used' <=> s \in Used
    BY <1>1, KeptIs DEF Mapped
  <2> QED
    BY <2>1
<1>3. \A s \in Used : Held(s)' = Held(s)
  BY DEF Held
<1> QED
  BY <1>1, <1>2, <1>3, ContentStays

LEMMA FileOpenIs ==
    ASSUME Kept, NEW p \in Proc, NEW f \in File, FileOpen(p, f)
    PROVE  F!Open(f)
<1>0. /\ Looks(p) /\ FInv /\ OneProcess /\ Mapped /\ None \notin Sector
      /\ file \in [File -> {None} \cup FileStruct]
      /\ pc[p] = "open" /\ file[f] = None /\ UNCHANGED <<disk, slots, inode>>
  BY Before, FilesysState, KeptIs DEF FileOpen, diskVars
<1>1. PICK i, r : i = loc[p].ino /\ r = [inode |-> i, deny_write |-> FALSE]
  OBVIOUS
<1>2. file' = [file EXCEPT ![f] = r] /\ r.inode = i /\ ~r.deny_write
  BY <1>1 DEF FileOpen
<1>3. i \in Inode /\ inode[i].sector \in Linked
  BY <1>0, <1>1, LinkedIs DEF Looks
<1>4. r # None
  <2>1. r \in FileStruct
    BY <1>1, <1>3 DEF FileStruct
  <2> QED
    BY <2>1, FilesysConstants
<1>5. file'[f] = r /\ \A g \in File \ {f} : file'[g] = file[g]
  BY <1>0, <1>2
<1>6. SectorOf(f)' = inode[i].sector /\ \A g \in File \ {f} : SectorOf(g)' = SectorOf(g)
  BY <1>0, <1>2, <1>4, <1>5 DEF SectorOf
<1>7. \A g \in File : file[g] # None => SectorOf(g) \in Used
  BY <1>0 DEF Mapped
<1>8. UNCHANGED <<LinkOf, ContentOf>>
  BY <1>0, <1>3, <1>5, <1>6, <1>7, ContentKept DEF Used
<1>9. OpenOf[f] = None /\ OpenOf' = [OpenOf EXCEPT ![f] = inode[i].sector]
  BY <1>0, <1>6, OpenFunction DEF SectorOf
<1>10. Deniers' = Deniers
  <2>1. \A g : g \in Deniers' <=> g \in Deniers
    BY <1>0, <1>2, <1>5, OpenFunction
  <2> QED
    BY <2>1
<1>11. inode[i].sector \in F!InUse \ {None}
  BY <1>0, <1>3 DEF Mapped, Used
<1> QED
  BY <1>8, <1>9, <1>10, <1>11 DEF F!Open

LEMMA AgainIs ==
    ASSUME Kept, NEW p \in Proc, NEW f \in File, NEW g \in File, NEW deny \in BOOLEAN,
           Again(p, f, g, deny)
    PROVE  F!Open(g)
<1>0. /\ FInv /\ OneProcess /\ Mapped /\ None \notin Sector
      /\ file \in [File -> {None} \cup FileStruct]
      /\ inode \in [Inode -> {None} \cup InodeStruct]
      /\ file[f] # None /\ file[g] = None /\ UNCHANGED <<disk, slots>>
  BY Before, FilesysState, KeptIs DEF Again, diskVars
<1>1. PICK i, r : i = file[f].inode /\ r = [inode |-> i, deny_write |-> deny]
  OBVIOUS
<1>2. file' = [file EXCEPT ![g] = r] /\ r.inode = i /\ r.deny_write = deny
  BY <1>1 DEF Again
<1>3. i \in Inode /\ inode[i] # None
  BY <1>0, <1>1, FileIs
<1>4. r # None
  <2>1. r \in FileStruct
    BY <1>1, <1>3 DEF FileStruct
  <2> QED
    BY <2>1, FilesysConstants
<1>5. file'[g] = r /\ \A h \in File \ {g} : file'[h] = file[h]
  BY <1>0, <1>2
<1>6. ASSUME NEW j \in Inode, inode[j] # None PROVE inode'[j].sector = inode[j].sector
  <2>1. inode[j] \in InodeStruct
    BY <1>0, <1>6
  <2>2. inode' = [inode EXCEPT ![i].open_cnt = @ + 1,
                               ![i].deny_write_cnt = IF deny THEN @ + 1 ELSE @]
    BY <1>1 DEF Again
  <2> QED
    BY <1>0, <1>3, <2>1, <2>2 DEF InodeStruct
<1>7. \A h \in File : file[h] # None => file[h].inode \in Inode /\ inode[file[h].inode] # None
  BY <1>0, FileIs
<1>8. SectorOf(g)' = SectorOf(f) /\ \A h \in File \ {g} : SectorOf(h)' = SectorOf(h)
  BY <1>0, <1>1, <1>2, <1>3, <1>4, <1>5, <1>6, <1>7 DEF SectorOf
<1>9. \A h \in File : file[h] # None => SectorOf(h) \in Used
  BY <1>0 DEF Mapped
<1>10. UNCHANGED <<LinkOf, ContentOf>>
  BY <1>0, <1>5, <1>8, <1>9, ContentKept
<1>11. OpenOf[g] = None /\ OpenOf' = [OpenOf EXCEPT ![g] = SectorOf(f)]
  BY <1>0, <1>8, OpenFunction DEF SectorOf
<1>12. Deniers' = IF deny THEN Deniers \cup {g} ELSE Deniers
  <2>1. \A h : h \in Deniers' <=> h \in Deniers \/ (h = g /\ deny)
    BY <1>0, <1>2, <1>4, <1>5, OpenFunction
  <2> QED
    BY <2>1
<1>13. SectorOf(f) \in F!InUse \ {None}
  BY <1>0, <1>9 DEF Mapped
<1> QED
  BY <1>10, <1>11, <1>12, <1>13 DEF F!Open

LEMMA DenyWriteIs ==
    ASSUME Kept, NEW p \in Proc, NEW f \in File, DenyWrite(p, f)
    PROVE  F!Lock(f)
<1>0. /\ FInv /\ OneProcess /\ Mapped
      /\ file \in [File -> {None} \cup FileStruct]
      /\ inode \in [Inode -> {None} \cup InodeStruct]
      /\ file[f] # None /\ UNCHANGED <<disk, slots>>
  BY Before, FilesysState, KeptIs DEF DenyWrite, diskVars
<1>1. PICK i, r : i = file[f].inode /\ r = [file[f] EXCEPT !.deny_write = TRUE]
  OBVIOUS
<1>2. file' = [file EXCEPT ![f] = r] /\ inode' = [inode EXCEPT ![i].deny_write_cnt = @ + 1]
  BY <1>1 DEF DenyWrite
<1>3. r \in FileStruct /\ r # None /\ r.inode = i /\ r.deny_write
  BY <1>0, <1>1, FileIs, FilesysConstants DEF FileStruct
<1>4. file'[f] = r /\ \A h \in File \ {f} : file'[h] = file[h]
  BY <1>0, <1>2
<1>5. ASSUME NEW j \in Inode, inode[j] # None PROVE inode'[j].sector = inode[j].sector
  <2>1. inode[j] \in InodeStruct
    BY <1>0, <1>5
  <2> QED
    BY <1>0, <1>2, <2>1 DEF InodeStruct
<1>6. \A h \in File : file[h] # None => file[h].inode \in Inode /\ inode[file[h].inode] # None
  BY <1>0, FileIs
<1>7. ASSUME NEW h \in File PROVE SectorOf(h)' = SectorOf(h)
  <2>1. (file'[h] = None <=> file[h] = None) /\ file'[h].inode = file[h].inode
    BY <1>0, <1>1, <1>3, <1>4
  <2>2. file[h] # None => inode'[file[h].inode].sector = inode[file[h].inode].sector
    BY <1>5, <1>6
  <2> QED
    BY <2>1, <2>2 DEF SectorOf
<1>8. \A h \in File : file[h] # None => SectorOf(h) \in Used
  BY <1>0 DEF Mapped
<1>9. UNCHANGED <<LinkOf, ContentOf>>
  BY <1>0, <1>3, <1>4, <1>7, <1>8, ContentKept
<1>10. OpenOf' = OpenOf /\ OpenOf[f] # None
  BY <1>0, <1>7, OpenFunction DEF Mapped
<1>11. Deniers' = Deniers \cup {f}
  <2>1. \A h : h \in Deniers' <=> h \in Deniers \/ h = f
    BY <1>0, <1>3, <1>4, OpenFunction
  <2> QED
    BY <2>1
<1> QED
  BY <1>9, <1>10, <1>11 DEF F!Lock

LEMMA CloseIs ==
    ASSUME Kept, NEW p \in Proc, NEW f \in File, Close(p, f)
    PROVE  F!Close(f)
<1>0. /\ FInv /\ OneProcess /\ Mapped /\ Mapped'
      /\ file \in [File -> {None} \cup FileStruct]
      /\ inode \in [Inode -> {None} \cup InodeStruct]
      /\ file[f] # None /\ UNCHANGED <<disk, slots>>
  BY Before, FilesysState, KeptIs DEF Close, diskVars
<1>1. PICK i, n : i = file[f].inode /\ n = inode[i].deny_write_cnt - Allowed(f)
  OBVIOUS
<1>2. file' = [file EXCEPT ![f] = None] /\ inode' = [inode EXCEPT ![i].deny_write_cnt = n]
  BY <1>1 DEF Close
<1>3. file'[f] = None /\ \A h \in File \ {f} : file'[h] = file[h]
  BY <1>0, <1>2
<1>4. ASSUME NEW j \in Inode, inode[j] # None PROVE inode'[j].sector = inode[j].sector
  <2>1. inode[j] \in InodeStruct
    BY <1>0, <1>4
  <2> QED
    BY <1>0, <1>2, <2>1 DEF InodeStruct
<1>5. \A h \in File : file[h] # None => file[h].inode \in Inode /\ inode[file[h].inode] # None
  BY <1>0, FileIs
<1>6. SectorOf(f)' = None /\ \A h \in File \ {f} : SectorOf(h)' = SectorOf(h)
  BY <1>0, <1>3, <1>4, <1>5 DEF SectorOf
<1>7. LinkOf' = LinkOf /\ Linked' = Linked
  BY <1>0, LinkStays
<1>8. OpenOf' = [OpenOf EXCEPT ![f] = None]
  BY <1>6, OpenFunction
<1>9. Deniers' = Deniers \ {f}
  <2>1. \A h : h \in Deniers' <=> h \in Deniers /\ h # f
    BY <1>0, <1>3, OpenFunction
  <2> QED
    BY <2>1
<1>10. Used' \subseteq Used
  BY <1>0, <1>3, <1>6, <1>7 DEF Mapped
<1>11. F!Keep
  <2>1. \A s \in Used' : Held(s)' = Held(s)
    BY <1>0 DEF Held
  <2> QED
    BY <1>10, <2>1, KeptIs, KeepIs
<1> QED
  BY <1>7, <1>8, <1>9, <1>11 DEF F!Close

LEMMA PowerOffIs ==
    ASSUME Kept, PowerOff
    PROVE  F!PowerOff
<1>0. /\ file' = [f \in File |-> None] /\ UNCHANGED <<disk, slots>> /\ Mapped /\ Mapped'
  BY KeptIs DEF PowerOff, diskVars
<1>1. LinkOf' = LinkOf /\ Linked' = Linked
  BY <1>0, LinkStays
<1>2. OpenOf' = [f \in File |-> None]
  <2>1. \A f \in File : SectorOf(f)' = None
    BY <1>0 DEF SectorOf
  <2> QED
    BY <2>1, OpenFunction
<1>3. Deniers' = {}
  BY <1>0, OpenFunction
<1>4. Used' \subseteq Used
  BY <1>0, <1>1 DEF Mapped
<1>5. F!Keep
  <2>1. \A s \in Used' : Held(s)' = Held(s)
    BY <1>0 DEF Held
  <2> QED
    BY <1>4, <2>1, KeptIs, KeepIs
<1> QED
  BY <1>1, <1>2, <1>3, <1>5 DEF F!PowerOff

\* Nobody denies the writing of an inode whose count is zero.
LEMMA WriteIs ==
    ASSUME Kept, NEW p \in Proc, NEW f \in File, NEW v \in Value, Write(p, f, v)
    PROVE  F!Write(f, v)
<1>0. /\ FInv /\ OneProcess /\ Mapped /\ InodesAgree /\ Owned
      /\ disk \in [Sector -> Value \cup InodeDisk] /\ free_map \subseteq Sector
      /\ pc[p] = "user" /\ file[f] # None /\ UNCHANGED <<slots, inode, file>>
      /\ \A s \in Live : s \in Sector /\ disk[s] \in InodeDisk /\ s \in Extent(s)
                         /\ Extent(s) \subseteq free_map
  BY Before, FilesysState, KeptIs DEF Write, memVars
<1>1. PICK i, s : i = file[f].inode /\ s = inode[i].sector
  OBVIOUS
<1>2. PICK k \in 0..inode[i].data.length - 1 :
        /\ inode[i].deny_write_cnt = 0 /\ inode[i].data # None
        /\ disk' = [disk EXCEPT ![inode[i].data.start + k] = v]
  BY <1>1 DEF Write
<1>3. i \in Inode /\ inode[i] # None /\ Agrees(i) /\ Distinct
  <2>1. i \in Inode /\ inode[i] # None
    BY <1>0, <1>1, FileIs
  <2> QED
    BY <1>0, <2>1, AgreeIs
<1>4. s = SectorOf(f) /\ s \in Used /\ s \in Live
  BY <1>0, <1>1 DEF Mapped, SectorOf
<1>5. inode[i].data = disk[s]
  <2>1. Users(i) = {}
    BY <1>0, UsersAre DEF UserPlaces
  <2> QED
    BY <1>1, <1>3, <2>1 DEF Agrees
<1>6. PICK a, n : a = disk[s].start /\ n = disk[s].length
  OBVIOUS
<1>7. a \in Nat /\ n \in Nat /\ k \in 0..n - 1 /\ a + k \in Run(a, n)
  <2>1. a \in Sector \cup {0} /\ n \in Sizes
    BY <1>0, <1>4, <1>6 DEF InodeDisk
  <2>2. a \in Nat /\ n \in Nat
    BY <2>1, Numbers
  <2> QED
    BY <1>2, <1>5, <1>6, <2>2 DEF Run
<1>8. PICK d : d = a + k
  OBVIOUS
<1>9. /\ d \in Extent(s) /\ d # s /\ d \in Sector /\ disk' = [disk EXCEPT ![d] = v]
  BY <1>0, <1>2, <1>4, <1>5, <1>6, <1>7, <1>8 DEF Extent, Owned
<1>10. disk'[d] = v /\ \A t \in Sector \ {d} : disk'[t] = disk[t]
  BY <1>0, <1>9
\* The file's sector that is written, and the others.
<1>11. Held(s)' = [Held(s) EXCEPT ![k + 1] = v] /\ k + 1 \in DOMAIN Held(s)
  <2>1. disk'[s].start = a /\ disk'[s].length = n
    BY <1>0, <1>4, <1>6, <1>9, <1>10
  <2>2. ASSUME NEW j \in 1..n
        PROVE  disk'[a + j - 1] = IF j = k + 1 THEN v ELSE disk[a + j - 1]
    <3>1. a + j - 1 \in a..(a + n - 1)
      BY <1>7
    <3>2. a + j - 1 \in Sector
      BY <1>0, <1>4, <1>6, <3>1 DEF Extent, Run
    <3>3. a + j - 1 = d <=> j = k + 1
      BY <1>7, <1>8
    <3> QED
      BY <1>10, <3>2, <3>3
  <2>3. Held(s) = [j \in 1..n |-> disk[a + j - 1]] /\ Held(s)' = [j \in 1..n |-> disk'[a + j - 1]]
    BY <1>6, <2>1 DEF Held
  <2>4. k + 1 \in 1..n
    BY <1>7
  <2> QED
    BY <2>2, <2>3, <2>4
<1>12. ASSUME NEW t \in Used, t # s PROVE Held(t)' = Held(t)
  <2>1. t \in Live
    BY <1>0, <1>12 DEF Mapped
  <2>2. d \notin Extent(t)
    BY <1>0, <1>4, <1>9, <1>12, <2>1 DEF Owned
  <2>3. \A u \in Extent(t) : disk'[u] = disk[u]
    BY <1>0, <1>10, <2>1, <2>2
  <2> QED
    BY <1>0, <2>1, <2>3, HeldStays
<1>13. UNCHANGED <<LinkOf, OpenOf, Deniers>> /\ Used' = Used
  <2>1. LinkOf' = LinkOf /\ Linked' = Linked
    BY <1>0, LinkStays
  <2>2. \A g \in File : SectorOf(g)' = SectorOf(g)
    BY <1>0 DEF SectorOf
  <2> QED
    BY <1>0, <2>1, <2>2 DEF OpenOf, Deniers, Used
<1>14. ContentOf[s] = Held(s) /\ ContentOf' = [ContentOf EXCEPT ![s] = [Held(s) EXCEPT ![k + 1] = v]]
  <2>1. s \in Sector /\ ContentOf[s] = Held(s) /\ ContentOf'[s] = [Held(s) EXCEPT ![k + 1] = v]
    BY <1>0, <1>4, <1>11, <1>13 DEF ContentOf
  <2>2. \A t \in Sector \ {s} : ContentOf'[t] = ContentOf[t]
    BY <1>12, <1>13 DEF ContentOf
  <2>3. /\ ContentOf = [t \in Sector |-> ContentOf[t]]
        /\ ContentOf' = [t \in Sector |-> ContentOf'[t]] /\ DOMAIN ContentOf = Sector
    BY DEF ContentOf
  <2> QED
    BY <2>1, <2>2, <2>3
<1>15. OpenOf[f] = s /\ OpenOf[f] # None
  BY <1>0, <1>4, OpenFunction DEF Mapped
<1>16. ASSUME NEW g \in Deniers, OpenOf[g] = OpenOf[f] PROVE FALSE
  <2>1. g \in File /\ file[g] # None /\ file[g].deny_write
    BY OpenFunction
  <2>2. file[g].inode \in Inode /\ inode[file[g].inode] # None /\ inode[file[g].inode].sector = s
    BY <1>0, <1>15, <1>16, <2>1, FileIs, OpenFunction DEF SectorOf
  <2>3. file[g].inode = i
    BY <1>1, <1>3, <2>2 DEF Distinct
  <2>4. g \in Denying(i)
    BY <2>1, <2>3, OpenersAre
  <2>5. Denying(i) = {}
    <3>1. Cardinality(Denying(i)) = 0 /\ IsFiniteSet(Denying(i))
      BY <1>2, <1>3, OpenersAre DEF Agrees
    <3> QED
      BY <3>1, FS_EmptySet
  <2> QED
    BY <2>4, <2>5
<1>17. \E j \in DOMAIN ContentOf[OpenOf[f]] : ContentOf' = [ContentOf EXCEPT ![OpenOf[f]][j] = v]
  BY <1>11, <1>14, <1>15
<1> QED
  BY <1>13, <1>15, <1>16, <1>17 DEF F!Write

LEMMA FilesStep ==
    OneProcess /\ FInv /\ NInv /\ FInv' /\ NInv' /\ [Next]_vars
    => [F!Next]_<<LinkOf, OpenOf, Deniers, ContentOf>>
<1> SUFFICES ASSUME Kept, [Next]_vars PROVE Same \/ F!Next
  BY DEF Kept, Same
<1>0. OneProcess /\ FInv
  BY KeptIs
<1>1. ASSUME NEW p \in Proc, Step(p) PROVE Same \/ F!Next
  <2>1. CASE \/ WriteMap(p) \/ AllocateData(p) \/ CreateFails(p) \/ Undo(p) \/ FreeData(p)
             \/ \E n \in Name : Open(p, n) \/ Remove(p, n) \/ \E size \in Sizes : Create(p, n, size)
    BY <1>0, <2>1, LeadsNowhere, QuietStutters
  <2>2. CASE AddLookup(p) \/ FindSlot(p) \/ InodeOpenFails(p) \/ FileOpenFails(p)
    <3>1. UNCHANGED <<disk, slots, inode, file>>
      BY <2>2 DEF AddLookup, FindSlot, InodeOpenFails, FileOpenFails, diskVars, memVars
    <3> QED
      BY <3>1, QuietStutters
  <2>3. CASE InodeOpen(p) \/ InodeRead(p) \/ InodeClose(p)
    BY <2>3, InodeStutters
  <2>4. CASE WriteInode(p) \/ WriteZero(p)
    BY <2>4, MakingStutters
  <2>5. CASE WriteEntry(p)
    BY <2>5, WriteEntryIs DEF F!Next
  <2>6. CASE EraseEntry(p)
    BY <2>6, EraseEntryIs DEF F!Next
  <2>7. ASSUME NEW f \in File,
               \/ FileOpen(p, f) \/ Close(p, f) \/ DenyWrite(p, f) \/ \E v \in Value : Write(p, f, v)
               \/ \E g \in File : Reopen(p, f, g) \/ Duplicate(p, f, g)
        PROVE  F!Next
    <3>1. CASE FileOpen(p, f) \/ Close(p, f) \/ DenyWrite(p, f)
      BY <3>1, FileOpenIs, CloseIs, DenyWriteIs DEF F!Next
    <3>2. CASE \E v \in Value : Write(p, f, v)
      BY <3>2, WriteIs DEF F!Next
    <3>3. ASSUME NEW g \in File, Reopen(p, f, g) PROVE F!Next
      BY <3>3, AgainIs DEF Reopen, F!Next
    <3>4. ASSUME NEW g \in File, Duplicate(p, f, g) PROVE F!Next
      <4>1. file[f].deny_write \in BOOLEAN /\ Again(p, f, g, file[f].deny_write)
        BY <1>0, <3>4, FileIs DEF Duplicate
      <4>2. F!Open(g)
        BY <4>1, AgainIs
      <4> QED
        BY <4>2 DEF F!Next
    <3> QED
      BY <2>7, <3>1, <3>2, <3>3, <3>4
  <2> QED
    BY <1>1, <2>1, <2>2, <2>3, <2>4, <2>5, <2>6, <2>7 DEF Step
<1>2. CASE PowerOff
  BY <1>2, PowerOffIs DEF F!Next
<1>3. CASE UNCHANGED vars
  BY <1>3, QuietStutters DEF vars, diskVars, memVars
<1> QED
  BY <1>1, <1>2, <1>3 DEF Next

LEMMA FilesInit == Init => F!Init
<1> SUFFICES ASSUME Init PROVE F!Init
  OBVIOUS
<1>1. slots = [k \in 1..Slots |-> None] /\ file = [f \in File |-> None]
  BY DEF Init
<1>2. LinkOf = [n \in Name |-> None]
  <2>1. \A n \in Name : Lookup(n) = {}
    BY <1>1 DEF Lookup
  <2> QED
    BY <2>1 DEF LinkOf
<1>3. OpenOf = [f \in File |-> None] /\ Deniers = {} /\ Used = {}
  <2>1. \A f \in File : SectorOf(f) = None
    BY <1>1 DEF SectorOf
  <2>2. Linked = {}
    BY <1>1 DEF Linked
  <2> QED
    BY <1>1, <2>1, <2>2 DEF OpenOf, Deniers, Used
<1>4. ContentOf = [s \in Sector |-> None]
  BY <1>3 DEF ContentOf
<1> QED
  BY <1>2, <1>3, <1>4 DEF F!Init

\* filesys.c, inode.c, file.c, directory.c and free-map.c together: whatever is created,
\* removed while it is open, denied, cut short by a full disk or directory or by the loss
\* of power, a name or a handle leads to the file it led to and to what was written there.
THEOREM FilesAreKept == OneProcess => (Spec => ImplementsFiles)
<1>1. ASSUME OneProcess PROVE FInv /\ NInv /\ [Next]_vars => FInv' /\ NInv'
  BY <1>1, FilesysStep, NamesStep
<1>2. ASSUME OneProcess
      PROVE  FInv /\ NInv /\ FInv' /\ NInv' /\ [Next]_vars
             => [F!Next]_<<LinkOf, OpenOf, Deniers, ContentOf>>
  BY <1>2, FilesStep
<1>3. ASSUME OneProcess PROVE Spec => ImplementsFiles
  <2>1. FInv /\ NInv /\ [Next]_vars => FInv' /\ NInv'
    BY <1>1, <1>3
  <2>2. FInv /\ NInv /\ FInv' /\ NInv' /\ [Next]_vars
        => [F!Next]_<<LinkOf, OpenOf, Deniers, ContentOf>>
    BY <1>2, <1>3
  <2> QED
    BY <2>1, <2>2, FilesysInit, NamesInit, FilesInit, PTL DEF Spec, F!Spec, ImplementsFiles
<1> QED
  BY <1>3
=============================================================================
