---------------------------- MODULE Alloc_proofs ----------------------------
(***************************************************************************)
(* Proofs about the page allocator and the block allocator (Alloc), for    *)
(* any number of threads, pages and sizes: the inductive invariant         *)
(* AllocInv, which accounts for every page and every block wherever the    *)
(* threads stand in palloc.c and malloc.c; the assertions and counts of    *)
(* ArenasAgree; that nothing leaks; and that the allocators implement Heap.*)
(* The last part is about the bitmap the pool is made of (Bitmap): its     *)
(* words are a set of bits (Bits), whatever the width of a word, the size  *)
(* of the bitmap and the contents of its unused bits.                      *)
(***************************************************************************)
EXTENDS Alloc, Bitmap, ListOps_proofs, FiniteSetTheorems, FunctionTheorems

(* The places a thread may be at, and the calls it may be in.              *)
Locations == {"idle", "desc", "push", "pop", "unlock", "return", "pool", "scan", "mark",
              "no page", "got", "clear", "wipe", "reset"}
Getting == {"get", "get zero"}
Asking == {"malloc", "calloc", "realloc"} \cup Getting

Pointers == Pages \X Nat
OwnType == [ptr : Pointers, n : Nat, zero : BOOLEAN]
JobType == [op : {"none", "free"} \cup Asking, desc : {0} \cup Descs, n : Nat, at : Nat,
            k : Nat, ptr : Pointers, old : SUBSET OwnType]

AllocTypeOK ==
    /\ used_map \in SUBSET Pages
    /\ arena \in [Pages -> [desc : {0} \cup Descs, free_cnt : Nat]]
    /\ data = [c \in Cells |-> data[c]]
    /\ free_list \in [Descs -> Seq(Pointers)]
    /\ desc_lock \in [Descs -> Threads \cup {Nobody}]
    /\ pool_lock \in Threads \cup {Nobody}
    /\ pc \in [Threads -> Locations]
    /\ job \in [Threads -> JobType]
    /\ own \in [Threads -> SUBSET OwnType]
-----------------------------------------------------------------------------
(* What a pointer stands for: a block, or whole pages.                     *)
Land(ptr, n) == IF n = 0 THEN {ptr} ELSE Run(ptr[1], n) \X {0}
OwnLand(t) == UNION {Land(o.ptr, o.n) : o \in own[t]}
JobLand(t) ==
    LET j == job[t] IN
    CASE pc[t] = "mark" -> Run(j.at, j.k) \X {0}
      [] pc[t] = "got" -> Run(j.at, j.n) \X {0}
      [] pc[t] \in {"return", "clear"} -> Land(j.ptr, j.n)
      [] pc[t] = "wipe" -> Run(j.ptr[1], j.n) \X {0}
      [] pc[t] = "reset" -> Run(j.ptr[1] + j.k, j.n - j.k) \X {0}
      [] pc[t] \in {"desc", "push"} /\ j.op = "free" -> {j.ptr}
      [] pc[t] = "unlock" /\ j.op # "free" /\ j.ptr[2] # 0 -> {j.ptr}
      [] OTHER -> {}
All(t) == JobLand(t) \cup OwnLand(t)

(* The page is an arena with blocks, and not on its way back to the pool.  *)
Live(p) == arena[p].desc # 0 /\ ~Wiping(p)

(* What a client holds, or is about to.                                    *)
Holds(ptr, n) ==
    IF n = 0 THEN ptr[2] # 0
    ELSE /\ ptr[1] + n <= PageCnt /\ ptr[2] \in {0, 1}
         /\ ptr[2] = 1 => arena[ptr[1]] = [desc |-> 0, free_cnt |-> n]

JobFits(t) ==
    LET j == job[t] IN
    /\ At(t, "idle") => j = Idle
    /\ pc[t] \in {"pool", "scan", "mark", "no page", "got"} =>
         /\ j.op \in Asking /\ j.n # 0 /\ j.ptr[2] = 0
         /\ j.desc # 0 => j.op \notin Getting /\ j.n = 1 /\ free_list[j.desc] = <<>>
    /\ At(t, "scan") => j.k = 0
    /\ At(t, "mark") => /\ j.at + j.n <= PageCnt /\ j.k < j.n
                        /\ Run(j.at + j.k, j.n - j.k) \cap used_map = {}
    /\ At(t, "got") => j.at + j.n <= PageCnt
    /\ pc[t] \in {"desc", "push", "pop", "unlock"} => j.desc # 0 /\ j.op # "none"
    /\ At(t, "desc") /\ j.op # "free" => j.op \notin Getting /\ j.n = 1 /\ j.ptr[2] = 0
    /\ At(t, "push") => j.op = "free"
    /\ pc[t] \in {"desc", "push"} /\ j.op = "free" =>
         j.ptr[2] # 0 /\ arena[j.ptr[1]].desc = j.desc
    /\ At(t, "pop") => j.op \in Asking \ Getting /\ free_list[j.desc] # <<>>
    /\ At(t, "unlock") /\ j.op # "free" => j.op \notin Getting /\ (j.ptr[2] # 0 => j.n = 0)
    /\ At(t, "return") => j.op \in Asking /\ Holds(j.ptr, j.n)
    /\ At(t, "clear") => j.op = "free" /\ j.ptr[2] # 0 /\ Holds(j.ptr, j.n)
    /\ pc[t] \in {"clear"} => j.desc = 0
    /\ pc[t] \in {"wipe", "reset"} => j.op = "free" /\ j.n # 0 /\ j.ptr[1] + j.n <= PageCnt
    /\ At(t, "reset") => j.k < j.n
    /\ j.old # {} => j.op = "realloc" /\ \E o \in own[t] : j.old = {o} /\ o.ptr[2] # 0

InPool(t) == pc[t] \in {"scan", "mark", "no page", "got"}
InDesc(t) ==
    \/ pc[t] \in {"push", "pop", "unlock"}
    \/ pc[t] \in {"pool", "scan", "mark", "no page", "got", "wipe", "reset"} /\ job[t].desc # 0

LocksHeld(t) ==
    /\ InPool(t) => pool_lock = t
    /\ InDesc(t) => desc_lock[job[t].desc] = t
-----------------------------------------------------------------------------
JobsFit == \A t \in Threads : JobFits(t) /\ LocksHeld(t)
OwnFits == \A t \in Threads : \A o \in own[t] : Holds(o.ptr, o.n)

(* No memory is two threads', or a thread's twice.                         *)
Apart ==
    /\ \A t, u \in Threads : t # u => All(t) \cap All(u) = {}
    /\ \A t \in Threads : \A o \in own[t] :
         /\ Land(o.ptr, o.n) \cap JobLand(t) = {}
         /\ \A q \in own[t] : o # q => Land(o.ptr, o.n) \cap Land(q.ptr, q.n) = {}

FreeList(p) == Range(free_list[arena[p].desc])
InArena(a) == Live(a[1]) /\ a[2] \in 1..BlocksPerArena(arena[a[1]].desc)

(* Pages are held whole, blocks in a live arena and off its free list.     *)
LandsFit ==
    \A t \in Threads : \A a \in All(t) :
        IF a[2] = 0 THEN a[1] \in used_map /\ ~Live(a[1])
        ELSE InArena(a) /\ a \notin FreeList(a[1])

ListsFit ==
    \A d \in Descs :
        /\ NoRepeat(free_list[d])
        /\ \A c \in Range(free_list[d]) : InArena(c) /\ arena[c[1]].desc = d

FreeBlocks(p) == FreeList(p) \cap Blocks(p, arena[p].desc)
ArenasFit ==
    \A p \in Pages :
        /\ p \notin used_map => arena[p].desc = 0
        /\ Live(p) => Cardinality(FreeBlocks(p)) = arena[p].free_cnt

(* Every page in use is somebody's or an arena; so is every block of an    *)
(* arena, unless it is free; an arena all free is being taken from.        *)
NoneLost ==
    /\ \A p \in used_map : Live(p) \/ \E t \in Threads : <<p, 0>> \in All(t)
    /\ \A p \in Pages : Live(p) =>
         /\ \A b \in Blocks(p, arena[p].desc) :
              b \in FreeList(p) \/ \E t \in Threads : b \in All(t)
         /\ arena[p].free_cnt = BlocksPerArena(arena[p].desc) =>
              \E t \in Threads : /\ At(t, "pop") /\ job[t].desc = arena[p].desc
                                 /\ Head(free_list[job[t].desc])[1] = p

AllocInv ==
    AllocTypeOK /\ JobsFit /\ OwnFits /\ Apart /\ LandsFit /\ ListsFit /\ ArenasFit
    /\ NoneLost

-----------------------------------------------------------------------------
(* Sizes: block sizes double up to half a page, and an arena has at least  *)
(* two blocks (malloc_init).                                               *)

(* 2^n for the sizes of malloc_init.                                       *)
LEMMA Powers ==
    ASSUME NEW n \in 0..9
    PROVE  2^n \in Nat \ {0}
<1>0. CASE n = 0
  BY <1>0
<1>1. CASE n = 1
  BY <1>1
<1>2. CASE n = 2
  BY <1>2
<1>3. CASE n = 3
  BY <1>3
<1>4. CASE n = 4
  BY <1>4
<1>5. CASE n = 5
  BY <1>5
<1>6. CASE n = 6
  BY <1>6
<1>7. CASE n = 7
  BY <1>7
<1>8. CASE n = 8
  BY <1>8
<1>9. CASE n = 9
  BY <1>9
<1> QED
  BY <1>0, <1>1, <1>2, <1>3, <1>4, <1>5, <1>6, <1>7, <1>8, <1>9

(* Quotient and remainder.                                                 *)
LEMMA Division ==
    ASSUME NEW a \in Nat, NEW b \in Nat \ {0}
    PROVE  /\ a \div b \in Nat /\ a % b \in 0..b - 1
           /\ a = b * (a \div b) + (a % b)
BY SMT

(* What divides by less is not less; what is as much as b holds b once.    *)
LEMMA DivisionOrder ==
    ASSUME NEW a \in Nat, NEW b \in Nat \ {0}
    PROVE  /\ \A c \in Nat \ {0} : c <= b => a \div b <= a \div c
           /\ b <= a => a \div b # 0
<1>1. ASSUME NEW c \in Nat \ {0}, c <= b, a \div c < a \div b PROVE FALSE
  <2> DEFINE q == a \div b
             r == a \div c
  <2>1. q \in Nat /\ r \in Nat /\ b * q <= a /\ a < c * r + c /\ b * q \in Nat /\ c * r \in Nat
    BY Division, b * (a \div b) \in Nat, c * (a \div c) \in Nat
  <2>2. q = r + 1 + (q - r - 1) /\ q - r - 1 \in Nat
    BY <1>1, <2>1
  <2>3. \E k \in Nat : q = r + 1 + k
    BY <2>2
  <2>4. PICK k \in Nat : q = r + 1 + k
    BY <2>3
  <2>5. c * q \in Nat /\ c * q = c * r + c + c * k /\ c * k \in Nat
    BY <2>1, <2>4
  <2>6. \E e \in Nat : b = c + e
    <3>1. b = c + (b - c) /\ b - c \in Nat
      BY <1>1
    <3> QED
      BY <3>1
  <2>7. PICK e \in Nat : b = c + e
    BY <2>6
  <2>8. b * q = c * q + e * q /\ e * q \in Nat
    BY <2>1, <2>7
  <2> HIDE DEF q, r
  <2> QED
    BY <2>1, <2>5, <2>8
<1>2. b <= a => a \div b # 0
  BY Division
<1>3. ASSUME NEW c \in Nat \ {0}, c <= b PROVE a \div b <= a \div c
  <2>1. a \div b \in Nat /\ a \div c \in Nat
    BY Division
  <2> QED
    BY <1>1, <1>3, <2>1
<1> QED
  BY <1>2, <1>3

(* malloc_init: every arena has room for a block, and no arena has more    *)
(* blocks than one of the smallest.                                        *)
LEMMA ArenaSizes ==
    ASSUME AllocAssumption
    PROVE  /\ 0 \in Pages /\ PageCnt \in Nat \ {0} /\ PGSIZE \in Nat \ {0}
           /\ PerPage \in Nat \ {0}
           /\ Descs \in SUBSET (Nat \ {0})
           /\ \A d \in Descs : /\ BlocksPerArena(d) \in Nat \ {0}
                               /\ BlocksPerArena(d) <= PerPage
<1>1. /\ PageCnt \in Nat \ {0} /\ MinBlock \in Nat \ {0} /\ PGSIZE \in Nat
      /\ MinBlock < PGSIZE \div 2 /\ ArenaSize \in Nat /\ ArenaSize <= PGSIZE \div 2
  BY DEF AllocAssumption
<1>2. PGSIZE \div 2 \in Nat /\ PGSIZE # 0 /\ (PGSIZE \div 2) + (PGSIZE \div 2) <= PGSIZE
  BY <1>1
<1> DEFINE room == PGSIZE - ArenaSize
<1>3. room \in Nat /\ PGSIZE \div 2 <= room
  BY <1>1, <1>2
<1>4. ASSUME NEW d \in 1..10, BlockSize(d) < PGSIZE \div 2
      PROVE  /\ BlockSize(d) \in Nat \ {0} /\ MinBlock <= BlockSize(d)
             /\ BlocksPerArena(d) \in Nat \ {0}
  <2>1. d - 1 \in 0..9
    OBVIOUS
  <2>2. 2^(d - 1) \in Nat \ {0}
    BY <2>1, Powers
  <2>3. BlockSize(d) \in Nat \ {0} /\ MinBlock <= BlockSize(d)
    <3>1. PICK k \in Nat : 2^(d - 1) = k + 1
      <4> DEFINE m == 2^(d - 1) - 1
      <4>1. m \in Nat /\ 2^(d - 1) = m + 1
        BY <2>2
      <4> QED
        BY <4>1
    <3>2. MinBlock * (k + 1) = MinBlock + MinBlock * k /\ MinBlock * k \in Nat
      BY <1>1
    <3> QED
      BY <1>1, <3>1, <3>2 DEF BlockSize
  <2> DEFINE b == BlockSize(d)
  <2>4. b \in Nat \ {0} /\ b <= room
    BY <1>2, <1>3, <1>4, <2>3
  <2>5. BlocksPerArena(d) = room \div b
    BY DEF BlocksPerArena
  <2> HIDE DEF room, b
  <2>6. room \div b \in Nat \ {0}
    BY <1>3, <2>4, Division, DivisionOrder
  <2> QED
    BY <2>3, <2>5, <2>6
<1>5. Descs = {d \in 1..10 : BlockSize(d) < PGSIZE \div 2}
  BY DEF Descs, BlockSize
<1>6. BlockSize(1) = MinBlock
  <2>1. 2^(1 - 1) = 1
    OBVIOUS
  <2> QED
    BY <1>1, <2>1 DEF BlockSize
<1>7. PerPage = room \div MinBlock
  BY <1>6 DEF PerPage, BlocksPerArena
<1>8. PerPage \in Nat \ {0}
  BY <1>1, <1>4, <1>6 DEF PerPage
<1>9. ASSUME NEW d \in Descs PROVE BlocksPerArena(d) <= PerPage
  <2>1. BlockSize(d) \in Nat \ {0} /\ MinBlock <= BlockSize(d)
    BY <1>4, <1>5
  <2> HIDE DEF room
  <2>2. room \div BlockSize(d) <= room \div MinBlock
    BY <1>1, <1>3, <2>1, DivisionOrder
  <2> QED
    BY <1>7, <2>2 DEF BlocksPerArena, room
<1> QED
  BY <1>1, <1>2, <1>4, <1>5, <1>8, <1>9 DEF Pages

-----------------------------------------------------------------------------
(* What a call asks for, and a free list without the blocks of one arena.  *)

(* What malloc looks for: a descriptor, or whole pages.                    *)
LEMMA WhatIsAskedFor ==
    ASSUME AllocAssumption, NEW size \in Sizes
    PROVE  /\ FindDesc(size) \in {0} \cup Descs
           /\ PagesFor(size) \in Nat \ {0}
<1> DEFINE fit == {d \in Descs : BlockSize(d) >= size}
<1>1. fit # {} => \E d \in fit : \A e \in fit : d <= e
  <2>1. fit \in SUBSET Nat
    BY ArenaSizes
  <2> HIDE DEF fit
  <2> QED
    BY <2>1, LeastElement
<1>2. FindDesc(size) = IF fit = {} THEN 0 ELSE CHOOSE d \in fit : \A e \in fit : d <= e
  BY DEF FindDesc
<1>3. FindDesc(size) \in {0} \cup fit
  <2> HIDE DEF fit
  <2> QED
    BY <1>1, <1>2
<1>4. PagesFor(size) \in Nat \ {0}
  <2>1. PGSIZE \in Nat \ {0} /\ size \in Nat \ {0} /\ ArenaSize \in Nat
    BY ArenaSizes DEF AllocAssumption
  <2> DEFINE a == size + ArenaSize + PGSIZE - 1
  <2>2. a \in Nat /\ PGSIZE <= a
    BY <2>1
  <2> HIDE DEF a
  <2>3. a \div PGSIZE \in Nat \ {0}
    BY <2>1, <2>2, Division, DivisionOrder
  <2> QED
    BY <2>3 DEF PagesFor, a
<1> QED
  BY <1>3, <1>4

(* The ranks of a finite set of numbers: the n-th of them.                 *)
RankIn(kept, i) == Cardinality({j \in kept : j <= i})

(* RankIn counts the places kept from one on: OffList's Rank.              *)
LEMMA Ranks ==
    ASSUME NEW L \in Nat, NEW kept \in SUBSET (1..L)
    PROVE  /\ Cardinality(kept) \in Nat
           /\ \A i \in kept : RankIn(kept, i) \in 1..Cardinality(kept)
           /\ \A i, j \in kept : RankIn(kept, i) = RankIn(kept, j) => i = j
           /\ \A n \in 1..Cardinality(kept) : \E i \in kept : RankIn(kept, i) = n
<1> DEFINE Upto(i) == {j \in kept : j <= i}
<1>0. \A j \in kept : j \in Nat /\ 1 <= j /\ j <= L
  OBVIOUS
<1>1. IsFiniteSet(kept) /\ Cardinality(kept) \in Nat
  <2>1. IsFiniteSet(1..L)
    BY FS_Interval
  <2>2. IsFiniteSet(kept)
    BY <2>1, FS_Subset
  <2> QED
    BY <2>2, FS_CardinalityType
<1>2. ASSUME NEW i \in 0..L
      PROVE  /\ IsFiniteSet(Upto(i)) /\ Cardinality(Upto(i)) \in 0..Cardinality(kept)
             /\ RankIn(kept, i) = Cardinality(Upto(i))
  <2>1. Upto(i) \in SUBSET kept
    OBVIOUS
  <2> HIDE DEF Upto
  <2>2. IsFiniteSet(Upto(i)) /\ Cardinality(Upto(i)) <= Cardinality(kept)
    BY <1>1, <2>1, FS_Subset
  <2>3. Cardinality(Upto(i)) \in Nat
    BY <2>2, FS_CardinalityType
  <2> QED
    BY <1>1, <2>2, <2>3 DEF RankIn, Upto
<1>3. ASSUME NEW i \in kept PROVE RankIn(kept, i) \in 1..Cardinality(kept)
  <2>1. i \in 0..L /\ i \in Upto(i)
    OBVIOUS
  <2>2. Cardinality(Upto(i)) # 0
    <3> HIDE DEF Upto
    <3> QED
      BY <1>2, <2>1, FS_EmptySet
  <2> HIDE DEF Upto
  <2> QED
    BY <1>1, <1>2, <2>1, <2>2
<1>4. ASSUME NEW i \in kept, NEW j \in kept, i < j PROVE RankIn(kept, i) # RankIn(kept, j)
  <2>1. j \in Upto(j) /\ j \notin Upto(i)
    BY <1>0, <1>4
  <2>3. Upto(i) \in SUBSET Upto(j)
    <3>1. ASSUME NEW x \in kept, x <= i PROVE x <= j
      BY <1>0, <1>4, <3>1
    <3> QED
      BY <3>1
  <2>2. i \in 0..L /\ j \in 0..L
    OBVIOUS
  <2> HIDE DEF Upto
  <2> QED
    BY <1>2, <2>1, <2>2, <2>3, FS_Subset
<1>5. ASSUME NEW n \in 1..Cardinality(kept) PROVE \E i \in kept : RankIn(kept, i) = n
  <2> DEFINE S == {i \in 0..L : Cardinality(Upto(i)) >= n}
  <2>1. L \in S
    <3>1. Upto(L) = kept
      BY <1>0
    <3> HIDE DEF Upto
    <3> QED
      BY <1>1, <3>1
  <2>2. PICK i \in S : \A y \in S : i <= y
    <3>1. S \in SUBSET Nat
      OBVIOUS
    <3>2. S # {}
      <4> HIDE DEF S
      <4> QED
        BY <2>1
    <3> HIDE DEF S
    <3> QED
      BY <3>1, <3>2, LeastElement
  <2>3. i # 0
    <3>1. Upto(0) = {}
      <4> SUFFICES ASSUME NEW j \in kept, j <= 0 PROVE FALSE
        OBVIOUS
      <4> QED
        BY <1>0
    <3>2. Cardinality(Upto(0)) = 0
      BY <3>1, FS_EmptySet
    <3> HIDE DEF Upto
    <3> QED
      BY <1>1, <2>2, <3>2
  <2>4. i - 1 \in 0..L /\ i \in 0..L /\ i - 1 \notin S
    <3>1. i \in 0..L
      BY <2>2
    <3>2. i - 1 \in 0..L /\ ~ (i <= i - 1)
      BY <2>3, <3>1
    <3> HIDE DEF S
    <3> QED
      BY <2>2, <3>1, <3>2
  <2>5. Cardinality(Upto(i - 1)) < n /\ Cardinality(Upto(i)) >= n
    <3> HIDE DEF Upto
    <3> QED
      BY <1>1, <1>2, <2>2, <2>4
  <2>6. i \in kept
    <3> SUFFICES ASSUME i \notin kept PROVE Upto(i) = Upto(i - 1)
      <4> HIDE DEF Upto
      <4> QED
        BY <2>4, <2>5, <1>1, <1>2
    <3>1. ASSUME NEW j \in kept PROVE j <= i <=> j <= i - 1
      <4>1. j \in Int /\ i \in Int /\ j # i
        BY <2>4
      <4> QED
        BY <4>1
    <3> QED
      BY <3>1
  <2>7. Upto(i) = Upto(i - 1) \cup {i}
    <3>1. ASSUME NEW j \in kept PROVE j <= i <=> j <= i - 1 \/ j = i
      <4>1. j \in Int /\ i \in Int
        BY <2>4
      <4> QED
        BY <4>1
    <3> QED
      BY <2>6, <3>1
  <2>8. Cardinality(Upto(i)) <= Cardinality(Upto(i - 1)) + 1
    <3> HIDE DEF Upto
    <3>1. IsFiniteSet(Upto(i - 1)) /\ Cardinality(Upto(i - 1)) \in Nat
      BY <1>1, <1>2, <2>4
    <3> QED
      BY <2>7, <3>1, FS_AddElement
  <2>9. Cardinality(Upto(i)) = n
    <3> HIDE DEF Upto, S
    <3> QED
      BY <1>1, <1>2, <2>4, <2>5, <2>8
  <2> QED
    BY <1>2, <2>4, <2>6, <2>9
<1>6. \A i, j \in kept : RankIn(kept, i) = RankIn(kept, j) => i = j
  <2> SUFFICES ASSUME NEW i \in kept, NEW j \in kept, i # j
               PROVE  RankIn(kept, i) # RankIn(kept, j)
    OBVIOUS
  <2>1. i < j \/ j < i
    OBVIOUS
  <2> QED
    BY <1>4, <2>1
<1> QED
  BY <1>1, <1>3, <1>5, <1>6

(* list_remove of every block of an arena: what is left of the list is the *)
(* blocks of the others, each once.                                        *)
LEMMA OffListProps ==
    ASSUME NEW S, NEW list \in Seq(S), NoRepeat(list), NEW p
    PROVE  /\ OffList(list, p) \in Seq(S)
           /\ NoRepeat(OffList(list, p))
           /\ Range(OffList(list, p)) = {c \in Range(list) : c[1] # p}
<1> DEFINE L == Len(list)
           kept == {i \in DOMAIN list : list[i][1] # p}
           N == Cardinality(kept)
           At1(n) == CHOOSE i \in kept : RankIn(kept, i) = n
<1>1. L \in Nat /\ DOMAIN list = 1..L /\ \A i \in 1..L : list[i] \in S
  BY LenProperties, ElementOfSeq
<1>2. kept \in SUBSET (1..L)
  BY <1>1
<1>3. OffList(list, p) = [n \in 1..N |-> list[At1(n)]]
  BY DEF OffList, RankIn
<1>4. /\ N \in Nat
      /\ \A i \in kept : RankIn(kept, i) \in 1..N
      /\ \A i, j \in kept : RankIn(kept, i) = RankIn(kept, j) => i = j
      /\ \A n \in 1..N : At1(n) \in kept /\ RankIn(kept, At1(n)) = n
  <2> HIDE DEF kept
  <2> QED
    BY <1>1, <1>2, Ranks
<1> DEFINE q == OffList(list, p)
<1>5. \A n \in 1..N : q[n] = list[At1(n)] /\ At1(n) \in kept
  <2> HIDE DEF At1, kept, N
  <2> QED
    BY <1>3, <1>4
<1>6. q \in Seq(S) /\ Len(q) = N
  <2>1. \A n \in 1..N : list[At1(n)] \in S
    <3> HIDE DEF At1, N
    <3> QED
      BY <1>4, <1>1, <1>2
  <2>2. q \in [1..N -> S]
    <3> HIDE DEF At1, kept, N
    <3> QED
      BY <1>3, <2>1
  <2> HIDE DEF q, N
  <2> QED
    BY <1>4, <2>2, SeqDef
<1>7. NoRepeat(q)
  <2> SUFFICES ASSUME NEW m \in 1..N, NEW n \in 1..N, q[m] = q[n] PROVE m = n
    BY <1>6 DEF NoRepeat
  <2>1. At1(m) \in 1..L /\ At1(n) \in 1..L /\ list[At1(m)] = list[At1(n)]
    <3> HIDE DEF At1, kept, N, q
    <3> QED
      BY <1>2, <1>5
  <2>2. At1(m) = At1(n)
    <3> HIDE DEF At1
    <3> QED
      BY <2>1 DEF NoRepeat
  <2> HIDE DEF At1, kept, N
  <2> QED
    BY <1>4, <2>2
<1>8. ASSUME NEW c PROVE c \in Range(q) <=> c \in Range(list) /\ c[1] # p
  <2>1. c \in Range(q) <=> \E n \in 1..N : q[n] = c
    BY <1>6, InRange
  <2>2. c \in Range(list) <=> \E i \in 1..L : list[i] = c
    BY InRange
  <2>3. ASSUME NEW n \in 1..N, q[n] = c PROVE c \in Range(list) /\ c[1] # p
    <3>1. At1(n) \in kept /\ c = list[At1(n)]
      BY <1>5, <2>3
    <3> HIDE DEF At1
    <3> QED
      BY <3>1, <2>2, <1>1
  <2>4. ASSUME NEW i \in 1..L, list[i] = c, c[1] # p PROVE \E n \in 1..N : q[n] = c
    <3>1. i \in kept
      BY <1>1, <2>4
    <3> DEFINE n == RankIn(kept, i)
    <3>2. n \in 1..N /\ At1(n) = i
      <4> HIDE DEF kept, N
      <4> QED
        BY <1>4, <3>1
    <3>3. q[n] = c
      <4> HIDE DEF n, N, At1, kept, q
      <4> QED
        BY <1>5, <3>2, <2>4
    <3> HIDE DEF n, N, q
    <3> QED
      BY <3>2, <3>3
  <2> HIDE DEF q, N
  <2> QED
    BY <2>1, <2>2, <2>3, <2>4
<1> QED
  BY <1>6, <1>7, <1>8

-----------------------------------------------------------------------------
(* What one thread does leaves the others what they hold.                  *)

(* A step of t leaves the places, calls and blocks of the other threads,   *)
(* and the locks they are in.                                              *)
Others(t) ==
    \A u \in Threads : u # t => pc'[u] = pc[u] /\ job'[u] = job[u] /\ own'[u] = own[u]
LocksOfOthers(t) ==
    /\ pool_lock' # pool_lock => pool_lock \in {t, Nobody}
    /\ \A d \in Descs : desc_lock'[d] # desc_lock[d] => desc_lock[d] \in {t, Nobody}

(* A step of t leaves what the other threads hold.                         *)
LEMMA OthersKeep ==
    ASSUME NEW t \in Threads, Others(t), NEW u \in Threads, u # t
    PROVE  /\ pc'[u] = pc[u] /\ job'[u] = job[u] /\ own'[u] = own[u]
           /\ JobLand(u)' = JobLand(u) /\ OwnLand(u)' = OwnLand(u) /\ All(u)' = All(u)
<1>1. pc'[u] = pc[u] /\ job'[u] = job[u] /\ own'[u] = own[u]
  BY DEF Others
<1>2. JobLand(u)' = JobLand(u)
  BY <1>1 DEF JobLand, Land
<1>3. OwnLand(u)' = OwnLand(u)
  BY <1>1 DEF OwnLand, Land
<1> QED
  BY <1>1, <1>2, <1>3 DEF All

(* Which pages are being wiped is t's doing.                               *)
Wipes(t) == IF pc[t] = "wipe" THEN Run(job[t].ptr[1], job[t].n) ELSE {}

(* Wiping and Wipes say the same.                                          *)
LEMMA WipingIs ==
    ASSUME NEW p
    PROVE  Wiping(p) <=> \E t \in Threads : p \in Wipes(t)
BY DEF Wiping, Wipes

(* A page is being wiped after t's step as before, if t's own wiping       *)
(* stays.                                                                  *)
LEMMA WipingKeeps ==
    ASSUME NEW t \in Threads, Others(t), NEW p, p \in Wipes(t) <=> p \in Wipes(t)'
    PROVE  Wiping(p)' <=> Wiping(p)
<1>1. ASSUME NEW u \in Threads, u # t PROVE Wipes(u)' = Wipes(u)
  BY <1>1, OthersKeep DEF Wipes
<1>2. Wiping(p)' <=> \E u \in Threads : p \in Wipes(u)'
  BY DEF Wiping, Wipes
<1> QED
  BY <1>1, <1>2, WipingIs

(* A page being wiped is the wiping thread's.                              *)
LEMMA WipedIsHeld ==
    ASSUME NEW t \in Threads, NEW p \in Wipes(t)
    PROVE  <<p, 0>> \in All(t)
BY DEF Wipes, All, JobLand

(* What is held are pages and blocks of the pool.                          *)
LEMMA HeldType ==
    ASSUME AllocTypeOK, LandsFit, NEW t \in Threads, NEW a \in All(t)
    PROVE  a[1] \in Pages /\ a[2] \in Nat /\ a = <<a[1], a[2]>>
<1>1. a[2] = 0 => a[1] \in Pages
  BY DEF LandsFit, AllocTypeOK
<1>2. job[t] \in JobType /\ \A o \in own[t] : o \in OwnType
  BY DEF AllocTypeOK
<1>3. ASSUME NEW ptr \in Pointers, NEW n, a \in Land(ptr, n)
      PROVE  a = <<a[1], a[2]>> /\ (a[2] = 0 \/ a \in Pointers)
  BY <1>3 DEF Land, Pointers
<1>4. ASSUME NEW S, a \in S \X {0} PROVE a = <<a[1], a[2]>> /\ a[2] = 0
  BY <1>4
<1>5. CASE a \in OwnLand(t)
  <2>1. PICK o \in own[t] : a \in Land(o.ptr, o.n)
    BY <1>5 DEF OwnLand
  <2> QED
    BY <1>1, <1>2, <1>3, <2>1 DEF OwnType, Pointers
<1>6. CASE a \in JobLand(t)
  <2> DEFINE j == job[t]
  <2>1. j.ptr \in Pointers
    BY <1>2 DEF JobType
  <2>2. \/ \E S : a \in S \X {0}
        \/ a \in Land(j.ptr, j.n)
        \/ a = j.ptr
    BY <1>6, Zenon DEF JobLand
  <2> QED
    BY <1>1, <1>3, <1>4, <2>1, <2>2 DEF Pointers
<1> QED
  BY <1>5, <1>6 DEF All

(* The calls of the other threads still fit: what they hold, the list they *)
(* have locked and the pages they have found free are left to them.        *)
LEMMA OthersFit ==
    ASSUME AllocInv, NEW t \in Threads, NEW u \in Threads, u # t, Others(t), LocksOfOthers(t),
           Nobody \notin Threads,
           \A d \in Descs : free_list'[d] # free_list[d] => desc_lock[d] = t,
           used_map' \in SUBSET used_map \/ pool_lock = t,
           \A a \in All(u) : /\ arena'[a[1]].desc = arena[a[1]].desc
                             /\ a[2] = 0 => arena'[a[1]] = arena[a[1]]
    PROVE  JobFits(u)' /\ LocksHeld(u)' /\ \A o \in own'[u] : Holds(o.ptr, o.n)'
<1> DEFINE j == job[u]
<1>1. pc'[u] = pc[u] /\ job'[u] = j /\ own'[u] = own[u]
  BY OthersKeep
<1>2. JobFits(u) /\ LocksHeld(u) /\ \A o \in own[u] : Holds(o.ptr, o.n)
  BY DEF AllocInv, JobsFit, OwnFits
<1>3. j \in JobType /\ pc[u] \in Locations
  BY DEF AllocInv, AllocTypeOK
<1>4. LocksHeld(u)'
  BY <1>1, <1>2, <1>3 DEF LocksHeld, LocksOfOthers, InPool, InDesc, JobFits, JobType
<1>5. InDesc(u) => j.desc \in Descs /\ free_list'[j.desc] = free_list[j.desc]
  <2>1. InDesc(u) => j.desc \in Descs /\ desc_lock[j.desc] = u
    BY <1>2, <1>3 DEF LocksHeld, InDesc, JobFits, JobType
  <2> QED
    BY <2>1
<1>6. ASSUME NEW ptr \in Pointers, NEW n \in Nat, Holds(ptr, n), Land(ptr, n) \in SUBSET All(u)
      PROVE  Holds(ptr, n)'
  <2>1. CASE n = 0
    BY <1>6, <2>1 DEF Holds
  <2>2. CASE n # 0
    <3>1. ptr[1] \in Run(ptr[1], n)
      BY <2>2 DEF Run, Pointers, Pages
    <3>2. <<ptr[1], 0>> \in Land(ptr, n)
      BY <2>2, <3>1 DEF Land
    <3>3. <<ptr[1], 0>> \in All(u)
      BY <1>6, <3>2
    <3>4. arena'[ptr[1]] = arena[ptr[1]]
      BY <3>3
    <3> QED
      BY <1>6, <2>2, <3>4 DEF Holds
  <2> QED
    BY <2>1, <2>2
<1>7. ASSUME NEW o \in own[u] PROVE Holds(o.ptr, o.n)'
  <2>1. o \in OwnType /\ Land(o.ptr, o.n) \in SUBSET All(u)
    BY DEF AllocInv, AllocTypeOK, All, OwnLand
  <2> QED
    BY <1>2, <1>6, <2>1 DEF OwnType
<1>8. pc[u] \in {"return", "clear"} => Holds(j.ptr, j.n)'
  <2> SUFFICES ASSUME pc[u] \in {"return", "clear"} PROVE Holds(j.ptr, j.n)'
    OBVIOUS
  <2>1. Holds(j.ptr, j.n)
    BY <1>2 DEF JobFits, At
  <2>2. Land(j.ptr, j.n) \in SUBSET All(u)
    BY DEF JobLand, All
  <2> QED
    BY <1>1, <1>3, <1>6, <2>1, <2>2 DEF JobType
<1>9. pc[u] \in {"desc", "push"} /\ j.op = "free" => arena'[j.ptr[1]].desc = j.desc
  <2>1. pc[u] \in {"desc", "push"} /\ j.op = "free" => j.ptr \in All(u)
    BY DEF All, JobLand
  <2> QED
    BY <1>2, <2>1 DEF JobFits
<1>10. pc[u] = "mark" => Run(j.at + j.k, j.n - j.k) \cap used_map' = {}
  <2> SUFFICES ASSUME pc[u] = "mark" PROVE Run(j.at + j.k, j.n - j.k) \cap used_map' = {}
    OBVIOUS
  <2>1. pool_lock = u /\ Run(j.at + j.k, j.n - j.k) \cap used_map = {}
    BY <1>2 DEF JobFits, LocksHeld, InPool, At
  <2> QED
    BY <2>1
<1>11. pc[u] \in {"pool", "scan", "mark", "no page", "got"} /\ j.desc # 0 =>
         free_list'[j.desc] = <<>>
  BY <1>2, <1>5 DEF JobFits, InDesc
<1>12. pc[u] = "pop" => free_list'[j.desc] # <<>>
  BY <1>2, <1>5 DEF JobFits, InDesc, At
<1>13. JobFits(u)'
  <2>1. /\ pc[u] = "idle" => j = Idle
        /\ pc[u] \in {"pool", "scan", "mark", "no page", "got"} =>
             /\ j.op \in Asking /\ j.n # 0 /\ j.ptr[2] = 0
             /\ j.desc # 0 => j.op \notin Getting /\ j.n = 1
        /\ pc[u] = "scan" => j.k = 0
        /\ pc[u] = "mark" => j.at + j.n <= PageCnt /\ j.k < j.n
        /\ pc[u] = "got" => j.at + j.n <= PageCnt
        /\ pc[u] \in {"desc", "push", "pop", "unlock"} => j.desc # 0 /\ j.op # "none"
        /\ pc[u] = "desc" /\ j.op # "free" => j.op \notin Getting /\ j.n = 1 /\ j.ptr[2] = 0
        /\ pc[u] = "push" => j.op = "free"
        /\ pc[u] \in {"desc", "push"} /\ j.op = "free" => j.ptr[2] # 0
        /\ pc[u] = "pop" => j.op \in Asking \ Getting
        /\ pc[u] = "unlock" /\ j.op # "free" => j.op \notin Getting /\ (j.ptr[2] # 0 => j.n = 0)
        /\ pc[u] = "return" => j.op \in Asking
        /\ pc[u] = "clear" => j.op = "free" /\ j.ptr[2] # 0
        /\ pc[u] \in {"clear"} => j.desc = 0
        /\ pc[u] \in {"wipe", "reset"} => j.op = "free" /\ j.n # 0 /\ j.ptr[1] + j.n <= PageCnt
        /\ pc[u] = "reset" => j.k < j.n
        /\ j.old # {} => j.op = "realloc" /\ \E o \in own[u] : j.old = {o} /\ o.ptr[2] # 0
    BY <1>2, Zenon DEF JobFits, At, j
  <2> QED
    BY <1>1, <1>8, <1>9, <1>10, <1>11, <1>12, <2>1, ZenonT(40) DEF JobFits, At
<1> QED
  BY <1>1, <1>4, <1>7, <1>13

(* What clients hold stays apart.                                          *)
LandsApart(t) ==
    \A o \in own[t] :
        /\ Land(o.ptr, o.n) \cap JobLand(t) = {}
        /\ \A q \in own[t] : o # q => Land(o.ptr, o.n) \cap Land(q.ptr, q.n) = {}

(* For what t holds to be apart from the rest, t's own part of the step is *)
(* enough.                                                                 *)
LEMMA OthersApart ==
    ASSUME Apart, NEW t \in Threads, Others(t), LandsApart(t)',
           \A u \in Threads \ {t} : All(t)' \cap All(u) = {}
    PROVE  Apart'
<1>1. ASSUME NEW u \in Threads, u # t PROVE LandsApart(u)' /\ All(u)' = All(u)
  BY <1>1, OthersKeep DEF Apart, LandsApart, Land
<1>2. \A u \in Threads : LandsApart(u)'
  BY <1>1
<1>3. \A u, v \in Threads : u # v => All(u)' \cap All(v)' = {}
  <2> SUFFICES ASSUME NEW u \in Threads, NEW v \in Threads, u # v
               PROVE  All(u)' \cap All(v)' = {}
    OBVIOUS
  <2>1. CASE u = t
    <3>1. All(v)' = All(v)
      BY <1>1, <2>1
    <3> QED
      BY <2>1, <3>1
  <2>2. CASE v = t
    <3>1. All(u)' = All(u)
      BY <1>1, <2>2
    <3> QED
      BY <2>2, <3>1
  <2>3. CASE u # t /\ v # t
    <3>1. All(u)' = All(u) /\ All(v)' = All(v)
      BY <1>1, <2>3
    <3> QED
      BY <3>1 DEF Apart
  <2> QED
    BY <2>1, <2>2, <2>3
<1> QED
  BY <1>2, <1>3 DEF Apart, LandsApart

(* A step that neither takes nor gives memory, nor touches a free list:    *)
(* only the thread's own call is to be looked at.                          *)
LEMMA Quiet ==
    ASSUME AllocAssumption, AllocInv, AllocTypeOK', NEW t \in Threads, Others(t),
           LocksOfOthers(t), UNCHANGED <<used_map, arena, free_list>>,
           pc[t] \notin {"wipe", "pop"}, All(t)' = All(t), JobFits(t)', LocksHeld(t)',
           \A o \in own'[t] : Holds(o.ptr, o.n), LandsApart(t)'
    PROVE  AllocInv'
<1> USE DEF AllocInv
<1>1. \A u \in Threads : All(u)' = All(u)
  BY OthersKeep
<1>2. ASSUME NEW u \in Threads, u # t
      PROVE  JobFits(u)' /\ LocksHeld(u)' /\ \A o \in own'[u] : Holds(o.ptr, o.n)'
  BY <1>2, OthersFit DEF AllocAssumption
<1>3. JobsFit'
  BY <1>2 DEF JobsFit
<1>4. OwnFits'
  BY <1>2 DEF OwnFits, Holds
<1>5. Apart'
  BY OthersApart DEF Apart
<1>6. ASSUME NEW p \in Pages PROVE Live(p)' <=> Live(p)
  <2>1. Wipes(t) = {}
    BY DEF Wipes
  <2>2. CASE p \in Wipes(t)'
    <3>1. <<p, 0>> \in All(t)'
      BY <2>2 DEF Wipes, All, JobLand
    <3>2. ~Live(p)
      BY <3>1 DEF LandsFit
    <3>3. Wiping(p)'
      BY <2>2 DEF Wiping, Wipes
    <3> QED
      BY <3>2, <3>3 DEF Live
  <2>3. CASE p \notin Wipes(t)'
    <3>1. Wiping(p)' <=> Wiping(p)
      BY <2>1, <2>3, WipingKeeps
    <3> QED
      BY <3>1 DEF Live
  <2> QED
    BY <2>2, <2>3
<1>7. \A p \in Pages : FreeList(p)' = FreeList(p) /\ FreeBlocks(p)' = FreeBlocks(p)
  BY DEF FreeList, FreeBlocks
<1>8. ASSUME NEW a, a[1] \in Pages PROVE InArena(a)' <=> InArena(a)
  BY <1>6, <1>8 DEF InArena
<1>9. LandsFit'
  <2> SUFFICES ASSUME NEW u \in Threads, NEW a \in All(u)
               PROVE  IF a[2] = 0 THEN a[1] \in used_map /\ ~Live(a[1])'
                      ELSE InArena(a)' /\ a \notin FreeList(a[1])
    BY <1>1, Zenon DEF LandsFit, FreeList
  <2>1. a[1] \in Pages
    BY HeldType
  <2> QED
    BY <1>6, <1>8, <2>1 DEF LandsFit
<1>10. ListsFit'
  <2> SUFFICES ASSUME NEW d \in Descs, NEW c \in Range(free_list[d]) PROVE InArena(c)'
    BY DEF ListsFit
  <2>1. InArena(c) /\ c \in Pointers
    <3>1. free_list[d] \in Seq(Pointers)
      BY DEF AllocTypeOK
    <3>2. c \in Pointers
      BY <3>1, InRange, ElementOfSeq
    <3> QED
      BY <3>2 DEF ListsFit
  <2> QED
    BY <1>8, <2>1 DEF Pointers
<1>11. ArenasFit'
  BY <1>6, <1>7 DEF ArenasFit
<1>12. NoneLost'
  <2>1. \A p \in used_map : p \in Pages
    BY DEF AllocTypeOK
  <2>2. \A p \in used_map : Live(p)' \/ \E u \in Threads : <<p, 0>> \in All(u)'
    BY <1>1, <1>6, <2>1 DEF NoneLost
  <2>3. ASSUME NEW p \in Pages, Live(p)'
        PROVE  /\ \A b \in Blocks(p, arena[p].desc) :
                     b \in FreeList(p) \/ \E u \in Threads : b \in All(u)'
               /\ arena[p].free_cnt = BlocksPerArena(arena[p].desc) =>
                     \E u \in Threads : /\ pc'[u] = "pop" /\ job'[u].desc = arena[p].desc
                                        /\ Head(free_list[job'[u].desc])[1] = p
    <3>1. Live(p)
      BY <1>6, <2>3
    <3>2. \A b \in Blocks(p, arena[p].desc) :
             b \in FreeList(p) \/ \E u \in Threads : b \in All(u)'
      BY <1>1, <3>1 DEF NoneLost
    <3>3. ASSUME arena[p].free_cnt = BlocksPerArena(arena[p].desc)
          PROVE  \E u \in Threads : /\ pc'[u] = "pop" /\ job'[u].desc = arena[p].desc
                                    /\ Head(free_list[job'[u].desc])[1] = p
      <4>1. PICK u \in Threads : /\ pc[u] = "pop" /\ job[u].desc = arena[p].desc
                                 /\ Head(free_list[job[u].desc])[1] = p
        BY <3>1, <3>3 DEF NoneLost, At
      <4> QED
        BY <4>1, OthersKeep
    <3> QED
      BY <3>2, <3>3
  <2> QED
    BY <2>2, <2>3 DEF NoneLost, FreeList, At
<1> QED
  BY <1>3, <1>4, <1>5, <1>9, <1>10, <1>11, <1>12

-----------------------------------------------------------------------------
(* The calls, and the steps that hand nothing over.                        *)

(* Go, Set and what they leave alone.                                      *)
LEMMA Goes ==
    ASSUME AllocTypeOK, NEW t \in Threads, NEW l, Go(t, l)
    PROVE  /\ pc'[t] = l /\ \A u \in Threads : u # t => pc'[u] = pc[u]
           /\ l \in Locations => pc' \in [Threads -> Locations]
BY DEF AllocTypeOK, Go

(* The call of a thread is its own: no step sets another's.                *)
LEMMA Sets ==
    ASSUME AllocTypeOK, NEW t \in Threads, NEW j, Set(t, j)
    PROVE  /\ job'[t] = j /\ \A u \in Threads : u # t => job'[u] = job[u]
           /\ j \in JobType => job' \in [Threads -> JobType]
BY DEF AllocTypeOK, Set

(* The call of a thread that is in none.                                   *)
LEMMA IdleFits ==
    ASSUME AllocAssumption
    PROVE  Idle \in JobType /\ Idle.op = "none" /\ Idle.desc = 0 /\ Idle.old = {}
<1>1. <<0, 0>> \in Pointers
  BY ArenaSizes DEF Pointers
<1> QED
  BY <1>1 DEF Idle, JobType

(* A step of a call that changes neither what is held nor the memory.      *)
LEMMA QuietCall ==
    ASSUME AllocAssumption, AllocInv, NEW t \in Threads,
           pc' \in [Threads -> Locations], job' \in [Threads -> JobType],
           pool_lock' \in Threads \cup {Nobody}, desc_lock' \in [Descs -> Threads \cup {Nobody}],
           \A u \in Threads : u # t => pc'[u] = pc[u] /\ job'[u] = job[u],
           UNCHANGED <<used_map, arena, free_list, own>>,
           data' = data \/ data' = [c \in Cells |-> data'[c]],
           LocksOfOthers(t),
           pc[t] \notin {"wipe", "pop"}, JobLand(t)' = JobLand(t), JobFits(t)', LocksHeld(t)'
    PROVE  AllocInv'
<1>1. Others(t)
  BY DEF Others
<1>2. AllocTypeOK'
  BY DEF AllocTypeOK, AllocInv
<1>3. OwnLand(t)' = OwnLand(t) /\ All(t)' = All(t)
  BY DEF OwnLand, Land, All
<1>4. LandsApart(t)'
  BY DEF AllocInv, Apart, LandsApart, Land
<1>5. \A o \in own'[t] : Holds(o.ptr, o.n)
  BY DEF AllocInv, OwnFits
<1> QED
  BY <1>1, <1>2, <1>3, <1>4, <1>5, Quiet

(* malloc, calloc and realloc pick the descriptor or the pages to ask for. *)
LEMMA RequestKeeps ==
    ASSUME AllocAssumption, AllocInv, NEW t \in Threads, NEW size \in Sizes,
           NEW op \in Asking \ Getting, NEW old \in SUBSET own[t], Request(t, op, size, old),
           old # {} => op = "realloc" /\ \E o \in own[t] : old = {o} /\ o.ptr[2] # 0
    PROVE  AllocInv'
<1> DEFINE d == FindDesc(size)
           n == IF d = 0 THEN PagesFor(size) ELSE 1
           j == [Idle EXCEPT !.op = op, !.desc = d, !.old = old, !.n = n]
<1>1. /\ pc[t] = "idle" /\ Set(t, j) /\ Go(t, IF d = 0 THEN "pool" ELSE "desc")
      /\ UNCHANGED <<used_map, arena, data, free_list, desc_lock, pool_lock, own>>
  BY DEF Request, At, Memory, Lists
<1>2. d \in {0} \cup Descs /\ n \in Nat \ {0}
  BY WhatIsAskedFor
<1>3. AllocTypeOK /\ own[t] \in SUBSET OwnType
  BY DEF AllocInv, AllocTypeOK
<1>4. /\ j.op = op /\ j.desc = d /\ j.old = old /\ j.n = n /\ j.ptr[2] = 0 /\ j \in JobType
  <2>1. j.op = op /\ j.desc = d /\ j.old = old /\ j.n = n /\ j.ptr[2] = 0
    <3> HIDE DEF d, n
    <3> QED
      BY DEF Idle
  <2>2. op \in {"none", "free"} \cup Asking /\ old \in SUBSET OwnType
    BY <1>3
  <2>3. j \in JobType
    <3> HIDE DEF d, n
    <3> QED
      BY <1>2, <2>2, IdleFits DEF JobType
  <2> QED
    BY <2>1, <2>3
<1> HIDE DEF d, n, j
<1>5. /\ pc'[t] = IF d = 0 THEN "pool" ELSE "desc"
      /\ pc' \in [Threads -> Locations] /\ job'[t] = j /\ job' \in [Threads -> JobType]
      /\ \A u \in Threads : u # t => pc'[u] = pc[u] /\ job'[u] = job[u]
  <2>1. /\ job'[t] = j /\ job' \in [Threads -> JobType]
        /\ \A u \in Threads : u # t => job'[u] = job[u]
    BY <1>1, <1>3, <1>4, Sets
  <2> DEFINE l == IF d = 0 THEN "pool" ELSE "desc"
  <2>2. Go(t, l) /\ l \in Locations
    BY <1>1 DEF Locations
  <2> HIDE DEF l
  <2>3. pc'[t] = l /\ pc' \in [Threads -> Locations]
        /\ \A u \in Threads : u # t => pc'[u] = pc[u]
    BY <1>3, <2>2, Goes
  <2> QED
    BY <2>1, <2>3 DEF l
<1>6. JobLand(t) = {} /\ JobLand(t)' = {}
  BY <1>1, <1>4, <1>5 DEF JobLand, Asking, Getting
<1>7. JobFits(t)'
  <2>1. CASE d = 0
    <3>1. pc'[t] = "pool" /\ job'[t] = j /\ own'[t] = own[t] /\ j.desc = 0
      BY <1>1, <1>4, <1>5, <2>1
    <3> QED
      BY <1>2, <1>4, <3>1 DEF JobFits, At
  <2>2. CASE d # 0
    <3>1. pc'[t] = "desc" /\ job'[t] = j /\ own'[t] = own[t] /\ j.desc # 0
      BY <1>1, <1>4, <1>5, <2>2
    <3>2. j.n = 1 /\ j.op # "none" /\ j.op # "free" /\ j.op \notin Getting
      BY <1>4, <2>2 DEF n, Asking, Getting
    <3> QED
      BY <1>4, <3>1, <3>2 DEF JobFits, At
  <2> QED
    BY <2>1, <2>2
<1>8. LocksHeld(t)'
  BY <1>1, <1>4, <1>5 DEF LocksHeld, InPool, InDesc
<1>9. LocksOfOthers(t)
  BY <1>1 DEF LocksOfOthers
<1>10. desc_lock' \in [Descs -> Threads \cup {Nobody}] /\ pool_lock' \in Threads \cup {Nobody}
  BY <1>1, <1>3 DEF AllocTypeOK
<1> QED
  BY <1>1, <1>5, <1>6, <1>7, <1>8, <1>9, <1>10, QuietCall

(* A client's call of malloc, calloc or realloc hands out nothing yet.     *)
LEMMA CallKeeps ==
    ASSUME AllocAssumption, AllocInv, NEW t \in Threads,
           Malloc(t) \/ Calloc(t) \/ Realloc(t)
    PROVE  AllocInv'
<1>1. \A op \in {"malloc", "calloc", "realloc"} : op \in Asking \ Getting
  BY DEF Asking, Getting
<1>2. CASE Malloc(t) \/ Calloc(t)
  BY <1>1, <1>2, RequestKeeps DEF Malloc, Calloc
<1>3. CASE Realloc(t)
  <2>1. PICK o \in own[t], size \in Sizes : o.ptr[2] # 0 /\ Request(t, "realloc", size, {o})
    BY <1>3 DEF Realloc
  <2> QED
    BY <1>1, <2>1, RequestKeeps
<1> QED
  BY <1>2, <1>3

(* Nor does a call of palloc_get_page.                                     *)
LEMMA GetPagesKeeps ==
    ASSUME AllocAssumption, AllocInv, NEW t \in Threads, GetPages(t)
    PROVE  AllocInv'
<1>1. PICK op \in Getting :
        /\ pc[t] = "idle" /\ Set(t, [Idle EXCEPT !.op = op, !.n = 1]) /\ Go(t, "pool")
        /\ UNCHANGED <<used_map, arena, data, free_list, desc_lock, pool_lock, own>>
  BY DEF GetPages, At, Memory, Lists, Getting
<1> DEFINE j == [Idle EXCEPT !.op = op, !.n = 1]
<1>2. AllocTypeOK
  BY DEF AllocInv
<1>3. j.op = op /\ j.desc = 0 /\ j.old = {} /\ j.n = 1 /\ j.ptr[2] = 0 /\ j \in JobType
  <2>1. <<0, 0>> \in Pointers
    BY ArenaSizes DEF Pointers
  <2> QED
    BY <2>1 DEF Idle, JobType, Asking
<1>10. Set(t, j)
  BY <1>1
<1> HIDE DEF j
<1>4. /\ pc'[t] = "pool" /\ pc' \in [Threads -> Locations]
      /\ job'[t] = j /\ job' \in [Threads -> JobType]
      /\ \A u \in Threads : u # t => pc'[u] = pc[u] /\ job'[u] = job[u]
  <2>1. pc'[t] = "pool" /\ pc' \in [Threads -> Locations]
        /\ \A u \in Threads : u # t => pc'[u] = pc[u]
    BY <1>1, <1>2, Goes DEF Locations
  <2>2. /\ job'[t] = j /\ job' \in [Threads -> JobType]
        /\ \A u \in Threads : u # t => job'[u] = job[u]
    BY <1>2, <1>3, <1>10, Sets
  <2> QED
    BY <2>1, <2>2
<1>5. JobLand(t) = {} /\ JobLand(t)' = {}
  BY <1>1, <1>4 DEF JobLand
<1>6. JobFits(t)'
  BY <1>1, <1>3, <1>4 DEF JobFits, At, Asking
<1>7. LocksHeld(t)'
  BY <1>1, <1>3, <1>4 DEF LocksHeld, InPool, InDesc
<1>8. LocksOfOthers(t)
  BY <1>1 DEF LocksOfOthers
<1>9. desc_lock' \in [Descs -> Threads \cup {Nobody}] /\ pool_lock' \in Threads \cup {Nobody}
  BY <1>1, <1>2 DEF AllocTypeOK
<1> QED
  BY <1>1, <1>4, <1>5, <1>6, <1>7, <1>8, <1>9, QuietCall

(* A client gives up what it holds: from here on it is its call's.         *)
LEMMA FreeKeeps ==
    ASSUME AllocAssumption, AllocInv, NEW t \in Threads, Free(t)
    PROVE  AllocInv'
<1>1. PICK o \in own[t] :
        /\ pc[t] = "idle" /\ own' = [own EXCEPT ![t] = @ \ {o}]
        /\ Set(t, [Idle EXCEPT !.op = "free", !.ptr = o.ptr, !.n = o.n])
        /\ Go(t, IF o.ptr[2] = 0 THEN "wipe" ELSE "clear")
        /\ UNCHANGED <<used_map, arena, data, free_list, desc_lock, pool_lock>>
  BY DEF Free, At, Memory, Lists
<1> DEFINE j == [Idle EXCEPT !.op = "free", !.ptr = o.ptr, !.n = o.n]
           l == IF o.ptr[2] = 0 THEN "wipe" ELSE "clear"
<1>2. AllocTypeOK /\ o \in OwnType /\ Holds(o.ptr, o.n) /\ JobFits(t)
  BY DEF AllocInv, AllocTypeOK, OwnFits, JobsFit
<1>3. /\ j.op = "free" /\ j.desc = 0 /\ j.old = {} /\ j.n = o.n /\ j.ptr = o.ptr /\ j.k = 0
      /\ j \in JobType
  <2>1. j.op = "free" /\ j.desc = 0 /\ j.old = {} /\ j.n = o.n /\ j.ptr = o.ptr /\ j.k = 0
    BY DEF Idle
  <2>2. j \in JobType
    BY <1>2, IdleFits DEF JobType, OwnType
  <2> QED
    BY <2>1, <2>2
<1>4. /\ pc'[t] = l /\ pc' \in [Threads -> Locations]
      /\ job'[t] = j /\ job' \in [Threads -> JobType]
      /\ \A u \in Threads : u # t => pc'[u] = pc[u] /\ job'[u] = job[u] /\ own'[u] = own[u]
  <2>1. Set(t, j) /\ Go(t, l)
    BY <1>1
  <2>2. l \in Locations
    BY DEF Locations
  <2> HIDE DEF j, l
  <2>3. /\ job'[t] = j /\ job' \in [Threads -> JobType]
        /\ \A u \in Threads : u # t => job'[u] = job[u]
    BY <1>2, <1>3, <2>1, Sets
  <2>4. /\ pc'[t] = l /\ pc' \in [Threads -> Locations]
        /\ \A u \in Threads : u # t => pc'[u] = pc[u]
    BY <1>2, <2>1, <2>2, Goes
  <2>5. \A u \in Threads : u # t => own'[u] = own[u]
    BY <1>1, <1>2 DEF AllocTypeOK
  <2> QED
    BY <2>3, <2>4, <2>5
<1>5. own'[t] = own[t] \ {o} /\ own' \in [Threads -> SUBSET OwnType]
  BY <1>1, <1>2 DEF AllocTypeOK
<1> HIDE DEF j
<1>6. Others(t) /\ LocksOfOthers(t) /\ AllocTypeOK'
  BY <1>1, <1>2, <1>4, <1>5 DEF Others, LocksOfOthers, AllocTypeOK
<1>7. o.n = 0 => o.ptr[2] # 0
  BY <1>2 DEF Holds
<1>8. JobLand(t) = {} /\ JobLand(t)' = Land(o.ptr, o.n)
  <2>1. JobLand(t) = {}
    BY <1>1 DEF JobLand
  <2>2. CASE o.ptr[2] = 0
    BY <1>3, <1>4, <1>7, <2>1, <2>2 DEF JobLand, Land
  <2>3. CASE o.ptr[2] # 0
    BY <1>3, <1>4, <2>1, <2>3 DEF JobLand, Land
  <2> QED
    BY <2>1, <2>2, <2>3
<1>9. All(t)' = All(t)
  <2>1. OwnLand(t)' = UNION {Land(q.ptr, q.n) : q \in own[t] \ {o}}
    BY <1>5 DEF OwnLand, Land
  <2>2. OwnLand(t) = Land(o.ptr, o.n) \cup UNION {Land(q.ptr, q.n) : q \in own[t] \ {o}}
    BY DEF OwnLand
  <2> QED
    BY <1>8, <2>1, <2>2 DEF All
<1>10. LandsApart(t)'
  <2>1. \A q \in own[t] : q # o => Land(q.ptr, q.n) \cap Land(o.ptr, o.n) = {}
    BY DEF AllocInv, Apart
  <2>2. \A q \in own[t], r \in own[t] : q # r => Land(q.ptr, q.n) \cap Land(r.ptr, r.n) = {}
    BY DEF AllocInv, Apart
  <2> QED
    BY <1>5, <1>8, <2>1, <2>2 DEF LandsApart, Land
<1>11. LocksHeld(t)'
  BY <1>3, <1>4 DEF LocksHeld, InPool, InDesc
<1>12. JobFits(t)'
  <2>1. CASE o.ptr[2] = 0
    <3>1. o.n # 0 /\ o.ptr[1] + o.n <= PageCnt
      BY <1>2, <2>1 DEF Holds
    <3> QED
      BY <1>3, <1>4, <2>1, <3>1 DEF JobFits, At
  <2>2. CASE o.ptr[2] # 0
    <3>1. Holds(o.ptr, o.n)'
      BY <1>1, <1>2 DEF Holds
    <3> QED
      BY <1>1, <1>2, <1>3, <1>4, <2>2, <3>1 DEF JobFits, At, Holds
  <2> QED
    BY <2>1, <2>2
<1>13. \A q \in own'[t] : Holds(q.ptr, q.n)
  BY <1>5 DEF AllocInv, OwnFits
<1>14. pc[t] \notin {"wipe", "pop"} /\ UNCHANGED <<used_map, arena, free_list>>
  BY <1>1
<1> QED
  BY <1>6, <1>9, <1>10, <1>11, <1>12, <1>13, <1>14, Quiet

(* A client writes to what it holds, which stays its own.                  *)
LEMMA WriteKeeps ==
    ASSUME AllocAssumption, AllocInv, NEW t \in Threads, Write(t)
    PROVE  AllocInv'
<1>1. PICK o \in own[t] :
        /\ pc[t] = "idle"
        /\ data' = [c \in Cells |-> IF c \in Range(CellsOf(o.ptr, o.n)) THEN t ELSE data[c]]
        /\ own' = [own EXCEPT ![t] = (@ \ {o}) \cup {[o EXCEPT !.zero = FALSE]}]
        /\ UNCHANGED <<used_map, arena, free_list, desc_lock, pool_lock, pc, job>>
  BY DEF Write, At, Memory, Lists
<1> DEFINE w == [o EXCEPT !.zero = FALSE]
<1>2. AllocTypeOK /\ o \in OwnType /\ Holds(o.ptr, o.n) /\ JobFits(t) /\ LocksHeld(t)
  BY DEF AllocInv, AllocTypeOK, OwnFits, JobsFit
<1>3. w \in OwnType /\ w.ptr = o.ptr /\ w.n = o.n
  BY <1>2 DEF OwnType
<1> HIDE DEF w
<1>4. /\ own'[t] = (own[t] \ {o}) \cup {w} /\ own' \in [Threads -> SUBSET OwnType]
      /\ \A u \in Threads : u # t => own'[u] = own[u]
  BY <1>1, <1>2, <1>3 DEF AllocTypeOK, w
<1>5. Others(t) /\ LocksOfOthers(t) /\ LocksHeld(t)'
  BY <1>1, <1>2, <1>4 DEF Others, LocksOfOthers, LocksHeld, InPool, InDesc
<1>6. AllocTypeOK'
  <2>1. data' = [c \in Cells |-> data'[c]]
    BY <1>1
  <2>2. Cells' = Cells
    BY DEF Cells, Pages, PerPage, BlocksPerArena, BlockSize
  <2> QED
    BY <1>1, <1>2, <1>4, <2>1 DEF AllocTypeOK
<1>7. JobLand(t) = {} /\ JobLand(t)' = {}
  BY <1>1 DEF JobLand
<1>8. All(t)' = All(t)
  <2>1. OwnLand(t)' = Land(w.ptr, w.n) \cup UNION {Land(q.ptr, q.n) : q \in own[t] \ {o}}
    BY <1>4 DEF OwnLand, Land
  <2>2. OwnLand(t) = Land(o.ptr, o.n) \cup UNION {Land(q.ptr, q.n) : q \in own[t] \ {o}}
    BY DEF OwnLand
  <2> QED
    BY <1>3, <1>7, <2>1, <2>2 DEF All
<1>9. LandsApart(t)'
  <2>1. \A q \in own[t], r \in own[t] : q # r => Land(q.ptr, q.n) \cap Land(r.ptr, r.n) = {}
    BY DEF AllocInv, Apart
  <2>2. \A q \in own'[t], r \in own'[t] : q # r => Land(q.ptr, q.n) \cap Land(r.ptr, r.n) = {}
    BY <1>3, <1>4, <2>1
  <2> QED
    BY <1>7, <2>2 DEF LandsApart, Land
<1>10. \A q \in own'[t] : Holds(q.ptr, q.n)
  BY <1>2, <1>3, <1>4 DEF AllocInv, OwnFits
<1>11. JobFits(t)'
  <2>1. job[t].old = {}
    BY <1>1, <1>2, IdleFits DEF JobFits, At
  <2> QED
    BY <1>1, <1>2, <2>1 DEF JobFits, At
<1> QED
  BY <1>1, <1>5, <1>6, <1>8, <1>9, <1>10, <1>11, Quiet

(* lock_acquire of the descriptor: its list can be looked at.              *)
LEMMA LockDescKeeps ==
    ASSUME AllocAssumption, AllocInv, NEW t \in Threads, LockDesc(t)
    PROVE  AllocInv'
<1> DEFINE j == job[t]
           d == j.desc
           l == IF j.op = "free" THEN "push" ELSE IF free_list[d] = <<>> THEN "pool" ELSE "pop"
<1>1. /\ pc[t] = "desc" /\ desc_lock[d] = Nobody /\ desc_lock' = [desc_lock EXCEPT ![d] = t]
      /\ Go(t, l) /\ UNCHANGED <<used_map, arena, data, free_list, pool_lock, job, own>>
  BY DEF LockDesc, At, Memory
<1>2. AllocTypeOK /\ j \in JobType /\ JobFits(t)
  BY DEF AllocInv, AllocTypeOK, JobsFit
<1>3. d \in Descs /\ j.op # "none" /\ (j.op = "free" \/ j.op \in Asking)
  BY <1>1, <1>2 DEF JobFits, At, JobType
<1>4. /\ pc'[t] = l /\ pc' \in [Threads -> Locations]
      /\ \A u \in Threads : u # t => pc'[u] = pc[u]
  <2>1. l \in Locations
    BY DEF Locations
  <2> HIDE DEF l
  <2> QED
    BY <1>1, <1>2, <2>1, Goes
<1>5. LocksOfOthers(t) /\ LocksHeld(t)' /\ desc_lock' \in [Descs -> Threads \cup {Nobody}]
  BY <1>1, <1>2, <1>3, <1>4 DEF LocksOfOthers, LocksHeld, InPool, InDesc, AllocTypeOK
<1>6. JobLand(t)' = JobLand(t)
  BY <1>1, <1>4 DEF JobLand
<1>7. JobFits(t)'
  <2>1. CASE j.op = "free"
    BY <1>1, <1>2, <1>4, <2>1 DEF JobFits, At
  <2>2. CASE j.op # "free" /\ free_list[d] = <<>>
    BY <1>1, <1>2, <1>3, <1>4, <2>2 DEF JobFits, At
  <2>3. CASE j.op # "free" /\ free_list[d] # <<>>
    BY <1>1, <1>2, <1>3, <1>4, <2>3 DEF JobFits, At
  <2> QED
    BY <2>1, <2>2, <2>3
<1>8. pool_lock' \in Threads \cup {Nobody} /\ job' \in [Threads -> JobType]
  BY <1>1, <1>2 DEF AllocTypeOK
<1> HIDE DEF d, l
<1> QED
  BY <1>1, <1>4, <1>5, <1>6, <1>7, <1>8, QuietCall

(* lock_release of the descriptor: the block taken, if any, is the         *)
(* caller's.                                                               *)
LEMMA UnlockDescKeeps ==
    ASSUME AllocAssumption, AllocInv, NEW t \in Threads, UnlockDesc(t)
    PROVE  AllocInv'
<1> DEFINE j == job[t]
           d == j.desc
           back == j.op # "free" /\ j.ptr[2] # 0
           l == IF back THEN "return" ELSE "idle"
           k == IF back THEN j ELSE Idle
<1>1. /\ pc[t] = "unlock" /\ desc_lock' = [desc_lock EXCEPT ![d] = Nobody]
      /\ Go(t, l) /\ UNCHANGED <<used_map, arena, data, free_list, pool_lock, own>>
      /\ IF back THEN UNCHANGED job ELSE Set(t, Idle)
  BY DEF UnlockDesc, At, Memory
<1>2. AllocTypeOK /\ j \in JobType /\ JobFits(t) /\ LocksHeld(t)
  BY DEF AllocInv, AllocTypeOK, JobsFit
<1>3. d \in Descs /\ j.op # "none" /\ (j.op = "free" \/ j.op \in Asking)
  BY <1>1, <1>2 DEF JobFits, At, JobType
<1>4. desc_lock[d] = t
  BY <1>1, <1>2 DEF LocksHeld, InDesc
<1>5. /\ pc'[t] = l /\ pc' \in [Threads -> Locations]
      /\ \A u \in Threads : u # t => pc'[u] = pc[u]
  <2>1. l \in Locations
    BY DEF Locations
  <2> HIDE DEF l
  <2> QED
    BY <1>1, <1>2, <2>1, Goes
<1>6. /\ job'[t] = k /\ job' \in [Threads -> JobType]
      /\ \A u \in Threads : u # t => job'[u] = job[u]
  <2>1. CASE back
    BY <1>1, <1>2, <2>1 DEF AllocTypeOK
  <2>2. CASE ~back
    <3> HIDE DEF back
    <3> QED
      BY <1>1, <1>2, <2>2, Sets, IdleFits
  <2> QED
    BY <2>1, <2>2
<1>7. LocksOfOthers(t) /\ LocksHeld(t)' /\ desc_lock' \in [Descs -> Threads \cup {Nobody}]
  <2>1. LocksOfOthers(t) /\ desc_lock' \in [Descs -> Threads \cup {Nobody}]
    BY <1>1, <1>2, <1>3, <1>4 DEF LocksOfOthers, AllocTypeOK
  <2>2. LocksHeld(t)'
    BY <1>5 DEF LocksHeld, InPool, InDesc
  <2> QED
    BY <2>1, <2>2
<1>8. JobLand(t)' = JobLand(t) /\ JobFits(t)'
  <2>1. CASE back
    <3>1. pc'[t] = "return" /\ job'[t] = j /\ own'[t] = own[t]
      BY <1>1, <1>5, <1>6, <2>1
    <3>2. j.n = 0 /\ j.op \in Asking
      BY <1>1, <1>2, <1>3, <2>1 DEF JobFits, At
    <3>3. JobLand(t)' = JobLand(t)
      BY <1>1, <2>1, <3>1, <3>2 DEF JobLand, Land
    <3>4. JobFits(t)'
      BY <1>2, <2>1, <3>1, <3>2 DEF JobFits, At, Holds
    <3> QED
      BY <3>3, <3>4
  <2>2. CASE ~back
    <3>1. pc'[t] = "idle" /\ job'[t] = Idle
      BY <1>1, <1>5, <1>6, <2>2
    <3>2. JobLand(t)' = JobLand(t)
      BY <1>1, <2>2, <3>1 DEF JobLand
    <3>3. JobFits(t)'
      BY <3>1, IdleFits DEF JobFits, At
    <3> QED
      BY <3>2, <3>3
  <2> QED
    BY <2>1, <2>2
<1>9. pool_lock' \in Threads \cup {Nobody}
  BY <1>1, <1>2 DEF AllocTypeOK
<1> HIDE DEF d, l, k, back
<1> QED
  BY <1>1, <1>5, <1>6, <1>7, <1>8, <1>9, QuietCall

(* lock_acquire of the pool: the scan starts at the first page.            *)
LEMMA LockPoolKeeps ==
    ASSUME AllocAssumption, AllocInv, NEW t \in Threads, LockPool(t)
    PROVE  AllocInv'
<1> DEFINE j == job[t]
           k == [job[t] EXCEPT !.at = 0, !.k = 0]
<1>1. /\ pc[t] = "pool" /\ pool_lock = Nobody /\ pool_lock' = t /\ Set(t, k) /\ Go(t, "scan")
      /\ UNCHANGED <<used_map, arena, data, free_list, desc_lock, own>>
  BY DEF LockPool, At, Memory, Lists, PoolIsFree
<1>2. AllocTypeOK /\ j \in JobType /\ JobFits(t) /\ LocksHeld(t)
  BY DEF AllocInv, AllocTypeOK, JobsFit
<1>3. /\ k \in JobType /\ k.op = j.op /\ k.n = j.n /\ k.ptr = j.ptr /\ k.desc = j.desc
      /\ k.old = j.old /\ k.k = 0
  BY <1>2 DEF JobType
<1> HIDE DEF k
<1>4. /\ pc'[t] = "scan" /\ pc' \in [Threads -> Locations]
      /\ \A u \in Threads : u # t => pc'[u] = pc[u]
  BY <1>1, <1>2, Goes DEF Locations
<1>5. /\ job'[t] = k /\ job' \in [Threads -> JobType]
      /\ \A u \in Threads : u # t => job'[u] = job[u]
  BY <1>1, <1>2, <1>3, Sets
<1>6. LocksOfOthers(t) /\ LocksHeld(t)'
  BY <1>1, <1>2, <1>3, <1>4, <1>5 DEF LocksOfOthers, LocksHeld, InPool, InDesc
<1>7. JobLand(t)' = JobLand(t)
  BY <1>1, <1>4 DEF JobLand
<1>8. JobFits(t)'
  BY <1>1, <1>2, <1>3, <1>4, <1>5 DEF JobFits, At
<1>9. pool_lock' \in Threads \cup {Nobody} /\ desc_lock' \in [Descs -> Threads \cup {Nobody}]
  BY <1>1, <1>2 DEF AllocTypeOK
<1> QED
  BY <1>1, <1>4, <1>5, <1>6, <1>7, <1>8, <1>9, QuietCall

(* bitmap_scan: the pages found are free, and stay so under the pool's     *)
(* lock.                                                                   *)
LEMMA ScanKeeps ==
    ASSUME AllocAssumption, AllocInv, NEW t \in Threads, Scan(t)
    PROVE  AllocInv'
<1> DEFINE j == job[t]
           k == [j EXCEPT !.at = @ + 1]
<1>1. /\ pc[t] = "scan"
      /\ UNCHANGED <<used_map, arena, data, free_list, desc_lock, pool_lock, own>>
  BY DEF Scan, At, Memory, Lists
<1>2. AllocTypeOK /\ j \in JobType /\ JobFits(t) /\ LocksHeld(t) /\ PageCnt \in Nat
  BY DEF AllocInv, AllocTypeOK, JobsFit, AllocAssumption
<1>3. \/ Go(t, "no page") /\ UNCHANGED job
      \/ Set(t, k) /\ UNCHANGED pc
      \/ /\ Go(t, "mark") /\ UNCHANGED job /\ j.at + j.n <= PageCnt
         /\ Run(j.at, j.n) \cap used_map = {}
  <2>1. IF j.at + j.n > PageCnt THEN Go(t, "no page") /\ UNCHANGED job
        ELSE IF Run(j.at, j.n) \cap used_map # {} THEN Set(t, k) /\ UNCHANGED pc
        ELSE Go(t, "mark") /\ UNCHANGED job
    BY Zenon DEF Scan
  <2>2. j.at + j.n > PageCnt \/ j.at + j.n <= PageCnt
    BY <1>2 DEF JobType
  <2> HIDE DEF j, k
  <2> QED
    BY <2>1, <2>2
<1>4. /\ k \in JobType /\ k.op = j.op /\ k.n = j.n /\ k.ptr = j.ptr /\ k.desc = j.desc
      /\ k.old = j.old /\ k.k = j.k
  BY <1>2 DEF JobType
<1> HIDE DEF k
<1>5. /\ pc'[t] \in {"scan", "mark", "no page"} /\ pc' \in [Threads -> Locations]
      /\ \A u \in Threads : u # t => pc'[u] = pc[u]
      /\ job'[t] \in {j, k} /\ job' \in [Threads -> JobType]
      /\ \A u \in Threads : u # t => job'[u] = job[u]
  <2>1. CASE Go(t, "no page") /\ UNCHANGED job
    BY <1>2, <2>1, Goes DEF Locations, AllocTypeOK
  <2>2. CASE Set(t, k) /\ UNCHANGED pc
    BY <1>1, <1>2, <1>4, <2>2, Sets DEF AllocTypeOK
  <2>3. CASE Go(t, "mark") /\ UNCHANGED job
    BY <1>2, <2>3, Goes DEF Locations, AllocTypeOK
  <2> QED
    BY <1>3, <2>1, <2>2, <2>3
<1>6. LocksOfOthers(t) /\ LocksHeld(t)'
  BY <1>1, <1>2, <1>4, <1>5 DEF LocksOfOthers, LocksHeld, InPool, InDesc
<1>7. j.k = 0 /\ j.n # 0
  BY <1>1, <1>2 DEF JobFits, At
<1>8. JobLand(t)' = JobLand(t)
  <2>1. JobLand(t) = {}
    BY <1>1 DEF JobLand
  <2>2. Run(job'[t].at, job'[t].k) = {}
    <3>1. job'[t].k = 0 /\ job'[t].at \in Nat
      BY <1>2, <1>4, <1>5, <1>7 DEF JobType
    <3> QED
      BY <3>1 DEF Run
  <2>3. CASE pc'[t] = "mark"
    BY <2>1, <2>2, <2>3 DEF JobLand
  <2>4. CASE pc'[t] # "mark"
    BY <1>5, <2>1, <2>4 DEF JobLand
  <2> QED
    BY <2>3, <2>4
<1>9. JobFits(t)'
  <2>1. CASE Go(t, "no page") /\ UNCHANGED job
    <3>1. pc'[t] = "no page" /\ job'[t] = j /\ own'[t] = own[t]
      BY <1>1, <1>2, <2>1, Goes
    <3> QED
      BY <1>1, <1>2, <3>1 DEF JobFits, At
  <2>2. CASE Set(t, k) /\ UNCHANGED pc
    <3>1. pc'[t] = "scan" /\ job'[t] = k /\ own'[t] = own[t]
      BY <1>1, <1>2, <2>2, Sets
    <3> QED
      BY <1>1, <1>2, <1>4, <3>1 DEF JobFits, At
  <2>3. CASE Go(t, "mark") /\ UNCHANGED job /\ j.at + j.n <= PageCnt
             /\ Run(j.at, j.n) \cap used_map = {}
    <3>1. pc'[t] = "mark" /\ job'[t] = j /\ own'[t] = own[t]
      BY <1>1, <1>2, <2>3, Goes
    <3>2. j.k < j.n /\ Run(j.at + j.k, j.n - j.k) = Run(j.at, j.n)
      BY <1>2, <1>7 DEF JobType
    <3> QED
      BY <1>1, <1>2, <2>3, <3>1, <3>2 DEF JobFits, At
  <2> QED
    BY <1>3, <2>1, <2>2, <2>3
<1>10. pool_lock' \in Threads \cup {Nobody} /\ desc_lock' \in [Descs -> Threads \cup {Nobody}]
  BY <1>1, <1>2 DEF AllocTypeOK
<1> QED
  BY <1>1, <1>5, <1>6, <1>8, <1>9, <1>10, QuietCall

(* No pages: the locks are released and nobody got anything.               *)
LEMMA NoPageKeeps ==
    ASSUME AllocAssumption, AllocInv, NEW t \in Threads, NoPage(t)
    PROVE  AllocInv'
<1> DEFINE j == job[t]
           l == IF j.desc # 0 THEN "unlock" ELSE "idle"
           k == IF j.desc # 0 THEN j ELSE Idle
<1>1. /\ pc[t] = "no page" /\ pool_lock' = Nobody /\ Go(t, l)
      /\ IF j.desc # 0 THEN UNCHANGED job ELSE Set(t, Idle)
      /\ UNCHANGED <<used_map, arena, data, free_list, desc_lock, own>>
  BY DEF NoPage, At, Memory, Lists
<1>2. AllocTypeOK /\ j \in JobType /\ JobFits(t) /\ LocksHeld(t)
  BY DEF AllocInv, AllocTypeOK, JobsFit
<1>3. pool_lock = t
  BY <1>1, <1>2 DEF LocksHeld, InPool
<1>4. /\ pc'[t] = l /\ pc' \in [Threads -> Locations]
      /\ \A u \in Threads : u # t => pc'[u] = pc[u]
  <2>1. l \in Locations
    BY DEF Locations
  <2> HIDE DEF l
  <2> QED
    BY <1>1, <1>2, <2>1, Goes
<1>5. /\ job'[t] = k /\ job' \in [Threads -> JobType]
      /\ \A u \in Threads : u # t => job'[u] = job[u]
  <2>1. CASE j.desc # 0
    BY <1>1, <1>2, <2>1 DEF AllocTypeOK
  <2>2. CASE j.desc = 0
    BY <1>1, <1>2, <2>2, Sets, IdleFits
  <2> QED
    BY <2>1, <2>2
<1>6. LocksOfOthers(t)
  BY <1>1, <1>3 DEF LocksOfOthers
<1>7. JobLand(t)' = JobLand(t) /\ JobFits(t)' /\ LocksHeld(t)'
  <2>1. CASE j.desc # 0
    <3>1. pc'[t] = "unlock" /\ job'[t] = j /\ own'[t] = own[t]
      BY <1>1, <1>4, <1>5, <2>1
    <3>2. j.ptr[2] = 0 /\ j.op \in Asking /\ j.op \notin Getting
      BY <1>1, <1>2, <2>1 DEF JobFits
    <3>3. JobLand(t)' = JobLand(t)
      BY <1>1, <3>1, <3>2 DEF JobLand
    <3>4. JobFits(t)'
      BY <1>2, <2>1, <3>1, <3>2 DEF JobFits, At, Asking, Getting
    <3>5. LocksHeld(t)'
      BY <1>1, <1>2, <2>1, <3>1 DEF LocksHeld, InPool, InDesc
    <3> QED
      BY <3>3, <3>4, <3>5
  <2>2. CASE j.desc = 0
    <3>1. pc'[t] = "idle" /\ job'[t] = Idle
      BY <1>1, <1>4, <1>5, <2>2
    <3>2. JobLand(t)' = JobLand(t)
      BY <1>1, <3>1 DEF JobLand
    <3>3. JobFits(t)'
      BY <3>1, IdleFits DEF JobFits, At
    <3>4. LocksHeld(t)'
      BY <3>1 DEF LocksHeld, InPool, InDesc
    <3> QED
      BY <3>2, <3>3, <3>4
  <2> QED
    BY <2>1, <2>2
<1>8. pool_lock' \in Threads \cup {Nobody} /\ desc_lock' \in [Descs -> Threads \cup {Nobody}]
  BY <1>1, <1>2 DEF AllocTypeOK
<1> HIDE DEF l, k
<1> QED
  BY <1>1, <1>4, <1>5, <1>6, <1>7, <1>8, QuietCall

(* free looks at the arena's header: a block's descriptor or a big block's *)
(* pages.                                                                  *)
LEMMA ClearKeeps ==
    ASSUME AllocAssumption, AllocInv, NEW t \in Threads, Clear(t)
    PROVE  AllocInv'
<1> DEFINE j == job[t]
           a == arena[j.ptr[1]]
           k1 == [j EXCEPT !.desc = a.desc]
           k2 == [j EXCEPT !.n = a.free_cnt]
<1>1. /\ pc[t] = "clear"
      /\ UNCHANGED <<used_map, arena, free_list, desc_lock, pool_lock, own>>
  BY DEF Clear, At, Lists
<1>2. \/ a.desc # 0 /\ data' = [data EXCEPT ![j.ptr] = Junk] /\ Set(t, k1) /\ Go(t, "desc")
      \/ a.desc = 0 /\ UNCHANGED data /\ Set(t, k2) /\ Go(t, "wipe")
  BY Zenon DEF Clear
<1>3. /\ AllocTypeOK /\ j \in JobType /\ JobFits(t) /\ LocksHeld(t)
      /\ a.desc \in {0} \cup Descs /\ a.free_cnt \in Nat
  BY DEF AllocInv, AllocTypeOK, JobsFit, JobType, Pointers
<1>4. j.op = "free" /\ j.ptr[2] # 0 /\ Holds(j.ptr, j.n) /\ j.desc = 0 /\ j.old = {}
  BY <1>1, <1>3 DEF JobFits, At
<1>5. JobLand(t) = Land(j.ptr, j.n)
  BY <1>1 DEF JobLand
<1>6. pool_lock' \in Threads \cup {Nobody} /\ desc_lock' \in [Descs -> Threads \cup {Nobody}]
  BY <1>1, <1>3 DEF AllocTypeOK
<1>7. LocksOfOthers(t)
  BY <1>1 DEF LocksOfOthers
<1>8. CASE a.desc # 0
  <2>1. j.n = 0
    BY <1>4, <1>8 DEF Holds
  <2>2. /\ k1 \in JobType /\ k1.op = j.op /\ k1.ptr = j.ptr /\ k1.n = j.n /\ k1.old = j.old
        /\ k1.desc = a.desc
    BY <1>3 DEF JobType
  <2>3. data' = [data EXCEPT ![j.ptr] = Junk] /\ Set(t, k1) /\ Go(t, "desc")
    BY <1>2, <1>8
  <2> HIDE DEF k1
  <2>4. /\ pc'[t] = "desc" /\ pc' \in [Threads -> Locations]
        /\ \A u \in Threads : u # t => pc'[u] = pc[u]
        /\ job'[t] = k1 /\ job' \in [Threads -> JobType]
        /\ \A u \in Threads : u # t => job'[u] = job[u]
    BY <1>3, <2>2, <2>3, Goes, Sets DEF Locations
  <2>5. JobLand(t)' = JobLand(t)
    BY <1>4, <1>5, <2>1, <2>2, <2>4 DEF JobLand, Land
  <2>6. JobFits(t)'
    BY <1>1, <1>4, <1>8, <2>2, <2>4 DEF JobFits, At
  <2>7. LocksHeld(t)'
    BY <2>4 DEF LocksHeld, InPool, InDesc
  <2>8. data' = [c \in Cells |-> data'[c]]
    <3>1. data = [c \in Cells |-> data[c]]
      BY <1>3 DEF AllocTypeOK
    <3> QED
      BY <2>3, <3>1
  <2> QED
    BY <1>1, <1>6, <1>7, <2>4, <2>5, <2>6, <2>7, <2>8, QuietCall
<1>9. CASE a.desc = 0
  <2>1. j.n # 0
    <3> SUFFICES ASSUME j.n = 0 PROVE FALSE
      OBVIOUS
    <3>1. j.ptr \in All(t)
      BY <1>5 DEF All, Land
    <3>2. Live(j.ptr[1])
      BY <1>4, <3>1 DEF AllocInv, LandsFit, InArena
    <3> QED
      BY <1>9, <3>2 DEF Live
  <2>2. a.free_cnt = j.n /\ j.ptr[1] + j.n <= PageCnt
    BY <1>4, <2>1 DEF Holds
  <2>3. /\ k2 \in JobType /\ k2.op = j.op /\ k2.ptr = j.ptr /\ k2.n = j.n /\ k2.old = j.old
        /\ k2.desc = j.desc
    BY <1>3, <2>2 DEF JobType
  <2>4. UNCHANGED data /\ Set(t, k2) /\ Go(t, "wipe")
    BY <1>2, <1>9
  <2> HIDE DEF k2
  <2>5. /\ pc'[t] = "wipe" /\ pc' \in [Threads -> Locations]
        /\ \A u \in Threads : u # t => pc'[u] = pc[u]
        /\ job'[t] = k2 /\ job' \in [Threads -> JobType]
        /\ \A u \in Threads : u # t => job'[u] = job[u]
    BY <1>3, <2>3, <2>4, Goes, Sets DEF Locations
  <2>6. JobLand(t)' = JobLand(t)
    BY <1>5, <2>1, <2>3, <2>5 DEF JobLand, Land
  <2>7. JobFits(t)'
    BY <1>1, <1>4, <2>1, <2>2, <2>3, <2>5 DEF JobFits, At
  <2>8. LocksHeld(t)'
    BY <1>4, <2>3, <2>5 DEF LocksHeld, InPool, InDesc
  <2> QED
    BY <1>1, <1>6, <1>7, <2>4, <2>5, <2>6, <2>7, <2>8, QuietCall
<1> QED
  BY <1>8, <1>9

(* The memory is the client's; realloc's old block is on its way back.     *)
LEMMA ReturnKeeps ==
    ASSUME AllocAssumption, AllocInv, NEW t \in Threads, Return(t)
    PROVE  AllocInv'
<1> DEFINE j == job[t]
           zero == j.op \in {"calloc", "get zero"}
           w == [ptr |-> j.ptr, n |-> j.n, zero |-> zero]
<1>1. /\ pc[t] = "return" /\ own' = [own EXCEPT ![t] = (@ \ j.old) \cup {w}]
      /\ UNCHANGED <<used_map, arena, free_list, desc_lock, pool_lock>>
  BY DEF Return, At, Lists
<1>2. \/ j.old = {} /\ Set(t, Idle) /\ Go(t, "idle")
      \/ \E o \in j.old : /\ Set(t, [Idle EXCEPT !.op = "free", !.ptr = o.ptr, !.n = o.n])
                          /\ Go(t, "clear")
  BY Zenon DEF Return
<1>3. /\ AllocTypeOK /\ j \in JobType /\ JobFits(t) /\ LocksHeld(t)
      /\ own[t] \in SUBSET OwnType /\ \A o \in own[t] : Holds(o.ptr, o.n)
  BY DEF AllocInv, AllocTypeOK, JobsFit, OwnFits
<1>4. j.op \in Asking /\ Holds(j.ptr, j.n)
  BY <1>1, <1>3 DEF JobFits, At
<1>5. w \in OwnType /\ w.ptr = j.ptr /\ w.n = j.n
  BY <1>3 DEF JobType, OwnType
<1>6. JobLand(t) = Land(w.ptr, w.n)
  BY <1>1 DEF JobLand
<1> HIDE DEF w
<1>7. /\ own'[t] = (own[t] \ j.old) \cup {w} /\ own' \in [Threads -> SUBSET OwnType]
      /\ \A u \in Threads : u # t => own'[u] = own[u]
  BY <1>1, <1>3, <1>5 DEF AllocTypeOK
<1>8. data' = [c \in Cells |-> data'[c]]
  <2> DEFINE new == CellsOf(j.ptr, j.n)
             Val(i) == IF zero THEN Zero
                       ELSE IF \E o \in j.old : i \in DOMAIN CellsOf(o.ptr, o.n)
                       THEN data[CellsOf((CHOOSE o \in j.old : TRUE).ptr,
                                         (CHOOSE o \in j.old : TRUE).n)[i]]
                       ELSE data[new[i]]
             F(c) == IF c \in Range(new) THEN Val(CHOOSE i \in DOMAIN new : new[i] = c)
                     ELSE data[c]
  <2>1. data' = [c \in Cells |-> F(c)]
    BY Zenon DEF Return
  <2> HIDE DEF F
  <2> QED
    BY <2>1
<1>9. ASSUME pc' \in [Threads -> Locations], job' \in [Threads -> JobType]
      PROVE  AllocTypeOK'
  BY <1>1, <1>3, <1>7, <1>8, <1>9 DEF AllocTypeOK
<1>10. LocksOfOthers(t)
  BY <1>1 DEF LocksOfOthers
<1>11. \A q \in own'[t] : Holds(q.ptr, q.n)
  BY <1>3, <1>4, <1>5, <1>7
<1>12. /\ \A q \in own[t] : Land(q.ptr, q.n) \cap Land(w.ptr, w.n) = {}
       /\ \A q \in own[t], r \in own[t] : q # r => Land(q.ptr, q.n) \cap Land(r.ptr, r.n) = {}
  BY <1>6 DEF AllocInv, Apart
<1>13. CASE j.old = {}
  <2>1. Set(t, Idle) /\ Go(t, "idle")
    BY <1>2, <1>13
  <2>2. /\ pc'[t] = "idle" /\ pc' \in [Threads -> Locations]
        /\ \A u \in Threads : u # t => pc'[u] = pc[u]
        /\ job'[t] = Idle /\ job' \in [Threads -> JobType]
        /\ \A u \in Threads : u # t => job'[u] = job[u]
    BY <1>3, <2>1, Goes, Sets, IdleFits DEF Locations
  <2>3. Others(t)
    BY <1>7, <2>2 DEF Others
  <2>4. JobLand(t)' = {}
    BY <2>2 DEF JobLand
  <2>5. All(t)' = All(t)
    <3>1. OwnLand(t)' = OwnLand(t) \cup Land(w.ptr, w.n)
      BY <1>7, <1>13 DEF OwnLand, Land
    <3> QED
      BY <1>6, <2>4, <3>1 DEF All
  <2>6. LandsApart(t)'
    BY <1>7, <1>12, <1>13, <2>4 DEF LandsApart, Land
  <2>7. JobFits(t)' /\ LocksHeld(t)'
    BY <2>2, IdleFits DEF JobFits, At, LocksHeld, InPool, InDesc
  <2> QED
    BY <1>1, <1>9, <1>10, <1>11, <2>2, <2>3, <2>5, <2>6, <2>7, Quiet
<1>14. CASE j.old # {}
  <2>1. PICK o \in own[t] : j.old = {o} /\ o.ptr[2] # 0
    BY <1>3, <1>14 DEF JobFits
  <2> DEFINE k == [Idle EXCEPT !.op = "free", !.ptr = o.ptr, !.n = o.n]
  <2>2. Set(t, k) /\ Go(t, "clear")
    BY <1>2, <2>1
  <2>3. o \in OwnType /\ Holds(o.ptr, o.n)
    BY <1>3
  <2>4. k.op = "free" /\ k.desc = 0 /\ k.old = {} /\ k.n = o.n /\ k.ptr = o.ptr
    BY DEF Idle
  <2>5. k \in JobType
    BY <2>3, IdleFits DEF JobType, OwnType
  <2> HIDE DEF k
  <2>6. /\ pc'[t] = "clear" /\ pc' \in [Threads -> Locations]
        /\ \A u \in Threads : u # t => pc'[u] = pc[u]
        /\ job'[t] = k /\ job' \in [Threads -> JobType]
        /\ \A u \in Threads : u # t => job'[u] = job[u]
    BY <1>3, <2>2, <2>5, Goes, Sets DEF Locations
  <2>7. Others(t)
    BY <1>7, <2>6 DEF Others
  <2>8. JobLand(t)' = Land(o.ptr, o.n)
    BY <2>4, <2>6 DEF JobLand, Land
  <2>9. All(t)' = All(t)
    <3>1. OwnLand(t)' = Land(w.ptr, w.n) \cup UNION {Land(q.ptr, q.n) : q \in own[t] \ {o}}
      BY <1>7, <2>1 DEF OwnLand, Land
    <3>2. OwnLand(t) = Land(o.ptr, o.n) \cup UNION {Land(q.ptr, q.n) : q \in own[t] \ {o}}
      BY DEF OwnLand
    <3> QED
      BY <1>6, <2>8, <3>1, <3>2 DEF All
  <2>10. LandsApart(t)'
    <3>1. \A q \in own'[t] : q \in own[t] \ {o} \/ q = w
      BY <1>7, <2>1
    <3>2. \A q \in own'[t] : Land(q.ptr, q.n) \cap Land(o.ptr, o.n) = {}
      BY <1>12, <3>1
    <3>3. \A q \in own'[t], r \in own'[t] : q # r => Land(q.ptr, q.n) \cap Land(r.ptr, r.n) = {}
      BY <1>12, <3>1
    <3> QED
      BY <2>8, <3>2, <3>3 DEF LandsApart, Land
  <2>11. JobFits(t)'
    <3>1. Holds(k.ptr, k.n)'
      BY <1>1, <2>3, <2>4 DEF Holds
    <3> QED
      BY <2>1, <2>4, <2>6, <3>1 DEF JobFits, At, Holds
  <2>12. LocksHeld(t)'
    BY <2>6 DEF LocksHeld, InPool, InDesc
  <2> QED
    BY <1>1, <1>9, <1>10, <1>11, <2>6, <2>7, <2>9, <2>10, <2>11, <2>12, Quiet
<1> QED
  BY <1>13, <1>14

-----------------------------------------------------------------------------
(* Arenas, their blocks and their free lists.                              *)

(* The lock of a descriptor and the lock of the pool are one thread's.     *)
LEMMA OneInDesc ==
    ASSUME AllocInv, NEW t \in Threads, NEW u \in Threads, InDesc(t), InDesc(u),
           job[t].desc = job[u].desc
    PROVE  t = u
BY DEF AllocInv, JobsFit, LocksHeld

(* An arena has as many blocks as malloc_init has counted.                 *)
LEMMA BlockCount ==
    ASSUME AllocAssumption, NEW d \in Descs, NEW p
    PROVE  IsFiniteSet(Blocks(p, d)) /\ Cardinality(Blocks(p, d)) = BlocksPerArena(d)
<1> DEFINE n == BlocksPerArena(d)
           f == [i \in 1..n |-> <<p, i>>]
<1>1. n \in Nat
  BY ArenaSizes
<1>2. Blocks(p, d) = {<<p, i>> : i \in 1..n}
  BY DEF Blocks
<1> HIDE DEF n
<1>3. f \in Bijection(1..n, Blocks(p, d))
  <2>1. f \in [1..n -> Blocks(p, d)]
    BY <1>2
  <2>2. \A i, j \in 1..n : f[i] = f[j] => i = j
    OBVIOUS
  <2>3. \A b \in Blocks(p, d) : \E i \in 1..n : f[i] = b
    BY <1>2
  <2> HIDE DEF f
  <2> QED
    BY <2>1, <2>2, <2>3, Fun_IsBij
<1>4. ExistsBijection(1..n, Blocks(p, d))
  BY <1>3 DEF ExistsBijection
<1>5. IsFiniteSet(1..n) /\ Cardinality(1..n) = n
  BY <1>1, FS_Interval
<1> QED
  BY <1>4, <1>5, FS_Bijection DEF n

(* What is on a free list is a block of a live arena of that size.         *)
LEMMA Listed ==
    ASSUME AllocInv, NEW d \in Descs, NEW c \in Range(free_list[d])
    PROVE  /\ c \in Pointers /\ c[1] \in Pages /\ c[2] # 0 /\ InArena(c) /\ Live(c[1])
           /\ arena[c[1]].desc = d /\ c \in Blocks(c[1], d) /\ FreeList(c[1]) = Range(free_list[d])
<1>1. free_list[d] \in Seq(Pointers)
  BY DEF AllocInv, AllocTypeOK
<1>2. c \in Pointers
  BY <1>1, InRange, ElementOfSeq
<1>3. InArena(c) /\ arena[c[1]].desc = d
  BY DEF AllocInv, ListsFit
<1>4. c[1] \in Pages /\ c[2] \in Nat /\ c = <<c[1], c[2]>> /\ c[2] \in 1..BlocksPerArena(d)
  BY <1>2, <1>3 DEF Pointers, InArena
<1> QED
  BY <1>2, <1>3, <1>4 DEF InArena, Blocks, FreeList

(* A live arena.                                                           *)
LEMMA Arenas ==
    ASSUME AllocAssumption, AllocInv, NEW p \in Pages, Live(p)
    PROVE  /\ arena[p].desc \in Descs /\ p \in used_map
           /\ arena[p].free_cnt \in 0..BlocksPerArena(arena[p].desc)
           /\ IsFiniteSet(FreeBlocks(p)) /\ Cardinality(FreeBlocks(p)) = arena[p].free_cnt
<1>1. arena[p].desc \in Descs /\ p \in used_map /\ arena[p].free_cnt \in Nat
  BY DEF AllocInv, AllocTypeOK, ArenasFit, Live
<1>2. FreeBlocks(p) \in SUBSET Blocks(p, arena[p].desc)
  BY DEF FreeBlocks
<1>3. /\ IsFiniteSet(FreeBlocks(p))
      /\ Cardinality(FreeBlocks(p)) <= BlocksPerArena(arena[p].desc)
  BY <1>1, <1>2, BlockCount, FS_Subset
<1>4. Cardinality(FreeBlocks(p)) = arena[p].free_cnt
  BY DEF AllocInv, ArenasFit
<1> QED
  BY <1>1, <1>3, <1>4, ArenaSizes

(* A page somebody holds as such is no arena, unless its holder is about   *)
(* to wipe it.                                                             *)
LEMMA HeldPage ==
    ASSUME AllocInv, NEW t \in Threads, NEW p, <<p, 0>> \in All(t)
    PROVE  p \in Pages /\ p \in used_map /\ ~Live(p) /\ (p \notin Wipes(t) => arena[p].desc = 0)
<1>1. p \in used_map /\ ~Live(p)
  BY DEF AllocInv, LandsFit
<1>2. ASSUME p \notin Wipes(t), arena[p].desc # 0 PROVE FALSE
  <2>1. PICK u \in Threads : p \in Wipes(u)
    BY <1>1, <1>2, WipingIs DEF Live
  <2>2. u # t /\ <<p, 0>> \in All(u)
    BY <1>2, <2>1, WipedIsHeld
  <2> QED
    BY <2>2 DEF AllocInv, Apart
<1> QED
  BY <1>1, <1>2 DEF AllocInv, AllocTypeOK

(* What a thread holds no other thread holds.                              *)
LEMMA HeldOnce ==
    ASSUME AllocInv, NEW t \in Threads, NEW u \in Threads, u # t, NEW a \in All(t)
    PROVE  a \notin All(u)
BY DEF AllocInv, Apart

(* A client holds something apart from what the call of its thread is at.  *)
LEMMA OwnIsKept ==
    ASSUME AllocInv, NEW t \in Threads, NEW o \in own[t], o.n # 0
    PROVE  <<o.ptr[1], 0>> \in All(t) /\ <<o.ptr[1], 0>> \notin JobLand(t)
<1>1. o \in OwnType
  BY DEF AllocInv, AllocTypeOK
<1>2. o.ptr[1] \in Run(o.ptr[1], o.n)
  BY <1>1 DEF OwnType, Pointers, Pages, Run
<1>3. <<o.ptr[1], 0>> \in Land(o.ptr, o.n)
  BY <1>2 DEF Land
<1> QED
  BY <1>3 DEF All, OwnLand, AllocInv, Apart

-----------------------------------------------------------------------------
(* Bits of the pool set and reset.                                         *)

(* bitmap_set_multiple under the pool's lock: a page becomes the thread's. *)
LEMMA MarkKeeps ==
    ASSUME AllocAssumption, AllocInv, NEW t \in Threads, Mark(t)
    PROVE  AllocInv'
<1> DEFINE j == job[t]
           x == j.at + j.k
           k == [j EXCEPT !.k = @ + 1]
<1>1. /\ pc[t] = "mark" /\ used_map' = used_map \cup {x} /\ Set(t, k)
      /\ IF j.k + 1 = j.n THEN Go(t, "got") ELSE UNCHANGED pc
      /\ UNCHANGED <<arena, data, free_list, desc_lock, pool_lock, own>>
  BY DEF Mark, At, Lists
<1>2. AllocTypeOK /\ j \in JobType /\ JobFits(t) /\ LocksHeld(t) /\ PageCnt \in Nat
  BY DEF AllocInv, AllocTypeOK, JobsFit, AllocAssumption
<1>3. /\ j.at + j.n <= PageCnt /\ j.k < j.n /\ Run(x, j.n - j.k) \cap used_map = {}
      /\ pool_lock = t /\ j.at \in Nat /\ j.k \in Nat /\ j.n \in Nat
  BY <1>1, <1>2 DEF JobFits, LocksHeld, InPool, At, JobType
<1>4. /\ k \in JobType /\ k.op = j.op /\ k.n = j.n /\ k.ptr = j.ptr /\ k.desc = j.desc
      /\ k.old = j.old /\ k.at = j.at /\ k.k = j.k + 1
  BY <1>2 DEF JobType
<1> HIDE DEF k
<1>5. x \in Pages /\ x \notin used_map
  BY <1>2, <1>3 DEF Pages, Run
<1>6. /\ pc'[t] = (IF j.k + 1 = j.n THEN "got" ELSE "mark") /\ pc' \in [Threads -> Locations]
      /\ \A u \in Threads : u # t => pc'[u] = pc[u]
      /\ job'[t] = k /\ job' \in [Threads -> JobType]
      /\ \A u \in Threads : u # t => job'[u] = job[u]
  <2>1. /\ job'[t] = k /\ job' \in [Threads -> JobType]
        /\ \A u \in Threads : u # t => job'[u] = job[u]
    BY <1>1, <1>2, <1>4, Sets
  <2>2. CASE j.k + 1 = j.n
    BY <1>1, <1>2, <2>1, <2>2, Goes DEF Locations
  <2>3. CASE j.k + 1 # j.n
    BY <1>1, <1>2, <2>1, <2>3 DEF AllocTypeOK
  <2> QED
    BY <2>2, <2>3
<1>7. Others(t) /\ LocksOfOthers(t) /\ AllocTypeOK'
  BY <1>1, <1>2, <1>5, <1>6 DEF Others, LocksOfOthers, AllocTypeOK
<1>8. JobLand(t)' = JobLand(t) \cup {<<x, 0>>}
  <2>1. Run(j.at, j.k + 1) = Run(j.at, j.k) \cup {x}
    BY <1>3 DEF Run
  <2>2. JobLand(t) = Run(j.at, j.k) \X {0}
    BY <1>1 DEF JobLand
  <2>3. JobLand(t)' = Run(j.at, j.k + 1) \X {0}
    <3>1. CASE j.k + 1 = j.n
      <4>1. pc'[t] = "got"
        BY <1>6, <3>1
      <4> QED
        BY <1>4, <1>6, <3>1, <4>1 DEF JobLand
    <3>2. CASE j.k + 1 # j.n
      <4>1. pc'[t] = "mark"
        BY <1>6, <3>2
      <4> QED
        BY <1>4, <1>6, <4>1 DEF JobLand
    <3> QED
      BY <3>1, <3>2
  <2> QED
    BY <2>1, <2>2, <2>3
<1>9. All(t)' = All(t) \cup {<<x, 0>>}
  BY <1>1, <1>8 DEF All, OwnLand, Land
<1>10. \A u \in Threads : <<x, 0>> \notin All(u)
  BY <1>5, HeldPage
<1>11. \A u \in Threads : u # t => All(u)' = All(u)
  BY <1>7, OthersKeep
<1>12. JobFits(t)'
  <2>1. Run(x + 1, j.n - (j.k + 1)) \cap used_map' = {}
    BY <1>1, <1>3 DEF Run
  <2>2. j.at + (j.k + 1) = x + 1
    BY <1>3
  <2>3. CASE j.k + 1 = j.n
    BY <1>1, <1>2, <1>4, <1>6, <2>3 DEF JobFits, At
  <2>4. CASE j.k + 1 # j.n
    <3>1. j.k + 1 < j.n
      BY <1>3, <2>4
    <3> QED
      BY <1>1, <1>2, <1>3, <1>4, <1>6, <2>1, <2>2, <2>4, <3>1 DEF JobFits, At
  <2> QED
    BY <2>3, <2>4
<1>13. LocksHeld(t)'
  BY <1>1, <1>2, <1>4, <1>6 DEF LocksHeld, InPool, InDesc
<1>14. ASSUME NEW u \in Threads, u # t
       PROVE  JobFits(u)' /\ LocksHeld(u)' /\ \A o \in own'[u] : Holds(o.ptr, o.n)'
  BY <1>1, <1>3, <1>7, <1>14, OthersFit DEF AllocAssumption
<1>15. JobsFit' /\ OwnFits'
  BY <1>1, <1>12, <1>13, <1>14 DEF JobsFit, OwnFits, Holds, AllocInv
<1>16. LandsApart(t)'
  <2>1. \A o \in own[t] : <<x, 0>> \notin Land(o.ptr, o.n)
    BY <1>10 DEF All, OwnLand
  <2> QED
    BY <1>1, <1>8, <2>1 DEF LandsApart, AllocInv, Apart, Land
<1>17. Apart'
  BY <1>7, <1>9, <1>10, <1>16, OthersApart, SMTT(30) DEF AllocInv, Apart
<1>18. \A p : Live(p)' <=> Live(p)
  <2>1. Wipes(t) = {} /\ Wipes(t)' = {}
    BY <1>1, <1>6 DEF Wipes
  <2> QED
    BY <1>1, <1>7, <2>1, WipingKeeps DEF Live
<1>19. ~Live(x)
  BY <1>5 DEF AllocInv, ArenasFit, Live
<1>20. \A a : InArena(a)' <=> InArena(a)
  BY <1>1, <1>18 DEF InArena
<1>21. LandsFit'
  <2> SUFFICES ASSUME NEW u \in Threads, NEW a \in All(u)'
               PROVE  IF a[2] = 0 THEN a[1] \in used_map' /\ ~Live(a[1])'
                      ELSE InArena(a)' /\ a \notin FreeList(a[1])'
    BY Zenon DEF LandsFit
  <2>1. CASE a \in All(u)
    BY <1>1, <1>18, <1>20, <2>1 DEF AllocInv, LandsFit, FreeList
  <2>2. CASE a = <<x, 0>>
    BY <1>1, <1>18, <1>19, <2>2
  <2> QED
    BY <1>9, <1>11, <2>1, <2>2
<1>22. ListsFit'
  BY <1>1, <1>20 DEF AllocInv, ListsFit
<1>23. ArenasFit'
  BY <1>1, <1>18 DEF AllocInv, ArenasFit, FreeBlocks, FreeList
<1>24. \A a : (\E u \in Threads : a \in All(u)) => \E u \in Threads : a \in All(u)'
  BY <1>9, <1>11
<1>25. NoneLost'
  <2>1. \A p \in used_map' : Live(p)' \/ \E u \in Threads : <<p, 0>> \in All(u)'
    BY <1>1, <1>9, <1>18, <1>24 DEF AllocInv, NoneLost
  <2>2. ASSUME NEW p \in Pages, Live(p)
        PROVE  /\ \A b \in Blocks(p, arena[p].desc) :
                     b \in FreeList(p) \/ \E u \in Threads : b \in All(u)'
               /\ arena[p].free_cnt = BlocksPerArena(arena[p].desc) =>
                     \E u \in Threads : /\ pc'[u] = "pop" /\ job'[u].desc = arena[p].desc
                                        /\ Head(free_list[job'[u].desc])[1] = p
    <3>1. \A b \in Blocks(p, arena[p].desc) :
             b \in FreeList(p) \/ \E u \in Threads : b \in All(u)'
      BY <1>24, <2>2 DEF AllocInv, NoneLost
    <3>2. ASSUME arena[p].free_cnt = BlocksPerArena(arena[p].desc)
          PROVE  \E u \in Threads : /\ pc'[u] = "pop" /\ job'[u].desc = arena[p].desc
                                    /\ Head(free_list[job'[u].desc])[1] = p
      <4>1. PICK u \in Threads : /\ pc[u] = "pop" /\ job[u].desc = arena[p].desc
                                 /\ Head(free_list[job[u].desc])[1] = p
        BY <2>2, <3>2 DEF AllocInv, NoneLost, At
      <4> QED
        BY <1>1, <1>6, <4>1
    <3> QED
      BY <3>1, <3>2
  <2> QED
    BY <1>1, <1>18, <2>1, <2>2 DEF NoneLost, FreeList, At
<1> QED
  BY <1>7, <1>15, <1>17, <1>21, <1>22, <1>23, <1>25 DEF AllocInv

(* bitmap_set_multiple without the lock: a page nobody holds is free       *)
(* again.                                                                  *)
LEMMA ResetKeeps ==
    ASSUME AllocAssumption, AllocInv, NEW t \in Threads, Reset(t)
    PROVE  AllocInv'
<1> DEFINE j == job[t]
           x == j.ptr[1] + j.k
           k == [j EXCEPT !.k = @ + 1]
           l == IF MoreBits(j) THEN "reset" ELSE IF j.desc # 0 THEN "unlock" ELSE "idle"
           m == IF MoreBits(j) THEN k ELSE IF j.desc # 0 THEN j ELSE Idle
<1>1. /\ pc[t] = "reset" /\ used_map' = used_map \ {x}
      /\ UNCHANGED <<arena, data, free_list, desc_lock, pool_lock, own>>
      /\ IF MoreBits(j) THEN Set(t, k) /\ UNCHANGED pc
         ELSE IF j.desc # 0 THEN Go(t, "unlock") /\ UNCHANGED job
         ELSE Go(t, "idle") /\ Set(t, Idle)
  BY DEF Reset, At, Lists
<1>2. AllocTypeOK /\ j \in JobType /\ JobFits(t) /\ LocksHeld(t) /\ PageCnt \in Nat
  BY DEF AllocInv, AllocTypeOK, JobsFit, AllocAssumption
<1>3. /\ j.op = "free" /\ j.n # 0 /\ j.ptr[1] + j.n <= PageCnt /\ j.k < j.n /\ j.old = {}
      /\ j.ptr[1] \in Nat /\ j.k \in Nat /\ j.n \in Nat
  BY <1>1, <1>2 DEF JobFits, At, JobType, Pointers, Pages
<1>4. /\ k \in JobType /\ k.op = j.op /\ k.n = j.n /\ k.ptr = j.ptr /\ k.desc = j.desc
      /\ k.old = j.old /\ k.at = j.at /\ k.k = j.k + 1
  BY <1>2 DEF JobType
<1> HIDE DEF k
<1>5. MoreBits(j) <=> j.k + 1 < j.n
  BY DEF MoreBits
<1>6. /\ pc'[t] = l /\ pc' \in [Threads -> Locations]
      /\ \A u \in Threads : u # t => pc'[u] = pc[u]
      /\ job'[t] = m /\ job' \in [Threads -> JobType]
      /\ \A u \in Threads : u # t => job'[u] = job[u]
  <2>1. CASE MoreBits(j)
    <3>1. Set(t, k) /\ UNCHANGED pc
      BY <1>1, <2>1
    <3> QED
      BY <1>1, <1>2, <1>4, <2>1, <3>1, Sets DEF AllocTypeOK
  <2>2. CASE ~MoreBits(j) /\ j.desc # 0
    <3>1. Go(t, "unlock") /\ UNCHANGED job
      BY <1>1, <2>2
    <3> QED
      BY <1>2, <2>2, <3>1, Goes DEF Locations, AllocTypeOK
  <2>3. CASE ~MoreBits(j) /\ j.desc = 0
    <3>1. Go(t, "idle") /\ Set(t, Idle)
      BY <1>1, <2>3
    <3> QED
      BY <1>2, <2>3, <3>1, Goes, Sets, IdleFits DEF Locations
  <2> QED
    BY <2>1, <2>2, <2>3
<1> HIDE DEF l, m
<1>7. Others(t) /\ LocksOfOthers(t) /\ AllocTypeOK'
  BY <1>1, <1>2, <1>6 DEF Others, LocksOfOthers, AllocTypeOK
<1>8. /\ JobLand(t) = Run(x, j.n - j.k) \X {0}
      /\ JobLand(t)' = JobLand(t) \ {<<x, 0>>} /\ <<x, 0>> \in JobLand(t)
  <2>1. JobLand(t) = Run(x, j.n - j.k) \X {0}
    BY <1>1 DEF JobLand
  <2>2. Run(x, j.n - j.k) \ {x} = Run(x + 1, j.n - (j.k + 1)) /\ x \in Run(x, j.n - j.k)
    BY <1>3 DEF Run
  <2>3. JobLand(t)' = Run(x + 1, j.n - (j.k + 1)) \X {0}
    <3>1. CASE MoreBits(j)
      <4>1. pc'[t] = "reset" /\ job'[t] = k
        BY <1>6, <3>1 DEF l, m
      <4>2. j.ptr[1] + (j.k + 1) = x + 1
        BY <1>3
      <4> QED
        BY <1>4, <4>1, <4>2 DEF JobLand
    <3>2. CASE ~MoreBits(j)
      <4>1. Run(x + 1, j.n - (j.k + 1)) = {}
        BY <1>3, <1>5, <3>2 DEF Run
      <4>2. pc'[t] \in {"unlock", "idle"} /\ (pc'[t] = "unlock" => job'[t].op = "free")
        BY <1>3, <1>6, <3>2 DEF l, m
      <4>3. JobLand(t)' = {}
        BY <4>2 DEF JobLand
      <4> QED
        BY <4>1, <4>3
    <3> QED
      BY <3>1, <3>2
  <2> QED
    BY <2>1, <2>2, <2>3
<1>9. <<x, 0>> \in All(t) /\ \A o \in own[t] : <<x, 0>> \notin Land(o.ptr, o.n)
  BY <1>8 DEF All, AllocInv, Apart
<1>10. All(t)' = All(t) \ {<<x, 0>>}
  <2>1. OwnLand(t)' = OwnLand(t) /\ <<x, 0>> \notin OwnLand(t)
    BY <1>1, <1>9 DEF OwnLand, Land
  <2> QED
    BY <1>8, <2>1 DEF All
<1>11. \A u \in Threads : u # t => All(u)' = All(u) /\ <<x, 0>> \notin All(u)
  BY <1>7, <1>9, OthersKeep, HeldOnce
<1>12. x \in Pages /\ ~Live(x) /\ arena[x].desc = 0
  <2>1. x \notin Wipes(t)
    BY <1>1 DEF Wipes
  <2> QED
    BY <1>9, <2>1, HeldPage
<1>13. JobFits(t)'
  <2>1. CASE MoreBits(j)
    <3>1. pc'[t] = "reset" /\ job'[t] = k
      BY <1>6, <2>1 DEF l, m
    <3> QED
      BY <1>3, <1>4, <1>5, <2>1, <3>1 DEF JobFits, At
  <2>2. CASE ~MoreBits(j) /\ j.desc # 0
    <3>1. pc'[t] = "unlock" /\ job'[t] = j
      BY <1>6, <2>2 DEF l, m
    <3> QED
      BY <1>3, <2>2, <3>1 DEF JobFits, At
  <2>3. CASE ~MoreBits(j) /\ j.desc = 0
    <3>1. pc'[t] = "idle" /\ job'[t] = Idle
      BY <1>6, <2>3 DEF l, m
    <3> QED
      BY <3>1, IdleFits DEF JobFits, At
  <2> QED
    BY <2>1, <2>2, <2>3
<1>14. LocksHeld(t)'
  <2>1. pc'[t] \in {"reset", "unlock", "idle"} /\ (pc'[t] # "idle" => job'[t].desc = j.desc)
    BY <1>4, <1>6 DEF l, m
  <2>2. pc'[t] = "unlock" => j.desc # 0
    BY <1>6 DEF l
  <2> QED
    BY <1>1, <1>2, <2>1, <2>2 DEF LocksHeld, InPool, InDesc
<1>15. ASSUME NEW u \in Threads, u # t
       PROVE  JobFits(u)' /\ LocksHeld(u)' /\ \A o \in own'[u] : Holds(o.ptr, o.n)'
  BY <1>1, <1>7, <1>15, OthersFit DEF AllocAssumption
<1>16. JobsFit' /\ OwnFits'
  BY <1>1, <1>13, <1>14, <1>15 DEF JobsFit, OwnFits, Holds, AllocInv
<1>17. LandsApart(t)'
  BY <1>1, <1>8 DEF LandsApart, AllocInv, Apart, Land
<1>18. Apart'
  BY <1>7, <1>10, <1>17, OthersApart DEF AllocInv, Apart
<1>19. \A p : Live(p)' <=> Live(p)
  <2>1. Wipes(t) = {} /\ Wipes(t)' = {}
    BY <1>1, <1>6 DEF Wipes, l
  <2> QED
    BY <1>1, <1>7, <2>1, WipingKeeps DEF Live
<1>20. \A a : InArena(a)' <=> InArena(a)
  BY <1>1, <1>19 DEF InArena
<1>21. LandsFit'
  <2> SUFFICES ASSUME NEW u \in Threads, NEW a \in All(u)'
               PROVE  IF a[2] = 0 THEN a[1] \in used_map' /\ ~Live(a[1])'
                      ELSE InArena(a)' /\ a \notin FreeList(a[1])'
    BY Zenon DEF LandsFit
  <2>1. a \in All(u) /\ a # <<x, 0>>
    BY <1>10, <1>11
  <2>2. a = <<a[1], a[2]>>
    BY <2>1, HeldType DEF AllocInv
  <2>3. a[2] = 0 => a[1] # x
    BY <2>1, <2>2
  <2> QED
    BY <1>1, <1>19, <1>20, <2>1, <2>3 DEF AllocInv, LandsFit, FreeList
<1>22. ListsFit'
  BY <1>1, <1>20 DEF AllocInv, ListsFit
<1>23. ArenasFit'
  BY <1>1, <1>12, <1>19 DEF AllocInv, ArenasFit, FreeBlocks, FreeList
<1>24. \A a : a # <<x, 0>> /\ (\E u \in Threads : a \in All(u)) => \E u \in Threads : a \in All(u)'
  BY <1>10, <1>11
<1>25. NoneLost'
  <2>1. ASSUME NEW p \in used_map'
        PROVE  Live(p)' \/ \E u \in Threads : <<p, 0>> \in All(u)'
    <3>1. p \in used_map /\ <<p, 0>> # <<x, 0>>
      BY <1>1
    <3> QED
      BY <1>19, <1>24, <3>1 DEF AllocInv, NoneLost
  <2>2. ASSUME NEW p \in Pages, Live(p)
        PROVE  /\ \A b \in Blocks(p, arena[p].desc) :
                     b \in FreeList(p) \/ \E u \in Threads : b \in All(u)'
               /\ arena[p].free_cnt = BlocksPerArena(arena[p].desc) =>
                     \E u \in Threads : /\ pc'[u] = "pop" /\ job'[u].desc = arena[p].desc
                                        /\ Head(free_list[job'[u].desc])[1] = p
    <3>1. ASSUME NEW b \in Blocks(p, arena[p].desc)
          PROVE  b \in FreeList(p) \/ \E u \in Threads : b \in All(u)'
      <4>1. b # <<x, 0>>
        BY DEF Blocks
      <4> QED
        BY <1>24, <2>2, <4>1 DEF AllocInv, NoneLost
    <3>2. ASSUME arena[p].free_cnt = BlocksPerArena(arena[p].desc)
          PROVE  \E u \in Threads : /\ pc'[u] = "pop" /\ job'[u].desc = arena[p].desc
                                    /\ Head(free_list[job'[u].desc])[1] = p
      <4>1. PICK u \in Threads : /\ pc[u] = "pop" /\ job[u].desc = arena[p].desc
                                 /\ Head(free_list[job[u].desc])[1] = p
        BY <2>2, <3>2 DEF AllocInv, NoneLost, At
      <4> QED
        BY <1>1, <1>6, <4>1
    <3> QED
      BY <3>1, <3>2
  <2> QED
    BY <1>1, <1>19, <2>1, <2>2 DEF NoneLost, FreeList, At
<1> QED
  BY <1>7, <1>16, <1>18, <1>21, <1>22, <1>23, <1>25 DEF AllocInv

-----------------------------------------------------------------------------
(* Memory that changes hands.                                              *)

(* palloc_free_multiple's memset: the pages were no longer live.           *)
LEMMA WipeKeeps ==
    ASSUME AllocAssumption, AllocInv, NEW t \in Threads, Wipe(t)
    PROVE  AllocInv'
<1> DEFINE j == job[t]
           gone == Run(j.ptr[1], j.n)
           k == [j EXCEPT !.k = 0]
<1>1. /\ pc[t] = "wipe" /\ Go(t, "reset") /\ Set(t, k)
      /\ data' = [c \in Cells |-> IF c[1] \in gone THEN Junk ELSE data[c]]
      /\ arena' = [p \in Pages |-> IF p \in gone THEN Garbage ELSE arena[p]]
      /\ UNCHANGED <<used_map, free_list, desc_lock, pool_lock, own>>
  BY DEF Wipe, At, Lists
<1>2. AllocTypeOK /\ j \in JobType /\ JobFits(t) /\ LocksHeld(t) /\ PageCnt \in Nat
  BY DEF AllocInv, AllocTypeOK, JobsFit, AllocAssumption
<1>3. /\ j.op = "free" /\ j.n # 0 /\ j.ptr[1] + j.n <= PageCnt /\ j.old = {}
      /\ j.ptr[1] \in Nat /\ j.n \in Nat
  BY <1>1, <1>2 DEF JobFits, At, JobType, Pointers, Pages
<1>4. /\ k \in JobType /\ k.op = j.op /\ k.n = j.n /\ k.ptr = j.ptr /\ k.desc = j.desc
      /\ k.old = j.old /\ k.at = j.at /\ k.k = 0
  BY <1>2 DEF JobType
<1> HIDE DEF k
<1>5. /\ pc'[t] = "reset" /\ pc' \in [Threads -> Locations]
      /\ \A u \in Threads : u # t => pc'[u] = pc[u]
      /\ job'[t] = k /\ job' \in [Threads -> JobType]
      /\ \A u \in Threads : u # t => job'[u] = job[u]
  BY <1>1, <1>2, <1>4, Goes, Sets DEF Locations
<1>6. /\ \A p \in Pages : arena'[p] = IF p \in gone THEN Garbage ELSE arena[p]
      /\ arena' \in [Pages -> [desc : {0} \cup Descs, free_cnt : Nat]]
  <2>1. Garbage \in [desc : {0} \cup Descs, free_cnt : Nat]
    BY DEF Garbage
  <2> HIDE DEF gone
  <2> QED
    BY <1>1, <1>2, <2>1 DEF AllocTypeOK
<1>7. data' = [c \in Cells |-> data'[c]]
  <2> HIDE DEF gone
  <2> QED
    BY <1>1
<1>8. Others(t) /\ LocksOfOthers(t) /\ AllocTypeOK'
  BY <1>1, <1>2, <1>5, <1>6, <1>7 DEF Others, LocksOfOthers, AllocTypeOK
<1>9. /\ JobLand(t) = gone \X {0} /\ JobLand(t)' = JobLand(t) /\ All(t)' = All(t)
      /\ Wipes(t) = gone /\ Wipes(t)' = {}
  <2>1. JobLand(t) = gone \X {0} /\ Wipes(t) = gone /\ Wipes(t)' = {}
    BY <1>1, <1>5 DEF JobLand, Wipes
  <2>2. JobLand(t)' = Run(j.ptr[1] + 0, j.n - 0) \X {0}
    BY <1>4, <1>5 DEF JobLand
  <2>3. j.ptr[1] + 0 = j.ptr[1] /\ j.n - 0 = j.n
    BY <1>3
  <2>4. OwnLand(t)' = OwnLand(t)
    BY <1>1 DEF OwnLand, Land
  <2> QED
    BY <2>1, <2>2, <2>3, <2>4 DEF All
<1>10. \A u \in Threads : All(u)' = All(u)
  BY <1>8, <1>9, OthersKeep
<1> HIDE DEF gone
<1>11. ASSUME NEW p \in Pages PROVE Live(p)' <=> Live(p) /\ p \notin gone
  <2>1. CASE p \in gone
    BY <1>6, <1>9, <2>1, WipingIs DEF Live, Garbage
  <2>2. CASE p \notin gone
    <3>1. Wiping(p)' <=> Wiping(p)
      BY <1>8, <1>9, <2>2, WipingKeeps
    <3> QED
      BY <1>6, <2>2, <3>1 DEF Live
  <2> QED
    BY <2>1, <2>2
<1>12. ASSUME NEW p \in Pages, Live(p) PROVE p \notin gone /\ arena'[p] = arena[p] /\ Live(p)'
  <2>1. p \notin gone
    BY <1>9, <1>12, WipingIs DEF Live
  <2> QED
    BY <1>6, <1>11, <1>12, <2>1
<1>13. ASSUME NEW u \in Threads, NEW a \in All(u)
       PROVE  /\ a[1] \in Pages
              /\ a[2] # 0 => Live(a[1])
              /\ u # t \/ a[2] # 0 => arena'[a[1]] = arena[a[1]]
  <2>1. a[1] \in Pages /\ a[2] \in Nat /\ a = <<a[1], a[2]>>
    BY <1>2, HeldType DEF AllocInv
  <2>2. a[2] # 0 => Live(a[1])
    BY DEF AllocInv, LandsFit, InArena
  <2>3. ASSUME u # t, a[2] = 0 PROVE a[1] \notin gone
    <3>1. <<a[1], 0>> \in All(u)
      BY <2>1, <2>3
    <3>2. <<a[1], 0>> \notin All(t)
      BY <2>3, <3>1, HeldOnce
    <3> QED
      BY <1>9, <3>2 DEF All
  <2> QED
    BY <1>6, <1>12, <2>1, <2>2, <2>3
<1>14. JobFits(t)'
  <2>1. 0 < j.n
    BY <1>3
  <2> QED
    BY <1>3, <1>4, <1>5, <2>1 DEF JobFits, At
<1>15. LocksHeld(t)'
  BY <1>1, <1>2, <1>4, <1>5 DEF LocksHeld, InPool, InDesc
<1>16. ASSUME NEW u \in Threads, u # t
       PROVE  JobFits(u)' /\ LocksHeld(u)' /\ \A o \in own'[u] : Holds(o.ptr, o.n)'
  BY <1>1, <1>8, <1>13, <1>16, OthersFit DEF AllocAssumption
<1>17. ASSUME NEW o \in own[t] PROVE Holds(o.ptr, o.n)'
  <2>1. Holds(o.ptr, o.n) /\ o \in OwnType
    BY <1>2 DEF AllocInv, OwnFits, AllocTypeOK
  <2>2. CASE o.n = 0
    BY <2>1, <2>2 DEF Holds
  <2>3. CASE o.n # 0
    <3>1. <<o.ptr[1], 0>> \notin gone \X {0}
      BY <1>9, <2>3, OwnIsKept
    <3>2. arena'[o.ptr[1]] = arena[o.ptr[1]]
      BY <1>6, <2>1, <3>1 DEF OwnType, Pointers
    <3> QED
      BY <2>1, <2>3, <3>2 DEF Holds
  <2> QED
    BY <2>2, <2>3
<1>18. JobsFit' /\ OwnFits'
  BY <1>1, <1>14, <1>15, <1>16, <1>17 DEF JobsFit, OwnFits
<1>19. LandsApart(t)'
  BY <1>1, <1>9 DEF LandsApart, AllocInv, Apart, Land
<1>20. Apart'
  BY <1>8, <1>9, <1>19, OthersApart DEF AllocInv, Apart
<1>21. \A a : a[1] \in Pages /\ InArena(a) => InArena(a)' /\ FreeList(a[1])' = FreeList(a[1])
  BY <1>1, <1>12 DEF InArena, FreeList
<1>22. LandsFit'
  <2> SUFFICES ASSUME NEW u \in Threads, NEW a \in All(u)
               PROVE  IF a[2] = 0 THEN a[1] \in used_map' /\ ~Live(a[1])'
                      ELSE InArena(a)' /\ a \notin FreeList(a[1])'
    BY <1>10, Zenon DEF LandsFit
  <2>1. a[1] \in Pages
    BY <1>13
  <2>2. IF a[2] = 0 THEN a[1] \in used_map /\ ~Live(a[1])
        ELSE InArena(a) /\ a \notin FreeList(a[1])
    BY DEF AllocInv, LandsFit
  <2> QED
    BY <1>1, <1>11, <1>21, <2>1, <2>2
<1>23. ListsFit'
  <2>1. ASSUME NEW d \in Descs, NEW c \in Range(free_list[d])
        PROVE  InArena(c)' /\ arena'[c[1]].desc = d
    BY <1>12, <1>21, <2>1, Listed
  <2>2. \A d \in Descs : NoRepeat(free_list[d])
    BY DEF AllocInv, ListsFit
  <2> QED
    BY <1>1, <2>1, <2>2 DEF ListsFit
<1>24. ArenasFit'
  <2>1. ASSUME NEW p \in Pages, p \notin used_map PROVE arena'[p].desc = 0
    BY <1>6, <2>1 DEF AllocInv, ArenasFit, Garbage
  <2>2. ASSUME NEW p \in Pages, Live(p)'
        PROVE  Cardinality(FreeBlocks(p)') = arena'[p].free_cnt
    <3>1. Live(p) /\ arena'[p] = arena[p]
      BY <1>11, <1>12, <2>2
    <3>2. FreeBlocks(p)' = FreeBlocks(p)
      BY <1>1, <3>1 DEF FreeBlocks, FreeList, Blocks, BlocksPerArena, BlockSize
    <3> QED
      BY <3>1, <3>2 DEF AllocInv, ArenasFit
  <2> QED
    BY <1>1, <2>1, <2>2 DEF ArenasFit
<1>25. NoneLost'
  <2>1. ASSUME NEW p \in used_map
        PROVE  Live(p)' \/ \E u \in Threads : <<p, 0>> \in All(u)
    BY <1>2, <1>12 DEF AllocInv, NoneLost, AllocTypeOK
  <2>2. ASSUME NEW p \in Pages, Live(p)'
        PROVE  /\ \A b \in Blocks(p, arena'[p].desc) :
                     b \in FreeList(p)' \/ \E u \in Threads : b \in All(u)
               /\ arena'[p].free_cnt = BlocksPerArena(arena'[p].desc) =>
                     \E u \in Threads : /\ pc'[u] = "pop" /\ job'[u].desc = arena'[p].desc
                                        /\ Head(free_list'[job'[u].desc])[1] = p
    <3>1. Live(p) /\ arena'[p] = arena[p] /\ FreeList(p)' = FreeList(p)
      BY <1>1, <1>11, <1>12, <2>2 DEF FreeList
    <3>2. \A b \in Blocks(p, arena[p].desc) :
             b \in FreeList(p) \/ \E u \in Threads : b \in All(u)
      BY <3>1 DEF AllocInv, NoneLost
    <3>3. ASSUME arena[p].free_cnt = BlocksPerArena(arena[p].desc)
          PROVE  \E u \in Threads : /\ pc'[u] = "pop" /\ job'[u].desc = arena[p].desc
                                    /\ Head(free_list'[job'[u].desc])[1] = p
      <4>1. PICK u \in Threads : /\ pc[u] = "pop" /\ job[u].desc = arena[p].desc
                                 /\ Head(free_list[job[u].desc])[1] = p
        BY <3>1, <3>3 DEF AllocInv, NoneLost, At
      <4> QED
        BY <1>1, <1>5, <4>1
    <3> QED
      BY <3>1, <3>2, <3>3
  <2>3. \A p : Blocks(p, arena[p].desc)' = Blocks(p, arena'[p].desc)
    BY DEF Blocks, BlocksPerArena, BlockSize
  <2>4. \A p : BlocksPerArena(arena[p].desc)' = BlocksPerArena(arena'[p].desc)
    BY DEF BlocksPerArena, BlockSize
  <2> QED
    BY <1>1, <1>10, <2>1, <2>2, <2>3, <2>4 DEF NoneLost, At
<1> QED
  BY <1>8, <1>18, <1>20, <1>22, <1>23, <1>24, <1>25 DEF AllocInv

(* The free arenas' places are theirs as long as their free lists are.     *)
LEMMA OwnHolds ==
    ASSUME AllocInv, NEW t \in Threads, NEW o \in own[t],
           \A p \in Pages : ~Live(p) => arena'[p] = arena[p]
    PROVE  Holds(o.ptr, o.n)'
<1>1. Holds(o.ptr, o.n) /\ o \in OwnType
  BY DEF AllocInv, OwnFits, AllocTypeOK
<1>2. CASE o.n = 0
  BY <1>1, <1>2 DEF Holds
<1>3. CASE o.n # 0
  <2>1. o.ptr[1] \in Pages /\ ~Live(o.ptr[1])
    BY <1>3, OwnIsKept, HeldPage
  <2> QED
    BY <1>1, <1>3, <2>1 DEF Holds
<1> QED
  BY <1>2, <1>3

(* malloc takes the first block of the list.                               *)
LEMMA PopKeeps ==
    ASSUME AllocAssumption, AllocInv, NEW t \in Threads, Pop(t)
    PROVE  AllocInv'
<1> DEFINE j == job[t]
           d == j.desc
           b == Head(free_list[d])
           p == b[1]
           k == [j EXCEPT !.ptr = b, !.n = 0]
<1>1. /\ pc[t] = "pop" /\ Go(t, "unlock") /\ Set(t, k)
      /\ free_list' = [free_list EXCEPT ![d] = Tail(@)]
      /\ arena' = [arena EXCEPT ![p].free_cnt = @ - 1]
      /\ UNCHANGED <<used_map, data, desc_lock, pool_lock, own>>
  BY DEF Pop, At
<1>2. AllocTypeOK /\ j \in JobType /\ JobFits(t) /\ LocksHeld(t)
  BY DEF AllocInv, AllocTypeOK, JobsFit
<1>3. d \in Descs /\ d # 0 /\ j.op \in Asking \ Getting /\ free_list[d] # <<>>
  BY <1>1, <1>2 DEF JobFits, At, JobType
<1>4. desc_lock[d] = t /\ InDesc(t)
  BY <1>1, <1>2 DEF LocksHeld, InDesc
<1>5. free_list[d] \in Seq(Pointers) /\ NoRepeat(free_list[d])
  BY <1>2, <1>3 DEF AllocInv, ListsFit, AllocTypeOK
<1>6. /\ b \in Range(free_list[d]) /\ Tail(free_list[d]) \in Seq(Pointers)
      /\ NoRepeat(Tail(free_list[d])) /\ Range(Tail(free_list[d])) = Range(free_list[d]) \ {b}
  BY <1>3, <1>5, TailProps
<1>7. /\ b \in Pointers /\ p \in Pages /\ b[2] # 0 /\ InArena(b) /\ Live(p)
      /\ arena[p].desc = d /\ b \in Blocks(p, d) /\ FreeList(p) = Range(free_list[d])
  BY <1>3, <1>6, Listed
<1>8. /\ k \in JobType /\ k.op = j.op /\ k.n = 0 /\ k.ptr = b /\ k.desc = d
      /\ k.old = j.old
  BY <1>2, <1>7 DEF JobType
<1> HIDE DEF k
<1>9. /\ pc'[t] = "unlock" /\ pc' \in [Threads -> Locations]
      /\ \A u \in Threads : u # t => pc'[u] = pc[u]
      /\ job'[t] = k /\ job' \in [Threads -> JobType]
      /\ \A u \in Threads : u # t => job'[u] = job[u]
  BY <1>1, <1>2, <1>8, Goes, Sets DEF Locations
<1>10. /\ b \in FreeBlocks(p) /\ IsFiniteSet(FreeBlocks(p))
       /\ Cardinality(FreeBlocks(p)) = arena[p].free_cnt
       /\ arena[p].free_cnt \in 1..BlocksPerArena(d) /\ BlocksPerArena(d) \in Nat
  <2>1. b \in FreeBlocks(p)
    BY <1>6, <1>7 DEF FreeBlocks
  <2>2. /\ IsFiniteSet(FreeBlocks(p)) /\ Cardinality(FreeBlocks(p)) = arena[p].free_cnt
        /\ arena[p].free_cnt \in 0..BlocksPerArena(d)
    BY <1>7, Arenas
  <2>3. arena[p].free_cnt # 0
    BY <2>1, <2>2, FS_EmptySet
  <2>4. BlocksPerArena(d) \in Nat
    BY <1>3, ArenaSizes
  <2>5. ASSUME NEW m \in Nat, NEW c \in 0..m, c # 0 PROVE c \in 1..m
    BY <2>5
  <2>6. arena[p].free_cnt \in 1..BlocksPerArena(d)
    BY <2>2, <2>3, <2>4, <2>5
  <2> QED
    BY <2>1, <2>2, <2>4, <2>6
<1>11. /\ free_list'[d] = Tail(free_list[d])
       /\ \A e \in Descs : e # d => free_list'[e] = free_list[e]
       /\ free_list' \in [Descs -> Seq(Pointers)]
  BY <1>1, <1>2, <1>3, <1>6 DEF AllocTypeOK
<1>12. /\ arena'[p].desc = d /\ arena'[p].free_cnt = arena[p].free_cnt - 1
       /\ \A q \in Pages : q # p => arena'[q] = arena[q]
       /\ \A q \in Pages : arena'[q].desc = arena[q].desc
       /\ arena' \in [Pages -> [desc : {0} \cup Descs, free_cnt : Nat]]
  <2> DEFINE R == [desc : {0} \cup Descs, free_cnt : Nat]
             r == [arena[p] EXCEPT !.free_cnt = @ - 1]
  <2>1. arena \in [Pages -> R] /\ arena[p] \in R /\ arena[p].free_cnt - 1 \in Nat
    <3>1. arena \in [Pages -> R]
      BY <1>2 DEF AllocTypeOK
    <3>2. ASSUME NEW m \in Nat, NEW c \in 1..m PROVE c - 1 \in Nat
      OBVIOUS
    <3>3. arena[p].free_cnt - 1 \in Nat
      BY <1>10, <3>2
    <3> HIDE DEF R, p
    <3> QED
      BY <1>7, <3>1, <3>3
  <2>2. r \in R /\ r.desc = arena[p].desc /\ r.free_cnt = arena[p].free_cnt - 1
    BY <2>1
  <2>3. arena' = [arena EXCEPT ![p] = r]
    BY <1>1
  <2> HIDE DEF b, p, r, R
  <2>4. /\ arena' \in [Pages -> R] /\ arena'[p] = r
        /\ \A q \in Pages : q # p => arena'[q] = arena[q]
    BY <1>7, <2>1, <2>2, <2>3
  <2>5. \A q \in Pages : arena'[q].desc = arena[q].desc
    BY <2>2, <2>4
  <2> QED
    BY <1>7, <2>2, <2>4, <2>5 DEF R
<1> HIDE DEF b, p
<1>13. Others(t) /\ LocksOfOthers(t) /\ AllocTypeOK'
  BY <1>1, <1>2, <1>9, <1>11, <1>12 DEF Others, LocksOfOthers, AllocTypeOK
<1>14. JobLand(t) = {} /\ JobLand(t)' = {b}
  <2>1. JobLand(t) = {}
    BY <1>1 DEF JobLand
  <2>2. k.op # "free"
    BY <1>3, <1>8 DEF Asking
  <2>3. JobLand(t)' = {b}
    BY <1>7, <1>8, <1>9, <2>2 DEF JobLand
  <2> QED
    BY <2>1, <2>3
<1>15. All(t)' = All(t) \cup {b}
  BY <1>1, <1>14 DEF All, OwnLand, Land
<1>16. \A u \in Threads : b \notin All(u)
  BY <1>6, <1>7 DEF AllocInv, LandsFit, p
<1>17. \A u \in Threads : u # t => All(u)' = All(u)
  BY <1>13, OthersKeep
<1>18. JobFits(t)'
  BY <1>1, <1>2, <1>3, <1>8, <1>9 DEF JobFits, At, Asking
<1>19. LocksHeld(t)'
  BY <1>1, <1>4, <1>8, <1>9 DEF LocksHeld, InPool, InDesc
<1>20. ASSUME NEW u \in Threads, NEW a \in All(u)
       PROVE  /\ a[1] \in Pages /\ arena'[a[1]].desc = arena[a[1]].desc
              /\ a[2] = 0 => arena'[a[1]] = arena[a[1]]
  <2>1. a[1] \in Pages /\ (a[2] = 0 => ~Live(a[1]))
    BY HeldType DEF AllocInv, LandsFit
  <2> QED
    BY <1>7, <1>12, <2>1
<1>21. ASSUME NEW u \in Threads, u # t
       PROVE  JobFits(u)' /\ LocksHeld(u)' /\ \A o \in own'[u] : Holds(o.ptr, o.n)'
  BY <1>1, <1>4, <1>11, <1>13, <1>20, <1>21, OthersFit DEF AllocAssumption
<1>22. \A o \in own[t] : Holds(o.ptr, o.n)'
  BY <1>7, <1>12, OwnHolds
<1>23. JobsFit' /\ OwnFits'
  BY <1>1, <1>18, <1>19, <1>21, <1>22 DEF JobsFit, OwnFits
<1>24. LandsApart(t)'
  <2>1. \A o \in own[t] : b \notin Land(o.ptr, o.n)
    BY <1>16 DEF All, OwnLand
  <2> QED
    BY <1>1, <1>14, <2>1 DEF LandsApart, AllocInv, Apart, Land
<1>25. Apart'
  BY <1>13, <1>15, <1>16, <1>24, OthersApart DEF AllocInv, Apart
<1>26. \A q \in Pages : Live(q)' <=> Live(q)
  <2>1. Wipes(t) = {} /\ Wipes(t)' = {}
    BY <1>1, <1>9 DEF Wipes
  <2> QED
    BY <1>12, <1>13, <2>1, WipingKeeps DEF Live
<1>27. \A a : a[1] \in Pages => (InArena(a)' <=> InArena(a))
  BY <1>12, <1>26 DEF InArena
<1>28. \A q \in Pages : Live(q) => FreeList(q)' = FreeList(q) \ {b}
  <2> SUFFICES ASSUME NEW q \in Pages, Live(q) PROVE FreeList(q)' = FreeList(q) \ {b}
    OBVIOUS
  <2>1. arena[q].desc \in Descs /\ FreeList(q)' = Range(free_list'[arena[q].desc])
    BY <1>12, Arenas DEF FreeList
  <2>2. CASE arena[q].desc = d
    BY <1>6, <1>11, <2>1, <2>2 DEF FreeList
  <2>3. CASE arena[q].desc # d
    <3>1. b \notin Range(free_list[arena[q].desc])
      BY <1>7, <2>1, <2>3, Listed DEF p
    <3> QED
      BY <1>11, <2>1, <2>3, <3>1 DEF FreeList
  <2> QED
    BY <2>2, <2>3
<1>29. LandsFit'
  <2> SUFFICES ASSUME NEW u \in Threads, NEW a \in All(u)'
               PROVE  IF a[2] = 0 THEN a[1] \in used_map' /\ ~Live(a[1])'
                      ELSE InArena(a)' /\ a \notin FreeList(a[1])'
    BY Zenon DEF LandsFit
  <2>1. CASE a \in All(u)
    <3>1. IF a[2] = 0 THEN a[1] \in used_map /\ ~Live(a[1])
          ELSE InArena(a) /\ a \notin FreeList(a[1])
      BY <2>1 DEF AllocInv, LandsFit
    <3> QED
      BY <1>1, <1>20, <1>26, <1>27, <1>28, <2>1, <3>1 DEF InArena
  <2>2. CASE a = b
    BY <1>7, <1>27, <1>28, <2>2 DEF p
  <2> QED
    BY <1>15, <1>17, <2>1, <2>2
<1>30. ListsFit'
  <2>1. ASSUME NEW e \in Descs
        PROVE  NoRepeat(free_list'[e]) /\ Range(free_list'[e]) \in SUBSET Range(free_list[e])
    <3>1. CASE e = d
      BY <1>6, <1>11, <3>1
    <3>2. CASE e # d
      BY <1>11, <3>2 DEF AllocInv, ListsFit
    <3> QED
      BY <3>1, <3>2
  <2>2. ASSUME NEW e \in Descs, NEW c \in Range(free_list'[e])
        PROVE  InArena(c)' /\ arena'[c[1]].desc = e
    <3>1. c \in Range(free_list[e])
      BY <2>1, <2>2
    <3> QED
      BY <1>12, <1>27, <3>1, Listed
  <2> QED
    BY <2>1, <2>2 DEF ListsFit
<1>31. ASSUME NEW q \in Pages, Live(q) PROVE FreeBlocks(q)' = FreeBlocks(q) \ {b}
  <2>1. Blocks(q, arena[q].desc)' = Blocks(q, arena[q].desc)
    BY <1>12 DEF Blocks, BlocksPerArena, BlockSize
  <2>2. FreeList(q)' = FreeList(q) \ {b}
    BY <1>28, <1>31
  <2> QED
    BY <2>1, <2>2 DEF FreeBlocks
<1>32. ArenasFit'
  <2>1. ASSUME NEW q \in Pages, q \notin used_map PROVE arena'[q].desc = 0
    BY <1>12, <2>1 DEF AllocInv, ArenasFit
  <2>2. ASSUME NEW q \in Pages, Live(q)
        PROVE  Cardinality(FreeBlocks(q)') = arena'[q].free_cnt
    <3>1. CASE q = p
      <4>1. Cardinality(FreeBlocks(p) \ {b}) = Cardinality(FreeBlocks(p)) - 1
        BY <1>10, FS_RemoveElement
      <4> QED
        BY <1>10, <1>12, <1>31, <2>2, <3>1, <4>1
    <3>2. CASE q # p
      <4>1. b \notin FreeBlocks(q)
        BY <3>2 DEF FreeBlocks, Blocks, p
      <4>2. FreeBlocks(q)' = FreeBlocks(q)
        BY <1>31, <2>2, <4>1
      <4> QED
        BY <1>12, <2>2, <3>2, <4>2 DEF AllocInv, ArenasFit
    <3> QED
      BY <3>1, <3>2
  <2> QED
    BY <1>1, <1>26, <2>1, <2>2 DEF ArenasFit
<1>33. \A a : (\E u \in Threads : a \in All(u)) => \E u \in Threads : a \in All(u)'
  BY <1>15, <1>17
<1>34. NoneLost'
  <2>1. ASSUME NEW q \in used_map
        PROVE  Live(q)' \/ \E u \in Threads : <<q, 0>> \in All(u)'
    BY <1>2, <1>26, <1>33 DEF AllocInv, NoneLost, AllocTypeOK
  <2>2. ASSUME NEW q \in Pages, Live(q), NEW c \in Blocks(q, arena[q].desc)
        PROVE  c \in FreeList(q)' \/ \E u \in Threads : c \in All(u)'
    <3>1. c \in FreeList(q) \/ \E u \in Threads : c \in All(u)
      BY <2>2 DEF AllocInv, NoneLost
    <3> QED
      BY <1>15, <1>28, <1>33, <2>2, <3>1
  <2>3. ASSUME NEW q \in Pages, Live(q), arena'[q].free_cnt = BlocksPerArena(arena[q].desc)
        PROVE  \E u \in Threads : /\ pc'[u] = "pop" /\ job'[u].desc = arena[q].desc
                                  /\ Head(free_list'[job'[u].desc])[1] = q
    <3>1. q # p
      BY <1>7, <1>10, <1>12, <2>3
    <3>2. arena[q].free_cnt = BlocksPerArena(arena[q].desc)
      BY <1>12, <2>3, <3>1
    <3>3. PICK u \in Threads : /\ pc[u] = "pop" /\ job[u].desc = arena[q].desc
                               /\ Head(free_list[job[u].desc])[1] = q
      BY <2>3, <3>2 DEF AllocInv, NoneLost, At
    <3>4. u # t
      BY <3>1, <3>3 DEF p, b
    <3>5. job[u].desc # d
      BY <1>4, <3>3, <3>4, OneInDesc DEF InDesc
    <3>6. arena[q].desc \in Descs
      BY <2>3, Arenas
    <3> QED
      BY <1>9, <1>11, <3>3, <3>4, <3>5, <3>6
  <2>4. \A q \in Pages : /\ Blocks(q, arena[q].desc)' = Blocks(q, arena[q].desc)
                          /\ BlocksPerArena(arena[q].desc)' = BlocksPerArena(arena[q].desc)
                          /\ arena'[q].desc = arena[q].desc
    BY <1>12 DEF Blocks, BlocksPerArena, BlockSize
  <2>5. \A q \in Pages : Live(q)' =>
          /\ \A c \in Blocks(q, arena[q].desc)' :
               c \in FreeList(q)' \/ \E u \in Threads : c \in All(u)'
          /\ arena'[q].free_cnt = BlocksPerArena(arena[q].desc)' =>
               \E u \in Threads : /\ pc'[u] = "pop" /\ job'[u].desc = arena'[q].desc
                                  /\ Head(free_list'[job'[u].desc])[1] = q
    BY <1>26, <2>2, <2>3, <2>4
  <2> QED
    BY <1>1, <2>1, <2>5, Zenon DEF NoneLost, At
<1> QED
  BY <1>13, <1>23, <1>25, <1>29, <1>30, <1>32, <1>34 DEF AllocInv

(* list_push_front.                                                        *)
LEMMA FrontProps ==
    ASSUME NEW S, NEW s \in Seq(S), NEW e \in S
    PROVE  /\ <<e>> \o s \in Seq(S)
           /\ Range(<<e>> \o s) = Range(s) \cup {e}
           /\ NoRepeat(s) /\ e \notin Range(s) => NoRepeat(<<e>> \o s)
<1> DEFINE q == <<e>> \o s
<1>1. /\ q \in Seq(S) /\ Len(q) = Len(s) + 1 /\ Len(s) \in Nat /\ q[1] = e
      /\ \A i \in 1..Len(s) : q[i + 1] = s[i]
  OBVIOUS
<1> HIDE DEF q
<1>2. \A i \in 1..Len(q) : i = 1 \/ \E k \in 1..Len(s) : i = k + 1
  <2> SUFFICES ASSUME NEW i \in 1..Len(q), i # 1 PROVE \E k \in 1..Len(s) : i = k + 1
    OBVIOUS
  <2>1. i - 1 \in 1..Len(s) /\ i = (i - 1) + 1
    BY <1>1
  <2> QED
    BY <2>1
<1>3. \A x : x \in Range(q) <=> \E i \in 1..Len(q) : q[i] = x
  BY <1>1, InRange
<1>4. \A x : x \in Range(s) <=> \E i \in 1..Len(s) : s[i] = x
  BY InRange
<1>5. ASSUME NEW x \in Range(q) PROVE x \in Range(s) \/ x = e
  <2>1. PICK i \in 1..Len(q) : q[i] = x
    BY <1>3
  <2>2. CASE i = 1
    BY <1>1, <2>1, <2>2
  <2>3. CASE i # 1
    <3>1. PICK k \in 1..Len(s) : i = k + 1
      BY <1>2, <2>3
    <3>2. s[k] = x
      BY <1>1, <2>1, <3>1
    <3> QED
      BY <1>4, <3>2
  <2> QED
    BY <2>2, <2>3
<1>6. ASSUME NEW x \in Range(s) PROVE x \in Range(q)
  <2>1. PICK i \in 1..Len(s) : s[i] = x
    BY <1>4
  <2>2. i + 1 \in 1..Len(q) /\ q[i + 1] = x
    BY <1>1, <2>1
  <2> QED
    BY <1>3, <2>2
<1>7. e \in Range(q)
  BY <1>1, <1>3
<1>8. ASSUME NoRepeat(s), e \notin Range(s) PROVE NoRepeat(q)
  <2> SUFFICES ASSUME NEW i \in 1..Len(q), NEW j \in 1..Len(q), q[i] = q[j] PROVE i = j
    BY DEF NoRepeat
  <2>1. CASE i = 1
    BY <1>1, <1>2, <1>4, <1>8, <2>1
  <2>2. CASE j = 1
    BY <1>1, <1>2, <1>4, <1>8, <2>2
  <2>3. CASE i # 1 /\ j # 1
    <3>1. PICK k \in 1..Len(s) : i = k + 1
      BY <1>2, <2>3
    <3>2. PICK m \in 1..Len(s) : j = m + 1
      BY <1>2, <2>3
    <3>3. s[k] = s[m]
      BY <1>1, <3>1, <3>2
    <3> QED
      BY <1>8, <3>1, <3>2, <3>3 DEF NoRepeat
  <2> QED
    BY <2>1, <2>2, <2>3
<1> QED
  BY <1>1, <1>5, <1>6, <1>7, <1>8 DEF q

(* A block given back is in a live arena and off its free list: the arena  *)
(* has a block in use, this one, and if it has no other nobody else holds  *)
(* a block of it.                                                          *)
LEMMA GivenBack ==
    ASSUME AllocAssumption, AllocInv, NEW t \in Threads, pc[t] = "push"
    PROVE  LET b == job[t].ptr
               p == b[1]
               d == job[t].desc
               n == BlocksPerArena(d) IN
           /\ b \in Pointers /\ p \in Pages /\ b[2] # 0 /\ d \in Descs /\ d # 0
           /\ job[t].op = "free" /\ job[t].old = {} /\ JobLand(t) = {b} /\ b \in All(t)
           /\ Live(p) /\ p \in used_map /\ arena[p].desc = d /\ FreeList(p) = Range(free_list[d])
           /\ InArena(b) /\ b \notin Range(free_list[d]) /\ b \in Blocks(p, d)
           /\ n \in Nat /\ arena[p].free_cnt \in 0..(n - 1)
           /\ IsFiniteSet(FreeBlocks(p)) /\ Cardinality(FreeBlocks(p)) = arena[p].free_cnt
           /\ arena[p].free_cnt + 1 = n => FreeBlocks(p) = Blocks(p, d) \ {b}
           /\ desc_lock[d] = t /\ InDesc(t)
<1> DEFINE j == job[t]
           b == j.ptr
           p == b[1]
           d == j.desc
           n == BlocksPerArena(d)
<1>1. AllocTypeOK /\ j \in JobType /\ JobFits(t) /\ LocksHeld(t)
  BY DEF AllocInv, AllocTypeOK, JobsFit
<1>2. /\ b \in Pointers /\ p \in Pages /\ b[2] # 0 /\ d \in Descs /\ d # 0
      /\ j.op = "free" /\ arena[p].desc = d /\ j.old = {}
  BY <1>1 DEF JobFits, At, JobType, Pointers
<1>3. JobLand(t) = {b} /\ b \in All(t)
  BY <1>2 DEF JobLand, All
<1>4. InArena(b) /\ b \notin FreeList(p) /\ Live(p)
  BY <1>2, <1>3 DEF AllocInv, LandsFit, InArena
<1>5. b \in Blocks(p, d)
  BY <1>2, <1>4 DEF InArena, Blocks, Pointers
<1>6. /\ p \in used_map /\ IsFiniteSet(FreeBlocks(p))
      /\ Cardinality(FreeBlocks(p)) = arena[p].free_cnt /\ arena[p].free_cnt \in Nat
  BY <1>2, <1>4, Arenas
<1>7. IsFiniteSet(Blocks(p, d)) /\ Cardinality(Blocks(p, d)) = n /\ n \in Nat
  BY <1>2, BlockCount, ArenaSizes
<1>8. FreeBlocks(p) \in SUBSET (Blocks(p, d) \ {b})
  BY <1>2, <1>4 DEF FreeBlocks
<1>9. IsFiniteSet(Blocks(p, d) \ {b}) /\ Cardinality(Blocks(p, d) \ {b}) = n - 1
  BY <1>5, <1>7, FS_RemoveElement, SMTT(30)
<1> HIDE DEF b, p, d, n
<1>10. /\ arena[p].free_cnt <= n - 1
       /\ arena[p].free_cnt = n - 1 => FreeBlocks(p) = Blocks(p, d) \ {b}
  BY <1>6, <1>8, <1>9, FS_Subset
<1>11. arena[p].free_cnt \in 0..(n - 1)
       /\ (arena[p].free_cnt + 1 = n => FreeBlocks(p) = Blocks(p, d) \ {b})
  BY <1>6, <1>7, <1>10
<1>12. desc_lock[d] = t /\ InDesc(t)
  BY <1>1 DEF LocksHeld, InDesc, d
<1>13. FreeList(p) = Range(free_list[d])
  BY <1>2 DEF FreeList
<1> QED
  BY <1>2, <1>3, <1>4, <1>5, <1>6, <1>7, <1>11, <1>12, <1>13 DEF b, p, d, n

(* The rest of the arena's header stays.                                   *)
LEMMA CountIs ==
    ASSUME AllocTypeOK, NEW p \in Pages, NEW n \in Nat,
           arena' = [arena EXCEPT ![p].free_cnt = n]
    PROVE  /\ arena'[p].desc = arena[p].desc /\ arena'[p].free_cnt = n
           /\ \A q \in Pages : q # p => arena'[q] = arena[q]
           /\ \A q \in Pages : arena'[q].desc = arena[q].desc
           /\ arena' \in [Pages -> [desc : {0} \cup Descs, free_cnt : Nat]]
<1> DEFINE R == [desc : {0} \cup Descs, free_cnt : Nat]
           r == [arena[p] EXCEPT !.free_cnt = n]
<1>1. arena \in [Pages -> R] /\ arena[p] \in R
  BY DEF AllocTypeOK
<1>2. r \in R /\ r.desc = arena[p].desc /\ r.free_cnt = n
  BY <1>1
<1>3. arena' = [arena EXCEPT ![p] = r]
  OBVIOUS
<1> HIDE DEF r, R
<1>4. arena' \in [Pages -> R] /\ arena'[p] = r /\ \A q \in Pages : q # p => arena'[q] = arena[q]
  BY <1>1, <1>2, <1>3
<1>5. \A q \in Pages : arena'[q].desc = arena[q].desc
  BY <1>2, <1>4
<1> QED
  BY <1>2, <1>4, <1>5 DEF R

(* free of a block while others of its arena are in use.                   *)
LEMMA PushShort ==
    ASSUME AllocAssumption, AllocInv, NEW t \in Threads, Push(t),
           arena[job[t].ptr[1]].free_cnt + 1 < BlocksPerArena(job[t].desc)
    PROVE  AllocInv'
<1> DEFINE j == job[t]
           d == j.desc
           b == j.ptr
           p == b[1]
           n == BlocksPerArena(d)
           k == [j EXCEPT !.n = 0]
<1>2. AllocTypeOK /\ j \in JobType /\ JobFits(t) /\ LocksHeld(t)
  BY DEF AllocInv, AllocTypeOK, JobsFit
<1>3. pc[t] = "push"
  BY DEF Push, At
<1>4. /\ b \in Pointers /\ p \in Pages /\ b[2] # 0 /\ d \in Descs /\ d # 0
      /\ j.op = "free" /\ j.old = {} /\ JobLand(t) = {b} /\ b \in All(t)
      /\ Live(p) /\ p \in used_map /\ arena[p].desc = d /\ FreeList(p) = Range(free_list[d])
      /\ InArena(b) /\ b \notin Range(free_list[d]) /\ b \in Blocks(p, d)
      /\ n \in Nat /\ arena[p].free_cnt \in 0..(n - 1)
      /\ IsFiniteSet(FreeBlocks(p)) /\ Cardinality(FreeBlocks(p)) = arena[p].free_cnt
      /\ desc_lock[d] = t /\ InDesc(t)
  BY <1>3, GivenBack
<1>1. /\ Go(t, "unlock") /\ Set(t, k)
      /\ free_list' = [free_list EXCEPT ![d] = <<b>> \o @]
      /\ arena' = [arena EXCEPT ![p].free_cnt = arena[p].free_cnt + 1]
      /\ UNCHANGED <<used_map, data, desc_lock, pool_lock, own>>
  <2>1. ~(arena[p].free_cnt + 1 >= n)
    BY <1>4
  <2> HIDE DEF n
  <2> QED
    BY <2>1 DEF Push, n
<1>5. k \in JobType /\ k.op = j.op /\ k.n = 0 /\ k.ptr = b /\ k.desc = d /\ k.old = j.old
  BY <1>2 DEF JobType
<1> HIDE DEF k, n
<1>6. /\ pc'[t] = "unlock" /\ pc' \in [Threads -> Locations]
      /\ \A u \in Threads : u # t => pc'[u] = pc[u]
      /\ job'[t] = k /\ job' \in [Threads -> JobType]
      /\ \A u \in Threads : u # t => job'[u] = job[u]
  BY <1>1, <1>2, <1>5, Goes, Sets DEF Locations
<1> HIDE DEF b, d, p
<1>7. /\ free_list[d] \in Seq(Pointers) /\ NoRepeat(free_list[d])
      /\ <<b>> \o free_list[d] \in Seq(Pointers) /\ NoRepeat(<<b>> \o free_list[d])
      /\ Range(<<b>> \o free_list[d]) = Range(free_list[d]) \cup {b}
  <2>1. free_list[d] \in Seq(Pointers) /\ NoRepeat(free_list[d])
    BY <1>2, <1>4 DEF AllocInv, ListsFit, AllocTypeOK
  <2> QED
    BY <1>4, <2>1, FrontProps
<1>8. /\ Range(free_list'[d]) = Range(free_list[d]) \cup {b} /\ NoRepeat(free_list'[d])
      /\ \A e \in Descs : e # d => free_list'[e] = free_list[e]
      /\ free_list' \in [Descs -> Seq(Pointers)]
  BY <1>1, <1>2, <1>4, <1>7 DEF AllocTypeOK
<1>9. /\ arena'[p].desc = d /\ arena'[p].free_cnt = arena[p].free_cnt + 1
      /\ \A q \in Pages : q # p => arena'[q] = arena[q]
      /\ \A q \in Pages : arena'[q].desc = arena[q].desc
      /\ arena' \in [Pages -> [desc : {0} \cup Descs, free_cnt : Nat]]
  <2>1. arena[p].free_cnt + 1 \in Nat
    BY <1>4
  <2> QED
    BY <1>1, <1>2, <1>4, <2>1, CountIs
<1>10. Others(t) /\ LocksOfOthers(t) /\ AllocTypeOK'
  BY <1>1, <1>2, <1>6, <1>8, <1>9 DEF Others, LocksOfOthers, AllocTypeOK
<1>11. JobLand(t)' = {}
  BY <1>4, <1>5, <1>6 DEF JobLand
<1>12. All(t)' = All(t) \ {b}
  <2>1. OwnLand(t)' = OwnLand(t) /\ b \notin OwnLand(t)
    BY <1>1, <1>4 DEF OwnLand, Land, AllocInv, Apart
  <2> QED
    BY <1>4, <1>11, <2>1 DEF All
<1>13. \A u \in Threads : u # t => All(u)' = All(u) /\ b \notin All(u)
  BY <1>4, <1>10, OthersKeep, HeldOnce
<1>14. JobFits(t)'
  BY <1>4, <1>5, <1>6 DEF JobFits, At
<1>15. LocksHeld(t)'
  BY <1>1, <1>4, <1>5, <1>6 DEF LocksHeld, InPool, InDesc
<1>16. ASSUME NEW u \in Threads, NEW a \in All(u)
       PROVE  /\ a[1] \in Pages /\ arena'[a[1]].desc = arena[a[1]].desc
              /\ a[2] = 0 => arena'[a[1]] = arena[a[1]]
  <2>1. a[1] \in Pages /\ (a[2] = 0 => ~Live(a[1]))
    BY HeldType DEF AllocInv, LandsFit
  <2> QED
    BY <1>4, <1>9, <2>1
<1>17. ASSUME NEW u \in Threads, u # t
       PROVE  JobFits(u)' /\ LocksHeld(u)' /\ \A o \in own'[u] : Holds(o.ptr, o.n)'
  BY <1>1, <1>4, <1>8, <1>10, <1>16, <1>17, OthersFit, ZenonT(40) DEF AllocAssumption
<1>18. \A o \in own[t] : Holds(o.ptr, o.n)'
  BY <1>4, <1>9, OwnHolds
<1>19. JobsFit' /\ OwnFits'
  BY <1>1, <1>14, <1>15, <1>17, <1>18 DEF JobsFit, OwnFits
<1>20. LandsApart(t)'
  BY <1>1, <1>11 DEF LandsApart, AllocInv, Apart, Land
<1>21. Apart'
  BY <1>10, <1>12, <1>20, OthersApart DEF AllocInv, Apart
<1>22. \A q \in Pages : Live(q)' <=> Live(q)
  <2>1. Wipes(t) = {} /\ Wipes(t)' = {}
    BY <1>3, <1>6 DEF Wipes
  <2> QED
    BY <1>9, <1>10, <2>1, WipingKeeps DEF Live
<1>23. \A a : a[1] \in Pages => (InArena(a)' <=> InArena(a))
  BY <1>9, <1>22 DEF InArena
<1>24. ASSUME NEW q \in Pages, Live(q)
       PROVE  FreeList(q)' = IF arena[q].desc = d THEN FreeList(q) \cup {b} ELSE FreeList(q)
  <2>1. arena[q].desc \in Descs /\ FreeList(q)' = Range(free_list'[arena[q].desc])
    BY <1>9, <1>24, Arenas DEF FreeList
  <2> QED
    BY <1>8, <2>1 DEF FreeList
<1>25. LandsFit'
  <2> SUFFICES ASSUME NEW u \in Threads, NEW a \in All(u)'
               PROVE  IF a[2] = 0 THEN a[1] \in used_map' /\ ~Live(a[1])'
                      ELSE InArena(a)' /\ a \notin FreeList(a[1])'
    BY Zenon DEF LandsFit
  <2>1. a \in All(u) /\ a # b
    BY <1>12, <1>13
  <2>2. IF a[2] = 0 THEN a[1] \in used_map /\ ~Live(a[1])
        ELSE InArena(a) /\ a \notin FreeList(a[1])
    BY <2>1 DEF AllocInv, LandsFit
  <2> QED
    BY <1>1, <1>16, <1>22, <1>23, <1>24, <2>1, <2>2 DEF InArena
<1>26. ListsFit'
  <2>1. ASSUME NEW e \in Descs PROVE NoRepeat(free_list'[e])
    BY <1>8 DEF AllocInv, ListsFit
  <2>2. ASSUME NEW e \in Descs, NEW c \in Range(free_list'[e])
        PROVE  InArena(c)' /\ arena'[c[1]].desc = e
    <3>1. CASE c \in Range(free_list[e])
      BY <1>9, <1>23, <3>1, Listed
    <3>2. CASE c = b /\ e = d
      BY <1>4, <1>9, <1>23, <3>2 DEF p
    <3> QED
      BY <1>8, <2>2, <3>1, <3>2
  <2> QED
    BY <2>1, <2>2 DEF ListsFit
<1>27. ASSUME NEW q \in Pages, Live(q)
       PROVE  FreeBlocks(q)' = IF q = p THEN FreeBlocks(q) \cup {b} ELSE FreeBlocks(q)
  <2>1. Blocks(q, arena[q].desc)' = Blocks(q, arena[q].desc)
    BY <1>9 DEF Blocks, BlocksPerArena, BlockSize
  <2>2. q # p => b \notin Blocks(q, arena[q].desc)
    BY DEF Blocks, p
  <2> QED
    BY <1>4, <1>24, <1>27, <2>1, <2>2 DEF FreeBlocks
<1>28. ArenasFit'
  <2>1. ASSUME NEW q \in Pages, q \notin used_map PROVE arena'[q].desc = 0
    BY <1>9, <2>1 DEF AllocInv, ArenasFit
  <2>2. ASSUME NEW q \in Pages, Live(q)
        PROVE  Cardinality(FreeBlocks(q)') = arena'[q].free_cnt
    <3>1. CASE q = p
      <4>1. b \notin FreeBlocks(p)
        BY <1>4 DEF FreeBlocks
      <4>2. Cardinality(FreeBlocks(p) \cup {b}) = Cardinality(FreeBlocks(p)) + 1
        BY <1>4, <4>1, FS_AddElement
      <4> QED
        BY <1>4, <1>9, <1>27, <2>2, <3>1, <4>2
    <3>2. CASE q # p
      BY <1>9, <1>27, <2>2, <3>2 DEF AllocInv, ArenasFit
    <3> QED
      BY <3>1, <3>2
  <2> QED
    BY <1>1, <1>22, <2>1, <2>2 DEF ArenasFit
<1>29. \A a : a # b /\ (\E u \in Threads : a \in All(u)) => \E u \in Threads : a \in All(u)'
  BY <1>12, <1>13
<1>30. NoneLost'
  <2>1. ASSUME NEW q \in used_map
        PROVE  Live(q)' \/ \E u \in Threads : <<q, 0>> \in All(u)'
    <3>1. <<q, 0>> # b
      BY <1>4
    <3> QED
      BY <1>2, <1>22, <1>29, <3>1 DEF AllocInv, NoneLost, AllocTypeOK
  <2>2. ASSUME NEW q \in Pages, Live(q), NEW c \in Blocks(q, arena[q].desc)
        PROVE  c \in FreeList(q)' \/ \E u \in Threads : c \in All(u)'
    <3>1. c \in FreeList(q) \/ \E u \in Threads : c \in All(u)
      BY <2>2 DEF AllocInv, NoneLost
    <3>2. c = b => q = p
      BY DEF Blocks, p
    <3> QED
      BY <1>4, <1>24, <1>29, <2>2, <3>1, <3>2
  <2>3. ASSUME NEW q \in Pages, Live(q), arena'[q].free_cnt = BlocksPerArena(arena[q].desc)
        PROVE  \E u \in Threads : /\ pc'[u] = "pop" /\ job'[u].desc = arena[q].desc
                                  /\ Head(free_list'[job'[u].desc])[1] = q
    <3>1. q # p
      BY <1>4, <1>9, <2>3 DEF n, p, b, d
    <3>2. arena[q].free_cnt = BlocksPerArena(arena[q].desc)
      BY <1>9, <2>3, <3>1
    <3>3. PICK u \in Threads : /\ pc[u] = "pop" /\ job[u].desc = arena[q].desc
                               /\ Head(free_list[job[u].desc])[1] = q
      BY <2>3, <3>2 DEF AllocInv, NoneLost, At
    <3>4. u # t
      BY <1>3, <3>3
    <3>5. job[u].desc # d
      BY <1>4, <3>3, <3>4, OneInDesc DEF InDesc, d
    <3>6. arena[q].desc \in Descs
      BY <2>3, Arenas
    <3> QED
      BY <1>6, <1>8, <3>3, <3>4, <3>5, <3>6
  <2>4. \A q \in Pages : /\ Blocks(q, arena[q].desc)' = Blocks(q, arena[q].desc)
                          /\ BlocksPerArena(arena[q].desc)' = BlocksPerArena(arena[q].desc)
                          /\ arena'[q].desc = arena[q].desc
    BY <1>9 DEF Blocks, BlocksPerArena, BlockSize
  <2>5. \A q \in Pages : Live(q)' =>
          /\ \A c \in Blocks(q, arena[q].desc)' :
               c \in FreeList(q)' \/ \E u \in Threads : c \in All(u)'
          /\ arena'[q].free_cnt = BlocksPerArena(arena[q].desc)' =>
               \E u \in Threads : /\ pc'[u] = "pop" /\ job'[u].desc = arena'[q].desc
                                  /\ Head(free_list'[job'[u].desc])[1] = q
    BY <1>22, <2>2, <2>3, <2>4
  <2> QED
    BY <1>1, <2>1, <2>5, Zenon DEF NoneLost, At
<1> QED
  BY <1>10, <1>19, <1>21, <1>25, <1>26, <1>28, <1>30 DEF AllocInv

(* free of the last block of its arena that was in use: all the blocks     *)
(* come off the list, and the page is the thread's to give back.           *)
LEMMA PushFull ==
    ASSUME AllocAssumption, AllocInv, NEW t \in Threads, Push(t),
           arena[job[t].ptr[1]].free_cnt + 1 >= BlocksPerArena(job[t].desc)
    PROVE  AllocInv'
<1> DEFINE j == job[t]
           d == j.desc
           b == j.ptr
           p == b[1]
           n == BlocksPerArena(d)
           k == [j EXCEPT !.n = 1]
<1>2. AllocTypeOK /\ j \in JobType /\ JobFits(t) /\ LocksHeld(t) /\ PageCnt \in Nat
  BY DEF AllocInv, AllocTypeOK, JobsFit, AllocAssumption
<1>3. pc[t] = "push"
  BY DEF Push, At
<1>4. /\ b \in Pointers /\ p \in Pages /\ b[2] # 0 /\ d \in Descs /\ d # 0
      /\ j.op = "free" /\ j.old = {} /\ JobLand(t) = {b} /\ b \in All(t)
      /\ Live(p) /\ p \in used_map /\ arena[p].desc = d /\ FreeList(p) = Range(free_list[d])
      /\ b \notin Range(free_list[d])
      /\ n \in Nat /\ arena[p].free_cnt \in 0..(n - 1)
      /\ arena[p].free_cnt + 1 = n => FreeBlocks(p) = Blocks(p, d) \ {b}
      /\ desc_lock[d] = t /\ InDesc(t)
  BY <1>3, GivenBack
<1>31. FreeBlocks(p) = Blocks(p, d) \ {b}
  <2>1. arena[p].free_cnt + 1 >= n
    OBVIOUS
  <2> HIDE DEF n
  <2> QED
    BY <1>4, <2>1
<1>1. /\ Go(t, "wipe") /\ Set(t, k)
      /\ free_list' = [free_list EXCEPT ![d] = OffList(@, p)]
      /\ arena' = [arena EXCEPT ![p].free_cnt = arena[p].free_cnt + 1]
      /\ UNCHANGED <<used_map, data, desc_lock, pool_lock, own>>
  <2>1. arena[p].free_cnt + 1 >= n
    OBVIOUS
  <2> HIDE DEF n
  <2> QED
    BY <2>1 DEF Push, n
<1>5. k \in JobType /\ k.op = j.op /\ k.n = 1 /\ k.ptr = b /\ k.desc = d /\ k.old = j.old
  BY <1>2 DEF JobType
<1> HIDE DEF k, n
<1>6. /\ pc'[t] = "wipe" /\ pc' \in [Threads -> Locations]
      /\ \A u \in Threads : u # t => pc'[u] = pc[u]
      /\ job'[t] = k /\ job' \in [Threads -> JobType]
      /\ \A u \in Threads : u # t => job'[u] = job[u]
  BY <1>1, <1>2, <1>5, Goes, Sets DEF Locations
<1>32. Run(p, 1) = {p} /\ p + 1 <= PageCnt /\ p \in Nat
  BY <1>2, <1>4 DEF Run, Pages
<1> HIDE DEF b, d, p
<1>7. /\ OffList(free_list[d], p) \in Seq(Pointers) /\ NoRepeat(OffList(free_list[d], p))
      /\ Range(OffList(free_list[d], p)) = {c \in Range(free_list[d]) : c[1] # p}
  <2>1. free_list[d] \in Seq(Pointers) /\ NoRepeat(free_list[d])
    BY <1>2, <1>4 DEF AllocInv, ListsFit, AllocTypeOK
  <2> QED
    BY <2>1, OffListProps
<1>8. /\ Range(free_list'[d]) = {c \in Range(free_list[d]) : c[1] # p}
      /\ NoRepeat(free_list'[d])
      /\ \A e \in Descs : e # d => free_list'[e] = free_list[e]
      /\ free_list' \in [Descs -> Seq(Pointers)]
  BY <1>1, <1>2, <1>4, <1>7 DEF AllocTypeOK
<1>9. /\ arena'[p].desc = d
      /\ \A q \in Pages : q # p => arena'[q] = arena[q]
      /\ \A q \in Pages : arena'[q].desc = arena[q].desc
      /\ arena' \in [Pages -> [desc : {0} \cup Descs, free_cnt : Nat]]
  <2>1. arena[p].free_cnt + 1 \in Nat
    BY <1>4
  <2> QED
    BY <1>1, <1>2, <1>4, <2>1, CountIs
<1>10. Others(t) /\ LocksOfOthers(t) /\ AllocTypeOK'
  BY <1>1, <1>2, <1>6, <1>8, <1>9 DEF Others, LocksOfOthers, AllocTypeOK
<1>11. JobLand(t)' = {<<p, 0>>} /\ Wipes(t) = {} /\ Wipes(t)' = {p}
  <2>1. Run(job'[t].ptr[1], job'[t].n) = {p}
    BY <1>5, <1>6, <1>32 DEF p
  <2> QED
    BY <1>3, <1>6, <2>1 DEF JobLand, Wipes
<1>12. All(t)' = (All(t) \ {b}) \cup {<<p, 0>>}
  <2>1. OwnLand(t)' = OwnLand(t) /\ b \notin OwnLand(t)
    BY <1>1, <1>4 DEF OwnLand, Land, AllocInv, Apart
  <2> QED
    BY <1>4, <1>11, <2>1 DEF All
<1>13. \A u \in Threads : u # t => All(u)' = All(u) /\ b \notin All(u)
  BY <1>4, <1>10, OthersKeep, HeldOnce
<1>14. JobFits(t)'
  <2>1. k.ptr[1] + k.n <= PageCnt
    BY <1>5, <1>32 DEF p
  <2> QED
    BY <1>4, <1>5, <1>6, <2>1 DEF JobFits, At
<1>15. LocksHeld(t)'
  BY <1>1, <1>4, <1>5, <1>6 DEF LocksHeld, InPool, InDesc
<1>16. ASSUME NEW u \in Threads, NEW a \in All(u), a # b
       PROVE  /\ a[1] \in Pages /\ arena'[a[1]].desc = arena[a[1]].desc
              /\ a[1] # p
  <2>1. a[1] \in Pages /\ a[2] \in Nat /\ a = <<a[1], a[2]>>
    BY HeldType DEF AllocInv
  <2>2. IF a[2] = 0 THEN ~Live(a[1]) ELSE InArena(a) /\ a \notin FreeList(a[1])
    BY DEF AllocInv, LandsFit
  <2>3. ASSUME a[1] = p PROVE FALSE
    <3>1. a[2] # 0 /\ InArena(a) /\ a \notin FreeList(p)
      BY <1>4, <2>2, <2>3
    <3>2. a \in Blocks(p, d)
      BY <1>4, <2>1, <2>3, <3>1 DEF InArena, Blocks
    <3>3. a \notin FreeBlocks(p)
      BY <3>1 DEF FreeBlocks
    <3> QED
      BY <1>16, <1>31, <3>2, <3>3
  <2> QED
    BY <1>9, <2>1, <2>3
<1>17. ASSUME NEW u \in Threads, u # t
       PROVE  JobFits(u)' /\ LocksHeld(u)' /\ \A o \in own'[u] : Holds(o.ptr, o.n)'
  <2>1. \A a \in All(u) : /\ arena'[a[1]].desc = arena[a[1]].desc
                          /\ a[2] = 0 => arena'[a[1]] = arena[a[1]]
    BY <1>9, <1>13, <1>16, <1>17
  <2> QED
    BY <1>1, <1>4, <1>8, <1>10, <1>17, <2>1, OthersFit DEF AllocAssumption
<1>18. \A o \in own[t] : Holds(o.ptr, o.n)'
  BY <1>4, <1>9, OwnHolds
<1>19. JobsFit' /\ OwnFits'
  BY <1>1, <1>14, <1>15, <1>17, <1>18 DEF JobsFit, OwnFits
<1>33. \A u \in Threads : <<p, 0>> \notin All(u)
  BY <1>4 DEF AllocInv, LandsFit
<1>20. LandsApart(t)'
  <2>1. \A o \in own[t] : <<p, 0>> \notin Land(o.ptr, o.n)
    BY <1>33 DEF All, OwnLand
  <2> QED
    BY <1>1, <1>11, <2>1 DEF LandsApart, AllocInv, Apart, Land
<1>21. Apart'
  BY <1>10, <1>12, <1>20, <1>33, OthersApart, ZenonT(40) DEF AllocInv, Apart
<1>22. ASSUME NEW q \in Pages PROVE Live(q)' <=> Live(q) /\ q # p
  <2>1. CASE q = p
    <3>1. Wiping(q)'
      BY <1>11, <2>1 DEF Wiping, Wipes
    <3> QED
      BY <2>1, <3>1 DEF Live
  <2>2. CASE q # p
    BY <1>9, <1>10, <1>11, <2>2, WipingKeeps DEF Live
  <2> QED
    BY <2>1, <2>2
<1>23. \A a : a[1] \in Pages /\ a[1] # p => (InArena(a)' <=> InArena(a))
  BY <1>9, <1>22 DEF InArena
<1>24. ASSUME NEW q \in Pages, Live(q)
       PROVE  /\ FreeList(q)' \in SUBSET FreeList(q)
              /\ \A c \in FreeList(q) : c[1] # p => c \in FreeList(q)'
  <2>1. arena[q].desc \in Descs /\ FreeList(q)' = Range(free_list'[arena[q].desc])
    BY <1>9, <1>24, Arenas DEF FreeList
  <2> QED
    BY <1>8, <2>1 DEF FreeList
<1>25. LandsFit'
  <2> SUFFICES ASSUME NEW u \in Threads, NEW a \in All(u)'
               PROVE  IF a[2] = 0 THEN a[1] \in used_map' /\ ~Live(a[1])'
                      ELSE InArena(a)' /\ a \notin FreeList(a[1])'
    BY Zenon DEF LandsFit
  <2>1. CASE a \in All(u) /\ a # b
    <3>1. IF a[2] = 0 THEN a[1] \in used_map /\ ~Live(a[1])
          ELSE InArena(a) /\ a \notin FreeList(a[1])
      BY <2>1 DEF AllocInv, LandsFit
    <3> QED
      BY <1>1, <1>16, <1>22, <1>23, <1>24, <2>1, <3>1 DEF InArena
  <2>2. CASE a = <<p, 0>>
    BY <1>1, <1>4, <1>22, <2>2
  <2> QED
    BY <1>12, <1>13, <2>1, <2>2
<1>26. ListsFit'
  <2>1. ASSUME NEW e \in Descs
        PROVE  NoRepeat(free_list'[e]) /\ Range(free_list'[e]) \in SUBSET Range(free_list[e])
    <3>1. CASE e = d
      BY <1>8, <3>1
    <3>2. CASE e # d
      BY <1>8, <3>2 DEF AllocInv, ListsFit
    <3> QED
      BY <3>1, <3>2
  <2>2. ASSUME NEW e \in Descs, NEW c \in Range(free_list'[e])
        PROVE  InArena(c)' /\ arena'[c[1]].desc = e
    <3>1. c \in Range(free_list[e])
      BY <2>1, <2>2
    <3>2. c[1] \in Pages /\ InArena(c) /\ arena[c[1]].desc = e
      BY <3>1, Listed
    <3>3. c[1] # p
      <4>1. CASE e = d
        BY <1>8, <2>2, <4>1
      <4>2. CASE e # d
        BY <1>4, <3>2, <4>2
      <4> QED
        BY <4>1, <4>2
    <3> QED
      BY <1>9, <1>23, <3>2, <3>3
  <2> QED
    BY <2>1, <2>2 DEF ListsFit
<1>27. ASSUME NEW q \in Pages, Live(q), q # p PROVE FreeBlocks(q)' = FreeBlocks(q)
  <2>1. Blocks(q, arena[q].desc)' = Blocks(q, arena[q].desc)
    BY <1>9 DEF Blocks, BlocksPerArena, BlockSize
  <2>2. \A c \in Blocks(q, arena[q].desc) : c[1] # p
    BY <1>27 DEF Blocks
  <2> QED
    BY <1>24, <1>27, <2>1, <2>2 DEF FreeBlocks
<1>28. ArenasFit'
  <2>1. ASSUME NEW q \in Pages, q \notin used_map PROVE arena'[q].desc = 0
    BY <1>9, <2>1 DEF AllocInv, ArenasFit
  <2>2. ASSUME NEW q \in Pages, Live(q), q # p
        PROVE  Cardinality(FreeBlocks(q)') = arena'[q].free_cnt
    BY <1>9, <1>27, <2>2 DEF AllocInv, ArenasFit
  <2> QED
    BY <1>1, <1>22, <2>1, <2>2 DEF ArenasFit
<1>29. \A a : a # b /\ (\E u \in Threads : a \in All(u)) => \E u \in Threads : a \in All(u)'
  BY <1>12, <1>13
<1>30. NoneLost'
  <2>1. ASSUME NEW q \in used_map
        PROVE  Live(q)' \/ \E u \in Threads : <<q, 0>> \in All(u)'
    <3>1. <<q, 0>> # b
      BY <1>4
    <3>2. q \in Pages
      BY <1>2 DEF AllocTypeOK
    <3>3. Live(q) \/ \E u \in Threads : <<q, 0>> \in All(u)
      BY DEF AllocInv, NoneLost
    <3>4. q = p => <<q, 0>> \in All(t)'
      BY <1>12
    <3> QED
      BY <1>22, <1>29, <3>1, <3>2, <3>3, <3>4
  <2>2. ASSUME NEW q \in Pages, Live(q), q # p, NEW c \in Blocks(q, arena[q].desc)
        PROVE  c \in FreeList(q)' \/ \E u \in Threads : c \in All(u)'
    <3>1. c \in FreeList(q) \/ \E u \in Threads : c \in All(u)
      BY <2>2 DEF AllocInv, NoneLost
    <3>2. c[1] # p /\ c # b
      BY <2>2 DEF Blocks, p
    <3> QED
      BY <1>24, <1>29, <2>2, <3>1, <3>2
  <2>3. ASSUME NEW q \in Pages, Live(q), q # p,
               arena'[q].free_cnt = BlocksPerArena(arena[q].desc)
        PROVE  \E u \in Threads : /\ pc'[u] = "pop" /\ job'[u].desc = arena[q].desc
                                  /\ Head(free_list'[job'[u].desc])[1] = q
    <3>2. arena[q].free_cnt = BlocksPerArena(arena[q].desc)
      BY <1>9, <2>3
    <3>3. PICK u \in Threads : /\ pc[u] = "pop" /\ job[u].desc = arena[q].desc
                               /\ Head(free_list[job[u].desc])[1] = q
      BY <2>3, <3>2 DEF AllocInv, NoneLost, At
    <3>4. u # t
      BY <1>3, <3>3
    <3>5. job[u].desc # d
      BY <1>4, <3>3, <3>4, OneInDesc DEF InDesc, d
    <3>6. arena[q].desc \in Descs
      BY <2>3, Arenas
    <3> QED
      BY <1>6, <1>8, <3>3, <3>4, <3>5, <3>6
  <2>4. \A q \in Pages : /\ Blocks(q, arena[q].desc)' = Blocks(q, arena[q].desc)
                          /\ BlocksPerArena(arena[q].desc)' = BlocksPerArena(arena[q].desc)
                          /\ arena'[q].desc = arena[q].desc
    BY <1>9 DEF Blocks, BlocksPerArena, BlockSize
  <2>5. \A q \in Pages : Live(q)' =>
          /\ \A c \in Blocks(q, arena[q].desc)' :
               c \in FreeList(q)' \/ \E u \in Threads : c \in All(u)'
          /\ arena'[q].free_cnt = BlocksPerArena(arena[q].desc)' =>
               \E u \in Threads : /\ pc'[u] = "pop" /\ job'[u].desc = arena'[q].desc
                                  /\ Head(free_list'[job'[u].desc])[1] = q
    BY <1>22, <2>2, <2>3, <2>4
  <2> QED
    BY <1>1, <2>1, <2>5, Zenon DEF NoneLost, At
<1> QED
  BY <1>10, <1>19, <1>21, <1>25, <1>26, <1>28, <1>30 DEF AllocInv

(* free under the descriptor's lock: the block on the list, or the arena   *)
(* off it.                                                                 *)
LEMMA PushKeeps ==
    ASSUME AllocAssumption, AllocInv, NEW t \in Threads, Push(t)
    PROVE  AllocInv'
<1>1. pc[t] = "push"
  BY DEF Push, At
<1> DEFINE c == arena[job[t].ptr[1]].free_cnt + 1
           n == BlocksPerArena(job[t].desc)
<1>2. c \in Nat /\ n \in Nat
  BY <1>1, GivenBack
<1>3. c < n \/ c >= n
  <2> HIDE DEF c, n
  <2> QED
    BY <1>2
<1> QED
  BY <1>3, PushShort, PushFull

(* What palloc_get_multiple has found.                                     *)
LEMMA PagesGot ==
    ASSUME AllocAssumption, AllocInv, NEW t \in Threads, pc[t] = "got"
    PROVE  LET j == job[t] IN
           /\ j \in JobType /\ j.op \in Asking /\ j.n \in Nat \ {0} /\ j.at \in Nat
           /\ j.at + j.n <= PageCnt /\ j.at \in Run(j.at, j.n) /\ j.at \in Pages
           /\ JobLand(t) = Run(j.at, j.n) \X {0} /\ <<j.at, 0>> \in JobLand(t)
           /\ j.at \in used_map /\ ~Live(j.at) /\ arena[j.at].desc = 0 /\ ~Wiping(j.at)
           /\ j.desc \in {0} \cup Descs
           /\ j.desc # 0 => j.op \notin Getting /\ j.n = 1 /\ free_list[j.desc] = <<>>
           /\ pool_lock = t /\ (j.desc # 0 => InDesc(t) /\ desc_lock[j.desc] = t)
<1> DEFINE j == job[t]
<1>1. AllocTypeOK /\ j \in JobType /\ JobFits(t) /\ LocksHeld(t) /\ PageCnt \in Nat
  BY DEF AllocInv, AllocTypeOK, JobsFit, AllocAssumption
<1>2. /\ j.op \in Asking /\ j.n \in Nat \ {0} /\ j.at \in Nat /\ j.desc \in {0} \cup Descs
      /\ j.at + j.n <= PageCnt
      /\ j.desc # 0 => j.op \notin Getting /\ j.n = 1 /\ free_list[j.desc] = <<>>
  BY <1>1 DEF JobFits, At, JobType
<1>3. pool_lock = t /\ (j.desc # 0 => InDesc(t) /\ desc_lock[j.desc] = t)
  BY <1>1 DEF LocksHeld, InPool, InDesc
<1>4. j.at \in Run(j.at, j.n) /\ JobLand(t) = Run(j.at, j.n) \X {0}
  BY <1>2 DEF Run, JobLand
<1>5. <<j.at, 0>> \in JobLand(t) /\ <<j.at, 0>> \in All(t)
  BY <1>4 DEF All
<1>6. j.at \notin Wipes(t)
  BY DEF Wipes
<1>7. j.at \in Pages /\ j.at \in used_map /\ ~Live(j.at) /\ arena[j.at].desc = 0
  BY <1>5, <1>6, HeldPage
<1>8. ASSUME Wiping(j.at) PROVE FALSE
  <2>1. PICK u \in Threads : j.at \in Wipes(u)
    BY <1>8, WipingIs
  <2> QED
    BY <1>5, <1>6, <2>1, WipedIsHeld, HeldOnce
<1> QED
  BY <1>1, <1>2, <1>3, <1>4, <1>5, <1>7, <1>8

(* palloc_get_page and palloc_get_multiple.                                *)
LEMMA GotPlain ==
    ASSUME AllocAssumption, AllocInv, NEW t \in Threads, GotPages(t), job[t].op \in Getting
    PROVE  AllocInv'
<1> DEFINE j == job[t]
           k == [j EXCEPT !.ptr = <<j.at, 0>>]
<1>1. pc[t] = "got"
  BY DEF GotPages, At
<1>2. /\ AllocTypeOK /\ j \in JobType /\ j.op \in Asking /\ j.n \in Nat \ {0} /\ j.at \in Pages
      /\ j.at + j.n <= PageCnt /\ j.desc = 0 /\ JobLand(t) = Run(j.at, j.n) \X {0} /\ pool_lock = t
  BY <1>1, PagesGot DEF AllocInv
<1>3. /\ pool_lock' = Nobody /\ Set(t, k) /\ Go(t, "return")
      /\ UNCHANGED <<used_map, data, desc_lock, own, arena, free_list>>
  BY <1>2 DEF GotPages, Getting
<1>4. /\ k \in JobType /\ k.op = j.op /\ k.n = j.n /\ k.desc = 0 /\ k.old = j.old /\ k.n # 0
      /\ k.ptr[1] = j.at /\ k.ptr[2] = 0
  BY <1>2 DEF JobType, Pointers
<1> HIDE DEF k
<1>5. /\ pc'[t] = "return" /\ pc' \in [Threads -> Locations]
      /\ \A u \in Threads : u # t => pc'[u] = pc[u] /\ job'[u] = job[u]
      /\ job'[t] = k /\ job' \in [Threads -> JobType]
  BY <1>2, <1>3, <1>4, Goes, Sets, ZenonT(40) DEF Locations
<1>6. JobLand(t)' = JobLand(t)
  BY <1>2, <1>4, <1>5 DEF JobLand, Land
<1>7. JobFits(t)' /\ LocksHeld(t)'
  <2>1. Holds(job[t].ptr, job[t].n)'
    BY <1>2, <1>4, <1>5 DEF Holds
  <2>2. k.old # {} => k.op = "realloc" /\ \E o \in own[t] : k.old = {o} /\ o.ptr[2] # 0
    <3>1. j.old # {} => j.op = "realloc" /\ \E o \in own[t] : j.old = {o} /\ o.ptr[2] # 0
      BY DEF AllocInv, JobsFit, JobFits
    <3> QED
      BY <1>4, <3>1
  <2>3. JobFits(t)'
    BY <1>2, <1>3, <1>4, <1>5, <2>1, <2>2 DEF JobFits, At, Holds
  <2> QED
    BY <1>5, <2>3 DEF LocksHeld, InPool, InDesc
<1>8. pool_lock' \in Threads \cup {Nobody} /\ desc_lock' \in [Descs -> Threads \cup {Nobody}]
  BY <1>2, <1>3 DEF AllocTypeOK
<1>9. LocksOfOthers(t)
  BY <1>2, <1>3 DEF LocksOfOthers
<1> QED
  BY <1>1, <1>3, <1>5, <1>6, <1>7, <1>8, <1>9, QuietCall

(* malloc of more than half a page: the header of the big arena.           *)
LEMMA GotBig ==
    ASSUME AllocAssumption, AllocInv, NEW t \in Threads, GotPages(t), job[t].op \notin Getting,
           job[t].desc = 0
    PROVE  AllocInv'
<1> DEFINE j == job[t]
           x == j.at
           k == [j EXCEPT !.ptr = <<x, 1>>]
           r == [desc |-> 0, free_cnt |-> j.n]
<1>1. pc[t] = "got"
  BY DEF GotPages, At
<1>2. /\ AllocTypeOK /\ j \in JobType /\ j.op \in Asking /\ j.n \in Nat \ {0} /\ x \in Pages
      /\ x + j.n <= PageCnt /\ JobLand(t) = Run(x, j.n) \X {0} /\ pool_lock = t
      /\ <<x, 0>> \in JobLand(t) /\ x \in used_map /\ ~Live(x) /\ arena[x].desc = 0
  BY <1>1, PagesGot DEF AllocInv
<1>3. /\ pool_lock' = Nobody /\ Set(t, k) /\ Go(t, "return") /\ arena' = [arena EXCEPT ![x] = r]
      /\ UNCHANGED <<used_map, data, desc_lock, own, free_list>>
  BY <1>2 DEF GotPages, Getting
<1>4. /\ k \in JobType /\ k.op = j.op /\ k.n = j.n /\ k.desc = 0 /\ k.old = j.old /\ k.n # 0
      /\ k.ptr[1] = x /\ k.ptr[2] = 1
  BY <1>2 DEF JobType, Pointers
<1>5. r \in [desc : {0} \cup Descs, free_cnt : Nat] /\ r.desc = 0
  BY <1>2
<1> HIDE DEF k, x
<1>6. /\ pc'[t] = "return" /\ pc' \in [Threads -> Locations]
      /\ \A u \in Threads : u # t => pc'[u] = pc[u]
      /\ job'[t] = k /\ job' \in [Threads -> JobType]
      /\ \A u \in Threads : u # t => job'[u] = job[u]
  BY <1>2, <1>3, <1>4, Goes, Sets DEF Locations
<1>7. /\ arena'[x] = r /\ \A q \in Pages : q # x => arena'[q] = arena[q]
      /\ arena' \in [Pages -> [desc : {0} \cup Descs, free_cnt : Nat]]
      /\ \A q \in Pages : arena'[q].desc = arena[q].desc
  <2> HIDE DEF r
  <2> QED
    BY <1>2, <1>3, <1>5 DEF AllocTypeOK
<1>8. Others(t) /\ LocksOfOthers(t) /\ AllocTypeOK'
  BY <1>2, <1>3, <1>6, <1>7 DEF Others, LocksOfOthers, AllocTypeOK
<1>9. JobLand(t)' = JobLand(t)
  BY <1>2, <1>4, <1>6 DEF JobLand, Land
<1>10. All(t)' = All(t)
  BY <1>3, <1>9 DEF All, OwnLand, Land
<1>11. \A u \in Threads : All(u)' = All(u)
  BY <1>8, <1>10, OthersKeep
<1>12. JobFits(t)' /\ LocksHeld(t)'
  <2>1. Holds(job[t].ptr, job[t].n)'
    BY <1>2, <1>4, <1>6, <1>7 DEF Holds
  <2>2. k.old # {} => k.op = "realloc" /\ \E o \in own[t] : k.old = {o} /\ o.ptr[2] # 0
    <3>1. j.old # {} => j.op = "realloc" /\ \E o \in own[t] : j.old = {o} /\ o.ptr[2] # 0
      BY DEF AllocInv, JobsFit, JobFits
    <3> QED
      BY <1>4, <3>1
  <2>3. JobFits(t)'
    BY <1>2, <1>3, <1>4, <1>6, <2>1, <2>2 DEF JobFits, At, Holds
  <2> QED
    BY <1>6, <2>3 DEF LocksHeld, InPool, InDesc
<1>13. ASSUME NEW u \in Threads, u # t, NEW a \in All(u)
       PROVE  /\ arena'[a[1]].desc = arena[a[1]].desc
              /\ a[2] = 0 => arena'[a[1]] = arena[a[1]]
  <2>1. a[1] \in Pages /\ a = <<a[1], a[2]>>
    BY HeldType DEF AllocInv
  <2>2. a # <<x, 0>>
    BY <1>2, <1>13, HeldOnce DEF All
  <2> QED
    BY <1>7, <2>1, <2>2
<1>14. ASSUME NEW u \in Threads, u # t
       PROVE  JobFits(u)' /\ LocksHeld(u)' /\ \A o \in own'[u] : Holds(o.ptr, o.n)'
  BY <1>3, <1>8, <1>13, <1>14, OthersFit DEF AllocAssumption
<1>15. ASSUME NEW o \in own[t] PROVE Holds(o.ptr, o.n)'
  <2>1. Holds(o.ptr, o.n) /\ o \in OwnType
    BY <1>2 DEF AllocInv, OwnFits, AllocTypeOK
  <2>2. o.n # 0 => o.ptr[1] # x
    BY <1>2, OwnIsKept
  <2>3. o.ptr[1] \in Pages
    BY <2>1 DEF OwnType, Pointers
  <2> QED
    BY <1>7, <2>1, <2>2, <2>3 DEF Holds
<1>16. JobsFit' /\ OwnFits'
  BY <1>3, <1>12, <1>14, <1>15 DEF JobsFit, OwnFits
<1>17. LandsApart(t)'
  BY <1>3, <1>9 DEF LandsApart, AllocInv, Apart, Land
<1>18. Apart'
  BY <1>8, <1>10, <1>17, OthersApart DEF AllocInv, Apart
<1>19. \A q \in Pages : Live(q)' <=> Live(q)
  <2>1. Wipes(t) = {} /\ Wipes(t)' = {}
    BY <1>1, <1>6 DEF Wipes
  <2> QED
    BY <1>7, <1>8, <2>1, WipingKeeps DEF Live
<1>20. \A a : a[1] \in Pages => (InArena(a)' <=> InArena(a)) /\ FreeList(a[1])' = FreeList(a[1])
  BY <1>3, <1>7, <1>19 DEF InArena, FreeList
<1>21. LandsFit'
  <2> SUFFICES ASSUME NEW u \in Threads, NEW a \in All(u)
               PROVE  IF a[2] = 0 THEN a[1] \in used_map' /\ ~Live(a[1])'
                      ELSE InArena(a)' /\ a \notin FreeList(a[1])'
    BY <1>11, Zenon DEF LandsFit
  <2>1. a[1] \in Pages
    BY HeldType DEF AllocInv
  <2>2. IF a[2] = 0 THEN a[1] \in used_map /\ ~Live(a[1])
        ELSE InArena(a) /\ a \notin FreeList(a[1])
    BY DEF AllocInv, LandsFit
  <2> QED
    BY <1>3, <1>19, <1>20, <2>1, <2>2
<1>22. ListsFit'
  <2>1. ASSUME NEW d \in Descs, NEW c \in Range(free_list[d])
        PROVE  InArena(c)' /\ arena'[c[1]].desc = d
    BY <1>7, <1>20, <2>1, Listed
  <2>2. \A d \in Descs : NoRepeat(free_list[d])
    BY DEF AllocInv, ListsFit
  <2> QED
    BY <1>3, <2>1, <2>2 DEF ListsFit
<1>23. \A q \in Pages : Live(q) => q # x /\ arena'[q] = arena[q] /\ FreeList(q)' = FreeList(q)
  BY <1>2, <1>3, <1>7 DEF FreeList
<1>24. ArenasFit'
  <2>1. ASSUME NEW p \in Pages, p \notin used_map PROVE arena'[p].desc = 0
    BY <1>7, <2>1 DEF AllocInv, ArenasFit
  <2>2. ASSUME NEW p \in Pages, Live(p)
        PROVE  Cardinality(FreeBlocks(p)') = arena'[p].free_cnt
    <3>1. FreeBlocks(p)' = FreeBlocks(p)
      BY <1>23, <2>2 DEF FreeBlocks, Blocks, BlocksPerArena, BlockSize
    <3> QED
      BY <1>23, <2>2, <3>1 DEF AllocInv, ArenasFit
  <2> QED
    BY <1>3, <1>19, <2>1, <2>2 DEF ArenasFit
<1>25. NoneLost'
  <2>1. ASSUME NEW p \in used_map
        PROVE  Live(p)' \/ \E u \in Threads : <<p, 0>> \in All(u)'
    BY <1>2, <1>11, <1>19 DEF AllocInv, NoneLost, AllocTypeOK
  <2>2. ASSUME NEW p \in Pages, Live(p)
        PROVE  /\ \A b \in Blocks(p, arena[p].desc) :
                     b \in FreeList(p) \/ \E u \in Threads : b \in All(u)
               /\ arena[p].free_cnt = BlocksPerArena(arena[p].desc) =>
                     \E u \in Threads : /\ pc'[u] = "pop" /\ job'[u].desc = arena[p].desc
                                        /\ Head(free_list[job'[u].desc])[1] = p
    <3>1. \A b \in Blocks(p, arena[p].desc) :
             b \in FreeList(p) \/ \E u \in Threads : b \in All(u)
      BY <2>2 DEF AllocInv, NoneLost
    <3>2. ASSUME arena[p].free_cnt = BlocksPerArena(arena[p].desc)
          PROVE  \E u \in Threads : /\ pc'[u] = "pop" /\ job'[u].desc = arena[p].desc
                                    /\ Head(free_list[job'[u].desc])[1] = p
      <4>1. PICK u \in Threads : /\ pc[u] = "pop" /\ job[u].desc = arena[p].desc
                                 /\ Head(free_list[job[u].desc])[1] = p
        BY <2>2, <3>2 DEF AllocInv, NoneLost, At
      <4> QED
        BY <1>1, <1>6, <4>1
    <3> QED
      BY <3>1, <3>2
  <2>3. \A p \in Pages : Live(p) =>
          /\ Blocks(p, arena[p].desc)' = Blocks(p, arena[p].desc)
          /\ BlocksPerArena(arena[p].desc)' = BlocksPerArena(arena[p].desc)
    BY <1>23 DEF Blocks, BlocksPerArena, BlockSize
  <2>4. \A p \in Pages : Live(p)' =>
          /\ \A c \in Blocks(p, arena[p].desc)' :
               c \in FreeList(p)' \/ \E u \in Threads : c \in All(u)'
          /\ arena'[p].free_cnt = BlocksPerArena(arena[p].desc)' =>
               \E u \in Threads : /\ pc'[u] = "pop" /\ job'[u].desc = arena'[p].desc
                                  /\ Head(free_list'[job'[u].desc])[1] = p
    BY <1>3, <1>11, <1>19, <1>23, <2>2, <2>3
  <2> QED
    BY <1>3, <2>1, <2>4, Zenon DEF NoneLost, At
<1> QED
  BY <1>8, <1>16, <1>18, <1>21, <1>22, <1>24, <1>25 DEF AllocInv

(* The blocks of a new arena, in the order of their addresses.             *)
InOrder(x, n) == <<>> \o [i \in 1..n |-> <<x, i>>]

(* The blocks of a new arena, in order (malloc's list_push_back).          *)
LEMMA NewBlocks ==
    ASSUME NEW n \in Nat \ {0}, NEW x \in Pages, NEW s, s = InOrder(x, n)
    PROVE  /\ s \in Seq(Pointers) /\ NoRepeat(s) /\ s # <<>> /\ Head(s)[1] = x
           /\ Range(s) = {<<x, i>> : i \in 1..n}
<1> DEFINE q == [i \in 1..n |-> <<x, i>>]
<1>1. q \in Seq(Pointers) /\ Len(q) = n /\ \A i \in 1..n : q[i] = <<x, i>>
  <2>1. q \in [1..n -> Pointers]
    BY DEF Pointers
  <2> QED
    BY <2>1, SeqDef
<1>2. s = q
  <2>1. <<>> \o q = q
    <3> HIDE DEF q
    <3> QED
      BY <1>1
  <2> QED
    BY <2>1 DEF InOrder
<1> HIDE DEF q
<1>6. s \in Seq(Pointers) /\ Len(s) = n /\ \A i \in 1..n : s[i] = <<x, i>>
  BY <1>1, <1>2
<1>3. NoRepeat(s)
  BY <1>6 DEF NoRepeat
<1>4. \A c : c \in Range(s) <=> \E i \in 1..n : c = <<x, i>>
  <2>1. \A c : c \in Range(s) <=> \E i \in 1..n : s[i] = c
    BY <1>6, InRange
  <2> QED
    BY <1>6, <2>1
<1>5. s # <<>> /\ Head(s)[1] = x
  <2>1. s # <<>> /\ Head(s) = s[1] /\ 1 \in 1..n
    BY <1>6
  <2> QED
    BY <1>6, <2>1
<1>7. Range(s) = {<<x, i>> : i \in 1..n}
  BY <1>4
<1> QED
  BY <1>3, <1>5, <1>6, <1>7

(* malloc with an empty list: the page becomes an arena, all of it free.   *)
LEMMA GotArena ==
    ASSUME AllocAssumption, AllocInv, NEW t \in Threads, GotPages(t), job[t].desc # 0
    PROVE  AllocInv'
<1> DEFINE j == job[t]
           x == j.at
           d == j.desc
           n == BlocksPerArena(d)
           r == [desc |-> d, free_cnt |-> n]
           s == <<>> \o [i \in 1..n |-> <<x, i>>]
<1>1. pc[t] = "got"
  BY DEF GotPages, At
<1>2. /\ AllocTypeOK /\ j \in JobType /\ j.op \in Asking \ Getting /\ x \in Pages
      /\ JobLand(t) = Run(x, j.n) \X {0} /\ pool_lock = t /\ j.n = 1
      /\ <<x, 0>> \in JobLand(t) /\ x \in used_map /\ ~Live(x) /\ arena[x].desc = 0 /\ ~Wiping(x)
      /\ d \in Descs /\ d # 0 /\ free_list[d] = <<>> /\ InDesc(t) /\ desc_lock[d] = t
  BY <1>1, PagesGot DEF AllocInv
<1>3. n \in Nat \ {0}
  BY <1>2, ArenaSizes
<1>4. /\ pool_lock' = Nobody /\ UNCHANGED job /\ Go(t, "pop")
      /\ arena' = [arena EXCEPT ![x] = r] /\ free_list' = [free_list EXCEPT ![d] = s]
      /\ UNCHANGED <<used_map, data, desc_lock, own>>
  BY <1>2 DEF GotPages
<1>5. /\ s \in Seq(Pointers) /\ NoRepeat(s) /\ s # <<>> /\ Head(s)[1] = x
      /\ Range(s) = Blocks(x, d)
  <2>1. Blocks(x, d) = {<<x, i>> : i \in 1..n}
    BY DEF Blocks
  <2>2. s = InOrder(x, n)
    BY DEF InOrder
  <2> HIDE DEF s, n, x
  <2>3. x \in Pages /\ n \in Nat \ {0}
    BY <1>2, <1>3
  <2>4. \A q : q = InOrder(x, n) =>
          /\ q \in Seq(Pointers) /\ NoRepeat(q) /\ q # <<>> /\ Head(q)[1] = x
          /\ Range(q) = {<<x, i>> : i \in 1..n}
    BY <2>3, NewBlocks
  <2>5. /\ s \in Seq(Pointers) /\ NoRepeat(s) /\ s # <<>> /\ Head(s)[1] = x
        /\ Range(s) = {<<x, i>> : i \in 1..n}
    BY <2>2, <2>4
  <2> QED
    BY <2>1, <2>5
<1>6. r \in [desc : {0} \cup Descs, free_cnt : Nat] /\ r.desc = d /\ r.free_cnt = n
  BY <1>2, <1>3
<1>7. JobLand(t) = {<<x, 0>>}
  BY <1>2 DEF Run, Pages
<1> HIDE DEF x, d, n, s, r
<1>8. /\ pc'[t] = "pop" /\ pc' \in [Threads -> Locations]
      /\ \A u \in Threads : u # t => pc'[u] = pc[u]
      /\ job' \in [Threads -> JobType] /\ \A u \in Threads : job'[u] = job[u]
  BY <1>2, <1>4, Goes DEF Locations, AllocTypeOK
<1>9. /\ arena'[x] = r /\ \A q \in Pages : q # x => arena'[q] = arena[q]
      /\ arena' \in [Pages -> [desc : {0} \cup Descs, free_cnt : Nat]]
  BY <1>2, <1>4, <1>6 DEF AllocTypeOK
<1>10. /\ free_list'[d] = s /\ \A e \in Descs : e # d => free_list'[e] = free_list[e]
       /\ free_list' \in [Descs -> Seq(Pointers)]
  BY <1>2, <1>4, <1>5 DEF AllocTypeOK
<1>11. Others(t) /\ LocksOfOthers(t) /\ AllocTypeOK'
  BY <1>2, <1>4, <1>8, <1>9, <1>10 DEF Others, LocksOfOthers, AllocTypeOK
<1>12. JobLand(t)' = {} /\ Wipes(t) = {} /\ Wipes(t)' = {}
  BY <1>1, <1>8 DEF JobLand, Wipes
<1>13. All(t)' = All(t) \ {<<x, 0>>} /\ <<x, 0>> \in All(t)
  <2>1. OwnLand(t)' = OwnLand(t)
    BY <1>4 DEF OwnLand, Land
  <2>2. \A o \in own[t] : <<x, 0>> \notin Land(o.ptr, o.n)
    BY <1>2 DEF AllocInv, Apart
  <2>3. <<x, 0>> \notin OwnLand(t)
    BY <2>2 DEF OwnLand
  <2> QED
    BY <1>7, <1>12, <2>1, <2>3 DEF All
<1>14. \A u \in Threads : u # t => All(u)' = All(u) /\ <<x, 0>> \notin All(u)
  BY <1>11, <1>13, OthersKeep, HeldOnce
<1>15. ASSUME NEW u \in Threads, NEW a \in All(u), a # <<x, 0>>
       PROVE  a[1] \in Pages /\ a[1] # x
  <2>1. a[1] \in Pages /\ a = <<a[1], a[2]>>
    BY <1>2, HeldType DEF AllocInv
  <2>2. a[2] # 0 => Live(a[1])
    BY DEF AllocInv, LandsFit, InArena
  <2> QED
    BY <1>2, <1>15, <2>1, <2>2
<1>16. JobFits(t)' /\ LocksHeld(t)'
  <2>1. j.old # {} => j.op = "realloc" /\ \E o \in own[t] : j.old = {o} /\ o.ptr[2] # 0
    BY DEF AllocInv, JobsFit, JobFits
  <2>2. j.op # "none"
    BY <1>2 DEF Asking
  <2>3. JobFits(t)'
    BY <1>2, <1>4, <1>5, <1>8, <1>10, <2>1, <2>2 DEF JobFits, At, d
  <2>4. LocksHeld(t)'
    BY <1>2, <1>4, <1>8 DEF LocksHeld, InPool, InDesc, d
  <2> QED
    BY <2>3, <2>4
<1>17. ASSUME NEW u \in Threads, u # t
       PROVE  JobFits(u)' /\ LocksHeld(u)' /\ \A o \in own'[u] : Holds(o.ptr, o.n)'
  <2>1. \A a \in All(u) : arena'[a[1]] = arena[a[1]]
    BY <1>9, <1>14, <1>15, <1>17
  <2> QED
    BY <1>2, <1>4, <1>10, <1>11, <1>17, <2>1, OthersFit DEF AllocAssumption
<1>18. ASSUME NEW o \in own[t] PROVE Holds(o.ptr, o.n)'
  <2>1. Holds(o.ptr, o.n) /\ o \in OwnType
    BY <1>2 DEF AllocInv, OwnFits, AllocTypeOK
  <2>2. o.n # 0 => o.ptr[1] # x
    BY <1>2, OwnIsKept
  <2>3. o.ptr[1] \in Pages
    BY <2>1 DEF OwnType, Pointers
  <2> QED
    BY <1>9, <2>1, <2>2, <2>3 DEF Holds
<1>19. JobsFit' /\ OwnFits'
  BY <1>4, <1>16, <1>17, <1>18 DEF JobsFit, OwnFits
<1>20. LandsApart(t)'
  BY <1>4, <1>12 DEF LandsApart, AllocInv, Apart, Land
<1>21. Apart'
  BY <1>11, <1>13, <1>20, OthersApart DEF AllocInv, Apart
<1>22. ASSUME NEW q \in Pages PROVE Live(q)' <=> Live(q) \/ q = x
  <2>1. Wiping(q)' <=> Wiping(q)
    BY <1>11, <1>12, WipingKeeps
  <2>2. CASE q = x
    BY <1>2, <1>6, <1>9, <2>1, <2>2 DEF Live
  <2>3. CASE q # x
    BY <1>9, <2>1, <2>3 DEF Live
  <2> QED
    BY <2>2, <2>3
<1>23. \A a : a[1] \in Pages /\ a[1] # x => (InArena(a)' <=> InArena(a))
  BY <1>9, <1>22 DEF InArena
<1>24. ASSUME NEW c \in Blocks(x, d)
       PROVE  c[1] = x /\ c[2] # 0 /\ InArena(c)' /\ \A u \in Threads : c \notin All(u)
  <2>1. c[1] = x /\ c[2] \in 1..n
    BY DEF Blocks, n
  <2>2. InArena(c)'
    <3>1. Live(c[1])' /\ arena'[c[1]].desc = d
      BY <1>2, <1>6, <1>9, <1>22, <2>1
    <3> QED
      BY <2>1, <3>1 DEF InArena, BlocksPerArena, BlockSize, n
  <2>3. c[2] # 0
    BY <1>3, <2>1
  <2> QED
    BY <1>15, <2>1, <2>2, <2>3
<1>25. ASSUME NEW q \in Pages, Live(q)
       PROVE  FreeList(q)' = IF arena[q].desc = d THEN Blocks(x, d) ELSE FreeList(q)
  <2>1. q # x
    BY <1>2, <1>25
  <2>2. arena[q].desc \in Descs /\ FreeList(q)' = Range(free_list'[arena[q].desc])
    BY <1>9, <1>25, <2>1, Arenas DEF FreeList
  <2> QED
    BY <1>5, <1>10, <2>2 DEF FreeList
<1>26. LandsFit'
  <2> SUFFICES ASSUME NEW u \in Threads, NEW a \in All(u)'
               PROVE  IF a[2] = 0 THEN a[1] \in used_map' /\ ~Live(a[1])'
                      ELSE InArena(a)' /\ a \notin FreeList(a[1])'
    BY Zenon DEF LandsFit
  <2>1. a \in All(u) /\ a # <<x, 0>>
    BY <1>13, <1>14
  <2>2. IF a[2] = 0 THEN a[1] \in used_map /\ ~Live(a[1])
        ELSE InArena(a) /\ a \notin FreeList(a[1])
    BY <2>1 DEF AllocInv, LandsFit
  <2>3. a[1] \in Pages /\ a[1] # x
    BY <1>15, <2>1
  <2> QED
    BY <1>4, <1>22, <1>23, <1>24, <1>25, <2>2, <2>3 DEF InArena
<1>27. ListsFit'
  <2>1. ASSUME NEW e \in Descs PROVE NoRepeat(free_list'[e])
    <3>1. CASE e = d
      BY <1>5, <1>10, <3>1
    <3>2. CASE e # d
      BY <1>10, <3>2 DEF AllocInv, ListsFit
    <3> QED
      BY <3>1, <3>2
  <2>2. ASSUME NEW e \in Descs, NEW c \in Range(free_list'[e])
        PROVE  InArena(c)' /\ arena'[c[1]].desc = e
    <3>1. CASE e = d
      BY <1>5, <1>6, <1>9, <1>10, <1>24, <2>2, <3>1
    <3>2. CASE e # d
      <4>1. c \in Range(free_list[e])
        BY <1>10, <2>2, <3>2
      <4>2. c[1] \in Pages /\ InArena(c) /\ Live(c[1]) /\ arena[c[1]].desc = e
        BY <4>1, Listed
      <4>3. c[1] # x
        BY <1>2, <4>2
      <4> QED
        BY <1>9, <1>23, <4>2, <4>3
    <3> QED
      BY <3>1, <3>2
  <2> QED
    BY <2>1, <2>2 DEF ListsFit
<1>28. ASSUME NEW q \in Pages, Live(q)
       PROVE  /\ q # x /\ arena'[q] = arena[q] /\ FreeBlocks(q)' = FreeBlocks(q)
              /\ Blocks(q, arena[q].desc)' = Blocks(q, arena[q].desc)
              /\ BlocksPerArena(arena[q].desc)' = BlocksPerArena(arena[q].desc)
  <2>1. q # x /\ arena'[q] = arena[q]
    BY <1>2, <1>9, <1>28
  <2>2. /\ Blocks(q, arena[q].desc)' = Blocks(q, arena[q].desc)
        /\ BlocksPerArena(arena[q].desc)' = BlocksPerArena(arena[q].desc)
    BY <2>1 DEF Blocks, BlocksPerArena, BlockSize
  <2>3. CASE arena[q].desc = d
    <3>1. FreeList(q) = {}
      BY <1>2, <2>3, InRange DEF FreeList, Range
    <3>2. Blocks(x, d) \cap Blocks(q, d) = {}
      BY <2>1 DEF Blocks
    <3> QED
      BY <1>25, <1>28, <2>1, <2>2, <2>3, <3>1, <3>2 DEF FreeBlocks
  <2>4. CASE arena[q].desc # d
    BY <1>25, <1>28, <2>1, <2>2, <2>4 DEF FreeBlocks
  <2> QED
    BY <2>1, <2>2, <2>3, <2>4
<1>29. ASSUME NEW q, q = x
       PROVE  /\ arena'[q].desc = d /\ arena'[q].free_cnt = n
              /\ Blocks(q, arena[q].desc)' = Blocks(q, d) /\ FreeList(q)' = Blocks(q, d)
              /\ BlocksPerArena(arena[q].desc)' = n
  <2>1. arena'[q].desc = d /\ arena'[q].free_cnt = n
    BY <1>6, <1>9, <1>29
  <2>2. FreeList(q)' = Range(free_list'[arena'[q].desc])
    BY DEF FreeList
  <2>3. Blocks(q, arena[q].desc)' = Blocks(q, d) /\ BlocksPerArena(arena[q].desc)' = n
    BY <2>1 DEF Blocks, BlocksPerArena, BlockSize, n
  <2> QED
    BY <1>5, <1>10, <1>29, <2>1, <2>2, <2>3
<1>30. ArenasFit'
  <2>1. ASSUME NEW q \in Pages, q \notin used_map PROVE arena'[q].desc = 0
    BY <1>2, <1>9, <2>1 DEF AllocInv, ArenasFit
  <2>2. ASSUME NEW q \in Pages, Live(q)'
        PROVE  Cardinality(FreeBlocks(q)') = arena'[q].free_cnt
    <3>1. CASE q = x
      <4>1. FreeBlocks(q)' = Blocks(q, d)
        BY <1>29, <3>1 DEF FreeBlocks
      <4> QED
        BY <1>2, <1>29, <3>1, <4>1, BlockCount DEF n
    <3>2. CASE q # x
      BY <1>22, <1>28, <2>2, <3>2 DEF AllocInv, ArenasFit
    <3> QED
      BY <3>1, <3>2
  <2> QED
    BY <1>4, <2>1, <2>2 DEF ArenasFit
<1>31. \A a : a # <<x, 0>> /\ (\E u \in Threads : a \in All(u)) => \E u \in Threads : a \in All(u)'
  BY <1>13, <1>14
<1>32. NoneLost'
  <2>1. ASSUME NEW q \in used_map
        PROVE  Live(q)' \/ \E u \in Threads : <<q, 0>> \in All(u)'
    <3>1. q \in Pages /\ (Live(q) \/ \E u \in Threads : <<q, 0>> \in All(u))
      BY <1>2 DEF AllocInv, NoneLost, AllocTypeOK
    <3>2. q # x => <<q, 0>> # <<x, 0>>
      OBVIOUS
    <3> QED
      BY <1>22, <1>31, <3>1, <3>2
  <2>2. ASSUME NEW q \in Pages, Live(q)', NEW c \in Blocks(q, arena[q].desc)'
        PROVE  c \in FreeList(q)' \/ \E u \in Threads : c \in All(u)'
    <3>1. CASE q = x
      BY <1>29, <2>2, <3>1
    <3>2. CASE q # x
      <4>1. Live(q) /\ c \in Blocks(q, arena[q].desc)
        BY <1>22, <1>28, <2>2, <3>2
      <4>2. c \in FreeList(q) \/ \E u \in Threads : c \in All(u)
        BY <4>1 DEF AllocInv, NoneLost
      <4>3. c # <<x, 0>>
        BY <3>2, <4>1 DEF Blocks
      <4>4. CASE c \in FreeList(q)
        BY <1>28, <4>1, <4>4 DEF FreeBlocks
      <4> QED
        BY <1>31, <4>2, <4>3, <4>4
    <3> QED
      BY <3>1, <3>2
  <2>3. ASSUME NEW q \in Pages, Live(q)', arena'[q].free_cnt = BlocksPerArena(arena[q].desc)'
        PROVE  \E u \in Threads : /\ pc'[u] = "pop" /\ job'[u].desc = arena'[q].desc
                                  /\ Head(free_list'[job'[u].desc])[1] = q
    <3>1. CASE q = x
      BY <1>5, <1>8, <1>10, <1>29, <3>1 DEF d
    <3>2. CASE q # x
      <4>1. Live(q) /\ arena'[q] = arena[q]
            /\ arena[q].free_cnt = BlocksPerArena(arena[q].desc)
        BY <1>22, <1>28, <2>3, <3>2
      <4>2. PICK u \in Threads : /\ pc[u] = "pop" /\ job[u].desc = arena[q].desc
                                 /\ Head(free_list[job[u].desc])[1] = q
        BY <4>1 DEF AllocInv, NoneLost, At
      <4>3. u # t
        BY <1>1, <4>2
      <4>4. job[u].desc # d
        BY <1>2, <4>2, <4>3, OneInDesc DEF InDesc, d
      <4>5. arena[q].desc \in Descs
        BY <4>1, Arenas
      <4> QED
        BY <1>8, <1>10, <4>1, <4>2, <4>3, <4>4, <4>5
    <3> QED
      BY <3>1, <3>2
  <2> QED
    BY <1>4, <2>1, <2>2, <2>3, Zenon DEF NoneLost, At
<1> QED
  BY <1>11, <1>19, <1>21, <1>26, <1>27, <1>30, <1>32 DEF AllocInv

(* The pages found become a page, a big block or an arena.                 *)
LEMMA GotPagesKeeps ==
    ASSUME AllocAssumption, AllocInv, NEW t \in Threads, GotPages(t)
    PROVE  AllocInv'
<1>1. CASE job[t].desc # 0
  BY <1>1, GotArena
<1>2. CASE job[t].desc = 0 /\ job[t].op \notin Getting
  BY <1>2, GotBig
<1>3. CASE job[t].op \in Getting
  BY <1>3, GotPlain
<1> QED
  BY <1>1, <1>2, <1>3

-----------------------------------------------------------------------------
(* The invariant and what follows from it.                                 *)

(* Every step of the allocators keeps the invariant.                       *)
LEMMA AllocStep ==
    ASSUME AllocAssumption, AllocInv, [Next]_vars
    PROVE  AllocInv'
<1>1. ASSUME NEW t \in Threads, Client(t) PROVE AllocInv'
  <2>1. CASE Malloc(t) \/ Calloc(t) \/ Realloc(t)
    BY <2>1, CallKeeps
  <2>2. CASE GetPages(t)
    BY <2>2, GetPagesKeeps
  <2>3. CASE Free(t)
    BY <2>3, FreeKeeps
  <2>4. CASE Write(t)
    BY <2>4, WriteKeeps
  <2> QED
    BY <1>1, <2>1, <2>2, <2>3, <2>4 DEF Client
<1>2. ASSUME NEW t \in Threads, Inside(t) PROVE AllocInv'
  <2>1. CASE LockDesc(t)
    BY <2>1, LockDescKeeps
  <2>2. CASE Pop(t)
    BY <2>2, PopKeeps
  <2>3. CASE UnlockDesc(t)
    BY <2>3, UnlockDescKeeps
  <2>4. CASE Return(t)
    BY <2>4, ReturnKeeps
  <2>5. CASE LockPool(t)
    BY <2>5, LockPoolKeeps
  <2>6. CASE Scan(t)
    BY <2>6, ScanKeeps
  <2>7. CASE Mark(t)
    BY <2>7, MarkKeeps
  <2>8. CASE NoPage(t)
    BY <2>8, NoPageKeeps
  <2>9. CASE GotPages(t)
    BY <2>9, GotPagesKeeps
  <2>10. CASE Clear(t)
    BY <2>10, ClearKeeps
  <2>11. CASE Push(t)
    BY <2>11, PushKeeps
  <2>12. CASE Wipe(t)
    BY <2>12, WipeKeeps
  <2>13. CASE Reset(t)
    BY <2>13, ResetKeeps
  <2> QED
    BY <1>2, <2>1, <2>2, <2>3, <2>4, <2>5, <2>6, <2>7, <2>8, <2>9, <2>10, <2>11, <2>12, <2>13
       DEF Inside
<1>3. CASE UNCHANGED vars
  <2>1. UNCHANGED <<used_map, arena, data, free_list, desc_lock, pool_lock, pc, job, own>>
    BY <1>3 DEF vars
  <2>2. /\ AllocTypeOK' = AllocTypeOK /\ Apart' = Apart /\ ListsFit' = ListsFit
    BY <2>1 DEF AllocTypeOK, Apart, All, JobLand, OwnLand, Land, ListsFit, InArena, Live, Wiping
  <2>3. JobsFit' = JobsFit /\ OwnFits' = OwnFits /\ LandsFit' = LandsFit
    BY <2>1 DEF JobsFit, OwnFits, Holds, JobFits, LocksHeld, InPool, InDesc, At, LandsFit, All,
                JobLand, OwnLand, Land, InArena, Live, Wiping, FreeList
  <2>4. ArenasFit' = ArenasFit /\ NoneLost' = NoneLost
    BY <2>1 DEF ArenasFit, NoneLost, FreeBlocks, FreeList, Live, Wiping, All, JobLand, OwnLand,
                Land, At
  <2> QED
    BY <2>2, <2>3, <2>4, Zenon DEF AllocInv
<1> QED
  BY <1>1, <1>2, <1>3 DEF Next

(* palloc_init and malloc_init.                                            *)
LEMMA AllocStart ==
    ASSUME AllocAssumption, Init
    PROVE  AllocInv
<1> USE DEF Init
<1>1. AllocTypeOK
  <2>1. Garbage \in [desc : {0} \cup Descs, free_cnt : Nat]
    BY DEF Garbage
  <2>2. <<>> \in Seq(Pointers)
    OBVIOUS
  <2>3. arena \in [Pages -> [desc : {0} \cup Descs, free_cnt : Nat]]
    BY <2>1
  <2> QED
    BY <2>2, <2>3, IdleFits DEF AllocTypeOK, Locations
<1>2. \A t \in Threads : JobLand(t) = {} /\ OwnLand(t) = {} /\ All(t) = {}
  BY DEF JobLand, OwnLand, All
<1>3. \A p \in Pages : arena[p].desc = 0
  BY DEF Garbage
<1>4. JobsFit /\ OwnFits
  BY IdleFits DEF JobsFit, OwnFits, JobFits, LocksHeld, InPool, InDesc, At
<1>5. Apart /\ LandsFit
  BY <1>2 DEF Apart, LandsFit
<1>6. ListsFit
  <2>1. NoRepeat(<<>>) /\ Range(<<>>) = {}
    BY DEF NoRepeat, Range
  <2> QED
    BY <2>1 DEF ListsFit
<1>7. ArenasFit /\ NoneLost
  BY <1>3 DEF ArenasFit, NoneLost, Live
<1> QED
  BY <1>1, <1>4, <1>5, <1>6, <1>7 DEF AllocInv

(* What the invariant says to the assertions of palloc.c and malloc.c.     *)
LEMMA AssertionsFollow ==
    ASSUME AllocAssumption, AllocInv, NEW t \in Threads
    PROVE  AssertionsHold(t)
<1> DEFINE j == job[t]
           ptr == j.ptr
           a == arena[ptr[1]]
<1>1. /\ AllocTypeOK /\ j \in JobType /\ JobFits(t)
      /\ ptr[1] \in Pages /\ ptr[2] \in Nat /\ ptr \in Pointers
  BY DEF AllocInv, AllocTypeOK, JobsFit, JobType, Pointers
<1>2. pc[t] = "reset" => Run(ptr[1] + j.k, j.n - j.k) \subseteq used_map
  <2> SUFFICES ASSUME pc[t] = "reset", NEW p \in Run(ptr[1] + j.k, j.n - j.k) PROVE p \in used_map
    OBVIOUS
  <2>1. <<p, 0>> \in All(t)
    BY DEF All, JobLand
  <2> QED
    BY <2>1, HeldPage
<1>3. pc[t] = "push" => a.free_cnt < BlocksPerArena(a.desc)
  <2> SUFFICES ASSUME pc[t] = "push" PROVE a.free_cnt < BlocksPerArena(a.desc)
    OBVIOUS
  <2>1. /\ BlocksPerArena(j.desc) \in Nat /\ a.free_cnt \in 0..(BlocksPerArena(j.desc) - 1)
        /\ a.desc = j.desc
    BY GivenBack
  <2> QED
    BY <2>1
<1>4. pc[t] = "clear" => IF a.desc = 0 THEN ptr[2] = 1 /\ a.free_cnt > 0
                         ELSE ptr \in Blocks(ptr[1], a.desc)
  <2> SUFFICES ASSUME pc[t] = "clear"
               PROVE  IF a.desc = 0 THEN ptr[2] = 1 /\ a.free_cnt > 0
                      ELSE ptr \in Blocks(ptr[1], a.desc)
    OBVIOUS
  <2>1. ptr[2] # 0 /\ Holds(ptr, j.n) /\ j.n \in Nat
    BY <1>1 DEF JobFits, At, JobType
  <2>2. CASE j.n = 0
    <3>1. ptr \in All(t)
      BY <2>2 DEF All, JobLand, Land
    <3>2. InArena(ptr)
      BY <2>1, <3>1 DEF AllocInv, LandsFit
    <3>3. a.desc # 0 /\ ptr = <<ptr[1], ptr[2]>>
      BY <1>1, <3>2 DEF InArena, Live, Pointers
    <3> QED
      BY <3>2, <3>3 DEF InArena, Blocks
  <2>3. CASE j.n # 0
    BY <2>1, <2>3 DEF Holds
  <2> QED
    BY <2>2, <2>3
<1> QED
  BY <1>2, <1>3, <1>4 DEF AssertionsHold, At

(* The invariant says what ArenasAgree does.                               *)
LEMMA AgreeFollows ==
    ASSUME AllocAssumption, AllocInv
    PROVE  ArenasAgree
<1>1. \A t \in Threads : AssertionsHold(t)
  BY AssertionsFollow
<1>2. ASSUME NEW d \in Descs, NEW i \in DOMAIN free_list[d], NEW j \in DOMAIN free_list[d]
      PROVE  /\ arena[free_list[d][i][1]].desc = d
             /\ free_list[d][i] = free_list[d][j] => i = j
  <2>1. free_list[d] \in Seq(Pointers) /\ NoRepeat(free_list[d])
    BY DEF AllocInv, AllocTypeOK, ListsFit
  <2>2. DOMAIN free_list[d] = 1..Len(free_list[d])
    BY <2>1, LenProperties
  <2>3. free_list[d][i] \in Range(free_list[d])
    BY <2>1, <2>2, InRange
  <2> QED
    BY <2>1, <2>2, <2>3, Listed DEF NoRepeat
<1>3. ASSUME NEW p \in Pages, Live(p)
      PROVE  /\ p \in used_map
             /\ Cardinality(FreeBlocks(p)) = arena[p].free_cnt
             /\ \A o \in Holders : o.ptr \notin FreeBlocks(p)
  <2>1. p \in used_map /\ Cardinality(FreeBlocks(p)) = arena[p].free_cnt
    BY <1>3, Arenas
  <2>2. ASSUME NEW t \in Threads, NEW o \in own[t], o.ptr \in FreeBlocks(p) PROVE FALSE
    <3>1. o.ptr[1] = p /\ o.ptr \in FreeList(p)
      BY <2>2 DEF FreeBlocks, Blocks
    <3>2. CASE o.n = 0
      <4>1. o.ptr \in All(t)
        BY <3>2 DEF All, OwnLand, Land
      <4>2. o.ptr[2] # 0
        BY <3>2 DEF AllocInv, OwnFits, Holds
      <4> QED
        BY <3>1, <4>1, <4>2 DEF AllocInv, LandsFit
    <3>3. CASE o.n # 0
      BY <1>3, <3>1, <3>3, OwnIsKept, HeldPage
    <3> QED
      BY <3>2, <3>3
  <2> QED
    BY <2>1, <2>2 DEF Holders
<1> QED
  BY <1>1, <1>2, <1>3, Zenon DEF ArenasAgree, Live, FreeBlocks, FreeList

(* The invariant says what NothingLeaks does when no thread is in a call.  *)
LEMMA LeaksFollow ==
    ASSUME AllocAssumption, AllocInv
    PROVE  NothingLeaks
<1> SUFFICES ASSUME \A t \in Threads : pc[t] = "idle"
             PROVE  used_map = UNION {Run(o.ptr[1], IF o.n = 0 THEN 1 ELSE o.n) : o \in Holders}
  BY DEF NothingLeaks
<1> DEFINE Of(o) == Run(o.ptr[1], IF o.n = 0 THEN 1 ELSE o.n)
<1>1. \A t \in Threads : All(t) = OwnLand(t)
  BY DEF All, JobLand
<1>2. ASSUME NEW t \in Threads, NEW o \in own[t]
      PROVE  /\ o \in OwnType /\ Holds(o.ptr, o.n)
             /\ o.n = 0 => Of(o) = {o.ptr[1]} /\ o.ptr[1] \in Pages
  <2>1. o \in OwnType /\ Holds(o.ptr, o.n)
    BY DEF AllocInv, AllocTypeOK, OwnFits
  <2>2. o.ptr[1] \in Pages /\ o.ptr[1] \in Nat
    BY <2>1 DEF OwnType, Pointers, Pages
  <2> QED
    BY <2>1, <2>2 DEF Run
<1>3. ASSUME NEW t \in Threads, NEW o \in own[t], NEW p \in Of(o) PROVE p \in used_map
  <2>1. Land(o.ptr, o.n) \in SUBSET All(t)
    BY DEF All, OwnLand
  <2>2. CASE o.n = 0
    <3>1. o.ptr \in All(t) /\ o.ptr[2] # 0
      BY <1>2, <2>1, <2>2 DEF Land, Holds
    <3>2. Live(o.ptr[1])
      BY <3>1 DEF AllocInv, LandsFit, InArena
    <3> QED
      BY <1>2, <1>3, <2>2, <3>2, Arenas
  <2>3. CASE o.n # 0
    <3>1. <<p, 0>> \in All(t)
      BY <1>3, <2>1, <2>3 DEF Land
    <3> QED
      BY <3>1, HeldPage
  <2> QED
    BY <2>2, <2>3
<1>4. ASSUME NEW p \in used_map PROVE \E t \in Threads : \E o \in own[t] : p \in Of(o)
  <2>0. p \in Pages
    BY DEF AllocInv, AllocTypeOK
  <2>1. CASE Live(p)
    <3> DEFINE n == BlocksPerArena(arena[p].desc)
    <3>1. /\ arena[p].desc \in Descs /\ IsFiniteSet(Blocks(p, arena[p].desc))
          /\ Cardinality(Blocks(p, arena[p].desc)) = n
          /\ Cardinality(FreeBlocks(p)) = arena[p].free_cnt /\ arena[p].free_cnt # n
      BY <2>0, <2>1, Arenas, BlockCount DEF AllocInv, NoneLost, At
    <3>2. PICK b \in Blocks(p, arena[p].desc) : b \notin FreeList(p)
      <4>1. FreeBlocks(p) # Blocks(p, arena[p].desc)
        BY <3>1
      <4> QED
        BY <4>1 DEF FreeBlocks
    <3>3. PICK t \in Threads : b \in OwnLand(t)
      BY <1>1, <2>0, <2>1, <3>2 DEF AllocInv, NoneLost
    <3>4. PICK o \in own[t] : b \in Land(o.ptr, o.n)
      BY <3>3 DEF OwnLand
    <3>5. b[1] = p /\ b[2] # 0
      BY <3>1, ArenaSizes DEF Blocks
    <3>6. o.n = 0 /\ o.ptr = b
      BY <3>4, <3>5 DEF Land
    <3> QED
      BY <1>2, <3>5, <3>6
  <2>2. CASE ~Live(p)
    <3>1. PICK t \in Threads : <<p, 0>> \in OwnLand(t)
      BY <1>1, <2>2 DEF AllocInv, NoneLost
    <3>2. PICK o \in own[t] : <<p, 0>> \in Land(o.ptr, o.n)
      BY <3>1 DEF OwnLand
    <3>3. ASSUME o.n = 0 PROVE FALSE
      <4>1. o.ptr = <<p, 0>>
        BY <3>2, <3>3 DEF Land
      <4>2. o.ptr[2] # 0
        BY <1>2, <3>3 DEF Holds
      <4> QED
        BY <4>1, <4>2
    <3> QED
      BY <3>2, <3>3 DEF Land
  <2> QED
    BY <2>1, <2>2
<1> QED
  BY <1>3, <1>4 DEF Holders

(* The inductive invariant: what the threads hold, what lies on the free   *)
(* lists and what the pool has left are apart and together all there is,   *)
(* wherever the threads stand in malloc, free and palloc.                  *)
THEOREM AllocInvariance == Spec => []AllocInv
<1>1. Init => AllocInv
  BY AllocStart, AllocAssumption
<1>2. AllocInv /\ [Next]_vars => AllocInv'
  BY AllocStep, AllocAssumption
<1> QED
  BY <1>1, <1>2, PTL DEF Spec

(* For any number of threads, pages and sizes an arena's count is right,   *)
(* no free block is a client's, and no ASSERT of palloc.c or malloc.c that *)
(* AssertionsHold states ever fails.                                       *)
THEOREM ArenasAlwaysAgree == Spec => []ArenasAgree
<1>1. AllocInv => ArenasAgree
  BY AgreeFollows, AllocAssumption
<1> QED
  BY <1>1, AllocInvariance, PTL

(* With no thread inside the allocators, the pool's bits set are the pages *)
(* the clients hold and the arenas with a block they hold.                 *)
THEOREM NothingIsLost == Spec => []NothingLeaks
<1>1. AllocInv => NothingLeaks
  BY LeaksFollow, AllocAssumption
<1> QED
  BY <1>1, AllocInvariance, PTL

-----------------------------------------------------------------------------
(* The heap the clients see (Heap).                                        *)

(* The cells of some memory, in order, are different cells, of its block   *)
(* or on its pages.                                                        *)
LEMMA CellsAre ==
    ASSUME AllocAssumption, NEW ptr \in Pointers, NEW n \in Nat,
           NEW cells, cells = CellsOf(ptr, n)
    PROVE  /\ 1 \in DOMAIN cells
           /\ \A i \in DOMAIN cells : cells[i] \in Range(cells)
           /\ \A c \in Range(cells) : \E i \in DOMAIN cells : cells[i] = c
           /\ \A i, k \in DOMAIN cells : cells[i] = cells[k] => i = k
           /\ \A c \in Range(cells) :
                IF n = 0 THEN c = ptr
                ELSE c[1] \in Run(ptr[1], n) /\ c[2] \in 1..PerPage /\ c = <<c[1], c[2]>>
<1>1. /\ \A i \in DOMAIN cells : cells[i] \in Range(cells)
      /\ \A c \in Range(cells) : \E i \in DOMAIN cells : cells[i] = c
  BY DEF Range
<1>2. CASE n = 0
  <2>1. cells = <<ptr>>
    BY <1>2 DEF CellsOf
  <2>2. DOMAIN cells = {1} /\ cells[1] = ptr
    BY <2>1
  <2> QED
    BY <1>1, <1>2, <2>2
<1>3. CASE n # 0
  <2>1. PerPage \in Nat \ {0} /\ ptr[1] \in Nat
    BY ArenaSizes DEF Pointers, Pages
  <2> DEFINE m == PerPage
             L == n * m
             f(i) == <<ptr[1] + ((i - 1) \div m), 1 + ((i - 1) % m)>>
  <2>2. cells = [i \in 1..L |-> f(i)]
    BY <1>3 DEF CellsOf
  <2>3. L \in Nat /\ m <= L
    <3>1. PICK k \in Nat : n = k + 1
      <4>1. n = (n - 1) + 1 /\ n - 1 \in Nat
        BY <1>3
      <4> QED
        BY <4>1
    <3> HIDE DEF m
    <3>2. (k + 1) * m = k * m + m /\ k * m \in Nat
      BY <2>1 DEF m
    <3> QED
      BY <2>1, <3>1, <3>2 DEF m
  <2>4. ASSUME NEW i \in 1..L
        PROVE  /\ (i - 1) \div m \in Nat /\ (i - 1) % m \in 0..(m - 1)
               /\ i - 1 = m * ((i - 1) \div m) + ((i - 1) % m)
               /\ (i - 1) \div m < n
    <3> DEFINE a == i - 1
               q == a \div m
    <3>1. a \in Nat /\ a < n * m /\ m \in Nat \ {0}
      BY <2>1, <2>3
    <3> HIDE DEF a, m
    <3>2. q \in Nat /\ a % m \in 0..(m - 1) /\ a = m * q + (a % m)
      BY <3>1, Division
    <3>3. q < n
      <4> SUFFICES ASSUME n <= q PROVE FALSE
        BY <3>2
      <4>1. PICK e \in Nat : q = n + e
        <5>1. q = n + (q - n) /\ q - n \in Nat
          BY <3>2
        <5> QED
          BY <5>1
      <4> HIDE DEF q
      <4>2. m * q = n * m + m * e /\ m * e \in Nat /\ n * m \in Nat /\ m * q \in Nat
        BY <3>1, <4>1
      <4> QED
        BY <3>1, <3>2, <4>2
    <3> QED
      BY <3>2, <3>3 DEF a
  <2>5. DOMAIN cells = 1..L /\ \A i \in 1..L : cells[i] = f(i)
    <3> HIDE DEF f, L
    <3> QED
      BY <2>2
  <2>6. 1 \in DOMAIN cells
    BY <2>1, <2>3, <2>5
  <2>7. ASSUME NEW i \in 1..L, NEW k \in 1..L, cells[i] = cells[k] PROVE i = k
    <3>1. f(i) = f(k)
      <4> HIDE DEF f, L
      <4> QED
        BY <2>5, <2>7
    <3>2. /\ ptr[1] + ((i - 1) \div m) = ptr[1] + ((k - 1) \div m)
          /\ 1 + ((i - 1) % m) = 1 + ((k - 1) % m)
      BY <3>1
    <3> DEFINE a == (i - 1) \div m
               b == (k - 1) \div m
               c == (i - 1) % m
               e == (k - 1) % m
    <3>3. /\ a \in Nat /\ b \in Nat /\ c \in Nat /\ e \in Nat /\ i \in Int /\ k \in Int
          /\ i - 1 = m * a + c /\ k - 1 = m * b + e
      BY <2>1, <2>4
    <3>4. ptr[1] + a = ptr[1] + b /\ 1 + c = 1 + e
      BY <3>2
    <3> HIDE DEF a, b, c, e, m, L, f
    <3>5. a = b /\ c = e
      BY <2>1, <3>3, <3>4
    <3>6. i - 1 = k - 1
      BY <3>3, <3>5
    <3> QED
      BY <3>3, <3>6
  <2>8. ASSUME NEW i \in 1..L
        PROVE  /\ f(i)[1] \in Run(ptr[1], n) /\ f(i)[2] \in 1..PerPage
               /\ f(i) = <<f(i)[1], f(i)[2]>>
    <3> DEFINE a == (i - 1) \div m
               c == (i - 1) % m
    <3>1. a \in Nat /\ a < n /\ c \in 0..(m - 1)
      BY <2>4
    <3>2. f(i) = <<ptr[1] + a, 1 + c>>
      OBVIOUS
    <3> HIDE DEF a, c, f
    <3>3. ptr[1] + a \in Run(ptr[1], n) /\ 1 + c \in 1..m
      BY <2>1, <3>1 DEF Run
    <3> QED
      BY <3>2, <3>3
  <2>9. ASSUME NEW x \in Range(cells)
        PROVE  x[1] \in Run(ptr[1], n) /\ x[2] \in 1..PerPage /\ x = <<x[1], x[2]>>
    <3>1. PICK i \in 1..L : f(i) = x
      <4> HIDE DEF f, L
      <4> QED
        BY <1>1, <2>5
    <3> HIDE DEF f, L
    <3> QED
      BY <2>8, <3>1
  <2> HIDE DEF f, L, m
  <2> QED
    BY <1>1, <1>3, <2>5, <2>6, <2>7, <2>9
<1> QED
  BY <1>2, <1>3

(* The memory of a block or pages a thread holds, or its call is about.    *)
Mine(t, ptr, n) ==
    ptr \in Pointers /\ n \in Nat /\ Holds(ptr, n) /\ Land(ptr, n) \in SUBSET All(t)

(* The cells of what is held: of a block in a live arena, or on pages that *)
(* are none.                                                               *)
LEMMA MemoryIs ==
    ASSUME AllocAssumption, AllocInv, NEW t \in Threads, NEW ptr, NEW n, Mine(t, ptr, n)
    PROVE  \A c \in Range(CellsOf(ptr, n)) :
              /\ c \in Cells
              /\ IF n = 0 THEN c = ptr /\ c \in Land(ptr, n) /\ Live(c[1])
                 ELSE <<c[1], 0>> \in Land(ptr, n) /\ ~Live(c[1])
<1> SUFFICES ASSUME NEW c \in Range(CellsOf(ptr, n))
             PROVE  /\ c \in Cells
                    /\ IF n = 0 THEN c = ptr /\ c \in Land(ptr, n) /\ Live(c[1])
                       ELSE <<c[1], 0>> \in Land(ptr, n) /\ ~Live(c[1])
  OBVIOUS
<1>1. /\ ptr \in Pointers /\ n \in Nat /\ Holds(ptr, n) /\ Land(ptr, n) \in SUBSET All(t)
      /\ ptr[1] \in Pages /\ ptr[2] \in Nat /\ ptr = <<ptr[1], ptr[2]>>
  BY DEF Mine, Pointers
<1>2. IF n = 0 THEN c = ptr
      ELSE c[1] \in Run(ptr[1], n) /\ c[2] \in 1..PerPage /\ c = <<c[1], c[2]>>
  BY <1>1, CellsAre
<1>3. CASE n = 0
  <2>1. c = ptr /\ c \in Land(ptr, n) /\ c \in All(t) /\ c[2] # 0
    BY <1>1, <1>2, <1>3 DEF Land, Holds
  <2>2. InArena(c) /\ Live(c[1])
    BY <2>1 DEF AllocInv, LandsFit, InArena
  <2>3. arena[c[1]].desc \in Descs
    BY <1>1, <2>1, <2>2, Arenas
  <2>4. c[2] \in 1..BlocksPerArena(arena[c[1]].desc)
    BY <2>2 DEF InArena
  <2>5. c[2] \in 1..PerPage
    BY <2>3, <2>4, ArenaSizes
  <2> QED
    BY <1>1, <1>3, <2>1, <2>2, <2>5 DEF Cells
<1>4. CASE n # 0
  <2>1. <<c[1], 0>> \in Land(ptr, n) /\ <<c[1], 0>> \in All(t)
    BY <1>1, <1>2, <1>4 DEF Land
  <2>2. c[1] \in Pages /\ ~Live(c[1])
    BY <2>1, HeldPage
  <2> QED
    BY <1>2, <1>4, <2>1, <2>2 DEF Cells
<1> QED
  BY <1>3, <1>4

(* The address of some memory is a block of a live arena, or on a page     *)
(* that is none.                                                           *)
LEMMA AddressIs ==
    ASSUME AllocAssumption, AllocInv, NEW t \in Threads, NEW ptr, NEW n, Mine(t, ptr, n)
    PROVE  IF n = 0 THEN ptr \in Land(ptr, n) /\ Live(ptr[1])
           ELSE <<ptr[1], 0>> \in Land(ptr, n) /\ ~Live(ptr[1])
<1>1. ptr \in Pointers /\ n \in Nat /\ ptr[1] \in Nat /\ Land(ptr, n) \in SUBSET All(t)
  BY DEF Mine, Pointers, Pages
<1>2. CASE n = 0
  <2>1. PICK c \in Range(CellsOf(ptr, n)) : TRUE
    BY <1>1, CellsAre
  <2>2. c = ptr /\ c \in Land(ptr, n) /\ Live(c[1])
    BY <1>2, MemoryIs
  <2> QED
    BY <1>2, <2>2
<1>3. CASE n # 0
  <2>1. ptr[1] \in Run(ptr[1], n)
    BY <1>1, <1>3 DEF Run
  <2>2. <<ptr[1], 0>> \in Land(ptr, n) /\ <<ptr[1], 0>> \in All(t)
    BY <1>1, <1>3, <2>1 DEF Land
  <2>3. ~Live(ptr[1])
    BY <2>2, HeldPage
  <2> QED
    BY <1>3, <2>2, <2>3
<1> QED
  BY <1>2, <1>3

(* Memory that is apart shares no cell, and is not at the same address.    *)
LEMMA CellsApart ==
    ASSUME AllocAssumption, AllocInv, NEW t \in Threads, NEW u \in Threads,
           NEW a, NEW m, Mine(t, a, m), NEW b, NEW n, Mine(u, b, n),
           Land(a, m) \cap Land(b, n) = {}
    PROVE  Range(CellsOf(a, m)) \cap Range(CellsOf(b, n)) = {} /\ a # b
<1>1. ASSUME NEW c \in Range(CellsOf(a, m)), c \in Range(CellsOf(b, n)) PROVE FALSE
  <2>1. IF m = 0 THEN c = a /\ c \in Land(a, m) /\ Live(c[1])
        ELSE <<c[1], 0>> \in Land(a, m) /\ ~Live(c[1])
    BY MemoryIs
  <2>2. IF n = 0 THEN c = b /\ c \in Land(b, n) /\ Live(c[1])
        ELSE <<c[1], 0>> \in Land(b, n) /\ ~Live(c[1])
    BY <1>1, MemoryIs
  <2> QED
    BY <2>1, <2>2
<1>2. ASSUME a = b PROVE FALSE
  <2>1. IF m = 0 THEN a \in Land(a, m) /\ Live(a[1])
        ELSE <<a[1], 0>> \in Land(a, m) /\ ~Live(a[1])
    BY AddressIs
  <2>2. IF n = 0 THEN b \in Land(b, n) /\ Live(b[1])
        ELSE <<b[1], 0>> \in Land(b, n) /\ ~Live(b[1])
    BY AddressIs
  <2> QED
    BY <1>2, <2>1, <2>2
<1> QED
  BY <1>1, <1>2

(* What clients hold: each of it once.                                     *)
LEMMA HoldersApart ==
    ASSUME AllocAssumption, AllocInv, NEW o \in Holders, NEW q \in Holders
    PROVE  /\ \E t \in Threads : o \in own[t] /\ Mine(t, o.ptr, o.n)
           /\ o # q => /\ Range(CellsOf(o.ptr, o.n)) \cap Range(CellsOf(q.ptr, q.n)) = {}
                       /\ o.ptr # q.ptr
<1>1. ASSUME NEW t \in Threads, NEW r \in own[t]
      PROVE  Mine(t, r.ptr, r.n) /\ Land(r.ptr, r.n) \in SUBSET All(t)
  <2>1. r \in OwnType /\ Holds(r.ptr, r.n)
    BY DEF AllocInv, AllocTypeOK, OwnFits
  <2>2. Land(r.ptr, r.n) \in SUBSET All(t)
    BY DEF All, OwnLand
  <2> QED
    BY <2>1, <2>2 DEF Mine, OwnType
<1>2. PICK t \in Threads : o \in own[t]
  BY DEF Holders
<1>3. PICK u \in Threads : q \in own[u]
  BY DEF Holders
<1>4. ASSUME o # q PROVE Land(o.ptr, o.n) \cap Land(q.ptr, q.n) = {}
  <2>1. CASE t = u
    BY <1>2, <1>3, <1>4, <2>1 DEF AllocInv, Apart
  <2>2. CASE t # u
    <3>1. All(t) \cap All(u) = {}
      BY <2>2 DEF AllocInv, Apart
    <3> QED
      BY <1>1, <1>2, <1>3, <3>1
  <2> QED
    BY <2>1, <2>2
<1> QED
  BY <1>1, <1>2, <1>3, <1>4, CellsApart

(* No two threads hold the same.                                           *)
LEMMA OneHolder ==
    ASSUME AllocAssumption, AllocInv, NEW t \in Threads, NEW u \in Threads, t # u,
           NEW o \in own[t]
    PROVE  o \notin own[u]
<1>1. o \in OwnType
  BY DEF AllocInv, AllocTypeOK
<1>2. Land(o.ptr, o.n) # {}
  <2>1. o.ptr[1] \in Nat /\ o.n \in Nat
    BY <1>1 DEF OwnType, Pointers, Pages
  <2>2. o.n # 0 => o.ptr[1] \in Run(o.ptr[1], o.n)
    BY <2>1 DEF Run
  <2>3. o.n # 0 => <<o.ptr[1], 0>> \in Land(o.ptr, o.n)
    BY <2>2 DEF Land
  <2>4. o.n = 0 => o.ptr \in Land(o.ptr, o.n)
    BY DEF Land
  <2> QED
    BY <2>3, <2>4
<1>3. All(t) \cap All(u) = {}
  BY DEF AllocInv, Apart
<1>4. Land(o.ptr, o.n) \in SUBSET All(t)
  BY DEF All, OwnLand
<1>5. o \in own[u] => Land(o.ptr, o.n) \in SUBSET All(u)
  BY DEF All, OwnLand
<1> QED
  BY <1>2, <1>3, <1>4, <1>5

(* heap: what is at the address of what is held.                           *)
Entry(o) ==
    [cells |-> CellsOf(o.ptr, o.n), zero |-> o.zero,
     vals |-> [i \in DOMAIN CellsOf(o.ptr, o.n) |-> data[CellsOf(o.ptr, o.n)[i]]]]
HeapFits ==
    /\ DOMAIN heap = {o.ptr : o \in Holders}
    /\ heap = [b \in {o.ptr : o \in Holders} |-> heap[b]]
    /\ \A o \in Holders : heap[o.ptr] = Entry(o)
    /\ \A o, q \in Holders : o.ptr = q.ptr => o = q

(* The heap clients see, with one owner for each address.                  *)
LEMMA HeapIs == AllocInv => HeapFits
<1> SUFFICES ASSUME AllocInv PROVE HeapFits
  OBVIOUS
<1> DEFINE F(b) == LET o == CHOOSE o \in Holders : o.ptr = b
                       cells == CellsOf(b, o.n) IN
                   [cells |-> cells, zero |-> o.zero,
                    vals |-> [i \in DOMAIN cells |-> data[cells[i]]]]
<1>1. heap = [b \in {o.ptr : o \in Holders} |-> F(b)]
  BY DEF heap
<1>2. \A o, q \in Holders : o.ptr = q.ptr => o = q
  BY HoldersApart, AllocAssumption
<1>3. ASSUME NEW o \in Holders PROVE F(o.ptr) = Entry(o)
  <2>1. (CHOOSE q \in Holders : q.ptr = o.ptr) = o
    BY <1>2
  <2> QED
    BY <2>1 DEF Entry
<1> HIDE DEF F
<1> QED
  BY <1>1, <1>2, <1>3 DEF HeapFits

(* So it is after a step.                                                  *)
LEMMA HeapNext == AllocInv' => HeapFits'
  BY HeapIs, PTL

(* What is held is apart from what the call of a thread is about.          *)
LEMMA JobApart ==
    ASSUME AllocAssumption, AllocInv, NEW t \in Threads, NEW o \in Holders,
           NEW ptr, NEW n, Mine(t, ptr, n), Land(ptr, n) \in SUBSET JobLand(t)
    PROVE  Range(CellsOf(o.ptr, o.n)) \cap Range(CellsOf(ptr, n)) = {} /\ o.ptr # ptr
<1>1. PICK u \in Threads : o \in own[u] /\ Mine(u, o.ptr, o.n)
  BY HoldersApart
<1>2. Land(o.ptr, o.n) \cap JobLand(t) = {}
  <2>1. CASE u = t
    BY <1>1, <2>1 DEF AllocInv, Apart
  <2>2. CASE u # t
    <3>1. All(u) \cap All(t) = {}
      BY <2>2 DEF AllocInv, Apart
    <3>2. Land(o.ptr, o.n) \in SUBSET All(u)
      BY <1>1 DEF Mine
    <3>3. JobLand(t) \in SUBSET All(t)
      BY DEF All
    <3> QED
      BY <3>1, <3>2, <3>3
  <2> QED
    BY <2>1, <2>2
<1>3. Land(o.ptr, o.n) \cap Land(ptr, n) = {}
  BY <1>2
<1> QED
  BY <1>1, <1>3, CellsApart

(* What is not written to stays as it is.                                  *)
LEMMA EntrySame ==
    ASSUME NEW o, \A c \in Range(CellsOf(o.ptr, o.n)) : data'[c] = data[c]
    PROVE  Entry(o)' = Entry(o)
<1> DEFINE cells == CellsOf(o.ptr, o.n)
<1>1. \A i \in DOMAIN cells : data'[cells[i]] = data[cells[i]]
  BY DEF Range
<1>2. [i \in DOMAIN cells |-> data'[cells[i]]] = [i \in DOMAIN cells |-> data[cells[i]]]
  BY <1>1
<1> QED
  BY <1>2 DEF Entry

(* The heap is as it was when nothing changes hands and what is held keeps *)
(* its contents.                                                           *)
LEMMA HeapSame ==
    ASSUME AllocAssumption, AllocInv, AllocInv', own' = own,
           \A o \in Holders : \A c \in Range(CellsOf(o.ptr, o.n)) : data'[c] = data[c]
    PROVE  heap' = heap
<1>1. HeapFits /\ HeapFits'
  BY HeapIs, HeapNext
<1>2. Holders' = Holders
  BY DEF Holders
<1> DEFINE S == {o.ptr : o \in Holders}
<1>3. /\ heap = [b \in S |-> heap[b]] /\ heap' = [b \in S |-> heap'[b]]
  BY <1>1, <1>2 DEF HeapFits
<1>4. ASSUME NEW o \in Holders PROVE heap'[o.ptr] = heap[o.ptr]
  <2>1. heap[o.ptr] = Entry(o)
    BY <1>1 DEF HeapFits
  <2>2. heap'[o.ptr] = Entry(o)'
    BY <1>1, <1>2 DEF HeapFits
  <2>3. Entry(o)' = Entry(o)
    BY EntrySame
  <2> QED
    BY <2>1, <2>2, <2>3
<1>5. \A b \in S : heap'[b] = heap[b]
  BY <1>4
<1> QED
  BY <1>3, <1>5

(* So it is in the steps that write to no memory.                          *)
LEMMA QuietHeap ==
    ASSUME AllocAssumption, AllocInv, AllocInv', own' = own, data' = data
    PROVE  heap' = heap
  BY HeapSame

(* free's memset writes to nothing a client holds.                         *)
LEMMA ClearHeap ==
    ASSUME AllocAssumption, AllocInv, AllocInv', NEW t \in Threads, Clear(t)
    PROVE  heap' = heap
<1> DEFINE j == job[t]
<1>1. /\ At(t, "clear") /\ own' = own
      /\ IF arena[j.ptr[1]].desc # 0 THEN data' = [data EXCEPT ![j.ptr] = Junk]
         ELSE data' = data
  BY DEF Clear
<1>2. CASE arena[j.ptr[1]].desc # 0
  <2>1. j \in JobType /\ j.ptr[2] # 0 /\ Holds(j.ptr, j.n)
    BY <1>1 DEF AllocInv, AllocTypeOK, JobsFit, JobFits
  <2>2. j.ptr \in Pointers /\ j.n \in Nat
    BY <2>1 DEF JobType
  <2>3. j.n = 0
    BY <1>2, <2>1 DEF Holds
  <2>4. JobLand(t) = Land(j.ptr, j.n)
    BY <1>1 DEF At, JobLand
  <2>5. Mine(t, j.ptr, j.n)
    BY <2>1, <2>2, <2>4 DEF Mine, All
  <2>6. j.ptr \in Range(CellsOf(j.ptr, j.n))
    <3>1. CellsOf(j.ptr, j.n) = <<j.ptr>>
      BY <2>3 DEF CellsOf
    <3> QED
      BY <3>1 DEF Range
  <2>7. ASSUME NEW o \in Holders, NEW c \in Range(CellsOf(o.ptr, o.n))
        PROVE  data'[c] = data[c]
    <3>1. c # j.ptr
      BY <2>4, <2>5, <2>6, JobApart
    <3>2. data = [x \in Cells |-> data[x]]
      BY DEF AllocInv, AllocTypeOK
    <3>3. c \in Cells
      BY HoldersApart, MemoryIs
    <3> QED
      BY <1>1, <1>2, <3>1, <3>2, <3>3
  <2> QED
    BY <1>1, <2>7, HeapSame
<1>3. CASE arena[j.ptr[1]].desc = 0
  BY <1>1, <1>3, QuietHeap
<1> QED
  BY <1>2, <1>3

(* Nor does palloc_free_multiple's.                                        *)
LEMMA WipeHeap ==
    ASSUME AllocAssumption, AllocInv, AllocInv', NEW t \in Threads, Wipe(t)
    PROVE  heap' = heap
<1> DEFINE j == job[t]
           gone == Run(j.ptr[1], j.n)
<1>1. /\ At(t, "wipe") /\ own' = own
      /\ data' = [c \in Cells |-> IF c[1] \in gone THEN Junk ELSE data[c]]
  BY DEF Wipe
<1>2. JobLand(t) = gone \X {0}
  BY <1>1 DEF At, JobLand
<1>3. ASSUME NEW o \in Holders, NEW c \in Range(CellsOf(o.ptr, o.n))
      PROVE  data'[c] = data[c]
  <2>1. PICK u \in Threads : o \in own[u] /\ Mine(u, o.ptr, o.n)
    BY HoldersApart
  <2>2. /\ c \in Cells
        /\ IF o.n = 0 THEN Live(c[1]) ELSE <<c[1], 0>> \in Land(o.ptr, o.n)
    BY <2>1, MemoryIs
  <2>3. ASSUME c[1] \in gone PROVE FALSE
    <3>1. <<c[1], 0>> \in JobLand(t)
      BY <1>2, <2>3
    <3>2. <<c[1], 0>> \in All(t)
      BY <3>1 DEF All
    <3>3. ~Live(c[1])
      BY <3>2, HeldPage
    <3>4. <<c[1], 0>> \in Land(o.ptr, o.n) /\ Land(o.ptr, o.n) \in SUBSET All(u)
      BY <2>1, <2>2, <3>3 DEF Mine
    <3>5. CASE u = t
      <4>1. Land(o.ptr, o.n) \cap JobLand(t) = {}
        BY <2>1, <3>5 DEF AllocInv, Apart
      <4> QED
        BY <3>1, <3>4, <4>1
    <3>6. CASE u # t
      <4>1. All(u) \cap All(t) = {}
        BY <3>6 DEF AllocInv, Apart
      <4> QED
        BY <3>2, <3>4, <4>1
    <3> QED
      BY <3>5, <3>6
  <2> HIDE DEF gone
  <2> QED
    BY <1>1, <2>2, <2>3
<1> QED
  BY <1>1, <1>3, HeapSame

(* What all threads hold, when one gives something up or gets something.   *)
LEMMA HoldersAfter ==
    ASSUME AllocAssumption, AllocInv, NEW t \in Threads, NEW old, old \in SUBSET own[t], NEW new,
           own' = [own EXCEPT ![t] = (@ \ old) \cup new]
    PROVE  Holders' = (Holders \ old) \cup new
<1>1. own = [u \in Threads |-> own[u]]
  BY DEF AllocInv, AllocTypeOK
<1>2. own'[t] = (own[t] \ old) \cup new /\ \A u \in Threads \ {t} : own'[u] = own[u]
  BY <1>1
<1>3. \A u \in Threads \ {t} : own[u] \cap old = {}
  BY OneHolder
<1>4. ASSUME NEW o PROVE (o \in Holders') <=> (o \in (Holders \ old) \cup new)
  <2>1. (o \in Holders') <=> (\E u \in Threads : o \in own'[u])
    BY DEF Holders
  <2>2. (o \in Holders) <=> (\E u \in Threads : o \in own[u])
    BY DEF Holders
  <2> QED
    BY <1>2, <1>3, <2>1, <2>2
<1> QED
  BY <1>4

(* free, as the client sees it: the block is gone, the rest is as it was.  *)
LEMMA FreeHeap ==
    ASSUME AllocAssumption, AllocInv, AllocInv', NEW t \in Threads, Free(t)
    PROVE  H!Release
<1>1. PICK o \in own[t] : own' = [own EXCEPT ![t] = @ \ {o}]
  BY DEF Free
<1>2. data' = data
  BY DEF Free, Memory
<1>3. HeapFits /\ HeapFits'
  BY HeapIs, HeapNext
<1>4. o \in Holders
  BY DEF Holders
<1>5. Holders' = Holders \ {o}
  <2>1. own' = [own EXCEPT ![t] = (@ \ {o}) \cup {}]
    BY <1>1
  <2>2. {o} \in SUBSET own[t]
    OBVIOUS
  <2>3. Holders' = (Holders \ {o}) \cup {}
    BY <2>1, <2>2, HoldersAfter
  <2> QED
    BY <2>3
<1>6. DOMAIN heap' = DOMAIN heap \ {o.ptr}
  BY <1>3, <1>4, <1>5 DEF HeapFits
<1>7. ASSUME NEW b \in DOMAIN heap' PROVE heap'[b] = heap[b]
  <2>1. PICK q \in Holders' : b = q.ptr
    BY <1>3 DEF HeapFits
  <2>2. q \in Holders
    BY <1>5
  <2>3. heap'[b] = Entry(q)' /\ heap[b] = Entry(q)
    BY <1>3, <2>1, <2>2 DEF HeapFits
  <2>4. Entry(q)' = Entry(q)
    BY <1>2, EntrySame
  <2> QED
    BY <2>3, <2>4
<1>8. heap' = [b \in DOMAIN heap' |-> heap'[b]]
  BY <1>3 DEF HeapFits
<1>9. heap' = [b \in DOMAIN heap \ {o.ptr} |-> heap[b]]
  BY <1>6, <1>7, <1>8
<1>10. o.ptr \in DOMAIN heap
  BY <1>3, <1>4 DEF HeapFits
<1> QED
  BY <1>9, <1>10 DEF H!Release, H!Restrict, Restrict

(* A client fills what it holds, and nothing else.                         *)
LEMMA WriteHeap ==
    ASSUME AllocAssumption, AllocInv, AllocInv', NEW t \in Threads, Write(t)
    PROVE  H!Write
<1>1. PICK o \in own[t] :
        /\ own' = [own EXCEPT ![t] = (@ \ {o}) \cup {[o EXCEPT !.zero = FALSE]}]
        /\ data' = [c \in Cells |-> IF c \in Range(CellsOf(o.ptr, o.n)) THEN t ELSE data[c]]
  BY DEF Write
<1> DEFINE cells == CellsOf(o.ptr, o.n)
<1>2. PICK w : w = [o EXCEPT !.zero = FALSE]
  OBVIOUS
<1>3. HeapFits /\ HeapFits'
  BY HeapIs, HeapNext
<1>4. o \in Holders
  BY DEF Holders
<1>5. /\ Holders' = (Holders \ {o}) \cup {w}
      /\ o \in OwnType /\ w.ptr = o.ptr /\ w.n = o.n
  <2>1. o \in OwnType
    BY DEF AllocInv, AllocTypeOK
  <2>2. {o} \in SUBSET own[t] /\ own' = [own EXCEPT ![t] = (@ \ {o}) \cup {w}]
    BY <1>1, <1>2
  <2>3. w.ptr = o.ptr /\ w.n = o.n
    BY <1>2, <2>1 DEF OwnType
  <2> QED
    BY <2>1, <2>2, <2>3, HoldersAfter
<1>6. DOMAIN heap' = DOMAIN heap
  BY <1>3, <1>4, <1>5 DEF HeapFits
<1>7. ASSUME NEW b \in DOMAIN heap \ {o.ptr} PROVE heap'[b] = heap[b]
  <2>1. PICK q \in Holders : b = q.ptr
    BY <1>3 DEF HeapFits
  <2>2. q \in Holders' /\ q # o
    BY <1>5, <2>1
  <2>3. heap'[b] = Entry(q)' /\ heap[b] = Entry(q)
    BY <1>3, <2>1, <2>2 DEF HeapFits
  <2>4. Range(CellsOf(q.ptr, q.n)) \cap Range(cells) = {}
    BY <1>4, <2>2, HoldersApart
  <2>5. \A c \in Range(CellsOf(q.ptr, q.n)) : c \in Cells
    BY HoldersApart, MemoryIs
  <2>6. \A c \in Range(CellsOf(q.ptr, q.n)) : data'[c] = data[c]
    BY <1>1, <2>4, <2>5
  <2>7. Entry(q)' = Entry(q)
    BY <2>6, EntrySame
  <2> QED
    BY <2>3, <2>7
<1>8. heap[o.ptr] = Entry(o) /\ heap'[o.ptr] = Entry(w)'
  BY <1>3, <1>4, <1>5 DEF HeapFits
<1>9. heap'[o.ptr].cells = heap[o.ptr].cells
  BY <1>5, <1>8 DEF Entry
<1>10. H!Cardinality(H!Range(heap'[o.ptr].vals)) = 1
  <2>1. heap'[o.ptr].vals = [i \in DOMAIN cells |-> data'[cells[i]]]
    BY <1>5, <1>8 DEF Entry
  <2>2. ASSUME NEW i \in DOMAIN cells PROVE data'[cells[i]] = t
    <3>1. cells[i] \in Range(cells)
      BY DEF Range
    <3>2. PICK u \in Threads : Mine(u, o.ptr, o.n)
      BY <1>4, HoldersApart
    <3>3. \A c \in Range(CellsOf(o.ptr, o.n)) : c \in Cells
      BY <3>2, MemoryIs
    <3> QED
      BY <1>1, <3>1, <3>3
  <2>3. 1 \in DOMAIN cells
    BY <1>5, CellsAre DEF OwnType
  <2> HIDE DEF cells
  <2>4. H!Range(heap'[o.ptr].vals) = {t}
    BY <2>1, <2>2, <2>3 DEF H!Range
  <2>5. H!Cardinality({t}) = Cardinality({t})
    BY DEF H!Cardinality, Cardinality
  <2> QED
    BY <2>4, <2>5, FS_Singleton
<1>11. o.ptr \in DOMAIN heap
  BY <1>3, <1>4 DEF HeapFits
<1>12. H!Same(DOMAIN heap \ {o.ptr})
  BY <1>7 DEF H!Same
<1> QED
  BY <1>6, <1>9, <1>10, <1>11, <1>12, Zenon DEF H!Write

(* The caller's share, as the client sees it: new memory, zeroed or with   *)
(* the contents of the block it replaces.                                  *)
LEMMA ReturnHeap ==
    ASSUME AllocAssumption, AllocInv, AllocInv', NEW t \in Threads, Return(t)
    PROVE  H!Allocate \/ H!Resize
<1> DEFINE j == job[t]
           new == CellsOf(j.ptr, j.n)
           zero == j.op \in {"calloc", "get zero"}
           Old == CellsOf((CHOOSE o \in j.old : TRUE).ptr, (CHOOSE o \in j.old : TRUE).n)
           Val(i) == IF zero THEN Zero
                     ELSE IF \E o \in j.old : i \in DOMAIN CellsOf(o.ptr, o.n)
                     THEN data[Old[i]]
                     ELSE data[new[i]]
<1>1. /\ pc[t] = "return"
      /\ own' = [own EXCEPT ![t] = (@ \ j.old) \cup {[ptr |-> j.ptr, n |-> j.n, zero |-> zero]}]
  BY DEF Return, At
<1>2. data' = [c \in Cells |-> IF c \in Range(new)
                               THEN Val(CHOOSE i \in DOMAIN new : new[i] = c)
                               ELSE data[c]]
  BY Zenon DEF Return
<1>3. /\ j \in JobType /\ j.op \in Asking /\ Holds(j.ptr, j.n)
      /\ j.old # {} => j.op = "realloc" /\ \E o \in own[t] : j.old = {o}
  BY <1>1 DEF AllocInv, AllocTypeOK, JobsFit, JobFits, At
<1>4. j.ptr \in Pointers /\ j.n \in Nat
  BY <1>3 DEF JobType
<1>5. PICK w : w = [ptr |-> j.ptr, n |-> j.n, zero |-> zero]
  OBVIOUS
<1>6. w.ptr = j.ptr /\ w.n = j.n /\ w.zero = zero
  BY <1>5
<1>7. JobLand(t) = Land(j.ptr, j.n)
  BY <1>1 DEF JobLand
<1>8. Mine(t, j.ptr, j.n)
  BY <1>3, <1>4, <1>7 DEF Mine, All
<1>9. Holders' = (Holders \ j.old) \cup {w}
  <2>1. j.old \in SUBSET own[t] /\ own' = [own EXCEPT ![t] = (@ \ j.old) \cup {w}]
    BY <1>1, <1>3, <1>5
  <2> QED
    BY <2>1, HoldersAfter
<1>10. \A c \in Range(new) : c \in Cells
  <2> HIDE DEF j
  <2>1. \A c \in Range(CellsOf(j.ptr, j.n)) : c \in Cells
    BY <1>8, MemoryIs
  <2> QED
    BY <2>1
<1>11. /\ 1 \in DOMAIN new
       /\ \A i \in DOMAIN new : new[i] \in Range(new)
       /\ \A i, k \in DOMAIN new : new[i] = new[k] => i = k
  BY <1>4, CellsAre
<1>12. ASSUME NEW o \in Holders
       PROVE  Range(CellsOf(o.ptr, o.n)) \cap Range(new) = {} /\ o.ptr # j.ptr
  BY <1>7, <1>8, JobApart
<1>13. /\ HeapFits /\ HeapFits'
       /\ DOMAIN heap = {o.ptr : o \in Holders} /\ DOMAIN heap' = {o.ptr : o \in Holders'}
  <2>1. HeapFits /\ HeapFits'
    BY HeapIs, HeapNext
  <2> QED
    BY <2>1 DEF HeapFits
<1>14. ASSUME NEW o \in Holders \ j.old
       PROVE  heap'[o.ptr] = heap[o.ptr]
  <2>1. heap'[o.ptr] = Entry(o)' /\ heap[o.ptr] = Entry(o)
    BY <1>9, <1>13 DEF HeapFits
  <2>2. \A c \in Range(CellsOf(o.ptr, o.n)) : c \in Cells
    BY HoldersApart, MemoryIs
  <2> HIDE DEF Val, new
  <2>3. \A c \in Range(CellsOf(o.ptr, o.n)) : data'[c] = data[c]
    BY <1>2, <1>12, <2>2
  <2>4. Entry(o)' = Entry(o)
    BY <2>3, EntrySame
  <2> QED
    BY <2>1, <2>4
<1>15. ASSUME NEW i \in DOMAIN new PROVE data'[new[i]] = Val(i)
  <2> HIDE DEF Val, new
  <2>1. new[i] \in Range(new) /\ new[i] \in Cells
    BY <1>10, <1>11
  <2>2. (CHOOSE k \in DOMAIN new : new[k] = new[i]) = i
    BY <1>11
  <2> QED
    BY <1>2, <2>1, <2>2
<1>16. /\ j.ptr \in DOMAIN heap'
       /\ heap'[j.ptr].cells = new /\ heap'[j.ptr].zero = zero
       /\ heap'[j.ptr].vals = [i \in DOMAIN new |-> Val(i)]
  <2>1. w \in Holders'
    BY <1>9
  <2>2. heap'[w.ptr] = Entry(w)' /\ w.ptr \in DOMAIN heap'
    BY <1>13, <2>1 DEF HeapFits
  <2>3. /\ heap'[j.ptr].cells = new /\ heap'[j.ptr].zero = zero
        /\ heap'[j.ptr].vals = [i \in DOMAIN new |-> data'[new[i]]]
    <3>1. CellsOf(w.ptr, w.n) = new /\ w.zero = zero /\ w.ptr = j.ptr
      BY <1>6
    <3> HIDE DEF new, zero, j
    <3>2. Entry(w)' = [cells |-> new, zero |-> zero,
                       vals |-> [i \in DOMAIN new |-> data'[new[i]]]]
      BY <3>1 DEF Entry
    <3> QED
      BY <2>2, <3>1, <3>2
  <2> HIDE DEF Val, new
  <2>4. [i \in DOMAIN new |-> data'[new[i]]] = [i \in DOMAIN new |-> Val(i)]
    BY <1>15
  <2> QED
    BY <1>6, <2>2, <2>3, <2>4
<1>17. j.ptr \notin DOMAIN heap
  BY <1>12, <1>13 DEF HeapFits
<1>18. H!Fresh(j.ptr, DOMAIN heap)
  <2>1. ASSUME NEW b \in DOMAIN heap
        PROVE  H!Range(heap'[j.ptr].cells) \cap H!Range(heap[b].cells) = {}
    <3>1. PICK o \in Holders : b = o.ptr
      BY <1>13 DEF HeapFits
    <3>2. heap[b] = Entry(o)
      BY <1>13, <3>1 DEF HeapFits
    <3>3. heap[b].cells = CellsOf(o.ptr, o.n)
      BY <3>2 DEF Entry
    <3>4. H!Range(new) = Range(new)
      BY DEF H!Range, Range
    <3>5. H!Range(CellsOf(o.ptr, o.n)) = Range(CellsOf(o.ptr, o.n))
      BY DEF H!Range, Range
    <3> HIDE DEF new, j
    <3>6. heap'[j.ptr].cells = new
      BY <1>16
    <3>7. H!Range(heap'[j.ptr].cells) = Range(new)
      BY <3>4, <3>6
    <3>8. H!Range(heap[b].cells) = Range(CellsOf(o.ptr, o.n))
      BY <3>3, <3>5
    <3> QED
      BY <1>12, <3>7, <3>8
  <2> QED
    BY <2>1 DEF H!Fresh
<1>19. CASE j.old = {}
  <2>1. DOMAIN heap' = DOMAIN heap \cup {j.ptr}
    <3>1. Holders' = Holders \cup {w}
      BY <1>9, <1>19
    <3>2. w.ptr = j.ptr
      BY <1>6
    <3> HIDE DEF j
    <3> QED
      BY <1>13, <3>1, <3>2
  <2>2. H!Same(DOMAIN heap)
    <3>1. ASSUME NEW b \in DOMAIN heap PROVE heap'[b] = heap[b]
      BY <1>13, <1>14, <1>19 DEF HeapFits
    <3> QED
      BY <3>1 DEF H!Same
  <2>3. ASSUME heap'[j.ptr].zero PROVE H!Range(heap'[j.ptr].vals) = {Zero}
    <3>1. zero
      BY <1>16, <2>3
    <3>2. heap'[j.ptr].vals = [i \in DOMAIN new |-> Zero]
      BY <1>16, <3>1
    <3> QED
      BY <1>11, <3>2 DEF H!Range
  <2> HIDE DEF j
  <2> QED
    BY <1>16, <1>17, <1>18, <2>1, <2>2, <2>3, Zenon DEF H!Allocate
<1>20. CASE j.old # {}
  <2>1. PICK o \in own[t] : j.old = {o}
    BY <1>3, <1>20
  <2>2. o \in Holders /\ o.ptr \in DOMAIN heap /\ heap[o.ptr] = Entry(o)
    <3>1. o \in Holders
      BY DEF Holders
    <3> QED
      BY <1>13, <3>1 DEF HeapFits
  <2>3. DOMAIN heap' = (DOMAIN heap \ {o.ptr}) \cup {j.ptr}
    <3>1. Holders' = (Holders \ {o}) \cup {w}
      BY <1>9, <2>1
    <3>2. w.ptr = j.ptr
      BY <1>6
    <3>3. \A q \in Holders : q.ptr = o.ptr => q = o
      BY <1>13, <2>2 DEF HeapFits
    <3> HIDE DEF j
    <3> QED
      BY <1>13, <2>2, <3>1, <3>2, <3>3
  <2>4. H!Same(DOMAIN heap \ {o.ptr})
    <3>1. ASSUME NEW b \in DOMAIN heap \ {o.ptr} PROVE heap'[b] = heap[b]
      BY <1>13, <1>14, <2>1 DEF HeapFits
    <3> QED
      BY <3>1 DEF H!Same
  <2>5. ASSUME NEW i \in DOMAIN heap[o.ptr].vals \cap DOMAIN heap'[j.ptr].vals
        PROVE  heap'[j.ptr].vals[i] = heap[o.ptr].vals[i]
    <3>1. i \in DOMAIN new /\ heap'[j.ptr].vals[i] = Val(i)
      <4> HIDE DEF Val, new
      <4> QED
        BY <1>16
    <3>2. /\ i \in DOMAIN CellsOf(o.ptr, o.n)
          /\ heap[o.ptr].vals[i] = data[CellsOf(o.ptr, o.n)[i]]
      BY <2>2 DEF Entry
    <3>3. ~zero
      BY <1>3, <1>20
    <3>4. (CHOOSE q \in j.old : TRUE) = o
      BY <2>1
    <3>5. Val(i) = data[CellsOf(o.ptr, o.n)[i]]
      BY <2>1, <3>2, <3>3, <3>4
    <3> QED
      BY <3>1, <3>2, <3>5
  <2> HIDE DEF j
  <2> QED
    BY <1>16, <1>17, <1>18, <2>2, <2>3, <2>4, <2>5, ZenonT(40) DEF H!Resize
<1> QED
  BY <1>19, <1>20

(* A step of the allocators is one of Heap's, or leaves the heap alone.    *)
LEMMA HeapStep ==
    ASSUME AllocAssumption, AllocInv, AllocInv', [Next]_vars
    PROVE  [H!Next]_heap
<1>1. ASSUME own' = own, data' = data PROVE heap' = heap
  BY <1>1, QuietHeap
<1>2. ASSUME NEW t \in Threads, Client(t) PROVE [H!Next]_heap
  <2>1. CASE Malloc(t) \/ Calloc(t) \/ Realloc(t)
    BY <1>1, <2>1 DEF Malloc, Calloc, Realloc, Request, Memory
  <2>2. CASE GetPages(t)
    BY <1>1, <2>2 DEF GetPages, Memory
  <2>3. CASE Free(t)
    BY <2>3, FreeHeap DEF H!Next
  <2>4. CASE Write(t)
    BY <2>4, WriteHeap DEF H!Next
  <2> QED
    BY <1>2, <2>1, <2>2, <2>3, <2>4 DEF Client
<1>3. ASSUME NEW t \in Threads, Inside(t) PROVE [H!Next]_heap
  <2>1. CASE LockDesc(t) \/ UnlockDesc(t) \/ LockPool(t) \/ Scan(t) \/ Mark(t)
    BY <1>1, <2>1 DEF LockDesc, UnlockDesc, LockPool, Scan, Mark, Memory
  <2>2. CASE Pop(t) \/ NoPage(t) \/ GotPages(t) \/ Push(t) \/ Reset(t)
    BY <1>1, <2>2 DEF Pop, NoPage, GotPages, Push, Reset, Memory
  <2>3. CASE Return(t)
    BY <2>3, ReturnHeap DEF H!Next
  <2>4. CASE Clear(t)
    BY <2>4, ClearHeap
  <2>5. CASE Wipe(t)
    BY <2>5, WipeHeap
  <2> QED
    BY <1>3, <2>1, <2>2, <2>3, <2>4, <2>5 DEF Inside
<1>4. CASE UNCHANGED vars
  BY <1>1, <1>4 DEF vars
<1> QED
  BY <1>2, <1>3, <1>4 DEF Next

(* At the start nobody holds anything.                                     *)
LEMMA HeapStart == Init => H!Init
<1> SUFFICES ASSUME Init PROVE heap = << >>
  BY DEF H!Init
<1>1. Holders = {}
  BY DEF Init, Holders
<1>2. {o.ptr : o \in Holders} = {}
  BY <1>1
<1> DEFINE f(b) == LET o == CHOOSE o \in Holders : o.ptr = b
                       cells == CellsOf(b, o.n) IN
                   [cells |-> cells, zero |-> o.zero,
                    vals |-> [i \in DOMAIN cells |-> data[cells[i]]]]
<1>3. heap = [b \in {o.ptr : o \in Holders} |-> f(b)]
  BY DEF heap
<1> HIDE DEF f
<1>4. heap = [b \in {} |-> f(b)]
  BY <1>2, <1>3
<1>5. DOMAIN << >> = {}
  OBVIOUS
<1>6. << >> = [b \in {} |-> f(b)]
  BY <1>5
<1> QED
  BY <1>4, <1>6

(* Two live blocks never share memory, a block keeps what its owner wrote  *)
(* in it, calloc and PAL_ZERO hand out zeroes and realloc carries the      *)
(* contents over, in every order of the threads' steps (the promise of     *)
(* Heap), for any number of threads, pages and sizes.                      *)
THEOREM HeapIsKept == Spec => ImplementsHeap
<1>1. Init => H!Init
  BY HeapStart
<1>2. AllocInv /\ AllocInv' /\ [Next]_vars => [H!Next]_heap
  BY HeapStep, AllocAssumption
<1> QED
  BY <1>1, <1>2, AllocInvariance, PTL DEF Spec, ImplementsHeap, H!Spec

-----------------------------------------------------------------------------
(* The bitmap: its words and its bits.                                     *)

Index == 0..bit_cnt - 1
Bit(b, i) == i % ELEM_BITS \in b[i \div ELEM_BITS]

(* The words are as many as the size asks for, in memory and in the file.  *)
BitmapTypeOK ==
    /\ bit_cnt \in Nat /\ live \in BOOLEAN
    /\ bits \in Words /\ file \in Words
-----------------------------------------------------------------------------
(* A number is its quotient and its remainder: bit_mask and elem_idx.      *)
LEMMA DivMod ==
    ASSUME BitmapAssumption, NEW i \in Nat
    PROVE  /\ i \div ELEM_BITS \in Nat
           /\ i % ELEM_BITS \in 0..ELEM_BITS - 1
           /\ i = ELEM_BITS * (i \div ELEM_BITS) + (i % ELEM_BITS)
BY SMT DEF BitmapAssumption

(* Two bits with the same place in the same word are one.                  *)
LEMMA SameBit ==
    ASSUME BitmapAssumption, NEW i \in Nat, NEW j \in Nat,
           i \div ELEM_BITS = j \div ELEM_BITS, i % ELEM_BITS = j % ELEM_BITS
    PROVE  i = j
BY DivMod

(* A word more is ELEM_BITS bits more.                                     *)
LEMMA Times ==
    ASSUME BitmapAssumption, NEW m \in Nat, NEW n \in Nat, m < n
    PROVE  /\ ELEM_BITS * m \in Nat /\ ELEM_BITS * n \in Nat
           /\ ELEM_BITS * m + ELEM_BITS <= ELEM_BITS * n
<1>1. n = m + 1 + (n - m - 1) /\ n - m - 1 \in Nat
  OBVIOUS
<1>2. ELEM_BITS * n = ELEM_BITS * m + ELEM_BITS + ELEM_BITS * (n - m - 1)
  BY <1>1 DEF BitmapAssumption
<1>3. ELEM_BITS * (n - m - 1) \in Nat /\ ELEM_BITS * m \in Nat
  BY <1>1 DEF BitmapAssumption
<1> QED
  BY <1>2, <1>3 DEF BitmapAssumption

(* The words before word n hold the bits before bit n * ELEM_BITS.         *)
LEMMA WordsBefore ==
    ASSUME BitmapAssumption, NEW i \in Nat, NEW n \in Nat
    PROVE  /\ ELEM_BITS * n \in Nat
           /\ i \div ELEM_BITS < n <=> i < ELEM_BITS * n
<1> DEFINE q == i \div ELEM_BITS
<1>1. q \in Nat /\ i = ELEM_BITS * q + (i % ELEM_BITS) /\ i % ELEM_BITS \in 0..ELEM_BITS - 1
  BY DivMod
<1>2. ELEM_BITS * n \in Nat /\ ELEM_BITS * q \in Nat
  BY <1>1 DEF BitmapAssumption
<1>3. q < n => ELEM_BITS * q + ELEM_BITS <= ELEM_BITS * n
  BY <1>1, Times
<1>4. ~(q < n) => ELEM_BITS * n <= ELEM_BITS * q
  <2> SUFFICES ASSUME ~(q < n) PROVE ELEM_BITS * n <= ELEM_BITS * q
    OBVIOUS
  <2>1. n = q \/ n < q
    BY <1>1
  <2> HIDE DEF q
  <2> QED
    BY <2>1, <1>1, <1>2, Times DEF BitmapAssumption
<1> HIDE DEF q
<1> QED
  BY <1>1, <1>2, <1>3, <1>4 DEF q, BitmapAssumption

(* elem_cnt is the number of words the bits of a bitmap lie in.            *)
LEMMA WordCount ==
    ASSUME BitmapAssumption, bit_cnt \in Nat
    PROVE  /\ elem_cnt \in Nat
           /\ \A i \in Index : i \div ELEM_BITS \in 0..elem_cnt - 1
           /\ \A n \in 0..elem_cnt - 1 : ELEM_BITS * n \in Index
<1> DEFINE up == bit_cnt + ELEM_BITS - 1
<1>1. up \in Nat /\ elem_cnt = up \div ELEM_BITS
  BY DEF BitmapAssumption, elem_cnt
<1>2. elem_cnt \in Nat
  BY <1>1, DivMod
<1>3. ASSUME NEW i \in Index PROVE i \div ELEM_BITS \in 0..elem_cnt - 1
  <2>1. i \in Nat /\ i \div ELEM_BITS \in Nat
    BY DivMod DEF Index
  <2>2. i < ELEM_BITS * elem_cnt
    <3>1. up = ELEM_BITS * elem_cnt + (up % ELEM_BITS) /\ up % ELEM_BITS \in 0..ELEM_BITS - 1
      BY <1>1, DivMod
    <3>2. ELEM_BITS * elem_cnt \in Nat
      BY <1>2 DEF BitmapAssumption
    <3> QED
      BY <3>1, <3>2 DEF BitmapAssumption, Index
  <2>3. i \div ELEM_BITS < elem_cnt
    BY <2>1, <2>2, <1>2, WordsBefore
  <2> QED
    BY <2>1, <2>3, <1>2
<1>4. ASSUME NEW n \in 0..elem_cnt - 1 PROVE ELEM_BITS * n \in Index
  <2>1. n \in Nat /\ n < elem_cnt
    BY <1>2
  <2>2. ELEM_BITS * n + ELEM_BITS <= ELEM_BITS * elem_cnt /\ ELEM_BITS * n \in Nat
    BY <2>1, <1>2, Times
  <2>3. ELEM_BITS * elem_cnt <= up
    <3>1. up = ELEM_BITS * elem_cnt + (up % ELEM_BITS) /\ up % ELEM_BITS \in Nat
      BY <1>1, DivMod
    <3>2. ELEM_BITS * elem_cnt \in Nat
      BY <1>2 DEF BitmapAssumption
    <3> QED
      BY <3>1, <3>2, <1>1
  <2>4. ELEM_BITS * elem_cnt \in Nat
    BY <1>2 DEF BitmapAssumption
  <2> QED
    BY <2>2, <2>3, <2>4 DEF BitmapAssumption, Index
<1> QED
  BY <1>2, <1>3, <1>4

(* last_mask covers the bits of the last word that are in use.             *)
LEMMA LastWord ==
    ASSUME BitmapAssumption, bit_cnt \in Nat,
           NEW i \in Index, i \div ELEM_BITS = elem_cnt - 1
    PROVE  i % ELEM_BITS \in last_mask
<1> DEFINE q == bit_cnt \div ELEM_BITS
           r == bit_cnt % ELEM_BITS
<1>1. i \in Nat /\ i < bit_cnt
  BY DEF Index
<1>2. i % ELEM_BITS \in 0..ELEM_BITS - 1 /\ i = ELEM_BITS * (i \div ELEM_BITS) + (i % ELEM_BITS)
  BY <1>1, DivMod
<1>3. CASE r = 0
  BY <1>2, <1>3 DEF last_mask
<1>4. CASE r # 0
  <2>1. q \in Nat /\ r \in 0..ELEM_BITS - 1 /\ bit_cnt = ELEM_BITS * q + r
    BY DivMod
  <2>2. elem_cnt \in Nat /\ ELEM_BITS * q \in Nat
    BY <2>1, WordCount DEF BitmapAssumption
  <2>3. ELEM_BITS * q \in Index
    BY <2>1, <2>2, <1>4 DEF Index
  <2>4. (ELEM_BITS * q) \div ELEM_BITS = q
    <3>1. ~((ELEM_BITS * q) \div ELEM_BITS < q)
      BY <2>1, <2>2, WordsBefore
    <3>2. ELEM_BITS * q < ELEM_BITS * (q + 1)
      BY <2>1, Times, <2>2, q < q + 1, q + 1 \in Nat DEF BitmapAssumption
    <3>3. (ELEM_BITS * q) \div ELEM_BITS < q + 1
      BY <3>2, <2>1, <2>2, WordsBefore
    <3>4. (ELEM_BITS * q) \div ELEM_BITS \in Nat
      BY <2>2, DivMod
    <3> HIDE DEF q
    <3> QED
      BY <3>1, <3>3, <3>4, <2>1
  <2>5. q <= elem_cnt - 1
    BY <2>3, <2>4, <2>1, <2>2, WordCount
  <2>6. i \div ELEM_BITS \in Nat /\ (i \div ELEM_BITS < q + 1)
    <3>1. bit_cnt < ELEM_BITS * (q + 1)
      BY <2>1, <2>2 DEF BitmapAssumption
    <3>2. i < ELEM_BITS * (q + 1)
      BY <3>1, <1>1, <2>1 DEF BitmapAssumption
    <3> QED
      BY <3>2, <1>1, <2>1, WordsBefore, DivMod
  <2>7. i \div ELEM_BITS = q
    BY <2>5, <2>6, <2>1, <2>2
  <2> HIDE DEF q, r
  <2>8. i % ELEM_BITS < r
    BY <2>7, <1>1, <1>2, <2>1, <2>2 DEF BitmapAssumption
  <2> QED
    BY <2>8, <1>2, <1>4, <2>1 DEF last_mask, r, BitmapAssumption
<1> QED
  BY <1>3, <1>4
-----------------------------------------------------------------------------
(* SetOf is the set of the bits that are 1; it looks at no unused bit.     *)
LEMMA SetOfBits ==
    ASSUME NEW b
    PROVE  SetOf(b) = {i \in Index : Bit(b, i)}
<1>1. \A i : Test(b, i) <=> Bit(b, i)
  BY DEF Test, Bit, elem_idx, bit_mask
<1> QED
  BY <1>1 DEF SetOf, Index

(* A word of a bitmap that a bit of the bitmap lies in.                    *)
LEMMA Lies ==
    ASSUME BitmapAssumption, bit_cnt \in Nat, NEW b \in Words, NEW i \in Index
    PROVE  /\ i \in Nat /\ i \div ELEM_BITS \in DOMAIN b
           /\ i % ELEM_BITS \in 0..ELEM_BITS - 1
<1>1. DOMAIN b = 0..elem_cnt - 1
  BY DEF Words
<1>2. i \in Nat
  BY DEF Index
<1> QED
  BY <1>1, <1>2, WordCount, DivMod

(* bitmap_mark, bitmap_reset and bitmap_flip change the bit they name.     *)
LEMMA SetBit ==
    ASSUME BitmapAssumption, bit_cnt \in Nat, NEW b \in Words, NEW i \in Index
    PROVE  /\ Marked(b, i) \in Words /\ SetOf(Marked(b, i)) = SetOf(b) \cup {i}
           /\ Cleared(b, i) \in Words /\ SetOf(Cleared(b, i)) = SetOf(b) \ {i}
           /\ Toggled(b, i) \in Words
           /\ SetOf(Toggled(b, i)) = IF i \in SetOf(b) THEN SetOf(b) \ {i} ELSE SetOf(b) \cup {i}
<1> DEFINE q == i \div ELEM_BITS
           r == i % ELEM_BITS
<1>1. q \in DOMAIN b /\ r \in 0..ELEM_BITS - 1 /\ i \in Nat
  BY Lies
<1>2. ASSUME NEW j \in Index
      PROVE  /\ j \div ELEM_BITS \in DOMAIN b
             /\ j = i <=> j \div ELEM_BITS = q /\ j % ELEM_BITS = r
  BY Lies, SameBit, <1>1
<1>3. Marked(b, i) = [b EXCEPT ![q] = b[q] \cup {r}]
  BY DEF Marked, elem_idx, bit_mask
<1>4. Cleared(b, i) = [b EXCEPT ![q] = b[q] \ {r}]
  BY DEF Cleared, elem_idx, bit_mask
<1>5. Toggled(b, i) = [b EXCEPT ![q] = (b[q] \ {r}) \cup ({r} \ b[q])]
  BY DEF Toggled, elem_idx, bit_mask
<1>6. b \in [0..elem_cnt - 1 -> SUBSET (0..ELEM_BITS - 1)]
  BY DEF Words
<1> HIDE DEF q, r
<1>7. Marked(b, i) \in Words /\ Cleared(b, i) \in Words /\ Toggled(b, i) \in Words
  <2>1. \A w \in SUBSET (0..ELEM_BITS - 1) : [b EXCEPT ![q] = w] \in Words
    BY <1>6 DEF Words
  <2>2. b[q] \in SUBSET (0..ELEM_BITS - 1)
    BY <1>1, <1>6
  <2> QED
    BY <2>1, <2>2, <1>1, <1>3, <1>4, <1>5
<1>8. ASSUME NEW j \in Index
      PROVE  /\ Bit(Marked(b, i), j) <=> Bit(b, j) \/ j = i
             /\ Bit(Cleared(b, i), j) <=> Bit(b, j) /\ j # i
             /\ Bit(Toggled(b, i), j) <=> IF j = i THEN ~Bit(b, j) ELSE Bit(b, j)
  BY <1>1, <1>2, <1>3, <1>4, <1>5 DEF Bit
<1>9. i \in SetOf(b) <=> Bit(b, i)
  BY SetOfBits
<1> QED
  BY <1>7, <1>8, <1>9, SetOfBits

(* bitmap_set_multiple assigns the bits of its range.                      *)
LEMMA ManyBits ==
    ASSUME BitmapAssumption, bit_cnt \in Nat, NEW b \in Words,
           NEW is \in SUBSET Index, NEW value \in BOOLEAN
    PROVE  /\ Assigned(b, is, value) \in Words
           /\ SetOf(Assigned(b, is, value)) = IF value THEN SetOf(b) \cup is ELSE SetOf(b) \ is
<1> DEFINE mask(w) == {i % ELEM_BITS : i \in {j \in is : j \div ELEM_BITS = w}}
<1>1. Assigned(b, is, value) =
        [w \in DOMAIN b |-> IF value THEN b[w] \cup mask(w) ELSE b[w] \ mask(w)]
  <2>1. \A w : UNION {bit_mask(i) : i \in {j \in is : elem_idx(j) = w}} = mask(w)
    BY DEF bit_mask, elem_idx
  <2> QED
    BY <2>1 DEF Assigned
<1>2. b \in [0..elem_cnt - 1 -> SUBSET (0..ELEM_BITS - 1)]
  BY DEF Words
<1>3. \A w : mask(w) \subseteq 0..ELEM_BITS - 1
  BY Lies
<1>4. ASSUME NEW j \in Index
      PROVE  j % ELEM_BITS \in mask(j \div ELEM_BITS) <=> j \in is
  <2>1. ASSUME NEW i \in is, i \div ELEM_BITS = j \div ELEM_BITS, i % ELEM_BITS = j % ELEM_BITS
        PROVE  i = j
    BY <2>1, Lies, SameBit
  <2> QED
    BY <2>1
<1> HIDE DEF mask
<1>5. Assigned(b, is, value) \in Words
  BY <1>1, <1>2, <1>3 DEF Words
<1>6. ASSUME NEW j \in Index
      PROVE  Bit(Assigned(b, is, value), j) <=> IF value THEN Bit(b, j) \/ j \in is
                                                         ELSE Bit(b, j) /\ j \notin is
  <2>1. j \div ELEM_BITS \in DOMAIN b
    BY Lies
  <2> QED
    BY <2>1, <1>1, <1>4 DEF Bit
<1> QED
  BY <1>5, <1>6, SetOfBits

(* A transfer of n words moves the bits before n * ELEM_BITS.              *)
LEMMA SomeWords ==
    ASSUME BitmapAssumption, bit_cnt \in Nat, NEW new \in Words, NEW old \in Words,
           NEW n \in 0..elem_cnt - 1
    PROVE  /\ Mixed(new, old, n) \in Words
           /\ ELEM_BITS * n \in Index
           /\ SetOf(Mixed(new, old, n)) = AsSet!Mixed(SetOf(new), SetOf(old), ELEM_BITS * n)
<1>1. Mixed(new, old, n) \in Words
  BY DEF Mixed, Words
<1>2. ELEM_BITS * n \in Index /\ n \in Nat
  BY WordCount
<1>3. ASSUME NEW i \in Index
      PROVE  Bit(Mixed(new, old, n), i) <=> IF i < ELEM_BITS * n THEN Bit(new, i) ELSE Bit(old, i)
  <2>1. i \div ELEM_BITS \in DOMAIN old /\ i \in Nat
    BY Lies
  <2>2. i \div ELEM_BITS < n <=> i < ELEM_BITS * n
    BY <2>1, <1>2, WordsBefore
  <2> QED
    BY <2>1, <2>2 DEF Mixed, Bit
<1>4. SetOf(Mixed(new, old, n)) =
        {i \in Index : IF i < ELEM_BITS * n THEN i \in SetOf(new) ELSE i \in SetOf(old)}
  BY <1>3, SetOfBits
<1> QED
  BY <1>1, <1>2, <1>4 DEF AsSet!Mixed, AsSet!Index, Index

(* bitmap_read clears the unused bits of the last word and no other.       *)
LEMMA MaskedWord ==
    ASSUME BitmapAssumption, bit_cnt \in Nat, bit_cnt # 0, NEW b \in Words
    PROVE  Masked(b) \in Words /\ SetOf(Masked(b)) = SetOf(b)
<1>1. b \in [0..elem_cnt - 1 -> SUBSET (0..ELEM_BITS - 1)] /\ elem_cnt \in Nat
  BY WordCount DEF Words
<1>2. Masked(b) = [b EXCEPT ![elem_cnt - 1] = b[elem_cnt - 1] \cap last_mask]
  BY DEF Masked
<1>3. elem_cnt - 1 \in DOMAIN b
  <2>1. 0 \in Index
    BY DEF Index
  <2> QED
    BY <2>1, <1>1, WordCount
<1>4. Masked(b) \in Words
  <2>1. b[elem_cnt - 1] \cap last_mask \in SUBSET (0..ELEM_BITS - 1)
    BY <1>1, <1>3
  <2> QED
    BY <1>1, <1>2, <2>1 DEF Words
<1>5. ASSUME NEW i \in Index PROVE Bit(Masked(b), i) <=> Bit(b, i)
  <2>1. i \div ELEM_BITS \in DOMAIN b
    BY Lies
  <2>2. i \div ELEM_BITS = elem_cnt - 1 => i % ELEM_BITS \in last_mask
    BY LastWord
  <2> QED
    BY <1>2, <2>1, <2>2 DEF Bit
<1> QED
  BY <1>4, <1>5, SetOfBits
-----------------------------------------------------------------------------
(* The bits a call names are those Bits names.                             *)
LEMMA RangeIsIndexed ==
    ASSUME NEW start, NEW cnt
    PROVE  /\ Group(start, cnt) \in SUBSET Index
           /\ Group(start, cnt) = AsSet!Group(start, cnt)
BY DEF Group, Index, AsSet!Group, AsSet!Index

(* Before bitmap_create there are as many words as the size asks for.      *)
LEMMA BitmapInitTypeOK == ASSUME BitmapAssumption, BitmapInit PROVE BitmapTypeOK
BY DEF BitmapInit, BitmapTypeOK, BitmapAssumption

(* No function changes the number of words.                                *)
LEMMA BitmapNextTypeOK ==
    ASSUME BitmapAssumption, BitmapTypeOK, [BitmapNext]_bitmapVars
    PROVE  BitmapTypeOK' /\ UNCHANGED bit_cnt
<1>1. bit_cnt' = bit_cnt
  BY DEF bitmapVars, BitmapNext, Create, BitmapWrite, BitmapRead, BitmapDestroy, BitmapSet,
         BitmapFlip, BitmapSetMultiple, BitmapCount, BitmapContains, BitmapScan, BitmapScanAndFlip
<1>2. Words' = Words
  BY <1>1 DEF Words, elem_cnt
<1>3. bit_cnt \in Nat /\ bits \in Words /\ file \in Words /\ live \in BOOLEAN
  BY DEF BitmapTypeOK
<1> SUFFICES bits' \in Words /\ file' \in Words /\ live' \in BOOLEAN
  BY <1>1, <1>2, <1>3 DEF BitmapTypeOK
<1>4. CASE UNCHANGED bitmapVars
  BY <1>3, <1>4 DEF bitmapVars
<1>5. CASE Create
  <2>1. \A b \in Words : Assigned(b, Group(0, bit_cnt), FALSE) \in Words
    BY <1>3, ManyBits, RangeIsIndexed
  <2> QED
    BY <1>3, <1>5, <2>1 DEF Create
<1>6. CASE BitmapWrite
  BY <1>3, <1>6, SomeWords DEF BitmapWrite
<1>7. CASE BitmapRead
  BY <1>3, <1>7, SomeWords, MaskedWord DEF BitmapRead
<1>8. CASE BitmapDestroy
  BY <1>3, <1>8 DEF BitmapDestroy
<1>9. ASSUME NEW i \in 0..bit_cnt, NEW value \in BOOLEAN,
             BitmapSet(i, value) \/ BitmapFlip(i)
      PROVE  bits' \in Words /\ file' \in Words /\ live' \in BOOLEAN
  <2>1. i \in Index
    BY <1>3, <1>9 DEF BitmapSet, BitmapFlip, Index
  <2> QED
    BY <1>3, <1>9, <2>1, SetBit DEF BitmapSet, BitmapFlip
<1>10. ASSUME NEW start \in 0..bit_cnt, NEW cnt \in 0..bit_cnt + 1, NEW value \in BOOLEAN,
              \/ BitmapSetMultiple(start, cnt, value)
              \/ BitmapCount(start, cnt, value) \/ BitmapContains(start, cnt, value)
              \/ BitmapScan(start, cnt, value) \/ BitmapScanAndFlip(start, cnt, value)
       PROVE  bits' \in Words /\ file' \in Words /\ live' \in BOOLEAN
  <2>1. CASE BitmapSetMultiple(start, cnt, value)
    BY <1>3, <2>1, ManyBits, RangeIsIndexed DEF BitmapSetMultiple
  <2>2. CASE BitmapScanAndFlip(start, cnt, value)
    BY <1>3, <2>2, ManyBits, RangeIsIndexed DEF BitmapScanAndFlip
  <2> QED
    BY <1>3, <1>10, <2>1, <2>2 DEF BitmapCount, BitmapContains, BitmapScan
<1> QED
  BY <1>4, <1>5, <1>6, <1>7, <1>8, <1>9, <1>10 DEF BitmapNext

(* A group of bits has one of a value if bitmap_contains finds one.        *)
LEMMA FoundInSet ==
    ASSUME BitmapTypeOK, live, NEW start, NEW cnt, NEW value \in BOOLEAN
    PROVE  /\ {i \in Group(start, cnt) : Test(bits, i) = value}
                = AsSet!Group(start, cnt) \cap AsSet!Having(value)
           /\ Found(start, cnt, value) = (AsSet!Group(start, cnt) \cap AsSet!Having(value) # {})
<1>1. AsSet!Having(value) = {i \in Index : Test(bits, i) = value}
  <2>1. \A i : Test(bits, i) \in BOOLEAN
    BY DEF Test
  <2>2. CASE value = TRUE
    BY <2>1, <2>2 DEF AsSet!Having, SetOf, Index, BitmapTypeOK
  <2>3. CASE value = FALSE
    BY <2>1, <2>3 DEF AsSet!Having, AsSet!Index, SetOf, Index, BitmapTypeOK
  <2> QED
    BY <2>2, <2>3
<1>2. {i \in Group(start, cnt) : Test(bits, i) = value}
         = AsSet!Group(start, cnt) \cap AsSet!Having(value)
  BY <1>1, RangeIsIndexed
<1>3. Found(start, cnt, value) <=> {i \in Group(start, cnt) : Test(bits, i) = value} # {}
  BY DEF Found
<1>4. Found(start, cnt, value) \in BOOLEAN
  BY DEF Found
<1> QED
  BY <1>2, <1>3, <1>4

(* bitmap_scan finds the group Bits finds.                                 *)
LEMMA ScanFindsFirst ==
    ASSUME BitmapTypeOK, live, NEW start \in 0..bit_cnt, NEW cnt \in 0..bit_cnt + 1,
           NEW value \in BOOLEAN
    PROVE  /\ ScanResult(start, cnt, value) = AsSet!FirstGroup(start, cnt, value)
           /\ bit_cnt \in Nat
<1>1. bit_cnt \in Nat /\ cnt \in Nat /\ start \in Nat
  BY DEF BitmapTypeOK
<1>2. (~value) \in BOOLEAN
  OBVIOUS
<1>3. ASSUME NEW i
      PROVE  ~Found(i, cnt, ~value) <=> AsSet!Group(i, cnt) \subseteq AsSet!Having(value)
  <2>1. Found(i, cnt, ~value) <=> AsSet!Group(i, cnt) \cap AsSet!Having(~value) # {}
    BY <1>2, FoundInSet
  <2>2. AsSet!Group(i, cnt) \subseteq AsSet!Index
    BY DEF AsSet!Group
  <2>3. \A j \in AsSet!Index : j \in AsSet!Having(~value) <=> j \notin AsSet!Having(value)
    <3>1. SetOf(bits) \subseteq AsSet!Index
      BY DEF SetOf, AsSet!Index
    <3>2. CASE value = TRUE
      BY <3>1, <3>2 DEF AsSet!Having
    <3>3. CASE value = FALSE
      BY <3>1, <3>3 DEF AsSet!Having
    <3> QED
      BY <3>2, <3>3
  <2> QED
    BY <2>1, <2>2, <2>3
<1>4. Places(start, cnt, value) = AsSet!Groups(start, cnt, value)
  <2>1. CASE cnt > bit_cnt
    <3>1. Places(start, cnt, value) = {}
      BY <2>1 DEF Places
    <3>2. \A i \in start..bit_cnt : ~(i + cnt <= bit_cnt)
      BY <2>1, <1>1
    <3> QED
      BY <3>1, <3>2 DEF AsSet!Groups
  <2>2. CASE ~(cnt > bit_cnt)
    <3>1. Places(start, cnt, value) = {i \in start..bit_cnt - cnt : ~Found(i, cnt, ~value)}
      BY <2>2 DEF Places, LastPlace
    <3>2. \A i : i \in start..bit_cnt - cnt <=> i \in start..bit_cnt /\ i + cnt <= bit_cnt
      BY <1>1, <2>2
    <3> QED
      BY <1>3, <3>1, <3>2 DEF AsSet!Groups
  <2> QED
    BY <2>1, <2>2
<1> QED
  BY <1>1, <1>4 DEF ScanResult, AsSet!FirstGroup
-----------------------------------------------------------------------------
(* Every function of bitmap.c does to the words what Bits says of the set. *)
LEMMA StepImplements ==
    ASSUME BitmapAssumption, BitmapTypeOK, [BitmapNext]_bitmapVars
    PROVE  [AsSet!Next]_(AsSet!vars)
<1>1. bit_cnt \in Nat /\ bits \in Words /\ file \in Words /\ live \in BOOLEAN
  BY DEF BitmapTypeOK
<1>2. bit_cnt' = bit_cnt
  BY BitmapNextTypeOK
<1>3. \A b : SetOf(b) \in SUBSET Index
  BY DEF SetOf, Index
<1> DEFINE on == IF live THEN SetOf(bits) ELSE {}
           onN == IF live' THEN SetOf(bits') ELSE {}
           storedN == SetOf(file')
<1>4. (IF live THEN SetOf(bits) ELSE {})' = onN /\ SetOf(file)' = storedN
  BY <1>2 DEF SetOf
<1>5. CASE UNCHANGED bitmapVars
  BY <1>5 DEF bitmapVars, AsSet!vars, SetOf
<1>6. CASE Create
  <2>1. UNCHANGED <<bit_cnt, file>> /\ ~live
    BY <1>6 DEF Create
  <2>2. /\ live' \in BOOLEAN /\ call' = <<"create", live'>>
        /\ onN = {}
    <3>1. ASSUME NEW b \in Words, bits' = Assigned(b, Group(0, bit_cnt), FALSE)
          PROVE  SetOf(bits') = {}
      <4>1. SetOf(bits') = SetOf(b) \ Group(0, bit_cnt)
        BY <3>1, <1>1, ManyBits, RangeIsIndexed
      <4>2. Group(0, bit_cnt) = Index
        BY <1>1 DEF Group, Index
      <4> QED
        BY <4>1, <4>2, <1>3
    <3>2. CASE live' = TRUE /\ call' = <<"create", TRUE>>
                /\ \E b \in Words : bits' = Assigned(b, Group(0, bit_cnt), FALSE)
      BY <3>1, <3>2
    <3>3. CASE call' = <<"create", FALSE>> /\ UNCHANGED <<bits, live>>
      <4>1. live' = FALSE
        BY <3>3, <2>1, <1>1
      <4> QED
        BY <4>1, <3>3
    <3> QED
      BY <1>6, <3>2, <3>3 DEF Create
  <2>3. AsSet!Create
    BY <2>1, <2>2, <1>4 DEF AsSet!Create
  <2> QED
    BY <2>3 DEF AsSet!Next
<1>7. CASE BitmapWrite
  <2>1. live /\ UNCHANGED <<bit_cnt, bits, live>> /\ onN = on
    BY <1>7 DEF BitmapWrite
  <2>2. \/ storedN = on /\ call' = <<"write", TRUE>>
        \/ \E n \in Index : storedN = AsSet!Mixed(on, SetOf(file), n) /\ call' = <<"write", FALSE>>
    <3>1. CASE file' = bits /\ call' = <<"write", TRUE>>
      BY <3>1, <2>1
    <3>2. CASE \E n \in 0..elem_cnt - 1 :
                  file' = Mixed(bits, file, n) /\ call' = <<"write", FALSE>>
      <4>1. PICK n \in 0..elem_cnt - 1 : file' = Mixed(bits, file, n)
        BY <3>2
      <4>2. /\ ELEM_BITS * n \in Index
            /\ SetOf(file') = AsSet!Mixed(SetOf(bits), SetOf(file), ELEM_BITS * n)
        BY <4>1, <1>1, SomeWords
      <4> QED
        BY <4>2, <3>2, <2>1
    <3> QED
      BY <3>1, <3>2, <1>7 DEF BitmapWrite
  <2>3. AsSet!Write
    BY <2>1, <2>2, <1>4 DEF AsSet!Write, AsSet!Index, Index
  <2> QED
    BY <2>3 DEF AsSet!Next
<1>8. CASE BitmapRead
  <2>1. live /\ UNCHANGED <<bit_cnt, live, file>>
    BY <1>8 DEF BitmapRead
  <2>2. \/ onN = SetOf(file) /\ call' = <<"read", TRUE>>
        \/ \E n \in Index : onN = AsSet!Mixed(SetOf(file), on, n) /\ call' = <<"read", FALSE>>
    <3>1. CASE bit_cnt = 0
      <4>1. Index = {}
        BY <3>1 DEF Index
      <4>2. onN = {} /\ SetOf(file) = {}
        BY <4>1, <1>3
      <4> QED
        BY <4>2, <1>8, <3>1 DEF BitmapRead
    <3>2. CASE bit_cnt # 0
      <4>1. CASE bits' = Masked(file) /\ call' = <<"read", TRUE>>
        BY <4>1, <3>2, <1>1, <2>1, MaskedWord
      <4>2. CASE \E n \in 0..elem_cnt - 1 :
                    bits' = Masked(Mixed(file, bits, n)) /\ call' = <<"read", FALSE>>
        <5>1. PICK n \in 0..elem_cnt - 1 : bits' = Masked(Mixed(file, bits, n))
          BY <4>2
        <5>2. /\ ELEM_BITS * n \in Index
              /\ SetOf(bits') = AsSet!Mixed(SetOf(file), SetOf(bits), ELEM_BITS * n)
          BY <5>1, <3>2, <1>1, MaskedWord, SomeWords
        <5> QED
          BY <5>2, <4>2, <2>1
      <4> QED
        BY <4>1, <4>2, <1>8, <3>2 DEF BitmapRead
    <3> QED
      BY <3>1, <3>2
  <2>3. AsSet!Read
    BY <2>1, <2>2, <1>4 DEF AsSet!Read, AsSet!Index, Index
  <2> QED
    BY <2>3 DEF AsSet!Next
<1>9. CASE BitmapDestroy
  <2>1. AsSet!Destroy
    BY <1>9, <1>4 DEF BitmapDestroy, AsSet!Destroy
  <2> QED
    BY <2>1 DEF AsSet!Next
<1>10. ASSUME NEW i \in 0..bit_cnt, NEW value \in BOOLEAN, BitmapSet(i, value)
       PROVE  AsSet!Next
  <2>1. live /\ i \in Index /\ UNCHANGED <<bit_cnt, live, file>>
    BY <1>1, <1>10 DEF BitmapSet, Index
  <2>2. AsSet!Group(i, 1) = {i}
    BY <2>1, <1>1 DEF AsSet!Group, AsSet!Index, Index
  <2>3. onN = IF value THEN on \cup {i} ELSE on \ {i}
    <3>1. bits' = IF value THEN Marked(bits, i) ELSE Cleared(bits, i)
      BY <1>10 DEF BitmapSet
    <3>2. /\ SetOf(Marked(bits, i)) = SetOf(bits) \cup {i}
          /\ SetOf(Cleared(bits, i)) = SetOf(bits) \ {i}
      BY <1>1, <2>1, SetBit
    <3> QED
      BY <3>1, <3>2, <2>1
  <2>4. AsSet!Set(i, 1, value)
    BY <2>1, <2>2, <2>3, <1>4, <1>10 DEF BitmapSet, AsSet!Set, AsSet!Turn
  <2>5. 1 \in 0..bit_cnt + 1
    BY <1>1
  <2> QED
    BY <2>4, <2>5 DEF AsSet!Next
<1>11. ASSUME NEW i \in 0..bit_cnt, BitmapFlip(i)
       PROVE  AsSet!Next
  <2>1. live /\ i \in Index /\ UNCHANGED <<bit_cnt, live, file>>
    BY <1>1, <1>11 DEF BitmapFlip, Index
  <2>2. onN = IF i \in on THEN on \ {i} ELSE on \cup {i}
    BY <1>1, <1>11, <2>1, SetBit DEF BitmapFlip
  <2>3. AsSet!Flip(i)
    BY <2>1, <2>2, <1>4, <1>11 DEF BitmapFlip, AsSet!Flip, AsSet!Turn
  <2>4. i \in AsSet!Index
    BY <2>1 DEF Index, AsSet!Index
  <2> QED
    BY <2>3, <2>4 DEF AsSet!Next
<1>12. ASSUME NEW start \in 0..bit_cnt, NEW cnt \in 0..bit_cnt + 1, NEW value \in BOOLEAN,
              \/ BitmapSetMultiple(start, cnt, value)
              \/ BitmapCount(start, cnt, value) \/ BitmapContains(start, cnt, value)
              \/ BitmapScan(start, cnt, value) \/ BitmapScanAndFlip(start, cnt, value)
       PROVE  AsSet!Next
  <2>1. live /\ UNCHANGED <<bit_cnt, live, file>>
    BY <1>12 DEF BitmapSetMultiple, BitmapCount, BitmapContains, BitmapScan, BitmapScanAndFlip
  <2>2. ASSUME NEW at, NEW on1 \in BOOLEAN, bits' = Assigned(bits, Group(at, cnt), on1)
        PROVE  AsSet!Turn(AsSet!Group(at, cnt), on1)
    <3>1. SetOf(bits') = IF on1 THEN SetOf(bits) \cup Group(at, cnt)
                         ELSE SetOf(bits) \ Group(at, cnt)
      BY <2>2, <1>1, ManyBits, RangeIsIndexed
    <3> QED
      BY <3>1, <2>1, <1>4, RangeIsIndexed DEF AsSet!Turn
  <2>3. CASE BitmapSetMultiple(start, cnt, value)
    <3>1. AsSet!Set(start, cnt, value)
      BY <2>1, <2>2, <2>3, <1>4 DEF BitmapSetMultiple, AsSet!Set
    <3> QED
      BY <3>1 DEF AsSet!Next
  <2>4. CASE BitmapCount(start, cnt, value)
    <3>1. AsSet!Count(start, cnt, value)
      <4>1. {i \in Group(start, cnt) : Test(bits, i) = value}
              = AsSet!Group(start, cnt) \cap AsSet!Having(value)
        BY <2>1, FoundInSet
      <4>2. Cardinality({i \in Group(start, cnt) : Test(bits, i) = value})
              = AsSet!Cardinality(AsSet!Group(start, cnt) \cap AsSet!Having(value))
        BY <4>1 DEF Cardinality, AsSet!Cardinality
      <4> QED
        BY <2>1, <2>4, <1>4, <4>2 DEF BitmapCount, AsSet!Count
    <3> QED
      BY <3>1 DEF AsSet!Next
  <2>5. CASE BitmapContains(start, cnt, value)
    <3>1. AsSet!Contains(start, cnt, value)
      BY <2>1, <2>5, <1>4, FoundInSet DEF BitmapContains, AsSet!Contains
    <3> QED
      BY <3>1 DEF AsSet!Next
  <2>6. CASE BitmapScan(start, cnt, value)
    <3>1. AsSet!Scan(start, cnt, value, FALSE)
      BY <2>1, <2>6, <1>4, ScanFindsFirst DEF BitmapScan, AsSet!Scan, AsSet!Answers
    <3> QED
      BY <3>1 DEF AsSet!Next
  <2>7. CASE BitmapScanAndFlip(start, cnt, value)
    <3> DEFINE idx == AsSet!FirstGroup(start, cnt, value)
    <3>1. ScanResult(start, cnt, value) = idx
      BY <2>1, ScanFindsFirst
    <3>2. /\ call' = <<"scan", start, cnt, value, TRUE, idx>>
          /\ bits' = IF idx # None THEN Assigned(bits, Group(idx, cnt), ~value) ELSE bits
      BY <2>7, <3>1 DEF BitmapScanAndFlip
    <3>3. idx \in AsSet!Answers(start, cnt, value, TRUE)
      BY DEF AsSet!Answers
    <3>4. AsSet!Scan(start, cnt, value, TRUE)
      <4>1. CASE idx # None
        <5>1. (~value) \in BOOLEAN
          OBVIOUS
        <5>2. AsSet!Turn(AsSet!Group(idx, cnt), ~value)
          BY <5>1, <3>2, <4>1, <2>2
        <5> QED
          BY <5>2, <4>1, <3>2, <3>3, <2>1, <1>4 DEF AsSet!Scan
      <4>2. CASE idx = None
        BY <4>2, <3>2, <3>3, <2>1, <1>4 DEF AsSet!Scan
      <4> QED
        BY <4>1, <4>2
    <3> QED
      BY <3>4 DEF AsSet!Next
  <2> QED
    BY <1>12, <2>3, <2>4, <2>5, <2>6, <2>7
<1> QED
  BY <1>5, <1>6, <1>7, <1>8, <1>9, <1>10, <1>11, <1>12 DEF BitmapNext

(* A bitmap keeps the number of its words, in memory and in the file.      *)
THEOREM BitmapTyping == ASSUME BitmapAssumption PROVE BitmapSpec => []BitmapTypeOK
<1>1. BitmapInit => BitmapTypeOK
  BY BitmapInitTypeOK
<1>2. BitmapTypeOK /\ [BitmapNext]_bitmapVars => BitmapTypeOK'
  BY BitmapNextTypeOK
<1> QED
  BY <1>1, <1>2, PTL DEF BitmapSpec

(* bitmap.c implements a set of bits, for words of any width and bitmaps   *)
(* of any size: scans, counts and transfers never show an unused bit, and  *)
(* no function changes a bit it does not name.                             *)
THEOREM WordsAreASet == ASSUME BitmapAssumption PROVE BitmapSpec => ImplementsBits
<1>1. BitmapInit => AsSet!Init
  BY DEF BitmapInit, AsSet!Init, AsSet!Index, SetOf
<1>2. BitmapTypeOK /\ [BitmapNext]_bitmapVars => [AsSet!Next]_(AsSet!vars)
  BY StepImplements
<1>3. BitmapSpec => []BitmapTypeOK
  BY BitmapTyping
<1> QED
  BY <1>1, <1>2, <1>3, PTL DEF BitmapSpec, ImplementsBits, AsSet!Spec
=============================================================================
