------------------------------- MODULE Alloc --------------------------------
(***************************************************************************)
(* The page allocator (src/threads/palloc.c) and the block allocator above *)
(* it (src/threads/malloc.c), used by several threads at once.  A step is  *)
(* what a thread does between two places where another may run and see the *)
(* difference: the locks of the pool and of each descriptor, one test or   *)
(* change of a bit of the pool, the free list.  palloc_free_multiple takes *)
(* no lock.  The locks are the ones Locks shows to implement Mutex; one    *)
(* pool is modelled, the other is another instance of it.                  *)
(*                                                                         *)
(* A pointer is <<page, i>>: the i-th block of an arena, the one block of  *)
(* a big arena (i = 1), or a page as such (i = 0).  A cell is the memory   *)
(* of a small block; larger blocks cover all the cells of their pages.     *)
(***************************************************************************)
EXTENDS Naturals, Sequences, FiniteSets, Functions

CONSTANTS
  Threads, Nobody,
  PageCnt,     \* pages of the pool
  PGSIZE,      \* bytes of a page
  ArenaSize,   \* sizeof (struct arena)
  MinBlock,    \* the smallest block size (16 in the code)
  Sizes,       \* the sizes clients ask for
  MaxOwned     \* bound: blocks and pages a client holds at a time

ASSUME AllocAssumption ==
    /\ PageCnt \in Nat \ {0} /\ MinBlock \in Nat \ {0}
    /\ Sizes \subseteq Nat \ {0} /\ Nobody \notin Threads
    /\ PGSIZE \in Nat /\ MinBlock < PGSIZE \div 2
    /\ ArenaSize \in Nat /\ ArenaSize < MinBlock * 2 /\ ArenaSize <= PGSIZE \div 2

VARIABLES
  used_map,    \* the pages whose bit is set
  arena,       \* page -> the arena header at its start, or Garbage
  data,        \* cell -> contents
  free_list,   \* descriptor -> the blocks on its list, front first
  desc_lock,   \* descriptor -> the thread in its lock
  pool_lock,   \* the thread in the lock of the pool
  pc, job,     \* thread -> where it is, and its arguments and locals
  own          \* thread -> what its clients hold: [ptr, n, zero]

vars == <<used_map, arena, data, free_list, desc_lock, pool_lock, pc, job, own>>

Pages == 0..PageCnt - 1

(* malloc_init: block sizes double from MinBlock while below half a page. *)
Descs == {d \in 1..10 : MinBlock * 2^(d - 1) < PGSIZE \div 2}
BlockSize(d) == MinBlock * 2^(d - 1)
BlocksPerArena(d) == (PGSIZE - ArenaSize) \div BlockSize(d)
Blocks(p, d) == {<<p, i>> : i \in 1..BlocksPerArena(d)}

(* The smallest descriptor whose blocks hold size bytes; 0 for none. *)
FindDesc(size) ==
    LET fit == {d \in Descs : BlockSize(d) >= size}
    IN IF fit = {} THEN 0 ELSE CHOOSE d \in fit : \A e \in fit : d <= e

PagesFor(size) == (size + ArenaSize + PGSIZE - 1) \div PGSIZE

Garbage == [desc |-> 0, free_cnt |-> 0]   \* no ARENA_MAGIC there
Junk == "junk"
Zero == "zero"
PerPage == BlocksPerArena(1)
Cells == Pages \X (1..PerPage)

Run(p, n) == p..(p + n - 1)
(* In the order of their addresses; n = 0 says a small block. *)
CellsOf(ptr, n) ==
    IF n = 0 THEN <<ptr>>
    ELSE [i \in 1..n * PerPage |->
            <<ptr[1] + (i - 1) \div PerPage, 1 + ((i - 1) % PerPage)>>]

Idle == [op |-> "none", desc |-> 0, n |-> 0, at |-> 0, k |-> 0,
         ptr |-> <<0, 0>>, old |-> {}]

Init ==
    /\ used_map = {}
    /\ arena = [p \in Pages |-> Garbage]
    /\ data = [c \in Cells |-> Junk]
    /\ free_list = [d \in Descs |-> <<>>]
    /\ desc_lock = [d \in Descs |-> Nobody]
    /\ pool_lock = Nobody
    /\ pc = [t \in Threads |-> "idle"]
    /\ job = [t \in Threads |-> Idle]
    /\ own = [t \in Threads |-> {}]

At(t, l) == pc[t] = l
Go(t, l) == pc' = [pc EXCEPT ![t] = l]
Set(t, j) == job' = [job EXCEPT ![t] = j]
Memory == <<used_map, arena, data>>
Lists == <<free_list, desc_lock>>
-----------------------------------------------------------------------------
(* The calls of the clients. *)

Request(t, op, size, old) ==
    LET d == FindDesc(size) IN
    /\ At(t, "idle")
    /\ Cardinality(own[t]) < MaxOwned + Cardinality(old)
    /\ Set(t, [Idle EXCEPT !.op = op, !.desc = d, !.old = old,
                           !.n = IF d = 0 THEN PagesFor(size) ELSE 1])
    /\ Go(t, IF d = 0 THEN "pool" ELSE "desc")
    /\ UNCHANGED <<Memory, Lists, pool_lock, own>>

Malloc(t) == \E size \in Sizes : Request(t, "malloc", size, {})
Calloc(t) == \E size \in Sizes : Request(t, "calloc", size, {})
Realloc(t) ==
    \E o \in own[t], size \in Sizes :
        o.ptr[2] # 0 /\ Request(t, "realloc", size, {o})

GetPages(t) ==
    \E op \in {"get", "get zero"} :
        /\ At(t, "idle") /\ Cardinality(own[t]) < MaxOwned
        /\ Set(t, [Idle EXCEPT !.op = op, !.n = 1]) /\ Go(t, "pool")
        /\ UNCHANGED <<Memory, Lists, pool_lock, own>>

(* free, and palloc_free_multiple of a page. *)
Free(t) ==
    \E o \in own[t] :
        /\ At(t, "idle")
        /\ own' = [own EXCEPT ![t] = @ \ {o}]
        /\ Set(t, [Idle EXCEPT !.op = "free", !.ptr = o.ptr, !.n = o.n])
        /\ Go(t, IF o.ptr[2] = 0 THEN "wipe" ELSE "clear")
        /\ UNCHANGED <<Memory, Lists, pool_lock>>

Write(t) ==
    \E o \in own[t] :
        LET cells == Range(CellsOf(o.ptr, o.n)) IN
        /\ At(t, "idle") /\ \E c \in cells : data[c] # t
        /\ data' = [c \in Cells |-> IF c \in cells THEN t ELSE data[c]]
        /\ own' = [own EXCEPT ![t] = (@ \ {o}) \cup {[o EXCEPT !.zero = FALSE]}]
        /\ UNCHANGED <<used_map, arena, Lists, pool_lock, pc, job>>
-----------------------------------------------------------------------------
(* malloc: the descriptor's list, filled from a new arena if empty. *)

LockDesc(t) ==
    LET d == job[t].desc IN
    /\ At(t, "desc") /\ desc_lock[d] = Nobody
    /\ desc_lock' = [desc_lock EXCEPT ![d] = t]
    /\ Go(t, IF job[t].op = "free" THEN "push"
             ELSE IF free_list[d] = <<>> THEN "pool" ELSE "pop")
    /\ UNCHANGED <<Memory, free_list, pool_lock, job, own>>

Pop(t) ==
    LET d == job[t].desc
        b == Head(free_list[d]) IN
    /\ At(t, "pop")
    /\ free_list' = [free_list EXCEPT ![d] = Tail(@)]
    /\ arena' = [arena EXCEPT ![b[1]].free_cnt = @ - 1]
    /\ Set(t, [job[t] EXCEPT !.ptr = b, !.n = 0]) /\ Go(t, "unlock")
    /\ UNCHANGED <<used_map, data, desc_lock, pool_lock, own>>

(* lock_release of the descriptor: after a pop, a failure or a free. *)
UnlockDesc(t) ==
    LET d == job[t].desc IN
    /\ At(t, "unlock")
    /\ desc_lock' = [desc_lock EXCEPT ![d] = Nobody]
    /\ IF job[t].op # "free" /\ job[t].ptr[2] # 0
       THEN Go(t, "return") /\ UNCHANGED job
       ELSE Go(t, "idle") /\ Set(t, Idle)
    /\ UNCHANGED <<Memory, free_list, pool_lock, own>>

(* The caller's share: calloc clears the block, realloc copies the old     *)
(* one as far as it goes and frees it.                                     *)
Return(t) ==
    LET j == job[t]
        new == CellsOf(j.ptr, j.n)
        zero == j.op \in {"calloc", "get zero"}
        Old(o, i) == data[CellsOf(o.ptr, o.n)[i]]
        Val(i) ==
            IF zero THEN Zero
            ELSE IF \E o \in j.old : i \in DOMAIN CellsOf(o.ptr, o.n)
            THEN Old(CHOOSE o \in j.old : TRUE, i)
            ELSE data[new[i]]
    IN
    /\ At(t, "return")
    /\ data' = [c \in Cells |-> IF c \in Range(new)
                                THEN Val(CHOOSE i \in DOMAIN new : new[i] = c)
                                ELSE data[c]]
    /\ own' = [own EXCEPT ![t] = (@ \ j.old) \cup
                                 {[ptr |-> j.ptr, n |-> j.n, zero |-> zero]}]
    /\ IF j.old = {} THEN Set(t, Idle) /\ Go(t, "idle")
       ELSE \E o \in j.old :
              /\ Set(t, [Idle EXCEPT !.op = "free", !.ptr = o.ptr, !.n = o.n])
              /\ Go(t, "clear")
    /\ UNCHANGED <<used_map, arena, Lists, pool_lock>>
-----------------------------------------------------------------------------
(* palloc_get_multiple: scan and set the bits, under the lock of the pool. *)

\* lock_acquire of the pool; the mutant scans without it.
NoPoolLock == TRUE
PoolIsFree == pool_lock = Nobody

LockPool(t) ==
    /\ At(t, "pool") /\ PoolIsFree
    /\ pool_lock' = t
    /\ Set(t, [job[t] EXCEPT !.at = 0, !.k = 0]) /\ Go(t, "scan")
    /\ UNCHANGED <<Memory, Lists, own>>

(* bitmap_scan: is the group that starts at .at free?  Else the next one. *)
Scan(t) ==
    LET j == job[t] IN
    /\ At(t, "scan")
    /\ IF j.at + j.n > PageCnt THEN Go(t, "no page") /\ UNCHANGED job
       ELSE IF Run(j.at, j.n) \cap used_map # {}
       THEN Set(t, [j EXCEPT !.at = @ + 1]) /\ UNCHANGED pc
       ELSE Go(t, "mark") /\ UNCHANGED job
    /\ UNCHANGED <<Memory, Lists, pool_lock, own>>

Mark(t) ==
    LET j == job[t] IN
    /\ At(t, "mark")
    /\ used_map' = used_map \cup {j.at + j.k}
    /\ Set(t, [j EXCEPT !.k = @ + 1])
    /\ IF j.k + 1 = j.n THEN Go(t, "got") ELSE UNCHANGED pc
    /\ UNCHANGED <<arena, data, Lists, pool_lock, own>>

NoPage(t) ==
    /\ At(t, "no page")
    /\ pool_lock' = Nobody
    /\ IF job[t].desc # 0 THEN Go(t, "unlock") /\ UNCHANGED job
       ELSE Go(t, "idle") /\ Set(t, Idle)
    /\ UNCHANGED <<Memory, Lists, own>>

(* The pages are the caller's: a page, a big block, or a new arena whose   *)
(* blocks all go to the back of the list.                                  *)
GotPages(t) ==
    LET j == job[t]
        d == j.desc IN
    /\ At(t, "got")
    /\ pool_lock' = Nobody
    /\ IF d # 0
       THEN /\ arena' = [arena EXCEPT ![j.at] = [desc |-> d, free_cnt |-> BlocksPerArena(d)]]
            /\ free_list' = [free_list EXCEPT ![d] =
                               @ \o [i \in 1..BlocksPerArena(d) |-> <<j.at, i>>]]
            /\ Go(t, "pop") /\ UNCHANGED job
       ELSE /\ arena' = IF j.op \in {"get", "get zero"} THEN arena
                        ELSE [arena EXCEPT ![j.at] = [desc |-> 0, free_cnt |-> j.n]]
            /\ Set(t, [j EXCEPT !.ptr = <<j.at, IF j.op \in {"get", "get zero"} THEN 0 ELSE 1>>])
            /\ Go(t, "return") /\ UNCHANGED free_list
    /\ UNCHANGED <<used_map, data, desc_lock, own>>
-----------------------------------------------------------------------------
(* free and palloc_free_multiple. *)

(* block_to_arena, and the memset of the block before the lock. *)
Clear(t) ==
    LET a == arena[job[t].ptr[1]] IN
    /\ At(t, "clear")
    /\ IF a.desc # 0
       THEN /\ data' = [data EXCEPT ![job[t].ptr] = Junk]
            /\ Set(t, [job[t] EXCEPT !.desc = a.desc]) /\ Go(t, "desc")
       ELSE /\ Set(t, [job[t] EXCEPT !.n = a.free_cnt]) /\ Go(t, "wipe")
            /\ UNCHANGED data
    /\ UNCHANGED <<used_map, arena, Lists, pool_lock, own>>

\* The list without the blocks of an arena that goes away; the mutant keeps them.
StillOnList(list, p) == list
OffList(list, p) ==
    LET kept == {i \in DOMAIN list : list[i][1] # p}
        Rank(i) == Cardinality({j \in kept : j <= i})
    IN [n \in 1..Cardinality(kept) |-> list[CHOOSE i \in kept : Rank(i) = n]]

(* The block goes to the front of the list; an arena with no block in use  *)
(* takes all its blocks off it again and goes back to the pool.            *)
Push(t) ==
    LET d == job[t].desc
        b == job[t].ptr
        p == b[1]
        full == arena[p].free_cnt + 1 >= BlocksPerArena(d) IN
    /\ At(t, "push")
    /\ arena' = [arena EXCEPT ![p].free_cnt = @ + 1]
    /\ free_list' = [free_list EXCEPT ![d] =
                       IF full THEN OffList(@, p) ELSE <<b>> \o @]
    /\ Set(t, [job[t] EXCEPT !.n = IF full THEN 1 ELSE 0])
    /\ Go(t, IF full THEN "wipe" ELSE "unlock")
    /\ UNCHANGED <<used_map, data, desc_lock, pool_lock, own>>

(* The memset of the pages, before the bits. *)
Wipe(t) ==
    LET gone == Run(job[t].ptr[1], job[t].n) IN
    /\ At(t, "wipe")
    /\ data' = [c \in Cells |-> IF c[1] \in gone THEN Junk ELSE data[c]]
    /\ arena' = [p \in Pages |-> IF p \in gone THEN Garbage ELSE arena[p]]
    /\ Set(t, [job[t] EXCEPT !.k = 0]) /\ Go(t, "reset")
    /\ UNCHANGED <<used_map, Lists, pool_lock, own>>

\* Bits still to reset after this one; the mutant stops at the first.
OneBit(j) == FALSE
MoreBits(j) == j.k + 1 < j.n

(* bitmap_set_multiple: one bit at a time, without the lock of the pool. *)
Reset(t) ==
    LET j == job[t] IN
    /\ At(t, "reset")
    /\ used_map' = used_map \ {j.ptr[1] + j.k}
    /\ IF MoreBits(j) THEN Set(t, [j EXCEPT !.k = @ + 1]) /\ UNCHANGED pc
       ELSE IF j.desc # 0 THEN Go(t, "unlock") /\ UNCHANGED job
       ELSE Go(t, "idle") /\ Set(t, Idle)
    /\ UNCHANGED <<arena, data, Lists, pool_lock, own>>

Client(t) == Malloc(t) \/ Calloc(t) \/ Realloc(t) \/ GetPages(t) \/ Free(t) \/ Write(t)
Inside(t) ==
    \/ LockDesc(t) \/ Pop(t) \/ UnlockDesc(t) \/ Return(t)
    \/ LockPool(t) \/ Scan(t) \/ Mark(t) \/ NoPage(t) \/ GotPages(t)
    \/ Clear(t) \/ Push(t) \/ Wipe(t) \/ Reset(t)

Next == \E t \in Threads : Client(t) \/ Inside(t)

Spec == Init /\ [][Next]_vars
-----------------------------------------------------------------------------
Holders == UNION {own[t] : t \in Threads}
Wiping(p) == \E t \in Threads : pc[t] = "wipe" /\ p \in Run(job[t].ptr[1], job[t].n)

(* The assertions of palloc.c:321 (the pages given back were taken),       *)
(* malloc.c:225 (no arena has more free blocks than blocks) and            *)
(* malloc.c:248-254 (a block freed lies where a block can lie).            *)
AssertionsHold(t) ==
    LET ptr == job[t].ptr
        a == arena[ptr[1]] IN
    /\ At(t, "reset") => Run(ptr[1] + job[t].k, job[t].n - job[t].k) \subseteq used_map
    /\ At(t, "push") => a.free_cnt < BlocksPerArena(a.desc)
    /\ At(t, "clear") => IF a.desc = 0 THEN ptr[2] = 1 /\ a.free_cnt > 0
                         ELSE ptr \in Blocks(ptr[1], a.desc)

(* An arena's count of free blocks is the number of its blocks on the free *)
(* list, none of which a client holds; no block is on a list twice, and    *)
(* none is on a list when its arena is given back; no ASSERT fails.        *)
ArenasAgree ==
    /\ \A t \in Threads : AssertionsHold(t)
    /\ \A d \in Descs : \A i, j \in DOMAIN free_list[d] :
           /\ arena[free_list[d][i][1]].desc = d
           /\ free_list[d][i] = free_list[d][j] => i = j
    /\ \A p \in Pages :
         LET d == arena[p].desc IN
         d # 0 /\ ~Wiping(p) =>
           LET free == Range(free_list[d]) \cap Blocks(p, d) IN
           /\ p \in used_map
           /\ Cardinality(free) = arena[p].free_cnt
           /\ \A o \in Holders : o.ptr \notin free

(* No page is lost: with no thread inside the allocators, the bits set are *)
(* those of the pages clients hold and of the arenas with a client's block.*)
NothingLeaks ==
    (\A t \in Threads : pc[t] = "idle") =>
        used_map = UNION {Run(o.ptr[1], IF o.n = 0 THEN 1 ELSE o.n) : o \in Holders}

(* The allocators keep the promise of Heap for every order of the threads. *)
heap == [b \in {o.ptr : o \in Holders} |->
           LET o == CHOOSE o \in Holders : o.ptr = b
               cells == CellsOf(b, o.n) IN
           [cells |-> cells, zero |-> o.zero,
            vals |-> [i \in DOMAIN cells |-> data[cells[i]]]]]
H == INSTANCE Heap
ImplementsHeap == H!Spec
=============================================================================
