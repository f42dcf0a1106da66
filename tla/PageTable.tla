------------------------------ MODULE PageTable ------------------------------
(***************************************************************************)
(* The four-level page tables of src/threads/mmu.c in the kernel pool's    *)
(* pages: pml4e_walk with the tables it creates and takes back when the    *)
(* pool runs empty half way, the operations on an entry, and the recursive *)
(* destruction.  A user page is the path of its four indices; the first is *)
(* always 0 (pml4_destroy looks at no other).  The kernel's own half       *)
(* (base_pml4) is shared and never touched, and left out.                  *)
(*                                                                         *)
(* The operations are steps: a process changes only its own tables, and    *)
(* the eviction that clears an entry of another's finds its path complete. *)
(***************************************************************************)
EXTENDS Integers, FiniteSets, Sequences

CONSTANTS
  Procs, VAs,   \* processes; user pages: paths of four indices
  Pages,        \* the pages of the kernel pool: numbers
  Frames,       \* the frames of the user pool
  Flags,        \* the flags that are set and cleared: of "A", "D"
  None

\* A path has four indices; pages and frames are numbers; 0 is not an entry.
PageTableAssumption ==
    /\ VAs \subseteq [1..4 -> Nat] /\ VAs # {} /\ "P" \notin Flags
    /\ Pages \subseteq Nat /\ IsFiniteSet(Pages) /\ Frames \subseteq Nat
    /\ None \notin Nat /\ None \notin [to : Nat, flags : SUBSET (Flags \cup {"P"})]

VARIABLES
  free,         \* the kernel pool's free pages
  pool,         \* the user pool's free frames
  pml4,         \* process -> its top table, or None
  table         \* page -> index -> entry: [to, flags], or None for 0

mmuVars == <<free, pool, pml4, table>>

Indices == UNION {{v[i] : i \in 1..4} : v \in VAs}
Zero == [i \in Indices |-> None]

TablesInit ==
    /\ free = Pages /\ pool = Frames
    /\ pml4 = [p \in Procs |-> None]
    /\ table = [k \in Pages |-> Zero]

Present(e) == e # None /\ "P" \in e.flags
NextFree(s) == CHOOSE k \in s : \A j \in s : k <= j
TableEntry(k) == [to |-> k, flags |-> {"P"}]

\* PTX, PDX, PDPE or PML4 of va for level 1 to 4; the mutant takes PDX for
\* PTX as well.
SameIndex(v, l) == v[IF l = 1 THEN 3 ELSE 5 - l]
Index(v, l) == v[5 - l]

(* The walk without create, from table top down to the page table of v.    *)
Child(tb, t, v, l) ==
    IF t = None \/ ~Present(tb[t][Index(v, l)]) THEN None ELSE tb[t][Index(v, l)].to
Walk(tb, top, v) == Child(tb, Child(tb, Child(tb, top, v, 4), v, 3), v, 2)

\* With create, at level l in table t of state s = [free, table]: a missing
\* table is allocated, zeroed and entered; if the walk fails further down it
\* is freed again and the entry cleared.  (pgdir_walk, the last level, has
\* nothing below it that fails.)  The mutant frees it and leaves the entry.
StillEntered(s, t, i, k) == [free |-> s.free \cup {k}, table |-> s.table]
TakeBack(s, t, i, k) ==
    [free |-> s.free \cup {k}, table |-> [s.table EXCEPT ![t][i] = None]]

Enter(s, t, i, k) ==
    [free |-> s.free \ {k},
     table |-> [s.table EXCEPT ![k] = Zero, ![t][i] = TableEntry(k)]]

PgdirWalk(s, t, v) ==
    LET i == Index(v, 2) IN
    IF Present(s.table[t][i]) THEN [s |-> s, pt |-> s.table[t][i].to]
    ELSE IF s.free = {} THEN [s |-> s, pt |-> None]
    ELSE [s |-> Enter(s, t, i, NextFree(s.free)), pt |-> NextFree(s.free)]

(* pdpe_walk (l = 3) and pml4e_walk (l = 4) around the walk below them.    *)
Level(s, t, v, l, Below(_, _, _)) ==
    LET i == Index(v, l)
        k == NextFree(s.free) IN
    IF Present(s.table[t][i]) THEN Below(s, s.table[t][i].to, v)
    ELSE IF s.free = {} THEN [s |-> s, pt |-> None]
    ELSE LET r == Below(Enter(s, t, i, k), k, v) IN
         IF r.pt = None THEN [s |-> TakeBack(r.s, t, i, k), pt |-> None] ELSE r

PdpeWalk(s, t, v) == Level(s, t, v, 3, PgdirWalk)
Pml4eWalk(s, t, v) == Level(s, t, v, 4, PdpeWalk)

Entry(tb, top, v) ==
    LET pt == Walk(tb, top, v) IN IF pt = None THEN None ELSE tb[pt][Index(v, 1)]
Live(p) == pml4[p] # None
EntryOf(p, v) == IF Live(p) THEN Entry(table, pml4[p], v) ELSE None
-----------------------------------------------------------------------------
(* A freed page is filled with 0xcc, which has no P bit: nothing to tell   *)
(* from zeros.  It is entered zeroed, or (pml4_create) as a copy of        *)
(* base_pml4, whose user half is empty.                                    *)
Pml4Create(p) ==
    /\ ~Live(p) /\ free # {}
    /\ pml4' = [pml4 EXCEPT ![p] = NextFree(free)]
    /\ table' = [table EXCEPT ![NextFree(free)] = Zero]
    /\ free' = free \ {NextFree(free)} /\ UNCHANGED pool

(* pml4_set_page with a frame of the caller's, who puts it back if false   *)
(* is returned; v is not mapped.  (The writable bit is left to Vm.)        *)
Pml4SetPage(p, v) ==
    /\ Live(p) /\ pool # {} /\ ~Present(EntryOf(p, v))
    /\ LET r == Pml4eWalk([free |-> free, table |-> table], pml4[p], v)
           k == NextFree(pool) IN
       /\ free' = r.s.free
       /\ \/ r.pt = None /\ table' = r.s.table /\ UNCHANGED pool
          \/ /\ r.pt # None
             /\ table' = [r.s.table EXCEPT ![r.pt][Index(v, 1)] = [to |-> k, flags |-> {"P"}]]
             /\ pool' = pool \ {k}
    /\ UNCHANGED pml4

(* pml4_clear_page, and the frame goes back to the pool: the callers       *)
(* (vm_evict_frame, destroy and munmap) give it away or free it.           *)
Pml4ClearPage(p, v) ==
    LET pt == Walk(table, pml4[p], v) IN
    /\ Live(p) /\ Present(EntryOf(p, v))
    /\ table' = [table EXCEPT ![pt][Index(v, 1)].flags = @ \ {"P"}]
    /\ pool' = pool \cup {EntryOf(p, v).to}
    /\ UNCHANGED <<free, pml4>>

(* pml4_set_dirty and pml4_set_accessed, and the CPU, which sets the flags *)
(* of a present entry; an entry that is 0 belongs to no page, and the      *)
(* callers do not name it.                                                 *)
Pml4SetFlag(p, v, f, on) ==
    LET pt == Walk(table, pml4[p], v) IN
    /\ Live(p) /\ EntryOf(p, v) # None
    /\ table' = [table EXCEPT ![pt][Index(v, 1)].flags =
                    IF on THEN @ \cup {f} ELSE @ \ {f}]
    /\ UNCHANGED <<free, pool, pml4>>

(* pt_destroy, pgdir_destroy, pdpe_destroy: the tables of a process and    *)
(* the frames that the present entries of its page tables hold.            *)
Below(ts) == UNION {{table[t][i].to : i \in {i \in Indices : Present(table[t][i])}} : t \in ts}
Upper(top) == {top} \cup Below({top}) \cup Below(Below({top}))
PageTables(top) == Below(Below(Below({top})))
\* The pages that are freed.
Tables(top) == Upper(top) \cup PageTables(top)

Pml4Destroy(p) ==
    /\ Live(p)
    /\ free' = free \cup Tables(pml4[p])
    /\ pool' = pool \cup Below(PageTables(pml4[p]))
    /\ pml4' = [pml4 EXCEPT ![p] = None]
    /\ table' = [k \in Pages |-> IF k \in Tables(pml4[p]) THEN Zero ELSE table[k]]

TablesNext == \E p \in Procs :
    \/ Pml4Create(p) \/ Pml4Destroy(p)
    \/ \E v \in VAs :
        \/ Pml4SetPage(p, v) \/ Pml4ClearPage(p, v)
        \/ \E f \in Flags, on \in BOOLEAN : Pml4SetFlag(p, v, f, on)
TablesSpec == TablesInit /\ [][TablesNext]_mmuVars
-----------------------------------------------------------------------------
(* Every page of the kernel pool is free or is one table in one place of   *)
(* one process's tree, also after a walk that failed half way: nothing     *)
(* leaks, and no table is shared.                                          *)
TablesAreOwned ==
    LET alive == {p \in Procs : Live(p)}
        upper == UNION {Upper(pml4[p]) : p \in alive}
        links == {l \in upper \X Indices : Present(table[l[1]][l[2]])} IN
    /\ Pages \ free = UNION {Tables(pml4[p]) : p \in alive}
    /\ Cardinality(Pages \ free) = Cardinality(alive) + Cardinality(links)

(* Every frame of the user pool is free or mapped by one page of one       *)
(* process.                                                                *)
FramesAreOwned ==
    LET mapped == {m \in Procs \X VAs : Present(EntryOf(m[1], m[2]))} IN
    /\ Frames \ pool = {EntryOf(m[1], m[2]).to : m \in mapped}
    /\ \A m, n \in mapped : EntryOf(m[1], m[2]).to = EntryOf(n[1], n[2]).to => m = n

(* The tables are a map per process.                                       *)
Spaces == INSTANCE AddrSpace WITH space <- [p \in Procs |-> [v \in VAs |-> EntryOf(p, v)]]
ImplementsAddrSpace == Spaces!Spec
=============================================================================
