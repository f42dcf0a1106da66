------------------------------- MODULE Pools --------------------------------
(***************************************************************************)
(* The start of the page allocator, src/threads/palloc.c: palloc_init goes *)
(* through the memory map of the boot loader three times, to add up the    *)
(* memory, to cut it into the kernel's pool and the user's, and to set     *)
(* free what is memory and not in use.  One step per entry.  Both pools    *)
(* reach over what lies between entries; their bitmaps are put behind the  *)
(* kernel, at free_start.                                                  *)
(*                                                                         *)
(* The two areas that resolve_area_info makes are added up at once, and    *)
(* addresses are not moved by ptov.                                        *)
(***************************************************************************)
EXTENDS Integers, Sequences

CONSTANTS
  PGSIZE,      \* bytes in a page
  None,
  BufSize,     \* the number of bits -> bitmap_buf_size, in bytes
  End,         \* &_end
  Maps,        \* bound: the memory maps: sequences of [start, size, type]
  UserLimits   \* bound: the values of user_page_limit

VARIABLES entries,          \* the memory map
          user_page_limit,
          phase, i,         \* the pass, and the entry it is at
          state, rem, region_start, end,  \* of populate_pools
          free_start,       \* where the next bitmap goes
          start,            \* of the last loop: where the entry's rest starts, or None
          pools,            \* the pools made: [base, cnt, used, map, bytes]
          panic             \* an ASSERT or NOT_REACHED failed

vars == <<entries, user_page_limit, phase, i, state, rem, region_start, end,
          free_start, start, pools, panic>>

USABLE == 1
ACPI_RECLAIMABLE == 3
IsMemory(e) == e.type \in {USABLE, ACPI_RECLAIMABLE}
PagesUp(bytes) == (bytes + PGSIZE - 1) \div PGSIZE
pg_round_up(addr) == PagesUp(addr) * PGSIZE
pg_no(addr) == addr \div PGSIZE

(* resolve_area_info: base_mem->size + ext_mem->size.                      *)
TotalSize ==
    LET sum[k \in 0..Len(entries)] ==
            IF k = 0 THEN 0
            ELSE sum[k - 1] + IF IsMemory(entries[k]) THEN entries[k].size ELSE 0
    IN sum[Len(entries)]
TotalPages == TotalSize \div PGSIZE
UserPages == IF TotalPages \div 2 > user_page_limit THEN user_page_limit ELSE TotalPages \div 2

Init ==
    /\ entries \in Maps /\ user_page_limit \in UserLimits
    /\ phase = "cut" /\ i = 1 /\ state = "KERN_START"
    /\ rem = TotalPages - UserPages /\ region_start = 0 /\ end = 0
    /\ free_start = pg_round_up(End) /\ start = None /\ pools = <<>> /\ panic = FALSE
-----------------------------------------------------------------------------
(* init_pool: all pages are in use at first.                               *)
InitPool(from, to) ==
    LET pgcnt == (to - from) \div PGSIZE
        bytes == PagesUp(BufSize[pgcnt]) * PGSIZE IN
    /\ pools' = Append(pools, [base |-> from, cnt |-> pgcnt, used |-> 0..pgcnt - 1,
                               map |-> free_start, bytes |-> bytes])
    /\ free_start' = free_start + bytes

Entry == entries[i]
HasEntry(p) == phase = p /\ i <= Len(entries) /\ ~panic

(* An entry of populate_pools' first loop.                                 *)
SkipEntry ==
    /\ HasEntry("cut") \/ HasEntry("free")
    /\ ~IsMemory(Entry)
    /\ i' = i + 1
    /\ UNCHANGED <<entries, user_page_limit, phase, state, rem, region_start, end,
                   free_start, start, pools, panic>>

CutEntry ==
    LET size_in_pg == Entry.size \div PGSIZE
        st == IF state = "KERN_START" THEN "KERN" ELSE state
        from == IF state = "KERN_START" THEN Entry.start ELSE region_start
        cut == Entry.start + rem * PGSIZE IN
    /\ HasEntry("cut") /\ IsMemory(Entry)
    /\ end' = Entry.start + Entry.size /\ i' = i + 1
    /\ \/ /\ st \in {"KERN", "USER"} /\ rem > size_in_pg
          /\ rem' = rem - size_in_pg /\ state' = st /\ region_start' = from
          /\ UNCHANGED <<free_start, pools, panic>>
       \/ /\ st = "KERN" /\ rem <= size_in_pg
          /\ InitPool(from, cut)
          /\ IF rem = size_in_pg
             THEN rem' = UserPages /\ state' = "USER_START" /\ region_start' = from
             ELSE rem' = UserPages - size_in_pg + rem /\ state' = "USER" /\ region_start' = cut
          /\ UNCHANGED panic
       \/ /\ st = "USER_START"
          /\ region_start' = Entry.start /\ state' = "USER"
          /\ UNCHANGED <<rem, free_start, pools, panic>>
       \/ /\ st = "USER" /\ rem <= size_in_pg
          /\ panic' = (rem # Entry.size)      \* ASSERT (rem == size): pages and bytes
          /\ UNCHANGED <<rem, state, region_start, free_start, pools>>
    /\ UNCHANGED <<entries, user_page_limit, phase, start>>

(* The user pool is the rest.                                              *)
UserPool ==
    /\ phase = "cut" /\ i > Len(entries) /\ ~panic
    /\ InitPool(region_start, end)
    /\ phase' = "free" /\ i' = 1
    /\ UNCHANGED <<entries, user_page_limit, state, rem, region_start, end, start, panic>>
-----------------------------------------------------------------------------
(* An entry of the last loop: nothing of it, or what lies above the kernel *)
(* and the bitmaps.                                                        *)
OpenEntry ==
    LET e == Entry bound == free_start IN
    /\ HasEntry("free") /\ IsMemory(Entry) /\ start = None
    /\ IF e.start + e.size < bound THEN i' = i + 1 /\ UNCHANGED start
       ELSE start' = pg_round_up(IF e.start >= bound THEN e.start ELSE bound) /\ UNCHANGED i
    /\ UNCHANGED <<entries, user_page_limit, phase, state, rem, region_start, end,
                   free_start, pools, panic>>

page_from_pool(p, addr) == pg_no(p.base) <= pg_no(addr) /\ pg_no(addr) < pg_no(p.base) + p.cnt
Owners(addr) == {k \in DOMAIN pools : page_from_pool(pools[k], addr)}

(* split: the part of it in one pool is set free, the rest comes next.     *)
FreePart ==
    LET to == Entry.start + Entry.size IN
    /\ HasEntry("free") /\ start # None
    /\ IF Owners(start) = {}
       THEN panic' = TRUE /\ UNCHANGED <<pools, start, i>>       \* NOT_REACHED
       ELSE LET k == CHOOSE k \in Owners(start) : \A l \in Owners(start) : k <= l
                pool_end == pools[k].base + pools[k].cnt * PGSIZE
                page_idx == pg_no(start) - pg_no(pools[k].base)
                upto == IF pool_end < to THEN pool_end ELSE to
                page_cnt == (upto - start) \div PGSIZE IN
            /\ pools' = [pools EXCEPT ![k].used = @ \ (page_idx..page_idx + page_cnt - 1)]
            /\ IF pool_end < to THEN start' = pool_end /\ UNCHANGED i
               ELSE start' = None /\ i' = i + 1
            /\ UNCHANGED panic
    /\ UNCHANGED <<entries, user_page_limit, phase, state, rem, region_start, end, free_start>>

Next == SkipEntry \/ CutEntry \/ UserPool \/ OpenEntry \/ FreePart
Spec == Init /\ [][Next]_vars
-----------------------------------------------------------------------------
Span(from, bytes) == from..from + bytes - 1
PageSpan(p, idx) == Span(p.base + idx * PGSIZE, PGSIZE)
Memory == UNION {Span(e.start, e.size) : e \in {f \in {entries[k] : k \in DOMAIN entries} : IsMemory(f)}}
Taken == UNION ({0..End - 1} \cup {Span(pools[k].map, pools[k].bytes) : k \in DOMAIN pools})
FreePages == {<<k, idx>> \in (DOMAIN pools) \X (0..end \div PGSIZE) :
                 idx \in 0..pools[k].cnt - 1 /\ idx \notin pools[k].used}

(* A page the allocator may hand out is memory, is in one pool, and holds  *)
(* neither the kernel nor a bitmap; the bitmaps are apart.  When the pools *)
(* are made and nothing failed, every whole page above them is free.       *)
PoolsFit ==
    /\ \A f \in FreePages :
          LET span == PageSpan(pools[f[1]], f[2]) IN
          /\ span \subseteq Memory /\ span \cap Taken = {}
          /\ \A g \in FreePages : g # f => span \cap PageSpan(pools[g[1]], g[2]) = {}
    /\ Len(pools) = 2 => Span(pools[1].map, pools[1].bytes) \cap Span(pools[2].map, pools[2].bytes) = {}
    /\ phase = "free" /\ i > Len(entries) /\ ~panic =>
          \A page \in 0..end \div PGSIZE - 1 :
             LET span == Span(page * PGSIZE, PGSIZE) IN
             page * PGSIZE >= free_start /\ (\E k \in DOMAIN entries :
                 IsMemory(entries[k]) /\ span \subseteq Span(entries[k].start, entries[k].size))
             => \E f \in FreePages : PageSpan(pools[f[1]], f[2]) = span
=============================================================================
