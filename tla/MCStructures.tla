---------------------------- MODULE MCStructures ----------------------------
(***************************************************************************)
(* Small instances of seven components that share no state: the allocators *)
(* (Alloc) and the pools they start with (Pools), the lists (Links), the   *)
(* hash table (Hash), the bitmaps (Bitmap), the page tables (PageTable)    *)
(* and the advanced scheduler (Mlfqs).  In a behaviour the one that which  *)
(* names moves, so the states of the seven are added up, not multiplied.   *)
(***************************************************************************)
EXTENDS Alloc, TLC

CONSTANTS t1, t2, x1, x2, x3, x4, x5, A, B, p1, p2, None, IdleThread

VARIABLES which, mem, list_call, buckets, elem_cnt, hash_ret,
          free, pool, pml4, table,
          ticks, thread_ticks, load_avg, curr, ready_list, nice, recent_cpu, priority,
          sleep_list, awake, stage, tick_count, scene,
          bit_cnt, bits, live, file, call,
          entries, user_page_limit, phase, place, state, rem, region_start, end, free_start,
          start, pools, panic

heapVars == vars
listVars == <<mem, list_call>>
hashVars == <<buckets, elem_cnt, hash_ret>>
tableVars == <<free, pool, pml4, table>>
mlfqsVars == <<ticks, thread_ticks, load_avg, curr, ready_list, nice, recent_cpu,
               priority, sleep_list, awake, stage, tick_count, scene>>
bitsVars == <<bit_cnt, bits, live, file, call>>
poolVars == <<entries, user_page_limit, phase, place, state, rem, region_start, end,
              free_start, start, pools, panic>>
-----------------------------------------------------------------------------
(* Five elements, two pairs of them with equal keys, in two lists.         *)
ListKey == (x1 :> 1) @@ (x2 :> 2) @@ (x3 :> 2) @@ (x4 :> 3) @@ (x5 :> 1)
L == INSTANCE Links WITH ListNames <- {A, B}, Elems <- {x1, x2, x3, x4, x5}, pr <- ListKey,
                         call <- list_call

(* Five elements, two of them equal, two of one hash value; one bucket at  *)
(* first and one element per bucket, so that tables of 1, 2 and 4 buckets  *)
(* come up.                                                                *)
HashKey == (x1 :> 1) @@ (x2 :> 2) @@ (x3 :> 2) @@ (x4 :> 3) @@ (x5 :> 4)
H1 == INSTANCE Hash WITH Elems <- {x1, x2, x3, x4, x5}, key <- HashKey, hash <- <<1, 2, 3, 7>>,
                         MinBuckets <- 1, BestElemsPerBucket <- 1, ret <- hash_ret

(* Two processes, three pages on paths that part at different levels, six  *)
(* pages for tables: a walk can fail at each level.                        *)
PT == INSTANCE PageTable WITH Procs <- {p1, p2}, Pages <- 1..6, Frames <- {1, 2},
          VAs <- {<<0, 0, 0, 0>>, <<0, 0, 0, 1>>, <<0, 1, 1, 0>>}, Flags <- {"D"}

(* The tests mlfqs-fair-2, mlfqs-fair-20, mlfqs-nice-2 and mlfqs-nice-10   *)
(* with the code's constants and the tolerances of their .ck files, begun  *)
(* at ticks of every remainder by 4, nice-10 by 100; and two threads that  *)
(* compute beside a third one that sleeps now and then.                    *)
Test(start_tick, nices, expected, tolerance) ==
    [start |-> start_tick, nice |-> nices, expected |-> expected, tolerance |-> tolerance,
     peers |-> {}, naps |-> {}, nap |-> 150]
Each(n, value) == [t \in 1..n |-> value]
NiceTen(s) == Test(s, [t \in 1..10 |-> t - 1],
                   <<672, 588, 492, 408, 316, 232, 152, 92, 40, 8>>, 25)
Naps == {3} \X ((1500..1511) \cup (2500..2503))
Tests ==
    {NiceTen(s) : s \in 0..99}
    \cup UNION {{[Test(s, Each(2, 0), Each(2, 1500), 50) EXCEPT !.peers = 1..2],
                 [Test(s, Each(20, 0), Each(20, 150), 20) EXCEPT !.peers = 1..20],
                 Test(s, <<0, 5>>, <<1904, 1096>>, 50),
                 [Test(s, Each(3, 0), <<>>, 50) EXCEPT !.peers = 1..2, !.naps = Naps]} : s \in 0..3}
\* Where nice-10 fails (README, section 6): a thread gets 32 or 28 ticks too many.
Unfair == {NiceTen(34), NiceTen(46)}
M == INSTANCE Mlfqs WITH Idle <- IdleThread, Scenarios <- Tests, F <- 16384,
         TIMER_FREQ <- 100, TIME_SLICE <- 4, SleepTime <- 500, SpinTime <- 3500

(* Words of two bits, and sizes on both sides of the end of a word.        *)
BMP == INSTANCE Bitmap WITH ELEM_BITS <- 2, BitCnts <- {0, 1, 2, 3}

(* Memory below the kernel, a gap, and memory above it in one or two       *)
(* entries that start with a page and may end within one; half of the      *)
(* pages, three or none for users.                                         *)
Piece(from, bytes, type) == [start |-> from, size |-> bytes, type |-> type]
MemoryMaps ==
    {<<Piece(0, low, 1), Piece(low, 8, 2), Piece(32, mid, 1), Piece(32 + 4 * ((mid + 3) \div 4), high, type)>> :
        low \in {8, 11, 16}, mid \in {4 * n : n \in 1..12} \cup {50}, high \in {4, 8, 60, 100},
        type \in {2, 3}}
PO == INSTANCE Pools WITH PGSIZE <- 4, BufSize <- [n \in 0..64 |-> 3 + (n + 7) \div 8],
         End <- 38, Maps <- MemoryMaps \cup {<<>>}, UserLimits <- {0, 3, 1000}, i <- place

ASSUME BitmapParameters == BMP!BitmapAssumption
ASSUME TablesParameters == PT!PageTableAssumption
-----------------------------------------------------------------------------
MCInit ==
    /\ which \in {"heap", "lists", "hash", "tables", "mlfqs", "bits", "pools"}
    /\ Init /\ L!Init /\ H1!Init /\ PT!TablesInit
    /\ M!Init /\ (which # "mlfqs" => scene = NiceTen(0))
    /\ PO!Init /\ (IF which = "pools" THEN entries # <<>> ELSE entries = <<>> /\ user_page_limit = 0)
    /\ BMP!BitmapInit /\ (which # "bits" => bit_cnt = 0)

MCNext ==
    /\ UNCHANGED which
    /\ which # "bits" => UNCHANGED bitsVars
    /\ which # "pools" => UNCHANGED poolVars
    /\ \/ /\ which = "heap" /\ Next
          /\ UNCHANGED <<listVars, hashVars, tableVars, mlfqsVars>>
       \/ /\ which = "lists" /\ L!Next
          /\ UNCHANGED <<heapVars, hashVars, tableVars, mlfqsVars>>
       \/ /\ which = "hash" /\ H1!Next
          /\ UNCHANGED <<heapVars, listVars, tableVars, mlfqsVars>>
       \/ /\ which = "tables" /\ PT!TablesNext
          /\ UNCHANGED <<heapVars, listVars, hashVars, mlfqsVars>>
       \/ /\ which = "mlfqs" /\ M!Next
          /\ UNCHANGED <<heapVars, listVars, hashVars, tableVars>>
       \/ /\ which = "bits" /\ BMP!BitmapNext
          /\ UNCHANGED <<heapVars, listVars, hashVars, tableVars, mlfqsVars>>
       \/ /\ which = "pools" /\ PO!Next
          /\ UNCHANGED <<heapVars, listVars, hashVars, tableVars, mlfqsVars>>

allVars == <<which, heapVars, listVars, hashVars, tableVars, mlfqsVars, bitsVars, poolVars>>
MCSpec == MCInit /\ [][MCNext]_allVars

\* Interchangeable: the threads, the lists, two elements, the processes.
MCSymmetry == Permutations({t1, t2}) \cup Permutations({A, B})
              \cup Permutations({x2, x3}) \cup Permutations({p1, p2})

\* Two states that differ in the pointers of an element in no list are one:
\* list_insert, the only function an element in no list is given to, writes
\* both before it reads them.  No function of a list, a hash table or a bitmap
\* reads what the last one returned.
MCView == <<which, [n \in L!Nodes \ L!Out |-> <<mem.next[n], mem.prev[n]>>],
            heapVars, buckets, elem_cnt, tableVars, mlfqsVars, bit_cnt, bits, live, file, poolVars>>
-----------------------------------------------------------------------------
(* The properties of the instances, as their modules state them: lists are *)
(* sequences, hash tables and bitmaps sets, page tables a map per process; *)
(* the advanced scheduler gives what its tests expect.  An instance that   *)
(* does not move stutters, and only the one that moves is looked at.       *)
ImplementsLists ==
    L!AsSequences!Init /\ [][which = "lists" => [L!AsSequences!Next]_(L!AsSequences!vars)]_allVars
ImplementsDict ==
    H1!AsSet!Init /\ [][which = "hash" => [H1!AsSet!Next]_(H1!AsSet!vars)]_allVars
ImplementsAddrSpace ==
    PT!Spaces!Init /\ [][which = "tables" => [PT!Spaces!Next]_(PT!Spaces!vars)]_allVars
ImplementsBits ==
    BMP!AsSet!Init /\ [][which = "bits" => [BMP!AsSet!Next]_(BMP!AsSet!vars)]_allVars
FairShare == which = "mlfqs" /\ scene \notin Unfair => M!FairShare

\* A page has one use: the pools are made of whole pages of memory nothing else
\* lies in, the block allocator gives back what nobody owns, a page of the page
\* tables is entered in one place, and a frame is mapped by one page.
PagesAreOwned == CASE which = "heap" -> NothingLeaks
                   [] which = "tables" -> PT!TablesAreOwned /\ PT!FramesAreOwned
                   [] which = "pools" -> PO!PoolsFit
                   [] OTHER -> TRUE
-----------------------------------------------------------------------------
(* A claim no run makes, which TLC refutes (README, section 6):            *)
(* mlfqs-nice-10 passes whatever the tick it starts at.                    *)
TestsPass == which = "mlfqs" => M!FairShare
=============================================================================
