-------------------------------- MODULE Heap --------------------------------
(***************************************************************************)
(* What an allocator promises its clients (the comments above malloc,      *)
(* calloc, realloc and free in src/threads/malloc.c, and above             *)
(* palloc_get_multiple in src/threads/palloc.c): two live blocks share no  *)
(* memory, a block keeps its contents until its owner writes or gives it   *)
(* back, calloc and PAL_ZERO hand out zeroes, and realloc carries the      *)
(* contents over as far as the smaller of the two blocks goes.             *)
(***************************************************************************)
EXTENDS Naturals, Sequences, Functions, FiniteSets

CONSTANT Zero

VARIABLE heap  \* live block -> [cells, zero, vals]: where, zeroed?, contents

Init == heap = << >>

(* The rest of the heap stays as it is. *)
Same(bs) == \A b \in bs : heap'[b] = heap[b]

Fresh(b, bs) ==
    \A c \in bs : Range(heap'[b].cells) \cap Range(heap[c].cells) = {}

Allocate ==
    \E b \in DOMAIN heap' \ DOMAIN heap :
        /\ DOMAIN heap' = DOMAIN heap \cup {b}
        /\ Same(DOMAIN heap)
        /\ Fresh(b, DOMAIN heap)
        /\ heap'[b].zero => Range(heap'[b].vals) = {Zero}

Release ==
    \E b \in DOMAIN heap : heap' = Restrict(heap, DOMAIN heap \ {b})

(* The owner fills its block. *)
Write ==
    \E b \in DOMAIN heap :
        /\ DOMAIN heap' = DOMAIN heap
        /\ Same(DOMAIN heap \ {b})
        /\ heap'[b].cells = heap[b].cells
        /\ Cardinality(Range(heap'[b].vals)) = 1

Resize ==
    \E old \in DOMAIN heap, new \in DOMAIN heap' \ DOMAIN heap :
        LET rest == DOMAIN heap \ {old} IN
        /\ DOMAIN heap' = rest \cup {new}
        /\ Same(rest)
        /\ Fresh(new, DOMAIN heap)
        /\ \A i \in DOMAIN heap[old].vals \cap DOMAIN heap'[new].vals :
               heap'[new].vals[i] = heap[old].vals[i]

Next == Allocate \/ Release \/ Write \/ Resize

Spec == Init /\ [][Next]_heap
=============================================================================
