--------------------------------- MODULE MCVm ---------------------------------
(* Small instances of Vm for TLC.                                          *)
EXTENDS Vm

CONSTANTS a, b, p1, p2

\* Without what nobody reads before it is written: locals that are out of scope,
\* frames no page has, slots without a page, dirty bits of pages that are not read
\* from a file yet, or not from a file at all; and without any value once a load
\* has gone astray, when no property looks at one any more.
ViewOf ==
    LET busy(p) == pc[p] \notin {"none", "load", "user", "fork", "copy", "kill"}
        claiming(p) == pc[p] \in {"claim", "evict", "link", "fill", "kill"}
        framed == {PageAt(x).frame : x \in Pages} \cup {pml4[x[1]][x[2]] : x \in Proc \X Va}
                  \cup {frame[p] : p \in Proc}
        swapped == {PageAt(x).slot : x \in Pages}
    IN <<pc, [p \in Proc |-> IF busy(p) THEN at[p] ELSE None],
         [p \in Proc |-> IF claiming(p) THEN then[p] ELSE None],
         [p \in Proc |-> IF pc[p] \in {"evict", "link"} THEN frame[p] ELSE None],
         left, parent, spt, pml4,
         [p \in Proc |-> [va \in Va |-> dirty[p][va] /\ spt[p][va] # NoPage
                                        /\ spt[p][va].kind = "file" /\ ~spt[p][va].uninit]],
         frame_list, page_of, used,
         [f \in Frame |-> IF f \in framed /\ ~astray THEN ram[f] ELSE None],
         swap_bitmap, [s \in Slot |-> IF s \in swapped /\ ~astray THEN swap[s] ELSE None],
         IF astray THEN None ELSE contents, closed, panic, astray>>

\* Bound: who has mapped more than the file is alone.
LongMappingsAlone ==
    \A x \in Pages : PageAt(x).kind = "file" /\ PageAt(x).ofs \notin Offset =>
        \A q \in Proc : Live(q) => q = x[1]

Harmless == EvictsAlone /\ MappingsAreWhole /\ MappedOnce /\ LongMappingsAlone
=============================================================================
