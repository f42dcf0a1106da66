-------------------------------- MODULE Links --------------------------------
(***************************************************************************)
(* The doubly linked lists of src/lib/kernel/list.c at the level of their  *)
(* pointers: every list has a head and a tail element of its own, an       *)
(* element that has been removed keeps its pointers, and list_sort merges  *)
(* neighbouring runs in place.  The callers are legal: they insert what is *)
(* in no list and remove what is in one, as list.c asks for.               *)
(***************************************************************************)
EXTENDS Integers, Sequences

CONSTANTS ListNames, Elems, None, pr

VARIABLES mem,    \* the pointers: [next, prev]
          call    \* the last call: its name, its arguments and its result

vars == <<mem, call>>

HeadOf(l) == <<l, "head">>
TailOf(l) == <<l, "tail">>
Nodes == Elems \cup {HeadOf(l) : l \in ListNames} \cup {TailOf(l) : l \in ListNames}
Names == ListNames

Init ==
    /\ mem = [next |-> [n \in Nodes |-> IF n \in Elems \/ n[2] = "tail" THEN None ELSE TailOf(n[1])],
              prev |-> [n \in Nodes |-> IF n \in Elems \/ n[2] = "head" THEN None ELSE HeadOf(n[1])]]
    /\ call = <<"init">>

(* The comparison the kernel's lists are given: decreasing key.            *)
Less(a, b) == pr[a] > pr[b]

(* The elements from a to b, exclusive, along the next pointers.           *)
RECURSIVE Chain(_, _, _)
Chain(m, a, b) == IF a = b THEN <<>> ELSE <<a>> \o Chain(m, m.next[a], b)
Begin(m, l) == m.next[HeadOf(l)]
Members(m, l) == Chain(m, Begin(m, l), TailOf(l))
In(m, l) == {Members(m, l)[i] : i \in DOMAIN Members(m, l)}
Out == Elems \ UNION {In(mem, l) : l \in Names}
-----------------------------------------------------------------------------
Insert(m, before, e) ==
    [next |-> [m.next EXCEPT ![e] = before, ![m.prev[before]] = e],
     prev |-> [m.prev EXCEPT ![e] = m.prev[before], ![before] = e]]

Remove(m, e) == [next |-> [m.next EXCEPT ![m.prev[e]] = m.next[e]],
                 prev |-> [m.prev EXCEPT ![m.next[e]] = m.prev[e]]]

Splice(m, before, first, end) ==
    LET last == m.prev[end]
        cut == [next |-> [m.next EXCEPT ![m.prev[first]] = m.next[last]],
                prev |-> [m.prev EXCEPT ![m.next[last]] = m.prev[first]]] IN
    IF first = end THEN m
    ELSE [next |-> [cut.next EXCEPT ![last] = before, ![cut.prev[before]] = first],
          prev |-> [cut.prev EXCEPT ![first] = cut.prev[before], ![before] = last]]

(* list_reverse: the pointers of every element change places, then those   *)
(* of the head and the tail and of the elements next to them.              *)
Reverse(m, l) ==
    LET first == Begin(m, l)
        last == m.prev[TailOf(l)] IN
    IF first = TailOf(l) THEN m
    ELSE [next |-> [n \in Nodes |-> CASE n = HeadOf(l) -> last
                                      [] n = first -> TailOf(l)
                                      [] n \in In(m, l) \ {first} -> m.prev[n]
                                      [] OTHER -> m.next[n]],
          prev |-> [n \in Nodes |-> CASE n = TailOf(l) -> first
                                      [] n = last -> HeadOf(l)
                                      [] n \in In(m, l) \ {last} -> m.next[n]
                                      [] OTHER -> m.prev[n]]]

RECURSIVE FindEndOfRun(_, _, _)
FindEndOfRun(m, a, b) ==
    LET n == m.next[a] IN
    IF n # b /\ ~Less(n, m.prev[n]) THEN FindEndOfRun(m, n, b) ELSE n

RECURSIVE InplaceMerge(_, _, _, _)
InplaceMerge(m, a0, a1b0, b1) ==
    IF a0 = a1b0 \/ a1b0 = b1 THEN m
    ELSE IF ~Less(a1b0, a0) THEN InplaceMerge(m, m.next[a0], a1b0, b1)
    ELSE LET n == m.next[a1b0] IN InplaceMerge(Splice(m, a0, m.prev[n], n), a0, n, b1)

(* One pass of list_sort from a0 on: the pointers and the runs it left.    *)
RECURSIVE SortPass(_, _, _, _)
SortPass(m, l, a0, runs) ==
    IF a0 = TailOf(l) THEN [mem |-> m, runs |-> runs]
    ELSE LET a1b0 == FindEndOfRun(m, a0, TailOf(l)) IN
         IF a1b0 = TailOf(l) THEN [mem |-> m, runs |-> runs + 1]
         ELSE LET b1 == FindEndOfRun(m, a1b0, TailOf(l)) IN
              SortPass(InplaceMerge(m, a0, a1b0, b1), l, b1, runs + 1)

RECURSIVE Sort(_, _)
Sort(m, l) ==
    LET pass == SortPass(m, l, Begin(m, l), 0) IN
    IF pass.runs > 1 THEN Sort(pass.mem, l) ELSE pass.mem

\* Where the scan of list_insert_ordered stops: behind its equals; the mutant
\* stops before them.
StopsAtEqual(e, n) == ~Less(n, e)
StopsAt(e, n) == Less(e, n)

RECURSIVE ScanFor(_, _, _, _)
ScanFor(m, l, e, n) == IF n = TailOf(l) \/ StopsAt(e, n) THEN n ELSE ScanFor(m, l, e, m.next[n])

(* list_unique from elem on, with d the list of duplicates, or NULL.       *)
RECURSIVE Unique(_, _, _, _)
Unique(m, l, d, elem) ==
    LET n == m.next[elem]
        removed == Remove(m, n) IN
    IF n = TailOf(l) THEN m
    ELSE IF Less(elem, n) \/ Less(n, elem) THEN Unique(m, l, d, n)
    ELSE Unique(IF d = None THEN removed ELSE Insert(removed, TailOf(d), n), l, d, elem)

(* list_max and list_min: better says when the scan takes the later one.   *)
RECURSIVE ScanBest(_, _, _, _, _)
ScanBest(m, l, best, n, max) ==
    IF n = TailOf(l) THEN best
    ELSE ScanBest(m, l, IF IF max THEN Less(best, n) ELSE Less(n, best) THEN n ELSE best,
                  m.next[n], max)
Best(m, l, max) ==
    IF Begin(m, l) = TailOf(l) THEN None
    ELSE ScanBest(m, l, Begin(m, l), m.next[Begin(m, l)], max)
-----------------------------------------------------------------------------
(* One action per function: list_push_front and list_push_back are         *)
(* list_insert before the beginning and the end.                           *)
Returned(n) == IF n \in Elems THEN n ELSE None   \* the tail is nobody

ListInsert(l) == \E e \in Out, b \in In(mem, l) \cup {TailOf(l)} :
    mem' = Insert(mem, b, e) /\ call' = <<"insert", l, e, Returned(b)>>

ListRemove(l) == \E e \in In(mem, l) :
    mem' = Remove(mem, e) /\ call' = <<"remove", l, e, Returned(mem.next[e])>>

ListPopFront(l) ==
    LET front == Begin(mem, l) IN
    front # TailOf(l) /\ mem' = Remove(mem, front) /\ call' = <<"pop_front", l, front>>

ListPopBack(l) ==
    LET back == mem.prev[TailOf(l)] IN
    back # HeadOf(l) /\ mem' = Remove(mem, back) /\ call' = <<"pop_back", l, back>>

ListSplice(l, k) ==
    LET s == Members(mem, l) IN
    \E i, j \in DOMAIN s :
    LET range == {s[p] : p \in i..j} IN
    \E b \in (In(mem, k) \cup {TailOf(k)}) \ range :
        /\ i <= j
        /\ mem' = Splice(mem, b, s[i], mem.next[s[j]])
        /\ call' = <<"splice", k, Returned(b), s[i], s[j]>>

ListReverse(l) == mem' = Reverse(mem, l) /\ call' = <<"reverse", l>>
ListSort(l) == mem' = Sort(mem, l) /\ call' = <<"sort", l>>

ListInsertOrdered(l) == \E e \in Out :
    /\ mem' = Insert(mem, ScanFor(mem, l, e, Begin(mem, l)), e)
    /\ call' = <<"insert_ordered", l, e>>

ListUnique(l, k) ==
    /\ l # k
    /\ mem' = IF Begin(mem, l) = TailOf(l) THEN mem ELSE Unique(mem, l, k, Begin(mem, l))
    /\ call' = <<"unique", l, k>>

ListMax(l) == call' = <<"max", l, Best(mem, l, TRUE)>> /\ UNCHANGED mem
ListMin(l) == call' = <<"min", l, Best(mem, l, FALSE)>> /\ UNCHANGED mem

Next ==
    \/ \E l \in Names :
        \/ ListInsert(l) \/ ListRemove(l) \/ ListPopFront(l) \/ ListPopBack(l)
        \/ ListReverse(l) \/ ListSort(l) \/ ListInsertOrdered(l)
        \/ ListMax(l) \/ ListMin(l)
    \/ \E l, k \in Names : ListSplice(l, k)
    \/ \E l \in Names, k \in Names \cup {None} : ListUnique(l, k)
Spec == Init /\ [][Next]_vars
-----------------------------------------------------------------------------
(* Whatever the order of the calls, the pointers describe sequences of     *)
(* distinct elements on which list.c does what the other modules assume of *)
(* it: list_sort is a stable sort, list_insert_ordered puts an element     *)
(* behind its equals, list_unique and list_max keep the first of equals.   *)
(* Each call leaves the sequences, and returns the element, that the same  *)
(* call of Lists does.                                                     *)
AsSequences == INSTANCE Lists WITH lists <- [l \in ListNames |-> Members(mem, l)]
ImplementsLists == AsSequences!Spec
=============================================================================
