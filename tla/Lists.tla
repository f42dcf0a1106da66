-------------------------------- MODULE Lists --------------------------------
(***************************************************************************)
(* What list.h promises of its lists: they are sequences of distinct       *)
(* elements.  The last call is kept with its arguments and its result, so  *)
(* that what one function does never passes for what another may do.       *)
(***************************************************************************)
EXTENDS ListOps

CONSTANTS ListNames, Elems, None,
          pr          \* element -> the key the comparison functions read

VARIABLES lists,
          call  \* the last call: its name, its arguments and its result
vars == <<lists, call>>

Free == Elems \ UNION {Range(lists[l]) : l \in ListNames}
Set(l, s) == lists' = [lists EXCEPT ![l] = s]

(* The sequence t put into s before element b, or at the end. *)
PutBefore(s, b, t) ==
    IF b \in Range(s)
    THEN LET i == CHOOSE j \in 1..Len(s) : s[j] = b IN
         SubSeq(s, 1, i - 1) \o t \o SubSeq(s, i, Len(s))
    ELSE s \o t

\* The element behind e in s, None for the tail.
Behind(s, e) ==
    LET after == {j \in 1..Len(s) - 1 : s[j] = e} IN
    IF after = {} THEN None ELSE s[(CHOOSE j \in after : TRUE) + 1]

Init == lists = [l \in ListNames |-> <<>>] /\ call = <<"init">>

Insert(l) == \E e \in Free, b \in Range(lists[l]) \cup {None} :
    Set(l, PutBefore(lists[l], b, <<e>>)) /\ call' = <<"insert", l, e, b>>

\* list_remove returns the element that followed the one it removed.
RemoveOne(l) == \E e \in Range(lists[l]) :
    Set(l, Remove(lists[l], e)) /\ call' = <<"remove", l, e, Behind(lists[l], e)>>

PopFront(l) ==
    LET e == Head(lists[l]) IN
    lists[l] # <<>> /\ Set(l, Remove(lists[l], e)) /\ call' = <<"pop_front", l, e>>

PopBack(l) ==
    LET e == Last(lists[l]) IN
    lists[l] # <<>> /\ Set(l, Remove(lists[l], e)) /\ call' = <<"pop_back", l, e>>

Splice(l, k) == \E i, j \in 1..Len(lists[l]) :
    LET cut == SubSeq(lists[l], i, j)
        rest == [lists EXCEPT ![l] = SubSeq(@, 1, i - 1) \o SubSeq(@, j + 1, Len(@))] IN
    \E b \in Range(rest[k]) \cup {None} :
        /\ i <= j
        /\ lists' = [rest EXCEPT ![k] = PutBefore(@, b, cut)]
        /\ call' = <<"splice", k, b, lists[l][i], lists[l][j]>>

Reversed(l) == Set(l, Reverse(lists[l])) /\ call' = <<"reverse", l>>

InsertInOrder(l) == \E e \in Free :
    Set(l, InsertOrdered(lists[l], e, pr)) /\ call' = <<"insert_ordered", l, e>>

Sort(l) == (\E q \in SortedOf(lists[l], pr) : Set(l, q)) /\ call' = <<"sort", l>>

(* list_unique: of neighbours with equal keys the first stays, the others  *)
(* go to k, if there is one.                                               *)
Unique(l, k) ==
    LET s == lists[l]
        first(i) == i = 1 \/ pr[s[i]] # pr[s[i - 1]]
        kept == SelectSeq([i \in 1..Len(s) |-> i], first)
        gone == SelectSeq([i \in 1..Len(s) |-> i], LAMBDA i : ~first(i))
        Of(q) == [i \in 1..Len(q) |-> s[q[i]]] IN
    /\ lists' = [n \in ListNames |-> CASE n = l -> Of(kept) [] n = k -> lists[k] \o Of(gone)
                                       [] OTHER -> lists[n]]
    /\ call' = <<"unique", l, k>>

(* Of several elements with the extreme key the one that stands first; the *)
(* comparison orders by decreasing key.                                    *)
FirstOf(s, set) ==
    IF set = {} THEN None
    ELSE LET i == CHOOSE i \in 1..Len(s) : s[i] \in set /\ \A j \in 1..i - 1 : s[j] \notin set IN s[i]

MaxOf(l) == UNCHANGED lists /\ LET in == Range(lists[l]) IN
    call' = <<"max", l, FirstOf(lists[l], {e \in in : \A d \in in : pr[e] <= pr[d]})>>
MinOf(l) == UNCHANGED lists /\ LET in == Range(lists[l]) IN
    call' = <<"min", l, FirstOf(lists[l], {e \in in : \A d \in in : pr[e] >= pr[d]})>>

Next ==
    \/ \E l \in ListNames :
        \/ Insert(l) \/ InsertInOrder(l) \/ RemoveOne(l) \/ PopFront(l) \/ PopBack(l)
        \/ Reversed(l) \/ Sort(l) \/ MaxOf(l) \/ MinOf(l)
    \/ \E l, k \in ListNames : Splice(l, k)
    \/ \E l \in ListNames, k \in ListNames \cup {None} : l # k /\ Unique(l, k)
Spec == Init /\ [][Next]_vars
=============================================================================
