------------------------------- MODULE ListOps -------------------------------
(***************************************************************************)
(* The ordered operations of lib/kernel/list.c on lists of distinct        *)
(* elements.  A list is the sequence of its elements from list_begin to    *)
(* list_rbegin; pr is the key the caller's comparison function reads, and  *)
(* all the comparison functions of the kernel (cmp_priority,               *)
(* cmp_donation_priority) order by decreasing key.                         *)
(***************************************************************************)
EXTENDS Integers, SequencesExt

\* Where list_insert_ordered stops: before the first element the new one is
\* "less" than, that is, whose key is strictly smaller; else at the tail.
\* The list need not be sorted: the scan does not look further.
InsertPos(s, e, pr) ==
    Min({i \in 1..Len(s) : pr[s[i]] < pr[e]} \cup {Len(s) + 1})

InsertOrdered(s, e, pr) == InsertAt(s, InsertPos(s, e, pr), e)

\* x stands before y in s.
Before(s, x, y) == \E i, j \in 1..Len(s) : i < j /\ s[i] = x /\ s[j] = y

\* What list_sort leaves: list.c merges runs stably, so elements with equal
\* keys keep their order.  The set has exactly one member when s has no
\* repetition.
SortedOf(s, pr) ==
    {q \in [1..Len(s) -> Range(s)] :
        /\ Range(q) = Range(s)
        /\ \A i, j \in 1..Len(s) : i < j =>
              \/ pr[q[i]] > pr[q[j]]
              \/ pr[q[i]] = pr[q[j]] /\ Before(s, q[i], q[j])}

\* What is left of s, without repetition, when the elements of gone are unlinked
\* by list_remove.  The set has exactly one member.
Unlinked(s, gone) ==
    {q \in BoundedSeq(Range(s) \ gone, Len(s)) :
        /\ Range(q) = Range(s) \ gone
        /\ \A i, j \in 1..Len(q) : i < j => Before(s, q[i], q[j])}

\* s is in the order its comparison function asks for.
Decreasing(s, pr) == \A i, j \in 1..Len(s) : i < j => pr[s[i]] >= pr[s[j]]

\* No element is linked twice.
NoRepeat(s) == \A i, j \in 1..Len(s) : s[i] = s[j] => i = j
=============================================================================
