---------------------------- MODULE ListOps_proofs ----------------------------
(***************************************************************************)
(* What the list operations return, for every list and every key: the      *)
(* lemmas the proofs about the scheduler rest on.                          *)
(***************************************************************************)
EXTENDS ListOps, SequenceTheorems, WellFoundedInduction, TLAPS

\* The position at which list_insert_ordered stops exists, although the scan
\* is unbounded: every nonempty set of naturals has a least element.
LEMMA LeastElement ==
    ASSUME NEW T \in SUBSET Nat, T # {}
    PROVE  /\ Min(T) \in T
           /\ \A y \in T : Min(T) <= y
<1>1. \E x \in T : \A y \in T : ~ (<<y, x>> \in OpToRel(<, Nat))
  BY NatLessThanWellFounded, WFMin
<1>2. PICK x \in T : \A y \in T : ~ (<<y, x>> \in OpToRel(<, Nat))
  BY <1>1
<1>3. ASSUME NEW y \in T PROVE x <= y
  <2>1. <<y, x>> \notin OpToRel(<, Nat)
    BY <1>2
  <2>2. <<y, x>> \in Nat \X Nat
    OBVIOUS
  <2>3. OpToRel(<, Nat) = {ss \in Nat \X Nat : ss[1] < ss[2]}
    BY DEF OpToRel
  <2>4. ~ (y < x)
    BY <2>1, <2>2, <2>3
  <2> QED
    BY <2>4
<1> QED
  BY <1>3 DEF Min

\* list_insert_ordered stops within the list or at its tail, after elements
\* that do not go behind the new one and before one that does.
LEMMA InsertPosProps ==
    ASSUME NEW S, NEW s \in Seq(S), NEW pr \in [S -> Nat], NEW e \in S
    PROVE  /\ InsertPos(s, e, pr) \in 1..(Len(s) + 1)
           /\ \A i \in 1..(InsertPos(s, e, pr) - 1) : pr[s[i]] >= pr[e]
           /\ InsertPos(s, e, pr) <= Len(s) => pr[s[InsertPos(s, e, pr)]] < pr[e]
<1> DEFINE T == {i \in 1..Len(s) : pr[s[i]] < pr[e]} \cup {Len(s) + 1}
<1>1. T \in SUBSET Nat /\ T # {}
  OBVIOUS
<1>2. Min(T) \in T /\ \A y \in T : Min(T) <= y
  BY <1>1, LeastElement
<1>3. InsertPos(s, e, pr) = Min(T)
  BY DEF InsertPos
<1>4. \A i \in 1..Len(s) : pr[s[i]] \in Nat /\ pr[e] \in Nat
  BY ElementOfSeq
<1> DEFINE m == Min(T)
<1>5. m \in T /\ (\A y \in T : m <= y) /\ InsertPos(s, e, pr) = m
  BY <1>2, <1>3
<1> HIDE DEF m
<1>6. m \in 1..(Len(s) + 1)
  BY <1>5
<1>7. m <= Len(s) => pr[s[m]] < pr[e]
  BY <1>5, <1>6
<1>8. ASSUME NEW i \in 1..(m - 1) PROVE pr[s[i]] >= pr[e]
  <2>1. i \in 1..Len(s) /\ i < m
    BY <1>6
  <2>2. i \notin T
    BY <2>1, <1>5, <1>6
  <2>3. ~ (pr[s[i]] < pr[e])
    BY <2>1, <2>2
  <2> QED
    BY <2>1, <2>3, <1>4
<1> HIDE DEF T
<1> QED
  BY <1>5, <1>6, <1>7, <1>8

\* The list with e put in at position p, element by element.
LEMMA InsertAtProps ==
    ASSUME NEW S, NEW s \in Seq(S), NEW e \in S, NEW p \in 1..(Len(s) + 1)
    PROVE  /\ InsertAt(s, p, e) \in Seq(S)
           /\ Len(InsertAt(s, p, e)) = Len(s) + 1
           /\ \A i \in 1..(Len(s) + 1) :
                InsertAt(s, p, e)[i] = IF i < p THEN s[i] ELSE IF i = p THEN e ELSE s[i - 1]
<1>0. Len(s) \in Nat
  OBVIOUS
<1> DEFINE a == SubSeq(s, 1, p - 1)
           b == <<e>>
           c == SubSeq(s, p, Len(s))
           q == InsertAt(s, p, e)
<1>1. a \in Seq(S) /\ Len(a) = p - 1 /\ \A k \in 1..(p - 1) : a[k] = s[k]
  OBVIOUS
<1>2. b \in Seq(S) /\ Len(b) = 1 /\ b[1] = e
  OBVIOUS
<1>3. c \in Seq(S) /\ Len(c) = Len(s) - (p - 1) /\ \A k \in 1..(Len(s) - (p - 1)) : c[k] = s[p + k - 1]
  OBVIOUS
<1> DEFINE ab == a \o b
<1>4. q = ab \o c
  BY DEF InsertAt
<1> HIDE DEF a, b, c, q
<1>5. /\ ab \in Seq(S) /\ Len(ab) = p
      /\ \A k \in 1..p : ab[k] = IF k <= p - 1 THEN a[k] ELSE b[k - (p - 1)]
  <2>1. Len(a) + Len(b) = p
    BY <1>1, <1>2
  <2>2. /\ ab \in Seq(S) /\ Len(ab) = Len(a) + Len(b)
        /\ \A k \in 1..(Len(a) + Len(b)) : ab[k] = IF k <= Len(a) THEN a[k] ELSE b[k - Len(a)]
    BY ONLY <1>1, <1>2, ConcatProperties DEF ab
  <2> HIDE DEF ab
  <2> QED
    BY ONLY <2>1, <2>2, <1>1
<1> HIDE DEF ab
<1>6. /\ q \in Seq(S) /\ Len(q) = Len(s) + 1 /\ Len(s) \in Nat
      /\ \A k \in 1..(Len(s) + 1) : q[k] = IF k <= p THEN ab[k] ELSE c[k - p]
  <2>1. Len(ab) + Len(c) = Len(s) + 1 /\ Len(s) \in Nat
    BY <1>3, <1>5
  <2>2. /\ q \in Seq(S) /\ Len(q) = Len(ab) + Len(c)
        /\ \A k \in 1..(Len(ab) + Len(c)) : q[k] = IF k <= Len(ab) THEN ab[k] ELSE c[k - Len(ab)]
    BY ONLY <1>3, <1>4, <1>5, ConcatProperties
  <2> QED
    BY ONLY <2>1, <2>2, <1>5
<1>7. ASSUME NEW i \in 1..(Len(s) + 1), i < p PROVE q[i] = s[i]
  <2>1. i \in 1..p /\ i \in 1..(p - 1) /\ i <= p /\ i <= p - 1
    BY <1>7
  <2> QED
    BY <2>1, <1>1, <1>5, <1>6
<1>8. q[p] = e
  <2>1. p \in 1..p /\ p <= p /\ ~ (p <= p - 1) /\ p - (p - 1) = 1
    OBVIOUS
  <2> QED
    BY <2>1, <1>2, <1>5, <1>6
<1>9. ASSUME NEW i \in 1..(Len(s) + 1), i > p PROVE q[i] = s[i - 1]
  <2>1. i - p \in 1..(Len(s) - (p - 1)) /\ p + (i - p) - 1 = i - 1
    BY ONLY <1>0, <1>9
  <2>2. q[i] = c[i - p]
    BY <2>1, <1>6, <1>9
  <2> QED
    BY <2>1, <2>2, <1>3
<1>10. \A i \in 1..(Len(s) + 1) : q[i] = IF i < p THEN s[i] ELSE IF i = p THEN e ELSE s[i - 1]
  BY <1>6, <1>7, <1>8, <1>9
<1> QED
  BY <1>6, <1>10 DEF q

\* The elements linked in a list.
LEMMA InRange ==
    ASSUME NEW S, NEW s \in Seq(S)
    PROVE  \A x : x \in Range(s) <=> \E i \in 1..Len(s) : s[i] = x
  BY RangeEquality

\* Inserting links the new element and loses none.
LEMMA InsertOrderedProps ==
    ASSUME NEW S, NEW s \in Seq(S), NEW pr \in [S -> Nat], NEW e \in S
    PROVE  /\ InsertOrdered(s, e, pr) \in Seq(S)
           /\ InsertOrdered(s, e, pr) # << >>
           /\ Range(InsertOrdered(s, e, pr)) = Range(s) \cup {e}
           /\ NoRepeat(s) /\ e \notin Range(s) => NoRepeat(InsertOrdered(s, e, pr))
           /\ Decreasing(s, pr) => Decreasing(InsertOrdered(s, e, pr), pr)
<1>1. PICK p \in 1..(Len(s) + 1) :
         /\ \A i \in 1..(p - 1) : pr[s[i]] >= pr[e]
         /\ p <= Len(s) => pr[s[p]] < pr[e]
         /\ InsertOrdered(s, e, pr) = InsertAt(s, p, e)
  BY InsertPosProps DEF InsertOrdered
<1> DEFINE q == InsertAt(s, p, e)
<1>2. /\ q \in Seq(S) /\ Len(q) = Len(s) + 1
      /\ \A i \in 1..(Len(s) + 1) : q[i] = IF i < p THEN s[i] ELSE IF i = p THEN e ELSE s[i - 1]
  BY InsertAtProps
<1> HIDE DEF q
<1>3. q \in Seq(S) /\ Len(q) = Len(s) + 1 /\ Len(s) \in Nat
  BY <1>2
<1>a. ASSUME NEW i \in 1..Len(q), i < p PROVE q[i] = s[i] /\ i \in 1..Len(s)
  BY <1>2, <1>a
<1>b. q[p] = e /\ p \in 1..Len(q)
  BY <1>2
<1>c. ASSUME NEW i \in 1..Len(q), i > p PROVE q[i] = s[i - 1] /\ i - 1 \in 1..Len(s)
  BY <1>2, <1>c
<1>4. Range(q) = Range(s) \cup {e}
  <2>0. /\ \A x : x \in Range(s) <=> \E i \in 1..Len(s) : s[i] = x
        /\ \A x : x \in Range(q) <=> \E i \in 1..Len(q) : q[i] = x
    BY <1>3, InRange
  <2>1. ASSUME NEW i \in 1..Len(q) PROVE q[i] \in Range(s) \cup {e}
    <3>1. CASE i < p
      BY <3>1, <1>a, <2>0
    <3>2. CASE i = p
      BY <3>2, <1>b
    <3>3. CASE i > p
      BY <3>3, <1>c, <2>0
    <3> QED
      BY <3>1, <3>2, <3>3
  <2>2. ASSUME NEW i \in 1..Len(s) PROVE s[i] \in Range(q)
    <3>1. CASE i < p
      <4>1. i \in 1..Len(q) /\ s[i] = q[i]
        BY <3>1, <1>2
      <4> QED
        BY <4>1, <2>0
    <3>2. CASE i >= p
      <4>1. i + 1 \in 1..Len(q) /\ i + 1 > p /\ (i + 1) - 1 = i
        BY <3>2, <1>3
      <4>2. q[i + 1] = s[i]
        BY <4>1, <1>c
      <4> QED
        BY <4>1, <4>2, <2>0
    <3> QED
      BY <3>1, <3>2
  <2>3. e \in Range(q)
    BY <1>b, <2>0
  <2> QED
    BY <2>0, <2>1, <2>2, <2>3
<1>5. ASSUME NoRepeat(s), e \notin Range(s) PROVE NoRepeat(q)
  <2>1. \A i \in 1..Len(s) : s[i] # e
    BY <1>5, InRange
  <2>2. \A i, j \in 1..Len(s) : i # j => s[i] # s[j]
    BY <1>5 DEF NoRepeat
  <2>3. SUFFICES ASSUME NEW i \in 1..Len(q), NEW j \in 1..Len(q), i < j
                 PROVE  q[i] # q[j]
    BY <1>3 DEF NoRepeat
  <2>4. CASE j < p
    <3>1. q[i] = s[i] /\ q[j] = s[j] /\ i \in 1..Len(s) /\ j \in 1..Len(s)
      BY <2>3, <2>4, <1>3, <1>a, <1>b, <1>c
    <3> QED
      BY <3>1, <2>1, <2>2, <2>3
  <2>5. CASE j = p
    <3>1. q[i] = s[i] /\ q[j] = e /\ i \in 1..Len(s) /\ i < p
      BY <2>3, <2>5, <1>3, <1>a, <1>b, <1>c
    <3> QED
      BY <3>1, <2>1, <2>2, <2>3
  <2>6. CASE j > p /\ i < p
    <3>1. q[i] = s[i] /\ q[j] = s[j - 1] /\ i \in 1..Len(s) /\ j - 1 \in 1..Len(s) /\ i # j - 1
      BY <2>3, <2>6, <1>3, <1>a, <1>b, <1>c
    <3> QED
      BY <3>1, <2>1, <2>2, <2>3
  <2>7. CASE j > p /\ i = p
    <3>1. q[i] = e /\ q[j] = s[j - 1] /\ j - 1 \in 1..Len(s) /\ j - 1 >= p
      BY <2>3, <2>7, <1>3, <1>a, <1>b, <1>c
    <3> QED
      BY <3>1, <2>1, <2>2, <2>3
  <2>8. CASE j > p /\ i > p
    <3>1. q[i] = s[i - 1] /\ q[j] = s[j - 1] /\ i - 1 \in 1..Len(s) /\ j - 1 \in 1..Len(s) /\ i - 1 # j - 1
      BY <2>3, <2>8, <1>3, <1>a, <1>b, <1>c
    <3> QED
      BY <3>1, <2>1, <2>2, <2>3
  <2> QED
    BY <2>4, <2>5, <2>6, <2>7, <2>8
<1>6. ASSUME Decreasing(s, pr) PROVE Decreasing(q, pr)
  <2>1. \A i \in 1..Len(s) : pr[s[i]] \in Nat /\ pr[e] \in Nat
    BY ElementOfSeq
  <2>2. \A i, j \in 1..Len(s) : i <= j => pr[s[i]] >= pr[s[j]]
    BY <1>6, <2>1 DEF Decreasing
  <2>3. \A i \in 1..Len(s) : /\ i < p => pr[s[i]] >= pr[e]
                            /\ i >= p => pr[s[i]] <= pr[e]
    <3>1. ASSUME NEW i \in 1..Len(s), i < p PROVE pr[s[i]] >= pr[e]
      BY <1>1, <3>1
    <3>2. ASSUME NEW i \in 1..Len(s), i >= p PROVE pr[s[i]] <= pr[e]
      <4>1. p \in 1..Len(s) /\ pr[s[p]] >= pr[s[i]]
        BY <2>2, <3>2
      <4> QED
        BY <4>1, <1>1, <2>1
    <3> QED
      BY <3>1, <3>2
  <2>4. SUFFICES ASSUME NEW i \in 1..Len(q), NEW j \in 1..Len(q), i < j
                 PROVE  pr[q[i]] >= pr[q[j]]
    BY DEF Decreasing
  <2>5. CASE j < p
    <3>1. q[i] = s[i] /\ q[j] = s[j] /\ i \in 1..Len(s) /\ j \in 1..Len(s)
      BY <2>4, <2>5, <1>3, <1>a, <1>b, <1>c
    <3> QED
      BY <3>1, <2>1, <2>2, <2>3, <2>4
  <2>6. CASE j = p
    <3>1. i < p /\ i \in 1..(p - 1)
      BY <2>4, <2>6, <1>3
    <3>2. q[i] = s[i]
      BY <3>1, <1>a
    <3>3. q[j] = e
      BY <2>6, <1>b
    <3>4. pr[s[i]] >= pr[e]
      BY <3>1, <1>1
    <3> QED
      BY <3>2, <3>3, <3>4
  <2>7. CASE j > p /\ i < p
    <3>1. q[i] = s[i] /\ i \in 1..Len(s)
      BY <2>7, <1>a
    <3>2. q[j] = s[j - 1] /\ j - 1 \in 1..Len(s)
      BY <2>7, <1>c
    <3>3. i <= j - 1
      BY <2>7
    <3>4. pr[s[i]] >= pr[s[j - 1]]
      BY <3>1, <3>2, <3>3, <2>2
    <3> QED
      BY <3>1, <3>2, <3>4
  <2>8. CASE j > p /\ i = p
    <3>1. q[i] = e /\ q[j] = s[j - 1] /\ j - 1 \in 1..Len(s) /\ j - 1 >= p
      BY <2>4, <2>8, <1>3, <1>a, <1>b, <1>c
    <3> QED
      BY <3>1, <2>1, <2>2, <2>3, <2>4
  <2>9. CASE j > p /\ i > p
    <3>1. q[i] = s[i - 1] /\ q[j] = s[j - 1] /\ i - 1 \in 1..Len(s) /\ j - 1 \in 1..Len(s) /\ i - 1 <= j - 1
      BY <2>4, <2>9, <1>3, <1>a, <1>b, <1>c
    <3> QED
      BY <3>1, <2>1, <2>2, <2>3, <2>4
  <2> QED
    BY <2>5, <2>6, <2>7, <2>8, <2>9
<1>7. q # << >>
  BY <1>3
<1> QED
  BY <1>1, <1>3, <1>4, <1>5, <1>6, <1>7 DEF q

\* The same for an element that is not yet linked, as everywhere in the kernel.
LEMMA InsertFresh ==
    ASSUME NEW S, NEW s \in Seq(S), NEW pr \in [S -> Nat], NEW e \in S,
           NoRepeat(s), e \notin Range(s)
    PROVE  /\ InsertOrdered(s, e, pr) \in Seq(S)
           /\ NoRepeat(InsertOrdered(s, e, pr))
           /\ Range(InsertOrdered(s, e, pr)) = Range(s) \cup {e}
  BY InsertOrderedProps

\* The elements before position i keep their places, those after it move up.
LEMMA RemoveAtElements ==
    ASSUME NEW S, NEW s \in Seq(S), NEW i \in 1..Len(s)
    PROVE  /\ RemoveAt(s, i) \in Seq(S) /\ Len(RemoveAt(s, i)) = Len(s) - 1
           /\ \A k \in 1..(Len(s) - 1) :
                RemoveAt(s, i)[k] = IF k < i THEN s[k] ELSE s[k + 1]
<1> DEFINE q == RemoveAt(s, i)
           a == SubSeq(s, 1, i - 1)
           b == SubSeq(s, i + 1, Len(s))
<1>1. a \in Seq(S) /\ Len(a) = i - 1 /\ \A k \in 1..(i - 1) : a[k] = s[k]
  OBVIOUS
<1>2. b \in Seq(S) /\ Len(b) = Len(s) - i /\ \A k \in 1..(Len(s) - i) : b[k] = s[i + k]
  OBVIOUS
<1>3. q = a \o b
  BY DEF RemoveAt
<1> HIDE DEF a, b, q
<1>4. q \in Seq(S) /\ Len(q) = Len(s) - 1 /\ Len(s) \in Nat
  BY <1>1, <1>2, <1>3
<1>5. ASSUME NEW k \in 1..(Len(s) - 1), k < i PROVE q[k] = s[k]
  BY <1>1, <1>2, <1>3, <1>5
<1>6. ASSUME NEW k \in 1..(Len(s) - 1), k >= i PROVE q[k] = s[k + 1]
  <2>1. k - (i - 1) \in 1..(Len(s) - i) /\ i + (k - (i - 1)) = k + 1
    BY <1>4, <1>6
  <2>2. q[k] = b[k - (i - 1)]
    BY <2>1, <1>1, <1>2, <1>3, <1>6
  <2> QED
    BY <2>1, <2>2, <1>2
<1> QED
  BY <1>4, <1>5, <1>6 DEF q

\* list_remove of the element at position i unlinks it and nothing else.
LEMMA RemoveAtProps ==
    ASSUME NEW S, NEW s \in Seq(S), NEW i \in 1..Len(s), NoRepeat(s)
    PROVE  /\ RemoveAt(s, i) \in Seq(S)
           /\ NoRepeat(RemoveAt(s, i))
           /\ Range(RemoveAt(s, i)) = Range(s) \ {s[i]}
<1> DEFINE q == RemoveAt(s, i)
<1>1. /\ q \in Seq(S) /\ Len(q) = Len(s) - 1
      /\ \A k \in 1..(Len(s) - 1) : q[k] = IF k < i THEN s[k] ELSE s[k + 1]
  BY RemoveAtElements
<1> HIDE DEF q
<1>2. \A j, k \in 1..Len(s) : j # k => s[j] # s[k]
  BY DEF NoRepeat
<1>3. ASSUME NEW k \in 1..Len(q), k < i PROVE q[k] = s[k] /\ k \in 1..Len(s)
  BY <1>1, <1>3
<1>4. ASSUME NEW k \in 1..Len(q), k >= i PROVE q[k] = s[k + 1] /\ k + 1 \in 1..Len(s)
  BY <1>1, <1>4
<1>5. /\ \A x : x \in Range(s) <=> \E k \in 1..Len(s) : s[k] = x
      /\ \A x : x \in Range(q) <=> \E k \in 1..Len(q) : q[k] = x
  BY <1>1, InRange
<1>6. NoRepeat(q)
  <2> SUFFICES ASSUME NEW j \in 1..Len(q), NEW k \in 1..Len(q), j < k PROVE q[j] # q[k]
    BY <1>1 DEF NoRepeat
  <2>1. CASE k < i
    BY <2>1, <1>2, <1>3
  <2>2. CASE j < i /\ k >= i
    <3>1. q[j] = s[j] /\ j \in 1..Len(s)
      BY <2>2, <1>3
    <3>2. q[k] = s[k + 1] /\ k + 1 \in 1..Len(s) /\ j # k + 1
      BY <2>2, <1>4
    <3> QED
      BY <3>1, <3>2, <1>2
  <2>3. CASE j >= i
    <3>1. q[j] = s[j + 1] /\ j + 1 \in 1..Len(s)
      BY <2>3, <1>4
    <3>2. q[k] = s[k + 1] /\ k + 1 \in 1..Len(s) /\ j + 1 # k + 1
      BY <2>3, <1>4
    <3> QED
      BY <3>1, <3>2, <1>2
  <2> QED
    BY <2>1, <2>2, <2>3
<1>7. ASSUME NEW k \in 1..Len(q) PROVE q[k] \in Range(s) \ {s[i]}
  <2>1. CASE k < i
    BY <2>1, <1>2, <1>3, <1>5
  <2>2. CASE k >= i
    <3>1. q[k] = s[k + 1] /\ k + 1 \in 1..Len(s) /\ k + 1 # i
      BY <2>2, <1>4
    <3> QED
      BY <3>1, <1>2, <1>5
  <2> QED
    BY <2>1, <2>2
<1>8. ASSUME NEW k \in 1..Len(s), k # i PROVE s[k] \in Range(q)
  <2>1. CASE k < i
    <3>1. k \in 1..Len(q) /\ q[k] = s[k]
      BY <2>1, <1>1
    <3> QED
      BY <3>1, <1>5
  <2>2. CASE k > i
    <3>1. k - 1 \in 1..Len(q) /\ k - 1 >= i /\ (k - 1) + 1 = k
      BY <2>2, <1>1
    <3>2. q[k - 1] = s[k]
      BY <3>1, <1>4
    <3> QED
      BY <3>1, <3>2, <1>5
  <2> QED
    BY <2>1, <2>2, <1>8
<1>9. Range(q) = Range(s) \ {s[i]}
  BY <1>5, <1>7, <1>8
<1> QED
  BY <1>1, <1>6, <1>9 DEF q

\* list_pop_front unlinks the front element and nothing else.
LEMMA TailProps ==
    ASSUME NEW S, NEW s \in Seq(S), s # << >>, NoRepeat(s)
    PROVE  /\ Head(s) \in S
           /\ Head(s) \in Range(s)
           /\ Tail(s) \in Seq(S)
           /\ NoRepeat(Tail(s))
           /\ Range(Tail(s)) = Range(s) \ {Head(s)}
<1>1. /\ Len(s) \in Nat \ {0} /\ Head(s) = s[1] /\ Tail(s) \in Seq(S)
      /\ Len(Tail(s)) = Len(s) - 1
      /\ \A k \in 1..(Len(s) - 1) : Tail(s)[k] = s[k + 1]
  BY HeadTailProperties, LenProperties
<1>2. \A j, k \in 1..Len(s) : j # k => s[j] # s[k]
  BY DEF NoRepeat
<1>3. ASSUME NEW k \in 1..Len(Tail(s)) PROVE Tail(s)[k] = s[k + 1] /\ k + 1 \in 2..Len(s)
  BY <1>1
<1>4. /\ \A x : x \in Range(s) <=> \E k \in 1..Len(s) : s[k] = x
      /\ \A x : x \in Range(Tail(s)) <=> \E k \in 1..Len(Tail(s)) : Tail(s)[k] = x
  BY <1>1, InRange
<1>5. NoRepeat(Tail(s))
  <2> SUFFICES ASSUME NEW j \in 1..Len(Tail(s)), NEW k \in 1..Len(Tail(s)), j # k
               PROVE  Tail(s)[j] # Tail(s)[k]
    BY DEF NoRepeat
  <2>1. Tail(s)[j] = s[j + 1] /\ j + 1 \in 2..Len(s)
    BY <1>3
  <2>2. Tail(s)[k] = s[k + 1] /\ k + 1 \in 2..Len(s) /\ j + 1 # k + 1
    BY <1>3, <1>1
  <2> QED
    BY <2>1, <2>2, <1>1, <1>2
<1>6. ASSUME NEW k \in 1..Len(Tail(s)) PROVE Tail(s)[k] \in Range(s) \ {s[1]}
  <2>1. Tail(s)[k] = s[k + 1] /\ k + 1 \in 1..Len(s) /\ k + 1 # 1 /\ 1 \in 1..Len(s)
    BY <1>1, <1>3
  <2> QED
    BY <2>1, <1>2, <1>4
<1>7. ASSUME NEW k \in 1..Len(s), k # 1 PROVE s[k] \in Range(Tail(s))
  <2>1. k - 1 \in 1..Len(Tail(s)) /\ (k - 1) + 1 = k
    BY <1>1, <1>7
  <2>2. Tail(s)[k - 1] = s[k]
    BY <2>1, <1>3
  <2> QED
    BY <2>1, <2>2, <1>4
<1>8. Range(Tail(s)) = Range(s) \ {s[1]}
  BY <1>4, <1>6, <1>7
<1> QED
  BY <1>1, <1>4, <1>5, <1>8

\* list_push_back links the new element behind the others.
LEMMA AppendProps ==
    ASSUME NEW S, NEW s \in Seq(S), NEW e \in S
    PROVE  /\ Append(s, e) \in Seq(S)
           /\ Range(Append(s, e)) = Range(s) \cup {e}
           /\ NoRepeat(s) /\ e \notin Range(s) => NoRepeat(Append(s, e))
<1>1. /\ Append(s, e) \in Seq(S) /\ Len(Append(s, e)) = Len(s) + 1 /\ Len(s) \in Nat
      /\ \A k \in 1..Len(s) : Append(s, e)[k] = s[k]
      /\ Append(s, e)[Len(s) + 1] = e
  BY AppendProperties, LenProperties
<1>2. /\ \A x : x \in Range(s) <=> \E k \in 1..Len(s) : s[k] = x
      /\ \A x : x \in Range(Append(s, e)) <=>
                \E k \in 1..Len(Append(s, e)) : Append(s, e)[k] = x
  BY <1>1, InRange
<1>3. \A k \in 1..Len(Append(s, e)) : k \in 1..Len(s) \/ k = Len(s) + 1
  BY <1>1
<1>4. Range(Append(s, e)) = Range(s) \cup {e}
  <2>1. ASSUME NEW k \in 1..Len(Append(s, e)) PROVE Append(s, e)[k] \in Range(s) \cup {e}
    BY <1>1, <1>2, <1>3
  <2>2. ASSUME NEW k \in 1..Len(s) PROVE s[k] \in Range(Append(s, e))
    <3>1. k \in 1..Len(Append(s, e))
      BY <1>1
    <3> QED
      BY <3>1, <1>1, <1>2
  <2>3. e \in Range(Append(s, e))
    BY <1>1, <1>2
  <2> QED
    BY <1>2, <2>1, <2>2, <2>3
<1>5. ASSUME NoRepeat(s), e \notin Range(s) PROVE NoRepeat(Append(s, e))
  BY <1>1, <1>2, <1>3, <1>5 DEF NoRepeat
<1> QED
  BY <1>1, <1>4, <1>5

\* list_remove: the element is gone and no other.
LEMMA RemoveFirstProps ==
    ASSUME NEW S, NEW s \in Seq(S), NEW e, NoRepeat(s)
    PROVE  /\ RemoveFirst(s, e) \in Seq(S) /\ NoRepeat(RemoveFirst(s, e))
           /\ Range(RemoveFirst(s, e)) = Range(s) \ {e}
<1>1. CASE \E k \in 1..Len(s) : s[k] = e
  <2> DEFINE k == SelectInSeq(s, LAMBDA v : v = e)
  <2>1. k \in 1..Len(s) /\ s[k] = e
    <3> DEFINE I == {j \in 1..Len(s) : s[j] = e}
    <3>1. I \in SUBSET Nat /\ I # {}
      BY <1>1, LenProperties
    <3>2. Min(I) \in I
      BY <3>1, LeastElement
    <3>3. k = Min(I)
      BY <3>1 DEF SelectInSeq
    <3> QED
      BY <3>2, <3>3
  <2>2. RemoveFirst(s, e) = RemoveAt(s, k)
    BY <1>1 DEF RemoveFirst
  <2> HIDE DEF k
  <2>3. PICK n \in 1..Len(s) : n = k
    BY <2>1
  <2>4. RemoveFirst(s, e) = RemoveAt(s, n) /\ s[n] = e
    BY <2>1, <2>2, <2>3
  <2>5. /\ RemoveAt(s, n) \in Seq(S) /\ NoRepeat(RemoveAt(s, n))
        /\ Range(RemoveAt(s, n)) = Range(s) \ {s[n]}
    BY <2>3, RemoveAtProps
  <2> QED
    BY <2>4, <2>5
<1>2. CASE ~\E k \in 1..Len(s) : s[k] = e
  BY <1>2, InRange DEF RemoveFirst
<1> QED
  BY <1>1, <1>2

\* list_sort permutes: no element is lost and none is linked twice.
LEMMA SortedOfProps ==
    ASSUME NEW S, NEW s \in Seq(S), NEW pr \in [S -> Nat], NoRepeat(s),
           NEW q \in SortedOf(s, pr)
    PROVE  /\ q \in Seq(S)
           /\ NoRepeat(q)
           /\ Range(q) = Range(s)
           /\ s = << >> <=> q = << >>
<1>1. /\ q \in [1..Len(s) -> Range(s)] /\ Range(q) = Range(s)
      /\ \A i, j \in 1..Len(s) : i < j => \/ pr[q[i]] > pr[q[j]]
                                         \/ Before(s, q[i], q[j])
  BY DEF SortedOf
<1>2. Range(s) \subseteq S /\ Len(s) \in Nat
  BY RangeOfSeq, LenProperties
<1>3. q \in Seq(S) /\ Len(q) = Len(s)
  <2> DEFINE n == Len(s)
  <2>1. n \in Nat /\ q \in [1..n -> S]
    BY <1>1, <1>2
  <2> HIDE DEF n
  <2>2. q \in Seq(S) /\ Len(q) = n
    BY <2>1
  <2> QED
    BY <2>2 DEF n
<1>4. \A x : ~ Before(s, x, x)
  BY <1>2 DEF Before, NoRepeat
<1>5. NoRepeat(q)
  <2> SUFFICES ASSUME NEW i \in 1..Len(q), NEW j \in 1..Len(q), i < j, q[i] = q[j]
               PROVE  FALSE
    BY <1>2, <1>3 DEF NoRepeat
  <2>1. pr[q[i]] \in Nat
    BY <1>1, <1>2, <1>3
  <2>2. pr[q[i]] > pr[q[j]] \/ Before(s, q[i], q[j])
    BY <1>1, <1>3
  <2> QED
    BY <2>1, <2>2, <1>4
<1> QED
  BY <1>1, <1>2, <1>3, <1>5

\* The order survives list_pop_front.
LEMMA TailDecreasing ==
    ASSUME NEW S, NEW s \in Seq(S), NEW pr, s # << >>, Decreasing(s, pr)
    PROVE  Decreasing(Tail(s), pr)
<1>1. /\ Len(s) \in Nat /\ Len(Tail(s)) = Len(s) - 1
      /\ \A k \in 1..(Len(s) - 1) : Tail(s)[k] = s[k + 1]
  BY HeadTailProperties, LenProperties
<1> SUFFICES ASSUME NEW i \in 1..Len(Tail(s)), NEW j \in 1..Len(Tail(s)), i < j
             PROVE  pr[Tail(s)[i]] >= pr[Tail(s)[j]]
  BY DEF Decreasing
<1>2. Tail(s)[i] = s[i + 1] /\ Tail(s)[j] = s[j + 1]
  BY <1>1
<1>3. i + 1 \in 1..Len(s) /\ j + 1 \in 1..Len(s) /\ i + 1 < j + 1
  BY <1>1
<1> QED
  BY <1>2, <1>3 DEF Decreasing

\* A list stays in order when the keys of its own elements do not change.
LEMMA DecreasingSameKeys ==
    ASSUME NEW S, NEW s \in Seq(S), NEW pr, NEW pr2, Decreasing(s, pr),
           \A x \in Range(s) : pr2[x] = pr[x]
    PROVE  Decreasing(s, pr2)
<1> SUFFICES ASSUME NEW i \in 1..Len(s), NEW j \in 1..Len(s), i < j
             PROVE  pr2[s[i]] >= pr2[s[j]]
  BY DEF Decreasing
<1>1. s[i] \in Range(s) /\ s[j] \in Range(s)
  BY InRange
<1>2. pr[s[i]] >= pr[s[j]]
  BY DEF Decreasing
<1> QED
  BY <1>1, <1>2

\* The front of a list in order has the highest key.
LEMMA FrontIsHighest ==
    ASSUME NEW S, NEW s \in Seq(S), NEW pr \in [S -> Nat], s # << >>, Decreasing(s, pr)
    PROVE  \A x \in Range(s) : pr[x] <= pr[Head(s)]
<1> SUFFICES ASSUME NEW i \in 1..Len(s) PROVE pr[s[i]] <= pr[s[1]]
  BY InRange, HeadTailProperties
<1>1. 1 \in 1..Len(s) /\ s[i] \in S /\ s[1] \in S
  BY ElementOfSeq
<1>2. CASE i = 1
  BY <1>1, <1>2
<1>3. CASE i > 1
  BY <1>1, <1>3 DEF Decreasing
<1> QED
  BY <1>2, <1>3
=============================================================================
