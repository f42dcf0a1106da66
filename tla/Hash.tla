-------------------------------- MODULE Hash --------------------------------
(***************************************************************************)
(* The chained hash table of src/lib/kernel/hash.c, with the rehash that   *)
(* every insertion and deletion ends in and the malloc in it that may fail.*)
(* A bucket is the sequence of its elements, front first.  The minimum of  *)
(* four buckets and the best load of two elements per bucket are           *)
(* parameters, so that small tables grow and shrink.                       *)
(***************************************************************************)
EXTENDS Naturals, SequencesExt

CONSTANTS
  Elems, None,
  key,               \* element -> what the comparison function compares
  hash,              \* key -> its hash value
  MinBuckets,        \* 4 in the code
  BestElemsPerBucket \* BEST_ELEMS_PER_BUCKET, 2 in the code

VARIABLES buckets, elem_cnt, ret

vars == <<buckets, elem_cnt, ret>>

NewBuckets(n) == [i \in 0..n - 1 |-> <<>>]
BucketCnt(bs) == Cardinality(DOMAIN bs)

(* hash_init, whose malloc succeeds: the table exists.                     *)
Init == buckets = NewBuckets(MinBuckets) /\ elem_cnt = 0 /\ ret = None

(* find_bucket: bucket_cnt is a power of 2, so the & is a remainder.       *)
FindBucket(bs, e) == hash[key[e]] % BucketCnt(bs)

FindElem(e) ==
    LET s == buckets[FindBucket(buckets, e)]
        hits == {i \in DOMAIN s : key[s[i]] = key[e]} IN
    IF hits = {} THEN None ELSE s[CHOOSE i \in hits : \A j \in hits : i <= j]

PushFront(bs, e) == [bs EXCEPT ![FindBucket(bs, e)] = <<e>> \o @]
Without(bs, e) == [bs EXCEPT ![FindBucket(bs, e)] = Remove(@, e)]

(* The number of buckets rehash wants: a power of 2, at least MinBuckets.  *)
Wanted(cnt) ==
    LET n == cnt \div BestElemsPerBucket
        pow[i \in Nat] == IF i = 0 THEN 1 ELSE 2 * pow[i - 1] IN
    IF n < MinBuckets THEN MinBuckets
    ELSE pow[CHOOSE i \in 0..n : pow[i] <= n /\ n < 2 * pow[i]]

\* The elements in the order in which rehash moves them: bucket by bucket.
All(bs) == FlattenSeq([i \in 1..BucketCnt(bs) |-> bs[i - 1]])

\* The new table; the mutant moves an element to its old bucket's number.
MovedByOld(bs, n) == [i \in 0..n - 1 |-> IF i \in DOMAIN bs THEN bs[i] ELSE <<>>]
Moved(bs, n) == FoldLeft(PushFront, NewBuckets(n), All(bs))

(* rehash: nothing if the size would not change or malloc fails.           *)
Rehash(bs, cnt) ==
    /\ elem_cnt' = cnt
    /\ \/ Wanted(cnt) = BucketCnt(bs) /\ buckets' = bs
       \/ Wanted(cnt) # BucketCnt(bs) /\ buckets' = Moved(bs, Wanted(cnt))
       \/ Wanted(cnt) # BucketCnt(bs) /\ buckets' = bs   \* malloc failed
-----------------------------------------------------------------------------
Entered == UNION {Range(buckets[i]) : i \in DOMAIN buckets}

HashInsert == \E e \in Elems \ Entered :
    /\ ret' = FindElem(e)
    /\ IF FindElem(e) = None THEN Rehash(PushFront(buckets, e), elem_cnt + 1)
       ELSE Rehash(buckets, elem_cnt)

HashReplace == \E e \in Elems \ Entered :
    LET old == FindElem(e) IN
    /\ ret' = old
    /\ IF old = None THEN Rehash(PushFront(buckets, e), elem_cnt + 1)
       ELSE Rehash(PushFront(Without(buckets, old), e), elem_cnt)

HashFind == \E e \in Elems : ret' = FindElem(e) /\ UNCHANGED <<buckets, elem_cnt>>

HashDelete == \E e \in Elems :
    /\ ret' = FindElem(e)
    /\ IF FindElem(e) = None THEN UNCHANGED <<buckets, elem_cnt>>
       ELSE Rehash(Without(buckets, FindElem(e)), elem_cnt - 1)

(* hash_clear keeps the number of buckets.                                 *)
HashClear ==
    /\ buckets' = NewBuckets(BucketCnt(buckets)) /\ elem_cnt' = 0
    /\ ret' = None

Next == HashInsert \/ HashReplace \/ HashFind \/ HashDelete \/ HashClear
Spec == Init /\ [][Next]_vars
-----------------------------------------------------------------------------
(* However often the table was resized, and wherever malloc failed, it is  *)
(* the set of the elements put in and not taken out: each is found, and    *)
(* hash_apply and the iterator, which go through the buckets, meet it once;*)
(* hash_size is their number.                                              *)
AsSet == INSTANCE Dict WITH dict <-
    IF IsInjective(All(buckets)) /\ elem_cnt = Len(All(buckets)) THEN Range(All(buckets))
    ELSE {None}
ImplementsDict == AsSet!Spec
=============================================================================
