------------------------------- MODULE Bitmap -------------------------------
(***************************************************************************)
(* src/lib/kernel/bitmap.c: the bits in words.  A word is the set of the   *)
(* positions at which it has a 1, so that a mask is a set, and "or", "and  *)
(* not" and "xor" are union, difference and symmetric difference.  What    *)
(* the last word holds beyond bit_cnt is whatever the memory held: no      *)
(* function clears it, and bitmap_write writes it to the file.             *)
(*                                                                         *)
(* One step per function.  That a scan and the flips of its bits are       *)
(* separate steps, with other threads between them, is in Alloc.           *)
(***************************************************************************)
EXTENDS Naturals, FiniteSets

CONSTANTS ELEM_BITS, \* the width of a word, 64 in the code
          None,      \* BITMAP_ERROR
          BitCnts    \* bound: the sizes a bitmap is created with

BitmapAssumption == ELEM_BITS \in Nat \ {0} /\ BitCnts \subseteq Nat

VARIABLES bit_cnt, bits, live, file, call

bitmapVars == <<bit_cnt, bits, live, file, call>>

elem_idx(i) == i \div ELEM_BITS
bit_mask(i) == {i % ELEM_BITS}
elem_cnt == (bit_cnt + ELEM_BITS - 1) \div ELEM_BITS
Words == [0..elem_cnt - 1 -> SUBSET (0..ELEM_BITS - 1)]

(* The positions of the last word that are in use; all of a full word.     *)
last_mask ==
    LET last_bits == bit_cnt % ELEM_BITS IN
    IF last_bits # 0 THEN 0..last_bits - 1 ELSE 0..ELEM_BITS - 1

Test(b, i) == b[elem_idx(i)] \cap bit_mask(i) # {}
Marked(b, i) == [b EXCEPT ![elem_idx(i)] = @ \cup bit_mask(i)]
Cleared(b, i) == [b EXCEPT ![elem_idx(i)] = @ \ bit_mask(i)]
Toggled(b, i) == [b EXCEPT ![elem_idx(i)] = (@ \ bit_mask(i)) \cup (bit_mask(i) \ @)]

(* bitmap_set_multiple: its loop sets the bits one by one, which comes to  *)
(* this for each word.                                                     *)
Group(start, cnt) == {i \in 0..bit_cnt - 1 : start <= i /\ i < start + cnt}
Assigned(b, is, value) ==
    [w \in DOMAIN b |->
        LET mask == UNION {bit_mask(i) : i \in {j \in is : elem_idx(j) = w}} IN
        IF value THEN b[w] \cup mask ELSE b[w] \ mask]

BitmapInit ==
    /\ bit_cnt \in BitCnts
    /\ file \in Words /\ bits \in Words
    /\ live = FALSE /\ call = <<"none">>
-----------------------------------------------------------------------------
(* bitmap_create, which may find no memory, and bitmap_create_in_buf: the  *)
(* words hold what was there, and set_all clears the bits in use.          *)
Create ==
    /\ ~live
    /\ \/ \E b \in Words :
             /\ bits' = Assigned(b, Group(0, bit_cnt), FALSE)
             /\ live' = TRUE /\ call' = <<"create", TRUE>>
       \/ call' = <<"create", FALSE>> /\ UNCHANGED <<bits, live>>
    /\ UNCHANGED <<bit_cnt, file>>

(* bitmap_set, bitmap_mark and bitmap_reset of one bit; bitmap_set_all and *)
(* bitmap_set_multiple.                                                    *)
BitmapSet(i, value) ==
    /\ live /\ i < bit_cnt
    /\ bits' = IF value THEN Marked(bits, i) ELSE Cleared(bits, i)
    /\ call' = <<"set", i, 1, value>>
    /\ UNCHANGED <<bit_cnt, live, file>>

BitmapFlip(i) ==
    /\ live /\ i < bit_cnt
    /\ bits' = Toggled(bits, i)
    /\ call' = <<"flip", i>>
    /\ UNCHANGED <<bit_cnt, live, file>>

BitmapSetMultiple(start, cnt, value) ==
    /\ live /\ start + cnt <= bit_cnt
    /\ bits' = Assigned(bits, Group(start, cnt), value)
    /\ call' = <<"set", start, cnt, value>>
    /\ UNCHANGED <<bit_cnt, live, file>>

BitmapCount(start, cnt, value) ==
    /\ live /\ start + cnt <= bit_cnt
    /\ call' = <<"count", start, cnt, value,
                 Cardinality({i \in Group(start, cnt) : Test(bits, i) = value})>>
    /\ UNCHANGED <<bit_cnt, bits, live, file>>

(* bitmap_contains, and with it bitmap_any, bitmap_none and bitmap_all.    *)
Found(start, cnt, value) == \E i \in Group(start, cnt) : Test(bits, i) = value
BitmapContains(start, cnt, value) ==
    /\ live /\ start + cnt <= bit_cnt
    /\ call' = <<"contains", start, cnt, value, Found(start, cnt, value)>>
    /\ UNCHANGED <<bit_cnt, bits, live, file>>
-----------------------------------------------------------------------------
\* The last place bitmap_scan looks at; the mutant leaves one out.
LastShort(cnt) == bit_cnt - cnt - 1
LastPlace(cnt) == bit_cnt - cnt

(* bitmap_scan: nothing if cnt is more than there is.                      *)
Places(start, cnt, value) ==
    IF cnt > bit_cnt THEN {}
    ELSE {i \in start..LastPlace(cnt) : ~Found(i, cnt, ~value)}
ScanResult(start, cnt, value) ==
    LET found == Places(start, cnt, value) IN
    IF found = {} THEN None ELSE CHOOSE i \in found : \A j \in found : i <= j

BitmapScan(start, cnt, value) ==
    /\ live /\ start <= bit_cnt
    /\ call' = <<"scan", start, cnt, value, FALSE, ScanResult(start, cnt, value)>>
    /\ UNCHANGED <<bit_cnt, bits, live, file>>

BitmapScanAndFlip(start, cnt, value) ==
    LET idx == ScanResult(start, cnt, value) IN
    /\ live /\ start <= bit_cnt
    /\ call' = <<"scan", start, cnt, value, TRUE, idx>>
    /\ bits' = IF idx # None THEN Assigned(bits, Group(idx, cnt), ~value) ELSE bits
    /\ UNCHANGED <<bit_cnt, live, file>>
-----------------------------------------------------------------------------
(* The first n words of one, the others of the other: a transfer that      *)
(* stops after n words.                                                    *)
Mixed(new, old, n) == [w \in DOMAIN old |-> IF w < n THEN new[w] ELSE old[w]]

BitmapWrite ==
    /\ live
    /\ \/ file' = bits /\ call' = <<"write", TRUE>>
       \/ \E n \in 0..elem_cnt - 1 : file' = Mixed(bits, file, n) /\ call' = <<"write", FALSE>>
    /\ UNCHANGED <<bit_cnt, bits, live>>

\* bitmap_read masks the last word, whatever file_read_at returned.
Masked(b) == [b EXCEPT ![elem_cnt - 1] = @ \cap last_mask]
BitmapRead ==
    /\ live
    /\ IF bit_cnt = 0 THEN UNCHANGED bits /\ call' = <<"read", TRUE>>
       ELSE \/ bits' = Masked(file) /\ call' = <<"read", TRUE>>
            \/ \E n \in 0..elem_cnt - 1 :
                  bits' = Masked(Mixed(file, bits, n)) /\ call' = <<"read", FALSE>>
    /\ UNCHANGED <<bit_cnt, live, file>>

BitmapDestroy ==
    /\ live
    /\ live' = FALSE /\ call' = <<"destroy">>
    /\ UNCHANGED <<bit_cnt, bits, file>>

BitmapNext ==
    \/ Create \/ BitmapWrite \/ BitmapRead \/ BitmapDestroy
    \/ \E i \in 0..bit_cnt, value \in BOOLEAN : BitmapSet(i, value) \/ BitmapFlip(i)
    \/ \E start \in 0..bit_cnt, cnt \in 0..bit_cnt + 1, value \in BOOLEAN :
          \/ BitmapSetMultiple(start, cnt, value)
          \/ BitmapCount(start, cnt, value) \/ BitmapContains(start, cnt, value)
          \/ BitmapScan(start, cnt, value) \/ BitmapScanAndFlip(start, cnt, value)

BitmapSpec == BitmapInit /\ [][BitmapNext]_bitmapVars
-----------------------------------------------------------------------------
(* Whatever lies in the unused bits of the last word, at sizes on both     *)
(* sides of a word's end, through the file and back: the words are the set *)
(* of the bits that are 1, every function returns what that set says, and  *)
(* changes the bits it names and no other.                                 *)
SetOf(b) == {i \in 0..bit_cnt - 1 : Test(b, i)}
AsSet == INSTANCE Bits WITH size <- bit_cnt, exists <- live, last <- call,
             on <- IF live THEN SetOf(bits) ELSE {}, stored <- SetOf(file)
ImplementsBits == AsSet!Spec

(* A claim no run makes, which TLC refutes (README, section 6): the        *)
(* comment of bitmap_scan_and_flip, "If CNT is zero, returns 0".           *)
NoBitsAtZero == call[1] = "scan" /\ call[5] /\ call[3] = 0 => call[6] = 0
=============================================================================
