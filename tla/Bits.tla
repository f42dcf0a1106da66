-------------------------------- MODULE Bits --------------------------------
(***************************************************************************)
(* What a bitmap promises: a set of numbers below its size, changed,       *)
(* asked about and searched range by range, and kept in a file.            *)
(***************************************************************************)
EXTENDS Naturals, FiniteSets

CONSTANT None

VARIABLES size,   \* the number of bits
          exists, \* the bitmap has been created and not destroyed
          on,     \* the numbers whose bit is true
          stored, \* those the file holds
          last    \* the last call: its name, its arguments and its result

vars == <<size, exists, on, stored, last>>

Index == 0..size - 1
Group(start, cnt) == {i \in Index : start <= i /\ i < start + cnt}
Having(value) == IF value THEN on ELSE Index \ on
Turn(is, value) == on' = IF value THEN on \cup is ELSE on \ is

(* The first group of cnt bits of that value at or after start.            *)
Groups(start, cnt, value) ==
    {i \in start..size : i + cnt <= size /\ Group(i, cnt) \subseteq Having(value)}
FirstGroup(start, cnt, value) ==
    LET found == Groups(start, cnt, value) IN
    IF found = {} THEN None ELSE CHOOSE i \in found : \A j \in found : i <= j

Init == exists = FALSE /\ on = {} /\ stored \subseteq Index /\ last = <<"none">>

(* All bits are false; there may be no memory for it.                      *)
Create ==
    /\ ~exists
    /\ exists' \in BOOLEAN /\ on' = {} /\ last' = <<"create", exists'>>
    /\ UNCHANGED <<size, stored>>

Set(start, cnt, value) ==
    /\ exists
    /\ Turn(Group(start, cnt), value) /\ last' = <<"set", start, cnt, value>>
    /\ UNCHANGED <<size, exists, stored>>

Flip(i) ==
    /\ exists
    /\ Turn({i}, i \notin on) /\ last' = <<"flip", i>>
    /\ UNCHANGED <<size, exists, stored>>

Count(start, cnt, value) ==
    /\ exists
    /\ last' = <<"count", start, cnt, value, Cardinality(Group(start, cnt) \cap Having(value))>>
    /\ UNCHANGED <<size, exists, on, stored>>

Contains(start, cnt, value) ==
    /\ exists
    /\ last' = <<"contains", start, cnt, value, Group(start, cnt) \cap Having(value) # {}>>
    /\ UNCHANGED <<size, exists, on, stored>>

(* A search, and one that flips the group it finds.  What the second says  *)
(* when it is asked for no bits is left open: its comment has it that it   *)
(* answers 0, the first group of no bits is at start.                      *)
Answers(start, cnt, value, flip) ==
    {FirstGroup(start, cnt, value)} \cup IF flip /\ cnt = 0 THEN {0} ELSE {}
Scan(start, cnt, value, flip) ==
    /\ exists
    /\ \E i \in Answers(start, cnt, value, flip) :
         /\ last' = <<"scan", start, cnt, value, flip, i>>
         /\ IF flip /\ i # None THEN Turn(Group(i, cnt), ~value) ELSE UNCHANGED on
    /\ UNCHANGED <<size, exists, stored>>

(* The file takes the bits, or the bits come from it; a short transfer     *)
(* stops somewhere and fails.                                              *)
Mixed(new, old, n) == {i \in Index : IF i < n THEN i \in new ELSE i \in old}

Write ==
    /\ exists
    /\ \/ stored' = on /\ last' = <<"write", TRUE>>
       \/ \E n \in Index : stored' = Mixed(on, stored, n) /\ last' = <<"write", FALSE>>
    /\ UNCHANGED <<size, exists, on>>

Read ==
    /\ exists
    /\ \/ on' = stored /\ last' = <<"read", TRUE>>
       \/ \E n \in Index : on' = Mixed(stored, on, n) /\ last' = <<"read", FALSE>>
    /\ UNCHANGED <<size, exists, stored>>

Destroy == exists' = FALSE /\ on' = {} /\ last' = <<"destroy">> /\ UNCHANGED <<size, stored>>

Next ==
    \/ Create \/ Write \/ Read \/ Destroy
    \/ \E i \in Index : Flip(i)
    \/ \E start \in 0..size, cnt \in 0..size + 1, value \in BOOLEAN :
          \/ Set(start, cnt, value)
          \/ Count(start, cnt, value) \/ Contains(start, cnt, value)
          \/ \E flip \in BOOLEAN : Scan(start, cnt, value, flip)

Spec == Init /\ [][Next]_vars
=============================================================================
