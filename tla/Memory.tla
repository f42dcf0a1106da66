------------------------------- MODULE Memory -------------------------------
(***************************************************************************)
(* What user memory promises to user code: an address keeps the value last *)
(* written to it, wherever the page is; a child starts with the values of  *)
(* its parent; and the value last written to a mapped file is the file's.  *)
(*                                                                         *)
(* own[p][va] is the value at va of process p, None where p has no page    *)
(* of its own; map[p][va] is the page of the file mapped there, or None;   *)
(* contents[o] is what page o of the file holds for whoever looks at it    *)
(* through a mapping, or in the file when it is not mapped.                *)
(***************************************************************************)
CONSTANTS Proc, Va, FilePage, Value, None,
    Image    \* the value of the executable at each of its pages
VARIABLES own, map, contents
vars == <<own, map, contents>>

Nothing == [va \in Va |-> None]
Loaded == [va \in Va |-> IF va \in DOMAIN Image THEN Image[va] ELSE None]

\* At most the executable is there.
Init == /\ own \in [Proc -> {Nothing, Loaded}]
        /\ map = [p \in Proc |-> Nothing]
        /\ contents \in [FilePage -> Value]

Write(p, va, v) ==
    \/ /\ own[p][va] # None
       /\ own' = [own EXCEPT ![p][va] = v]
       /\ UNCHANGED <<map, contents>>
    \/ /\ map[p][va] # None
       /\ contents' = [contents EXCEPT ![map[p][va]] = v]
       /\ UNCHANGED <<own, map>>

Kept(p, va) == own'[p][va] = own[p][va] /\ map'[p][va] = map[p][va]

\* p gets pages, where it has none: of its own, with the value of the executable
\* or, at the other addresses, any value; or of the file.
Got(p, va) ==
    /\ own[p][va] = None /\ map[p][va] = None
    /\ \/ /\ own'[p][va] \in (IF va \in DOMAIN Image THEN {Image[va]} ELSE Value)
          /\ map'[p][va] = None
       \/ own'[p][va] = None /\ map'[p][va] \in FilePage

\* p loses pages, at the end of a mapping, in exec or in exit.
Lost(p, va) == own'[p][va] = None /\ map'[p][va] = None

Change(p) ==
    /\ own' \in [Proc -> [Va -> Value \cup {None}]]
    /\ map' \in [Proc -> [Va -> FilePage \cup {None}]]
    /\ \/ \A va \in Va : Kept(p, va) \/ Got(p, va)
       \/ \A va \in Va : Kept(p, va) \/ Lost(p, va)
    /\ \A q \in Proc \ {p}, va \in Va : Kept(q, va)
    /\ UNCHANGED contents

\* c starts with the pages that p has of its own.
Fork(p, c) ==
    /\ c # p
    /\ own[c] = Nothing
    /\ own' = [own EXCEPT ![c] = own[p]]
    /\ UNCHANGED <<map, contents>>

Next == \E p \in Proc : \/ Change(p)
                        \/ \E va \in Va, v \in Value : Write(p, va, v)
                        \/ \E c \in Proc : Fork(p, c)

Spec == Init /\ [][Next]_vars
=============================================================================
