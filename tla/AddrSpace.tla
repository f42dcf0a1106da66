------------------------------ MODULE AddrSpace ------------------------------
(***************************************************************************)
(* What the page tables promise: every process has a map of its own from   *)
(* user pages to entries, and an operation on one page of one process      *)
(* changes that entry alone.  A frame still mapped when the tables are     *)
(* destroyed goes back to the user pool.                                   *)
(***************************************************************************)
CONSTANTS Procs, VAs, Frames, Flags, None

VARIABLES space,  \* process -> page -> entry or None
          pool    \* the free frames of the user pool
vars == <<space, pool>>

NoMap == [v \in VAs |-> None]
Set(p, v, e) == space' = [space EXCEPT ![p][v] = e]

Init == space = [p \in Procs |-> NoMap] /\ pool = Frames

Map(p, v) == \E k \in pool :
    /\ \/ space[p][v] = None
       \/ space[p][v] # None /\ "P" \notin space[p][v].flags
    /\ Set(p, v, [to |-> k, flags |-> {"P"}])
    /\ pool' = pool \ {k}

Unmap(p, v) ==
    /\ space[p][v] # None /\ "P" \in space[p][v].flags
    /\ space' = [space EXCEPT ![p][v].flags = @ \ {"P"}]
    /\ pool' = pool \cup {space[p][v].to}

SetFlag(p, v) == \E f \in Flags, on \in BOOLEAN :
    /\ space[p][v] # None
    /\ space' = [space EXCEPT ![p][v].flags = IF on THEN @ \cup {f} ELSE @ \ {f}]
    /\ UNCHANGED pool

Destroy(p) ==
    /\ space' = [space EXCEPT ![p] = NoMap]
    /\ pool' = pool \cup {space[p][v].to : v \in {v \in VAs :
                             space[p][v] # None /\ "P" \in space[p][v].flags}}

Next == \E p \in Procs :
    Destroy(p) \/ \E v \in VAs : Map(p, v) \/ Unmap(p, v) \/ SetFlag(p, v)
Spec == Init /\ [][Next]_vars
=============================================================================
