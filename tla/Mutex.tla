-------------------------------- MODULE Mutex --------------------------------
(***************************************************************************)
(* What a lock promises, after the comment of lock_init in                 *)
(* threads/synch.c: it is owned by at most one thread at a time, a free    *)
(* lock is taken by one thread, and only the thread that owns it gives it  *)
(* back.  owner[l] is the set of the owners of l.                          *)
(***************************************************************************)
CONSTANTS Owner, Resource
VARIABLE owner

Init == owner = [l \in Resource |-> {}]

Take(t, l) == owner[l] = {} /\ owner' = [owner EXCEPT ![l] = {t}]
Give(t, l) == owner[l] = {t} /\ owner' = [owner EXCEPT ![l] = {}]

Next == \E t \in Owner, l \in Resource : Take(t, l) \/ Give(t, l)

Spec == Init /\ [][Next]_owner
=============================================================================
