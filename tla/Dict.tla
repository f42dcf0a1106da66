-------------------------------- MODULE Dict --------------------------------
(***************************************************************************)
(* What a hash table promises: a set of elements, no two of them equal, of *)
(* which the one equal to a given element is found, replaced or deleted.   *)
(***************************************************************************)
EXTENDS Naturals

CONSTANTS Elems, None,
          key       \* element -> what the comparison function compares

VARIABLES dict, ret \* the elements; what the last function returned
vars == <<dict, ret>>

EqualTo(e) == IF \E d \in dict : key[d] = key[e]
              THEN CHOOSE d \in dict : key[d] = key[e] ELSE None

Init == dict = {} /\ ret = None

Insert == \E e \in Elems \ dict :
    /\ ret' = EqualTo(e)
    /\ dict' = IF EqualTo(e) = None THEN dict \cup {e} ELSE dict
Replace == \E e \in Elems \ dict :
    ret' = EqualTo(e) /\ dict' = (dict \ {EqualTo(e)}) \cup {e}
Find == \E e \in Elems : ret' = EqualTo(e) /\ UNCHANGED dict
Delete == \E e \in Elems : ret' = EqualTo(e) /\ dict' = dict \ {EqualTo(e)}
Clear == dict' = {} /\ ret' = None

Next == Insert \/ Replace \/ Find \/ Delete \/ Clear
Spec == Init /\ [][Next]_vars
=============================================================================
