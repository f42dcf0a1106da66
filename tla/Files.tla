-------------------------------- MODULE Files --------------------------------
(***************************************************************************)
(* What the file system promises: a name leads to one file or to none; a   *)
(* file keeps what was written to it while it has a name or somebody has   *)
(* it open, whatever happens to others; nobody writes to it while an       *)
(* opener forbids it; and when the power goes nothing is lost but who had  *)
(* what open.                                                              *)
(***************************************************************************)
EXTENDS Functions, Sequences

CONSTANTS Name, Handle, Id, Value, Zero, None, MaxSize

VARIABLES
    link,     \* the file a name leads to, or None
    open,     \* the file of a handle, or None
    locked,   \* the handles that forbid writing
    content   \* what the files hold

InUse == Range(link) \cup Range(open)
Keep == content' = [id \in Id |-> IF id \in InUse' THEN content[id] ELSE None]

Init == /\ link = [n \in Name |-> None]
        /\ open = [h \in Handle |-> None]
        /\ locked = {}
        /\ content = [id \in Id |-> None]

Create(n) ==
    \E id \in Id \ InUse, size \in 0..MaxSize :
        /\ link[n] = None
        /\ link' = [link EXCEPT ![n] = id]
        /\ content' = [content EXCEPT ![id] = [k \in 1..size |-> Zero]]
        /\ UNCHANGED <<open, locked>>

Remove(n) == /\ link' = [link EXCEPT ![n] = None]
             /\ Keep
             /\ UNCHANGED <<open, locked>>

\* By name, or as another handle has it.
Open(h) == /\ open[h] = None
           /\ \E id \in InUse \ {None} : open' = [open EXCEPT ![h] = id]
           /\ locked' \in {locked, locked \cup {h}}
           /\ UNCHANGED <<link, content>>

Lock(h) == /\ open[h] # None
           /\ locked' = locked \cup {h}
           /\ UNCHANGED <<link, open, content>>

Close(h) == /\ open' = [open EXCEPT ![h] = None]
            /\ locked' = locked \ {h}
            /\ Keep
            /\ UNCHANGED link

Write(h, v) ==
    /\ open[h] # None
    /\ \A g \in locked : open[g] # open[h]
    /\ \E k \in DOMAIN content[open[h]] : content' = [content EXCEPT ![open[h]][k] = v]
    /\ UNCHANGED <<link, open, locked>>

PowerOff == /\ open' = [h \in Handle |-> None]
            /\ locked' = {}
            /\ Keep
            /\ UNCHANGED link

Next == \/ \E n \in Name : Create(n) \/ Remove(n)
        \/ \E h \in Handle : Open(h) \/ Lock(h) \/ Close(h) \/ \E v \in Value : Write(h, v)
        \/ PowerOff

Spec == Init /\ [][Next]_<<link, open, locked, content>>
=============================================================================
