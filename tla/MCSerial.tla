------------------------------ MODULE MCSerial ------------------------------
(* Small instances of Serial for TLC: two writers, or two readers, or one  *)
(* of each; the bytes differ on the side where two threads compete.        *)
EXTENDS Serial, Functions

CONSTANTS w1, w2, r1, r2

VARIABLE scene

MCWriters == {w1, w2}
MCReaders == {r1, r2}
One == {SomeByte}
Scenes ==
    {[who |-> MCWriters, printed |-> Bytes, typed |-> One],
     [who |-> MCReaders, printed |-> One, typed |-> Bytes],
     [who |-> {w1, r1}, printed |-> One, typed |-> One]}

MCInit == Init /\ scene \in Scenes

(* What the scene leaves out: the other threads, the other bytes.          *)
InScene ==
    /\ \A t \in Threads \ scene.who : pc'[t] = "idle"
    /\ Range(Contents(txq')) \subseteq scene.printed
    /\ Range(Contents(inq')) \cup {rbr'} \subseteq scene.typed \cup {Nobody}

MCNext == Next /\ InScene /\ UNCHANGED scene
MCSpec == MCInit /\ [][MCNext]_<<vars, scene>> /\ WF_vars(Shift) /\ WF_vars(SerialInterrupt)
=============================================================================
