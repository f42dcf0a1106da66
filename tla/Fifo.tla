-------------------------------- MODULE Fifo --------------------------------
(***************************************************************************)
(* What a byte channel promises: the bytes come out in the order in which  *)
(* they were put in, each once.                                            *)
(***************************************************************************)
EXTENDS Sequences

CONSTANT Bytes

VARIABLES chan,   \* the bytes on their way
          out     \* the byte that came out last

Init == chan = <<>> /\ out \in Bytes
Send == \E b \in Bytes : chan' = Append(chan, b) /\ UNCHANGED out
Emit == chan # <<>> /\ out' = Head(chan) /\ chan' = Tail(chan)
Next == Send \/ Emit
Spec == Init /\ [][Next]_<<chan, out>>
=============================================================================
