------------------------------- MODULE Store --------------------------------
(***************************************************************************)
(* What disk_read and disk_write promise (src/devices/disk.c:206-209:      *)
(* "Internally synchronizes accesses to disks, so external per-disk        *)
(* locking is unneeded"): each call takes effect on the one sector it      *)
(* names, at one moment between its start and its return.                  *)
(***************************************************************************)
CONSTANTS Threads, Devices, Sectors, Values, NoCall

VARIABLES
  sector,   \* device -> sector -> contents
  call      \* thread -> NoCall, or [op, dev, sec, val, done]

Calls == [op : {"read", "write"}, dev : Devices, sec : Sectors,
          val : Values, done : {FALSE}]

Init ==
    /\ sector \in [Devices -> [Sectors -> Values]]
    /\ call = [t \in Threads |-> NoCall]

Start(t) ==
    /\ call[t] = NoCall
    /\ \E c \in Calls : call' = [call EXCEPT ![t] = c]
    /\ UNCHANGED sector

(* The moment the call takes effect; a read takes the value along.         *)
Do(t) ==
    LET c == call[t] IN
    /\ c # NoCall /\ ~c.done
    /\ IF c.op = "write"
       THEN /\ sector' = [sector EXCEPT ![c.dev][c.sec] = c.val]
            /\ call' = [call EXCEPT ![t].done = TRUE]
       ELSE /\ call' = [call EXCEPT ![t].done = TRUE, ![t].val = sector[c.dev][c.sec]]
            /\ UNCHANGED sector

Return(t) ==
    /\ call[t] # NoCall /\ call[t].done
    /\ call' = [call EXCEPT ![t] = NoCall]
    /\ UNCHANGED sector

Next == \E t \in Threads : Start(t) \/ Do(t) \/ Return(t)

vars == <<sector, call>>
Spec == Init /\ [][Next]_vars
=============================================================================
