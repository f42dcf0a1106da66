------------------------------ MODULE ByteFile ------------------------------
(***************************************************************************)
(* What read, write, seek, tell and filesize promise a program: a file is  *)
(* a fixed number of bytes; each call takes effect as a whole at one       *)
(* moment between its start and its return, on the bytes at the position   *)
(* of its descriptor, and moves that position by what it transferred.      *)
(***************************************************************************)
EXTENDS Integers

CONSTANTS Procs, Bytes, Length, NoCall,
          Limit,  \* the first number that is negative as an off_t
          Args,   \* the sizes and positions calls are made with
          Buffer  \* process -> the bytes it writes

VARIABLES
  content,  \* place -> byte
  pos,      \* process -> the position of its descriptor
  denied,   \* writing is denied
  call      \* process -> NoCall or [op, arg, short, done, count, data]

vars == <<content, pos, denied, call>>

Places == 0..Length - 1
Nothing == [i \in {} |-> 0]
New(op, arg) ==
    [op |-> op, arg |-> arg, short |-> FALSE, done |-> FALSE, count |-> 0, data |-> Nothing]

Init ==
    /\ content \in [Places -> Bytes] /\ pos = [p \in Procs |-> 0]
    /\ denied = FALSE /\ call = [p \in Procs |-> NoCall]

Start(p) ==
    /\ call[p] = NoCall
    /\ \E op \in {"read", "write", "seek", "tell", "filesize"}, arg \in Args :
          call' = [call EXCEPT ![p] = New(op, arg)]
    /\ UNCHANGED <<content, pos, denied>>

(* The bytes a transfer moves: up to the end of the file, none for a size  *)
(* that is negative; less if the call is short, for lack of memory.        *)
Room(p) == IF pos[p] < Length THEN Length - pos[p] ELSE 0
Whole(p) ==
    LET arg == call[p].arg IN
    IF arg >= Limit THEN 0 ELSE IF arg < Room(p) THEN arg ELSE Room(p)
Counts(p) ==
    IF call[p].op = "write" /\ denied THEN {[n |-> 0, short |-> FALSE]}
    ELSE {[n |-> Whole(p), short |-> FALSE]} \cup [n : 0..Whole(p) - 1, short : {TRUE}]
Done(p, c, count, data) ==
    call' = [call EXCEPT ![p].done = TRUE, ![p].short = c.short, ![p].count = count,
                         ![p].data = data]
Full == [n |-> 0, short |-> FALSE]

Read(p) == \E c \in Counts(p) :
    /\ call[p].op = "read"
    /\ Done(p, c, c.n, [i \in 0..c.n - 1 |-> content[pos[p] + i]])
    /\ pos' = [pos EXCEPT ![p] = @ + c.n]
    /\ UNCHANGED <<content, denied>>

Write(p) == \E c \in Counts(p) :
    /\ call[p].op = "write"
    /\ content' = [i \in Places |->
           IF pos[p] <= i /\ i < pos[p] + c.n THEN Buffer[p][i - pos[p]] ELSE content[i]]
    /\ pos' = [pos EXCEPT ![p] = @ + c.n]
    /\ Done(p, c, c.n, Nothing) /\ UNCHANGED denied

\* No result for a position that is negative: the kernel panics.
Seek(p) ==
    /\ call[p].op = "seek" /\ call[p].arg < Limit
    /\ pos' = [pos EXCEPT ![p] = call[p].arg]
    /\ Done(p, Full, 0, Nothing) /\ UNCHANGED <<content, denied>>

Tell(p) ==
    /\ call[p].op \in {"tell", "filesize"}
    /\ Done(p, Full, IF call[p].op = "tell" THEN pos[p] ELSE Length, Nothing)
    /\ UNCHANGED <<content, pos, denied>>

Do(p) == call[p] # NoCall /\ ~call[p].done /\ (Read(p) \/ Write(p) \/ Seek(p) \/ Tell(p))

Return(p) ==
    /\ call[p] # NoCall /\ call[p].done
    /\ call' = [call EXCEPT ![p] = NoCall]
    /\ UNCHANGED <<content, pos, denied>>

Deny == denied' \in BOOLEAN /\ UNCHANGED <<content, pos, call>>

Next == Deny \/ \E p \in Procs : Start(p) \/ Do(p) \/ Return(p)

Spec == Init /\ [][Next]_vars
=============================================================================
