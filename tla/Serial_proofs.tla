--------------------------- MODULE Serial_proofs ---------------------------
(***************************************************************************)
(* Proofs about Serial: what the ring buffer of intq.c holds after a put   *)
(* and after a get, that one thread prints at a time, that a thread asleep *)
(* at a queue is the one its interrupt wakes, and that both queues are     *)
(* byte channels, for any number of threads and any size of the buffer.    *)
(***************************************************************************)
EXTENDS Serial, SequenceTheorems, TLAPS

(* The ring buffer.                                                        *)

\* Positions wrap around once.
Wrapped(x) == IF x < INTQ_BUFSIZE THEN x ELSE x - INTQ_BUFSIZE

LEMMA Wrap ==
    ASSUME NEW x \in 0..(2 * INTQ_BUFSIZE - 1)
    PROVE  x % INTQ_BUFSIZE = Wrapped(x)
  BY IntqAssumption, Z3 DEF Wrapped

LEMMA NextPosIs ==
    ASSUME NEW p \in Places
    PROVE  NextPos(p) \in Places /\ NextPos(p) = IF p = INTQ_BUFSIZE - 1 THEN 0 ELSE p + 1
<1>1. p + 1 \in 0..(2 * INTQ_BUFSIZE - 1)
  BY IntqAssumption DEF Places
<1>2. NextPos(p) = Wrapped(p + 1)
  BY <1>1, Wrap DEF NextPos
<1> QED
  BY <1>2, IntqAssumption DEF Places, Wrapped

\* How many bytes a queue holds, and which.
LEMMA CountIs ==
    ASSUME NEW q \in Queues
    PROVE  /\ q.head \in Places /\ q.tail \in Places
           /\ Count(q) \in 0..INTQ_BUFSIZE - 1
           /\ Count(q) = IF q.head < q.tail THEN q.head + INTQ_BUFSIZE - q.tail
                                            ELSE q.head - q.tail
           /\ Empty(q) <=> Count(q) = 0
           /\ Full(q) <=> Count(q) = INTQ_BUFSIZE - 1
<1>1. q.head \in Places /\ q.tail \in Places
  BY DEF Queues
<1>2. q.head + INTQ_BUFSIZE - q.tail \in 0..(2 * INTQ_BUFSIZE - 1)
  BY <1>1, IntqAssumption DEF Places
<1>3. Count(q) = Wrapped(q.head + INTQ_BUFSIZE - q.tail)
  BY <1>2, Wrap DEF Count
<1>4. Count(q) = IF q.head < q.tail THEN q.head + INTQ_BUFSIZE - q.tail ELSE q.head - q.tail
  BY <1>1, <1>3, IntqAssumption DEF Places, Wrapped
<1>5. Count(q) \in 0..INTQ_BUFSIZE - 1 /\ (Empty(q) <=> Count(q) = 0)
  BY <1>1, <1>4, IntqAssumption DEF Places, Empty
<1>6. Full(q) <=> Count(q) = INTQ_BUFSIZE - 1
  BY <1>1, <1>4, NextPosIs, IntqAssumption DEF Places, Full
<1> QED
  BY <1>1, <1>4, <1>5, <1>6

LEMMA ContentsIs ==
    ASSUME NEW q \in Queues
    PROVE  /\ Contents(q) \in Seq(Bytes) /\ Len(Contents(q)) = Count(q)
           /\ \A i \in 1..Count(q) : /\ Wrapped(q.tail + i - 1) \in Places
                                     /\ Contents(q)[i] = q.buf[Wrapped(q.tail + i - 1)]
<1>1. q.tail \in Places /\ Count(q) \in 0..INTQ_BUFSIZE - 1 /\ q.buf \in [Places -> Bytes]
  BY CountIs DEF Queues
<1>2. ASSUME NEW i \in 1..Count(q)
      PROVE  /\ Wrapped(q.tail + i - 1) \in Places
             /\ Contents(q)[i] = q.buf[Wrapped(q.tail + i - 1)]
             /\ Contents(q)[i] \in Bytes
  <2>1. q.tail + i - 1 \in 0..(2 * INTQ_BUFSIZE - 1)
    BY <1>1, IntqAssumption DEF Places
  <2>2. Wrapped(q.tail + i - 1) \in Places
    BY <2>1, IntqAssumption DEF Places, Wrapped
  <2>3. (q.tail + i - 1) % INTQ_BUFSIZE = Wrapped(q.tail + i - 1)
    BY <2>1, Wrap
  <2>4. Contents(q)[i] = q.buf[(q.tail + i - 1) % INTQ_BUFSIZE]
    BY DEF Contents
  <2> QED
    BY <1>1, <2>2, <2>3, <2>4
<1>3. Count(q) \in Nat
  BY <1>1, IntqAssumption
<1>4. Contents(q) \in [1..Count(q) -> Bytes]
  BY <1>2 DEF Contents
<1>5. Contents(q) \in Seq(Bytes) /\ Len(Contents(q)) = Count(q)
  BY <1>3, <1>4
<1> QED
  BY <1>2, <1>5

LEMMA NewQueueIs ==
    NewQueue \in Queues /\ Contents(NewQueue) = <<>> /\ Empty(NewQueue) /\ ~Full(NewQueue)
<1>1. PICK b : b \in Bytes
  BY IntqAssumption
<1>2. (CHOOSE x \in Bytes : TRUE) \in Bytes
  BY <1>1
<1>3. 0 \in Places
  BY IntqAssumption DEF Places
<1>4. NewQueue \in Queues /\ NewQueue.head = 0 /\ NewQueue.tail = 0
  BY <1>2, <1>3 DEF NewQueue, Queues
<1>5. Count(NewQueue) = 0
  BY <1>4, CountIs
<1>6. Contents(NewQueue) = <<>>
  BY <1>4, <1>5, ContentsIs, EmptySeq
<1> QED
  BY <1>4, <1>5, <1>6, CountIs, IntqAssumption
-----------------------------------------------------------------------------
\* intq_putc puts the byte after the others.
LEMMA PutProps ==
    ASSUME NEW q \in Queues, NEW b \in Bytes, ~Full(q)
    PROVE  /\ Put(q, b) \in Queues /\ ~Empty(Put(q, b))
           /\ Contents(Put(q, b)) = Append(Contents(q), b)
<1> DEFINE p == Put(q, b)
           n == Count(q)
<1>1. /\ q.head \in Places /\ q.tail \in Places /\ q.buf \in [Places -> Bytes]
      /\ n \in 0..INTQ_BUFSIZE - 2
      /\ n = IF q.head < q.tail THEN q.head + INTQ_BUFSIZE - q.tail ELSE q.head - q.tail
  <2>1. /\ q.head \in Places /\ q.tail \in Places /\ n \in 0..INTQ_BUFSIZE - 1
        /\ n # INTQ_BUFSIZE - 1
        /\ n = IF q.head < q.tail THEN q.head + INTQ_BUFSIZE - q.tail ELSE q.head - q.tail
    BY CountIs
  <2> QED
    BY <2>1, IntqAssumption DEF Queues
<1>2. /\ p \in Queues /\ p.tail = q.tail /\ p.head = NextPos(q.head)
      /\ p.buf = [q.buf EXCEPT ![q.head] = b]
  BY <1>1, NextPosIs DEF Queues, Put
<1>3. Count(p) = n + 1
  <2>1. Count(p) = IF p.head < p.tail THEN p.head + INTQ_BUFSIZE - p.tail ELSE p.head - p.tail
    BY <1>2, CountIs
  <2>2. NextPos(q.head) = IF q.head = INTQ_BUFSIZE - 1 THEN 0 ELSE q.head + 1
    BY <1>1, NextPosIs
  <2>3. CASE q.head = INTQ_BUFSIZE - 1
    BY <1>1, <1>2, <2>1, <2>2, <2>3, IntqAssumption DEF Places
  <2>4. CASE q.head # INTQ_BUFSIZE - 1
    BY <1>1, <1>2, <2>1, <2>2, <2>4, IntqAssumption, SMTT(30) DEF Places
  <2> QED
    BY <2>3, <2>4
<1>4. /\ Contents(q) \in Seq(Bytes) /\ Len(Contents(q)) = n
      /\ \A i \in 1..n : /\ Wrapped(q.tail + i - 1) \in Places
                         /\ Contents(q)[i] = q.buf[Wrapped(q.tail + i - 1)]
  BY ContentsIs
<1>5. /\ Contents(p) \in Seq(Bytes) /\ Len(Contents(p)) = n + 1
      /\ \A i \in 1..(n + 1) : Contents(p)[i] = p.buf[Wrapped(q.tail + i - 1)]
  BY <1>2, <1>3, ContentsIs
<1>6. Wrapped(q.tail + n) = q.head
  BY <1>1, IntqAssumption DEF Wrapped, Places
<1>7. \A i \in 1..n : Wrapped(q.tail + i - 1) # q.head
  BY <1>1, IntqAssumption DEF Wrapped, Places
<1>8. /\ Append(Contents(q), b) \in Seq(Bytes) /\ Len(Append(Contents(q), b)) = n + 1
      /\ \A i \in 1..n : Append(Contents(q), b)[i] = Contents(q)[i]
      /\ Append(Contents(q), b)[n + 1] = b
  BY <1>4, AppendProperties
<1>9. \A i \in 1..(n + 1) : Contents(p)[i] = Append(Contents(q), b)[i]
  <2> SUFFICES ASSUME NEW i \in 1..(n + 1) PROVE Contents(p)[i] = Append(Contents(q), b)[i]
    OBVIOUS
  <2>1. CASE i \in 1..n
    BY <1>1, <1>2, <1>4, <1>5, <1>7, <1>8, <2>1
  <2>2. CASE i = n + 1
    <3>1. q.tail + i - 1 = q.tail + n
      BY <1>1, <2>2 DEF Places
    <3> QED
      BY <1>1, <1>2, <1>5, <1>6, <1>8, <2>2, <3>1
  <2>3. i \in 1..n \/ i = n + 1
    BY <1>1, IntqAssumption
  <2> QED
    BY <2>1, <2>2, <2>3
<1>10. Contents(p) = Append(Contents(q), b)
  BY <1>5, <1>8, <1>9, SeqEqual
<1>11. ~Empty(p)
  BY <1>1, <1>2, <1>3, CountIs
<1> QED
  BY <1>2, <1>10, <1>11

\* intq_getc takes the first byte.
LEMMA GotProps ==
    ASSUME NEW q \in Queues, ~Empty(q)
    PROVE  /\ Got(q) \in Queues /\ ~Full(Got(q)) /\ First(q) \in Bytes
           /\ Contents(q) # <<>> /\ First(q) = Head(Contents(q))
           /\ Contents(Got(q)) = Tail(Contents(q))
<1> DEFINE p == Got(q)
           n == Count(q)
<1>1. /\ q.head \in Places /\ q.tail \in Places /\ q.buf \in [Places -> Bytes]
      /\ n \in 1..INTQ_BUFSIZE - 1
      /\ n = IF q.head < q.tail THEN q.head + INTQ_BUFSIZE - q.tail ELSE q.head - q.tail
  <2>1. /\ q.head \in Places /\ q.tail \in Places /\ n \in 0..INTQ_BUFSIZE - 1
        /\ n # 0
        /\ n = IF q.head < q.tail THEN q.head + INTQ_BUFSIZE - q.tail ELSE q.head - q.tail
    BY CountIs
  <2> QED
    BY <2>1, IntqAssumption DEF Queues
<1>2. p \in Queues /\ p.head = q.head /\ p.tail = NextPos(q.tail) /\ p.buf = q.buf
  BY <1>1, NextPosIs DEF Queues, Got
<1>n. NextPos(q.tail) = IF q.tail = INTQ_BUFSIZE - 1 THEN 0 ELSE q.tail + 1
  BY <1>1, NextPosIs
<1>3. Count(p) = n - 1
  <2>1. Count(p) = IF p.head < p.tail THEN p.head + INTQ_BUFSIZE - p.tail ELSE p.head - p.tail
    BY <1>2, CountIs
  <2> QED
    BY <1>1, <1>2, <1>n, <2>1, IntqAssumption DEF Places
<1>4. /\ Contents(q) \in Seq(Bytes) /\ Len(Contents(q)) = n
      /\ \A i \in 1..n : Contents(q)[i] = q.buf[Wrapped(q.tail + i - 1)]
  BY ContentsIs
<1>5. /\ Contents(p) \in Seq(Bytes) /\ Len(Contents(p)) = n - 1
      /\ \A i \in 1..(n - 1) : Contents(p)[i] = q.buf[Wrapped(p.tail + i - 1)]
  BY <1>2, <1>3, ContentsIs
<1>6. Contents(q) # <<>>
  BY <1>1, <1>4, EmptySeq
<1>7. /\ Tail(Contents(q)) \in Seq(Bytes) /\ Len(Tail(Contents(q))) = n - 1
      /\ \A i \in 1..(n - 1) : Tail(Contents(q))[i] = Contents(q)[i + 1]
  BY <1>4, <1>6, HeadTailProperties
<1>8. Head(Contents(q)) = Contents(q)[1]
  BY <1>4, <1>6
<1>9. First(q) = Head(Contents(q)) /\ First(q) \in Bytes
  <2>1. Wrapped(q.tail + 1 - 1) = q.tail
    BY <1>1, IntqAssumption DEF Wrapped, Places
  <2> QED
    BY <1>1, <1>4, <1>8, <2>1 DEF First
<1>10. ASSUME NEW i \in 1..(n - 1) PROVE Contents(p)[i] = Tail(Contents(q))[i]
  <2>1. Wrapped(p.tail + i - 1) = Wrapped(q.tail + (i + 1) - 1)
    BY <1>1, <1>2, <1>n, IntqAssumption DEF Wrapped, Places
  <2>2. i + 1 \in 1..n
    BY <1>1
  <2> QED
    BY <1>4, <1>5, <1>7, <2>1, <2>2
<1>11. Contents(p) = Tail(Contents(q))
  BY <1>5, <1>7, <1>10, SeqEqual
<1>12. ~Full(p)
  BY <1>1, <1>2, <1>3, CountIs
<1> QED
  BY <1>2, <1>6, <1>9, <1>11, <1>12
-----------------------------------------------------------------------------
(* The inductive invariant.                                                *)

WriterPlaces == {"idle", "acquire", "print", "asleep", "woken"}
ReaderPlaces == {"idle", "again", "in line", "asleep", "woken"}

Types ==
    /\ txq \in Queues /\ inq \in Queues
    /\ not_full \in Writers \cup {Nobody} /\ not_empty \in Readers \cup {Nobody}
    /\ thr \in Bytes \cup {Nobody} /\ rbr \in Bytes \cup {Nobody}
    /\ sent \in Bytes /\ read \in Bytes
    /\ console_lock \in Writers \cup {Nobody} /\ depth \in Nat /\ use_console_lock \in BOOLEAN
    /\ level \in [Writers -> 0..2]
    /\ pc \in [Threads -> WriterPlaces \cup ReaderPlaces]
    /\ \A t \in Writers : pc[t] \in WriterPlaces
    /\ \A t \in Readers : pc[t] \in ReaderPlaces

\* A thread in a message has the lock of the console, and the depth counts its
\* printf calls, until a panic sets the lock aside.
Speaks(t) ==
    /\ level[t] > 0 <=> pc[t] \in {"print", "asleep", "woken"}
    /\ use_console_lock => /\ level[t] > 0 <=> console_lock = t
                           /\ console_lock = t => depth = level[t] - 1
Speakers == /\ \A t \in Writers : Speaks(t)
            /\ use_console_lock /\ console_lock = Nobody => depth = 0

\* A thread in wait has the lock of the queue; the queue names it until it is
\* woken, and stays as the thread found it.
WriterSleeps(t) ==
    /\ pc[t] \in {"asleep", "woken"} => tx_lock = t
    /\ pc[t] = "asleep" <=> not_full = t
    /\ pc[t] = "asleep" => Full(txq)
ReaderSleeps(t) ==
    /\ pc[t] \in {"asleep", "woken"} => in_lock = t
    /\ pc[t] = "asleep" <=> not_empty = t
    /\ pc[t] = "asleep" => Empty(inq)
Sleepers == (\A t \in Writers : WriterSleeps(t)) /\ (\A t \in Readers : ReaderSleeps(t))

Enabled == Running => /\ ~Empty(txq) => "xmit" \in ier
                      /\ ~Full(inq) => "recv" \in ier

SInv == Types /\ Speakers /\ Sleepers /\ Enabled

LEMMA SerialConstants ==
    /\ Nobody \notin Writers /\ Nobody \notin Readers /\ Nobody \notin Bytes
    /\ Writers \subseteq Threads /\ Readers \subseteq Threads
    /\ Threads = Writers \cup Readers /\ Writers \cap Readers = {}
  BY SerialAssumption DEF Threads

\* What every step may assume of a state.
LEMMA SerialState ==
    ASSUME SInv
    PROVE  /\ Types /\ Speakers /\ Sleepers /\ Enabled
           /\ pc \in [Threads -> WriterPlaces \cup ReaderPlaces]
           /\ level \in [Writers -> 0..2]
           /\ \A t \in Writers : Speaks(t) /\ WriterSleeps(t)
           /\ \A t \in Readers : ReaderSleeps(t)
           /\ not_full \in Writers \cup {Nobody} /\ not_empty \in Readers \cup {Nobody}
           /\ txq \in Queues /\ inq \in Queues
  BY DEF SInv, Types, Speakers, Sleepers

\* signal wakes the thread it is given and no other.
LEMMA SignalledIs ==
    ASSUME NEW w, pc \in [Threads -> WriterPlaces \cup ReaderPlaces], w \in Threads \cup {Nobody}
    PROVE  /\ Signalled(pc, w) \in [Threads -> WriterPlaces \cup ReaderPlaces]
           /\ \A t \in Threads : Signalled(pc, w)[t] = IF t = w THEN "woken" ELSE pc[t]
<1>1. Nobody \notin Threads
  BY SerialConstants
<1>2. CASE w = Nobody
  BY <1>1, <1>2 DEF Signalled
<1>3. CASE w # Nobody
  BY <1>1, <1>3 DEF Signalled, WriterPlaces
<1> QED
  BY <1>2, <1>3

\* serial_interrupt may signal a reader and a writer.
LEMMA BothSignalled ==
    ASSUME NEW r, NEW w, pc \in [Threads -> WriterPlaces \cup ReaderPlaces],
           r \in Threads \cup {Nobody}, w \in Threads \cup {Nobody}
    PROVE  LET q == Signalled(Signalled(pc, r), w) IN
           /\ q \in [Threads -> WriterPlaces \cup ReaderPlaces]
           /\ \A t \in Threads : q[t] = IF t \in {r, w} THEN "woken" ELSE pc[t]
<1>1. Nobody \notin Threads
  BY SerialConstants
<1>2. PICK p \in [Threads -> WriterPlaces \cup ReaderPlaces] :
          p = Signalled(pc, r) /\ \A t \in Threads : p[t] = IF t = r THEN "woken" ELSE pc[t]
  BY SignalledIs
<1>3. CASE w = Nobody
  BY <1>1, <1>2, <1>3 DEF Signalled
<1>4. CASE w # Nobody
  <2>1. Signalled(p, w) = [p EXCEPT ![w] = "woken"] /\ w \in Threads
    BY <1>4 DEF Signalled
  <2> QED
    BY <1>2, <2>1 DEF WriterPlaces
<1> QED
  BY <1>2, <1>3, <1>4

\* A thread's own step moves nobody else.
LEMMA GoIs ==
    ASSUME NEW t \in Threads, NEW place \in WriterPlaces \cup ReaderPlaces, Go(t, place),
           pc \in [Threads -> WriterPlaces \cup ReaderPlaces]
    PROVE  /\ pc'[t] = place /\ \A u \in Threads \ {t} : pc'[u] = pc[u]
           /\ pc' \in [Threads -> WriterPlaces \cup ReaderPlaces]
  BY DEF Go
-----------------------------------------------------------------------------
(* The console.                                                            *)

Talks(place) == place \in {"print", "asleep", "woken"}

\* A step that leaves the console alone and lets nobody begin or end a message.
LEMMA SpeakersQuiet ==
    ASSUME Speakers, UNCHANGED <<console_lock, depth, level>>,
           use_console_lock' => use_console_lock,
           \A t \in Writers : Talks(pc'[t]) <=> Talks(pc[t])
    PROVE  Speakers'
  BY DEF Speakers, Speaks, Talks

LEMMA SpeakersKept == SInv /\ [Next]_vars => Speakers'
<1> SUFFICES ASSUME SInv, [Next]_vars PROVE Speakers'
  OBVIOUS
<1>0. /\ Speakers /\ Nobody \notin Writers
      /\ Writers \subseteq Threads /\ Threads = Writers \cup Readers /\ Writers \cap Readers = {}
      /\ pc \in [Threads -> WriterPlaces \cup ReaderPlaces] /\ level \in [Writers -> 0..2]
      /\ \A t \in Writers : Speaks(t)
      /\ depth \in Nat /\ use_console_lock \in BOOLEAN
      /\ not_full \in Writers \cup {Nobody} /\ not_empty \in Readers \cup {Nobody}
  BY SerialState, SerialConstants DEF Types
<1>t. \A t \in Writers : t = not_full => pc[t] = "asleep"
  BY <1>0, SerialState DEF WriterSleeps
<1>same. ASSUME UNCHANGED <<pc, conVars, level>> PROVE Speakers'
  BY <1>0, <1>same, SpeakersQuiet DEF conVars
<1>1. ASSUME NEW t \in Writers, Printf(t) PROVE Speakers'
  <2>1. Go(t, "acquire") /\ pc[t] = "idle" /\ UNCHANGED <<conVars, level>>
    BY <1>1 DEF Printf, At
  <2>2. pc'[t] = "acquire" /\ \A u \in Threads \ {t} : pc'[u] = pc[u]
    BY <1>0, <2>1, GoIs DEF WriterPlaces
  <2> QED
    BY <1>0, <2>1, <2>2, SpeakersQuiet DEF conVars, Talks
<1>2. ASSUME NEW t \in Writers, AcquireConsole(t) PROVE Speakers'
  <2>1. /\ Go(t, "print") /\ pc[t] = "acquire" /\ console_lock = Nobody /\ console_lock' = t
        /\ level' = [level EXCEPT ![t] = 1] /\ UNCHANGED <<depth, use_console_lock>>
    BY <1>2 DEF AcquireConsole, At
  <2>2. pc'[t] = "print" /\ \A u \in Threads \ {t} : pc'[u] = pc[u]
    BY <1>0, <2>1, GoIs DEF WriterPlaces
  <2>3. level'[t] = 1 /\ \A u \in Writers \ {t} : level'[u] = level[u]
    BY <1>0, <2>1
  <2>4. ASSUME NEW u \in Writers PROVE Speaks(u)'
    <3>1. CASE u = t
      BY <1>0, <2>1, <2>2, <2>3, <3>1 DEF Speaks, Speakers
    <3>2. CASE u # t
      BY <1>0, <2>1, <2>2, <2>3, <3>2 DEF Speaks
    <3> QED
      BY <3>1, <3>2
  <2> QED
    BY <1>0, <2>1, <2>4 DEF Speakers
<1>3. ASSUME NEW t \in Writers, NestedPrintf(t) PROVE Speakers'
  <2>1. /\ pc[t] = "print" /\ level[t] = 1 /\ console_lock = t /\ depth' = depth + 1
        /\ level' = [level EXCEPT ![t] = 2] /\ UNCHANGED <<console_lock, use_console_lock, pc>>
    BY <1>3 DEF NestedPrintf, At, Deeper
  <2>2. level'[t] = 2 /\ \A u \in Writers \ {t} : level'[u] = level[u]
    BY <1>0, <2>1
  <2>3. ASSUME NEW u \in Writers PROVE Speaks(u)'
    <3>1. CASE u = t
      BY <1>0, <2>1, <2>2, <3>1 DEF Speaks
    <3>2. CASE u # t
      BY <1>0, <2>1, <2>2, <3>2 DEF Speaks
    <3> QED
      BY <3>1, <3>2
  <2> QED
    BY <1>0, <2>1, <2>3 DEF Speakers
<1>4. ASSUME NEW t \in Writers, ReleaseConsole(t) PROVE Speakers'
  <2>1. /\ pc[t] = "print" /\ level' = [level EXCEPT ![t] = @ - 1] /\ UNCHANGED use_console_lock
        /\ IF depth > 0 THEN depth' = depth - 1 /\ UNCHANGED console_lock
           ELSE console_lock' = Nobody /\ UNCHANGED depth
        /\ Go(t, IF level[t] = 1 THEN "idle" ELSE "print")
    BY <1>4 DEF ReleaseConsole, At
  <2>2. /\ pc'[t] = IF level[t] = 1 THEN "idle" ELSE "print"
        /\ \A u \in Threads \ {t} : pc'[u] = pc[u]
    BY <1>0, <2>1, GoIs DEF WriterPlaces
  <2>3. /\ level[t] \in 1..2 /\ level'[t] = level[t] - 1
        /\ \A u \in Writers \ {t} : level'[u] = level[u]
    BY <1>0, <2>1 DEF Speaks
  <2>4. use_console_lock => console_lock = t /\ depth = level[t] - 1
    BY <1>0, <2>3 DEF Speaks
  <2>5. ASSUME NEW u \in Writers PROVE Speaks(u)'
    <3>1. CASE u = t
      BY <1>0, <2>1, <2>2, <2>3, <2>4, <3>1 DEF Speaks
    <3>2. CASE u # t
      BY <1>0, <2>1, <2>2, <2>3, <2>4, <3>2 DEF Speaks
    <3> QED
      BY <3>1, <3>2
  <2>6. use_console_lock' /\ console_lock' = Nobody => depth' = 0
    BY <1>0, <2>1, <2>3, <2>4
  <2> QED
    BY <2>5, <2>6 DEF Speakers
<1>5. ASSUME NEW t \in Writers, Putc(t) PROVE Speakers'
  BY <1>5, <1>same DEF Putc
<1>6. ASSUME NEW t \in Writers, PutcWaits(t) PROVE Speakers'
  <2>1. Go(t, "asleep") /\ pc[t] = "print" /\ UNCHANGED <<conVars, level>>
    BY <1>6 DEF PutcWaits, At
  <2>2. pc'[t] = "asleep" /\ \A u \in Threads \ {t} : pc'[u] = pc[u]
    BY <1>0, <2>1, GoIs DEF WriterPlaces
  <2> QED
    BY <1>0, <2>1, <2>2, SpeakersQuiet DEF conVars, Talks
<1>7. ASSUME NEW t \in Writers, PutcWakes(t) PROVE Speakers'
  <2>1. pc[t] = "woken" /\ UNCHANGED <<conVars, level>> /\ (Go(t, "asleep") \/ Go(t, "print"))
    BY <1>7 DEF PutcWakes, At
  <2>2. Talks(pc'[t]) /\ \A u \in Threads \ {t} : pc'[u] = pc[u]
    BY <1>0, <2>1, GoIs DEF WriterPlaces, Talks
  <2> QED
    BY <1>0, <2>1, <2>2, SpeakersQuiet DEF conVars, Talks
<1>8. ASSUME NEW t \in Readers, Read(t) PROVE Speakers'
  <2>1. /\ UNCHANGED <<console_lock, depth, level>>
        /\ ~use_console_lock' \/ UNCHANGED use_console_lock
    <3>1. CASE InputGetc(t)
      BY <3>1 DEF InputGetc, Sleep
    <3>2. CASE GetcInLine(t)
      BY <3>2 DEF GetcInLine, Sleep
    <3>3. CASE GetcWakes(t)
      BY <3>3 DEF GetcWakes, conVars
    <3> QED
      BY <1>8, <3>1, <3>2, <3>3 DEF Read
  <2>2. pc' = pc \/ \E place \in ReaderPlaces : Go(t, place)
    BY <1>8 DEF Read, InputGetc, GetcInLine, GetcWakes, Sleep, Take, ReaderPlaces
  <2>3. \A u \in Writers : pc'[u] = pc[u]
    BY <1>0, <2>2, GoIs
  <2> QED
    BY <1>0, <2>1, <2>3, SpeakersQuiet
<1>signal. ASSUME NEW w, pc' = Signalled(pc, w), w \in {not_full, not_empty},
                  UNCHANGED <<console_lock, depth, level, use_console_lock>>
           PROVE  Speakers'
  <2>1. \A u \in Threads : pc'[u] = IF u = w THEN "woken" ELSE pc[u]
    BY <1>0, <1>signal, SignalledIs
  <2>2. \A u \in Writers : Talks(pc'[u]) <=> Talks(pc[u])
    BY <1>0, <1>t, <1>signal, <2>1 DEF Talks
  <2> QED
    BY <1>0, <1>signal, <2>2, SpeakersQuiet
<1>9. CASE PutcOff \/ Flush
  <2>1. UNCHANGED <<console_lock, depth, level, use_console_lock>>
    BY <1>9 DEF PutcOff, Flush, conVars
  <2>2. pc' = pc \/ pc' = Signalled(pc, not_full)
    BY <1>9 DEF PutcOff, Flush
  <2> QED
    BY <1>same, <1>signal, <2>1, <2>2 DEF conVars
<1>10. CASE Panic
  <2>1. UNCHANGED <<console_lock, depth, level, pc>> /\ ~use_console_lock'
    BY <1>10 DEF Panic, thVars
  <2> QED
    BY <1>0, <2>1, SpeakersQuiet
<1>11. CASE KeyboardInterrupt
  BY <1>11, <1>signal DEF KeyboardInterrupt, conVars
<1>12. CASE SerialInterrupt
  <2>1. /\ UNCHANGED <<console_lock, depth, level, use_console_lock>>
        /\ \E r \in {not_empty, Nobody}, w \in {not_full, Nobody} :
             pc' = Signalled(Signalled(pc, r), w)
    BY <1>12 DEF SerialInterrupt, conVars
  <2>2. PICK r \in {not_empty, Nobody}, w \in {not_full, Nobody} :
            pc' = Signalled(Signalled(pc, r), w)
    BY <2>1
  <2>3. \A u \in Threads : pc'[u] = IF u \in {r, w} THEN "woken" ELSE pc[u]
    BY <1>0, <2>2, BothSignalled
  <2>4. \A u \in Writers : Talks(pc'[u]) <=> Talks(pc[u])
    BY <1>0, <1>t, <2>3 DEF Talks
  <2> QED
    BY <1>0, <2>1, <2>4, SpeakersQuiet
<1>13. CASE Shift \/ Receive \/ UNCHANGED vars
  BY <1>13, <1>same DEF Shift, Receive, vars, thVars, conVars
<1> QED
  BY <1>1, <1>2, <1>3, <1>4, <1>5, <1>6, <1>7, <1>8, <1>9, <1>10, <1>11, <1>12, <1>13
  DEF Next, Write
-----------------------------------------------------------------------------
(* The threads asleep at the queues.                                       *)

Waits(place) == place \in {"asleep", "woken"}

\* A step that leaves the writers' side of the transmit queue as it is, and one
\* that wakes the writer asleep there.
LEMMA WritersStay ==
    ASSUME \A t \in Writers : WriterSleeps(t), UNCHANGED <<tx_lock, not_full>>,
           \A t \in Writers : pc'[t] = pc[t] \/ (~Waits(pc[t]) /\ ~Waits(pc'[t])),
           Full(txq) => Full(txq')
    PROVE  \A t \in Writers : WriterSleeps(t)'
  BY DEF WriterSleeps, Waits

LEMMA WriterSignalled ==
    ASSUME \A t \in Writers : WriterSleeps(t), not_full' = Nobody, UNCHANGED tx_lock,
           \A t \in Writers : pc'[t] = IF t = not_full THEN "woken" ELSE pc[t]
    PROVE  \A t \in Writers : WriterSleeps(t)'
  BY SerialConstants DEF WriterSleeps

\* The same for the readers of the input buffer.
LEMMA ReadersStay ==
    ASSUME \A t \in Readers : ReaderSleeps(t), UNCHANGED <<in_lock, not_empty>>,
           \A t \in Readers : pc'[t] = pc[t] \/ (~Waits(pc[t]) /\ ~Waits(pc'[t])),
           Empty(inq) => Empty(inq')
    PROVE  \A t \in Readers : ReaderSleeps(t)'
  BY DEF ReaderSleeps, Waits

LEMMA ReaderSignalled ==
    ASSUME \A t \in Readers : ReaderSleeps(t), not_empty' = Nobody, UNCHANGED in_lock,
           \A t \in Readers : pc'[t] = IF t = not_empty THEN "woken" ELSE pc[t]
    PROVE  \A t \in Readers : ReaderSleeps(t)'
  BY SerialConstants DEF ReaderSleeps

\* What a writer does.
LEMMA WriterSleepersKept ==
    ASSUME SInv, NEW t \in Writers, Write(t)
    PROVE  Sleepers'
<1>0. /\ t \in Threads /\ Writers \subseteq Threads /\ Readers \subseteq Threads /\ t \notin Readers
      /\ Nobody \notin Writers
      /\ pc \in [Threads -> WriterPlaces \cup ReaderPlaces]
      /\ not_full \in Writers \cup {Nobody}
      /\ \A u \in Writers : WriterSleeps(u)
      /\ \A u \in Readers : ReaderSleeps(u)
      /\ txq \in Queues
  BY SerialState, SerialConstants
<1>1. UNCHANGED <<in_lock, not_empty, inq>>
  BY DEF Write, Printf, AcquireConsole, NestedPrintf, ReleaseConsole, Putc, PutcWaits, PutcWakes,
         Enqueue, qVars
<1>2. \/ pc' = pc
      \/ \E place \in WriterPlaces : Go(t, place)
  <2>1. CASE Printf(t)
    BY <2>1 DEF Printf, WriterPlaces
  <2>2. CASE AcquireConsole(t)
    BY <2>2 DEF AcquireConsole, WriterPlaces
  <2>3. CASE NestedPrintf(t)
    BY <2>3 DEF NestedPrintf
  <2>4. CASE ReleaseConsole(t)
    BY <2>4 DEF ReleaseConsole, WriterPlaces
  <2>5. CASE Putc(t)
    BY <2>5 DEF Putc
  <2>6. CASE PutcWaits(t)
    BY <2>6 DEF PutcWaits, WriterPlaces
  <2>7. CASE PutcWakes(t)
    BY <2>7 DEF PutcWakes, WriterPlaces
  <2> QED
    BY <2>1, <2>2, <2>3, <2>4, <2>5, <2>6, <2>7 DEF Write
<1>3. \A u \in Threads \ {t} : pc'[u] = pc[u]
  BY <1>0, <1>2, GoIs
<1>4. \A u \in Readers : ReaderSleeps(u)'
  BY <1>0, <1>1, <1>3, ReadersStay
<1>quiet. ASSUME UNCHANGED <<txq, tx_lock, not_full>>, ~Waits(pc[t]), ~Waits(pc'[t])
          PROVE  Sleepers'
  BY <1>0, <1>3, <1>4, <1>quiet, WritersStay DEF Sleepers
<1>5. CASE Printf(t)
  <2>1. Go(t, "acquire") /\ pc[t] = "idle" /\ UNCHANGED <<txq, tx_lock, not_full>>
    BY <1>5 DEF Printf, At, qVars
  <2> QED
    BY <1>0, <1>quiet, <2>1, GoIs DEF Waits, WriterPlaces
<1>6. CASE AcquireConsole(t)
  <2>1. Go(t, "print") /\ pc[t] = "acquire" /\ UNCHANGED <<txq, tx_lock, not_full>>
    BY <1>6 DEF AcquireConsole, At, qVars
  <2> QED
    BY <1>0, <1>quiet, <2>1, GoIs DEF Waits, WriterPlaces
<1>7. CASE NestedPrintf(t)
  <2>1. pc' = pc /\ pc[t] = "print" /\ UNCHANGED <<txq, tx_lock, not_full>>
    BY <1>7 DEF NestedPrintf, At, qVars
  <2> QED
    BY <1>quiet, <2>1 DEF Waits
<1>8. CASE ReleaseConsole(t)
  <2>1. /\ Go(t, "idle") \/ Go(t, "print")
        /\ pc[t] = "print" /\ UNCHANGED <<txq, tx_lock, not_full>>
    BY <1>8 DEF ReleaseConsole, At, qVars
  <2>2. pc'[t] \in {"idle", "print"}
    BY <1>0, <2>1, GoIs DEF WriterPlaces
  <2> QED
    BY <1>quiet, <2>1, <2>2 DEF Waits
<1>9. CASE Putc(t)
  <2>1. pc' = pc /\ ~Full(txq) /\ UNCHANGED <<tx_lock, not_full>>
    BY <1>9 DEF Putc
  <2>2. \A u \in Writers : WriterSleeps(u)'
    BY <1>0, <2>1, WritersStay
  <2> QED
    BY <1>4, <2>2 DEF Sleepers
<1>10. CASE PutcWaits(t)
  <2>1. /\ Go(t, "asleep") /\ Full(txq) /\ tx_lock = Nobody /\ tx_lock' = t /\ not_full' = t
        /\ txq' = txq
    BY <1>10 DEF PutcWaits
  <2>2. pc'[t] = "asleep"
    BY <1>0, <2>1, GoIs DEF WriterPlaces
  <2>3. \A u \in Writers : WriterSleeps(u)'
    BY <1>0, <1>3, <2>1, <2>2 DEF WriterSleeps
  <2> QED
    BY <1>4, <2>3 DEF Sleepers
<1>11. CASE PutcWakes(t)
  <2>1. pc[t] = "woken"
    BY <1>11 DEF PutcWakes, At
  <2>2. \A u \in Writers \ {t} : ~Waits(pc[u])
    BY <1>0, <2>1 DEF WriterSleeps, Waits
  <2>3. \A u \in Writers : not_full # u
    BY <1>0, <2>1, <2>2 DEF WriterSleeps, Waits
  <2>4. CASE Full(txq)
    <3>1. Go(t, "asleep") /\ not_full' = t /\ txq' = txq /\ tx_lock' = tx_lock
      BY <1>11, <2>4 DEF PutcWakes
    <3>2. pc'[t] = "asleep" /\ tx_lock = t
      BY <1>0, <2>1, <3>1, GoIs DEF WriterPlaces, WriterSleeps
    <3>3. \A u \in Writers : WriterSleeps(u)'
      BY <1>0, <1>3, <2>2, <2>4, <3>1, <3>2 DEF WriterSleeps, Waits
    <3> QED
      BY <1>4, <3>3 DEF Sleepers
  <2>5. CASE ~Full(txq)
    <3>1. Go(t, "print") /\ UNCHANGED not_full
      BY <1>11, <2>5 DEF PutcWakes
    <3>2. pc'[t] = "print"
      BY <1>0, <3>1, GoIs DEF WriterPlaces
    <3>3. \A u \in Writers : WriterSleeps(u)'
      BY <1>0, <1>3, <2>2, <2>3, <3>1, <3>2 DEF WriterSleeps, Waits
    <3> QED
      BY <1>4, <3>3 DEF Sleepers
  <2> QED
    BY <2>4, <2>5
<1> QED
  BY <1>5, <1>6, <1>7, <1>8, <1>9, <1>10, <1>11 DEF Write

\* What a reader does.
LEMMA ReaderSleepersKept ==
    ASSUME SInv, NEW t \in Readers, Read(t)
    PROVE  Sleepers'
<1>0. /\ t \in Threads /\ Writers \subseteq Threads /\ Readers \subseteq Threads /\ t \notin Writers
      /\ Nobody \notin Readers
      /\ pc \in [Threads -> WriterPlaces \cup ReaderPlaces]
      /\ \A u \in Writers : WriterSleeps(u)
      /\ \A u \in Readers : ReaderSleeps(u)
  BY SerialState, SerialConstants
<1>1. UNCHANGED <<tx_lock, not_full, txq>>
  <2>1. CASE InputGetc(t)
    BY <2>1 DEF InputGetc, Take, Sleep
  <2>2. CASE GetcInLine(t)
    BY <2>2 DEF GetcInLine, Sleep
  <2>3. CASE GetcWakes(t)
    BY <2>3 DEF GetcWakes, Take
  <2> QED
    BY <2>1, <2>2, <2>3 DEF Read
<1>2. pc' = pc \/ \E place \in ReaderPlaces : Go(t, place)
  BY DEF Read, InputGetc, GetcInLine, GetcWakes, Sleep, Take, ReaderPlaces
<1>3. \A u \in Threads \ {t} : pc'[u] = pc[u]
  BY <1>0, <1>2, GoIs
<1>4. \A u \in Writers : WriterSleeps(u)'
  BY <1>0, <1>1, <1>3, WritersStay
<1>sleep. ASSUME Sleep(t), in_lock = Nobody, Empty(inq) PROVE Sleepers'
  <2>1. in_lock' = t /\ not_empty' = t /\ inq' = inq /\ Go(t, "asleep")
    BY <1>sleep DEF Sleep
  <2>2. pc'[t] = "asleep"
    BY <1>0, <2>1, GoIs DEF ReaderPlaces
  <2>3. \A u \in Readers : ReaderSleeps(u)'
    BY <1>0, <1>3, <1>sleep, <2>1, <2>2 DEF ReaderSleeps
  <2> QED
    BY <1>4, <2>3 DEF Sleepers
<1>5. CASE InputGetc(t)
  <2>0. pc[t] \in {"idle", "again"}
    BY <1>5 DEF InputGetc
  <2>1. CASE ~Empty(inq)
    <3>1. Go(t, "idle") /\ UNCHANGED <<in_lock, not_empty>>
      BY <1>5, <2>1 DEF InputGetc, Take
    <3>2. pc'[t] = "idle"
      BY <1>0, <3>1, GoIs DEF ReaderPlaces
    <3>3. \A u \in Readers : ReaderSleeps(u)'
      BY <1>0, <1>3, <2>0, <2>1, <3>1, <3>2 DEF ReaderSleeps
    <3> QED
      BY <1>4, <3>3 DEF Sleepers
  <2>2. CASE Empty(inq) /\ in_lock = Nobody
    BY <1>5, <1>sleep, <2>2 DEF InputGetc
  <2>3. CASE Empty(inq) /\ in_lock # Nobody
    <3>1. Go(t, "in line") /\ UNCHANGED <<in_lock, not_empty, inq>>
      BY <1>5, <2>3 DEF InputGetc
    <3>2. pc'[t] = "in line"
      BY <1>0, <3>1, GoIs DEF ReaderPlaces
    <3>3. \A u \in Readers : ReaderSleeps(u)'
      BY <1>0, <1>3, <2>0, <3>1, <3>2, ReadersStay DEF Waits
    <3> QED
      BY <1>4, <3>3 DEF Sleepers
  <2> QED
    BY <2>1, <2>2, <2>3
<1>6. CASE GetcInLine(t)
  <2>1. CASE Empty(inq)
    BY <1>6, <1>sleep, <2>1 DEF GetcInLine
  <2>2. CASE ~Empty(inq)
    <3>1. UNCHANGED <<inq, in_lock, not_empty, pc>>
      BY <1>6, <2>2 DEF GetcInLine
    <3>2. \A u \in Readers : ReaderSleeps(u)'
      BY <1>0, <3>1, ReadersStay
    <3> QED
      BY <1>4, <3>2 DEF Sleepers
  <2> QED
    BY <2>1, <2>2
<1>7. CASE GetcWakes(t)
  <2>1. pc[t] = "woken" /\ in_lock' = Nobody /\ not_empty' = not_empty
    BY <1>7 DEF GetcWakes, At
  <2>2. \A u \in Readers \ {t} : ~Waits(pc[u])
    BY <1>0, <2>1 DEF ReaderSleeps, Waits
  <2>3. \A u \in Readers : not_empty # u
    BY <1>0, <2>1, <2>2 DEF ReaderSleeps, Waits
  <2>4. Go(t, "idle") \/ Go(t, "again")
    BY <1>7 DEF GetcWakes, Take
  <2>5. pc'[t] \in {"idle", "again"}
    BY <1>0, <2>4, GoIs DEF ReaderPlaces
  <2>6. \A u \in Readers : ReaderSleeps(u)'
    BY <1>0, <1>3, <2>1, <2>2, <2>3, <2>5 DEF ReaderSleeps, Waits
  <2> QED
    BY <1>4, <2>6 DEF Sleepers
<1> QED
  BY <1>5, <1>6, <1>7 DEF Read

\* What an interrupt, a panic and the UART do.
LEMMA SleepersKept == SInv /\ [Next]_vars => Sleepers'
<1> SUFFICES ASSUME SInv, [Next]_vars PROVE Sleepers'
  OBVIOUS
<1>0. /\ Writers \subseteq Threads /\ Readers \subseteq Threads
      /\ Nobody \notin Writers /\ Nobody \notin Readers /\ Writers \cap Readers = {}
      /\ pc \in [Threads -> WriterPlaces \cup ReaderPlaces]
      /\ not_full \in Writers \cup {Nobody} /\ not_empty \in Readers \cup {Nobody}
      /\ \A u \in Writers : WriterSleeps(u)
      /\ \A u \in Readers : ReaderSleeps(u)
  BY SerialState, SerialConstants
<1>same. ASSUME UNCHANGED <<pc, qVars>> PROVE Sleepers'
  <2>1. UNCHANGED <<pc, txq, inq, tx_lock, in_lock, not_full, not_empty>>
    BY <1>same DEF qVars
  <2>2. (\A u \in Writers : WriterSleeps(u)') /\ (\A u \in Readers : ReaderSleeps(u)')
    BY <1>0, <2>1, WritersStay, ReadersStay
  <2> QED
    BY <2>2 DEF Sleepers
<1>writer. ASSUME pc' = Signalled(pc, not_full), not_full' = Nobody,
                  UNCHANGED <<tx_lock, in_lock, not_empty, inq>>
           PROVE  Sleepers'
  <2>1. \A u \in Threads : pc'[u] = IF u = not_full THEN "woken" ELSE pc[u]
    BY <1>0, <1>writer, SignalledIs
  <2>2. \A u \in Writers : WriterSleeps(u)'
    BY <1>0, <1>writer, <2>1, WriterSignalled
  <2>3. \A u \in Readers : pc'[u] = pc[u]
    BY <1>0, <2>1
  <2>4. \A u \in Readers : ReaderSleeps(u)'
    BY <1>0, <1>writer, <2>3, ReadersStay
  <2> QED
    BY <2>2, <2>4 DEF Sleepers
<1>1. CASE PutcOff
  <2>0. UNCHANGED <<tx_lock, in_lock, not_empty, inq>>
    BY <1>1 DEF PutcOff
  <2>1. CASE Full(txq)
    BY <1>1, <1>writer, <2>0, <2>1 DEF PutcOff
  <2>2. CASE ~Full(txq)
    <3>1. UNCHANGED <<pc, not_full>>
      BY <1>1, <2>2 DEF PutcOff
    <3>2. \A u \in Writers : WriterSleeps(u)'
      BY <1>0, <2>0, <2>2, <3>1, WritersStay
    <3>3. \A u \in Readers : ReaderSleeps(u)'
      BY <1>0, <2>0, <3>1, ReadersStay
    <3> QED
      BY <3>2, <3>3 DEF Sleepers
  <2> QED
    BY <2>1, <2>2
<1>2. CASE Flush
  <2>0. UNCHANGED <<tx_lock, in_lock, not_empty, inq>>
    BY <1>2 DEF Flush
  <2>1. CASE Empty(txq)
    <3>1. UNCHANGED <<pc, not_full, txq>>
      BY <1>2, <2>1 DEF Flush
    <3>2. (\A u \in Writers : WriterSleeps(u)') /\ (\A u \in Readers : ReaderSleeps(u)')
      BY <1>0, <2>0, <3>1, WritersStay, ReadersStay
    <3> QED
      BY <3>2 DEF Sleepers
  <2>2. CASE ~Empty(txq)
    BY <1>2, <1>writer, <2>0, <2>2 DEF Flush
  <2> QED
    BY <2>1, <2>2
<1>3. CASE KeyboardInterrupt
  <2>1. /\ pc' = Signalled(pc, not_empty) /\ not_empty' = Nobody
        /\ UNCHANGED <<tx_lock, in_lock, not_full, txq>>
    BY <1>3 DEF KeyboardInterrupt, InputPutc
  <2>2. \A u \in Threads : pc'[u] = IF u = not_empty THEN "woken" ELSE pc[u]
    BY <1>0, <2>1, SignalledIs
  <2>3. \A u \in Readers : ReaderSleeps(u)'
    BY <1>0, <2>1, <2>2, ReaderSignalled
  <2>4. \A u \in Writers : pc'[u] = pc[u]
    BY <1>0, <2>2
  <2>5. \A u \in Writers : WriterSleeps(u)'
    BY <1>0, <2>1, <2>4, WritersStay
  <2> QED
    BY <2>3, <2>5 DEF Sleepers
<1>4. CASE SerialInterrupt
  <2> DEFINE receive == rbr # Nobody /\ ~Full(inq)
             transmit == thr = Nobody /\ ~Empty(txq)
             r == IF receive THEN not_empty ELSE Nobody
             w == IF transmit THEN not_full ELSE Nobody
  <2>1. /\ pc' = Signalled(Signalled(pc, r), w)
        /\ UNCHANGED <<tx_lock, in_lock>>
        /\ IF receive THEN not_empty' = Nobody ELSE UNCHANGED <<inq, not_empty>>
        /\ IF transmit THEN not_full' = Nobody ELSE UNCHANGED <<txq, not_full>>
    BY <1>4 DEF SerialInterrupt, InputPutc
  <2>2. r \in Threads \cup {Nobody} /\ w \in Threads \cup {Nobody}
    BY <1>0
  <2>3. \A u \in Threads : pc'[u] = IF u \in {r, w} THEN "woken" ELSE pc[u]
    BY <1>0, <2>1, <2>2, BothSignalled
  <2>4. \A u \in Readers : pc'[u] = IF u = r THEN "woken" ELSE pc[u]
    BY <1>0, <2>3
  <2>5. \A u \in Writers : pc'[u] = IF u = w THEN "woken" ELSE pc[u]
    BY <1>0, <2>3
  <2>6. \A u \in Readers : ReaderSleeps(u)'
    <3>1. CASE receive
      BY <1>0, <2>1, <2>4, <3>1, ReaderSignalled
    <3>2. CASE ~receive
      <4>1. \A u \in Readers : pc'[u] = pc[u]
        BY <1>0, <2>4, <3>2
      <4> QED
        BY <1>0, <2>1, <3>2, <4>1, ReadersStay
    <3> QED
      BY <3>1, <3>2
  <2>7. \A u \in Writers : WriterSleeps(u)'
    <3>1. CASE transmit
      BY <1>0, <2>1, <2>5, <3>1, WriterSignalled
    <3>2. CASE ~transmit
      <4>1. \A u \in Writers : pc'[u] = pc[u]
        BY <1>0, <2>5, <3>2
      <4> QED
        BY <1>0, <2>1, <3>2, <4>1, WritersStay
    <3> QED
      BY <3>1, <3>2
  <2> QED
    BY <2>6, <2>7 DEF Sleepers
<1>5. CASE Panic \/ Shift \/ Receive \/ UNCHANGED vars
  <2>1. UNCHANGED <<pc, qVars>>
    BY <1>5 DEF Panic, Shift, Receive, vars, thVars, qVars
  <2> QED
    BY <1>same, <2>1
<1> QED
  BY <1>1, <1>2, <1>3, <1>4, <1>5, WriterSleepersKept, ReaderSleepersKept DEF Next
-----------------------------------------------------------------------------
(* The interrupts enabled: write_ier runs after every change of a queue.   *)
LEMMA EnabledKept == SInv /\ [Next]_vars => Enabled'
<1> SUFFICES ASSUME SInv, [Next]_vars PROVE Enabled'
  OBVIOUS
<1>0. Enabled
  BY SerialState
<1>ier. ASSUME WriteIer PROVE Enabled'
  BY <1>ier DEF Enabled, WriteIer
<1>same. ASSUME UNCHANGED <<txq, inq, ier>>, Running' => Running PROVE Enabled'
  BY <1>0, <1>same DEF Enabled
<1>1. ASSUME NEW t \in Writers, Write(t) PROVE Enabled'
  <2>1. Running'
    BY <1>1 DEF Write, Printf, AcquireConsole, NestedPrintf, ReleaseConsole, Putc, PutcWaits,
                PutcWakes, Running
  <2>2. WriteIer \/ UNCHANGED <<txq, inq, ier>>
    BY <1>1 DEF Write, Printf, AcquireConsole, NestedPrintf, ReleaseConsole, Putc, PutcWaits,
                PutcWakes, Enqueue, qVars
  <2>3. Running
    BY <1>1 DEF Write, Printf, AcquireConsole, NestedPrintf, ReleaseConsole, Putc, PutcWaits,
                PutcWakes
  <2> QED
    BY <1>ier, <1>same, <2>2, <2>3
<1>2. ASSUME NEW t \in Readers, Read(t) PROVE Enabled'
  <2>1. WriteIer \/ UNCHANGED <<txq, inq, ier>>
    BY <1>2 DEF Read, InputGetc, GetcInLine, GetcWakes, Take, Sleep
  <2>2. Running
    BY <1>2 DEF Read, InputGetc, GetcInLine, GetcWakes
  <2> QED
    BY <1>ier, <1>same, <2>1, <2>2
<1>3. CASE PutcOff
  BY <1>3, <1>ier DEF PutcOff
<1>4. CASE Flush
  BY <1>4 DEF Flush, Enabled, Running
<1>5. CASE SerialInterrupt \/ KeyboardInterrupt
  BY <1>5, <1>ier DEF SerialInterrupt, KeyboardInterrupt
<1>6. CASE Panic
  BY <1>6 DEF Panic, Enabled, Running
<1>7. CASE Shift \/ Receive \/ UNCHANGED vars
  BY <1>7, <1>same DEF Shift, Receive, vars, qVars, Running
<1> QED
  BY <1>1, <1>2, <1>3, <1>4, <1>5, <1>6, <1>7 DEF Next
-----------------------------------------------------------------------------
(* The two channels of bytes.                                              *)

\* What a step may do to the transmit queue and the UART's transmitter.
TxRests == UNCHANGED <<txq, thr, sent>>
TxPuts == ~Full(txq) /\ (\E b \in Bytes : txq' = Put(txq, b)) /\ UNCHANGED <<thr, sent>>
TxSends == ~Empty(txq) /\ thr = Nobody /\ thr' = First(txq) /\ txq' = Got(txq) /\ UNCHANGED sent
TxPolls == /\ ~Empty(txq) /\ thr = Nobody /\ thr' = First(txq)
           /\ (\E b \in Bytes : txq' = Put(Got(txq), b)) /\ UNCHANGED sent
TxLeaves == thr # Nobody /\ sent' = thr /\ thr' = Nobody /\ UNCHANGED txq

\* And to the input buffer.
InRests == UNCHANGED <<inq, read>>
InPuts == ~Full(inq) /\ (\E b \in Bytes : inq' = Put(inq, b)) /\ UNCHANGED read
InLeaves == ~Empty(inq) /\ read' = First(inq) /\ inq' = Got(inq)

LEMMA QueueSteps ==
    SInv /\ [Next]_vars =>
      /\ TxRests \/ TxPuts \/ TxSends \/ TxPolls \/ TxLeaves
      /\ InRests \/ InPuts \/ InLeaves
<1> DEFINE Goal == /\ TxRests \/ TxPuts \/ TxSends \/ TxPolls \/ TxLeaves
                   /\ InRests \/ InPuts \/ InLeaves
<1> SUFFICES ASSUME SInv, [Next]_vars PROVE Goal
  OBVIOUS
<1>0. txq \in Queues /\ inq \in Queues /\ rbr \in Bytes \cup {Nobody}
  BY DEF SInv, Types
<1>full. Full(txq) => ~Empty(txq)
  BY <1>0, CountIs, IntqAssumption
<1>1. ASSUME NEW t \in Writers, Write(t) PROVE Goal
  <2>1. InRests
    BY <1>1 DEF Write, Printf, AcquireConsole, NestedPrintf, ReleaseConsole, Putc, PutcWaits,
                PutcWakes, Enqueue, qVars, InRests
  <2>2. TxRests \/ TxPuts
    BY <1>1 DEF Write, Printf, AcquireConsole, NestedPrintf, ReleaseConsole, Putc, PutcWaits,
                PutcWakes, Enqueue, qVars, uartVars, TxRests, TxPuts
  <2> QED
    BY <2>1, <2>2
<1>2. ASSUME NEW t \in Readers, Read(t) PROVE Goal
  <2>1. TxRests
    BY <1>2 DEF Read, InputGetc, GetcInLine, GetcWakes, Take, Sleep, uartVars, TxRests
  <2>2. InRests \/ InLeaves
    BY <1>2 DEF Read, InputGetc, GetcInLine, GetcWakes, Take, Sleep, InRests, InLeaves
  <2> QED
    BY <2>1, <2>2
<1>3. CASE PutcOff
  <2>1. InRests
    BY <1>3 DEF PutcOff, InRests
  <2>2. CASE Full(txq)
    BY <1>3, <1>full, <2>1, <2>2 DEF PutcOff, TxPolls
  <2>3. CASE ~Full(txq)
    BY <1>3, <2>1, <2>3 DEF PutcOff, TxPuts
  <2> QED
    BY <2>2, <2>3
<1>4. CASE Flush
  BY <1>4 DEF Flush, InRests, TxRests, TxSends
<1>5. CASE SerialInterrupt
  <2>1. TxRests \/ TxSends
    BY <1>5 DEF SerialInterrupt, TxRests, TxSends
  <2>2. InRests \/ InPuts
    BY <1>0, <1>5 DEF SerialInterrupt, InputPutc, InRests, InPuts
  <2> QED
    BY <2>1, <2>2
<1>6. CASE KeyboardInterrupt
  <2>1. TxRests
    BY <1>6 DEF KeyboardInterrupt, uartVars, TxRests
  <2>2. InPuts
    BY <1>6 DEF KeyboardInterrupt, InputPutc, InPuts
  <2> QED
    BY <2>1, <2>2
<1>7. CASE Shift
  BY <1>7 DEF Shift, qVars, InRests, TxLeaves
<1>8. CASE Panic \/ Receive \/ UNCHANGED vars
  BY <1>8 DEF Panic, Receive, vars, qVars, uartVars, InRests, TxRests
<1> QED
  BY <1>1, <1>2, <1>3, <1>4, <1>5, <1>6, <1>7, <1>8 DEF Next

\* The queues hold bytes, and a byte on its way is one.
LEMMA QueueTypes ==
    SInv /\ [Next]_vars => /\ txq' \in Queues /\ inq' \in Queues
                          /\ thr' \in Bytes \cup {Nobody} /\ sent' \in Bytes /\ read' \in Bytes
<1> SUFFICES ASSUME SInv, [Next]_vars
             PROVE  /\ txq' \in Queues /\ inq' \in Queues
                    /\ thr' \in Bytes \cup {Nobody} /\ sent' \in Bytes /\ read' \in Bytes
  OBVIOUS
<1>0. /\ txq \in Queues /\ inq \in Queues
      /\ thr \in Bytes \cup {Nobody} /\ sent \in Bytes /\ read \in Bytes
  BY DEF SInv, Types
<1> DEFINE Sent == txq' \in Queues /\ thr' \in Bytes \cup {Nobody} /\ sent' \in Bytes
<1>1. ASSUME TxRests PROVE Sent
  BY <1>0, <1>1 DEF TxRests
<1>2. ASSUME TxPuts PROVE Sent
  BY <1>0, <1>2, PutProps DEF TxPuts
<1>3. ASSUME TxSends PROVE Sent
  BY <1>0, <1>3, GotProps DEF TxSends
<1>4. ASSUME TxPolls PROVE Sent
  <2>1. Got(txq) \in Queues /\ ~Full(Got(txq)) /\ First(txq) \in Bytes
    BY <1>0, <1>4, GotProps DEF TxPolls
  <2> QED
    BY <1>0, <1>4, <2>1, PutProps DEF TxPolls
<1>5. ASSUME TxLeaves PROVE Sent
  BY <1>0, <1>5 DEF TxLeaves
<1>6. Sent
  BY <1>1, <1>2, <1>3, <1>4, <1>5, QueueSteps
<1>7. inq' \in Queues /\ read' \in Bytes
  BY <1>0, QueueSteps, PutProps, GotProps DEF InRests, InPuts, InLeaves
<1> QED
  BY <1>6, <1>7

LEMMA TypesKept == SInv /\ [Next]_vars => Types'
<1> SUFFICES ASSUME SInv, [Next]_vars PROVE Types'
  OBVIOUS
<1>0. Types /\ (\A t \in Writers : Speaks(t))
  BY SerialState
<1>1. /\ Nobody \notin Writers /\ Nobody \notin Readers /\ Writers \subseteq Threads
      /\ Readers \subseteq Threads /\ Writers \cap Readers = {}
      /\ pc \in [Threads -> WriterPlaces \cup ReaderPlaces]
      /\ (\A t \in Writers : pc[t] \in WriterPlaces)
      /\ \A t \in Readers : pc[t] \in ReaderPlaces
  BY <1>0, SerialConstants DEF Types
<1>2. not_full' \in Writers \cup {Nobody}
  <2>1. ASSUME NEW t \in Writers, Write(t) PROVE not_full' \in Writers \cup {Nobody}
    BY <1>0, <2>1 DEF Types, Write, Printf, AcquireConsole, NestedPrintf, ReleaseConsole, Putc,
      PutcWaits, PutcWakes, qVars
  <2>2. ASSUME NEW t \in Readers, Read(t) PROVE not_full' \in Writers \cup {Nobody}
    BY <1>0, <2>2 DEF Types, Read, InputGetc, GetcInLine, GetcWakes, Sleep, qVars
  <2>3. CASE PutcOff \/ Flush \/ SerialInterrupt \/ KeyboardInterrupt
    BY <1>0, <2>3 DEF Types, PutcOff, Flush, SerialInterrupt, KeyboardInterrupt, InputPutc, qVars
  <2>4. CASE Panic \/ Shift \/ Receive \/ UNCHANGED vars
    BY <1>0, <2>4 DEF Types, Panic, Shift, Receive, vars, qVars
  <2> QED
    BY <2>1, <2>2, <2>3, <2>4 DEF Next
<1>n. not_empty' \in Readers \cup {Nobody}
  <2>1. ASSUME NEW t \in Writers, Write(t) PROVE not_empty' \in Readers \cup {Nobody}
    BY <1>0, <2>1 DEF Types, Write, Printf, AcquireConsole, NestedPrintf, ReleaseConsole, Putc,
      PutcWaits, PutcWakes, qVars
  <2>2. ASSUME NEW t \in Readers, Read(t) PROVE not_empty' \in Readers \cup {Nobody}
    BY <1>0, <2>2 DEF Types, Read, InputGetc, GetcInLine, GetcWakes, Sleep, qVars
  <2>3. CASE PutcOff \/ Flush \/ SerialInterrupt \/ KeyboardInterrupt
    BY <1>0, <2>3 DEF Types, PutcOff, Flush, SerialInterrupt, KeyboardInterrupt, InputPutc, qVars
  <2>4. CASE Panic \/ Shift \/ Receive \/ UNCHANGED vars
    BY <1>0, <2>4 DEF Types, Panic, Shift, Receive, vars, qVars
  <2> QED
    BY <2>1, <2>2, <2>3, <2>4 DEF Next
<1>3. rbr' \in Bytes \cup {Nobody}
  <2>1. ASSUME NEW t \in Writers, Write(t) PROVE rbr' \in Bytes \cup {Nobody}
    BY <1>0, <2>1 DEF Types, Write, Printf, AcquireConsole, NestedPrintf, ReleaseConsole, Putc,
      PutcWaits, PutcWakes, uartVars
  <2>2. ASSUME NEW t \in Readers, Read(t) PROVE rbr' \in Bytes \cup {Nobody}
    BY <1>0, <2>2 DEF Types, Read, InputGetc, GetcInLine, GetcWakes, Sleep, uartVars
  <2>3. CASE PutcOff \/ Flush \/ SerialInterrupt \/ KeyboardInterrupt
    BY <1>0, <2>3 DEF Types, PutcOff, Flush, SerialInterrupt, KeyboardInterrupt, InputPutc, uartVars
  <2>4. CASE Panic \/ Shift \/ Receive \/ UNCHANGED vars
    BY <1>0, <2>4 DEF Types, Panic, Shift, Receive, vars, uartVars
  <2> QED
    BY <2>1, <2>2, <2>3, <2>4 DEF Next
<1>4. console_lock' \in Writers \cup {Nobody}
  <2>1. ASSUME NEW t \in Writers, Write(t) PROVE console_lock' \in Writers \cup {Nobody}
    BY <1>0, <2>1 DEF Types, Write, Printf, AcquireConsole, NestedPrintf, ReleaseConsole, Putc,
      PutcWaits, PutcWakes, conVars
  <2>2. ASSUME NEW t \in Readers, Read(t) PROVE console_lock' \in Writers \cup {Nobody}
    BY <1>0, <2>2 DEF Types, Read, InputGetc, GetcInLine, GetcWakes, Sleep, conVars
  <2>3. CASE PutcOff \/ Flush \/ SerialInterrupt \/ KeyboardInterrupt
    BY <1>0, <2>3 DEF Types, PutcOff, Flush, SerialInterrupt, KeyboardInterrupt, InputPutc, conVars
  <2>4. CASE Panic \/ Shift \/ Receive \/ UNCHANGED vars
    BY <1>0, <2>4 DEF Types, Panic, Shift, Receive, vars, conVars
  <2> QED
    BY <2>1, <2>2, <2>3, <2>4 DEF Next
<1>c. use_console_lock' \in BOOLEAN
  <2>1. ASSUME NEW t \in Writers, Write(t) PROVE use_console_lock' \in BOOLEAN
    BY <1>0, <2>1 DEF Types, Write, Printf, AcquireConsole, NestedPrintf, ReleaseConsole, Putc,
      PutcWaits, PutcWakes, conVars
  <2>2. ASSUME NEW t \in Readers, Read(t) PROVE use_console_lock' \in BOOLEAN
    BY <1>0, <2>2 DEF Types, Read, InputGetc, GetcInLine, GetcWakes, Sleep, conVars
  <2>3. CASE PutcOff \/ Flush \/ SerialInterrupt \/ KeyboardInterrupt
    BY <1>0, <2>3 DEF Types, PutcOff, Flush, SerialInterrupt, KeyboardInterrupt, InputPutc, conVars
  <2>4. CASE Panic \/ Shift \/ Receive \/ UNCHANGED vars
    BY <1>0, <2>4 DEF Types, Panic, Shift, Receive, vars, conVars
  <2> QED
    BY <2>1, <2>2, <2>3, <2>4 DEF Next
<1>5. depth' \in Nat /\ level' \in [Writers -> 0..2]
  <2> DEFINE Nested == depth' \in Nat /\ level' \in [Writers -> 0..2]
  <2>0. depth \in Nat /\ level \in [Writers -> 0..2]
    BY <1>0 DEF Types
  <2>1. ASSUME NEW t \in Writers, AcquireConsole(t) PROVE Nested
    BY <2>0, <2>1 DEF AcquireConsole
  <2>2. ASSUME NEW t \in Writers, NestedPrintf(t) PROVE Nested
    BY <2>0, <2>2 DEF NestedPrintf, Deeper
  <2>3. ASSUME NEW t \in Writers, ReleaseConsole(t) PROVE Nested
    <3>1. level[t] > 0
      BY <1>0, <2>3 DEF ReleaseConsole, At, Speaks
    <3>2. level[t] - 1 \in 0..2 /\ level' = [level EXCEPT ![t] = level[t] - 1]
      BY <2>0, <2>3, <3>1 DEF ReleaseConsole
    <3>3. depth' \in Nat
      BY <2>0, <2>3 DEF ReleaseConsole
    <3> QED
      BY <2>0, <3>2, <3>3
  <2>4. \/ UNCHANGED <<depth, level>>
        \/ \E t \in Writers : AcquireConsole(t) \/ NestedPrintf(t) \/ ReleaseConsole(t)
    <3>1. ASSUME NEW t \in Writers, Write(t)
          PROVE  \/ UNCHANGED <<depth, level>>
                 \/ AcquireConsole(t) \/ NestedPrintf(t) \/ ReleaseConsole(t)
      BY <3>1 DEF Write, Printf, Putc, PutcWaits, PutcWakes, conVars
    <3>2. ASSUME NEW t \in Readers, Read(t) PROVE UNCHANGED <<depth, level>>
      BY <3>2 DEF Read, InputGetc, GetcInLine, GetcWakes, conVars
    <3>3. CASE PutcOff \/ Flush \/ SerialInterrupt \/ KeyboardInterrupt
      BY <3>3 DEF PutcOff, Flush, SerialInterrupt, KeyboardInterrupt, conVars
    <3>4. CASE Panic \/ Shift \/ Receive \/ UNCHANGED vars
      BY <3>4 DEF Panic, Shift, Receive, vars, conVars, thVars
    <3> QED
      BY <3>1, <3>2, <3>3, <3>4 DEF Next
  <2> QED
    BY <2>0, <2>1, <2>2, <2>3, <2>4
<1>6. /\ pc' \in [Threads -> WriterPlaces \cup ReaderPlaces]
      /\ \A u \in Writers : pc'[u] \in WriterPlaces
      /\ \A u \in Readers : pc'[u] \in ReaderPlaces
  <2> DEFINE Placed == /\ pc' \in [Threads -> WriterPlaces \cup ReaderPlaces]
                       /\ \A u \in Writers : pc'[u] \in WriterPlaces
                       /\ \A u \in Readers : pc'[u] \in ReaderPlaces
  <2>1. ASSUME NEW t \in Writers, NEW place \in WriterPlaces, Go(t, place) PROVE Placed
    BY <1>1, <2>1, GoIs
  <2>2. ASSUME NEW t \in Readers, NEW place \in ReaderPlaces, Go(t, place) PROVE Placed
    BY <1>1, <2>2, GoIs
  <2>3. ASSUME NEW t \in Writers, Write(t) PROVE Placed
    <3>1. pc' = pc \/ \E place \in WriterPlaces : Go(t, place)
      BY <2>3 DEF Write, Printf, AcquireConsole, NestedPrintf, ReleaseConsole, Putc, PutcWaits,
                  PutcWakes, WriterPlaces
    <3> QED
      BY <1>1, <2>1, <3>1
  <2>4. ASSUME NEW t \in Readers, Read(t) PROVE Placed
    <3>1. pc' = pc \/ \E place \in ReaderPlaces : Go(t, place)
      BY <2>4 DEF Read, InputGetc, GetcInLine, GetcWakes, Sleep, Take, ReaderPlaces
    <3> QED
      BY <1>1, <2>2, <3>1
  <2>5. ASSUME NEW r \in Threads \cup {Nobody}, NEW w \in Threads \cup {Nobody},
               pc' = Signalled(Signalled(pc, r), w)
        PROVE  Placed
    <3>1. /\ pc' \in [Threads -> WriterPlaces \cup ReaderPlaces]
          /\ \A u \in Threads : pc'[u] = IF u \in {r, w} THEN "woken" ELSE pc[u]
      BY <1>1, <2>5, BothSignalled
    <3>2. ASSUME NEW u \in Writers PROVE pc'[u] \in WriterPlaces
      BY <1>1, <3>1 DEF WriterPlaces
    <3>3. ASSUME NEW u \in Readers PROVE pc'[u] \in ReaderPlaces
      BY <1>1, <3>1 DEF ReaderPlaces
    <3> QED
      BY <3>1, <3>2, <3>3
  <2>6. ASSUME PutcOff \/ Flush \/ SerialInterrupt \/ KeyboardInterrupt PROVE Placed
    <3>1. not_full \in Threads \cup {Nobody} /\ not_empty \in Threads \cup {Nobody}
      BY <1>0, <1>1 DEF Types
    <3>2. \A q : Signalled(q, Nobody) = q
      BY DEF Signalled
    <3>3. \/ pc' = pc \/ pc' = Signalled(pc, not_full) \/ pc' = Signalled(pc, not_empty)
          \/ \E r \in {not_empty, Nobody}, w \in {not_full, Nobody} :
                pc' = Signalled(Signalled(pc, r), w)
      BY <2>6 DEF PutcOff, Flush, SerialInterrupt, KeyboardInterrupt
    <3>4. \E r \in Threads \cup {Nobody}, w \in Threads \cup {Nobody} :
            pc' = Signalled(Signalled(pc, r), w)
      BY <3>1, <3>2, <3>3
    <3> QED
      BY <2>5, <3>4
  <2>7. ASSUME Panic \/ Shift \/ Receive \/ UNCHANGED vars PROVE Placed
    <3>1. pc' = pc
      BY <2>7 DEF Panic, Shift, Receive, vars, thVars
    <3> QED
      BY <1>1, <3>1
  <2> QED
    BY <2>3, <2>4, <2>6, <2>7 DEF Next
<1>7. /\ txq' \in Queues /\ inq' \in Queues
      /\ thr' \in Bytes \cup {Nobody} /\ sent' \in Bytes /\ read' \in Bytes
  BY QueueTypes
<1> QED
  BY <1>2, <1>n, <1>3, <1>4, <1>c, <1>5, <1>6, <1>7 DEF Types
-----------------------------------------------------------------------------
LEMMA SInit == Init => SInv
<1> SUFFICES ASSUME Init PROVE SInv
  OBVIOUS
<1>0. /\ Nobody \notin Writers /\ Nobody \notin Readers /\ Writers \subseteq Threads
      /\ Readers \subseteq Threads
  BY SerialConstants
<1>1. txq \in Queues /\ inq \in Queues /\ Empty(txq) /\ ~Full(inq)
  BY NewQueueIs DEF Init
<1>2. PICK b : b \in Bytes
  BY IntqAssumption
<1>3. sent \in Bytes /\ read \in Bytes
  BY <1>2 DEF Init, SomeByte
<1>4. /\ pc \in [Threads -> {"idle"}] /\ level = [t \in Writers |-> 0]
      /\ thr = Nobody /\ rbr = Nobody /\ not_full = Nobody /\ not_empty = Nobody
      /\ console_lock = Nobody /\ depth = 0 /\ use_console_lock = TRUE /\ ier = {"recv"}
  BY DEF Init
<1>5. Types
  <2>1. /\ pc \in [Threads -> WriterPlaces \cup ReaderPlaces]
        /\ \A t \in Writers : pc[t] \in WriterPlaces
        /\ \A t \in Readers : pc[t] \in ReaderPlaces
    BY <1>0, <1>4 DEF WriterPlaces, ReaderPlaces
  <2> QED
    BY <1>1, <1>3, <1>4, <2>1 DEF Types
<1>6. Speakers
  BY <1>0, <1>4 DEF Speakers, Speaks
<1>7. Sleepers
  BY <1>0, <1>4 DEF Sleepers, WriterSleeps, ReaderSleeps
<1>8. Enabled
  BY <1>1, <1>4 DEF Enabled
<1> QED
  BY <1>5, <1>6, <1>7, <1>8 DEF SInv

(* What holds in every state: types, who speaks, who sleeps and where, and *)
(* that the interrupts a sleeper waits for are enabled.                    *)
THEOREM SerialInvariance == Spec => []SInv
<1>1. SInv /\ [Next]_vars => SInv'
  BY TypesKept, SpeakersKept, SleepersKept, EnabledKept DEF SInv
<1> QED
  BY <1>1, SInit, PTL DEF Spec

(* Messages do not mix (console.c, acquire_console and release_console):   *)
(* until a panic the thread in the middle of a message has the console's   *)
(* lock, and the depth counts its nested printf calls, for any number of   *)
(* threads and whatever interrupts do in between.                          *)
THEOREM MessagesDoNotMix == Spec => []OneSpeaker
<1>1. SInv => OneSpeaker
  BY DEF SInv, Speakers, Speaks, OneSpeaker
<1> QED
  BY <1>1, SerialInvariance, PTL

(* No wakeup is lost at the queues (intq.c, wait and signal; serial.c,     *)
(* write_ier): a thread asleep is the one the queue names, its reason to   *)
(* sleep still stands, and what would end it has its interrupt enabled.    *)
THEOREM SleepersAreFound == Spec => []WaitersAreFound
<1>1. SInv => WaitersAreFound
  BY SerialConstants DEF SInv, Sleepers, WriterSleeps, ReaderSleeps, Enabled, WaitersAreFound, At
<1> QED
  BY <1>1, SerialInvariance, PTL
-----------------------------------------------------------------------------
(* Both queues implement a channel of bytes.                               *)

LEMMA FirstOfConcat ==
    ASSUME NEW b \in Bytes, NEW s \in Seq(Bytes)
    PROVE  /\ <<b>> \o s \in Seq(Bytes) /\ <<b>> \o s # <<>>
           /\ Head(<<b>> \o s) = b /\ Tail(<<b>> \o s) = s
<1>1. <<b>> \in Seq(Bytes) /\ Len(<<b>>) = 1 /\ <<b>>[1] = b
  OBVIOUS
<1>2. /\ <<b>> \o s \in Seq(Bytes) /\ Len(<<b>> \o s) = 1 + Len(s)
      /\ \A i \in 1..(1 + Len(s)) : (<<b>> \o s)[i] = IF i <= 1 THEN b ELSE s[i - 1]
  BY <1>1, ConcatProperties
<1>3. <<b>> \o s # <<>>
  BY <1>2, EmptySeq
<1>4. Head(<<b>> \o s) = b
  BY <1>2, <1>3
<1>5. /\ Tail(<<b>> \o s) \in Seq(Bytes) /\ Len(Tail(<<b>> \o s)) = Len(s)
      /\ \A i \in 1..Len(s) : Tail(<<b>> \o s)[i] = (<<b>> \o s)[i + 1]
  BY <1>2, <1>3, HeadTailProperties
<1>6. ASSUME NEW i \in 1..Len(s) PROVE Tail(<<b>> \o s)[i] = s[i]
  BY <1>2, <1>5
<1>7. Tail(<<b>> \o s) = s
  BY <1>5, <1>6, SeqEqual
<1> QED
  BY <1>2, <1>3, <1>4, <1>7

LEMMA AppendAfterConcat ==
    ASSUME NEW p \in Seq(Bytes), NEW s \in Seq(Bytes), NEW b \in Bytes
    PROVE  p \o Append(s, b) = Append(p \o s, b)
<1>1. <<b>> \in Seq(Bytes) /\ p \o s \in Seq(Bytes)
  BY ConcatProperties
<1>2. p \o (s \o <<b>>) = (p \o s) \o <<b>>
  BY <1>1, ConcatAssociative
<1> QED
  BY <1>1, <1>2, AppendIsConcat

LEMMA HeadThenTail ==
    ASSUME NEW s \in Seq(Bytes), s # <<>>
    PROVE  <<Head(s)>> \in Seq(Bytes) /\ Tail(s) \in Seq(Bytes) /\ <<Head(s)>> \o Tail(s) = s
<1>1. /\ Head(s) \in Bytes /\ Tail(s) \in Seq(Bytes) /\ Len(Tail(s)) = Len(s) - 1
      /\ \A i \in 1..Len(Tail(s)) : Tail(s)[i] = s[i + 1]
  BY HeadTailProperties
<1>2. <<Head(s)>> \in Seq(Bytes) /\ Len(<<Head(s)>>) = 1 /\ <<Head(s)>>[1] = s[1]
  BY <1>1
<1>3. /\ <<Head(s)>> \o Tail(s) \in Seq(Bytes) /\ Len(<<Head(s)>> \o Tail(s)) = Len(s)
      /\ \A i \in 1..Len(s) : (<<Head(s)>> \o Tail(s))[i] =
                               IF i <= 1 THEN <<Head(s)>>[i] ELSE Tail(s)[i - 1]
  BY <1>1, <1>2, ConcatProperties
<1>4. ASSUME NEW i \in 1..Len(s) PROVE (<<Head(s)>> \o Tail(s))[i] = s[i]
  BY <1>1, <1>2, <1>3
<1> QED
  BY <1>1, <1>2, <1>3, <1>4, SeqEqual

\* The bytes between serial_putc and the wire.
InUart == IF thr = Nobody THEN <<>> ELSE <<thr>>
OnTheWay == InUart \o Contents(txq)

LEMMA OnTheWayIs ==
    ASSUME SInv
    PROVE  /\ Contents(txq) \in Seq(Bytes) /\ InUart \in Seq(Bytes)
           /\ thr = Nobody => OnTheWay = Contents(txq)
           /\ thr # Nobody => /\ OnTheWay # <<>> /\ Head(OnTheWay) = thr
                              /\ Tail(OnTheWay) = Contents(txq)
<1>1. txq \in Queues /\ thr \in Bytes \cup {Nobody}
  BY DEF SInv, Types
<1>2. Contents(txq) \in Seq(Bytes)
  BY <1>1, ContentsIs
<1>3. InUart \in Seq(Bytes)
  BY <1>1 DEF InUart
<1>4. thr = Nobody => OnTheWay = Contents(txq)
  BY <1>2, ConcatEmptySeq DEF OnTheWay, InUart
<1>5. thr # Nobody => OnTheWay # <<>> /\ Head(OnTheWay) = thr /\ Tail(OnTheWay) = Contents(txq)
  BY <1>1, <1>2, FirstOfConcat DEF OnTheWay, InUart
<1> QED
  BY <1>2, <1>3, <1>4, <1>5

LEMMA OutputStep ==
    SInv /\ [Next]_vars => [Output!Next]_<<OnTheWay, sent>>
<1> SUFFICES ASSUME SInv, [Next]_vars PROVE [Output!Next]_<<OnTheWay, sent>>
  OBVIOUS
<1>0. /\ txq \in Queues /\ thr \in Bytes \cup {Nobody} /\ Nobody \notin Bytes
      /\ Contents(txq) \in Seq(Bytes) /\ InUart \in Seq(Bytes)
      /\ OnTheWay = InUart \o Contents(txq)
  BY OnTheWayIs, SerialConstants DEF SInv, Types, OnTheWay
<1>o. /\ Output!Send <=> \E b \in Bytes : OnTheWay' = Append(OnTheWay, b) /\ UNCHANGED sent
      /\ Output!Emit <=> OnTheWay # <<>> /\ sent' = Head(OnTheWay) /\ OnTheWay' = Tail(OnTheWay)
  BY DEF Output!Send, Output!Emit, OnTheWay, InUart
<1>1. CASE TxRests
  BY <1>1 DEF TxRests, OnTheWay, InUart
<1>2. CASE TxPuts
  <2>1. PICK b \in Bytes : txq' = Put(txq, b) /\ UNCHANGED <<thr, sent>>
    BY <1>2 DEF TxPuts
  <2>2. Contents(txq') = Append(Contents(txq), b)
    BY <1>0, <1>2, <2>1, PutProps DEF TxPuts
  <2>3. OnTheWay' = InUart \o Contents(txq')
    BY <2>1 DEF OnTheWay, InUart
  <2>4. OnTheWay' = Append(OnTheWay, b)
    BY <1>0, <2>2, <2>3, AppendAfterConcat
  <2> QED
    BY <1>o, <2>1, <2>4 DEF Output!Next
<1>3. CASE TxSends
  <2>1. /\ Contents(Got(txq)) = Tail(Contents(txq)) /\ First(txq) = Head(Contents(txq))
        /\ Contents(txq) # <<>> /\ First(txq) \in Bytes /\ thr' # Nobody
    BY <1>0, <1>3, GotProps DEF TxSends
  <2>2. OnTheWay' = <<Head(Contents(txq))>> \o Tail(Contents(txq))
    BY <1>3, <2>1 DEF TxSends, OnTheWay, InUart
  <2>3. OnTheWay' = OnTheWay
    BY <1>0, <1>3, <2>1, <2>2, OnTheWayIs, HeadThenTail DEF TxSends
  <2> QED
    BY <1>3, <2>3 DEF TxSends
<1>4. CASE TxPolls
  <2>1. /\ Contents(Got(txq)) = Tail(Contents(txq)) /\ First(txq) = Head(Contents(txq))
        /\ Contents(txq) # <<>> /\ First(txq) \in Bytes /\ thr' # Nobody
        /\ Got(txq) \in Queues /\ ~Full(Got(txq))
    BY <1>0, <1>4, GotProps DEF TxPolls
  <2>2. PICK b \in Bytes : txq' = Put(Got(txq), b)
    BY <1>4 DEF TxPolls
  <2>3. Contents(txq') = Append(Tail(Contents(txq)), b)
    BY <2>1, <2>2, PutProps
  <2>4. OnTheWay' = <<Head(Contents(txq))>> \o Append(Tail(Contents(txq)), b)
    BY <1>4, <2>1, <2>3 DEF TxPolls, OnTheWay, InUart
  <2>5. /\ <<Head(Contents(txq))>> \in Seq(Bytes) /\ Tail(Contents(txq)) \in Seq(Bytes)
        /\ <<Head(Contents(txq))>> \o Tail(Contents(txq)) = Contents(txq)
    BY <1>0, <2>1, HeadThenTail
  <2>6. OnTheWay' = Append(Contents(txq), b)
    BY <2>4, <2>5, AppendAfterConcat
  <2>7. OnTheWay' = Append(OnTheWay, b) /\ sent' = sent
    BY <1>4, <2>6, OnTheWayIs DEF TxPolls
  <2> QED
    BY <1>o, <2>7 DEF Output!Next
<1>5. CASE TxLeaves
  <2>1. thr # Nobody /\ sent' = thr /\ thr' = Nobody /\ txq' = txq
    BY <1>5 DEF TxLeaves
  <2>2. OnTheWay' = <<>> \o Contents(txq)
    BY <2>1 DEF OnTheWay, InUart
  <2>3. OnTheWay' = Contents(txq)
    BY <1>0, <2>2, ConcatEmptySeq
  <2> QED
    BY <1>o, <2>1, <2>3, OnTheWayIs DEF Output!Next
<1> QED
  BY <1>1, <1>2, <1>3, <1>4, <1>5, QueueSteps

LEMMA InputStep ==
    SInv /\ [Next]_vars => [Input!Next]_<<Contents(inq), read>>
<1> SUFFICES ASSUME SInv, [Next]_vars PROVE [Input!Next]_<<Contents(inq), read>>
  OBVIOUS
<1>0. inq \in Queues
  BY DEF SInv, Types
<1>1. CASE InRests
  BY <1>1 DEF InRests
<1>2. CASE InPuts
  <2>1. PICK b \in Bytes : inq' = Put(inq, b) /\ UNCHANGED read
    BY <1>2 DEF InPuts
  <2>2. Contents(inq') = Append(Contents(inq), b)
    BY <1>0, <1>2, <2>1, PutProps DEF InPuts
  <2>3. Input!Send
    BY <2>1, <2>2 DEF Input!Send
  <2> QED
    BY <2>3 DEF Input!Next
<1>3. CASE InLeaves
  <2>1. ~Empty(inq) /\ read' = First(inq) /\ inq' = Got(inq)
    BY <1>3 DEF InLeaves
  <2>2. /\ Contents(inq) # <<>> /\ read' = Head(Contents(inq))
        /\ Contents(inq') = Tail(Contents(inq))
    BY <1>0, <2>1, GotProps
  <2>3. Input!Emit
    BY <2>2 DEF Input!Emit
  <2> QED
    BY <2>3 DEF Input!Next
<1> QED
  BY <1>1, <1>2, <1>3, QueueSteps

(* Refinement: the serial port sends the bytes that were printed, and the  *)
(* readers get the bytes that were received, in order, none lost and none  *)
(* twice, also those that are polled out of a full queue (serial_putc with *)
(* interrupts off) or by serial_flush, for any size of the ring buffer.    *)
THEOREM BytesStayInOrder == Spec => BytesInOrder
<1>1. Init => Output!Init
  <2>1. Init => OnTheWay = <<>> /\ sent \in Bytes
    BY SInit, OnTheWayIs, NewQueueIs DEF Init, SInv, Types
  <2> QED
    BY <2>1 DEF Output!Init, OnTheWay, InUart
<1>2. Init => Input!Init
  BY SInit, NewQueueIs DEF Init, SInv, Types, Input!Init
<1>3. SInv /\ [Next]_vars => [Output!Next]_<<OnTheWay, sent>>
  BY OutputStep
<1>4. SInv /\ [Next]_vars => [Input!Next]_<<Contents(inq), read>>
  BY InputStep
<1>5. Spec => Output!Spec
  BY <1>1, <1>3, SerialInvariance, PTL DEF Spec, Output!Spec, OnTheWay, InUart
<1>6. Spec => Input!Spec
  BY <1>2, <1>4, SerialInvariance, PTL DEF Spec, Input!Spec
<1> QED
  BY <1>5, <1>6 DEF BytesInOrder
=============================================================================
