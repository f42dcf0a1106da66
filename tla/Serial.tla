------------------------------- MODULE Serial -------------------------------
(***************************************************************************)
(* The character devices: the console with its recursive lock              *)
(* (src/lib/kernel/console.c), the serial port with its transmit queue     *)
(* (src/devices/serial.c), and the input buffer that the keyboard and the  *)
(* serial port fill and read (0, ...) empties (src/devices/input.c, kbd.c).*)
(* Interrupts are off in every function of intq, input and serial, so a    *)
(* step is such a function up to its return or to the place where the      *)
(* thread gives up the CPU: lock_acquire, wait and lock_release of a full  *)
(* or empty queue, and the console lock.                                   *)
(*                                                                         *)
(* External: the UART (Shift, Receive) takes a byte when THR is empty,     *)
(* sends it, and holds one received byte until it is read.                 *)
(***************************************************************************)
EXTENDS Naturals, Sequences, FiniteSets

CONSTANTS
  INTQ_BUFSIZE, Bytes,
  Writers,   \* threads that print
  Readers,   \* threads that read the keyboard
  Nobody,
  MaxPrints  \* bound: characters per message

ASSUME SerialAssumption ==
    /\ Writers \cap Readers = {} /\ Nobody \notin Writers \cup Readers
    /\ Nobody \notin Bytes

-----------------------------------------------------------------------------
(* The ring buffer of src/devices/intq.c: head is where the next byte goes *)
(* in, tail where the next one comes out, and one slot always stays free.  *)
ASSUME IntqAssumption == INTQ_BUFSIZE \in Nat \ {0, 1} /\ Bytes # {}

Places == 0..INTQ_BUFSIZE - 1
Queues == [buf : [Places -> Bytes], head : Places, tail : Places]

\* The place after pos; the mutant lets the two ends pass each other.
NextSkips(pos) == (pos + 2) % INTQ_BUFSIZE
NextPos(pos) == (pos + 1) % INTQ_BUFSIZE

Empty(q) == q.head = q.tail
Full(q) == NextPos(q.head) = q.tail
First(q) == q.buf[q.tail]
Got(q) == [q EXCEPT !.tail = NextPos(@)]
Put(q, b) == [q EXCEPT !.buf[q.head] = b, !.head = NextPos(@)]
NewQueue == [buf |-> [p \in Places |-> CHOOSE b \in Bytes : TRUE], head |-> 0, tail |-> 0]

(* The bytes in the queue, oldest first. *)
Count(q) == (q.head + INTQ_BUFSIZE - q.tail) % INTQ_BUFSIZE
Contents(q) == [i \in 1..Count(q) |-> q.buf[(q.tail + i - 1) % INTQ_BUFSIZE]]
-----------------------------------------------------------------------------
Threads == Writers \cup Readers

VARIABLES
  txq, inq,         \* the transmit queue and the input buffer
  tx_lock, in_lock, \* their locks
  not_full,         \* txq's sleeping writer
  not_empty,        \* the input buffer's sleeping reader
  ier,              \* the interrupts enabled: "xmit", "recv"
  thr,              \* the byte the UART is sending, or Nobody
  rbr,              \* the byte it received, or Nobody
  sent, read,       \* the bytes that last left: on the wire, to a reader
  console_lock, depth, use_console_lock,
  pc, level,        \* thread -> where it is; its printf calls that are open
  left,             \* thread -> characters of its message still to print
  halted            \* "no", "panic" (printing and flushing), "yes"

qVars == <<txq, inq, tx_lock, in_lock, not_full, not_empty, ier>>
uartVars == <<thr, rbr, sent>>
conVars == <<console_lock, depth, use_console_lock>>
thVars == <<pc, level, left>>
vars == <<txq, inq, tx_lock, in_lock, not_full, not_empty, ier, thr, rbr, sent, read,
          console_lock, depth, use_console_lock, pc, level, left, halted>>

SomeByte == CHOOSE b \in Bytes : TRUE

(* After console_init and serial_init_queue: mode is QUEUE. *)
Init ==
    /\ txq = NewQueue /\ inq = NewQueue
    /\ tx_lock = Nobody /\ in_lock = Nobody /\ not_full = Nobody /\ not_empty = Nobody
    /\ ier = {"recv"} /\ thr = Nobody /\ rbr = Nobody /\ sent = SomeByte /\ read = SomeByte
    /\ console_lock = Nobody /\ depth = 0 /\ use_console_lock = TRUE
    /\ pc = [t \in Threads |-> "idle"]
    /\ level = [t \in Writers |-> 0] /\ left = [t \in Writers |-> 0]
    /\ halted = "no"

At(t, l) == pc[t] = l
Go(t, l) == pc' = [pc EXCEPT ![t] = l]
Running == halted = "no"

\* write_ier, after txq' and inq'; the mutant looks at txq before the call.
StaleIer == ier' = (IF Empty(txq) THEN {} ELSE {"xmit"}) \cup (IF Full(inq') THEN {} ELSE {"recv"})
WriteIer == ier' = (IF Empty(txq') THEN {} ELSE {"xmit"}) \cup (IF Full(inq') THEN {} ELSE {"recv"})

\* signal: the sleeper, if there is one, becomes ready; the mutant only
\* resets the waiter.
NotSignalled(place, waiter) == place
Signalled(place, waiter) ==
    IF waiter = Nobody THEN place ELSE [place EXCEPT ![waiter] = "woken"]
-----------------------------------------------------------------------------
(* The console: acquire_console, release_console and the message between.  *)

(* A message starts, or another one within it: a printf from a function    *)
(* that serial_putc or the scheduler ends up in.                           *)
Printf(t) ==
    /\ Running /\ At(t, "idle")
    /\ Go(t, "acquire")
    /\ UNCHANGED <<qVars, uartVars, read, conVars, level, left, halted>>

AcquireConsole(t) ==
    /\ Running /\ At(t, "acquire") /\ console_lock = Nobody
    /\ console_lock' = t
    /\ level' = [level EXCEPT ![t] = 1] /\ left' = [left EXCEPT ![t] = MaxPrints]
    /\ Go(t, "print")
    /\ UNCHANGED <<qVars, uartVars, read, depth, use_console_lock, halted>>

\* console_lock_depth after a nested acquire; the mutant forgets to count.
SameDepth == depth
Deeper == depth + 1

NestedPrintf(t) ==
    /\ Running /\ At(t, "print") /\ level[t] = 1 /\ console_lock = t
    /\ depth' = Deeper
    /\ level' = [level EXCEPT ![t] = 2] /\ left' = [left EXCEPT ![t] = MaxPrints]
    /\ UNCHANGED <<qVars, uartVars, read, console_lock, use_console_lock, pc, halted>>

(* The end of a message; the outer one may go on with its characters.      *)
ReleaseConsole(t) ==
    /\ Running /\ At(t, "print")
    /\ IF depth > 0 THEN depth' = depth - 1 /\ UNCHANGED console_lock
       ELSE console_lock' = Nobody /\ UNCHANGED depth
    /\ level' = [level EXCEPT ![t] = @ - 1]
    /\ left' = [left EXCEPT ![t] = IF level[t] = 1 THEN 0 ELSE MaxPrints]
    /\ Go(t, IF level[t] = 1 THEN "idle" ELSE "print")
    /\ UNCHANGED <<qVars, uartVars, read, use_console_lock, halted>>
-----------------------------------------------------------------------------
(* serial_putc with interrupts on, as putchar_have_lock calls it.          *)

Enqueue(t, b) ==
    /\ txq' = Put(txq, b) /\ UNCHANGED inq /\ WriteIer
    /\ left' = [left EXCEPT ![t] = @ - 1]

Putc(t) ==
    /\ Running /\ At(t, "print") /\ left[t] > 0 /\ ~Full(txq)
    /\ \E b \in Bytes : Enqueue(t, b)
    /\ UNCHANGED <<tx_lock, in_lock, not_full, not_empty, uartVars, read, conVars, pc, level, halted>>

(* The queue is full: lock_acquire, and wait until a byte has left.        *)
PutcWaits(t) ==
    /\ Running /\ At(t, "print") /\ left[t] > 0 /\ Full(txq) /\ tx_lock = Nobody
    /\ tx_lock' = t /\ not_full' = t /\ Go(t, "asleep")
    /\ UNCHANGED <<txq, inq, in_lock, not_empty, ier, uartVars, read, conVars, level, left, halted>>

(* wait returns; lock_release; the loop tests the queue again.             *)
PutcWakes(t) ==
    /\ Running /\ At(t, "woken") /\ t \in Writers
    /\ IF Full(txq)
       THEN /\ not_full' = t /\ Go(t, "asleep") /\ UNCHANGED <<txq, inq, tx_lock, ier, left>>
       ELSE /\ tx_lock' = Nobody /\ Go(t, "print")
            /\ UNCHANGED not_full /\ \E b \in Bytes : Enqueue(t, b)
    /\ UNCHANGED <<in_lock, not_empty, uartVars, read, conVars, level, halted>>

(* serial_putc with interrupts off (an interrupt handler prints): if the   *)
(* queue is full its oldest byte goes out by polling, and a writer that    *)
(* sleeps is woken although the place is taken again.                      *)
PutcOff ==
    /\ halted # "yes" /\ (Full(txq) => thr = Nobody)
    /\ IF Full(txq) THEN /\ thr' = First(txq)
                         /\ pc' = Signalled(pc, not_full) /\ not_full' = Nobody
       ELSE UNCHANGED <<thr, pc, not_full>>
    /\ \E b \in Bytes : txq' = Put(IF Full(txq) THEN Got(txq) ELSE txq, b)
    /\ UNCHANGED inq /\ WriteIer
    /\ UNCHANGED <<tx_lock, in_lock, not_empty, rbr, sent, read, conVars, level, left, halted>>

(* A kernel panic: interrupts off for good, the console lock is ignored,   *)
(* and serial_flush polls the queue empty before the machine stops.        *)
Panic ==
    /\ Running
    /\ halted' = "panic" /\ use_console_lock' = FALSE
    /\ UNCHANGED <<qVars, uartVars, read, console_lock, depth, thVars>>

Flush ==
    /\ halted = "panic" /\ (Empty(txq) \/ thr = Nobody)
    /\ IF Empty(txq) THEN halted' = "yes" /\ UNCHANGED <<txq, thr, pc, not_full>>
       ELSE /\ thr' = First(txq) /\ txq' = Got(txq)
            /\ pc' = Signalled(pc, not_full) /\ not_full' = Nobody
            /\ UNCHANGED halted
    /\ UNCHANGED <<inq, tx_lock, in_lock, not_empty, ier, rbr, sent, read, conVars, level, left>>
-----------------------------------------------------------------------------
(* input_getc: a byte; or lock_acquire, and wait until there is one.  A    *)
(* second reader stands in line for the lock and wait finds it with a full *)
(* queue: its ASSERT (intq.c:84) fails and the kernel panics.              *)

Take(t) ==
    /\ inq' = Got(inq) /\ read' = First(inq) /\ UNCHANGED txq /\ WriteIer
    /\ Go(t, "idle")

Sleep(t) ==
    /\ in_lock' = t /\ not_empty' = t /\ Go(t, "asleep")
    /\ UNCHANGED <<txq, inq, ier, read, use_console_lock, halted>>

InputGetc(t) ==
    /\ Running /\ pc[t] \in {"idle", "again"}
    /\ \/ /\ ~Empty(inq) /\ Take(t)
          /\ UNCHANGED <<in_lock, not_empty, use_console_lock, halted>>
       \/ Empty(inq) /\ in_lock = Nobody /\ Sleep(t)
       \/ /\ Empty(inq) /\ in_lock # Nobody /\ Go(t, "in line")
          /\ UNCHANGED <<txq, inq, ier, read, in_lock, not_empty, use_console_lock, halted>>
    /\ UNCHANGED <<tx_lock, not_full, uartVars, console_lock, depth, level, left>>

GetcInLine(t) ==
    /\ Running /\ At(t, "in line") /\ in_lock = Nobody
    /\ \/ Empty(inq) /\ Sleep(t)
       \/ /\ ~Empty(inq) /\ halted' = "panic" /\ use_console_lock' = FALSE
          /\ UNCHANGED <<txq, inq, ier, read, in_lock, not_empty, pc>>
    /\ UNCHANGED <<tx_lock, not_full, uartVars, console_lock, depth, level, left>>

(* wait returns; lock_release may give the CPU to the reader next in line; *)
(* then the loop tests the queue again.                                    *)
GetcWakes(t) ==
    /\ Running /\ At(t, "woken") /\ t \in Readers
    /\ in_lock' = Nobody
    /\ \/ ~Empty(inq) /\ Take(t)
       \/ Go(t, "again") /\ UNCHANGED <<txq, inq, ier, read>>
    /\ UNCHANGED <<tx_lock, not_full, not_empty, uartVars, conVars, level, left, halted>>
-----------------------------------------------------------------------------
(* input_putc, from a handler that found room.                             *)
InputPutc(b) ==
    /\ inq' = Put(inq, b) /\ not_empty' = Nobody

(* serial_interrupt: receive while there is room, transmit while the UART  *)
(* takes a byte, and set the interrupts anew.                              *)
SerialInterrupt ==
    LET receive == rbr # Nobody /\ ~Full(inq)
        transmit == thr = Nobody /\ ~Empty(txq) IN
    /\ halted = "no"
    /\ ("xmit" \in ier /\ thr = Nobody) \/ ("recv" \in ier /\ rbr # Nobody)
    /\ IF receive THEN InputPutc(rbr) /\ rbr' = Nobody
       ELSE UNCHANGED <<inq, not_empty, rbr>>
    /\ IF transmit THEN txq' = Got(txq) /\ thr' = First(txq) /\ not_full' = Nobody
       ELSE UNCHANGED <<txq, thr, not_full>>
    /\ pc' = Signalled(Signalled(pc, IF receive THEN not_empty ELSE Nobody),
                       IF transmit THEN not_full ELSE Nobody)
    /\ WriteIer
    /\ UNCHANGED <<tx_lock, in_lock, sent, read, conVars, level, left, halted>>

(* keyboard_interrupt with a character: dropped if the buffer is full.     *)
KeyboardInterrupt ==
    /\ Running /\ ~Full(inq)
    /\ \E b \in Bytes : InputPutc(b)
    /\ pc' = Signalled(pc, not_empty)
    /\ UNCHANGED txq /\ WriteIer
    /\ UNCHANGED <<tx_lock, in_lock, not_full, uartVars, read, conVars, level, left, halted>>

Shift ==
    /\ thr # Nobody
    /\ sent' = thr /\ thr' = Nobody
    /\ UNCHANGED <<qVars, rbr, read, conVars, thVars, halted>>

Receive ==
    /\ Running /\ rbr = Nobody
    /\ rbr' \in Bytes
    /\ UNCHANGED <<qVars, thr, sent, read, conVars, thVars, halted>>

Write(t) ==
    \/ Printf(t) \/ AcquireConsole(t) \/ NestedPrintf(t) \/ ReleaseConsole(t)
    \/ Putc(t) \/ PutcWaits(t) \/ PutcWakes(t)
Read(t) == InputGetc(t) \/ GetcInLine(t) \/ GetcWakes(t)

Next ==
    \/ \E t \in Writers : Write(t)
    \/ \E t \in Readers : Read(t)
    \/ PutcOff \/ Panic \/ Flush
    \/ SerialInterrupt \/ KeyboardInterrupt \/ Shift \/ Receive

(* The UART sends what it holds, and its interrupt is served. *)
Spec == Init /\ [][Next]_vars /\ WF_vars(Shift) /\ WF_vars(SerialInterrupt)
-----------------------------------------------------------------------------
(* The messages of two threads do not mix: until a panic one thread is in  *)
(* the middle of a message, the one the console lock names, however deep   *)
(* its printf calls are nested.                                            *)
OneSpeaker ==
    use_console_lock => \A t \in Writers :
        level[t] > 0 => console_lock = t /\ depth = level[t] - 1

(* A thread asleep at a queue is the one the queue will wake, and has a    *)
(* reason to sleep; bytes to send and room to receive have their interrupt *)
(* enabled.                                                                *)
WaitersAreFound ==
    /\ \A t \in Writers : At(t, "asleep") => not_full = t /\ tx_lock = t /\ Full(txq)
    /\ \A t \in Readers : At(t, "asleep") => not_empty = t /\ in_lock = t /\ Empty(inq)
    /\ Running => /\ ~Empty(txq) => "xmit" \in ier
                  /\ ~Full(inq) => "recv" \in ier

(* Bytes leave the serial port, and reach the readers, in the order in     *)
(* which they came, none lost and none twice: also those that are polled   *)
(* out by a handler that prints into a full queue, or by a panic.          *)
Output == INSTANCE Fifo WITH out <- sent,
            chan <- (IF thr = Nobody THEN <<>> ELSE <<thr>>) \o Contents(txq)
Input == INSTANCE Fifo WITH out <- read, chan <- Contents(inq)
BytesInOrder == Output!Spec /\ Input!Spec

(* A writer asleep at the full queue is woken, unless the kernel panics.   *)
WriterWakes == \A t \in Writers : At(t, "asleep") ~> (~At(t, "asleep") \/ ~Running)
=============================================================================
