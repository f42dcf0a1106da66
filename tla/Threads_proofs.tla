--------------------------- MODULE Threads_proofs ----------------------------
(***************************************************************************)
(* Proofs about Scheduler, Locks and Condvar, for every set of threads,    *)
(* semaphores, locks and priorities and every time slice.                  *)
(*   The scheduler: its lists hold exactly the threads whose status says   *)
(* so, no blocked thread is forgotten and no wakeup lost, the highest      *)
(* priority comes next, sleepers wake on time, and do_schedule frees only  *)
(* pages of dead threads.                                                  *)
(*   Locks: a lock has one owner whatever preempts lock_acquire and        *)
(* lock_release between two of their statements, and the locks implement   *)
(* the abstract mutex.                                                     *)
(*   Condition variables, whose cond_wait is made of the locks' functions: *)
(* no element of the condition's list dangles and no signal is lost.       *)
(***************************************************************************)
EXTENDS Condvar, ListOps_proofs, FiniteSetTheorems

USE ThreadAssumption, SemaAssumption, NumberAssumption DEF Status, PcValues, None

-----------------------------------------------------------------------------
(* The inductive invariant.                                                *)

\* The ready list is the set of READY threads, idle aside.
Queued(st, rl) ==
    /\ rl \in Seq(Thread)
    /\ NoRepeat(rl)
    /\ \A t \in Thread \ {Idle} : st[t] = "READY" <=> t \in Range(rl)
    /\ Idle \notin Range(rl)

\* The destruction requests are the dead threads, main aside.
Doomed(st, dr) ==
    /\ dr \in Seq(Thread)
    /\ NoRepeat(dr)
    /\ \A t \in Thread \ {Main} : st[t] = "DYING" <=> t \in Range(dr)
    /\ Main \notin Range(dr)

\* What schedule () keeps of the CPU and of the lists it works on.
Cpu(cur, st, rl, dr) ==
    /\ cur \in Thread
    /\ st \in [Thread -> Status]
    /\ st[Idle] \notin {"FREE", "DYING"}
    /\ \A t \in Thread : st[t] = "RUNNING" <=> t = cur
    /\ Queued(st, rl)
    /\ Doomed(st, dr)
CpuInv == Cpu(current, status, ready_list, destruction_req)

IInv == TypeOK /\ ListsMatchStatus /\ PlaceMatches /\ BlockedIsFindable

\* A switch blocks nobody, wakes nobody but idle and kills nobody.
Frame(st) ==
    \A t \in Thread :
        /\ t # Idle => (status'[t] = "BLOCKED" <=> st[t] = "BLOCKED")
        /\ status'[t] \in {"FREE", "DYING"} => st[t] \in {"FREE", "DYING"}

-----------------------------------------------------------------------------
(* The parts of thread.c.                                                  *)

\* schedule (), called with the running thread in a status other than
\* THREAD_RUNNING: the lists and the statuses agree again when it is done.
LEMMA ScheduleProps ==
    ASSUME current \in Thread,
           NEW st \in [Thread -> Status], NEW rl, NEW dr \in Seq(Thread),
           st[Idle] \notin {"FREE", "DYING"},
           \A t \in Thread : st[t] # "RUNNING",
           Queued(st, rl),
           NoRepeat(dr), Main \notin Range(dr), current \notin Range(dr),
           \A t \in Thread \ {Main, current} : st[t] = "DYING" <=> t \in Range(dr),
           Schedule(st, rl, dr)
    PROVE  CpuInv' /\ thread_ticks' \in Nat /\ Frame(st)
<1> DEFINE next == IF rl = <<>> THEN Idle ELSE Head(rl)
<1>1. /\ current' = next
      /\ status' = [st EXCEPT ![next] = "RUNNING"]
      /\ ready_list' = IF rl = <<>> THEN rl ELSE Tail(rl)
      /\ destruction_req' = IF st[current] = "DYING" /\ current # Main
                            THEN Append(dr, current) ELSE dr
      /\ thread_ticks' = 0
  BY DEF Schedule
<1>2. /\ rl # <<>> => /\ Head(rl) \in Thread \ {Idle} /\ st[Head(rl)] = "READY"
                      /\ Tail(rl) \in Seq(Thread) /\ NoRepeat(Tail(rl))
                      /\ Range(Tail(rl)) = Range(rl) \ {Head(rl)}
  BY TailProps DEF Queued
<1>3. /\ next \in Thread
      /\ st[next] \notin {"FREE", "DYING"}
      /\ next # Idle => st[next] = "READY"
  BY <1>2
<1>4. /\ current' \in Thread /\ status' \in [Thread -> Status]
      /\ status'[Idle] \notin {"FREE", "DYING"}
      /\ \A t \in Thread : status'[t] = IF t = next THEN "RUNNING" ELSE st[t]
  BY <1>1, <1>3
<1>5. \A t \in Thread : status'[t] = "RUNNING" <=> t = current'
  BY <1>1, <1>4
<1>6. Queued(status', ready_list')
  <2>1. CASE rl = <<>>
    BY <2>1, <1>1, <1>4 DEF Queued
  <2>2. CASE rl # <<>>
    <3>1. ready_list' = Tail(rl) /\ next = Head(rl)
      BY <2>2, <1>1
    <3>2. ASSUME NEW t \in Thread \ {Idle}
          PROVE  status'[t] = "READY" <=> t \in Range(ready_list')
      BY <2>2, <3>1, <1>2, <1>4 DEF Queued
    <3> QED
      BY <2>2, <3>1, <3>2, <1>2 DEF Queued
  <2> QED
    BY <2>1, <2>2
<1>7. Doomed(status', destruction_req')
  <2>1. \A t \in Thread : status'[t] = "DYING" <=> st[t] = "DYING"
    BY <1>3, <1>4
  <2>2. CASE st[current] = "DYING" /\ current # Main
    <3>1. destruction_req' = Append(dr, current)
      BY <2>2, <1>1
    <3>2. /\ Append(dr, current) \in Seq(Thread)
          /\ Range(Append(dr, current)) = Range(dr) \cup {current}
          /\ NoRepeat(Append(dr, current))
      BY AppendProps
    <3> QED
      BY <2>1, <2>2, <3>1, <3>2 DEF Doomed
  <2>3. CASE ~(st[current] = "DYING" /\ current # Main)
    <3>1. destruction_req' = dr
      BY <2>3, <1>1
    <3> QED
      BY <2>1, <2>3, <3>1 DEF Doomed
  <2> QED
    BY <2>2, <2>3
<1>8. Frame(st)
  BY <1>3, <1>4 DEF Frame
<1> QED
  BY <1>1, <1>4, <1>5, <1>6, <1>7, <1>8 DEF CpuInv, Cpu

\* do_schedule (new): the pages of the destruction requests are freed first,
\* and the running thread's is not one of them.
LEMMA DoScheduleProps ==
    ASSUME current \in Thread,
           NEW st \in [Thread -> Status], NEW new \in {"READY", "DYING"}, NEW rl,
           current = Idle => new = "READY",
           st[Idle] \notin {"FREE", "DYING"},
           \A t \in Thread : st[t] = "RUNNING" <=> t = current,
           Doomed(st, destruction_req),
           Queued([st EXCEPT ![current] = new], rl),
           DoSchedule(st, new, rl)
    PROVE  CpuInv' /\ thread_ticks' \in Nat /\ Frame([st EXCEPT ![current] = new])
<1> DEFINE freed == [t \in Thread |-> IF t \in Range(destruction_req) THEN "FREE" ELSE st[t]]
           st1 == [st EXCEPT ![current] = new]
           st2 == [freed EXCEPT ![current] = new]
<1>1. Schedule(st2, rl, <<>>)
  BY DEF DoSchedule
<1>2. \A t \in Thread : t \in Range(destruction_req) => st[t] = "DYING" /\ t # current /\ t # Idle
  BY DEF Doomed
<1>3. /\ st1 \in [Thread -> Status] /\ st2 \in [Thread -> Status]
      /\ \A t \in Thread : st1[t] = IF t = current THEN new ELSE st[t]
      /\ \A t \in Thread : st2[t] = IF t = current THEN new ELSE
                                    IF t \in Range(destruction_req) THEN "FREE" ELSE st[t]
  OBVIOUS
<1> HIDE DEF st1, st2
<1>4. Queued(st2, rl)
  BY <1>2, <1>3 DEF Queued, st1
<1>5. /\ st2[Idle] \notin {"FREE", "DYING"}
      /\ \A t \in Thread : st2[t] # "RUNNING"
      /\ \A t \in Thread \ {Main, current} : st2[t] # "DYING"
  BY <1>2, <1>3 DEF Doomed
<1>6. /\ <<>> \in Seq(Thread) /\ NoRepeat(<<>>) /\ Range(<<>>) = {}
  BY DEF NoRepeat, Range
<1>7. CpuInv' /\ thread_ticks' \in Nat /\ Frame(st2)
  BY <1>1, <1>3, <1>4, <1>5, <1>6, ScheduleProps
<1>8. Frame(st1)
  BY <1>2, <1>3, <1>7 DEF Frame
<1> QED
  BY <1>7, <1>8 DEF st1

\* thread_yield (): the running thread joins the ready list unless it is idle.
LEMMA YieldProps ==
    ASSUME NEW st, NEW rl, Cpu(current, st, rl, destruction_req),
           priority \in [Thread -> Nat],
           Yield(st, rl)
    PROVE  CpuInv' /\ thread_ticks' \in Nat /\ Frame(st)
<1> USE DEF Cpu
<1> DEFINE rl1 == IF current = Idle THEN rl ELSE InsertOrdered(rl, current, priority)
           st1 == [st EXCEPT ![current] = "READY"]
<1>1. DoSchedule(st, "READY", rl1)
  BY DEF Yield
<1>2. /\ st1 \in [Thread -> Status]
      /\ \A t \in Thread : st1[t] = IF t = current THEN "READY" ELSE st[t]
  OBVIOUS
<1>3. /\ InsertOrdered(rl, current, priority) \in Seq(Thread)
      /\ Range(InsertOrdered(rl, current, priority)) = Range(rl) \cup {current}
      /\ NoRepeat(rl) /\ current \notin Range(rl)
           => NoRepeat(InsertOrdered(rl, current, priority))
  <2>1. rl \in Seq(Thread) /\ current \in Thread /\ priority \in [Thread -> Nat]
    BY DEF Queued
  <2> HIDE DEF Cpu
  <2> QED
    BY <2>1, InsertOrderedProps
<1>4. Queued(st1, rl1)
  <2>1. CASE current = Idle
    BY <2>1, <1>2 DEF Queued
  <2>2. CASE current # Idle
    BY <2>2, <1>2, <1>3 DEF Queued
  <2> QED
    BY <2>1, <2>2
<1>5. CpuInv' /\ thread_ticks' \in Nat /\ Frame(st1)
  BY <1>1, <1>4, DoScheduleProps
<1>6. Frame(st)
  BY <1>2, <1>5 DEF Frame
<1> QED
  BY <1>5, <1>6

\* thread_compare_priority (), whether it yields or returns.
LEMMA ComparePriorityProps ==
    ASSUME NEW st, NEW rl, NEW context, Cpu(current, st, rl, destruction_req),
           priority \in [Thread -> Nat], thread_ticks \in Nat,
           ComparePriority(st, rl, context)
    PROVE  CpuInv' /\ thread_ticks' \in Nat /\ Frame(st)
<1>1. CASE Yield(st, rl)
  BY <1>1, YieldProps
<1>2. CASE /\ status' = st /\ ready_list' = rl
           /\ UNCHANGED <<current, destruction_req, thread_ticks>>
  BY <1>2 DEF CpuInv, Cpu, Frame
<1> QED
  BY <1>1, <1>2 DEF ComparePriority

\* thread_block () of the running thread.
LEMMA BlockProps ==
    ASSUME CpuInv, Block
    PROVE  /\ CpuInv' /\ thread_ticks' \in Nat
           /\ Frame([status EXCEPT ![current] = "BLOCKED"])
<1> DEFINE st == [status EXCEPT ![current] = "BLOCKED"]
<1>1. Schedule(st, ready_list, destruction_req)
  BY DEF Block
<1>2. /\ current \in Thread /\ st \in [Thread -> Status] /\ destruction_req \in Seq(Thread)
      /\ \A t \in Thread : st[t] = IF t = current THEN "BLOCKED" ELSE status[t]
  BY DEF CpuInv, Cpu, Doomed
<1> HIDE DEF st
<1>3. /\ st[Idle] \notin {"FREE", "DYING"}
      /\ \A t \in Thread : st[t] # "RUNNING"
      /\ Queued(st, ready_list)
      /\ NoRepeat(destruction_req) /\ Main \notin Range(destruction_req)
      /\ current \notin Range(destruction_req)
      /\ \A t \in Thread \ {Main, current} : st[t] = "DYING" <=> t \in Range(destruction_req)
  BY <1>2 DEF CpuInv, Cpu, Queued, Doomed
<1>4. CpuInv' /\ thread_ticks' \in Nat /\ Frame(st)
  BY <1>1, <1>2, <1>3, ScheduleProps
<1> QED
  BY <1>4 DEF st

-----------------------------------------------------------------------------
(* The parts of the invariant a step that neither blocks nor wakes keeps.  *)

Links == SleepersAreBlocked /\ WaitersAreBlocked /\ PlaceMatches /\ BlockedIsFindable

\* The invariant, seen from the CPU and from the lists of blocked threads.
LEMMA IInvParts == IInv <=> TypeOK /\ CpuInv /\ Links
  BY DEF IInv, Links, CpuInv, Cpu, Queued, Doomed, ListsMatchStatus, TypeOK,
         OneRunning, ReadyIsReady, DyingAreQueued, PlaceMatches

\* The types of what schedule () works on.
LEMMA CpuTypes ==
    CpuInv' => /\ current' \in Thread /\ status' \in [Thread -> Status]
               /\ ready_list' \in Seq(Thread) /\ destruction_req' \in Seq(Thread)
  BY DEF CpuInv, Cpu, Queued, Doomed

\* The same for the state after a step.
LEMMA IInvNext == TypeOK' /\ CpuInv' /\ Links' => IInv'
  BY DEF IInv, Links, CpuInv, Cpu, Queued, Doomed, ListsMatchStatus, TypeOK,
         OneRunning, ReadyIsReady, DyingAreQueued, PlaceMatches

\* And what it says of the CPU then.
LEMMA IInvPartsNext == IInv' => TypeOK' /\ CpuInv' /\ Links'
  BY DEF IInv, Links, CpuInv, Cpu, Queued, Doomed, ListsMatchStatus, TypeOK,
         OneRunning, ReadyIsReady, DyingAreQueued, PlaceMatches

\* The running thread at most, within the call it makes.
PlacesKept ==
    /\ pc' \in [Thread -> PcValues]
    /\ \A t \in Thread \ {current} : pc'[t] = pc[t]
    /\ pc'[current] = "down" <=> pc[current] = "down"
    /\ pc'[current] = "none" <=> pc[current] = "none"
    /\ pc'[current] \in {"halt", "loop"} <=> pc[current] \in {"halt", "loop"}

\* A step that leaves the lists of blocked threads alone.
LEMMA QuietStep ==
    ASSUME IInv, CpuInv', Frame(status), PlacesKept,
           UNCHANGED <<sleep_list, waiters, waiting>>
    PROVE  Links'
<1>1. TypeOK /\ CpuInv /\ Links
  BY IInvParts
<1>2. \A t \in Thread : status[t] = "RUNNING" <=> t = current
  BY <1>1 DEF CpuInv, Cpu
<1>3. \A t \in Range(sleep_list) : t \in Thread
  <2>1. sleep_list \in Seq(Thread)
    BY <1>1 DEF TypeOK
  <2> QED
    BY <2>1, RangeOfSeq
<1>4. \A s \in Sema : \A t \in Range(waiters[s]) : t \in Thread
  <2> TAKE s \in Sema
  <2>1. waiters[s] \in Seq(Thread)
    BY <1>1 DEF TypeOK
  <2> QED
    BY <2>1, RangeOfSeq
<1>5. PlaceMatches'
  BY <1>1, <1>2 DEF Links, PlaceMatches, PlacesKept, Frame
<1>6. SleepersAreBlocked'
  BY <1>1, <1>2, <1>3 DEF Links, SleepersAreBlocked, PlacesKept, Frame
<1>7. WaitersAreBlocked'
  <2>1. \A s \in Sema : \A t \in Range(waiters[s]) : t # Idle /\ t # current
    BY <1>1, <1>2, <1>4 DEF Links, WaitersAreBlocked, PlaceMatches
  <2> QED
    BY <1>1, <1>4, <2>1 DEF Links, WaitersAreBlocked, PlacesKept, Frame
<1>8. BlockedIsFindable'
  BY <1>1, <1>2 DEF Links, BlockedIsFindable, PlacesKept, Frame
<1> QED
  BY <1>5, <1>6, <1>7, <1>8 DEF Links

\* One turn of the loop of sema_down: the thread that blocks is on the list of
\* the semaphore it is in, and on no other.
LEMMA DownTurnProps ==
    ASSUME IInv, NEW s \in Sema, pc[current] \in {"call", "down"}, current \in Thread,
           DownTurn(s), UNCHANGED sleep_list
    PROVE  /\ CpuInv' /\ Links'
           /\ thread_ticks' \in Nat /\ value' \in [Sema -> 0..MaxValue]
           /\ waiters' \in [Sema -> Seq(Thread)]
           /\ pc' \in [Thread -> PcValues] /\ waiting' \in [Thread -> Sema \cup {None}]
<1>1. TypeOK /\ CpuInv /\ Links
  BY IInvParts
<1>2. /\ status[current] = "RUNNING" /\ current # Idle
      /\ \A t \in Thread : status[t] = "RUNNING" <=> t = current
  BY <1>1 DEF CpuInv, Cpu, Links, PlaceMatches
<1>3. /\ pc \in [Thread -> PcValues] /\ waiting \in [Thread -> Sema \cup {None}]
      /\ value \in [Sema -> 0..MaxValue] /\ waiters \in [Sema -> Seq(Thread)]
      /\ priority \in [Thread -> Nat] /\ thread_ticks \in Nat /\ sleep_list \in Seq(Thread)
  BY <1>1 DEF TypeOK
<1>4. \A t \in Range(sleep_list) : t \in Thread /\ t # current
  BY <1>1, <1>2, <1>3, RangeOfSeq DEF Links, SleepersAreBlocked
<1>5. \A x \in Sema : \A t \in Range(waiters[x]) : t \in Thread /\ t # current
  <2> TAKE x \in Sema
  <2>1. waiters[x] \in Seq(Thread)
    BY <1>3
  <2> QED
    BY <1>1, <1>2, <2>1, RangeOfSeq DEF Links, WaitersAreBlocked
<1>6. CASE /\ value[s] > 0
           /\ value' = [value EXCEPT ![s] = @ - 1]
           /\ waiting' = [waiting EXCEPT ![current] = None]
           /\ Goto("call")
           /\ UNCHANGED <<waiters, cpuVars>>
  <2>1. /\ pc' = [pc EXCEPT ![current] = "call"]
        /\ waiters' = waiters /\ status' = status /\ thread_ticks' = thread_ticks
    BY <1>6 DEF Goto, cpuVars
  <2>2. CpuInv'
    BY <1>1, <1>6 DEF CpuInv, Cpu, Queued, Doomed, cpuVars
  <2>3. PlaceMatches'
    BY <1>1, <1>2, <1>3, <1>6, <2>1 DEF Links, PlaceMatches
  <2>4. SleepersAreBlocked'
    BY <1>1, <1>3, <1>4, <1>6, <2>1 DEF Links, SleepersAreBlocked
  <2>5. WaitersAreBlocked'
    BY <1>1, <1>3, <1>5, <1>6, <2>1 DEF Links, WaitersAreBlocked
  <2>6. BlockedIsFindable'
    BY <1>1, <1>2, <1>3, <2>1 DEF Links, BlockedIsFindable
  <2>7. /\ value' \in [Sema -> 0..MaxValue]
        /\ pc' \in [Thread -> PcValues] /\ waiting' \in [Thread -> Sema \cup {None}]
    BY <1>3, <1>6, <2>1
  <2> QED
    BY <1>3, <2>1, <2>2, <2>3, <2>4, <2>5, <2>6, <2>7 DEF Links
<1>7. CASE /\ value[s] = 0
           /\ waiters' = [waiters EXCEPT ![s] = InsertOrdered(@, current, priority)]
           /\ waiting' = [waiting EXCEPT ![current] = s]
           /\ Goto("down")
           /\ Block
           /\ UNCHANGED value
  <2> DEFINE w == waiters[s]
             q == InsertOrdered(w, current, priority)
  <2>1. /\ pc' = [pc EXCEPT ![current] = "down"]
        /\ waiting' = [waiting EXCEPT ![current] = s]
        /\ waiters' = [waiters EXCEPT ![s] = q]
    BY <1>7 DEF Goto
  <2>2. q \in Seq(Thread) /\ Range(q) = Range(waiters[s]) \cup {current} /\ NoRepeat(q)
    <3>1. /\ w \in Seq(Thread) /\ NoRepeat(w)
          /\ current \in Thread /\ current \notin Range(w) /\ priority \in [Thread -> Nat]
      BY <1>1, <1>3, <1>5 DEF Links, WaitersAreBlocked
    <3> HIDE DEF w
    <3>2. q \in Seq(Thread) /\ Range(q) = Range(w) \cup {current} /\ NoRepeat(q)
      BY ONLY <3>1, InsertFresh
    <3> QED
      BY <3>1, <3>2 DEF w
  <2> HIDE DEF q
  <2>3. /\ CpuInv' /\ thread_ticks' \in Nat
        /\ Frame([status EXCEPT ![current] = "BLOCKED"])
    BY <1>1, <1>7, BlockProps
  <2>4. /\ status'[current] = "BLOCKED"
        /\ \A t \in Thread \ {current} :
             /\ t # Idle => (status'[t] = "BLOCKED" <=> status[t] = "BLOCKED")
             /\ status'[t] \in {"FREE", "DYING"} => status[t] \in {"FREE", "DYING"}
    BY <1>1, <1>2, <2>3 DEF Frame, CpuInv, Cpu
  <2>5. PlaceMatches'
    BY <1>1, <1>2, <1>3, <2>1, <2>4 DEF Links, PlaceMatches
  <2>6. SleepersAreBlocked'
    BY <1>1, <1>3, <1>4, <2>1, <2>4 DEF Links, SleepersAreBlocked
  <2>7. WaitersAreBlocked'
    <3>1. ASSUME NEW x \in Sema
          PROVE  /\ NoRepeat(waiters'[x])
                 /\ \A t \in Range(waiters'[x]) : t \in Range(waiters[x]) \/ (t = current /\ x = s)
      BY <1>1, <1>3, <2>1, <2>2 DEF Links, WaitersAreBlocked
    <3>2. ASSUME NEW x \in Sema, NEW t \in Range(waiters[x])
          PROVE  status'[t] = "BLOCKED" /\ pc'[t] = "down" /\ waiting'[t] = x
      <4>1. /\ status[t] = "BLOCKED" /\ pc[t] = "down" /\ waiting[t] = x
            /\ t \in Thread /\ t # current /\ t # Idle
        BY <1>1, <1>5 DEF Links, WaitersAreBlocked, PlaceMatches
      <4> QED
        BY <4>1, <1>3, <2>1, <2>4
    <3>3. status'[current] = "BLOCKED" /\ pc'[current] = "down" /\ waiting'[current] = s
      BY <1>3, <2>1, <2>4
    <3> QED
      BY <3>1, <3>2, <3>3 DEF WaitersAreBlocked
  <2>8. BlockedIsFindable'
    <3>1. ASSUME NEW t \in Thread, NEW x \in Sema, t \in Range(waiters[x])
          PROVE  \E y \in Sema : t \in Range(waiters'[y])
      BY <3>1, <1>3, <2>1, <2>2
    <3>2. current \in Range(waiters'[s])
      BY <1>3, <2>1, <2>2
    <3> QED
      BY <1>1, <1>2, <1>3, <2>1, <2>4, <3>1, <3>2 DEF Links, BlockedIsFindable
  <2>9. /\ waiters' \in [Sema -> Seq(Thread)] /\ value' \in [Sema -> 0..MaxValue]
        /\ pc' \in [Thread -> PcValues] /\ waiting' \in [Thread -> Sema \cup {None}]
    BY <1>3, <1>7, <2>1, <2>2
  <2> QED
    BY <2>3, <2>5, <2>6, <2>7, <2>8, <2>9 DEF Links
<1> QED
  BY <1>6, <1>7 DEF DownTurn

\* thread_unblock of a waiter: it was blocked, and on the ready list it keeps
\* the statuses and the lists in agreement.
LEMMA ReadiedProps ==
    ASSUME IInv, NEW s \in Sema, NEW u \in Range(waiters[s])
    PROVE  /\ u \in Thread /\ u # Idle
           /\ status[u] = "BLOCKED" /\ pc[u] = "down" /\ waiting[u] = s
           /\ Cpu(current, [status EXCEPT ![u] = "READY"],
                  InsertOrdered(ready_list, u, priority), destruction_req)
<1> DEFINE st == [status EXCEPT ![u] = "READY"]
           rl == InsertOrdered(ready_list, u, priority)
<1>1. TypeOK /\ CpuInv /\ Links
  BY IInvParts
<1>2. u \in Thread
  <2>1. waiters[s] \in Seq(Thread)
    BY <1>1 DEF TypeOK
  <2> QED
    BY <2>1, RangeOfSeq
<1>3. /\ status[u] = "BLOCKED" /\ pc[u] = "down" /\ waiting[u] = s /\ u # Idle
  BY <1>1, <1>2 DEF Links, WaitersAreBlocked, PlaceMatches
<1>4. rl \in Seq(Thread) /\ NoRepeat(rl) /\ Range(rl) = Range(ready_list) \cup {u}
  <2>1. /\ ready_list \in Seq(Thread) /\ NoRepeat(ready_list)
        /\ u \notin Range(ready_list) /\ priority \in [Thread -> Nat]
    BY <1>1, <1>2, <1>3 DEF CpuInv, Cpu, Queued, TypeOK
  <2> QED
    BY ONLY <1>2, <2>1, InsertFresh
<1> HIDE DEF rl
<1>5. /\ st \in [Thread -> Status]
      /\ \A t \in Thread : st[t] = IF t = u THEN "READY" ELSE status[t]
  BY <1>1, <1>2 DEF TypeOK
<1> HIDE DEF st
<1>6. Queued(st, rl)
  BY <1>1, <1>2, <1>3, <1>4, <1>5 DEF CpuInv, Cpu, Queued
<1>7. Doomed(st, destruction_req)
  BY <1>1, <1>3, <1>5 DEF CpuInv, Cpu, Doomed
<1>8. Cpu(current, st, rl, destruction_req)
  BY <1>1, <1>3, <1>5, <1>6, <1>7 DEF CpuInv, Cpu
<1> QED
  BY <1>2, <1>3, <1>8 DEF st, rl

\* sema_up (), from a thread or from a handler: the woken waiter leaves the list
\* of its semaphore and joins the ready list.
LEMMA UpProps ==
    ASSUME IInv, NEW s \in Sema, NEW context, Up(s, context), PlacesKept,
           UNCHANGED <<sleep_list, waiting>>
    PROVE  /\ CpuInv' /\ Links'
           /\ thread_ticks' \in Nat /\ value' \in [Sema -> 0..MaxValue]
           /\ waiters' \in [Sema -> Seq(Thread)]
<1>1. TypeOK /\ CpuInv /\ Links
  BY IInvParts
<1>2. /\ value \in [Sema -> 0..MaxValue] /\ waiters \in [Sema -> Seq(Thread)]
      /\ priority \in [Thread -> Nat] /\ thread_ticks \in Nat /\ sleep_list \in Seq(Thread)
      /\ \A x \in Sema : NoRepeat(waiters[x])
  BY <1>1 DEF TypeOK, Links, WaitersAreBlocked
<1>3. value' \in [Sema -> 0..MaxValue]
  BY <1>2 DEF Up
<1>4. CASE /\ waiters[s] = <<>>
           /\ ComparePriority(status, ready_list, context)
           /\ UNCHANGED waiters
  <2>1. CpuInv' /\ thread_ticks' \in Nat /\ Frame(status)
    BY <1>1, <1>2, <1>4, ComparePriorityProps DEF CpuInv
  <2>2. Links'
    BY <1>4, <2>1, QuietStep
  <2> QED
    BY <1>2, <1>3, <1>4, <2>1, <2>2
<1>5. ASSUME NEW q \in SortedOf(waiters[s], priority), q # <<>>,
             waiters' = [waiters EXCEPT ![s] = Tail(q)],
             ComparePriority([status EXCEPT ![Head(q)] = "READY"],
                             InsertOrdered(ready_list, Head(q), priority), context)
      PROVE  CpuInv' /\ Links' /\ thread_ticks' \in Nat /\ waiters' \in [Sema -> Seq(Thread)]
  <2> DEFINE u == Head(q)
             w == waiters[s]
             st == [status EXCEPT ![u] = "READY"]
             rl == InsertOrdered(ready_list, u, priority)
  <2>1. w \in Seq(Thread) /\ NoRepeat(w) /\ q \in SortedOf(w, priority)
    BY <1>2
  <2>2. q \in Seq(Thread) /\ NoRepeat(q) /\ Range(q) = Range(w)
    <3> HIDE DEF w
    <3> QED
      BY ONLY <1>2, <2>1, SortedOfProps
  <2>3. /\ u \in Thread /\ u \in Range(w)
        /\ Tail(q) \in Seq(Thread) /\ NoRepeat(Tail(q)) /\ Range(Tail(q)) = Range(w) \ {u}
    BY <1>5, <2>2, TailProps
  <2>4. /\ status[u] = "BLOCKED" /\ pc[u] = "down" /\ waiting[u] = s /\ u # Idle
        /\ Cpu(current, st, rl, destruction_req)
    BY <2>3, ReadiedProps
  <2>7. CpuInv' /\ thread_ticks' \in Nat /\ Frame(st)
    BY <1>2, <1>5, <2>4, ComparePriorityProps
  <2>8. \A t \in Thread :
          /\ t \notin {Idle, u} => (status'[t] = "BLOCKED" <=> status[t] = "BLOCKED")
          /\ status'[u] # "BLOCKED"
          /\ status'[t] \in {"FREE", "DYING"} => status[t] \in {"FREE", "DYING"}
    BY <1>1, <2>3, <2>4, <2>7 DEF Frame, CpuInv, Cpu
  <2>9. \A t \in Thread : status[t] = "RUNNING" <=> t = current
    BY <1>1 DEF CpuInv, Cpu
  <2>10. \A x \in Sema : /\ waiters'[x] \in Seq(Thread)
                         /\ NoRepeat(waiters'[x])
                         /\ x # s => waiters'[x] = waiters[x]
                         /\ x = s => Range(waiters'[x]) = Range(waiters[x]) \ {u}
    BY <1>2, <1>5, <2>3
  <2> HIDE DEF u, w, st, rl
  <2>11. PlaceMatches'
    BY <1>1, <2>8, <2>9 DEF Links, PlaceMatches, PlacesKept
  <2>12. SleepersAreBlocked'
    <3>1. \A t \in Range(sleep_list) : t \in Thread
      BY <1>2, RangeOfSeq
    <3> QED
      BY <1>1, <2>4, <2>8, <2>9, <3>1 DEF Links, SleepersAreBlocked, PlacesKept
  <2>13. WaitersAreBlocked'
    <3>1. ASSUME NEW x \in Sema, NEW t \in Range(waiters'[x])
          PROVE  status'[t] = "BLOCKED" /\ pc'[t] = "down" /\ waiting'[t] = x
      <4>1. t \in Range(waiters[x]) /\ t # u
        <5>1. \A y \in Sema : \A v \in Range(waiters[y]) : waiting[v] = y
          BY <1>1 DEF Links, WaitersAreBlocked
        <5> QED
          BY ONLY <2>4, <2>10, <5>1, x \in Sema, t \in Range(waiters'[x])
      <4>2. t \in Thread
        <5>1. waiters'[x] \in Seq(Thread)
          BY ONLY <2>10, x \in Sema
        <5> QED
          BY <5>1, RangeOfSeq
      <4>3. status[t] = "BLOCKED" /\ pc[t] = "down" /\ waiting[t] = x /\ t # Idle
        BY <1>1, <4>1, <4>2 DEF Links, WaitersAreBlocked, PlaceMatches
      <4> QED
        BY <2>8, <2>9, <4>1, <4>2, <4>3 DEF PlacesKept
    <3> QED
      BY <2>10, <3>1 DEF WaitersAreBlocked
  <2>14. BlockedIsFindable'
    <3> SUFFICES ASSUME NEW t \in Thread, status'[t] = "BLOCKED", pc'[t] # "none", t # Idle
                 PROVE  \/ t \in Range(sleep_list')
                        \/ \E x \in Sema : t \in Range(waiters'[x])
      BY DEF BlockedIsFindable
    <3>1. t # u /\ status[t] = "BLOCKED" /\ pc[t] # "none"
      BY <2>8, <2>9 DEF PlacesKept
    <3>2. t \in Range(sleep_list) \/ \E x \in Sema : t \in Range(waiters[x])
      BY <1>1, <3>1 DEF Links, BlockedIsFindable
    <3> QED
      BY <2>10, <3>1, <3>2
  <2>15. waiters' \in [Sema -> Seq(Thread)]
    BY <1>2, <1>5, <2>3 DEF u
  <2> QED
    BY <2>7, <2>11, <2>12, <2>13, <2>14, <2>15 DEF Links
<1> QED
  BY <1>3, <1>4, <1>5 DEF Up

-----------------------------------------------------------------------------
(* The steps that move a thread between the lists.                         *)

\* What the running thread is not, in every state of the invariant.
LEMMA RunningProps ==
    ASSUME IInv
    PROVE  /\ TypeOK /\ CpuInv /\ Links
           /\ current \in Thread
           /\ \A t \in Thread : status[t] = "RUNNING" <=> t = current
           /\ \A t \in Range(sleep_list) : t \in Thread /\ t # current
           /\ \A s \in Sema : \A t \in Range(waiters[s]) : t \in Thread /\ t # current
<1>1. TypeOK /\ CpuInv /\ Links
  BY IInvParts
<1>2. current \in Thread /\ \A t \in Thread : status[t] = "RUNNING" <=> t = current
  BY <1>1 DEF CpuInv, Cpu
<1>3. \A t \in Range(sleep_list) : t \in Thread
  <2>1. sleep_list \in Seq(Thread)
    BY <1>1 DEF TypeOK
  <2> QED
    BY <2>1, RangeOfSeq
<1>4. \A s \in Sema : \A t \in Range(waiters[s]) : t \in Thread
  <2> TAKE s \in Sema
  <2>1. waiters[s] \in Seq(Thread)
    BY <1>1 DEF TypeOK
  <2> QED
    BY <2>1, RangeOfSeq
<1> QED
  BY <1>1, <1>2, <1>3, <1>4 DEF Links, SleepersAreBlocked, WaitersAreBlocked

\* thread_sleep: the running thread joins the sleep list, where it was not.
LEMMA ThreadSleepStep == IInv /\ ThreadSleep => IInv'
<1> SUFFICES ASSUME IInv, ThreadSleep PROVE IInv'
  OBVIOUS
<1>1. /\ TypeOK /\ CpuInv /\ Links
      /\ current \in Thread
      /\ \A t \in Thread : status[t] = "RUNNING" <=> t = current
      /\ \A t \in Range(sleep_list) : t \in Thread /\ t # current
      /\ \A s \in Sema : \A t \in Range(waiters[s]) : t \in Thread /\ t # current
  BY RunningProps
<1>2. /\ pc[current] = "sleep" /\ current # Idle /\ waiting[current] = None
      /\ sleep_list' = Append(sleep_list, current)
      /\ pc' = [pc EXCEPT ![current] = "call"]
      /\ pc \in [Thread -> PcValues] /\ sleep_list \in Seq(Thread)
      /\ UNCHANGED <<waiting, waiters>>
  BY <1>1 DEF ThreadSleep, Goto, Links, PlaceMatches, threadVars, semaVars, TypeOK
<1>3. /\ CpuInv' /\ thread_ticks' \in Nat
      /\ Frame([status EXCEPT ![current] = "BLOCKED"])
  BY <1>1, BlockProps DEF ThreadSleep
<1>4. /\ status'[current] = "BLOCKED"
      /\ \A t \in Thread \ {current} :
           /\ t # Idle => (status'[t] = "BLOCKED" <=> status[t] = "BLOCKED")
           /\ status'[t] \in {"FREE", "DYING"} => status[t] \in {"FREE", "DYING"}
  BY <1>1, <1>2, <1>3 DEF Frame, TypeOK
<1>5. /\ sleep_list' \in Seq(Thread) /\ NoRepeat(sleep_list')
      /\ Range(sleep_list') = Range(sleep_list) \cup {current}
  BY <1>1, <1>2, AppendProps DEF Links, SleepersAreBlocked
<1>6. PlaceMatches'
  BY <1>1, <1>2, <1>4 DEF Links, PlaceMatches
<1>7. SleepersAreBlocked'
  BY <1>1, <1>2, <1>4, <1>5 DEF Links, SleepersAreBlocked
<1>8. WaitersAreBlocked'
  BY <1>1, <1>2, <1>4 DEF Links, WaitersAreBlocked, PlaceMatches
<1>9. BlockedIsFindable'
  BY <1>1, <1>2, <1>4, <1>5 DEF Links, BlockedIsFindable
<1>10. TypeOK'
  BY <1>1, <1>2, <1>3, <1>5
     DEF TypeOK, ThreadSleep, CpuInv, Cpu, Queued, Doomed, threadVars, semaVars, intrVars
<1> QED
  BY <1>3, <1>6, <1>7, <1>8, <1>9, <1>10, IInvNext DEF Links

\* thread_awake: the sleeper taken off its list is on the ready list.
LEMMA ThreadAwakeStep == IInv /\ ThreadAwake => IInv'
<1> SUFFICES ASSUME IInv, ThreadAwake PROVE IInv'
  OBVIOUS
<1>1. /\ TypeOK /\ CpuInv /\ Links
      /\ current \in Thread
      /\ \A t \in Thread : status[t] = "RUNNING" <=> t = current
      /\ \A t \in Range(sleep_list) : t \in Thread /\ t # current
      /\ \A s \in Sema : \A t \in Range(waiters[s]) : t \in Thread /\ t # current
  BY RunningProps
<1>2. /\ UNCHANGED <<current, priority, awake, waiting, child, destruction_req, thread_ticks,
                     value, waiters, yield_on_return, pc, panic>>
      /\ cursor \in 1..Len(sleep_list) /\ sleep_list \in Seq(Thread)
      /\ priority \in [Thread -> Nat] /\ status \in [Thread -> Status]
      /\ ready_list \in Seq(Thread)
  <2>1. /\ UNCHANGED <<current, priority, awake, waiting, child, destruction_req, thread_ticks,
                       value, waiters, yield_on_return, pc, panic>>
        /\ cursor # 0 /\ cursor <= Len(sleep_list)
    BY DEF ThreadAwake, InHandler, threadVars, semaVars
  <2>2. /\ cursor \in Nat /\ sleep_list \in Seq(Thread) /\ priority \in [Thread -> Nat]
        /\ status \in [Thread -> Status] /\ ready_list \in Seq(Thread)
    BY <1>1 DEF TypeOK
  <2> QED
    BY <2>1, <2>2
<1> DEFINE u == sleep_list[cursor]
<1>3. u \in Thread /\ u \in Range(sleep_list)
  BY <1>2, InRange, ElementOfSeq
<1>4. CASE /\ awake[u] = 0
           /\ sleep_list' = RemoveAt(sleep_list, cursor)
           /\ ready_list' = InsertOrdered(ready_list, u, priority)
           /\ status' = [status EXCEPT ![u] = "READY"]
           /\ UNCHANGED cursor
  <2>1. /\ sleep_list' \in Seq(Thread) /\ NoRepeat(sleep_list')
        /\ Range(sleep_list') = Range(sleep_list) \ {u}
    BY <1>1, <1>2, <1>4, RemoveAtProps DEF Links, SleepersAreBlocked
  <2>2. status[u] = "BLOCKED" /\ pc[u] = "call" /\ waiting[u] = None /\ u # Idle
    BY <1>1, <1>3 DEF Links, SleepersAreBlocked
  <2>3. /\ NoRepeat(ready_list) /\ u \notin Range(ready_list)
    BY <1>1, <1>3, <2>2 DEF CpuInv, Cpu, Queued
  <2>4. /\ ready_list' \in Seq(Thread) /\ NoRepeat(ready_list')
        /\ Range(ready_list') = Range(ready_list) \cup {u}
    <3>1. /\ u \in Thread /\ ready_list \in Seq(Thread) /\ priority \in [Thread -> Nat]
          /\ ready_list' = InsertOrdered(ready_list, u, priority)
      BY <1>2, <1>3, <1>4
    <3> HIDE DEF u
    <3> QED
      BY ONLY <2>3, <3>1, InsertFresh
  <2>5. /\ status' \in [Thread -> Status]
        /\ \A t \in Thread : status'[t] = IF t = u THEN "READY" ELSE status[t]
    BY <1>2, <1>3, <1>4
  <2> HIDE DEF u
  <2>6. CpuInv'
    BY <1>1, <1>2, <1>3, <2>2, <2>4, <2>5 DEF CpuInv, Cpu, Queued, Doomed
  <2>7. PlaceMatches'
    BY <1>1, <1>2, <2>5 DEF Links, PlaceMatches
  <2>8. SleepersAreBlocked'
    BY <1>1, <1>2, <2>1, <2>5 DEF Links, SleepersAreBlocked
  <2>9. WaitersAreBlocked'
    BY <1>1, <1>2, <2>2, <2>5 DEF Links, WaitersAreBlocked
  <2>10. BlockedIsFindable'
    BY <1>1, <1>2, <2>1, <2>5 DEF Links, BlockedIsFindable
  <2>11. TypeOK'
    <3>1. cursor' = cursor
      BY <1>4
    <3> QED
      BY <1>1, <1>2, <2>1, <2>6, <3>1, CpuTypes DEF TypeOK
  <2> QED
    BY <2>6, <2>7, <2>8, <2>9, <2>10, <2>11, IInvNext DEF Links
<1>5. CASE /\ awake[u] > 0
           /\ cursor' = cursor + 1
           /\ UNCHANGED <<sleep_list, ready_list, status>>
  <2>1. TypeOK'
    <3>1. UNCHANGED <<sleep_list, ready_list, status>> /\ cursor' \in Nat
      BY <1>2, <1>5
    <3>2. TypeOK
      BY <1>1
    <3> QED
      BY ONLY <1>2, <3>1, <3>2 DEF TypeOK
  <2>2. UNCHANGED <<current, status, ready_list, sleep_list, destruction_req, waiters, waiting, pc>>
    BY <1>2, <1>5
  <2>3. ListsMatchStatus'
    BY <2>2 DEF IInv, ListsMatchStatus, OneRunning, ReadyIsReady, SleepersAreBlocked,
       WaitersAreBlocked, DyingAreQueued
  <2>4. PlaceMatches' /\ BlockedIsFindable'
    BY <2>2 DEF IInv, PlaceMatches, BlockedIsFindable
  <2> QED
    BY <2>1, <2>3, <2>4 DEF IInv
<1> QED
  BY <1>4, <1>5 DEF ThreadAwake

\* thread_exit: the dead thread is on no list but the destruction requests.
LEMMA ThreadExitStep == IInv /\ ThreadExit => IInv'
<1> SUFFICES ASSUME IInv, ThreadExit PROVE IInv'
  OBVIOUS
<1>1. /\ TypeOK /\ CpuInv /\ Links
      /\ current \in Thread
      /\ \A t \in Thread : status[t] = "RUNNING" <=> t = current
      /\ \A t \in Range(sleep_list) : t \in Thread /\ t # current
      /\ \A s \in Sema : \A t \in Range(waiters[s]) : t \in Thread /\ t # current
  BY RunningProps
<1>2. /\ pc[current] = "call" /\ current # Idle /\ waiting[current] = None
      /\ DoSchedule(status, "DYING", ready_list)
      /\ pc' = [pc EXCEPT ![current] = "none"] /\ pc \in [Thread -> PcValues]
      /\ UNCHANGED <<priority, awake, waiting, child, value, waiters, cursor,
                     yield_on_return, sleep_list, panic>>
  BY <1>1 DEF ThreadExit, Calling, Goto, Links, PlaceMatches, threadVars, semaVars, intrVars,
     TypeOK
<1>3. Queued([status EXCEPT ![current] = "DYING"], ready_list)
  BY <1>1 DEF CpuInv, Cpu, Queued
<1>4. CpuInv' /\ thread_ticks' \in Nat /\ Frame([status EXCEPT ![current] = "DYING"])
  BY <1>1, <1>2, <1>3, DoScheduleProps DEF CpuInv, Cpu
<1>5. /\ status'[current] # "BLOCKED"
      /\ \A t \in Thread \ {current} :
           /\ t # Idle => (status'[t] = "BLOCKED" <=> status[t] = "BLOCKED")
           /\ status'[t] \in {"FREE", "DYING"} => status[t] \in {"FREE", "DYING"}
  BY <1>1, <1>2, <1>4 DEF Frame, CpuInv, Cpu
<1>6. PlaceMatches'
  BY <1>1, <1>2, <1>5 DEF Links, PlaceMatches
<1>7. SleepersAreBlocked'
  BY <1>1, <1>2, <1>5 DEF Links, SleepersAreBlocked
<1>8. WaitersAreBlocked'
  BY <1>1, <1>2, <1>5 DEF Links, WaitersAreBlocked, PlaceMatches
<1>9. BlockedIsFindable'
  BY <1>1, <1>2, <1>5 DEF Links, BlockedIsFindable
<1>10. TypeOK'
  BY <1>1, <1>2, <1>4 DEF TypeOK, CpuInv, Cpu, Queued, Doomed
<1> QED
  BY <1>4, <1>6, <1>7, <1>8, <1>9, <1>10, IInvNext DEF Links

\* thread_create up to thread_unblock: a free page was on no list.
LEMMA ThreadCreateStep ==
    ASSUME NEW t \in Thread, NEW p \in Pri, IInv, ThreadCreate(t, p)
    PROVE  IInv'
<1>1. /\ TypeOK /\ CpuInv /\ Links
      /\ current \in Thread
      /\ \A u \in Thread : status[u] = "RUNNING" <=> u = current
      /\ \A u \in Range(sleep_list) : u \in Thread /\ u # current
      /\ \A s \in Sema : \A u \in Range(waiters[s]) : u \in Thread /\ u # current
  BY RunningProps
<1>2. /\ status[t] = "FREE" /\ t # Idle /\ t # current /\ pc[t] = "none" /\ waiting[t] = None
      /\ pc[current] = "call" /\ current # Idle
  BY <1>1 DEF ThreadCreate, Calling, Links, PlaceMatches, CpuInv, Cpu
<1>3. /\ status' = [status EXCEPT ![t] = "READY"] /\ status \in [Thread -> Status]
      /\ pc' = [pc EXCEPT ![current] = "compare", ![t] = "call"] /\ pc \in [Thread -> PcValues]
      /\ priority' = [priority EXCEPT ![t] = p]
      /\ ready_list' = InsertOrdered(ready_list, t, priority')
      /\ child' = [child EXCEPT ![current] = t]
      /\ UNCHANGED <<current, awake, waiting, destruction_req, thread_ticks, value, waiters,
                     cursor, yield_on_return, sleep_list, panic>>
  BY <1>1 DEF ThreadCreate, TypeOK, semaVars, intrVars
<1>4. priority' \in [Thread -> Nat] /\ child' \in [Thread -> Thread \cup {None}]
      /\ pc' \in [Thread -> PcValues] /\ status' \in [Thread -> Status]
  BY <1>1, <1>3 DEF TypeOK
<1>5. /\ ready_list' \in Seq(Thread) /\ NoRepeat(ready_list')
      /\ Range(ready_list') = Range(ready_list) \cup {t}
  <2>1. ready_list \in Seq(Thread) /\ NoRepeat(ready_list) /\ t \notin Range(ready_list)
    BY <1>1, <1>2 DEF CpuInv, Cpu, Queued
  <2>2. ready_list' = InsertOrdered(ready_list, t, priority')
    BY <1>3
  <2> QED
    BY ONLY <2>1, <2>2, <1>4, t \in Thread, InsertFresh
<1>6. CpuInv'
  BY <1>1, <1>2, <1>3, <1>5 DEF CpuInv, Cpu, Queued, Doomed
<1>7. PlaceMatches'
  BY <1>1, <1>2, <1>3 DEF Links, PlaceMatches
<1>8. SleepersAreBlocked'
  BY <1>1, <1>2, <1>3 DEF Links, SleepersAreBlocked
<1>9. WaitersAreBlocked'
  BY <1>1, <1>2, <1>3 DEF Links, WaitersAreBlocked
<1>10. BlockedIsFindable'
  BY <1>1, <1>2, <1>3 DEF Links, BlockedIsFindable
<1>11. TypeOK'
  BY <1>1, <1>3, <1>4, <1>5 DEF TypeOK
<1> QED
  BY <1>6, <1>7, <1>8, <1>9, <1>10, <1>11, IInvNext DEF Links

\* thread_create without a page for the fdt.
LEMMA ThreadCreateNoFdtStep ==
    ASSUME NEW t \in Thread, NEW p \in Pri, IInv, ThreadCreateNoFdt(t, p)
    PROVE  IInv'
<1>1. /\ TypeOK /\ CpuInv /\ Links
      /\ \A u \in Thread : status[u] = "RUNNING" <=> u = current
      /\ \A u \in Range(sleep_list) : u \in Thread /\ u # current
      /\ \A s \in Sema : \A u \in Range(waiters[s]) : u \in Thread /\ u # current
  BY RunningProps
<1>2. /\ status[t] = "FREE" /\ pc[t] = "none" /\ t # current /\ t # Idle
      /\ status' = [status EXCEPT ![t] = "BLOCKED"] /\ status \in [Thread -> Status]
      /\ priority' = [priority EXCEPT ![t] = p]
      /\ UNCHANGED <<current, awake, waiting, child, ready_list, destruction_req, thread_ticks,
                     value, waiters, cursor, yield_on_return, pc, sleep_list, panic>>
  BY <1>1 DEF ThreadCreateNoFdt, Links, PlaceMatches, CpuInv, Cpu, TypeOK, semaVars, intrVars
<1>3. CpuInv'
  BY <1>1, <1>2 DEF CpuInv, Cpu, Queued, Doomed
<1>4. PlaceMatches'
  BY <1>1, <1>2 DEF Links, PlaceMatches
<1>5. SleepersAreBlocked'
  BY <1>1, <1>2 DEF Links, SleepersAreBlocked
<1>6. WaitersAreBlocked'
  BY <1>1, <1>2 DEF Links, WaitersAreBlocked
<1>7. BlockedIsFindable'
  BY <1>1, <1>2 DEF Links, BlockedIsFindable
<1>8. TypeOK'
  BY <1>1, <1>2 DEF TypeOK
<1> QED
  BY <1>3, <1>4, <1>5, <1>6, <1>7, <1>8, IInvNext DEF Links

-----------------------------------------------------------------------------
(* The invariant.                                                          *)

\* After thread_start the lists are empty, main runs and idle is blocked.
LEMMA InitInv == Init => IInv
<1> SUFFICES ASSUME Init PROVE IInv
  OBVIOUS
<1>1. /\ <<>> \in Seq(Thread) /\ NoRepeat(<<>>) /\ Range(<<>>) = {}
  BY DEF NoRepeat, Range
<1>2. TypeOK
  <2>1. /\ priority \in [Thread -> Nat] /\ status \in [Thread -> Status]
        /\ pc \in [Thread -> PcValues]
    BY DEF Init
  <2>2. /\ value \in [Sema -> 0..MaxValue] /\ waiters \in [Sema -> Seq(Thread)]
    BY <1>1 DEF Init
  <2> QED
    BY <1>1, <2>1, <2>2 DEF Init, TypeOK
<1>3. ListsMatchStatus
  BY <1>1 DEF Init, ListsMatchStatus, OneRunning, ReadyIsReady, SleepersAreBlocked,
     WaitersAreBlocked, DyingAreQueued
<1>4. PlaceMatches /\ BlockedIsFindable
  BY DEF Init, PlaceMatches, BlockedIsFindable
<1> QED
  BY <1>2, <1>3, <1>4 DEF IInv

\* Every action preserves it.
LEMMA NextInv == IInv /\ [Next]_vars => IInv'
<1> SUFFICES ASSUME IInv, [Next]_vars PROVE IInv'
  OBVIOUS
<1>0. /\ TypeOK /\ CpuInv /\ Links /\ current \in Thread
      /\ pc[current] = "down" => waiting[current] \in Sema
      /\ pc[current] \in {"halt", "loop"} <=> current = Idle
      /\ pc \in [Thread -> PcValues] /\ priority \in [Thread -> Nat] /\ thread_ticks \in Nat
  BY RunningProps DEF TypeOK, Links, PlaceMatches
<1> DEFINE Same == UNCHANGED <<sleep_list, waiters, waiting>>
<1>frame. CpuInv /\ UNCHANGED <<current, status, ready_list, destruction_req>>
            => CpuInv' /\ Frame(status)
  BY DEF CpuInv, Cpu, Queued, Doomed, Frame
<1>quiet. TypeOK' /\ CpuInv' /\ Frame(status) /\ PlacesKept /\ Same => IInv'
  BY QuietStep, IInvNext
<1>1. ASSUME NEW s \in Sema, SemaDown(s) PROVE IInv'
  <2>1. DownTurn(s) /\ pc[current] = "call" /\ UNCHANGED sleep_list
    BY <1>1 DEF SemaDown, Calling
  <2>2. /\ CpuInv' /\ Links'
        /\ thread_ticks' \in Nat /\ value' \in [Sema -> 0..MaxValue]
        /\ waiters' \in [Sema -> Seq(Thread)]
        /\ pc' \in [Thread -> PcValues] /\ waiting' \in [Thread -> Sema \cup {None}]
    BY <1>0, <2>1, DownTurnProps
  <2>3. TypeOK'
    BY <1>0, <1>1, <2>2 DEF SemaDown, TypeOK, CpuInv, Cpu, Queued, Doomed, intrVars
  <2> QED
    BY <2>2, <2>3, IInvNext
<1>2. ASSUME SemaDownResume PROVE IInv'
  <2>1. /\ DownTurn(waiting[current]) /\ pc[current] = "down" /\ UNCHANGED sleep_list
        /\ waiting[current] \in Sema
    BY <1>0, <1>2 DEF SemaDownResume
  <2>2. /\ CpuInv' /\ Links'
        /\ thread_ticks' \in Nat /\ value' \in [Sema -> 0..MaxValue]
        /\ waiters' \in [Sema -> Seq(Thread)]
        /\ pc' \in [Thread -> PcValues] /\ waiting' \in [Thread -> Sema \cup {None}]
    BY <1>0, <2>1, DownTurnProps
  <2>3. TypeOK'
    BY <1>0, <1>2, <2>2 DEF SemaDownResume, TypeOK, CpuInv, Cpu, Queued, Doomed, intrVars
  <2> QED
    BY <2>2, <2>3, IInvNext
<1>3. ASSUME NEW s \in Sema, SemaTryDown(s) PROVE IInv'
  <2>3. value' \in [Sema -> 0..MaxValue]
    <3>1. value \in [Sema -> 0..MaxValue] /\ MaxValue \in Nat /\ value[s] > 0
      BY <1>0, <1>3, SemaAssumption DEF SemaTryDown, TypeOK
    <3> QED
      BY <1>3, <3>1 DEF SemaTryDown
  <2>1. TypeOK'
    BY <1>0, <1>3, <2>3 DEF SemaTryDown, TypeOK, threadVars, cpuVars, intrVars
  <2>2. PlacesKept /\ Same /\ UNCHANGED <<current, status, ready_list, destruction_req>>
    BY <1>0, <1>3 DEF SemaTryDown, PlacesKept, threadVars, cpuVars
  <2> QED
    BY <1>0, <1>frame, <1>quiet, <2>1, <2>2
<1>4. ASSUME NEW s \in Sema, SemaUp(s) PROVE IInv'
  <2>1. Up(s, FALSE) /\ PlacesKept /\ UNCHANGED <<sleep_list, waiting>>
    BY <1>0, <1>4 DEF SemaUp, PlacesKept, threadVars
  <2>2. /\ CpuInv' /\ Links'
        /\ thread_ticks' \in Nat /\ value' \in [Sema -> 0..MaxValue]
        /\ waiters' \in [Sema -> Seq(Thread)]
    BY <2>1, UpProps
  <2>3. TypeOK'
    <3>1. UNCHANGED <<priority, awake, waiting, child, sleep_list, cursor, yield_on_return, panic, pc>>
      BY <1>4 DEF SemaUp, threadVars, intrVars
    <3> QED
      BY <1>0, <2>2, <3>1, CpuTypes DEF TypeOK
  <2> QED
    BY <2>2, <2>3, IInvNext
<1>5. ASSUME NEW s \in Sema, DeviceInterrupt(s) PROVE IInv'
  <2>1. Up(s, TRUE) /\ PlacesKept /\ UNCHANGED <<sleep_list, waiting>>
    BY <1>0, <1>5 DEF DeviceInterrupt, PlacesKept, threadVars, WakeIdle, Goto
  <2>2. /\ CpuInv' /\ Links'
        /\ thread_ticks' \in Nat /\ value' \in [Sema -> 0..MaxValue]
        /\ waiters' \in [Sema -> Seq(Thread)]
    BY <2>1, UpProps
  <2>3. TypeOK'
    <3>1. /\ UNCHANGED <<priority, awake, waiting, child, sleep_list, cursor, yield_on_return, panic>>
          /\ pc' \in [Thread -> PcValues]
      BY <1>5, <2>1 DEF DeviceInterrupt, threadVars, intrVars, PlacesKept
    <3> QED
      BY <1>0, <2>2, <3>1, CpuTypes DEF TypeOK
  <2> QED
    BY <2>2, <2>3, IInvNext
<1>6. ASSUME TimerInterrupt PROVE IInv'
  <2>1. PlacesKept /\ Same /\ UNCHANGED <<current, status, ready_list, destruction_req>>
    BY <1>0, <1>6 DEF TimerInterrupt, ThreadTick, PlacesKept, WakeIdle, Goto, semaVars
  <2>2. TypeOK'
    <3>1. /\ UNCHANGED <<current, status, priority, waiting, child, ready_list, sleep_list,
                         destruction_req, value, waiters, panic>>
          /\ cursor' = 1 /\ thread_ticks' = thread_ticks + 1
          /\ yield_on_return' = (thread_ticks + 1 >= TimeSlice)
      BY <1>6 DEF TimerInterrupt, ThreadTick, semaVars
    <3>2. pc' \in [Thread -> PcValues]
      BY <2>1 DEF PlacesKept
    <3>3. awake' \in [Thread -> Nat]
      <4>1. awake \in [Thread -> Nat]
        BY <1>0 DEF TypeOK
      <4> QED
        BY <1>6, <4>1 DEF TimerInterrupt
    <3> QED
      BY <1>0, <3>1, <3>2, <3>3 DEF TypeOK
  <2> QED
    BY <1>0, <1>frame, <1>quiet, <2>1, <2>2
<1>7. ASSUME ThreadAwake PROVE IInv'
  BY <1>7, ThreadAwakeStep
<1>8. ASSUME InterruptReturn PROVE IInv'
  <2>1. PlacesKept /\ Same
    BY <1>0, <1>8 DEF InterruptReturn, PlacesKept, threadVars, semaVars
  <2>2. CpuInv' /\ thread_ticks' \in Nat /\ Frame(status)
    <3>1. CASE Yield(status, ready_list)
      BY <1>0, <3>1, YieldProps DEF CpuInv
    <3>2. CASE UNCHANGED cpuVars
      BY <1>0, <1>frame, <3>2 DEF cpuVars
    <3> QED
      BY <1>8, <3>1, <3>2 DEF InterruptReturn
  <2>3. TypeOK'
    <3>1. /\ UNCHANGED <<priority, awake, waiting, child, sleep_list, panic, value, waiters, pc>>
          /\ cursor' = 0 /\ yield_on_return' = FALSE
      BY <1>8 DEF InterruptReturn, threadVars, semaVars
    <3> QED
      BY <1>0, <2>2, <3>1, CpuTypes DEF TypeOK
  <2> QED
    BY <1>quiet, <2>1, <2>2, <2>3
<1>9. ASSUME IdleLoop PROVE IInv'
  <2>1. current = Idle /\ PlacesKept /\ Same /\ Block
    BY <1>0, <1>9 DEF IdleLoop, PlacesKept, Goto, threadVars, semaVars
  <2>2. /\ CpuInv' /\ thread_ticks' \in Nat
        /\ Frame([status EXCEPT ![current] = "BLOCKED"])
    BY <1>0, <2>1, BlockProps
  <2>3. Frame(status)
    BY <1>0, <2>1, <2>2 DEF Frame, CpuInv, Cpu
  <2>4. TypeOK'
    <3>1. /\ UNCHANGED <<priority, awake, waiting, child, sleep_list, cursor, yield_on_return, panic,
                         value, waiters>>
          /\ pc' \in [Thread -> PcValues]
      BY <1>9, <2>1 DEF IdleLoop, threadVars, semaVars, intrVars, PlacesKept
    <3> QED
      BY <1>0, <2>2, <3>1, CpuTypes DEF TypeOK
  <2> QED
    BY <1>quiet, <2>1, <2>2, <2>3, <2>4
<1>10. ASSUME NEW n \in SleepTicks, TimerSleep(n) PROVE IInv'
  <2>1. PlacesKept /\ Same /\ UNCHANGED <<current, status, ready_list, destruction_req>>
    BY <1>0, <1>10 DEF TimerSleep, Calling, Goto, PlacesKept, cpuVars, semaVars
  <2>2. TypeOK'
    BY <1>0, <1>10, <2>1 DEF TimerSleep, TypeOK, PlacesKept, cpuVars, semaVars, intrVars
  <2> QED
    BY <1>0, <1>frame, <1>quiet, <2>1, <2>2
<1>11. ASSUME ThreadSleep PROVE IInv'
  BY <1>11, ThreadSleepStep
<1>12. ASSUME ThreadYield PROVE IInv'
  <2>1. PlacesKept /\ Same
    BY <1>0, <1>12 DEF ThreadYield, PlacesKept, threadVars, semaVars
  <2>2. CpuInv' /\ thread_ticks' \in Nat /\ Frame(status)
    BY <1>0, <1>12, YieldProps DEF ThreadYield, CpuInv
  <2>3. TypeOK'
    <3>1. UNCHANGED <<priority, awake, waiting, child, sleep_list, cursor, yield_on_return, panic,
                      value, waiters, pc>>
      BY <1>12 DEF ThreadYield, threadVars, semaVars, intrVars
    <3> QED
      BY <1>0, <2>2, <3>1, CpuTypes DEF TypeOK
  <2> QED
    BY <1>quiet, <2>1, <2>2, <2>3
<1>13. ASSUME NEW t \in Thread, NEW p \in Pri, ThreadCreate(t, p) PROVE IInv'
  BY <1>13, ThreadCreateStep
<1>14. ASSUME NEW t \in Thread, NEW p \in Pri, ThreadCreateNoFdt(t, p) PROVE IInv'
  BY <1>14, ThreadCreateNoFdtStep
<1>15. ASSUME NEW p \in Pri, ThreadSetPriority(p) PROVE IInv'
  <2>1. PlacesKept /\ Same /\ UNCHANGED <<current, status, ready_list, destruction_req>>
    BY <1>0, <1>15 DEF ThreadSetPriority, Calling, Goto, PlacesKept, cpuVars, semaVars
  <2>2. TypeOK'
    BY <1>0, <1>15, <2>1 DEF ThreadSetPriority, TypeOK, PlacesKept, cpuVars, semaVars, intrVars
  <2> QED
    BY <1>0, <1>frame, <1>quiet, <2>1, <2>2
<1>16. ASSUME CompareEmpty PROVE IInv'
  <2>1. PlacesKept /\ Same /\ UNCHANGED <<current, status, ready_list, destruction_req>>
    BY <1>0, <1>16 DEF CompareEmpty, AfterCompare, Goto, PlacesKept, threadVars, cpuVars, semaVars
  <2>2. TypeOK'
    BY <1>0, <1>16, <2>1
       DEF CompareEmpty, TypeOK, PlacesKept, threadVars, cpuVars, semaVars, intrVars
  <2> QED
    BY <1>0, <1>frame, <1>quiet, <2>1, <2>2
<1>17. ASSUME CompareFront PROVE IInv'
  <2>1. PlacesKept /\ Same /\ UNCHANGED <<current, status, ready_list, destruction_req>>
    BY <1>0, <1>17
       DEF CompareFront, AfterCompare, Goto, PlacesKept, threadVars, cpuVars, semaVars
  <2>3. TypeOK'
    BY <1>0, <1>17, <2>1
       DEF CompareFront, TypeOK, threadVars, cpuVars, semaVars, intrVars, PlacesKept
  <2> QED
    BY <1>0, <1>frame, <1>quiet, <2>1, <2>3
<1>18. ASSUME ChildPush PROVE IInv'
  <2>1. PlacesKept /\ Same /\ UNCHANGED <<current, status, ready_list, destruction_req>>
    BY <1>0, <1>18 DEF ChildPush, Goto, PlacesKept, cpuVars, semaVars
  <2>2. TypeOK'
    BY <1>0, <1>18, <2>1 DEF ChildPush, TypeOK, PlacesKept, cpuVars, semaVars, intrVars
  <2> QED
    BY <1>0, <1>frame, <1>quiet, <2>1, <2>2
<1>19. ASSUME ThreadExit PROVE IInv'
  BY <1>19, ThreadExitStep
<1>22. ASSUME CompareYield PROVE IInv'
  <2>1. PlacesKept /\ Same
    BY <1>0, <1>22 DEF CompareYield, AfterCompare, Goto, PlacesKept, threadVars, semaVars
  <2>2. CpuInv' /\ thread_ticks' \in Nat /\ Frame(status)
    BY <1>0, <1>22, YieldProps DEF CompareYield, CpuInv
  <2>3. TypeOK'
    <3>1. /\ UNCHANGED <<priority, awake, waiting, child, sleep_list, cursor, yield_on_return, panic,
                         value, waiters>>
          /\ pc' \in [Thread -> PcValues]
      BY <1>22, <2>1 DEF CompareYield, threadVars, semaVars, intrVars, PlacesKept
    <3> QED
      BY <1>0, <2>2, <3>1, CpuTypes DEF TypeOK
  <2> QED
    BY <1>quiet, <2>1, <2>2, <2>3
<1>20. ASSUME UNCHANGED vars PROVE IInv'
  <2>1. PlacesKept /\ Same /\ UNCHANGED <<current, status, ready_list, destruction_req>>
    BY <1>0, <1>20 DEF vars, PlacesKept, threadVars, cpuVars, semaVars
  <2>2. TypeOK'
    BY <1>0, <1>20 DEF vars, TypeOK, threadVars, cpuVars, semaVars, intrVars
  <2> QED
    BY <1>0, <1>frame, <1>quiet, <2>1, <2>2
<1>21. DeviceSema \subseteq Sema
  OBVIOUS
<1> QED
  BY <1>1, <1>2, <1>3, <1>4, <1>5, <1>6, <1>7, <1>8, <1>9, <1>10, <1>11, <1>12, <1>13,
     <1>14, <1>15, <1>16, <1>17, <1>18, <1>19, <1>20, <1>21, <1>22
  DEF Next, SemaNext, InterruptNext, SleepNext, PriorityNext, LifeNext, Halted

\* The inductive invariant holds in every reachable state, for any number of
\* threads, semaphores and priorities and any length of the time slice.
THEOREM Invariance == Spec => []IInv
  BY InitInv, NextInv, PTL DEF Spec

\* The types of the scheduler's variables, whatever is called and interrupted.
THEOREM Typing == Spec => []TypeOK
  BY Invariance, PTL DEF IInv

\* The run queue, the sleep queue, the waiters and the destruction requests hold
\* exactly the threads whose status and place say so (ASSERT of thread_current,
\* and thread.h: one `elem' is enough because a thread is on one list only).
THEOREM ListsAgree == Spec => []ListsMatchStatus
  BY Invariance, PTL DEF IInv

\* thread_block: no blocked thread is forgotten; it can be found and readied.
THEOREM NobodyForgotten == Spec => []BlockedIsFindable
  BY Invariance, PTL DEF IInv

\* A woken waiter finds its semaphore and a freed page is not resumed.
THEOREM Places == Spec => []PlaceMatches
  BY Invariance, PTL DEF IInv

-----------------------------------------------------------------------------
(* Only the dead are freed.                                                *)

\* do_schedule frees no page but those of the destruction requests.
LEMMA DoScheduleFrees ==
    ASSUME current \in Thread, NEW st \in [Thread -> Status],
           NEW new \in {"READY", "DYING"}, NEW rl, DoSchedule(st, new, rl)
    PROVE  \A t \in Thread : status'[t] = "FREE" => st[t] = "FREE" \/ t \in Range(destruction_req)
  BY DEF DoSchedule, Schedule

\* Nor does thread_compare_priority, which may end in do_schedule.
LEMMA ComparePriorityFrees ==
    ASSUME current \in Thread, NEW st \in [Thread -> Status], NEW rl, NEW context,
           ComparePriority(st, rl, context)
    PROVE  \A t \in Thread : status'[t] = "FREE" => st[t] = "FREE" \/ t \in Range(destruction_req)
  BY DoScheduleFrees DEF ComparePriority, Yield

\* do_schedule frees the page of no thread but a dead one, and never the page of
\* the thread that runs before or after the switch.
THEOREM FreedAreDead == Spec => FreedIsOffCpu
<1> DEFINE Freed(t) == status'[t] = "FREE" /\ status[t] # "FREE"
<1>1. IInv /\ IInv' /\ [Next]_vars =>
        [\A t \in Thread : Freed(t) => status[t] = "DYING" /\ t # current /\ t # current']_vars
  <2> SUFFICES ASSUME IInv, IInv', Next, NEW t \in Thread, Freed(t)
               PROVE  status[t] = "DYING" /\ t # current /\ t # current'
    OBVIOUS
  <2>1. /\ current \in Thread /\ status \in [Thread -> Status] /\ status[current] = "RUNNING"
        /\ status'[current'] = "RUNNING"
        /\ \A u \in Range(destruction_req) : u \in Thread => status[u] = "DYING"
    <3>1. current \in Thread /\ status \in [Thread -> Status] /\ current' \in Thread
      BY DEF IInv, TypeOK
    <3>2. status[current] = "RUNNING" /\ status'[current'] = "RUNNING"
      BY <3>1 DEF IInv, ListsMatchStatus, OneRunning
    <3>3. \A u \in Range(destruction_req) : u \in Thread => status[u] = "DYING"
      BY DEF IInv, ListsMatchStatus, DyingAreQueued
    <3> QED
      BY <3>1, <3>2, <3>3
  <2>2. SUFFICES t \in Range(destruction_req)
    BY <2>1
  <2>3. ASSUME Yield(status, ready_list) PROVE t \in Range(destruction_req)
    BY <2>1, <2>3, DoScheduleFrees DEF Yield
  <2>4. ASSUME Block PROVE t \in Range(destruction_req)
    BY <2>1, <2>4 DEF Block, Schedule
  <2>5. ASSUME NEW s \in Sema, DownTurn(s) PROVE t \in Range(destruction_req)
    BY <2>4, <2>5 DEF DownTurn, cpuVars
  <2>6. ASSUME NEW s \in Sema, NEW context, Up(s, context) PROVE t \in Range(destruction_req)
    <3>1. CASE ComparePriority(status, ready_list, context)
      BY <2>1, <3>1, ComparePriorityFrees
    <3>2. ASSUME NEW q, ComparePriority([status EXCEPT ![Head(q)] = "READY"],
                                InsertOrdered(ready_list, Head(q), priority), context)
          PROVE  t \in Range(destruction_req)
      <4> DEFINE st == [status EXCEPT ![Head(q)] = "READY"]
      <4>1. st \in [Thread -> Status] /\ st[t] # "FREE"
        BY <2>1
      <4> HIDE DEF st
      <4>2. ComparePriority(st, InsertOrdered(ready_list, Head(q), priority), context)
        BY <3>2 DEF st
      <4> QED
        BY <2>1, <4>1, <4>2, ComparePriorityFrees
    <3> QED
      BY <2>6, <3>1, <3>2 DEF Up
  <2>7. CASE SemaNext
    BY <2>5, <2>6, <2>7
       DEF SemaNext, SemaDown, SemaDownResume, SemaTryDown, SemaUp, cpuVars, IInv, PlaceMatches, TypeOK
  <2>8. CASE InterruptNext
    BY <2>1, <2>3, <2>4, <2>6, <2>8
       DEF InterruptNext, TimerInterrupt, ThreadAwake, InterruptReturn, IdleLoop, DeviceInterrupt,
           cpuVars
  <2>9. CASE SleepNext \/ ThreadYield
    BY <2>3, <2>4, <2>9 DEF SleepNext, ThreadSleep, TimerSleep, ThreadYield, cpuVars
  <2>10. CASE PriorityNext
    BY <2>1, <2>3, <2>10
       DEF PriorityNext, CompareEmpty, CompareFront, CompareYield, ThreadSetPriority, cpuVars
  <2>11. CASE LifeNext
    BY <2>1, <2>11, DoScheduleFrees
       DEF LifeNext, ThreadExit, ChildPush, ThreadCreate, ThreadCreateNoFdt, cpuVars
  <2>12. CASE Halted
    BY <2>12 DEF Halted, vars, cpuVars
  <2> QED
    BY <2>7, <2>8, <2>9, <2>10, <2>11, <2>12 DEF Next
<1> QED
  BY Invariance, <1>1, PTL DEF Spec, FreedIsOffCpu

-----------------------------------------------------------------------------
(* The ready list is sorted.                                               *)

\* schedule () takes the front of the ready list and leaves the rest in order.
LEMMA ScheduleSorted ==
    ASSUME NEW st, NEW rl \in Seq(Thread), NEW dr, Decreasing(rl, priority), Schedule(st, rl, dr)
    PROVE  Decreasing(ready_list', priority)
  BY TailDecreasing DEF Schedule

\* thread_yield inserts the running thread at its place in the order.
LEMMA YieldSorted ==
    ASSUME NEW st, NEW rl \in Seq(Thread), Decreasing(rl, priority), current \in Thread,
           priority \in [Thread -> Nat], Yield(st, rl)
    PROVE  Decreasing(ready_list', priority)
<1> DEFINE q == IF current = Idle THEN rl ELSE InsertOrdered(rl, current, priority)
<1>1. q \in Seq(Thread) /\ Decreasing(q, priority)
  <2>1. /\ InsertOrdered(rl, current, priority) \in Seq(Thread)
        /\ Decreasing(InsertOrdered(rl, current, priority), priority)
    BY InsertOrderedProps
  <2> QED
    BY <2>1
<1>2. \E st1, dr : Schedule(st1, q, dr)
  BY DEF Yield, DoSchedule
<1> HIDE DEF q
<1> QED
  BY <1>1, <1>2, ScheduleSorted

\* thread_compare_priority leaves the ready list in order, yielding or not.
LEMMA ComparePrioritySorted ==
    ASSUME NEW st, NEW rl \in Seq(Thread), NEW context, Decreasing(rl, priority),
           current \in Thread, priority \in [Thread -> Nat], ComparePriority(st, rl, context)
    PROVE  Decreasing(ready_list', priority)
  BY YieldSorted DEF ComparePriority

\* Without donation, next_thread_to_run finds a thread of highest priority at
\* the front: no sequence of wakeups, yields, creations and changes of the
\* running thread's priority leaves the ready list out of order.
LEMMA ReadySortedStep == IInv /\ ReadySorted /\ [Next]_vars => ReadySorted'
<1> SUFFICES ASSUME IInv, ReadySorted, [Next]_vars PROVE Decreasing(ready_list', priority')
  BY DEF ReadySorted
<1>1. /\ current \in Thread /\ priority \in [Thread -> Nat] /\ ready_list \in Seq(Thread)
      /\ Decreasing(ready_list, priority)
      /\ \A t \in Range(ready_list) : t \in Thread /\ status[t] = "READY"
      /\ status[current] = "RUNNING"
  <2>1. ready_list \in Seq(Thread)
    BY DEF IInv, TypeOK
  <2> QED
    BY <2>1, RangeOfSeq
       DEF IInv, TypeOK, ReadySorted, ListsMatchStatus, ReadyIsReady, OneRunning
<1>2. ASSUME Yield(status, ready_list) PROVE Decreasing(ready_list', priority)
  BY <1>1, <1>2, YieldSorted
<1>3. ASSUME Block PROVE Decreasing(ready_list', priority)
  BY <1>1, <1>3, ScheduleSorted DEF Block
<1>4. ASSUME NEW t \in Thread PROVE /\ InsertOrdered(ready_list, t, priority) \in Seq(Thread)
                                    /\ Decreasing(InsertOrdered(ready_list, t, priority), priority)
  BY <1>1, InsertOrderedProps
<1>5. ASSUME NEW s \in Sema, DownTurn(s) PROVE Decreasing(ready_list', priority)
  BY <1>1, <1>3, <1>5 DEF DownTurn, cpuVars
<1>6. ASSUME NEW s \in Sema, NEW context, Up(s, context) PROVE Decreasing(ready_list', priority)
  <2>1. CASE ComparePriority(status, ready_list, context)
    BY <1>1, <2>1, ComparePrioritySorted
  <2>2. ASSUME NEW q \in SortedOf(waiters[s], priority), q # <<>>,
               ComparePriority([status EXCEPT ![Head(q)] = "READY"],
                               InsertOrdered(ready_list, Head(q), priority), context)
        PROVE  Decreasing(ready_list', priority)
    <3> DEFINE w == waiters[s]
               u == Head(q)
    <3>1. w \in Seq(Thread) /\ NoRepeat(w) /\ q \in SortedOf(w, priority)
      BY DEF IInv, TypeOK, ListsMatchStatus, WaitersAreBlocked
    <3>2. q \in Seq(Thread)
      <4> HIDE DEF w
      <4> QED
        BY ONLY <1>1, <3>1, SortedOfProps
    <3>3. u \in Thread
      BY <2>2, <3>2
    <3>4. \E st : ComparePriority(st, InsertOrdered(ready_list, u, priority), context)
      BY <2>2
    <3> HIDE DEF u
    <3> QED
      BY <1>1, <1>4, <3>3, <3>4, ComparePrioritySorted
  <2> QED
    BY <1>6, <2>1, <2>2 DEF Up
<1>7. CASE SemaNext
  <2>1. pc[current] = "down" => waiting[current] \in Sema
    BY <1>1 DEF IInv, TypeOK, PlaceMatches
  <2> QED
    BY <1>1, <1>5, <1>6, <1>7, <2>1
       DEF SemaNext, SemaDown, SemaDownResume, SemaTryDown, SemaUp, threadVars, cpuVars
<1>8. CASE InterruptNext
  <2>1. CASE ThreadAwake
    <3>1. sleep_list \in Seq(Thread) /\ cursor \in Nat
      BY DEF IInv, TypeOK
    <3>2. sleep_list[cursor] \in Thread
      BY <2>1, <3>1, ElementOfSeq DEF ThreadAwake, InHandler
    <3> QED
      BY <1>1, <1>4, <2>1, <3>2 DEF ThreadAwake, threadVars
  <2>2. CASE InterruptReturn
    BY <1>1, <1>2, <2>2 DEF InterruptReturn, threadVars, cpuVars
  <2>3. CASE IdleLoop
    BY <1>3, <2>3 DEF IdleLoop, threadVars
  <2>4. CASE \E s \in DeviceSema : DeviceInterrupt(s)
    BY <1>6, <2>4 DEF DeviceInterrupt, threadVars
  <2>5. CASE TimerInterrupt
    BY <1>1, <2>5 DEF TimerInterrupt
  <2> QED
    BY <1>8, <2>1, <2>2, <2>3, <2>4, <2>5 DEF InterruptNext
<1>9. CASE SleepNext \/ ThreadYield
  BY <1>1, <1>2, <1>3, <1>9 DEF SleepNext, ThreadSleep, TimerSleep, ThreadYield, threadVars, cpuVars
<1>10. CASE PriorityNext
  <2>1. CASE CompareEmpty \/ CompareFront \/ CompareYield
    BY <1>1, <1>2, <2>1 DEF CompareEmpty, CompareFront, CompareYield, threadVars, cpuVars
  <2>2. ASSUME NEW p \in Pri, ThreadSetPriority(p) PROVE Decreasing(ready_list', priority')
    <3>1. /\ ready_list' = ready_list
          /\ \A t \in Range(ready_list) : priority'[t] = priority[t]
      BY <1>1, <2>2 DEF ThreadSetPriority, cpuVars
    <3> QED
      BY <1>1, <3>1, DecreasingSameKeys
  <2> QED
    BY <1>10, <2>1, <2>2 DEF PriorityNext
<1>11. CASE LifeNext
  <2>1. CASE ThreadExit
    <3>1. \E st : Schedule(st, ready_list, <<>>)
      BY <2>1 DEF ThreadExit, DoSchedule
    <3> QED
      BY <1>1, <2>1, <3>1, ScheduleSorted DEF ThreadExit, threadVars
  <2>2. CASE ChildPush
    BY <1>1, <2>2 DEF ChildPush, cpuVars
  <2>3. ASSUME NEW t \in Thread, NEW p \in Pri, ThreadCreate(t, p)
        PROVE  Decreasing(ready_list', priority')
    <3>1. /\ ready_list' = InsertOrdered(ready_list, t, priority')
          /\ \A u \in Range(ready_list) : priority'[u] = priority[u]
          /\ priority' \in [Thread -> Nat]
      BY <1>1, <2>3 DEF ThreadCreate
    <3>2. Decreasing(ready_list, priority')
      BY <1>1, <3>1, DecreasingSameKeys
    <3> QED
      BY <1>1, <3>1, <3>2, InsertOrderedProps
  <2>4. ASSUME NEW t \in Thread, NEW p \in Pri, ThreadCreateNoFdt(t, p)
        PROVE  Decreasing(ready_list', priority')
    <3>1. /\ ready_list' = ready_list
          /\ \A u \in Range(ready_list) : priority'[u] = priority[u]
      BY <1>1, <2>4 DEF ThreadCreateNoFdt
    <3> QED
      BY <1>1, <3>1, DecreasingSameKeys
  <2> QED
    BY <1>11, <2>1, <2>2, <2>3, <2>4 DEF LifeNext
<1>12. CASE UNCHANGED vars
  BY <1>1, <1>12 DEF vars, threadVars, cpuVars
<1> QED
  BY <1>7, <1>8, <1>9, <1>10, <1>11, <1>12 DEF Next, Halted

\* The ready list is always in order of priority (list_insert_ordered with
\* cmp_priority at every insertion), so its front has the highest priority.
THEOREM ReadyListSorted == Spec => []ReadySorted
<1>1. Init => ReadySorted
  BY DEF Init, ReadySorted, Decreasing
<1> QED
  BY <1>1, ReadySortedStep, Invariance, PTL DEF Spec

-----------------------------------------------------------------------------
(* A switch gives the CPU to a thread of highest priority.                 *)

Highest == \A t \in Range(ready_list') : priority[t] <= priority[current']

\* schedule () on a ready list in order: nobody left on it outranks the thread
\* that was chosen.
LEMMA ScheduleHighest ==
    ASSUME NEW st, NEW rl \in Seq(Thread), NEW dr, Decreasing(rl, priority), NoRepeat(rl),
           priority \in [Thread -> Nat], Schedule(st, rl, dr)
    PROVE  Highest
<1>1. CASE rl = <<>>
  <2>1. ready_list' = <<>> /\ Range(<<>>) = {}
    BY <1>1 DEF Schedule, Range
  <2> QED
    BY <2>1 DEF Highest
<1>2. CASE rl # <<>>
  <2>1. ready_list' = Tail(rl) /\ current' = Head(rl)
    BY <1>2 DEF Schedule
  <2>2. Range(Tail(rl)) = Range(rl) \ {Head(rl)}
    BY <1>2, TailProps
  <2>3. \A x \in Range(rl) : priority[x] <= priority[Head(rl)]
    BY <1>2, FrontIsHighest
  <2> QED
    BY <2>1, <2>2, <2>3 DEF Highest
<1> QED
  BY <1>1, <1>2

\* thread_yield on a ready list in order: the same, the yielding thread included.
LEMMA YieldHighest ==
    ASSUME NEW st, NEW rl \in Seq(Thread), Decreasing(rl, priority), NoRepeat(rl),
           current \in Thread, current \notin Range(rl),
           priority \in [Thread -> Nat], Yield(st, rl)
    PROVE  Highest
<1> DEFINE q == IF current = Idle THEN rl ELSE InsertOrdered(rl, current, priority)
<1>1. q \in Seq(Thread) /\ Decreasing(q, priority) /\ NoRepeat(q)
  <2>1. /\ InsertOrdered(rl, current, priority) \in Seq(Thread)
        /\ Decreasing(InsertOrdered(rl, current, priority), priority)
    BY InsertOrderedProps
  <2>2. NoRepeat(InsertOrdered(rl, current, priority))
    BY InsertFresh
  <2> QED
    BY <2>1, <2>2
<1>2. \E st1, dr : Schedule(st1, q, dr)
  BY DEF Yield, DoSchedule
<1> HIDE DEF q
<1> QED
  BY <1>1, <1>2, ScheduleHighest

\* thread_compare_priority, when it does switch.
LEMMA ComparePriorityHighest ==
    ASSUME NEW st, NEW rl \in Seq(Thread), NEW context, Decreasing(rl, priority), NoRepeat(rl),
           current \in Thread, current \notin Range(rl),
           priority \in [Thread -> Nat], ComparePriority(st, rl, context), current' # current
    PROVE  Highest
  BY YieldHighest DEF ComparePriority

\* Every switch, whether of thread_yield, thread_block, thread_exit, the end of
\* a time slice or thread_compare_priority, goes to a ready thread that no ready
\* thread outranks; idle runs only if nobody is ready.
THEOREM SwitchesToHighest == Spec => SwitchToHighest
<1>1. IInv /\ IInv' /\ ReadySorted /\ [Next]_vars =>
        [current' # current => \A t \in Thread \ {Idle} :
            status'[t] = "READY" => priority[t] <= priority[current']]_vars
  <2> SUFFICES ASSUME IInv, IInv', ReadySorted, Next, current' # current PROVE Highest
    BY DEF Highest, IInv, ListsMatchStatus, ReadyIsReady
  <2>1. /\ current \in Thread /\ priority \in [Thread -> Nat] /\ ready_list \in Seq(Thread)
        /\ Decreasing(ready_list, priority) /\ NoRepeat(ready_list)
        /\ current \notin Range(ready_list) /\ status[current] = "RUNNING"
    <3>1. current \in Thread /\ priority \in [Thread -> Nat] /\ ready_list \in Seq(Thread)
      BY DEF IInv, TypeOK
    <3>2. status[current] = "RUNNING"
      BY <3>1 DEF IInv, ListsMatchStatus, OneRunning
    <3>3. Decreasing(ready_list, priority) /\ NoRepeat(ready_list)
      BY DEF IInv, ReadySorted, ListsMatchStatus, ReadyIsReady
    <3>4. current \notin Range(ready_list)
      BY <3>1, <3>2 DEF IInv, ListsMatchStatus, ReadyIsReady
    <3> QED
      BY <3>1, <3>2, <3>3, <3>4
  <2>2. ASSUME Yield(status, ready_list) PROVE Highest
    BY <2>1, <2>2, YieldHighest
  <2>3. ASSUME Block PROVE Highest
    BY <2>1, <2>3, ScheduleHighest DEF Block
  <2>4. ASSUME NEW s \in Sema, DownTurn(s) PROVE Highest
    BY <2>3, <2>4 DEF DownTurn, cpuVars
  <2>5. ASSUME NEW s \in Sema, NEW context, Up(s, context) PROVE Highest
    <3>1. CASE ComparePriority(status, ready_list, context)
      BY <2>1, <3>1, ComparePriorityHighest
    <3>2. ASSUME NEW q \in SortedOf(waiters[s], priority), q # <<>>,
                 ComparePriority([status EXCEPT ![Head(q)] = "READY"],
                                 InsertOrdered(ready_list, Head(q), priority), context)
          PROVE  Highest
      <4> DEFINE w == waiters[s]
                 u == Head(q)
                 rl == InsertOrdered(ready_list, u, priority)
      <4>1. w \in Seq(Thread) /\ NoRepeat(w) /\ q \in SortedOf(w, priority)
        BY DEF IInv, TypeOK, ListsMatchStatus, WaitersAreBlocked
      <4>2. q \in Seq(Thread) /\ Range(q) = Range(w) /\ NoRepeat(q)
        <5> HIDE DEF w
        <5> QED
          BY ONLY <2>1, <4>1, SortedOfProps
      <4>3. u \in Thread /\ u \in Range(w)
        BY <3>2, <4>2, TailProps
      <4>4. status[u] = "BLOCKED" /\ pc[u] = "down"
        BY <4>3 DEF IInv, ListsMatchStatus, WaitersAreBlocked
      <4>5. u \notin Range(ready_list) /\ u # current
        BY <2>1, <4>3, <4>4 DEF IInv, ListsMatchStatus, ReadyIsReady, PlaceMatches
      <4> HIDE DEF u
      <4>6. /\ rl \in Seq(Thread) /\ NoRepeat(rl) /\ Range(rl) = Range(ready_list) \cup {u}
        BY ONLY <2>1, <4>3, <4>5, InsertFresh DEF rl
      <4>7. Decreasing(rl, priority)
        BY ONLY <2>1, <4>3, InsertOrderedProps DEF rl
      <4>8. \E st : ComparePriority(st, rl, context)
        BY <3>2 DEF u
      <4> HIDE DEF rl
      <4> QED
        BY <2>1, <4>5, <4>6, <4>7, <4>8, ComparePriorityHighest
    <3> QED
      BY <2>5, <3>1, <3>2 DEF Up
  <2>6. CASE SemaNext
    <3>1. pc[current] = "down" => waiting[current] \in Sema
      BY <2>1 DEF IInv, TypeOK, PlaceMatches
    <3> QED
      BY <2>4, <2>5, <2>6, <3>1
         DEF SemaNext, SemaDown, SemaDownResume, SemaTryDown, SemaUp, cpuVars
  <2>7. CASE InterruptNext
    BY <2>2, <2>3, <2>5, <2>7
       DEF InterruptNext, TimerInterrupt, ThreadAwake, InterruptReturn, IdleLoop, DeviceInterrupt,
           cpuVars
  <2>8. CASE SleepNext \/ ThreadYield
    BY <2>2, <2>3, <2>8 DEF SleepNext, ThreadSleep, TimerSleep, ThreadYield, cpuVars
  <2>9. CASE PriorityNext
    BY <2>2, <2>9
       DEF PriorityNext, CompareEmpty, CompareFront, CompareYield, ThreadSetPriority, cpuVars
  <2>10. CASE LifeNext
    <3>1. CASE ThreadExit
      <4>1. \E st : Schedule(st, ready_list, <<>>)
        BY <3>1 DEF ThreadExit, DoSchedule
      <4> QED
        BY <2>1, <4>1, ScheduleHighest
    <3> QED
      BY <2>10, <3>1 DEF LifeNext, ChildPush, ThreadCreate, ThreadCreateNoFdt, cpuVars
  <2>11. CASE Halted
    BY <2>11 DEF Halted, vars, cpuVars
  <2> QED
    BY <2>6, <2>7, <2>8, <2>9, <2>10, <2>11 DEF Next
<1> QED
  BY Invariance, ReadyListSorted, <1>1, PTL DEF Spec, SwitchToHighest

-----------------------------------------------------------------------------
(* No unit of a semaphore is lost while somebody waits.                    *)

\* A few threads are at most as many as more of them; one thread counts one.
LEMMA ThreadCount ==
    ASSUME NEW A \in SUBSET Thread, NEW B \in SUBSET Thread, NEW x \in Thread
    PROVE  /\ Cardinality(A) \in Nat /\ Cardinality(B) \in Nat
           /\ A \subseteq B => Cardinality(A) <= Cardinality(B)
           /\ A \ {x} \subseteq B => Cardinality(A) <= Cardinality(B) + 1
           /\ x \notin A /\ A \cup {x} \subseteq B => Cardinality(A) + 1 <= Cardinality(B)
<1>1. IsFiniteSet(A) /\ IsFiniteSet(B)
  BY FiniteAssumption, FS_Subset
<1>2. Cardinality(A) \in Nat /\ Cardinality(B) \in Nat
  BY <1>1, FS_CardinalityType
<1>3. A \subseteq B => Cardinality(A) <= Cardinality(B)
  BY <1>1, FS_Subset
<1>4. ASSUME A \ {x} \subseteq B PROVE Cardinality(A) <= Cardinality(B) + 1
  <2>1. /\ IsFiniteSet(A \ {x}) /\ Cardinality(A \ {x}) <= Cardinality(B)
        /\ Cardinality(A \ {x}) \in Nat
    BY <1>1, <1>4, FS_Subset, FS_CardinalityType
  <2>2. Cardinality(A \ {x}) = IF x \in A THEN Cardinality(A) - 1 ELSE Cardinality(A)
    BY <1>1, FS_RemoveElement
  <2> QED
    BY <1>2, <2>1, <2>2
<1>5. ASSUME x \notin A, A \cup {x} \subseteq B PROVE Cardinality(A) + 1 <= Cardinality(B)
  <2>1. Cardinality(A \cup {x}) <= Cardinality(B)
    BY <1>1, <1>5, FS_Subset
  <2>2. Cardinality(A \cup {x}) = Cardinality(A) + 1
    BY <1>1, <1>5, FS_AddElement
  <2> QED
    BY <2>1, <2>2
<1> QED
  BY <1>2, <1>3, <1>4, <1>5

\* What the operations hand to schedule () keeps every woken waiter woken.
Alert(st) == \A t \in Thread : waiting[t] # None /\ status[t] \in {"READY", "RUNNING"} =>
                                   st[t] \in {"READY", "RUNNING"}

\* A switch puts no woken waiter back to sleep.
LEMMA WokenStay ==
    ASSUME IInv, NEW st \in [Thread -> Status], Frame(st), Alert(st),
           status' \in [Thread -> Status], NEW t \in Thread, t # Idle,
           waiting[t] # None, status[t] \in {"READY", "RUNNING"}
    PROVE  status'[t] \in {"READY", "RUNNING"}
<1>1. st[t] \in {"READY", "RUNNING"}
  BY DEF Alert
<1>2. status'[t] \notin {"BLOCKED", "FREE", "DYING"}
  BY <1>1 DEF Frame
<1> QED
  BY <1>2

\* Idle waits for nothing.
LEMMA WokenProps ==
    ASSUME IInv, NEW s \in Sema
    PROVE  /\ Woken(s) \in SUBSET Thread
           /\ \A t \in Woken(s) : t # Idle /\ waiting[t] # None /\ pc[t] = "down"
  BY DEF IInv, PlaceMatches, Woken, TypeOK

\* A step that moves nobody into or out of sema_down and leaves the semaphores
\* alone loses no wakeup.
LEMMA WakeupsKept ==
    ASSUME IInv, NoLostWakeup, NEW st \in [Thread -> Status], Frame(st), Alert(st), CpuInv',
           UNCHANGED <<waiting, value, waiters>>
    PROVE  NoLostWakeup'
<1> SUFFICES ASSUME NEW s \in Sema, waiters[s] # <<>>
             PROVE  value[s] <= Cardinality(Woken(s)')
  BY DEF NoLostWakeup
<1>1. status' \in [Thread -> Status] /\ value[s] \in Nat
  BY CpuTypes, SemaAssumption DEF IInv, TypeOK
<1>2. Woken(s) \in SUBSET Thread /\ Woken(s)' \in SUBSET Thread
  BY DEF Woken
<1>3. Woken(s) \subseteq Woken(s)'
  BY <1>1, WokenStay, WokenProps DEF Woken
<1>4. Cardinality(Woken(s)) <= Cardinality(Woken(s)')
      /\ Cardinality(Woken(s)) \in Nat /\ Cardinality(Woken(s)') \in Nat
  BY ONLY <1>2, <1>3, ThreadCount, ThreadAssumption
<1> QED
  BY <1>1, <1>4 DEF NoLostWakeup

\* A turn of the loop of sema_down: the thread that takes the unit was the one
\* woken for it or came first; the one that blocks found no unit.
LEMMA DownTurnKeepsWakeups ==
    ASSUME IInv, NoLostWakeup, NEW s \in Sema, DownTurn(s), UNCHANGED sleep_list,
           pc[current] = "call" \/ (pc[current] = "down" /\ waiting[current] = s)
    PROVE  NoLostWakeup'
<1>1. /\ TypeOK /\ CpuInv /\ Links /\ current \in Thread
      /\ \A t \in Thread : status[t] = "RUNNING" <=> t = current
  BY RunningProps
<1>2. /\ waiting[current] \in {None, s} /\ current # Idle
      /\ value \in [Sema -> 0..MaxValue] /\ waiting \in [Thread -> Sema \cup {None}]
      /\ waiters \in [Sema -> Seq(Thread)] /\ status \in [Thread -> Status]
  BY <1>1 DEF TypeOK, Links, PlaceMatches
<1>3. CpuInv'
  BY <1>1, DownTurnProps
<1>4. \A x \in Sema : Woken(x) \in SUBSET Thread /\ Woken(x)' \in SUBSET Thread
  BY DEF Woken
<1>5. CASE /\ value[s] > 0
           /\ value' = [value EXCEPT ![s] = @ - 1]
           /\ waiting' = [waiting EXCEPT ![current] = None]
           /\ Goto("call")
           /\ UNCHANGED <<waiters, cpuVars>>
  <2>1. ASSUME NEW x \in Sema, waiters[x] # <<>>
        PROVE  value'[x] <= Cardinality(Woken(x)')
    <3>1. /\ value[x] \in Nat /\ value[x] <= Cardinality(Woken(x))
          /\ status' = status
      BY <1>2, <1>5, <2>1, SemaAssumption DEF NoLostWakeup, cpuVars
    <3>2. Woken(x) \ {current} \subseteq Woken(x)'
      BY <1>2, <1>5, <3>1 DEF Woken
    <3>3. x # s => Woken(x) \subseteq Woken(x)'
      BY <1>2, <1>5, <3>1 DEF Woken
    <3>4. /\ Cardinality(Woken(x)) \in Nat /\ Cardinality(Woken(x)') \in Nat
          /\ Cardinality(Woken(x)) <= Cardinality(Woken(x)') + 1
          /\ x # s => Cardinality(Woken(x)) <= Cardinality(Woken(x)')
      BY ONLY <1>1, <1>4, <3>2, <3>3, ThreadCount, x \in Sema
    <3>5. value'[x] = IF x = s THEN value[x] - 1 ELSE value[x]
      BY <1>2, <1>5
    <3> QED
      BY <3>1, <3>4, <3>5
  <2> QED
    BY <1>5, <2>1 DEF NoLostWakeup
<1>6. CASE /\ value[s] = 0
           /\ waiters' = [waiters EXCEPT ![s] = InsertOrdered(@, current, priority)]
           /\ waiting' = [waiting EXCEPT ![current] = s]
           /\ Goto("down")
           /\ Block
           /\ UNCHANGED value
  <2>1. Frame([status EXCEPT ![current] = "BLOCKED"])
    BY <1>1, <1>6, BlockProps
  <2>2. status' \in [Thread -> Status]
    BY <1>3, CpuTypes
  <2>3. ASSUME NEW x \in Sema, x # s, waiters'[x] # <<>>
        PROVE  value[x] <= Cardinality(Woken(x)')
    <3>1. value[x] \in Nat /\ value[x] <= Cardinality(Woken(x))
      BY <1>2, <1>6, <2>3, SemaAssumption DEF NoLostWakeup
    <3>2. ASSUME NEW t \in Woken(x) PROVE t \in Woken(x)'
      <4>1. /\ t \in Thread /\ t # current /\ t # Idle
            /\ status[t] \in {"READY", "RUNNING"} /\ waiting[t] = x
        BY <1>2, <2>3, WokenProps DEF Woken
      <4>2. status'[t] \notin {"BLOCKED", "FREE", "DYING"}
        BY <1>2, <2>1, <4>1 DEF Frame
      <4> QED
        BY <1>2, <1>6, <2>2, <4>1, <4>2 DEF Woken
    <3>3. /\ Cardinality(Woken(x)) \in Nat /\ Cardinality(Woken(x)') \in Nat
          /\ Cardinality(Woken(x)) <= Cardinality(Woken(x)')
      BY ONLY <1>1, <1>4, <3>2, ThreadCount, x \in Sema
    <3> QED
      BY <3>1, <3>3
  <2>4. Cardinality(Woken(s)') \in Nat
    BY ONLY <1>1, <1>4, ThreadCount, s \in Sema
  <2> QED
    BY <1>6, <2>3, <2>4 DEF NoLostWakeup
<1> QED
  BY <1>5, <1>6 DEF DownTurn

\* sema_up: the unit it adds is matched by the waiter it readies.
LEMMA UpKeepsWakeups ==
    ASSUME IInv, NoLostWakeup, NEW s \in Sema, NEW context, Up(s, context), PlacesKept,
           UNCHANGED <<sleep_list, waiting>>
    PROVE  NoLostWakeup'
<1>1. /\ TypeOK /\ CpuInv /\ Links /\ current \in Thread
      /\ \A t \in Thread : status[t] = "RUNNING" <=> t = current
  BY RunningProps
<1>2. /\ value \in [Sema -> 0..MaxValue] /\ waiting \in [Thread -> Sema \cup {None}]
      /\ waiters \in [Sema -> Seq(Thread)] /\ status \in [Thread -> Status]
      /\ priority \in [Thread -> Nat] /\ thread_ticks \in Nat
      /\ \A x \in Sema : NoRepeat(waiters[x])
  BY <1>1 DEF TypeOK, Links, WaitersAreBlocked
<1>3. CpuInv' /\ status' \in [Thread -> Status]
  BY UpProps, CpuTypes
<1>4. \A x \in Sema : Woken(x) \in SUBSET Thread /\ Woken(x)' \in SUBSET Thread
  BY DEF Woken
<1>5. \A x \in Sema : /\ value[x] \in Nat
                      /\ value'[x] = IF x = s THEN value[x] + 1 ELSE value[x]
                      /\ waiters[x] # <<>> => value[x] <= Cardinality(Woken(x))
  BY <1>2, SemaAssumption DEF Up, NoLostWakeup
<1>6. CASE /\ waiters[s] = <<>>
           /\ ComparePriority(status, ready_list, context)
           /\ UNCHANGED waiters
  <2>1. Frame(status)
    BY <1>1, <1>2, <1>6, ComparePriorityProps DEF CpuInv
  <2>2. ASSUME NEW x \in Sema, waiters'[x] # <<>>
        PROVE  value'[x] <= Cardinality(Woken(x)')
    <3>1. Woken(x) \subseteq Woken(x)'
      BY <1>2, <1>3, <2>1, WokenStay, WokenProps DEF Woken, Alert
    <3>2. /\ Cardinality(Woken(x)) \in Nat /\ Cardinality(Woken(x)') \in Nat
          /\ Cardinality(Woken(x)) <= Cardinality(Woken(x)')
      BY ONLY <1>1, <1>4, <3>1, ThreadCount, x \in Sema
    <3> QED
      BY <1>5, <1>6, <2>2, <3>2
  <2> QED
    BY <2>2 DEF NoLostWakeup
<1>7. ASSUME NEW q \in SortedOf(waiters[s], priority), q # <<>>,
             waiters' = [waiters EXCEPT ![s] = Tail(q)],
             ComparePriority([status EXCEPT ![Head(q)] = "READY"],
                             InsertOrdered(ready_list, Head(q), priority), context)
      PROVE  NoLostWakeup'
  <2> DEFINE u == Head(q)
             w == waiters[s]
             st == [status EXCEPT ![u] = "READY"]
             rl == InsertOrdered(ready_list, u, priority)
  <2>1. w \in Seq(Thread) /\ NoRepeat(w) /\ q \in SortedOf(w, priority)
    BY <1>2
  <2>2. q \in Seq(Thread) /\ NoRepeat(q) /\ Range(q) = Range(w) /\ w # <<>>
    <3> HIDE DEF w
    <3> QED
      BY ONLY <1>2, <1>7, <2>1, SortedOfProps
  <2>3. u \in Thread /\ u \in Range(w)
    BY <1>7, <2>2, TailProps
  <2>4. status[u] = "BLOCKED" /\ pc[u] = "down" /\ waiting[u] = s /\ u # Idle
    BY <1>1, <2>3 DEF Links, WaitersAreBlocked, PlaceMatches
  <2>5. status'[u] \in {"READY", "RUNNING"}
        /\ \A t \in Thread : t # Idle /\ status[t] \in {"READY", "RUNNING"} =>
                                 status'[t] \in {"READY", "RUNNING"}
    <3>1. Cpu(current, st, rl, destruction_req)
      BY <2>3, ReadiedProps
    <3>2. Frame(st)
      BY <1>2, <1>7, <3>1, ComparePriorityProps
    <3>3. st[u] = "READY" /\ \A t \in Thread \ {u} : st[t] = status[t]
      BY <1>2, <2>3
    <3> HIDE DEF u, st
    <3>4. ASSUME NEW t \in Thread, t # Idle, st[t] \in {"READY", "RUNNING"}
          PROVE  status'[t] \in {"READY", "RUNNING"}
      BY <1>3, <3>2, <3>4 DEF Frame
    <3> QED
      BY <2>3, <2>4, <3>3, <3>4
  <2> HIDE DEF u, st, rl
  <2>6. ASSUME NEW x \in Sema PROVE Woken(x) \subseteq Woken(x)'
    BY <1>2, <2>5, WokenProps DEF Woken
  <2>7. u \notin Woken(s) /\ u \in Woken(s)'
    BY <1>2, <2>3, <2>4, <2>5 DEF Woken
  <2>8. Woken(s) \cup {u} \subseteq Woken(s)'
    BY <2>6, <2>7
  <2>9. /\ Cardinality(Woken(s)) \in Nat /\ Cardinality(Woken(s)') \in Nat
        /\ Cardinality(Woken(s)) + 1 <= Cardinality(Woken(s)')
    BY ONLY <1>4, <2>3, <2>7, <2>8, ThreadCount, s \in Sema
  <2>10. ASSUME NEW x \in Sema, waiters'[x] # <<>>, x # s
         PROVE  value'[x] <= Cardinality(Woken(x)')
    <3>1. waiters[x] # <<>>
      BY <1>2, <1>7, <2>10
    <3>2. /\ Cardinality(Woken(x)) \in Nat /\ Cardinality(Woken(x)') \in Nat
          /\ Cardinality(Woken(x)) <= Cardinality(Woken(x)')
      BY ONLY <1>4, <2>3, <2>6, ThreadCount, x \in Sema
    <3> QED
      BY <1>5, <2>10, <3>1, <3>2
  <2>11. value'[s] <= Cardinality(Woken(s)')
    BY <1>5, <2>2, <2>9 DEF w
  <2> QED
    BY <2>10, <2>11 DEF NoLostWakeup
<1> QED
  BY <1>6, <1>7 DEF Up

\* thread_compare_priority and thread_yield, called with the statuses as they
\* are, and the steps that switch to nobody.
LEMMA WakeupsKeptQuiet ==
    ASSUME IInv, NoLostWakeup, Frame(status), CpuInv', UNCHANGED <<waiting, value, waiters>>
    PROVE  NoLostWakeup'
<1>1. status \in [Thread -> Status] /\ Alert(status)
  BY DEF IInv, TypeOK, Alert
<1> QED
  BY <1>1, WakeupsKept

\* While somebody waits on a semaphore, every unit of its value has a woken
\* thread that has yet to come for it: sema_up readies a waiter for each unit it
\* adds, and only the loop of sema_down takes one.
LEMMA WakeupStep == IInv /\ NoLostWakeup /\ [Next]_vars => NoLostWakeup'
<1> SUFFICES ASSUME IInv, NoLostWakeup, [Next]_vars PROVE NoLostWakeup'
  OBVIOUS
<1>1. /\ TypeOK /\ CpuInv /\ Links /\ current \in Thread
      /\ \A t \in Thread : status[t] = "RUNNING" <=> t = current
      /\ pc[current] = "down" => waiting[current] \in Sema
      /\ pc[current] # "down" => waiting[current] = None
      /\ status \in [Thread -> Status] /\ waiting \in [Thread -> Sema \cup {None}]
      /\ value \in [Sema -> 0..MaxValue] /\ pc \in [Thread -> PcValues]
      /\ priority \in [Thread -> Nat] /\ thread_ticks \in Nat
  BY RunningProps DEF TypeOK, Links, PlaceMatches
<1>2. CpuInv'
  BY NextInv, IInvPartsNext
<1>3. Frame(status) /\ UNCHANGED <<waiting, value, waiters>> => NoLostWakeup'
  BY <1>2, WakeupsKeptQuiet
<1>4. UNCHANGED status => Frame(status)
  BY <1>1 DEF Frame
<1>5. Yield(status, ready_list) => Frame(status)
  BY <1>1, YieldProps DEF CpuInv
<1>6. ASSUME Block, pc[current] # "down", UNCHANGED <<waiting, value, waiters>>
      PROVE  NoLostWakeup'
  <2> DEFINE st == [status EXCEPT ![current] = "BLOCKED"]
  <2>1. Frame(st)
    BY <1>1, <1>6, BlockProps
  <2>2. st \in [Thread -> Status] /\ Alert(st)
    BY <1>1, <1>6 DEF Alert
  <2> HIDE DEF st
  <2> QED
    BY <1>2, <1>6, <2>1, <2>2, WakeupsKept
<1>7. CASE SemaNext
  <2>1. ASSUME NEW s \in Sema, SemaDown(s) PROVE NoLostWakeup'
    <3>1. /\ s \in Sema /\ DownTurn(s) /\ UNCHANGED sleep_list
          /\ pc[current] = "call" \/ (pc[current] = "down" /\ waiting[current] = s)
      BY <2>1 DEF SemaDown, Calling
    <3> QED
      BY <3>1, DownTurnKeepsWakeups
  <2>2. ASSUME SemaDownResume PROVE NoLostWakeup'
    <3>1. /\ pc[current] = "down" /\ DownTurn(waiting[current]) /\ UNCHANGED sleep_list
          /\ waiting[current] \in Sema
      BY <1>1, <2>2 DEF SemaDownResume
    <3> QED
      BY <3>1, DownTurnKeepsWakeups
  <2>3. ASSUME NEW s \in Sema, SemaTryDown(s) PROVE NoLostWakeup'
    <3>1. /\ value' = [value EXCEPT ![s] = @ - 1] /\ value[s] > 0
          /\ UNCHANGED <<waiting, status, waiters>>
      BY <2>3 DEF SemaTryDown, threadVars, cpuVars
    <3>2. ASSUME NEW x \in Sema PROVE /\ value[x] \in Nat
                                      /\ value'[x] \in {value[x], value[x] - 1}
                                      /\ Woken(x) \in SUBSET Thread /\ Woken(x)' = Woken(x)
      BY <1>1, <3>1, SemaAssumption DEF Woken
    <3>3. ASSUME NEW x \in Sema PROVE Cardinality(Woken(x)) \in Nat
      BY ONLY <1>1, <3>2, x \in Sema, ThreadCount
    <3> QED
      BY <3>1, <3>2, <3>3 DEF NoLostWakeup
  <2>4. ASSUME NEW s \in Sema, SemaUp(s) PROVE NoLostWakeup'
    <3>1. Up(s, FALSE) /\ PlacesKept /\ UNCHANGED <<sleep_list, waiting>>
      BY <1>1, <2>4 DEF SemaUp, PlacesKept, threadVars
    <3> QED
      BY <3>1, UpKeepsWakeups
  <2> QED
    BY <1>7, <2>1, <2>2, <2>3, <2>4 DEF SemaNext
<1>8. CASE InterruptNext
  <2>1. ASSUME NEW s \in DeviceSema, DeviceInterrupt(s) PROVE NoLostWakeup'
    <3>1. Up(s, TRUE) /\ PlacesKept /\ UNCHANGED <<sleep_list, waiting>> /\ s \in Sema
      BY <1>1, <2>1 DEF DeviceInterrupt, PlacesKept, threadVars, WakeIdle, Goto
    <3> QED
      BY <3>1, UpKeepsWakeups
  <2>2. ASSUME ThreadAwake PROVE NoLostWakeup'
    <3>1. CASE UNCHANGED status
      BY <1>3, <1>4, <2>2, <3>1 DEF ThreadAwake, threadVars, semaVars
    <3>2. CASE status' = [status EXCEPT ![sleep_list[cursor]] = "READY"]
      <4>1. \A t \in Thread : status'[t] \in {status[t], "READY"}
        BY <1>1, <3>2
      <4>2. UNCHANGED <<waiting, value, waiters>>
        BY <2>2 DEF ThreadAwake, threadVars, semaVars
      <4>3. ASSUME NEW x \in Sema
            PROVE  /\ value[x] \in Nat /\ Woken(x) \subseteq Woken(x)'
                   /\ Woken(x) \in SUBSET Thread /\ Woken(x)' \in SUBSET Thread
        BY <1>1, <4>1, <4>2, SemaAssumption DEF Woken
      <4>4. ASSUME NEW x \in Sema
            PROVE  /\ Cardinality(Woken(x)) \in Nat /\ Cardinality(Woken(x)') \in Nat
                   /\ Cardinality(Woken(x)) <= Cardinality(Woken(x)')
        BY ONLY <1>1, <4>3, x \in Sema, ThreadCount
      <4> QED
        BY <4>2, <4>3, <4>4 DEF NoLostWakeup
    <3> QED
      BY <2>2, <3>1, <3>2 DEF ThreadAwake
  <2>3. ASSUME IdleLoop PROVE NoLostWakeup'
    BY <1>6, <2>3 DEF IdleLoop, threadVars, semaVars
  <2>4. ASSUME TimerInterrupt \/ InterruptReturn PROVE NoLostWakeup'
    BY <1>3, <1>4, <1>5, <2>4 DEF TimerInterrupt, InterruptReturn, threadVars, cpuVars, semaVars
  <2> QED
    BY <1>8, <2>1, <2>2, <2>3, <2>4 DEF InterruptNext
<1>9. CASE SleepNext \/ ThreadYield
  <2>1. CASE ThreadSleep
    BY <1>6, <2>1 DEF ThreadSleep, threadVars, semaVars
  <2> QED
    BY <1>3, <1>4, <1>5, <1>9, <2>1
       DEF SleepNext, TimerSleep, ThreadYield, threadVars, cpuVars, semaVars
<1>10. CASE PriorityNext
  BY <1>3, <1>4, <1>5, <1>10
     DEF PriorityNext, CompareEmpty, CompareFront, CompareYield, ThreadSetPriority, threadVars,
         cpuVars, semaVars
<1>11. CASE LifeNext
  <2>1. CASE ThreadExit
    <3> DEFINE st == [status EXCEPT ![current] = "DYING"]
    <3>1. /\ pc[current] = "call" /\ current # Idle
          /\ DoSchedule(status, "DYING", ready_list)
          /\ UNCHANGED <<waiting, value, waiters>>
      BY <1>1, <2>1 DEF ThreadExit, Calling, threadVars, semaVars, Links, PlaceMatches
    <3>2. Queued(st, ready_list)
      BY <1>1 DEF CpuInv, Cpu, Queued
    <3>3. Frame(st)
      BY <1>1, <3>1, <3>2, DoScheduleProps DEF CpuInv, Cpu
    <3>4. st \in [Thread -> Status] /\ Alert(st)
      BY <1>1, <3>1 DEF Alert
    <3> HIDE DEF st
    <3> QED
      BY <1>2, <3>1, <3>3, <3>4, WakeupsKept
  <2>2. CASE ChildPush
    BY <1>3, <1>4, <2>2 DEF ChildPush, cpuVars, semaVars
  <2>3. ASSUME NEW t \in Thread, NEW p \in Pri, ThreadCreate(t, p) \/ ThreadCreateNoFdt(t, p)
        PROVE  NoLostWakeup'
    <3>1. /\ status[t] = "FREE" /\ UNCHANGED <<waiting, value, waiters>>
          /\ \A u \in Thread \ {t} : status'[u] = status[u]
      BY <1>1, <2>3 DEF ThreadCreate, ThreadCreateNoFdt, semaVars
    <3>2. ASSUME NEW x \in Sema
          PROVE  /\ value[x] \in Nat /\ Woken(x) \subseteq Woken(x)'
                 /\ Woken(x) \in SUBSET Thread /\ Woken(x)' \in SUBSET Thread
      BY <1>1, <3>1, SemaAssumption DEF Woken
    <3>3. ASSUME NEW x \in Sema
          PROVE  /\ Cardinality(Woken(x)) \in Nat /\ Cardinality(Woken(x)') \in Nat
                 /\ Cardinality(Woken(x)) <= Cardinality(Woken(x)')
      BY ONLY <1>1, <3>2, x \in Sema, ThreadCount
    <3> QED
      BY <3>1, <3>2, <3>3 DEF NoLostWakeup
  <2> QED
    BY <1>11, <2>1, <2>2, <2>3 DEF LifeNext
<1>12. CASE UNCHANGED vars
  BY <1>3, <1>4, <1>12 DEF vars, threadVars, cpuVars, semaVars
<1> QED
  BY <1>7, <1>8, <1>9, <1>10, <1>11, <1>12 DEF Next, Halted

\* sema_up and sema_down lose no wakeup, for any number of threads, semaphores
\* and units, interrupts included.
THEOREM WakeupsAreKept == Spec => []NoLostWakeup
<1>1. Init => NoLostWakeup
  BY DEF Init, NoLostWakeup
<1> QED
  BY <1>1, WakeupStep, Invariance, PTL DEF Spec

-----------------------------------------------------------------------------
(* The walk of thread_awake.                                               *)

\* What stands before the cursor has been seen, and is not due.
Walked == InHandler => \A i \in 1..Len(sleep_list) : i < cursor => awake[sleep_list[i]] > 0

\* The steps that move the cursor: the handler's entry, the walk and its end.
LEMMA CursorMoves ==
    [Next]_vars => \/ ~InHandler /\ cursor' \in {0, 1}
                   \/ ThreadAwake
                   \/ InterruptReturn
                   \/ UNCHANGED <<cursor, sleep_list, awake>>
<1> SUFFICES ASSUME [Next]_vars
             PROVE  \/ ~InHandler /\ cursor' \in {0, 1}
                    \/ ThreadAwake
                    \/ InterruptReturn
                    \/ UNCHANGED <<cursor, sleep_list, awake>>
  OBVIOUS
<1> USE DEF InHandler
<1>1. CASE SemaNext
  BY <1>1 DEF SemaNext, SemaDownResume, SemaDown, SemaTryDown, SemaUp, Calling, intrVars
<1>2. CASE InterruptNext
  BY <1>2 DEF InterruptNext, TimerInterrupt, IdleLoop, DeviceInterrupt, IntrOn, intrVars
<1>3. CASE SleepNext \/ ThreadYield
  BY <1>3 DEF SleepNext, ThreadSleep, TimerSleep, ThreadYield, Calling, intrVars
<1>4. CASE PriorityNext
  BY <1>4 DEF PriorityNext, CompareEmpty, CompareFront, CompareYield, ThreadSetPriority, Calling,
              intrVars
<1>5. CASE LifeNext
  BY <1>5 DEF LifeNext, ThreadExit, ChildPush, ThreadCreate, ThreadCreateNoFdt, Calling, intrVars
<1>6. CASE UNCHANGED vars
  BY <1>6 DEF vars, intrVars, threadVars
<1> QED
  BY <1>1, <1>2, <1>3, <1>4, <1>5, <1>6 DEF Next, Halted

\* The element that moves up into the place of a removed one is seen next, and
\* the others keep their places.
LEMMA WalkedStep == IInv /\ Walked /\ [Next]_vars => Walked'
<1> SUFFICES ASSUME IInv, Walked, [Next]_vars PROVE Walked'
  OBVIOUS
<1>1. /\ sleep_list \in Seq(Thread) /\ cursor \in Nat /\ awake \in [Thread -> Nat]
      /\ NoRepeat(sleep_list) /\ Len(sleep_list) \in Nat
  BY DEF IInv, TypeOK, ListsMatchStatus, SleepersAreBlocked
<1>2. CASE ~InHandler /\ cursor' \in {0, 1}
  BY <1>2 DEF Walked, InHandler
<1>3. CASE InterruptReturn
  BY <1>3 DEF Walked, InHandler, InterruptReturn
<1>4. CASE UNCHANGED <<cursor, sleep_list, awake>>
  BY <1>4 DEF Walked, InHandler
<1>5. CASE ThreadAwake
  <2>1. /\ cursor \in 1..Len(sleep_list) /\ awake' = awake
        /\ \A i \in 1..Len(sleep_list) : i < cursor => awake[sleep_list[i]] > 0
    BY <1>1, <1>5 DEF ThreadAwake, InHandler, threadVars, Walked
  <2>2. CASE sleep_list' = RemoveAt(sleep_list, cursor) /\ UNCHANGED cursor
    <3>1. /\ Len(sleep_list') = Len(sleep_list) - 1
          /\ \A k \in 1..(Len(sleep_list) - 1) : k < cursor => sleep_list'[k] = sleep_list[k]
      BY <1>1, <2>1, <2>2, RemoveAtElements
    <3> QED
      BY <1>1, <2>1, <2>2, <3>1 DEF Walked
  <2>3. CASE awake[sleep_list[cursor]] > 0 /\ cursor' = cursor + 1 /\ UNCHANGED sleep_list
    BY <1>1, <2>1, <2>3 DEF Walked
  <2> QED
    BY <1>5, <2>2, <2>3 DEF ThreadAwake
<1> QED
  BY <1>2, <1>3, <1>4, <1>5, CursorMoves

\* No step but thread_sleep and thread_awake touches the sleep list.
LEMMA SleepListMoves ==
    [Next]_vars => ThreadSleep \/ ThreadAwake \/ UNCHANGED sleep_list
<1> SUFFICES ASSUME [Next]_vars PROVE ThreadSleep \/ ThreadAwake \/ UNCHANGED sleep_list
  OBVIOUS
<1>1. CASE SemaNext
  BY <1>1 DEF SemaNext, SemaDownResume, SemaDown, SemaTryDown, SemaUp
<1>2. CASE InterruptNext
  BY <1>2 DEF InterruptNext, TimerInterrupt, InterruptReturn, IdleLoop, DeviceInterrupt
<1>3. CASE SleepNext \/ ThreadYield
  BY <1>3 DEF SleepNext, TimerSleep, ThreadYield
<1>4. CASE PriorityNext
  BY <1>4 DEF PriorityNext, CompareEmpty, CompareFront, CompareYield, ThreadSetPriority
<1>5. CASE LifeNext
  BY <1>5 DEF LifeNext, ThreadExit, ChildPush, ThreadCreate, ThreadCreateNoFdt
<1>6. CASE UNCHANGED vars
  BY <1>6 DEF vars
<1> QED
  BY <1>1, <1>2, <1>3, <1>4, <1>5, <1>6 DEF Next, Halted

\* thread_awake readies nobody before its tick, and its walk, which removes
\* elements as it goes, leaves nobody behind whose tick has come.
THEOREM SleepersWakeOnTime == Spec => WakeOnTime
<1>1. Init => Walked
  BY DEF Init, Walked, InHandler
<1>2. IInv /\ Walked /\ [Next]_vars =>
        [/\ \A t \in Range(sleep_list) : t \notin Range(sleep_list') => awake[t] = 0
         /\ InHandler /\ ~InHandler' => \A t \in Range(sleep_list) : awake[t] > 0]_vars
  <2> SUFFICES ASSUME IInv, Walked, [Next]_vars
               PROVE  /\ \A t \in Range(sleep_list) : t \notin Range(sleep_list') => awake[t] = 0
                      /\ InHandler /\ ~InHandler' => \A t \in Range(sleep_list) : awake[t] > 0
    OBVIOUS
  <2>1. /\ sleep_list \in Seq(Thread) /\ cursor \in Nat /\ current \in Thread
        /\ NoRepeat(sleep_list) /\ Len(sleep_list) \in Nat
        /\ \A x : x \in Range(sleep_list) <=> \E i \in 1..Len(sleep_list) : sleep_list[i] = x
    <3>1. sleep_list \in Seq(Thread) /\ cursor \in Nat /\ current \in Thread
      BY DEF IInv, TypeOK
    <3>2. NoRepeat(sleep_list)
      BY DEF IInv, ListsMatchStatus, SleepersAreBlocked
    <3> QED
      BY <3>1, <3>2, InRange
  <2>2. ASSUME NEW t \in Range(sleep_list), t \notin Range(sleep_list') PROVE awake[t] = 0
    <3>1. ThreadAwake
      <4>1. ASSUME ThreadSleep PROVE FALSE
        <5>1. sleep_list' = Append(sleep_list, current)
          BY <4>1 DEF ThreadSleep
        <5> QED
          BY <2>1, <2>2, <5>1, AppendProps
      <4> QED
        BY <2>2, <4>1, SleepListMoves
    <3>2. /\ cursor \in 1..Len(sleep_list) /\ awake[sleep_list[cursor]] = 0
          /\ sleep_list' = RemoveAt(sleep_list, cursor)
      BY <2>1, <2>2, <3>1 DEF ThreadAwake, InHandler
    <3> QED
      BY <2>1, <2>2, <3>2, RemoveAtProps
  <2>3. ASSUME InHandler, ~InHandler' PROVE \A t \in Range(sleep_list) : awake[t] > 0
    <3>1. cursor > Len(sleep_list)
      BY <2>1, <2>3, CursorMoves DEF ThreadAwake, InterruptReturn, InHandler
    <3> QED
      BY <2>1, <2>3, <3>1 DEF Walked
  <2> QED
    BY <2>2, <2>3
<1> QED
  BY <1>1, <1>2, WalkedStep, Invariance, PTL DEF Spec, WakeOnTime

HIDE DEF Status, PcValues, None

-----------------------------------------------------------------------------
(* Locks and condition variables.                                          *)

\* The locks as mutexes: owner[l] is the set of the threads that own l.
MU == INSTANCE Mutex WITH Owner <- Thread, Resource <- Lock,
                          owner <- [l \in Lock |-> Owners(l)]
ImplementsMutex == MU!Spec

LockTypes ==
    /\ holder \in [Lock -> Thread \cup {None}]
    /\ wait_on_lock \in [Thread -> Lock \cup {None}]
    /\ init_priority \in [Thread -> Nat]
    /\ donations \in [Thread -> Seq(Thread)]
    /\ at \in [Thread -> At]
    /\ lock \in [Thread -> Lock \cup {None}]
    /\ donee \in [Thread -> Thread \cup {None}]
    /\ depth \in [Thread -> 0..MaxDepth]

\* The place of t in a lock function agrees with its place in the scheduler's
\* code, with the locals of the function and with the holder of the lock.
PlaceAgrees(t) ==
    /\ at[t] # "out" => pc[t] \in {"call", "down"}
    /\ pc[t] = "down" => \/ at[t] = "out" /\ waiting[t] \notin Lock
                         \/ at[t] = "down" /\ waiting[t] = lock[t]
    /\ at[t] = "out" => lock[t] = None
    /\ at[t] \notin {"out", "base", "max"} => lock[t] # None
    /\ at[t] = "max" => donations[t] # <<>>
    /\ at[t] = "donate" => donee[t] # None
    /\ at[t] \in {"remove", "base", "max", "clear"} /\ lock[t] # None => holder[lock[t]] = t
    /\ at[t] = "up" => holder[lock[t]] = None
PlacesAgree == \A t \in Thread : PlaceAgrees(t)

\* The unit of a lock is in its semaphore or with one thread.
OneUnit ==
    \A l \in Lock :
        /\ value[l] \in {0, 1}
        /\ value[l] = 1 => \A t \in Thread : ~Owns(t, l)
        /\ value[l] = 0 => \E t \in Thread : Owns(t, l)
        /\ \A t, u \in Thread : Owns(t, l) /\ Owns(u, l) => t = u

LInv == IInv /\ LockTypes /\ PlacesAgree /\ OneUnit
-----------------------------------------------------------------------------
LEMMA LockConstants ==
    /\ Lock \subseteq Sema /\ None \notin Lock /\ None \notin Thread
    /\ \A l \in Lock : InitValue[l] = 1
BY ThreadAssumption, SemaAssumption DEF Lock

(* The start.                                                              *)
LEMMA LockInitScheduler == LockInit => IInv
<1> SUFFICES ASSUME LockInit PROVE IInv
  OBVIOUS
<1>0. /\ Main \in Thread /\ Idle \in Thread /\ Main # Idle /\ Worker \subseteq Thread \ {Idle}
      /\ Main \in Worker /\ Pri \subseteq Nat /\ None \notin Thread /\ None \notin Sema
  BY ThreadAssumption, WorkerAssumption, NumberAssumption, SemaAssumption
<1>1. /\ <<>> \in Seq(Thread) /\ NoRepeat(<<>>) /\ Range(<<>>) = {}
  BY DEF NoRepeat, Range
<1>2. PICK q \in [1..Cardinality(Worker) - 1 -> Worker \ {Main}] :
          NoRepeat(q) /\ Range(q) = Worker \ {Main} /\ ready_list = q
  BY DEF LockInit
<1>3. ready_list \in Seq(Thread)
  <2>1. Cardinality(Worker) \in Nat /\ Cardinality(Worker) # 0
    BY <1>0, WorkerAssumption, FS_CardinalityType, FS_EmptySet
  <2>2. Cardinality(Worker) - 1 \in Nat
    BY <2>1
  <2>3. q \in [1..Cardinality(Worker) - 1 -> Thread]
    BY <1>0, <1>2
  <2> QED
    BY <1>2, <2>2, <2>3
<1>4. status = [t \in Thread |-> IF t = Main THEN "RUNNING" ELSE IF t = Idle THEN "BLOCKED"
                                 ELSE IF t \in Worker THEN "READY" ELSE "FREE"]
  BY <1>0 DEF LockInit
<1>5. pc = [t \in Thread |-> IF t \in Worker THEN "call" ELSE IF t = Idle THEN "halt" ELSE "none"]
  BY <1>0 DEF LockInit
<1>6. TypeOK
  <2>1. priority \in [Thread -> Nat]
    BY <1>0, WorkerAssumption DEF LockInit
  <2>2. status \in [Thread -> Status] /\ pc \in [Thread -> PcValues]
    BY <1>4, <1>5 DEF Status, PcValues
  <2>3. value \in [Sema -> 0..MaxValue] /\ waiters \in [Sema -> Seq(Thread)]
    BY <1>1, SemaAssumption DEF LockInit
  <2> QED
    BY <1>0, <1>1, <1>3, <2>1, <2>2, <2>3 DEF LockInit, TypeOK
<1>7. ListsMatchStatus
  <2>1. OneRunning /\ ReadyIsReady
    BY <1>0, <1>2, <1>4 DEF LockInit, OneRunning, ReadyIsReady
  <2>2. SleepersAreBlocked /\ WaitersAreBlocked /\ DyingAreQueued
    BY <1>0, <1>1, <1>4 DEF LockInit, SleepersAreBlocked, WaitersAreBlocked, DyingAreQueued
  <2> QED
    BY <2>1, <2>2 DEF ListsMatchStatus
<1>8. PlaceMatches /\ BlockedIsFindable
  BY <1>0, <1>4, <1>5 DEF LockInit, PlaceMatches, BlockedIsFindable
<1> QED
  BY <1>6, <1>7, <1>8 DEF IInv

LEMMA LockInitInv == LockInit => LInv
<1> SUFFICES ASSUME LockInit PROVE LInv
  OBVIOUS
<1>1. LockTypes
  <2>1. priority \in [Thread -> Nat]
    BY LockInitScheduler DEF IInv, TypeOK
  <2>2. <<>> \in Seq(Thread) /\ 0 \in 0..MaxDepth
    BY LockAssumption
  <2> QED
    BY <2>1, <2>2 DEF LockInit, LockTypes, At
<1>2. PlacesAgree
  BY WorkerAssumption DEF LockInit, PlacesAgree, PlaceAgrees
<1>3. OneUnit
  BY LockConstants DEF LockInit, OneUnit, Owns
<1> QED
  BY <1>1, <1>2, <1>3, LockInitScheduler DEF LInv
-----------------------------------------------------------------------------
(* What the scheduler keeps is kept by the lock functions.                 *)

\* A lock function changes priorities, and where the caller is in thread.c.
LEMMA PriorityStep ==
    ASSUME IInv, priority' \in [Thread -> Nat], panic' \in BOOLEAN, PlacesKept,
           UNCHANGED SchedulerVars
    PROVE  IInv'
<1>1. TypeOK /\ CpuInv
  BY IInvParts
<1>2. UNCHANGED <<awake, waiting, child, current, status, ready_list, destruction_req,
                  thread_ticks, value, waiters, cursor, yield_on_return, sleep_list>>
  BY DEF SchedulerVars, cpuVars, semaVars, intrVars
<1>3. CpuInv' /\ Frame(status)
  BY <1>1, <1>2 DEF CpuInv, Cpu, Queued, Doomed, Frame
<1>4. TypeOK'
  BY <1>1, <1>2 DEF TypeOK, PlacesKept
<1>5. Links'
  BY <1>2, <1>3, QuietStep
<1> QED
  BY <1>3, <1>4, <1>5, IInvNext

\* sema_down, sema_try_down and sema_up, called by a lock function.
LEMMA DownStep ==
    ASSUME IInv, NEW s \in Sema, pc[current] = "call", DownTurn(s),
           UNCHANGED <<priority, awake, child, sleep_list, intrVars, panic>>
    PROVE  IInv'
<1>1. TypeOK /\ current \in Thread
  BY RunningProps
<1>2. /\ CpuInv' /\ Links'
      /\ thread_ticks' \in Nat /\ value' \in [Sema -> 0..MaxValue]
      /\ waiters' \in [Sema -> Seq(Thread)]
      /\ pc' \in [Thread -> PcValues] /\ waiting' \in [Thread -> Sema \cup {None}]
  BY <1>1, DownTurnProps
<1>3. TypeOK'
  BY <1>1, <1>2 DEF TypeOK, CpuInv, Cpu, Queued, Doomed, intrVars
<1> QED
  BY <1>2, <1>3, IInvNext

LEMMA TryDownStep ==
    ASSUME IInv, NEW s \in Sema, value[s] > 0, value' = [value EXCEPT ![s] = @ - 1],
           UNCHANGED <<threadVars, cpuVars, waiters, intrVars, pc, sleep_list, panic>>
    PROVE  IInv'
<1>1. TypeOK /\ CpuInv
  BY IInvParts
<1>2. UNCHANGED <<priority, awake, waiting, child, current, status, ready_list, destruction_req,
                  thread_ticks, waiters, cursor, yield_on_return, pc, sleep_list, panic>>
  BY DEF threadVars, cpuVars, intrVars
<1>3. value' \in [Sema -> 0..MaxValue]
  BY <1>1, SemaAssumption DEF TypeOK
<1>4. TypeOK'
  BY <1>1, <1>2, <1>3 DEF TypeOK
<1>5. CpuInv' /\ Frame(status) /\ PlacesKept
  BY <1>1, <1>2 DEF CpuInv, Cpu, Queued, Doomed, Frame, PlacesKept, TypeOK
<1>6. Links'
  BY <1>2, <1>5, QuietStep
<1> QED
  BY <1>4, <1>5, <1>6, IInvNext

LEMMA UpStep ==
    ASSUME IInv, NEW s \in Sema, Up(s, FALSE),
           UNCHANGED <<threadVars, intrVars, pc, sleep_list, panic>>
    PROVE  IInv'
<1>1. TypeOK
  BY IInvParts
<1>2. UNCHANGED <<priority, awake, waiting, child, cursor, yield_on_return, pc, sleep_list, panic>>
  BY DEF threadVars, intrVars
<1>3. PlacesKept
  BY <1>1, <1>2 DEF PlacesKept, TypeOK
<1>4. /\ CpuInv' /\ Links'
      /\ thread_ticks' \in Nat /\ value' \in [Sema -> 0..MaxValue]
      /\ waiters' \in [Sema -> Seq(Thread)]
  BY <1>2, <1>3, UpProps
<1>5. TypeOK'
  BY <1>1, <1>2, <1>4, CpuTypes DEF TypeOK
<1> QED
  BY <1>4, <1>5, IInvNext

\* What SchedulerStep does is what Scheduler does.
LEMMA SchedulerStepIs == ~panic /\ SchedulerStep => Next
  BY DEF SchedulerStep, SchedulerCall, Next, SemaNext, InterruptNext, SleepNext, PriorityNext

\* The elements of a list are the same after list_sort.
LEMMA SortedOfTyped ==
    ASSUME NEW S, NEW s \in Seq(S), NEW pr, NEW q \in SortedOf(s, pr), s # <<>>
    PROVE  q \in Seq(S) /\ q # <<>> /\ Head(q) \in S
<1>1. Len(s) \in Nat \ {0} /\ q \in [1..Len(s) -> Range(s)]
  BY LenProperties, EmptySeq DEF SortedOf
<1>2. Range(s) \subseteq S
  BY InRange, ElementOfSeq
<1>3. q \in Seq(S) /\ Len(q) = Len(s)
  BY <1>1, <1>2, LenProperties
<1>4. q # <<>> /\ Head(q) = q[1] /\ q[1] \in S
  BY <1>1, <1>3, <1>2
<1> QED
  BY <1>3, <1>4

LEMMA UnlinkedTyped ==
    ASSUME NEW S, NEW s \in Seq(S), NEW gone, NEW q \in Unlinked(s, gone)
    PROVE  q \in Seq(S)
<1>1. Len(s) \in Nat /\ Range(s) \subseteq S
  BY LenProperties, InRange, ElementOfSeq
<1>2. PICK n \in 0..Len(s) : q \in [1..n -> Range(s) \ gone]
  BY DEF Unlinked, BoundedSeq, SeqOf
<1> QED
  BY <1>1, <1>2
-----------------------------------------------------------------------------
\* What every step may assume of the running thread.
LEMMA Current ==
    ASSUME LInv
    PROVE  /\ TypeOK /\ IInv /\ LockTypes /\ OneUnit
           /\ current \in Thread /\ PlaceAgrees(current)
           /\ lock[current] \in Lock \cup {None} /\ at[current] \in At
           /\ \A l \in Lock : l \in Sema /\ value[l] \in Nat
<1>1. IInv /\ LockTypes /\ PlacesAgree /\ OneUnit
  BY DEF LInv
<1>2. TypeOK /\ current \in Thread
  BY <1>1, RunningProps
<1>3. PlaceAgrees(current)
  BY <1>1, <1>2 DEF PlacesAgree
<1>4. lock[current] \in Lock \cup {None} /\ at[current] \in At
  BY <1>1, <1>2 DEF LockTypes
<1>5. ASSUME NEW l \in Lock PROVE l \in Sema /\ value[l] \in Nat
  BY <1>1, LockConstants DEF OneUnit
<1> QED
  BY <1>1, <1>2, <1>3, <1>4, <1>5

LEMMA SchedulerKept == LInv /\ [LockNext]_allVars => IInv'
<1> SUFFICES ASSUME LInv, [LockNext]_allVars PROVE IInv'
  OBVIOUS
<1>0. /\ TypeOK /\ IInv /\ LockTypes
      /\ current \in Thread /\ PlaceAgrees(current) /\ lock[current] \in Lock \cup {None}
      /\ Lock \subseteq Sema
  BY Current, LockConstants
<1>1. CASE UNCHANGED vars
  BY <1>0, <1>1, NextInv
<1>2. ASSUME ~panic, SchedulerStep PROVE IInv'
  BY <1>0, <1>2, SchedulerStepIs, NextInv
<1>3. CASE TestHolder \/ SetHolder \/ RemoveDonation \/ ClearHolder
  BY <1>1, <1>3 DEF TestHolder, SetHolder, RemoveDonation, ClearHolder
<1>4. ASSUME NEW l \in Lock, LockAcquire(l) \/ LockRelease(l) PROVE IInv'
  BY <1>1, <1>4 DEF LockAcquire, LockRelease
<1>5. ASSUME NEW p \in Pri, SetBasePriority(p) PROVE IInv'
  BY <1>1, <1>5 DEF SetBasePriority
<1>6. ASSUME NEW l \in Lock, LockTryAcquire(l) PROVE IInv'
  BY <1>0, <1>6, TryDownStep DEF LockTryAcquire
<1>7. CASE AcquireDown
  <2>1. lock[current] \in Lock
    BY <1>0, <1>7 DEF AcquireDown, Here, PlaceAgrees
  <2> QED
    BY <1>0, <1>7, <2>1, DownStep DEF AcquireDown, Here
<1>8. ASSUME AcquireResume, ~panic PROVE IInv'
  BY <1>0, <1>8, NextInv DEF AcquireResume, Next, SemaNext
<1>9. CASE ReleaseUp
  <2>1. lock[current] \in Lock
    BY <1>0, <1>9 DEF ReleaseUp, Here, PlaceAgrees
  <2> QED
    BY <1>0, <1>9, <2>1, UpStep DEF ReleaseUp
<1>10. CASE InsertDonation
  <2>1. PlacesKept /\ UNCHANGED <<priority, SchedulerVars>>
    BY <1>0, <1>10 DEF InsertDonation, PlacesKept, TypeOK
  <2>2. panic' \in BOOLEAN
    <3>1. panic' = TRUE \/ panic' = panic
      BY <1>10 DEF InsertDonation
    <3> QED
      BY <1>0, <3>1 DEF TypeOK
  <2> QED
    BY <1>0, <2>1, <2>2, PriorityStep DEF TypeOK
<1>11. CASE DonateTurn
  <2>1. PlacesKept /\ UNCHANGED SchedulerVars
    BY <1>0, <1>11 DEF DonateTurn, PlacesKept, TypeOK
  <2>2. panic' \in BOOLEAN
    <3>1. panic' = TRUE \/ panic' = panic
      BY <1>11 DEF DonateTurn
    <3> QED
      BY <1>0, <3>1 DEF TypeOK
  <2>3. priority' \in [Thread -> Nat]
    <3>1. donee[current] \in Thread
      BY <1>0, <1>11 DEF DonateTurn, Here, PlaceAgrees, LockTypes
    <3>2. priority[donee[current]] \in Nat /\ priority \in [Thread -> Nat]
      BY <1>0, <3>1 DEF TypeOK
    <3>3. \/ priority' = priority
          \/ priority' = [priority EXCEPT ![holder[wait_on_lock[donee[current]]]] =
                                          priority[donee[current]]]
      BY <1>11 DEF DonateTurn
    <3> QED
      BY <3>2, <3>3
  <2> QED
    BY <1>0, <2>1, <2>2, <2>3, PriorityStep
<1>12. CASE RestoreBase
  <2>1. pc[current] = "call" /\ UNCHANGED <<SchedulerVars, panic>>
    BY <1>12 DEF RestoreBase, Here
  <2>2. pc' = pc \/ pc' = [pc EXCEPT ![current] = "compare"]
    BY <1>12 DEF RestoreBase, Restored, Goto
  <2>3. PlacesKept
    BY <1>0, <2>1, <2>2 DEF PlacesKept, TypeOK, PcValues
  <2>4. priority' \in [Thread -> Nat]
    BY <1>0, <1>12 DEF RestoreBase, TypeOK, LockTypes
  <2> QED
    BY <1>0, <2>1, <2>3, <2>4, PriorityStep DEF TypeOK
<1>13. CASE RestoreMax
  <2>1. pc[current] = "call" /\ UNCHANGED <<SchedulerVars, panic>>
    BY <1>13 DEF RestoreMax, Here
  <2>2. pc' = pc \/ pc' = [pc EXCEPT ![current] = "compare"]
    BY <1>13 DEF RestoreMax, Restored, Goto
  <2>3. PlacesKept
    BY <1>0, <2>1, <2>2 DEF PlacesKept, TypeOK, PcValues
  <2>4. priority' \in [Thread -> Nat]
    <3>1. PICK q \in SortedOf(donations[current], priority) :
              priority' = [priority EXCEPT ![current] =
                             IF @ < priority[Head(q)] THEN priority[Head(q)] ELSE @]
      BY <1>13 DEF RestoreMax
    <3>2. donations[current] \in Seq(Thread) /\ donations[current] # <<>>
      BY <1>0, <1>13 DEF RestoreMax, Here, PlaceAgrees, LockTypes
    <3>3. Head(q) \in Thread
      BY <3>2, SortedOfTyped
    <3>4. priority \in [Thread -> Nat] /\ priority[Head(q)] \in Nat /\ priority[current] \in Nat
      BY <1>0, <3>3 DEF TypeOK
    <3> QED
      BY <3>1, <3>4
  <2> QED
    BY <1>0, <2>1, <2>3, <2>4, PriorityStep DEF TypeOK
<1> QED
  BY <1>1, <1>2, <1>3, <1>4, <1>5, <1>6, <1>7, <1>8, <1>9, <1>10, <1>11, <1>12, <1>13
  DEF LockNext, AcquireNext, ReleaseNext, allVars

(* The types are kept.                                                     *)
LEMMA LockTypesKept == LInv /\ [LockNext]_allVars => LockTypes'
<1> SUFFICES ASSUME LInv, [LockNext]_allVars PROVE LockTypes'
  OBVIOUS
<1>0. /\ TypeOK /\ LockTypes /\ current \in Thread /\ PlaceAgrees(current)
      /\ lock[current] \in Lock \cup {None} /\ MaxDepth \in Nat
  BY Current, LockAssumption
<1> USE DEF At, To, Return
<1>1. CASE UNCHANGED <<lockVars, localVars>>
  BY <1>0, <1>1 DEF LockTypes, lockVars, localVars
<1>2. CASE TestHolder
  <2>1. lock[current] \in Lock
    BY <1>0, <1>2 DEF TestHolder, Here, PlaceAgrees
  <2> QED
    BY <1>0, <1>2, <2>1 DEF TestHolder, LockTypes
<1>3. CASE SetHolder
  BY <1>0, <1>3 DEF SetHolder, LockTypes
<1>4. CASE RemoveDonation
  <2>1. PICK q :
            /\ q \in Unlinked(donations[current], {t \in Thread : wait_on_lock[t] = lock[current]})
            /\ donations' = [donations EXCEPT ![current] = q]
    BY <1>4 DEF RemoveDonation
  <2>2. q \in Seq(Thread)
    BY <1>0, <2>1, UnlinkedTyped DEF LockTypes
  <2> QED
    BY <1>0, <1>4, <2>1, <2>2 DEF RemoveDonation, LockTypes
<1>5. CASE ClearHolder
  BY <1>0, <1>5 DEF ClearHolder, LockTypes
<1>6. ASSUME NEW l \in Lock, LockAcquire(l) PROVE LockTypes'
  BY <1>0, <1>6 DEF LockAcquire, LockTypes, lockVars
<1>7. ASSUME NEW l \in Lock, LockRelease(l) PROVE LockTypes'
  BY <1>0, <1>7 DEF LockRelease, LockTypes, lockVars
<1>8. ASSUME NEW l \in Lock, LockTryAcquire(l) PROVE LockTypes'
  BY <1>0, <1>8 DEF LockTryAcquire, LockTypes, lockVars
<1>9. ASSUME NEW p \in Pri, SetBasePriority(p) PROVE LockTypes'
  BY <1>0, <1>9, NumberAssumption DEF SetBasePriority, LockTypes
<1>10. CASE AcquireDown
  BY <1>0, <1>10 DEF AcquireDown, LockTypes, lockVars
<1>11. CASE AcquireResume
  BY <1>0, <1>11 DEF AcquireResume, LockTypes, lockVars
<1>12. CASE ReleaseUp
  BY <1>0, <1>12 DEF ReleaseUp, LockTypes, lockVars
<1>13. CASE InsertDonation
  <2>1. CASE holder[lock[current]] = None
    BY <1>0, <1>13, <2>1 DEF InsertDonation, LockTypes
  <2>2. CASE holder[lock[current]] # None
    <3>1. lock[current] \in Lock /\ holder[lock[current]] \in Thread
      BY <1>0, <1>13, <2>2 DEF InsertDonation, Here, PlaceAgrees, LockTypes
    <3>2. PICK h \in Thread : h = holder[lock[current]]
      BY <3>1
    <3>3. donations[h] \in Seq(Thread) /\ priority \in [Thread -> Nat]
      BY <1>0, <3>2 DEF LockTypes, TypeOK
    <3>4. InsertOrdered(donations[h], current, priority) \in Seq(Thread)
      BY <1>0, <3>3, InsertOrderedProps
    <3>5. /\ donations' = [donations EXCEPT ![h] = InsertOrdered(donations[h], current, priority)]
          /\ donee' = [donee EXCEPT ![current] = current]
          /\ depth' = [depth EXCEPT ![current] = 0]
          /\ at' = [at EXCEPT ![current] = "donate"]
          /\ UNCHANGED <<holder, wait_on_lock, init_priority, lock>>
      BY <1>13, <2>2, <3>2 DEF InsertDonation
    <3> QED
      BY <1>0, <3>2, <3>4, <3>5, SMTT(30) DEF LockTypes
  <2> QED
    BY <2>1, <2>2
<1>14. CASE DonateTurn
  <2> DEFINE d == donee[current]
             w == wait_on_lock[d]
  <2>1. d \in Thread /\ w \in Lock \cup {None}
    BY <1>0, <1>14 DEF DonateTurn, Here, PlaceAgrees, LockTypes
  <2>2. UNCHANGED <<holder, wait_on_lock, init_priority, donations, lock>>
    BY <1>14 DEF DonateTurn
  <2>3. CASE at' = [at EXCEPT ![current] = "down"] /\ donee' = [donee EXCEPT ![current] = None]
             /\ depth' = [depth EXCEPT ![current] = 0]
    BY <1>0, <2>2, <2>3 DEF LockTypes
  <2>4. CASE UNCHANGED <<donee, depth, at>>
    BY <1>0, <2>2, <2>4 DEF LockTypes
  <2>5. CASE /\ depth[current] < MaxDepth /\ w # None /\ holder[w] # None
             /\ donee' = [donee EXCEPT ![current] = holder[w]]
             /\ depth' = [depth EXCEPT ![current] = @ + 1] /\ UNCHANGED at
    <3>1. holder[w] \in Thread
      BY <1>0, <2>1, <2>5 DEF LockTypes
    <3>2. depth[current] + 1 \in 0..MaxDepth
      BY <1>0, <2>5, SMTT(30) DEF LockTypes
    <3> QED
      BY <1>0, <2>2, <2>5, <3>1, <3>2 DEF LockTypes
  <2> QED
    BY <1>14, <2>3, <2>4, <2>5 DEF DonateTurn
<1>15. CASE RestoreBase
  BY <1>0, <1>15 DEF RestoreBase, Restored, LockTypes, lockVars
<1>16. CASE RestoreMax
  <2>1. PICK q \in SortedOf(donations[current], priority) :
            donations' = [donations EXCEPT ![current] = q]
    BY <1>16 DEF RestoreMax
  <2>2. donations[current] \in Seq(Thread) /\ donations[current] # <<>>
    BY <1>0, <1>16 DEF RestoreMax, Here, PlaceAgrees, LockTypes
  <2>3. q \in Seq(Thread)
    BY <2>2, SortedOfTyped
  <2> QED
    BY <1>0, <1>16, <2>1, <2>3 DEF RestoreMax, Restored, LockTypes
<1> QED
  BY <1>1, <1>2, <1>3, <1>4, <1>5, <1>6, <1>7, <1>8, <1>9, <1>10, <1>11, <1>12, <1>13,
     <1>14, <1>15, <1>16
  DEF LockNext, AcquireNext, ReleaseNext, SchedulerStep, KeepLocks, allVars
-----------------------------------------------------------------------------
(* Where the unit of a lock goes.                                          *)

\* The step moves no unit,
Kept == /\ \A l \in Lock : value'[l] = value[l]
        /\ \A t \in Thread, l \in Lock : Owns(t, l)' <=> Owns(t, l)
\* or the running thread takes the unit of l,
Takes(l) == /\ value[l] > 0 /\ value'[l] = value[l] - 1
            /\ \A k \in Lock \ {l} : value'[k] = value[k]
            /\ \A t \in Thread, k \in Lock : Owns(t, k)' <=> Owns(t, k) \/ (t = current /\ k = l)
\* or it gives it back.
Gives(l) == /\ Owns(current, l) /\ value'[l] = value[l] + 1
            /\ \A k \in Lock \ {l} : value'[k] = value[k]
            /\ \A t \in Thread, k \in Lock :
                 Owns(t, k)' <=> Owns(t, k) /\ ~(t = current /\ k = l)

\* A step of the scheduler's leaves the locks' values alone, and the place of a
\* thread inside a lock function.
SchedulerMoves ==
    /\ \A l \in Lock : value'[l] = value[l]
    /\ \A t \in Thread : t # current \/ at[t] # "out" =>
         pc'[t] = pc[t] /\ waiting'[t] = waiting[t]
    /\ at[current] = "out" /\ pc'[current] = "down" => waiting'[current] \notin Lock

\* One turn of sema_down moves nobody but its caller.
LEMMA DownMoves ==
    ASSUME TypeOK, NEW s \in Sema, DownTurn(s)
    PROVE  /\ \A k \in Sema \ {s} : value'[k] = value[k]
           /\ value[s] > 0 => value'[s] = value[s] - 1
           /\ value[s] = 0 => value'[s] = value[s]
           /\ \A t \in Thread \ {current} : pc'[t] = pc[t] /\ waiting'[t] = waiting[t]
           /\ value[s] > 0 => pc'[current] = "call"
           /\ value[s] = 0 => pc'[current] = "down" /\ waiting'[current] = s
<1>1. /\ value \in [Sema -> 0..MaxValue] /\ pc \in [Thread -> PcValues]
      /\ waiting \in [Thread -> Sema \cup {None}] /\ current \in Thread
  BY DEF TypeOK
<1>2. CASE value[s] > 0
  BY <1>1, <1>2 DEF DownTurn, Goto
<1>3. CASE value[s] = 0
  BY <1>1, <1>3 DEF DownTurn, Goto
<1>4. value[s] \in Nat
  BY <1>1
<1> QED
  BY <1>2, <1>3, <1>4

\* sema_up moves nobody but those it readies.
LEMMA UpMoves ==
    ASSUME TypeOK, NEW s \in Sema, Up(s, FALSE)
    PROVE  value'[s] = value[s] + 1 /\ \A k \in Sema \ {s} : value'[k] = value[k]
BY DEF TypeOK, Up

LEMMA SchedulerMovesStep == LInv /\ SchedulerStep => SchedulerMoves
<1> SUFFICES ASSUME LInv, SchedulerStep PROVE SchedulerMoves
  OBVIOUS
<1>1. /\ TypeOK /\ current \in Thread /\ PlaceAgrees(current) /\ Lock \subseteq Sema
      /\ pc \in [Thread -> PcValues] /\ waiting \in [Thread -> Sema \cup {None}]
  BY Current, LockConstants DEF TypeOK
<1>2. at[current] # "out" => pc[current] \in {"call", "down"}
  BY <1>1 DEF PlaceAgrees
<1>3. ASSUME UNCHANGED <<value, waiting>>,
             \/ UNCHANGED pc
             \/ /\ at[current] = "out"
                /\ \E p \in PcValues \ {"down"} : pc' = [pc EXCEPT ![current] = p]
      PROVE  SchedulerMoves
  <2>1. CASE UNCHANGED pc
    BY <1>1, <1>3, <2>1 DEF SchedulerMoves, PlaceAgrees
  <2>2. CASE at[current] = "out" /\ \E p \in PcValues \ {"down"} : pc' = [pc EXCEPT ![current] = p]
    BY <1>1, <1>3, <2>2 DEF SchedulerMoves
  <2> QED
    BY <1>3, <2>1, <2>2
<1>4. ASSUME at[current] = "out", NEW s \in Sema \ Lock, DownTurn(s) PROVE SchedulerMoves
  <2>1. value[s] \in Nat
    BY <1>1 DEF TypeOK
  <2> QED
    BY <1>1, <1>4, <2>1, DownMoves DEF SchedulerMoves
<1>5. ASSUME at[current] = "out", NEW s \in Sema \ Lock, SemaDown(s) PROVE SchedulerMoves
  BY <1>4, <1>5 DEF SemaDown
<1>6. CASE at[current] = "out" /\ SemaDownResume
  <2>1. pc[current] = "down" /\ DownTurn(waiting[current])
    BY <1>6 DEF SemaDownResume
  <2>2. waiting[current] \in Sema \ Lock
    <3>1. IInv
      BY DEF LInv
    <3>2. PlaceMatches
      BY <3>1 DEF IInv
    <3> QED
      BY <1>1, <1>6, <2>1, <3>2 DEF PlaceMatches, PlaceAgrees
  <2> QED
    BY <1>4, <1>6, <2>1, <2>2
<1>7. ASSUME at[current] = "out", NEW s \in Sema \ Lock, SemaUp(s) PROVE SchedulerMoves
  <2>1. Up(s, FALSE) /\ UNCHANGED <<waiting, pc>> /\ pc[current] = "call"
    BY <1>7 DEF SemaUp, threadVars, Calling
  <2>2. \A k \in Sema \ {s} : value'[k] = value[k]
    BY <1>1, <2>1, UpMoves
  <2> QED
    BY <1>1, <2>1, <2>2 DEF SchedulerMoves
<1>8. ASSUME at[current] = "out",
             SleepNext \/ ThreadYield \/ CompareEmpty \/ CompareFront \/ CompareYield
      PROVE  SchedulerMoves
  <2>1. UNCHANGED <<value, waiting>>
    BY <1>8 DEF SleepNext, ThreadSleep, TimerSleep, ThreadYield, CompareEmpty, CompareFront,
                CompareYield, threadVars, semaVars
  <2>2. UNCHANGED pc \/ \E p \in PcValues \ {"down"} : pc' = [pc EXCEPT ![current] = p]
    BY <1>8 DEF SleepNext, ThreadSleep, TimerSleep, ThreadYield, CompareEmpty, CompareFront,
                CompareYield, Goto, AfterCompare, PcValues
  <2> QED
    BY <1>3, <1>8, <2>1, <2>2
<1>9. CASE ThreadAwake \/ InterruptReturn
  BY <1>3, <1>9 DEF ThreadAwake, InterruptReturn, threadVars, semaVars
<1>10. CASE TimerInterrupt \/ IdleLoop
  <2>1. UNCHANGED <<value, waiting>>
    BY <1>10 DEF TimerInterrupt, IdleLoop, threadVars, semaVars
  <2>2. \/ UNCHANGED pc
        \/ /\ pc[current] \in {"halt", "loop"}
           /\ \E p \in {"halt", "loop"} : pc' = [pc EXCEPT ![current] = p]
    BY <1>10 DEF TimerInterrupt, IdleLoop, WakeIdle, Goto
  <2> QED
    BY <1>2, <1>3, <2>1, <2>2 DEF PcValues
<1> QED
  BY <1>5, <1>6, <1>7, <1>8, <1>9, <1>10 DEF SchedulerStep, SchedulerCall

\* A statement before or after the section owns nothing new.
LEMMA SamePlace ==
    ASSUME LockTypes, current \in Thread, holder' = holder,
           at[current] \notin {"took", "up"}, NEW p \in At \ {"took", "up"},
           at' = [at EXCEPT ![current] = p],
           \A t \in Thread \ {current} : lock'[t] = lock[t]
    PROVE  \A t \in Thread, l \in Lock : Owns(t, l)' <=> Owns(t, l)
<1>1. at'[current] = p /\ \A t \in Thread \ {current} : at'[t] = at[t]
  BY DEF LockTypes
<1> QED
  BY <1>1 DEF Owns

\* sema_down on the lock's semaphore takes the unit or waits.
LEMMA DownOfLock ==
    ASSUME LInv, NEW l \in Lock, l = lock[current], at[current] = "down", DownTurn(l),
           To(IF value[l] > 0 THEN "took" ELSE "down"),
           UNCHANGED <<holder, lock>>
    PROVE  Kept \/ \E k \in Lock : Takes(k)
<1>1. /\ TypeOK /\ LockTypes /\ current \in Thread /\ Lock \subseteq Sema
      /\ value[l] \in {0, 1} /\ at \in [Thread -> At]
  BY Current, LockConstants DEF OneUnit, LockTypes
<1>2. \A t \in Thread \ {current} : at'[t] = at[t]
  BY <1>1 DEF To
<1>3. CASE value[l] = 0
  <2>1. at' = at
    BY <1>1, <1>3 DEF To
  <2>2. \A k \in Lock : value'[k] = value[k]
    BY <1>1, <1>3, DownMoves
  <2> QED
    BY <2>1, <2>2 DEF Kept, Owns
<1>4. CASE value[l] = 1
  <2>1. at'[current] = "took"
    BY <1>1, <1>4 DEF To, At
  <2>2. value'[l] = value[l] - 1 /\ \A k \in Lock \ {l} : value'[k] = value[k]
    BY <1>1, <1>4, DownMoves
  <2>3. \A t \in Thread, k \in Lock : Owns(t, k)' <=> Owns(t, k) \/ (t = current /\ k = l)
    <3> TAKE t \in Thread, k \in Lock
    <3>1. CASE t = current
      BY <2>1, <3>1 DEF Owns
    <3>2. CASE t # current
      BY <1>2, <3>2 DEF Owns
    <3> QED
      BY <3>1, <3>2
  <2> QED
    BY <1>4, <2>2, <2>3 DEF Takes
<1> QED
  BY <1>1, <1>3, <1>4

\* Every step of the system.
LEMMA UnitMoves ==
    LInv /\ [LockNext]_allVars => Kept \/ \E l \in Lock : Takes(l) \/ Gives(l)
<1> SUFFICES ASSUME LInv, [LockNext]_allVars PROVE Kept \/ \E l \in Lock : Takes(l) \/ Gives(l)
  OBVIOUS
<1>0. /\ TypeOK /\ LockTypes /\ OneUnit /\ current \in Thread /\ PlaceAgrees(current)
      /\ lock[current] \in Lock \cup {None} /\ Lock \subseteq Sema
      /\ None \notin Thread /\ None \notin Lock
      /\ at \in [Thread -> At] /\ lock \in [Thread -> Lock \cup {None}]
      /\ holder \in [Lock -> Thread \cup {None}] /\ value \in [Sema -> 0..MaxValue]
  BY Current, LockConstants DEF LockTypes, TypeOK
<1>quiet. ASSUME value' = value, holder' = holder, at[current] \notin {"took", "up"},
                 NEW p \in At \ {"took", "up"}, at' = [at EXCEPT ![current] = p],
                 \A t \in Thread \ {current} : lock'[t] = lock[t]
          PROVE  Kept
  BY <1>0, <1>quiet, SamePlace DEF Kept
<1>1. CASE UNCHANGED <<value, holder, at, lock>>
  BY <1>1 DEF Kept, Owns
<1>2. CASE SchedulerStep
  <2>1. UNCHANGED <<holder, at, lock>>
    BY <1>2 DEF SchedulerStep, KeepLocks, lockVars, localVars
  <2>2. \A l \in Lock : value'[l] = value[l]
    BY <1>2, SchedulerMovesStep DEF SchedulerMoves
  <2> QED
    BY <2>1, <2>2 DEF Kept, Owns
<1>3. ASSUME NEW l \in Lock, LockAcquire(l) \/ LockRelease(l) PROVE Kept
  <2>1. /\ UNCHANGED <<value, holder>> /\ at[current] = "out"
        /\ lock' = [lock EXCEPT ![current] = l]
    BY <1>3 DEF LockAcquire, LockRelease, Here, vars, semaVars, lockVars
  <2>2. \E p \in At \ {"took", "up"} : at' = [at EXCEPT ![current] = p]
    BY <1>3 DEF LockAcquire, LockRelease, To, At
  <2> QED
    BY <1>0, <1>quiet, <2>1, <2>2
<1>4. CASE TestHolder \/ DonateTurn \/ InsertDonation
  <2>1. UNCHANGED <<value, holder, lock>> /\ at[current] \in {"test", "donate", "insert"}
    BY <1>4 DEF TestHolder, DonateTurn, InsertDonation, Here, vars, semaVars, SchedulerVars
  <2>2. at' = at \/ \E p \in At \ {"took", "up"} : at' = [at EXCEPT ![current] = p]
    BY <1>4 DEF TestHolder, DonateTurn, InsertDonation, To, At
  <2> QED
    BY <1>0, <1>1, <1>quiet, <2>1, <2>2
<1>5. ASSUME NEW p \in Pri, SetBasePriority(p) PROVE Kept
  <2>1. UNCHANGED <<value, holder, lock>> /\ at[current] = "out"
        /\ at' = [at EXCEPT ![current] = "base"]
    BY <1>5 DEF SetBasePriority, Here, vars, semaVars, To
  <2> QED
    BY <1>0, <1>quiet, <2>1 DEF At
<1>6. CASE RemoveDonation
  <2>1. UNCHANGED <<value, holder, lock>> /\ at[current] = "remove"
        /\ at' = [at EXCEPT ![current] = "base"]
    BY <1>6 DEF RemoveDonation, Here, vars, semaVars, To
  <2> QED
    BY <1>0, <1>quiet, <2>1 DEF At
<1>7. CASE RestoreBase \/ RestoreMax
  <2>1. UNCHANGED <<value, holder, lock>> /\ at[current] \in {"base", "max"}
    BY <1>7 DEF RestoreBase, RestoreMax, Here, SchedulerVars, semaVars, lockVars
  <2>2. \E p \in At \ {"took", "up"} : at' = [at EXCEPT ![current] = p]
    BY <1>7 DEF RestoreBase, RestoreMax, Restored, To, At
  <2> QED
    BY <1>0, <1>quiet, <2>1, <2>2
<1>8. CASE AcquireDown
  <2>1. /\ at[current] = "down" /\ lock[current] \in Lock /\ DownTurn(lock[current])
        /\ UNCHANGED <<holder, lock>>
    BY <1>0, <1>8 DEF AcquireDown, Here, PlaceAgrees, lockVars
  <2>2. To(IF value[lock[current]] > 0 THEN "took" ELSE "down")
    BY <1>8 DEF AcquireDown
  <2> QED
    BY <2>1, <2>2, DownOfLock
<1>9. CASE AcquireResume
  <2>1. /\ at[current] = "down" /\ lock[current] \in Lock /\ waiting[current] = lock[current]
        /\ DownTurn(waiting[current]) /\ UNCHANGED <<holder, lock>>
    BY <1>0, <1>9 DEF AcquireResume, SemaDownResume, PlaceAgrees, lockVars
  <2>2. To(IF value[lock[current]] > 0 THEN "took" ELSE "down")
    BY <1>9, <2>1 DEF AcquireResume
  <2>3. DownTurn(lock[current])
    BY <2>1
  <2> QED
    BY <2>1, <2>2, <2>3, DownOfLock
<1>10. ASSUME NEW l \in Lock, LockTryAcquire(l) PROVE Takes(l)
  <2>1. /\ value[l] > 0 /\ value' = [value EXCEPT ![l] = @ - 1] /\ at[current] = "out"
        /\ lock' = [lock EXCEPT ![current] = l] /\ at' = [at EXCEPT ![current] = "took"]
        /\ UNCHANGED holder
    BY <1>10 DEF LockTryAcquire, Here, To, lockVars
  <2>2. /\ value'[l] = value[l] - 1 /\ \A k \in Lock \ {l} : value'[k] = value[k]
        /\ at'[current] = "took" /\ lock'[current] = l
        /\ \A t \in Thread \ {current} : at'[t] = at[t] /\ lock'[t] = lock[t]
    BY <1>0, <2>1
  <2>3. \A t \in Thread, k \in Lock : Owns(t, k)' <=> Owns(t, k) \/ (t = current /\ k = l)
    <3> TAKE t \in Thread, k \in Lock
    <3>1. CASE t = current
      BY <2>1, <2>2, <3>1 DEF Owns
    <3>2. CASE t # current
      BY <2>1, <2>2, <3>2 DEF Owns
    <3> QED
      BY <3>1, <3>2
  <2> QED
    BY <2>1, <2>2, <2>3 DEF Takes
<1>11. CASE SetHolder
  <2>1. PICK l \in Lock : l = lock[current]
    BY <1>0, <1>11 DEF SetHolder, Here, PlaceAgrees
  <2>2. /\ value' = value /\ at[current] = "took" /\ holder' = [holder EXCEPT ![l] = current]
        /\ at' = [at EXCEPT ![current] = "out"] /\ lock' = [lock EXCEPT ![current] = None]
    BY <1>11, <2>1 DEF SetHolder, Here, Return, To, vars, semaVars
  <2>3. /\ holder'[l] = current /\ \A k \in Lock \ {l} : holder'[k] = holder[k]
        /\ at'[current] = "out"
        /\ \A t \in Thread \ {current} : at'[t] = at[t] /\ lock'[t] = lock[t]
    BY <1>0, <2>2
  <2>4. Owns(current, l) /\ \A t \in Thread \ {current} : ~Owns(t, l)
    BY <1>0, <2>1, <2>2 DEF Owns, OneUnit
  <2>5. \A t \in Thread, k \in Lock : Owns(t, k)' <=> Owns(t, k)
    BY <1>0, <2>1, <2>2, <2>3, <2>4 DEF Owns
  <2> QED
    BY <2>2, <2>5 DEF Kept
<1>12. CASE ClearHolder
  <2>1. PICK l \in Lock : l = lock[current]
    BY <1>0, <1>12 DEF ClearHolder, Here, PlaceAgrees
  <2>2. /\ UNCHANGED <<value, lock>> /\ at[current] = "clear"
        /\ holder' = [holder EXCEPT ![l] = None] /\ at' = [at EXCEPT ![current] = "up"]
        /\ holder[l] = current
    BY <1>0, <1>12, <2>1 DEF ClearHolder, Here, To, vars, semaVars, PlaceAgrees
  <2>3. /\ holder'[l] = None /\ \A k \in Lock \ {l} : holder'[k] = holder[k]
        /\ at'[current] = "up" /\ \A t \in Thread \ {current} : at'[t] = at[t]
    BY <1>0, <2>2
  <2>4. Owns(current, l) /\ \A t \in Thread \ {current} : ~Owns(t, l)
    BY <1>0, <2>2 DEF Owns, OneUnit
  <2>5. \A t \in Thread, k \in Lock : Owns(t, k)' <=> Owns(t, k)
    BY <1>0, <2>1, <2>2, <2>3, <2>4 DEF Owns
  <2> QED
    BY <2>2, <2>5 DEF Kept
<1>13. CASE ReleaseUp
  <2>1. PICK l \in Lock : l = lock[current]
    BY <1>0, <1>13 DEF ReleaseUp, Here, PlaceAgrees
  <2>2. /\ UNCHANGED holder /\ at[current] = "up" /\ Up(l, FALSE) /\ holder[l] = None
        /\ at' = [at EXCEPT ![current] = "out"] /\ lock' = [lock EXCEPT ![current] = None]
    BY <1>0, <1>13, <2>1 DEF ReleaseUp, Here, Return, To, lockVars, PlaceAgrees
  <2>3. /\ at'[current] = "out"
        /\ \A t \in Thread \ {current} : at'[t] = at[t] /\ lock'[t] = lock[t]
    BY <1>0, <2>2
  <2>4. value'[l] = value[l] + 1 /\ \A k \in Lock \ {l} : value'[k] = value[k]
    BY <1>0, <2>2, UpMoves
  <2>5. /\ Owns(current, l)
        /\ \A t \in Thread, k \in Lock : Owns(t, k)' <=> Owns(t, k) /\ ~(t = current /\ k = l)
    BY <1>0, <2>1, <2>2, <2>3 DEF Owns
  <2> QED
    BY <2>4, <2>5 DEF Gives
<1> QED
  BY <1>1, <1>2, <1>3, <1>4, <1>5, <1>6, <1>7, <1>8, <1>9, <1>10, <1>11, <1>12, <1>13
  DEF LockNext, AcquireNext, ReleaseNext, allVars, vars, semaVars, lockVars, localVars

\* So the unit of a lock stays one.
LEMMA OneUnitKept == LInv /\ [LockNext]_allVars => OneUnit'
<1> SUFFICES ASSUME LInv, [LockNext]_allVars, NEW l \in Lock
             PROVE  /\ value'[l] \in {0, 1}
                    /\ value'[l] = 1 => \A t \in Thread : ~Owns(t, l)'
                    /\ value'[l] = 0 => \E t \in Thread : Owns(t, l)'
                    /\ \A t, u \in Thread : Owns(t, l)' /\ Owns(u, l)' => t = u
  BY DEF OneUnit
<1>1. /\ current \in Thread /\ value[l] \in {0, 1}
      /\ value[l] = 1 => \A t \in Thread : ~Owns(t, l)
      /\ value[l] = 0 => \E t \in Thread : Owns(t, l)
      /\ \A t, u \in Thread : Owns(t, l) /\ Owns(u, l) => t = u
  BY Current DEF OneUnit
<1>2. CASE Kept
  BY <1>1, <1>2 DEF Kept
<1>3. CASE \E k \in Lock \ {l} : Takes(k) \/ Gives(k)
  <2>1. PICK k \in Lock \ {l} : Takes(k) \/ Gives(k)
    BY <1>3
  <2>2. value'[l] = value[l] /\ \A t \in Thread : Owns(t, l)' <=> Owns(t, l)
    BY <2>1 DEF Takes, Gives
  <2> QED
    BY <1>1, <2>2
<1>4. CASE Takes(l)
  <2>1. value'[l] = 0 /\ \A t \in Thread : Owns(t, l)' <=> t = current
    BY <1>1, <1>4 DEF Takes
  <2> QED
    BY <1>1, <2>1
<1>5. CASE Gives(l)
  <2>1. value'[l] = 1 /\ \A t \in Thread : ~Owns(t, l)'
    BY <1>1, <1>5 DEF Gives
  <2> QED
    BY <2>1
<1> QED
  BY <1>2, <1>3, <1>4, <1>5, UnitMoves

(* Places.                                                                 *)

\* What a step leaves to a thread that is not running.
Undisturbed(t) ==
    /\ at'[t] = at[t] /\ lock'[t] = lock[t] /\ donee'[t] = donee[t]
    /\ pc'[t] = pc[t] /\ waiting'[t] = waiting[t]
    /\ donations[t] # <<>> => donations'[t] # <<>>
    /\ \A l \in Lock : Owns(t, l) => holder'[l] = holder[l]

LEMMA UndisturbedAgrees ==
    ASSUME LockTypes, NEW t \in Thread, PlaceAgrees(t), Undisturbed(t)
    PROVE  PlaceAgrees(t)'
<1>1. lock[t] \in Lock \cup {None}
  BY DEF LockTypes
<1>2. at[t] \in {"remove", "base", "max", "clear"} /\ lock[t] # None => holder'[lock[t]] = t
  <2> SUFFICES ASSUME at[t] \in {"remove", "base", "max", "clear"}, lock[t] # None
               PROVE  holder'[lock[t]] = t
    OBVIOUS
  <2>1. lock[t] \in Lock /\ holder[lock[t]] = t
    BY <1>1 DEF PlaceAgrees
  <2> QED
    BY <2>1 DEF Undisturbed, Owns
<1>3. at[t] = "up" => holder'[lock[t]] = None
  <2> SUFFICES ASSUME at[t] = "up" PROVE holder'[lock[t]] = None
    OBVIOUS
  <2>1. lock[t] \in Lock /\ holder[lock[t]] = None
    BY <1>1 DEF PlaceAgrees
  <2> QED
    BY <2>1 DEF Undisturbed, Owns
<1> QED
  BY <1>2, <1>3 DEF Undisturbed, PlaceAgrees

\* Every step of the system leaves all places in agreement, and moves nobody
\* but the running thread.
Settled == PlacesAgree' /\ \A t \in Thread \ {current} : Undisturbed(t)

LEMMA PlacesStay == LInv /\ [LockNext]_allVars => Settled
<1> SUFFICES ASSUME LInv, [LockNext]_allVars PROVE Settled
  OBVIOUS
<1>0. /\ TypeOK /\ LockTypes /\ OneUnit /\ PlacesAgree /\ current \in Thread
      /\ None \notin Thread /\ None \notin Lock /\ Lock \subseteq Sema
      /\ at \in [Thread -> At] /\ lock \in [Thread -> Lock \cup {None}]
      /\ holder \in [Lock -> Thread \cup {None}] /\ value \in [Sema -> 0..MaxValue]
      /\ donations \in [Thread -> Seq(Thread)] /\ donee \in [Thread -> Thread \cup {None}]
      /\ pc \in [Thread -> PcValues] /\ waiting \in [Thread -> Sema \cup {None}]
      /\ priority \in [Thread -> Nat]
  BY Current, LockConstants DEF LockTypes, TypeOK, LInv
<1>c. PICK c \in Thread : c = current
  BY <1>0
<1>p. PlaceAgrees(c) /\ lock[c] \in Lock \cup {None} /\ donee[c] \in Thread \cup {None}
  BY <1>0, <1>c DEF PlacesAgree
<1>goal. ASSUME PlaceAgrees(c)', \A t \in Thread \ {c} : Undisturbed(t) PROVE Settled
  <2> SUFFICES ASSUME NEW t \in Thread PROVE PlaceAgrees(t)'
    BY <1>c, <1>goal DEF PlacesAgree, Settled
  <2>1. PlaceAgrees(t)
    BY <1>0 DEF PlacesAgree
  <2>2. CASE t = c
    BY <1>goal, <2>2
  <2>3. CASE t # c
    BY <1>0, <1>goal, <2>1, <2>3, UndisturbedAgrees
  <2> QED
    BY <2>2, <2>3
\* Only locals of the running thread change.
<1>own. ASSUME UNCHANGED holder, PlaceAgrees(c)',
               \A t \in Thread \ {c} :
                   /\ at'[t] = at[t] /\ lock'[t] = lock[t] /\ donee'[t] = donee[t]
                   /\ pc'[t] = pc[t] /\ waiting'[t] = waiting[t] /\ donations'[t] = donations[t]
        PROVE  Settled
  BY <1>goal, <1>own DEF Undisturbed
<1>1. CASE UNCHANGED allVars
  <2>1. UNCHANGED <<at, lock, donee, pc, waiting, donations, holder>>
    BY <1>1 DEF allVars, vars, lockVars, localVars, threadVars
  <2> QED
    BY <1>0, <2>1 DEF Settled, Undisturbed, PlacesAgree, PlaceAgrees
<1>2. CASE SchedulerStep
  <2>1. UNCHANGED <<at, lock, donee, donations, holder>>
    BY <1>2 DEF SchedulerStep, KeepLocks, lockVars, localVars
  <2>2. /\ \A t \in Thread : t # c \/ at[t] # "out" => pc'[t] = pc[t] /\ waiting'[t] = waiting[t]
        /\ at[c] = "out" /\ pc'[c] = "down" => waiting'[c] \notin Lock
    BY <1>2, <1>c, SchedulerMovesStep DEF SchedulerMoves
  <2>3. \A t \in Thread \ {c} : Undisturbed(t)
    BY <2>1, <2>2 DEF Undisturbed
  <2>4. PlaceAgrees(c)'
    BY <1>p, <2>1, <2>2 DEF PlaceAgrees
  <2> QED
    BY <1>goal, <2>3, <2>4
<1>3. ASSUME NEW l \in Lock, LockAcquire(l) \/ LockRelease(l) PROVE Settled
  <2>1. /\ UNCHANGED <<holder, waiting, donations, donee, pc>> /\ pc[c] = "call"
        /\ lock' = [lock EXCEPT ![c] = l] /\ at[c] = "out"
    BY <1>3, <1>c DEF LockAcquire, LockRelease, Here, vars, threadVars, lockVars
  <2>2. PICK p \in {"down", "test", "remove", "clear"} :
            at' = [at EXCEPT ![c] = p] /\ (p \in {"remove", "clear"} => holder[l] = c)
    BY <1>3, <1>c DEF LockAcquire, LockRelease, To
  <2>3. PlaceAgrees(c)'
    BY <1>0, <2>1, <2>2 DEF PlaceAgrees
  <2> QED
    BY <1>0, <1>own, <2>1, <2>2, <2>3
<1>4. CASE TestHolder
  <2>1. /\ UNCHANGED <<holder, waiting, donations, donee, pc, lock>>
        /\ pc[c] = "call" /\ at[c] = "test"
    BY <1>4, <1>c DEF TestHolder, Here, vars, threadVars
  <2>2. PICK p \in {"down", "insert"} : at' = [at EXCEPT ![c] = p]
    BY <1>4, <1>c DEF TestHolder, To
  <2>3. PlaceAgrees(c)'
    BY <1>0, <1>p, <2>1, <2>2 DEF PlaceAgrees
  <2> QED
    BY <1>0, <1>own, <2>1, <2>2, <2>3
<1>5. CASE InsertDonation
  <2>1. /\ UNCHANGED <<holder, waiting, pc, lock>> /\ pc[c] = "call" /\ at[c] = "insert"
        /\ lock[c] \in Lock
    BY <1>5, <1>c, <1>p DEF InsertDonation, Here, SchedulerVars, PlaceAgrees
  <2>2. CASE UNCHANGED <<donations, donee, at>>
    <3>1. PlaceAgrees(c)'
      BY <1>p, <2>1, <2>2 DEF PlaceAgrees
    <3> QED
      BY <1>0, <1>own, <2>1, <2>2, <3>1
  <2>3. CASE holder[lock[c]] # None
    <3>1. PICK h \in Thread : h = holder[lock[c]]
      BY <1>0, <2>1, <2>3
    <3>2. /\ donations' = [donations EXCEPT ![h] = InsertOrdered(donations[h], c, priority)]
          /\ donee' = [donee EXCEPT ![c] = c] /\ at' = [at EXCEPT ![c] = "donate"]
      BY <1>5, <1>c, <2>3, <3>1 DEF InsertDonation, To
    <3>3. InsertOrdered(donations[h], c, priority) # <<>>
      BY <1>0, InsertOrderedProps
    <3>4. \A t \in Thread : donations[t] # <<>> => donations'[t] # <<>>
      BY <1>0, <3>2, <3>3
    <3>5. \A t \in Thread \ {c} : Undisturbed(t)
      BY <1>0, <2>1, <3>2, <3>4 DEF Undisturbed
    <3>6. PlaceAgrees(c)'
      BY <1>0, <1>p, <2>1, <3>2 DEF PlaceAgrees
    <3> QED
      BY <1>goal, <3>5, <3>6
  <2> QED
    BY <1>5, <1>c, <2>2, <2>3 DEF InsertDonation
<1>6. CASE DonateTurn
  <2>1. /\ UNCHANGED <<holder, waiting, donations, pc, lock>>
        /\ pc[c] = "call" /\ at[c] = "donate"
    BY <1>6, <1>c DEF DonateTurn, Here, SchedulerVars
  <2>2. CASE at' = [at EXCEPT ![c] = "down"] /\ donee' = [donee EXCEPT ![c] = None]
    <3>1. PlaceAgrees(c)'
      BY <1>0, <1>p, <2>1, <2>2 DEF PlaceAgrees
    <3> QED
      BY <1>0, <1>own, <2>1, <2>2, <3>1
  <2>3. CASE UNCHANGED <<donee, at>>
    <3>1. PlaceAgrees(c)'
      BY <1>p, <2>1, <2>3 DEF PlaceAgrees
    <3> QED
      BY <1>0, <1>own, <2>1, <2>3, <3>1
  <2>4. ASSUME UNCHANGED at, NEW d, d # None, donee' = [donee EXCEPT ![c] = d] PROVE Settled
    <3>1. PlaceAgrees(c)'
      BY <1>0, <1>p, <2>1, <2>4 DEF PlaceAgrees
    <3> QED
      BY <1>0, <1>own, <2>1, <2>4, <3>1
  <2> QED
    BY <1>6, <1>c, <2>2, <2>3, <2>4 DEF DonateTurn, To
<1>7. ASSUME TypeOK, NEW l \in Lock, l = lock[c], DownTurn(l), at[c] = "down",
             To(IF value[l] > 0 THEN "took" ELSE "down"),
             UNCHANGED <<holder, lock, donee, donations>>
      PROVE  Settled
  <2>1. value[l] \in Nat /\ l \in Sema
    BY <1>0
  <2>2. /\ \A t \in Thread \ {c} : pc'[t] = pc[t] /\ waiting'[t] = waiting[t]
        /\ value[l] > 0 => pc'[c] = "call"
        /\ value[l] = 0 => pc'[c] = "down" /\ waiting'[c] = l
    BY <1>7, <1>c, <2>1, DownMoves
  <2>3. /\ \A t \in Thread \ {c} : at'[t] = at[t]
        /\ value[l] > 0 => at'[c] = "took"
        /\ value[l] = 0 => at'[c] = "down"
    BY <1>0, <1>7, <1>c, <2>1 DEF To
  <2>4. PlaceAgrees(c)'
    BY <1>0, <1>p, <1>7, <2>1, <2>2, <2>3, SMTT(30) DEF PlaceAgrees
  <2> QED
    BY <1>own, <1>7, <2>2, <2>3, <2>4
<1>8. CASE AcquireDown
  <2>1. /\ UNCHANGED <<holder, lock, donee, donations>> /\ at[c] = "down" /\ DownTurn(lock[c])
        /\ lock[c] \in Lock
    BY <1>8, <1>c, <1>p DEF AcquireDown, Here, lockVars, PlaceAgrees
  <2>2. To(IF value[lock[c]] > 0 THEN "took" ELSE "down")
    BY <1>8, <1>c DEF AcquireDown
  <2> QED
    BY <1>0, <1>7, <2>1, <2>2
<1>9. CASE AcquireResume
  <2>1. /\ UNCHANGED <<holder, lock, donee, donations>> /\ at[c] = "down"
        /\ DownTurn(waiting[c]) /\ waiting[c] = lock[c] /\ lock[c] \in Lock
    BY <1>9, <1>c, <1>p DEF AcquireResume, SemaDownResume, lockVars, PlaceAgrees
  <2>2. To(IF value[lock[c]] > 0 THEN "took" ELSE "down")
    BY <1>9, <1>c, <2>1 DEF AcquireResume
  <2>3. DownTurn(lock[c])
    BY <2>1
  <2> QED
    BY <1>0, <1>7, <2>1, <2>2, <2>3
<1>10. CASE SetHolder
  <2>1. PICK l \in Lock : l = lock[c]
    BY <1>10, <1>c, <1>p DEF SetHolder, Here, PlaceAgrees
  <2>2. /\ UNCHANGED <<waiting, donations, donee, pc>> /\ pc[c] = "call" /\ at[c] = "took"
        /\ holder' = [holder EXCEPT ![l] = c] /\ at' = [at EXCEPT ![c] = "out"]
        /\ lock' = [lock EXCEPT ![c] = None]
    BY <1>10, <1>c, <2>1 DEF SetHolder, Here, Return, To, vars, threadVars
  <2>3. \A t \in Thread \ {c} : ~Owns(t, l)
    BY <1>0, <2>1, <2>2 DEF OneUnit, Owns
  <2>4. \A t \in Thread \ {c} : Undisturbed(t)
    BY <1>0, <2>2, <2>3 DEF Undisturbed
  <2>5. PlaceAgrees(c)'
    BY <1>0, <2>2 DEF PlaceAgrees
  <2> QED
    BY <1>goal, <2>4, <2>5
<1>11. ASSUME NEW l \in Lock, LockTryAcquire(l) PROVE Settled
  <2>1. /\ UNCHANGED <<holder, waiting, donations, donee, pc>> /\ pc[c] = "call"
        /\ lock' = [lock EXCEPT ![c] = l] /\ at' = [at EXCEPT ![c] = "took"]
    BY <1>11, <1>c DEF LockTryAcquire, Here, To, threadVars, lockVars
  <2>2. PlaceAgrees(c)'
    BY <1>0, <2>1 DEF PlaceAgrees
  <2> QED
    BY <1>0, <1>own, <2>1, <2>2
<1>12. CASE RemoveDonation
  <2>1. /\ UNCHANGED <<holder, waiting, donee, pc, lock>> /\ pc[c] = "call" /\ at[c] = "remove"
        /\ at' = [at EXCEPT ![c] = "base"]
    BY <1>12, <1>c DEF RemoveDonation, Here, To, vars, threadVars
  <2>2. \E q : donations' = [donations EXCEPT ![c] = q]
    BY <1>12, <1>c DEF RemoveDonation
  <2>3. PlaceAgrees(c)'
    BY <1>0, <1>p, <2>1 DEF PlaceAgrees
  <2> QED
    BY <1>0, <1>own, <2>1, <2>2, <2>3
<1>13. ASSUME NEW p \in Pri, SetBasePriority(p) PROVE Settled
  <2>1. /\ UNCHANGED <<holder, waiting, donations, donee, pc, lock>>
        /\ pc[c] = "call" /\ at[c] = "out" /\ at' = [at EXCEPT ![c] = "base"]
    BY <1>13, <1>c DEF SetBasePriority, Here, To, vars, threadVars
  <2>2. PlaceAgrees(c)'
    BY <1>0, <1>p, <2>1 DEF PlaceAgrees
  <2> QED
    BY <1>0, <1>own, <2>1, <2>2
\* The end of re_priority.
<1>14. ASSUME UNCHANGED <<holder, waiting, donee, lock>>, at[c] \in {"base", "max"},
              pc[c] = "call", \A t \in Thread \ {c} : donations'[t] = donations[t], Restored
       PROVE  Settled
  <2>1. CASE lock[c] = None
    <3>1. pc' = [pc EXCEPT ![c] = "compare"] /\ at' = [at EXCEPT ![c] = "out"]
      BY <1>14, <1>c, <2>1 DEF Restored, Goto, To
    <3>2. PlaceAgrees(c)'
      BY <1>0, <1>14, <2>1, <3>1 DEF PlaceAgrees
    <3> QED
      BY <1>0, <1>own, <1>14, <3>1, <3>2
  <2>2. CASE lock[c] # None
    <3>1. pc' = pc /\ at' = [at EXCEPT ![c] = "clear"]
      BY <1>14, <1>c, <2>2 DEF Restored, To
    <3>2. PlaceAgrees(c)'
      BY <1>0, <1>p, <1>14, <2>2, <3>1 DEF PlaceAgrees
    <3> QED
      BY <1>0, <1>own, <1>14, <3>1, <3>2
  <2> QED
    BY <2>1, <2>2
<1>15. CASE RestoreBase
  <2>1. /\ UNCHANGED <<holder, waiting, donations, donee, lock>>
        /\ pc[c] = "call" /\ at[c] = "base"
    BY <1>15, <1>c DEF RestoreBase, Here, SchedulerVars, lockVars
  <2>2. CASE donations[c] = <<>>
    <3>1. Restored
      BY <1>15, <1>c, <2>2 DEF RestoreBase
    <3> QED
      BY <1>14, <2>1, <3>1
  <2>3. CASE donations[c] # <<>>
    <3>1. pc' = pc /\ at' = [at EXCEPT ![c] = "max"]
      BY <1>15, <1>c, <2>3 DEF RestoreBase, To
    <3>2. PlaceAgrees(c)'
      BY <1>0, <1>p, <2>1, <2>3, <3>1 DEF PlaceAgrees
    <3> QED
      BY <1>0, <1>own, <2>1, <3>1, <3>2
  <2> QED
    BY <2>2, <2>3
<1>16. CASE RestoreMax
  <2>1. /\ UNCHANGED <<holder, waiting, donee, lock>>
        /\ pc[c] = "call" /\ at[c] = "max" /\ Restored
    BY <1>16, <1>c DEF RestoreMax, Here, SchedulerVars
  <2>2. \E q : donations' = [donations EXCEPT ![c] = q]
    BY <1>16, <1>c DEF RestoreMax
  <2>3. \A t \in Thread \ {c} : donations'[t] = donations[t]
    BY <1>0, <2>2
  <2> QED
    BY <1>14, <2>1, <2>3
<1>17. CASE ClearHolder
  <2>1. PICK l \in Lock : l = lock[c]
    BY <1>17, <1>c, <1>p DEF ClearHolder, Here, PlaceAgrees
  <2>2. /\ UNCHANGED <<waiting, donations, donee, pc, lock>> /\ pc[c] = "call" /\ at[c] = "clear"
        /\ holder' = [holder EXCEPT ![l] = None] /\ at' = [at EXCEPT ![c] = "up"]
        /\ holder[l] = c
    BY <1>17, <1>c, <1>p, <2>1 DEF ClearHolder, Here, To, vars, threadVars, PlaceAgrees
  <2>3. \A t \in Thread \ {c} : ~Owns(t, l)
    BY <1>0, <2>2 DEF OneUnit, Owns
  <2>4. \A t \in Thread \ {c} : Undisturbed(t)
    BY <1>0, <2>2, <2>3 DEF Undisturbed
  <2>5. PlaceAgrees(c)'
    BY <1>0, <2>1, <2>2 DEF PlaceAgrees
  <2> QED
    BY <1>goal, <2>4, <2>5
<1>18. CASE ReleaseUp
  <2>1. /\ UNCHANGED <<holder, waiting, donations, donee, pc>> /\ pc[c] = "call"
        /\ lock' = [lock EXCEPT ![c] = None] /\ at' = [at EXCEPT ![c] = "out"]
    BY <1>18, <1>c DEF ReleaseUp, Here, Return, To, threadVars, lockVars
  <2>2. PlaceAgrees(c)'
    BY <1>0, <2>1 DEF PlaceAgrees
  <2> QED
    BY <1>0, <1>own, <2>1, <2>2
<1> QED
  BY <1>1, <1>2, <1>3, <1>4, <1>5, <1>6, <1>8, <1>9, <1>10, <1>11, <1>12, <1>13, <1>15,
     <1>16, <1>17, <1>18
  DEF LockNext, AcquireNext, ReleaseNext
-----------------------------------------------------------------------------
(* The results.                                                            *)

\* The inductive invariant.
THEOREM LockInvariance == LockSpec => []LInv
<1>1. LInv /\ [LockNext]_allVars => LInv'
  BY SchedulerKept, LockTypesKept, PlacesStay, OneUnitKept DEF LInv, Settled
<1> QED
  BY <1>1, LockInitInv, PTL DEF LockSpec

\* The variables of the lock functions keep their types, whatever is called and
\* interrupted.
THEOREM LocksTyping == LockSpec => []LockTypeOK
<1>1. LInv => LockTypeOK
  BY DEF LInv, IInv, LockTypes, LockTypeOK
<1> QED
  BY <1>1, LockInvariance, PTL

LEMMA OneOwnerOfUnit == LInv => OneOwner
<1> SUFFICES ASSUME LInv, NEW l \in Lock PROVE value[l] + Cardinality(Owners(l)) = 1
  BY DEF OneOwner
<1>1. /\ value[l] \in {0, 1}
      /\ value[l] = 1 => \A t \in Thread : ~Owns(t, l)
      /\ value[l] = 0 => \E t \in Thread : Owns(t, l)
      /\ \A t, u \in Thread : Owns(t, l) /\ Owns(u, l) => t = u
  BY DEF LInv, OneUnit
<1>2. CASE value[l] = 1
  <2>1. Owners(l) = {}
    BY <1>1, <1>2 DEF Owners
  <2> QED
    BY <1>2, <2>1, FS_EmptySet
<1>3. CASE value[l] = 0
  <2>1. PICK t \in Thread : Owns(t, l)
    BY <1>1, <1>3
  <2>2. Owners(l) = {t}
    BY <1>1, <2>1 DEF Owners
  <2> QED
    BY <1>3, <2>2, FS_Singleton, SMTT(30)
<1> QED
  BY <1>1, <1>2, <1>3

\* lock_acquire and lock_release may be preempted between any two of their
\* statements: the unit of the semaphore is in it or with exactly one thread.
THEOREM LocksHaveOneOwner == LockSpec => []OneOwner
  BY OneOwnerOfUnit, LockInvariance, PTL

\* What the step does to the unit of a lock is a step of the mutex.
Owned == [l \in Lock |-> Owners(l)]

LEMMA MutexInit == LockInit => MU!Init
<1> SUFFICES ASSUME LockInit PROVE Owned = [l \in Lock |-> {}]
  BY DEF MU!Init, Owned
<1>1. \A l \in Lock : Owners(l) = {}
  BY LockConstants DEF LockInit, Owners, Owns
<1> QED
  BY <1>1 DEF Owned

LEMMA MutexStep ==
    ASSUME LInv, Kept \/ \E l \in Lock : Takes(l) \/ Gives(l)
    PROVE  [MU!Next]_Owned
<1>1. \A l \in Lock : /\ value[l] > 0 => Owners(l) = {}
                      /\ \A t \in Thread : Owns(t, l) => Owners(l) = {t}
  BY DEF LInv, OneUnit, Owners
<1>2. current \in Thread
  BY Current
<1> USE DEF Owned
<1>3. CASE Kept
  <2>1. \A l \in Lock : Owners(l)' = Owners(l)
    BY <1>3 DEF Kept, Owners
  <2> QED
    BY <2>1
<1>4. ASSUME NEW l \in Lock, Takes(l) PROVE MU!Take(current, l)
  <2>1. Owned[l] = {} /\ Owners(l) = {}
    BY <1>1, <1>4 DEF Takes
  <2>2. Owners(l)' = {current}
    BY <1>2, <1>4, <2>1 DEF Takes, Owners
  <2>3. \A k \in Lock \ {l} : Owners(k)' = Owners(k)
    BY <1>4 DEF Takes, Owners
  <2>4. Owned' = [Owned EXCEPT ![l] = {current}]
    BY <2>2, <2>3
  <2> QED
    BY <2>1, <2>4 DEF MU!Take
<1>5. ASSUME NEW l \in Lock, Gives(l) PROVE MU!Give(current, l)
  <2>1. Owned[l] = {current} /\ Owners(l) = {current}
    BY <1>1, <1>2, <1>5 DEF Gives
  <2>2. Owners(l)' = {}
    BY <1>2, <1>5, <2>1 DEF Gives, Owners
  <2>3. \A k \in Lock \ {l} : Owners(k)' = Owners(k)
    BY <1>5 DEF Gives, Owners
  <2>4. Owned' = [Owned EXCEPT ![l] = {}]
    BY <2>2, <2>3
  <2> QED
    BY <2>1, <2>4 DEF MU!Give
<1> QED
  BY <1>2, <1>3, <1>4, <1>5 DEF MU!Next

\* lock_init: a lock is owned by one thread at a time, a free lock is taken by
\* one thread, and only its owner gives it back.
THEOREM LocksAreMutex == LockSpec => ImplementsMutex
<1>1. LInv /\ [LockNext]_allVars => [MU!Next]_Owned
  BY UnitMoves, MutexStep
<1> QED
  BY <1>1, MutexInit, LockInvariance, PTL DEF LockSpec, ImplementsMutex, MU!Spec, Owned
-----------------------------------------------------------------------------
(* Condition variables.                                                    *)

\* The places of lock_release and of lock_acquire.
Releasing == {"remove", "base", "max", "clear", "up"}
Acquiring == {"test", "insert", "donate", "down", "took"}

CondTypes == /\ cond_waiters \in Seq(Worker)
             /\ stage \in [Worker -> {"no", "release", "down", "reacquire", "broadcast"}]

\* The place of t in the condition's functions agrees with its place in the
\* lock's and in sema_down, and nobody else is in sema_down of its semaphore.
StageAgrees(t) ==
    /\ stage[t] \in {"down", "broadcast"} => at[t] = "out"
    /\ stage[t] # "no" /\ at[t] = "out" =>
         pc[t] = "call" \/ (stage[t] = "down" /\ pc[t] = "down")
    /\ stage[t] = "down" /\ pc[t] = "down" => waiting[t] = ElemSema[t]
    /\ stage[t] = "release" /\ at[t] # "out" => at[t] \in Releasing /\ lock[t] = Cond
    /\ stage[t] = "reacquire" /\ at[t] # "out" => at[t] \in Acquiring /\ lock[t] = Cond
    /\ \A u \in Thread : waiting[u] = ElemSema[t] => u = t /\ stage[t] = "down" /\ pc[t] = "down"
StagesAgree == \A t \in Worker : StageAgrees(t)

CInv == LInv /\ CondTypes /\ StagesAgree /\ CondUnderLock /\ WaitersAreInWait /\ SignalIsKept

LEMMA CondConstants ==
    /\ Cond \in Lock /\ Lock \subseteq Sema /\ Cond # None
    /\ Worker \subseteq Thread /\ None \notin Worker
    /\ \A t \in Worker : ElemSema[t] \in Sema \ Lock /\ ElemSema[t] # None
    /\ \A t, u \in Worker : ElemSema[t] = ElemSema[u] => t = u
BY CondAssumption, SemaAssumption, ThreadAssumption, WorkerAssumption DEF Lock

\* sema_init of a semaphore nobody waits for.
LEMMA SemaInitStep ==
    ASSUME IInv, NEW s \in Sema, value' = [value EXCEPT ![s] = 0],
           UNCHANGED <<threadVars, cpuVars, waiters, intrVars, pc, sleep_list, panic>>
    PROVE  IInv'
<1>1. TypeOK /\ CpuInv
  BY IInvParts
<1>2. UNCHANGED <<priority, awake, waiting, child, current, status, ready_list, destruction_req,
                  thread_ticks, waiters, cursor, yield_on_return, pc, sleep_list, panic>>
  BY DEF threadVars, cpuVars, intrVars
<1>3. value' \in [Sema -> 0..MaxValue]
  BY <1>1, SemaAssumption DEF TypeOK
<1>4. TypeOK'
  BY <1>1, <1>2, <1>3 DEF TypeOK
<1>5. CpuInv' /\ Frame(status) /\ PlacesKept
  BY <1>1, <1>2 DEF CpuInv, Cpu, Queued, Doomed, Frame, PlacesKept, TypeOK
<1>6. Links'
  BY <1>2, <1>5, QuietStep
<1> QED
  BY <1>4, <1>5, <1>6, IInvNext

\* A step outside the locks' functions that leaves their semaphores alone.
LEMMA OutsideStep ==
    ASSUME LInv, UNCHANGED <<lockVars, localVars>>, \A l \in Lock : value'[l] = value[l],
           \A t \in Thread \ {current} : pc'[t] = pc[t] /\ waiting'[t] = waiting[t],
           at[current] = "out", pc'[current] = "down" => waiting'[current] \notin Lock
    PROVE  LockTypes' /\ Settled /\ OneUnit'
<1>1. /\ LockTypes /\ OneUnit /\ current \in Thread /\ PlacesAgree
      /\ UNCHANGED <<holder, wait_on_lock, init_priority, donations, at, lock, donee, depth>>
  BY Current DEF lockVars, localVars, LInv
<1>2. LockTypes'
  BY <1>1 DEF LockTypes
<1>u. OneUnit'
  BY <1>1 DEF OneUnit, Owns
<1>3. \A t \in Thread \ {current} : Undisturbed(t)
  BY <1>1 DEF Undisturbed
<1>4. PlaceAgrees(current)
  BY <1>1 DEF PlacesAgree
<1>5. PICK c \in Thread : c = current
  BY <1>1
<1>6. PlaceAgrees(c)'
  BY <1>1, <1>4, <1>5 DEF PlaceAgrees
<1>7. PlacesAgree'
  <2> SUFFICES ASSUME NEW t \in Thread PROVE PlaceAgrees(t)'
    BY DEF PlacesAgree
  <2> QED
    BY <1>1, <1>3, <1>5, <1>6, UndisturbedAgrees DEF PlacesAgree
<1> QED
  BY <1>2, <1>u, <1>3, <1>7 DEF Settled

\* cond_wait's calls of lock_release and of lock_acquire.
LEMMA EnterLock ==
    ASSUME LInv, NEW l \in Lock, NEW p \in {"test", "down", "remove", "clear"},
           at[current] = "out", pc[current] = "call",
           p \in {"remove", "clear"} => holder[l] = current,
           at' = [at EXCEPT ![current] = p], lock' = [lock EXCEPT ![current] = l],
           UNCHANGED <<lockVars, donee, depth, pc, waiting>>,
           \A k \in Lock : value'[k] = value[k]
    PROVE  LockTypes' /\ Settled /\ OneUnit'
<1>1. /\ LockTypes /\ OneUnit /\ current \in Thread /\ PlacesAgree /\ None \notin Lock
      /\ UNCHANGED <<holder, wait_on_lock, init_priority, donations>>
      /\ at \in [Thread -> At] /\ lock \in [Thread -> Lock \cup {None}]
  BY Current, LockConstants DEF lockVars, LInv, LockTypes
<1>2. PICK c \in Thread : c = current
  BY <1>1
<1>3. /\ at'[c] = p /\ lock'[c] = l
      /\ \A t \in Thread \ {c} : at'[t] = at[t] /\ lock'[t] = lock[t]
  BY <1>1, <1>2
<1>4. LockTypes'
  BY <1>1 DEF LockTypes, At
<1>5. \A t \in Thread, k \in Lock : Owns(t, k)' <=> Owns(t, k)
  BY <1>1, <1>2, <1>3 DEF Owns
<1>6. OneUnit'
  BY <1>1, <1>5 DEF OneUnit
<1>7. \A t \in Thread \ {c} : Undisturbed(t)
  BY <1>1, <1>3 DEF Undisturbed
<1>8. PlaceAgrees(c)'
  BY <1>1, <1>2, <1>3 DEF PlaceAgrees
<1>9. PlacesAgree'
  <2> SUFFICES ASSUME NEW t \in Thread PROVE PlaceAgrees(t)'
    BY DEF PlacesAgree
  <2> QED
    BY <1>1, <1>7, <1>8, UndisturbedAgrees DEF PlacesAgree
<1> QED
  BY <1>2, <1>4, <1>6, <1>7, <1>9 DEF Settled

\* What the proofs below may assume of a state.
LEMMA CondState ==
    ASSUME CInv
    PROVE  /\ TypeOK /\ IInv /\ LInv /\ LockTypes /\ PlacesAgree /\ OneUnit /\ CondTypes
           /\ StagesAgree /\ CondUnderLock /\ WaitersAreInWait /\ SignalIsKept
           /\ current \in Thread /\ PlaceAgrees(current)
           /\ value \in [Sema -> 0..MaxValue] /\ waiters \in [Sema -> Seq(Thread)]
           /\ pc \in [Thread -> PcValues] /\ waiting \in [Thread -> Sema \cup {None}]
           /\ at \in [Thread -> At] /\ lock \in [Thread -> Lock \cup {None}]
           /\ holder \in [Lock -> Thread \cup {None}]
           /\ cond_waiters \in Seq(Worker)
           /\ stage \in [Worker -> {"no", "release", "down", "reacquire", "broadcast"}]
<1>1. LInv /\ CondTypes /\ StagesAgree /\ CondUnderLock /\ WaitersAreInWait /\ SignalIsKept
  BY DEF CInv
<1>2. TypeOK /\ IInv /\ LockTypes /\ PlacesAgree /\ OneUnit /\ current \in Thread
  BY <1>1, Current DEF LInv
<1> QED
  BY <1>1, <1>2 DEF TypeOK, LockTypes, CondTypes, PlacesAgree

LEMMA KeyTypes == Keys \subseteq [Worker -> Nat]
<1>1. ASSUME NEW g \in Garbage PROVE g \in Nat
  <2>1. Pri \subseteq Nat
    BY NumberAssumption
  <2>2. CASE g \in {0} \cup Pri
    BY <2>1, <2>2
  <2>3. CASE g \in {p + 1 : p \in Pri}
    BY <2>1, <2>3
  <2> QED
    BY <2>2, <2>3 DEF Garbage
<1>2. ASSUME NEW key \in Keys PROVE key \in [Worker -> Nat]
  <2>1. key \in [Worker -> Garbage]
    BY DEF Keys
  <2> QED
    BY <1>1, <2>1
<1> QED
  BY <1>2

\* Nobody is in sema_down of the semaphore of a thread outside cond_wait.
LEMMA NoWaiter ==
    ASSUME CInv, NEW t \in Worker, stage[t] = "no"
    PROVE  waiters[ElemSema[t]] = <<>>
<1>1. PICK s \in Sema : s = ElemSema[t]
  BY CondConstants
<1>2. /\ waiters[s] \in Seq(Thread) /\ NoRepeat(waiters[s])
      /\ \A u \in Range(waiters[s]) : u \in Thread => waiting[u] = s
  BY CondState DEF IInv, ListsMatchStatus, WaitersAreBlocked
<1>3. \A u \in Thread : waiting[u] # s
  BY <1>1, CondState DEF StagesAgree, StageAgrees
<1>4. waiters[s] = <<>>
  <2> SUFFICES ASSUME waiters[s] # <<>> PROVE FALSE
    OBVIOUS
  <2>1. Head(waiters[s]) \in Thread /\ Head(waiters[s]) \in Range(waiters[s])
    BY <1>2, TailProps
  <2> QED
    BY <1>2, <1>3, <2>1
<1> QED
  BY <1>1, <1>4

\* cond_signal takes one thread off the list and ups its semaphore.
LEMMA SignalTakes ==
    ASSUME CInv, Signal, cond_waiters # <<>>
    PROVE  \E t \in Worker :
               /\ t \in Range(cond_waiters)
               /\ cond_waiters' \in Seq(Worker) /\ NoRepeat(cond_waiters')
               /\ Range(cond_waiters') = Range(cond_waiters) \ {t}
               /\ Up(ElemSema[t], FALSE)
<1>1. cond_waiters \in Seq(Worker) /\ NoRepeat(cond_waiters)
  BY CondState DEF WaitersAreInWait
<1>k. PICK key \in Keys : \E q \in SortedOf(cond_waiters, key) :
          cond_waiters' = Tail(q) /\ Up(ElemSema[Head(q)], FALSE)
  BY DEF Signal
<1>2. PICK q \in SortedOf(cond_waiters, key) :
          cond_waiters' = Tail(q) /\ Up(ElemSema[Head(q)], FALSE)
  BY <1>k
<1>3. key \in [Worker -> Nat]
  BY KeyTypes
<1>4. q \in Seq(Worker) /\ NoRepeat(q) /\ Range(q) = Range(cond_waiters) /\ q # <<>>
  BY <1>1, <1>3, SortedOfProps
<1>5. /\ Head(q) \in Worker /\ Head(q) \in Range(q)
      /\ Tail(q) \in Seq(Worker) /\ NoRepeat(Tail(q)) /\ Range(Tail(q)) = Range(q) \ {Head(q)}
  BY <1>4, TailProps
<1> QED
  BY <1>2, <1>4, <1>5

\* The steps that are Locks'.
LEMMA CallsOfLocks == ~panic /\ ~Relinked /\ (OwnCall \/ InsideStep) => LockNext
  BY DEF OwnCall, InsideStep, LockNext, AcquireNext, ReleaseNext, SchedulerStep, SchedulerCall

\* What the locks and the scheduler keep is kept by the condition's functions,
\* and no step moves a thread that is not running.
LEMMA CondKeepsLocks ==
    ASSUME CInv, [CondNext]_everyVar
    PROVE  LInv' /\ \A t \in Thread \ {current} : Undisturbed(t)
<1>0. /\ TypeOK /\ IInv /\ LInv /\ current \in Thread
      /\ value \in [Sema -> 0..MaxValue]
  BY CondState
<1>parts. ASSUME IInv', LockTypes' /\ Settled /\ OneUnit'
          PROVE  LInv' /\ \A t \in Thread \ {current} : Undisturbed(t)
  BY <1>parts DEF LInv, Settled
<1>1. ASSUME [LockNext]_allVars PROVE LInv' /\ \A t \in Thread \ {current} : Undisturbed(t)
  <2>1. IInv' /\ LockTypes' /\ Settled /\ OneUnit'
    BY <1>0, <1>1, SchedulerKept, LockTypesKept, PlacesStay, OneUnitKept
  <2> QED
    BY <1>parts, <2>1
<1>2. CASE CondWait
  <2>1. /\ current \in Worker /\ at[current] = "out" /\ pc[current] = "call"
        /\ holder[Cond] = current /\ stage[current] = "no"
    BY <1>2 DEF CondWait, HoldsCond, Between, Here
  <2>2. ElemSema[current] \in Sema \ Lock
    BY <2>1, CondConstants
  <2>3. /\ value' = [value EXCEPT ![ElemSema[current]] = 0]
        /\ lock' = [lock EXCEPT ![current] = Cond]
        /\ UNCHANGED <<threadVars, cpuVars, intrVars, pc, sleep_list, panic, lockVars,
                       donee, depth>>
    BY <1>2 DEF CondWait
  <2>4. waiters' = waiters
    BY <1>2, <2>1, <2>2, NoWaiter, CondState DEF CondWait
  <2>5. IInv'
    BY <1>0, <2>2, <2>3, <2>4, SemaInitStep
  <2>6. PICK p \in {"remove", "clear"} : at' = [at EXCEPT ![current] = p]
    BY <1>2 DEF CondWait, To
  <2>7. \A k \in Lock : value'[k] = value[k]
    BY <1>0, <2>2, <2>3, CondConstants
  <2>8. LockTypes' /\ Settled /\ OneUnit'
    <3>1. waiting' = waiting /\ Cond \in Lock
      BY <2>3, CondConstants DEF threadVars
    <3> QED
      BY <1>0, <2>1, <2>3, <2>6, <2>7, <3>1, EnterLock
  <2> QED
    BY <1>parts, <2>5, <2>8
<1>3. CASE CondDown
  <2>1. /\ current \in Worker /\ at[current] = "out" /\ pc[current] = "call"
        /\ DownTurn(ElemSema[current])
        /\ UNCHANGED <<priority, awake, child, sleep_list, intrVars, panic, lockVars, localVars>>
    BY <1>3 DEF CondDown, Between, Here
  <2>2. PICK s \in Sema \ Lock : s = ElemSema[current]
    BY <2>1, CondConstants
  <2>3. IInv'
    BY <1>0, <2>1, <2>2, DownStep
  <2>4. value[s] \in Nat /\ s \in Sema /\ DownTurn(s)
    BY <1>0, <2>1, <2>2
  <2>5. /\ \A k \in Lock : value'[k] = value[k]
        /\ \A t \in Thread \ {current} : pc'[t] = pc[t] /\ waiting'[t] = waiting[t]
        /\ pc'[current] = "down" => waiting'[current] \notin Lock
    BY <1>0, <2>4, DownMoves, CondConstants
  <2>6. LockTypes' /\ Settled /\ OneUnit'
    BY <1>0, <2>1, <2>5, OutsideStep
  <2> QED
    BY <1>parts, <2>3, <2>6
<1>4. CASE CondReacquire
  <2>1. /\ at[current] = "out" /\ pc[current] = "call"
        /\ lock' = [lock EXCEPT ![current] = Cond]
        /\ UNCHANGED <<vars, lockVars, donee, depth>>
    BY <1>4 DEF CondReacquire, Between, Here
  <2>2. PICK p \in {"test", "down"} : at' = [at EXCEPT ![current] = p]
    BY <1>4 DEF CondReacquire, To
  <2>3. IInv'
    BY <1>0, <2>1, NextInv
  <2>4. UNCHANGED <<pc, waiting, value>> /\ Cond \in Lock
    BY <2>1, CondConstants DEF vars, threadVars, semaVars
  <2>5. LockTypes' /\ Settled /\ OneUnit'
    BY <1>0, <2>1, <2>2, <2>4, EnterLock
  <2> QED
    BY <1>parts, <2>3, <2>5
<1>5. ASSUME Signal, current \in Worker, at[current] = "out", pc[current] = "call"
      PROVE  LInv' /\ \A t \in Thread \ {current} : Undisturbed(t)
  <2>1. UNCHANGED <<threadVars, intrVars, pc, sleep_list, lockVars, localVars>>
    BY <1>5 DEF Signal
  <2>2. ASSUME IInv', \A k \in Lock : value'[k] = value[k]
        PROVE  LockTypes' /\ Settled /\ OneUnit'
    <3>1. UNCHANGED <<pc, waiting>>
      BY <2>1 DEF threadVars
    <3> QED
      BY <1>0, <1>5, <2>1, <2>2, <3>1, OutsideStep
  <2>3. CASE cond_waiters = <<>>
    <3>1. panic' = TRUE /\ UNCHANGED <<cpuVars, semaVars>>
      BY <1>5, <2>3 DEF Signal
    <3>2. PlacesKept /\ UNCHANGED <<priority, SchedulerVars>>
      BY <1>0, <2>1, <3>1 DEF PlacesKept, TypeOK, SchedulerVars, threadVars
    <3>3. IInv'
      BY <1>0, <3>1, <3>2, PriorityStep DEF TypeOK
    <3>4. value' = value
      BY <3>1 DEF semaVars
    <3> QED
      BY <1>parts, <2>2, <3>3, <3>4
  <2>4. CASE cond_waiters # <<>>
    <3>1. PICK t \in Worker : Up(ElemSema[t], FALSE)
      BY <1>5, <2>4, SignalTakes
    <3>2. PICK s \in Sema \ Lock : s = ElemSema[t]
      BY CondConstants
    <3>3. Up(s, FALSE) /\ panic' = panic
      BY <1>5, <2>4, <3>1, <3>2 DEF Signal
    <3>4. IInv'
      BY <1>0, <2>1, <3>3, UpStep
    <3>5. \A k \in Lock : value'[k] = value[k]
      BY <1>0, <3>3, UpMoves, CondConstants
    <3> QED
      BY <1>parts, <2>2, <3>4, <3>5
  <2> QED
    BY <2>3, <2>4
<1>6. CASE CondSignal \/ BroadcastTurn
  <2>1. CASE Signal
    <3>1. current \in Worker /\ at[current] = "out" /\ pc[current] = "call"
      BY <1>6 DEF CondSignal, BroadcastTurn, HoldsCond, Between, Here
    <3> QED
      BY <1>5, <2>1, <3>1
  <2>2. CASE UNCHANGED allVars
    BY <1>1, <2>2
  <2> QED
    BY <1>6, <2>1, <2>2 DEF CondSignal, BroadcastTurn
<1>7. CASE CondReturn \/ CondBroadcast
  BY <1>1, <1>7 DEF CondReturn, CondBroadcast
<1>8. ASSUME ~panic, ~Relinked, OwnCall \/ InsideStep
      PROVE  LInv' /\ \A t \in Thread \ {current} : Undisturbed(t)
  BY <1>1, <1>8, CallsOfLocks
<1>9. CASE UNCHANGED everyVar
  BY <1>1, <1>9 DEF everyVar
<1> QED
  BY <1>2, <1>3, <1>4, <1>6, <1>7, <1>8, <1>9 DEF CondNext, CondStep
-----------------------------------------------------------------------------
(* The threads' own semaphores.                                            *)

ElemsStill == \A t \in Worker : /\ value'[ElemSema[t]] = value[ElemSema[t]]
                                /\ waiting'[current] # ElemSema[t]

\* Outside cond_wait's sema_down a thread neither touches nor waits for them.
LEMMA ElemsStay ==
    ASSUME CInv, OwnCall \/ InsideStep, \A t \in Worker : waiting[current] # ElemSema[t]
    PROVE  ElemsStill
<1>0. /\ TypeOK /\ current \in Thread /\ PlaceAgrees(current) /\ LockTypes /\ None \notin Lock
      /\ value \in [Sema -> 0..MaxValue]
      /\ waiting \in [Thread -> Sema \cup {None}] /\ Lock \subseteq Sema
      /\ pc \in [Thread -> PcValues]
      /\ lock[current] \in Lock \cup {None}
  BY CondState, CondConstants, LockConstants DEF LockTypes
<1>e. \A t \in Worker : ElemSema[t] \in Sema \ Lock /\ ElemSema[t] # None
  BY CondConstants
<1>1. ASSUME UNCHANGED <<value, waiting>> PROVE ElemsStill
  BY <1>1 DEF ElemsStill
<1>2. ASSUME NEW s \in Sema, s \notin ElemSemas, DownTurn(s) PROVE ElemsStill
  <2>1. \A t \in Worker : ElemSema[t] \in Sema \ {s}
    BY <1>2, <1>e DEF ElemSemas
  <2>2. waiting'[current] \in {s, None}
    BY <1>0, <1>2 DEF DownTurn
  <2>3. \A k \in Sema \ {s} : value'[k] = value[k]
    BY <1>0, <1>2, DownMoves
  <2> QED
    BY <1>e, <2>1, <2>2, <2>3 DEF ElemsStill
<1>l. \A l \in Lock : l \in Sema /\ l \notin ElemSemas
  BY <1>0, <1>e DEF ElemSemas
<1>3. ASSUME NEW s \in Sema, s \notin ElemSemas, Up(s, FALSE), UNCHANGED waiting
      PROVE  ElemsStill
  <2>1. \A t \in Worker : ElemSema[t] \in Sema \ {s}
    BY <1>3, <1>e DEF ElemSemas
  <2>2. \A k \in Sema \ {s} : value'[k] = value[k]
    BY <1>0, <1>3, UpMoves
  <2> QED
    BY <1>3, <2>1, <2>2 DEF ElemsStill
<1>4. ASSUME NEW l \in Lock, LockAcquire(l) \/ LockRelease(l) PROVE ElemsStill
  <2>1. UNCHANGED <<value, waiting>>
    BY <1>4 DEF LockAcquire, LockRelease, vars, semaVars, threadVars
  <2> QED
    BY <1>1, <2>1
<1>5. ASSUME NEW s \in Sema \ (Lock \cup ElemSemas), SemaDown(s) PROVE ElemsStill
  BY <1>2, <1>5 DEF SemaDown
<1>6. ASSUME NEW s \in Sema \ (Lock \cup ElemSemas), SemaUp(s) PROVE ElemsStill
  BY <1>3, <1>6 DEF SemaUp, threadVars
<1>7. CASE SleepNext \/ ThreadYield \/ CompareEmpty \/ CompareFront \/ CompareYield
  <2>1. UNCHANGED <<value, waiting>>
    BY <1>7 DEF SleepNext, ThreadSleep, TimerSleep, ThreadYield, CompareEmpty, CompareFront,
                CompareYield, threadVars, semaVars
  <2> QED
    BY <1>1, <2>1
<1>8. CASE TestHolder \/ SetHolder \/ RemoveDonation \/ ClearHolder
  <2>1. UNCHANGED <<value, waiting>>
    BY <1>8 DEF TestHolder, SetHolder, RemoveDonation, ClearHolder, vars, semaVars, threadVars
  <2> QED
    BY <1>1, <2>1
<1>9. CASE InsertDonation \/ DonateTurn \/ RestoreBase \/ RestoreMax
  <2>1. UNCHANGED <<value, waiting>>
    BY <1>9 DEF InsertDonation, DonateTurn, RestoreBase, RestoreMax, SchedulerVars, semaVars
  <2> QED
    BY <1>1, <2>1
<1>10. CASE AcquireDown
  <2>1. DownTurn(lock[current]) /\ lock[current] \in Lock
    BY <1>0, <1>10 DEF AcquireDown, Here, PlaceAgrees
  <2> QED
    BY <1>2, <1>l, <2>1
<1>11. CASE AcquireResume \/ SemaDownResume
  <2>1. pc[current] = "down" /\ DownTurn(waiting[current])
    BY <1>11 DEF AcquireResume, SemaDownResume
  <2>2. waiting[current] \in Sema
    BY <1>0, <2>1, CondState DEF IInv, PlaceMatches
  <2>3. waiting[current] \notin ElemSemas
    BY DEF ElemSemas
  <2> QED
    BY <1>2, <2>1, <2>2, <2>3
<1>12. CASE ReleaseUp
  <2>1. Up(lock[current], FALSE) /\ lock[current] \in Lock /\ UNCHANGED waiting
    BY <1>0, <1>12 DEF ReleaseUp, Here, PlaceAgrees, threadVars
  <2> QED
    BY <1>3, <1>l, <2>1
<1>13. CASE TimerInterrupt \/ ThreadAwake \/ InterruptReturn \/ IdleLoop
  <2>1. UNCHANGED <<value, waiting>>
    BY <1>13 DEF TimerInterrupt, ThreadAwake, InterruptReturn, IdleLoop, threadVars, semaVars
  <2> QED
    BY <1>1, <2>1
<1> QED
  BY <1>4, <1>5, <1>6, <1>7, <1>8, <1>9, <1>10, <1>11, <1>12, <1>13
  DEF OwnCall, InsideStep, SchedulerCall

\* In it, it goes around the loop or is interrupted.
LEMMA ElemDown ==
    ASSUME CInv, OwnCall \/ InsideStep, NEW t \in Worker, waiting[current] = ElemSema[t]
    PROVE  /\ t = current /\ stage[current] = "down" /\ pc[current] = "down"
           /\ at[current] = "out" /\ UNCHANGED <<at, lock, holder>>
           /\ DownTurn(ElemSema[current]) \/ UNCHANGED <<value, waiting, pc>>
<1>1. t = current /\ stage[current] = "down" /\ pc[current] = "down" /\ at[current] = "out"
  BY CondState DEF StagesAgree, StageAgrees
<1>2. CASE SemaDownResume /\ KeepLocks
  BY <1>1, <1>2 DEF SemaDownResume, KeepLocks, lockVars, localVars
<1>3. CASE (ThreadAwake \/ InterruptReturn) /\ KeepLocks
  BY <1>1, <1>3 DEF ThreadAwake, InterruptReturn, KeepLocks, lockVars, localVars, threadVars,
                    semaVars
<1>4. ~TimerInterrupt /\ ~IdleLoop
  BY <1>1 DEF TimerInterrupt, IntrOn, IdleLoop
<1>5. /\ ~TestHolder /\ ~InsertDonation /\ ~DonateTurn /\ ~AcquireDown /\ ~AcquireResume
      /\ ~SetHolder /\ ~RemoveDonation /\ ~RestoreBase /\ ~RestoreMax /\ ~ClearHolder
      /\ ~ReleaseUp
  BY <1>1 DEF Here, TestHolder, InsertDonation, DonateTurn, AcquireDown, AcquireResume,
              SetHolder, RemoveDonation, RestoreBase, RestoreMax, ClearHolder, ReleaseUp
<1> QED
  BY <1>1, <1>2, <1>3, <1>4, <1>5 DEF OwnCall, InsideStep

\* From one place in a lock function to the next.
LEMMA InsideMoves ==
    ASSUME CInv, InsideStep
    PROVE  /\ at[current] = "out" /\ pc[current] = "call" =>
                at'[current] = "out" /\ pc'[current] = "call" /\ holder' = holder
           /\ at[current] \in Releasing /\ lock[current] = Cond =>
                \/ at'[current] \in Releasing /\ lock'[current] = Cond
                \/ at'[current] = "out" /\ pc'[current] = "call"
           /\ at[current] \in Acquiring /\ lock[current] = Cond =>
                \/ at'[current] \in Acquiring /\ lock'[current] = Cond
                \/ at'[current] = "out" /\ pc'[current] = "call" /\ holder'[Cond] = current
<1>0. /\ current \in Thread /\ at \in [Thread -> At] /\ lock \in [Thread -> Lock \cup {None}]
      /\ holder \in [Lock -> Thread \cup {None}] /\ pc \in [Thread -> PcValues]
      /\ Cond \in Lock /\ Cond # None
  BY CondState, CondConstants
<1> USE DEF Releasing, Acquiring
<1>1. CASE TestHolder \/ InsertDonation \/ DonateTurn
  <2>1. at[current] \in {"test", "insert", "donate"} /\ lock' = lock
    BY <1>1 DEF TestHolder, InsertDonation, DonateTurn, Here
  <2>2. at' = at \/ \E p \in {"insert", "donate", "down"} : at' = [at EXCEPT ![current] = p]
    BY <1>1 DEF TestHolder, InsertDonation, DonateTurn, To
  <2> QED
    BY <1>0, <2>1, <2>2
<1>2. CASE AcquireDown \/ AcquireResume
  <2>1. at[current] = "down" /\ lock' = lock
    BY <1>2 DEF AcquireDown, AcquireResume, Here
  <2>2. \E p \in {"took", "down"} : at' = [at EXCEPT ![current] = p]
    BY <1>2 DEF AcquireDown, AcquireResume, To
  <2> QED
    BY <1>0, <2>1, <2>2
<1>3. CASE SetHolder
  <2>1. /\ at[current] = "took" /\ pc[current] = "call" /\ pc' = pc
        /\ at' = [at EXCEPT ![current] = "out"]
        /\ holder' = [holder EXCEPT ![lock[current]] = current]
    BY <1>3 DEF SetHolder, Here, Return, To, vars
  <2> QED
    BY <1>0, <2>1
<1>4. CASE RemoveDonation \/ ClearHolder
  <2>1. at[current] \in {"remove", "clear"} /\ lock' = lock
    BY <1>4 DEF RemoveDonation, ClearHolder, Here
  <2>2. \E p \in {"base", "up"} : at' = [at EXCEPT ![current] = p]
    BY <1>4 DEF RemoveDonation, ClearHolder, To
  <2> QED
    BY <1>0, <2>1, <2>2
<1>5. CASE RestoreBase \/ RestoreMax
  <2>1. at[current] \in {"base", "max"} /\ lock' = lock
    BY <1>5 DEF RestoreBase, RestoreMax, Here
  <2>2. lock[current] # None =>
          \E p \in {"max", "clear"} : at' = [at EXCEPT ![current] = p]
    BY <1>5 DEF RestoreBase, RestoreMax, Restored, To
  <2> QED
    BY <1>0, <2>1, <2>2
<1>6. CASE ReleaseUp
  <2>1. /\ at[current] = "up" /\ pc[current] = "call" /\ pc' = pc
        /\ at' = [at EXCEPT ![current] = "out"]
    BY <1>6 DEF ReleaseUp, Here, Return, To
  <2> QED
    BY <1>0, <2>1
<1>7. CASE /\ KeepLocks
           /\ \/ TimerInterrupt \/ ThreadAwake \/ InterruptReturn \/ IdleLoop
              \/ at[current] = "out" /\ SemaDownResume
  <2>1. UNCHANGED <<at, lock, holder>>
    BY <1>7 DEF KeepLocks, lockVars, localVars
  <2>2. at[current] = "out" /\ pc[current] = "call" => pc' = pc
    BY <1>7 DEF TimerInterrupt, ThreadAwake, InterruptReturn, IdleLoop, SemaDownResume, WakeIdle
  <2> QED
    BY <1>0, <2>1, <2>2
<1> QED
  BY <1>1, <1>2, <1>3, <1>4, <1>5, <1>6, <1>7 DEF InsideStep
-----------------------------------------------------------------------------
(* The invariant, thread by thread.                                        *)

HasCond(t) == stage[t] = "broadcast" \/ (stage[t] = "reacquire" /\ at[t] = "out") =>
                holder[Cond] = t
Waits(t) == stage[t] = "release" \/ (stage[t] = "down" /\ pc[t] = "down")
Signalled(t) == /\ t \in Range(cond_waiters) => Waits(t) /\ value[ElemSema[t]] = 0
                /\ Waits(t) /\ t \notin Range(cond_waiters) => value[ElemSema[t]] = 1
CondPlace(t) == StageAgrees(t) /\ HasCond(t) /\ Signalled(t)

LEMMA CondParts ==
    CInv <=> LInv /\ CondTypes /\ NoRepeat(cond_waiters) /\ \A t \in Worker : CondPlace(t)
<1>1. CondTypes => Range(cond_waiters) \subseteq Worker
  BY RangeOfSeq DEF CondTypes
<1>2. CondTypes => (CondUnderLock <=> \A t \in Worker : HasCond(t))
  BY DEF CondUnderLock, HasCond
<1>3. CondTypes => (WaitersAreInWait /\ SignalIsKept <=>
                    NoRepeat(cond_waiters) /\ \A t \in Worker : Signalled(t))
  BY <1>1 DEF WaitersAreInWait, SignalIsKept, Signalled, Waits
<1> QED
  BY <1>2, <1>3 DEF CInv, CondPlace, StagesAgree

\* The same for the state after a step.
LEMMA CondPartsNext ==
    LInv' /\ CondTypes' /\ NoRepeat(cond_waiters)' /\ (\A t \in Worker : CondPlace(t)') => CInv'
<1>1. LInv' /\ CondTypes' /\ NoRepeat(cond_waiters)' /\ (\A t \in Worker : CondPlace(t))' => CInv'
  BY CondParts, PTL
<1> QED
  BY <1>1

\* A step by which the running thread neither moves t, nor touches its
\* semaphore and its place in the list.
LEMMA OthersStay ==
    ASSUME CInv, NEW t \in Worker \ {current}, \A u \in Thread \ {current} : Undisturbed(u),
           stage'[t] = stage[t], waiting'[current] # ElemSema[t],
           t \in Range(cond_waiters)' <=> t \in Range(cond_waiters),
           value'[ElemSema[t]] = value[ElemSema[t]]
    PROVE  CondPlace(t)'
<1>1. t \in Thread /\ Undisturbed(t) /\ CondPlace(t) /\ Cond \in Lock
  BY CondParts, CondConstants
<1>2. StageAgrees(t)'
  <2>1. \A u \in Thread : waiting'[u] = ElemSema[t] => u # current /\ waiting[u] = ElemSema[t]
    BY DEF Undisturbed
  <2> QED
    BY <1>1, <2>1 DEF CondPlace, StageAgrees, Undisturbed
<1>3. HasCond(t)'
  BY <1>1 DEF CondPlace, HasCond, Undisturbed, Owns
<1>4. Signalled(t)'
  BY <1>1 DEF CondPlace, Signalled, Waits, Undisturbed
<1> QED
  BY <1>2, <1>3, <1>4 DEF CondPlace

\* The threads' own calls and the insides of the lock functions.
LEMMA CallsKeepPlaces ==
    ASSUME CInv, OwnCall \/ InsideStep, UNCHANGED condVars,
           \A u \in Thread \ {current} : Undisturbed(u), NEW t \in Worker
    PROVE  CondPlace(t)'
<1>0. /\ UNCHANGED <<cond_waiters, stage>> /\ current \in Thread /\ CondPlace(t)
      /\ Worker \subseteq Thread /\ ElemSema[t] \in Sema \ Lock /\ ElemSema[t] # None
      /\ \A u \in Worker : ElemSema[u] = ElemSema[t] => u = t
      /\ value \in [Sema -> 0..MaxValue] /\ pc \in [Thread -> PcValues]
      /\ waiting \in [Thread -> Sema \cup {None}] /\ TypeOK
  BY CondState, CondConstants, CondParts DEF condVars
<1>u. \A u \in Thread \ {current} : waiting'[u] = waiting[u]
  BY DEF Undisturbed
\* In its own sema_down.
<1>1. ASSUME NEW w \in Worker, waiting[current] = ElemSema[w] PROVE CondPlace(t)'
  <2>1. /\ w = current /\ stage[current] = "down" /\ pc[current] = "down"
        /\ at[current] = "out" /\ UNCHANGED <<at, lock, holder>>
        /\ DownTurn(ElemSema[current]) \/ UNCHANGED <<value, waiting, pc>>
    BY <1>1, ElemDown
  <2>2. CASE UNCHANGED <<value, waiting, pc>>
    BY <1>0, <2>1, <2>2 DEF CondPlace, StageAgrees, HasCond, Signalled, Waits
  <2>3. CASE DownTurn(ElemSema[current])
    <3>1. PICK s \in Sema : s = ElemSema[current] /\ DownTurn(s) /\ s # None
      BY <2>1, <2>3, CondConstants
    <3>2. /\ \A k \in Sema \ {s} : value'[k] = value[k]
          /\ value[s] > 0 => value'[s] = value[s] - 1 /\ pc'[current] = "call"
          /\ value[s] = 0 => value'[s] = 0 /\ pc'[current] = "down" /\ waiting'[current] = s
      BY <1>0, <3>1, DownMoves
    <3>3. value[s] > 0 => waiting'[current] = None
      BY <1>0, <3>1 DEF DownTurn
    <3>4. value[s] \in Nat
      BY <1>0, <3>1
    <3>5. CASE t = current
      <4>1. Signalled(t) /\ StageAgrees(t)
        BY <1>0 DEF CondPlace
      <4>2. CASE value[s] = 0
        <5>1. /\ value'[s] = 0 /\ pc'[current] = "down" /\ waiting'[current] = s
          BY <3>2, <4>2
        <5>2. StageAgrees(t)'
          BY <1>0, <1>u, <2>1, <3>1, <3>5, <4>1, <5>1 DEF StageAgrees
        <5>3. Signalled(t)' /\ HasCond(t)'
          BY <1>0, <2>1, <3>1, <3>5, <4>1, <4>2, <5>1 DEF Signalled, Waits, HasCond
        <5> QED
          BY <5>2, <5>3 DEF CondPlace
      <4>3. CASE value[s] > 0
        <5>1. pc'[current] = "call" /\ waiting'[current] = None
          BY <3>2, <3>3, <4>3
        <5>2. StageAgrees(t)'
          BY <1>0, <1>u, <2>1, <3>1, <3>5, <4>1, <5>1 DEF StageAgrees
        <5>3. t \notin Range(cond_waiters)
          BY <3>1, <3>5, <4>1, <4>3 DEF Signalled
        <5>4. HasCond(t)'
          BY <1>0, <2>1, <3>5 DEF HasCond
        <5>5. ~Waits(t)'
          BY <1>0, <2>1, <3>5, <5>1 DEF Waits
        <5>6. Signalled(t)'
          BY <1>0, <5>3, <5>5 DEF Signalled
        <5> QED
          BY <5>2, <5>4, <5>6 DEF CondPlace
      <4> QED
        BY <3>4, <4>2, <4>3
    <3>6. CASE t # current
      <4>1. ElemSema[t] # s
        BY <1>0, <2>1, <3>1, <3>6
      <4>2. waiting'[current] # ElemSema[t]
        BY <1>0, <3>2, <3>3, <3>4, <4>1
      <4>3. value'[ElemSema[t]] = value[ElemSema[t]]
        BY <1>0, <3>2, <4>1
      <4> QED
        BY <1>0, <3>6, <4>2, <4>3, OthersStay
    <3> QED
      BY <3>5, <3>6
  <2> QED
    BY <2>1, <2>2, <2>3
\* Anywhere else.
<1>2. ASSUME \A w \in Worker : waiting[current] # ElemSema[w] PROVE CondPlace(t)'
  <2>1. value'[ElemSema[t]] = value[ElemSema[t]] /\ waiting'[current] # ElemSema[t]
    BY <1>2, ElemsStay DEF ElemsStill
  <2>2. CASE t # current
    BY <1>0, <2>1, <2>2, OthersStay
  <2>3. CASE t = current
    <3>1. StageAgrees(t) /\ HasCond(t) /\ Signalled(t) /\ ~(stage[t] = "down" /\ pc[t] = "down")
      BY <1>0, <1>2, <2>3 DEF CondPlace, StageAgrees
    <3>2. \A u \in Thread : waiting'[u] # ElemSema[t]
      BY <1>u, <2>1, <2>3, <3>1 DEF StageAgrees
    <3>3. CASE stage[t] = "no"
      <4>1. StageAgrees(t)'
        BY <1>0, <3>2, <3>3 DEF StageAgrees
      <4>2. Signalled(t)' /\ HasCond(t)'
        BY <1>0, <3>1, <3>3 DEF Signalled, Waits, HasCond
      <4> QED
        BY <4>1, <4>2 DEF CondPlace
    <3>4. CASE stage[t] # "no"
      <4>1. InsideStep
        BY <2>3, <3>4 DEF OwnCall
      <4>2. /\ at[t] = "out" /\ pc[t] = "call" =>
                 at'[t] = "out" /\ pc'[t] = "call" /\ holder' = holder
            /\ at[t] \in Releasing /\ lock[t] = Cond =>
                 \/ at'[t] \in Releasing /\ lock'[t] = Cond
                 \/ at'[t] = "out" /\ pc'[t] = "call"
            /\ at[t] \in Acquiring /\ lock[t] = Cond =>
                 \/ at'[t] \in Acquiring /\ lock'[t] = Cond
                 \/ at'[t] = "out" /\ pc'[t] = "call" /\ holder'[Cond] = t
        BY <2>3, <4>1, InsideMoves
      <4>3. StageAgrees(t)'
        <5>1. CASE at[t] = "out"
          <6>1. at'[t] = "out" /\ pc'[t] = "call"
            BY <3>1, <3>4, <4>2, <5>1 DEF StageAgrees
          <6> QED
            BY <1>0, <3>2, <6>1 DEF StageAgrees
        <5>2. CASE at[t] # "out" /\ stage[t] = "release"
          <6>1. \/ at'[t] \in Releasing /\ lock'[t] = Cond
                \/ at'[t] = "out" /\ pc'[t] = "call"
            BY <3>1, <4>2, <5>2 DEF StageAgrees
          <6> QED
            BY <1>0, <3>2, <5>2, <6>1 DEF StageAgrees, Releasing
        <5>3. CASE at[t] # "out" /\ stage[t] = "reacquire"
          <6>1. \/ at'[t] \in Acquiring /\ lock'[t] = Cond
                \/ at'[t] = "out" /\ pc'[t] = "call"
            BY <3>1, <4>2, <5>3 DEF StageAgrees
          <6> QED
            BY <1>0, <3>2, <5>3, <6>1 DEF StageAgrees, Acquiring
        <5>4. stage[t] \in {"release", "down", "reacquire", "broadcast"}
          BY <3>4, CondState
        <5> QED
          BY <3>1, <5>1, <5>2, <5>3, <5>4 DEF StageAgrees
      <4>4. HasCond(t)'
        BY <1>0, <3>1, <4>2 DEF StageAgrees, HasCond, Acquiring
      <4>5. Signalled(t)'
        <5>1. Waits(t)' <=> Waits(t)
          BY <1>0, <3>1, <4>2 DEF Waits, StageAgrees
        <5> QED
          BY <1>0, <2>1, <3>1, <5>1 DEF Signalled
      <4> QED
        BY <4>3, <4>4, <4>5 DEF CondPlace
    <3> QED
      BY <3>3, <3>4
  <2> QED
    BY <2>2, <2>3
<1> QED
  BY <1>1, <1>2

LEMMA CondInitInv == CondInit => CInv
<1> SUFFICES ASSUME CondInit PROVE CInv
  OBVIOUS
<1>1. LInv /\ cond_waiters = <<>> /\ stage = [t \in Worker |-> "no"]
  BY LockInitInv DEF CondInit
<1>2. <<>> \in Seq(Worker) /\ NoRepeat(<<>>) /\ Range(<<>>) = {}
  BY DEF NoRepeat, Range
<1>3. CondTypes
  BY <1>1, <1>2 DEF CondTypes
<1>4. ASSUME NEW t \in Worker PROVE CondPlace(t)
  <2>1. waiting = [u \in Thread |-> None]
    BY DEF CondInit, LockInit
  <2> QED
    BY <1>1, <1>2, <2>1, CondConstants DEF CondPlace, StageAgrees, HasCond, Signalled, Waits
<1> QED
  BY <1>1, <1>2, <1>3, <1>4, CondParts

\* A step of the condition's functions keeps the list and the places.
CondKept == CondTypes' /\ NoRepeat(cond_waiters)' /\ \A t \in Worker : CondPlace(t)'

\* The running thread goes from one place to another, the list stands.
LEMMA EntersKept ==
    ASSUME CInv, NEW place \in {"no", "release", "down", "reacquire", "broadcast"},
           NEW c \in Worker, c = current, Enter(place), UNCHANGED cond_waiters,
           \A u \in Thread \ {current} : Undisturbed(u),
           \A t \in Worker \ {current} : /\ waiting'[current] # ElemSema[t]
                                         /\ value'[ElemSema[t]] = value[ElemSema[t]],
           CondPlace(c)'
    PROVE  CondKept
<1>1. /\ stage' = [stage EXCEPT ![current] = place] /\ CondTypes
      /\ NoRepeat(cond_waiters)
  BY CondParts DEF Enter
<1>2. CondTypes' /\ NoRepeat(cond_waiters)'
  BY <1>1 DEF CondTypes
<1>3. ASSUME NEW t \in Worker PROVE CondPlace(t)'
  <2>1. CASE t = current
    BY <2>1
  <2>2. CASE t # current
    <3>1. stage'[t] = stage[t]
      BY <1>1, <2>2 DEF CondTypes
    <3>2. Range(cond_waiters)' = Range(cond_waiters)
      OBVIOUS
    <3> QED
      BY <2>2, <3>1, <3>2, OthersStay
  <2> QED
    BY <2>1, <2>2
<1> QED
  BY <1>2, <1>3 DEF CondKept

LEMMA CondWaitKept ==
    ASSUME CInv, CondWait, \A u \in Thread \ {current} : Undisturbed(u)
    PROVE  CondKept
<1>0. /\ current \in Worker /\ Worker \subseteq Thread /\ stage[current] = "no"
      /\ at[current] = "out" /\ pc[current] = "call" /\ holder[Cond] = current
      /\ value \in [Sema -> 0..MaxValue] /\ ElemSema[current] \in Sema
      /\ at \in [Thread -> At] /\ lock \in [Thread -> Lock \cup {None}]
      /\ cond_waiters \in Seq(Worker) /\ NoRepeat(cond_waiters) /\ CondTypes
      /\ CondPlace(current)
  BY CondState, CondParts, CondConstants DEF CondWait, HoldsCond, Between, Here
<1>1. /\ value' = [value EXCEPT ![ElemSema[current]] = 0] /\ waiting' = waiting
      /\ pc' = pc /\ lock' = [lock EXCEPT ![current] = Cond]
      /\ stage' = [stage EXCEPT ![current] = "release"]
  BY DEF CondWait, Enter, threadVars
<1>2. PICK p \in {"remove", "clear"} : at' = [at EXCEPT ![current] = p]
  BY DEF CondWait, To
<1>3. PICK key \in Keys : cond_waiters' = InsertOrdered(cond_waiters, current, key)
  BY DEF CondWait
<1>4. current \notin Range(cond_waiters)
  BY <1>0 DEF CondPlace, Signalled, Waits
<1>5. /\ cond_waiters' \in Seq(Worker) /\ NoRepeat(cond_waiters')
      /\ Range(cond_waiters') = Range(cond_waiters) \cup {current}
  <2>1. key \in [Worker -> Nat]
    BY KeyTypes
  <2> QED
    BY <1>0, <1>3, <1>4, <2>1, InsertFresh
<1>6. CondTypes' /\ NoRepeat(cond_waiters)'
  BY <1>0, <1>1, <1>5 DEF CondTypes
<1>7. \A t \in Worker : waiting[current] # ElemSema[t]
  BY <1>0, CondState DEF StagesAgree, StageAgrees
<1>8. ASSUME NEW t \in Worker PROVE CondPlace(t)'
  <2>1. CASE t = current
    <3>1. stage'[t] = "release" /\ at'[t] \in Releasing /\ lock'[t] = Cond
      BY <1>0, <1>1, <1>2, <2>1 DEF CondTypes, Releasing
    <3>2. \A u \in Thread : waiting'[u] # ElemSema[t]
      BY <1>0, <1>1, <2>1 DEF CondPlace, StageAgrees
    <3>3. StageAgrees(t)'
      BY <3>1, <3>2 DEF StageAgrees, Releasing
    <3>4. HasCond(t)' /\ Signalled(t)'
      BY <1>0, <1>1, <1>5, <2>1, <3>1 DEF HasCond, Signalled, Waits
    <3> QED
      BY <3>3, <3>4 DEF CondPlace
  <2>2. CASE t # current
    <3>1. ElemSema[t] # ElemSema[current] /\ ElemSema[t] \in Sema
      BY <1>0, <2>2, CondConstants
    <3>2. stage'[t] = stage[t] /\ value'[ElemSema[t]] = value[ElemSema[t]]
      BY <1>0, <1>1, <2>2, <3>1 DEF CondTypes
    <3>3. waiting'[current] # ElemSema[t]
      BY <1>1, <1>7
    <3>4. t \in Range(cond_waiters)' <=> t \in Range(cond_waiters)
      BY <1>5, <2>2
    <3> QED
      BY <2>2, <3>2, <3>3, <3>4, OthersStay
  <2> QED
    BY <2>1, <2>2
<1> QED
  BY <1>6, <1>8 DEF CondKept

LEMMA CondDownKept ==
    ASSUME CInv, CondDown, \A u \in Thread \ {current} : Undisturbed(u)
    PROVE  CondKept
<1>0. /\ current \in Worker /\ Worker \subseteq Thread /\ stage[current] = "release"
      /\ at[current] = "out" /\ pc[current] = "call" /\ CondTypes /\ TypeOK
      /\ value \in [Sema -> 0..MaxValue] /\ CondPlace(current)
  BY CondState, CondParts, CondConstants DEF CondDown, Between, Here
<1>1. PICK s \in Sema : s = ElemSema[current] /\ DownTurn(s) /\ s # None
  BY <1>0, CondConstants DEF CondDown
<1>2. Enter("down") /\ UNCHANGED <<cond_waiters, at, lock, holder>>
  BY DEF CondDown, lockVars, localVars
<1>3. /\ \A k \in Sema \ {s} : value'[k] = value[k]
      /\ value[s] > 0 => pc'[current] = "call" /\ waiting'[current] = None
      /\ value[s] = 0 => value'[s] = 0 /\ pc'[current] = "down" /\ waiting'[current] = s
  <2>1. value[s] > 0 => waiting'[current] = None
    BY <1>0, <1>1 DEF DownTurn, TypeOK
  <2> QED
    BY <1>0, <1>1, <2>1, DownMoves
<1>4. value[s] = 0 \/ value[s] > 0
  BY <1>0
<1>5. ASSUME NEW t \in Worker \ {current}
      PROVE  waiting'[current] # ElemSema[t] /\ value'[ElemSema[t]] = value[ElemSema[t]]
  <2>1. ElemSema[t] \in Sema \ {s} /\ ElemSema[t] # None
    BY <1>0, <1>1, CondConstants
  <2> QED
    BY <1>3, <1>4, <2>1
<1>c. PICK c \in Worker : c = current
  BY <1>0
<1>6. CondPlace(c)'
  <2>1. c = current
    BY <1>c
  <2>2. stage'[c] = "down" /\ at'[c] = "out"
    BY <1>0, <1>2, <2>1 DEF Enter, CondTypes
  <2>3. \A u \in Thread : u # c => waiting'[u] # ElemSema[c]
    BY <1>0, <2>1 DEF Undisturbed, CondPlace, StageAgrees
  <2>4. /\ c \in Range(cond_waiters) => value[s] = 0
        /\ c \notin Range(cond_waiters) => value[s] = 1
    BY <1>0, <1>1, <2>1 DEF CondPlace, Signalled, Waits
  <2>5. Range(cond_waiters)' = Range(cond_waiters)
    BY <1>2
  <2>6. CASE value[s] = 0
    <3>1. pc'[c] = "down" /\ waiting'[c] = ElemSema[c] /\ value'[ElemSema[c]] = 0
      BY <1>1, <1>3, <2>1, <2>6
    <3>2. StageAgrees(c)' /\ HasCond(c)'
      BY <2>2, <2>3, <3>1 DEF StageAgrees, HasCond
    <3>3. Signalled(c)'
      BY <2>2, <2>4, <2>5, <2>6, <3>1 DEF Signalled, Waits
    <3> QED
      BY <3>2, <3>3 DEF CondPlace
  <2>7. CASE value[s] > 0
    <3>1. pc'[c] = "call" /\ waiting'[c] = None /\ ElemSema[c] # None
      BY <1>1, <1>3, <2>1, <2>7
    <3>2. StageAgrees(c)' /\ HasCond(c)'
      BY <2>2, <2>3, <3>1 DEF StageAgrees, HasCond
    <3>3. c \notin Range(cond_waiters)' /\ ~Waits(c)'
      BY <2>2, <2>4, <2>5, <2>7, <3>1 DEF Waits
    <3> QED
      BY <3>2, <3>3 DEF CondPlace, Signalled
  <2> QED
    BY <1>4, <2>6, <2>7
<1> QED
  BY <1>0, <1>2, <1>5, <1>c, <1>6, EntersKept

LEMMA CondReacquireKept ==
    ASSUME CInv, CondReacquire, \A u \in Thread \ {current} : Undisturbed(u)
    PROVE  CondKept
<1>0. /\ current \in Worker /\ Worker \subseteq Thread /\ stage[current] = "down"
      /\ at[current] = "out" /\ pc[current] = "call" /\ CondTypes
      /\ at \in [Thread -> At] /\ lock \in [Thread -> Lock \cup {None}]
  BY CondState, CondConstants DEF CondReacquire, Between, Here
<1>c. PICK c \in Worker : c = current
  BY <1>0
<1>1. /\ lock' = [lock EXCEPT ![c] = Cond] /\ Enter("reacquire")
      /\ UNCHANGED <<cond_waiters, value, waiting, pc, holder>>
  BY <1>c DEF CondReacquire, vars, semaVars, threadVars, lockVars
<1>2. PICK p \in {"test", "down"} : at' = [at EXCEPT ![c] = p]
  BY <1>c DEF CondReacquire, To
<1>3. \A t \in Worker : CondPlace(t)
  BY CondParts
<1>4. \A t \in Worker : waiting[current] # ElemSema[t]
  BY <1>0, CondState DEF StagesAgree, StageAgrees
<1>5. CondPlace(c)'
  <2>1. stage'[c] = "reacquire" /\ at'[c] \in Acquiring \ {"out"} /\ lock'[c] = Cond
    BY <1>0, <1>c, <1>1, <1>2 DEF Enter, CondTypes, Acquiring
  <2>2. \A u \in Thread : waiting'[u] # ElemSema[c]
    BY <1>0, <1>c, <1>1, <1>3 DEF CondPlace, StageAgrees
  <2>3. c \notin Range(cond_waiters)
    BY <1>0, <1>c, <1>3 DEF CondPlace, Signalled, Waits
  <2>4. StageAgrees(c)' /\ HasCond(c)'
    BY <2>1, <2>2 DEF StageAgrees, HasCond, Acquiring
  <2>5. Signalled(c)'
    BY <1>1, <2>1, <2>3 DEF Signalled, Waits
  <2> QED
    BY <2>4, <2>5 DEF CondPlace
<1>6. \A t \in Worker \ {current} : /\ waiting'[current] # ElemSema[t]
                                    /\ value'[ElemSema[t]] = value[ElemSema[t]]
  BY <1>1, <1>4
<1> QED
  BY <1>c, <1>1, <1>5, <1>6, EntersKept

\* cond_wait and cond_broadcast return, cond_broadcast begins.
LEMMA CondQuietKept ==
    ASSUME CInv, NEW c \in Worker, c = current, at[c] = "out", pc[c] = "call",
           NEW place \in {"no", "broadcast"}, place = "broadcast" => holder[Cond] = c,
           stage[c] \in {"no", "reacquire", "broadcast"},
           Enter(place), UNCHANGED <<allVars, cond_waiters>>
    PROVE  CondKept
<1>1. /\ UNCHANGED <<cond_waiters, value, waiting, pc, holder, at, lock, donee, donations>>
      /\ stage' = [stage EXCEPT ![c] = place] /\ CondTypes /\ Worker \subseteq Thread
  BY CondState, CondConstants
  DEF allVars, vars, semaVars, threadVars, lockVars, localVars, Enter
<1>2. \A u \in Thread : Undisturbed(u)
  BY <1>1 DEF Undisturbed
<1>3. \A t \in Worker : CondPlace(t)
  BY CondParts
<1>4. \A t \in Worker, u \in Thread : waiting[u] = ElemSema[t] => u = t /\ stage[t] = "down"
  BY <1>3 DEF CondPlace, StageAgrees
<1>5. CondPlace(c)'
  <2>1. stage'[c] = place
    BY <1>1 DEF CondTypes
  <2>2. StageAgrees(c)' /\ HasCond(c)'
    BY <1>1, <1>4, <2>1 DEF StageAgrees, HasCond
  <2>3. c \notin Range(cond_waiters)
    BY <1>3 DEF CondPlace, Signalled, Waits
  <2>4. Signalled(c)'
    BY <1>1, <2>1, <2>3 DEF Signalled, Waits
  <2> QED
    BY <2>2, <2>4 DEF CondPlace
<1>6. \A t \in Worker \ {current} : /\ waiting'[current] # ElemSema[t]
                                    /\ value'[ElemSema[t]] = value[ElemSema[t]]
  BY <1>1, <1>4
<1> QED
  BY <1>1, <1>2, <1>5, <1>6, EntersKept

LEMMA SignalKept ==
    ASSUME CInv, Signal, UNCHANGED stage, current \in Worker,
           stage[current] \in {"no", "broadcast"},
           \A u \in Thread \ {current} : Undisturbed(u)
    PROVE  CondKept
<1>1. /\ UNCHANGED <<stage, pc, waiting, at, lock, holder>> /\ CondTypes /\ TypeOK
      /\ Worker \subseteq Thread /\ NoRepeat(cond_waiters)
      /\ value \in [Sema -> 0..MaxValue]
  BY CondState, CondParts, CondConstants DEF Signal, threadVars, lockVars, localVars
<1>2. \A t \in Worker : CondPlace(t)
  BY CondParts
<1>3. \A t \in Worker, u \in Thread : waiting[u] = ElemSema[t] => u = t /\ stage[t] = "down"
  BY <1>2 DEF CondPlace, StageAgrees
\* What the panic of list_pop_front and the sema_up leave of t.
<1>4. ASSUME NEW t \in Worker PROVE StageAgrees(t)' /\ HasCond(t)'
  BY <1>1, <1>2 DEF CondPlace, StageAgrees, HasCond
<1>5. CASE cond_waiters = <<>>
  <2>1. UNCHANGED <<cond_waiters, value>>
    BY <1>5 DEF Signal, semaVars
  <2>2. ASSUME NEW t \in Worker PROVE Signalled(t)'
    BY <1>1, <1>2, <2>1 DEF CondPlace, Signalled, Waits
  <2> QED
    BY <1>1, <1>4, <2>1, <2>2 DEF CondKept, CondPlace, CondTypes
<1>6. CASE cond_waiters # <<>>
  <2>1. PICK w \in Worker :
            /\ w \in Range(cond_waiters)
            /\ cond_waiters' \in Seq(Worker) /\ NoRepeat(cond_waiters')
            /\ Range(cond_waiters') = Range(cond_waiters) \ {w}
            /\ Up(ElemSema[w], FALSE)
    BY <1>6, SignalTakes
  <2>2. PICK s \in Sema : s = ElemSema[w] /\ Up(s, FALSE)
    BY <2>1, CondConstants
  <2>3. value'[s] = value[s] + 1 /\ \A k \in Sema \ {s} : value'[k] = value[k]
    BY <1>1, <2>2, UpMoves
  <2>4. ASSUME NEW t \in Worker PROVE Signalled(t)'
    <3>1. Signalled(t) /\ ElemSema[t] \in Sema /\ (Waits(t)' <=> Waits(t))
      BY <1>1, <1>2, CondConstants DEF CondPlace, Waits
    <3>2. CASE t = w
      <4>1. value'[ElemSema[t]] = 1
        BY <2>1, <2>2, <2>3, <3>1, <3>2 DEF Signalled
      <4> QED
        BY <2>1, <3>2, <4>1 DEF Signalled
    <3>3. CASE t # w
      <4>1. ElemSema[t] # s
        BY <2>2, <3>3, CondConstants
      <4>2. value'[ElemSema[t]] = value[ElemSema[t]]
        BY <2>3, <3>1, <4>1
      <4> QED
        BY <2>1, <3>1, <3>3, <4>2 DEF Signalled
    <3> QED
      BY <3>2, <3>3
  <2> QED
    BY <1>1, <1>4, <2>1, <2>4 DEF CondKept, CondPlace, CondTypes
<1> QED
  BY <1>5, <1>6

LEMMA CondNextInv == CInv /\ [CondNext]_everyVar => CInv'
<1> SUFFICES ASSUME CInv, [CondNext]_everyVar PROVE CInv'
  OBVIOUS
<1>1. LInv' /\ \A u \in Thread \ {current} : Undisturbed(u)
  BY CondKeepsLocks
<1>kept. ASSUME CondKept PROVE CInv'
  BY <1>1, <1>kept, CondPartsNext DEF CondKept
<1>2. CASE CondWait \/ CondDown \/ CondReacquire
  BY <1>1, <1>2, <1>kept, CondWaitKept, CondDownKept, CondReacquireKept
<1>c. CondStep => current \in Worker /\ at[current] = "out" /\ pc[current] = "call"
  BY DEF CondStep, CondWait, CondDown, CondReacquire, CondReturn, CondSignal, CondBroadcast,
         BroadcastTurn, HoldsCond, Between, Here
<1>3. CASE CondReturn
  <2>1. stage[current] = "reacquire" /\ Enter("no") /\ UNCHANGED <<allVars, cond_waiters>>
    BY <1>3 DEF CondReturn, Between
  <2>2. PICK c \in Worker : c = current /\ at[c] = "out" /\ pc[c] = "call"
    BY <1>3, <1>c DEF CondStep
  <2> QED
    BY <1>kept, <2>1, <2>2, CondQuietKept
<1>4. CASE CondBroadcast
  <2>1. /\ stage[current] = "no" /\ Enter("broadcast") /\ holder[Cond] = current
        /\ UNCHANGED <<allVars, cond_waiters>>
    BY <1>4 DEF CondBroadcast, HoldsCond, Between
  <2>2. PICK c \in Worker : c = current /\ at[c] = "out" /\ pc[c] = "call"
    BY <1>4, <1>c DEF CondStep
  <2> QED
    BY <1>kept, <2>1, <2>2, CondQuietKept
<1>5. CASE CondSignal
  <2>1. Signal /\ UNCHANGED stage /\ stage[current] = "no" /\ current \in Worker
    BY <1>5 DEF CondSignal, HoldsCond, Between
  <2> QED
    BY <1>1, <1>kept, <2>1, SignalKept
<1>6. CASE BroadcastTurn
  <2>1. stage[current] = "broadcast" /\ current \in Worker
    BY <1>6 DEF BroadcastTurn, Between
  <2>2. CASE Signal /\ UNCHANGED stage
    BY <1>1, <1>kept, <2>1, <2>2, SignalKept
  <2>3. CASE Enter("no") /\ UNCHANGED <<allVars, cond_waiters>>
    <3>1. PICK c \in Worker : c = current /\ at[c] = "out" /\ pc[c] = "call"
      BY <1>6, <1>c DEF CondStep
    <3> QED
      BY <1>kept, <2>1, <2>3, <3>1, CondQuietKept
  <2> QED
    BY <1>6, <2>2, <2>3 DEF BroadcastTurn
<1>7. CASE (OwnCall \/ InsideStep) /\ UNCHANGED condVars
  <2>1. \A t \in Worker : CondPlace(t)'
    BY <1>1, <1>7, CallsKeepPlaces
  <2>2. CondTypes' /\ NoRepeat(cond_waiters)'
    BY <1>7, CondParts DEF CondTypes, condVars
  <2> QED
    BY <1>kept, <2>1, <2>2 DEF CondKept
<1>8. CASE UNCHANGED everyVar
  <2>1. /\ UNCHANGED <<value, waiting, pc, at, lock, holder>>
        /\ UNCHANGED <<cond_waiters, stage>>
    BY <1>8 DEF everyVar, allVars, vars, condVars, lockVars, localVars, threadVars, semaVars
  <2>2. \A t \in Worker : CondPlace(t)'
    BY <2>1, CondParts DEF CondPlace, StageAgrees, HasCond, Signalled, Waits
  <2>3. CondTypes' /\ NoRepeat(cond_waiters)'
    BY <2>1, CondParts DEF CondTypes
  <2> QED
    BY <1>kept, <2>2, <2>3 DEF CondKept
<1> QED
  BY <1>2, <1>3, <1>4, <1>5, <1>6, <1>7, <1>8 DEF CondNext, CondStep

\* The condition's own functions move no unit of a lock: cond_wait releases and
\* acquires it by lock_release and lock_acquire.
LEMMA CondUnits ==
    ASSUME CInv, [CondNext]_everyVar
    PROVE  Kept \/ \E l \in Lock : Takes(l) \/ Gives(l)
<1>0. /\ LInv /\ LockTypes /\ TypeOK /\ current \in Thread
      /\ at \in [Thread -> At] /\ lock \in [Thread -> Lock \cup {None}]
      /\ value \in [Sema -> 0..MaxValue] /\ Lock \subseteq Sema
  BY CondState, CondConstants
<1>1. CASE ~panic /\ ~Relinked /\ (OwnCall \/ InsideStep)
  BY <1>0, <1>1, CallsOfLocks, UnitMoves
<1>2. CASE UNCHANGED allVars
  BY <1>0, <1>2, UnitMoves
<1>quiet. ASSUME UNCHANGED <<at, lock, holder>>, \A l \in Lock : value'[l] = value[l] PROVE Kept
  BY <1>quiet DEF Kept, Owns
<1>3. CASE CondWait \/ CondReacquire
  <2>1. /\ at[current] = "out" /\ holder' = holder
        /\ lock' = [lock EXCEPT ![current] = Cond] /\ current \in Worker
    BY <1>3 DEF CondWait, CondReacquire, HoldsCond, Between, Here, lockVars
  <2>2. PICK p \in At \ {"took", "up"} : at' = [at EXCEPT ![current] = p]
    BY <1>3 DEF CondWait, CondReacquire, To, At
  <2>3. \A t \in Thread, l \in Lock : Owns(t, l)' <=> Owns(t, l)
    BY <1>0, <2>1, <2>2, SamePlace
  <2>4. value' = value \/ value' = [value EXCEPT ![ElemSema[current]] = 0]
    BY <1>3 DEF CondWait, CondReacquire, vars, semaVars
  <2>5. \A l \in Lock : value'[l] = value[l]
    BY <1>0, <2>1, <2>4, CondConstants
  <2> QED
    BY <2>3, <2>5 DEF Kept
<1>4. CASE CondDown
  <2>1. current \in Worker /\ DownTurn(ElemSema[current]) /\ UNCHANGED <<at, lock, holder>>
    BY <1>4 DEF CondDown, Between, lockVars, localVars
  <2>2. PICK s \in Sema \ Lock : s = ElemSema[current] /\ DownTurn(s)
    BY <2>1, CondConstants
  <2>3. \A k \in Sema \ {s} : value'[k] = value[k]
    BY <1>0, <2>2, DownMoves
  <2> QED
    BY <1>0, <1>quiet, <2>1, <2>2, <2>3
<1>5. CASE Signal
  <2>1. UNCHANGED <<at, lock, holder>>
    BY <1>5 DEF Signal, lockVars, localVars
  <2>2. \A l \in Lock : value'[l] = value[l]
    <3>1. CASE cond_waiters = <<>>
      BY <1>5, <3>1 DEF Signal, semaVars
    <3>2. CASE cond_waiters # <<>>
      <4>1. PICK t \in Worker : Up(ElemSema[t], FALSE)
        BY <1>5, <3>2, SignalTakes
      <4>2. PICK s \in Sema \ Lock : s = ElemSema[t] /\ Up(s, FALSE)
        BY <4>1, CondConstants
      <4>3. \A k \in Sema \ {s} : value'[k] = value[k]
        BY <1>0, <4>2, UpMoves
      <4> QED
        BY <1>0, <4>2, <4>3
    <3> QED
      BY <3>1, <3>2
  <2> QED
    BY <1>quiet, <2>1, <2>2
<1> QED
  BY <1>1, <1>2, <1>3, <1>4, <1>5
  DEF CondNext, CondStep, CondReturn, CondSignal, CondBroadcast, BroadcastTurn, everyVar
-----------------------------------------------------------------------------
(* The results.                                                            *)

\* The inductive invariant.
THEOREM CondInvariance == CondSpec => []CInv
  BY CondInitInv, CondNextInv, PTL DEF CondSpec

\* cond->waiters links only elements on the stack of a cond_wait that has not
\* come out of its sema_down, each once, wherever a switch comes.
THEOREM NoElemDangles == CondSpec => []WaitersAreInWait
<1>1. CInv => WaitersAreInWait
  BY DEF CInv
<1> QED
  BY <1>1, CondInvariance, PTL

\* cond_wait: "atomically releases LOCK and waits".  A signal sent once the
\* lock is free is not lost, however late the waiter gets to its sema_down.
THEOREM SignalsAreKept == CondSpec => []SignalIsKept
<1>1. CInv => SignalIsKept
  BY DEF CInv
<1> QED
  BY <1>1, CondInvariance, PTL

\* cond_wait returns with the lock held, cond_broadcast keeps it, and the lock,
\* whose functions cond_wait calls, still has one owner.
THEOREM CondHoldsLock == CondSpec => [](CondTypeOK /\ OneOwner /\ CondUnderLock)
<1>1. CInv => CondTypeOK
  BY DEF CInv, CondTypes, CondTypeOK, LInv, IInv, LockTypes, LockTypeOK
<1>2. CInv => OneOwner /\ CondUnderLock
  BY OneOwnerOfUnit DEF CInv
<1> QED
  BY <1>1, <1>2, CondInvariance, PTL

\* The locks stay mutexes when threads wait and signal under them.
THEOREM CondLocksAreMutex == CondSpec => ImplementsMutex
<1>1. CondInit => MU!Init
  BY MutexInit DEF CondInit
<1>2. CInv /\ [CondNext]_everyVar => [MU!Next]_Owned
  BY CondUnits, MutexStep DEF CInv
<1> QED
  BY <1>1, <1>2, CondInvariance, PTL DEF CondSpec, ImplementsMutex, MU!Spec, Owned
=============================================================================
