------------------------------ MODULE Scheduler ------------------------------
(***************************************************************************)
(* The thread scheduler of threads/thread.c with the semaphores of         *)
(* threads/synch.c, the sleep queue of devices/timer.c and the interrupt   *)
(* exit of threads/interrupt.c, in the `threads' build (no USERPROG) and   *)
(* without the -mlfqs option.                                              *)
(*                                                                         *)
(* One CPU.  The running thread executes one statement group per step; the *)
(* timer and the device interrupts come between any two steps made with    *)
(* interrupts enabled, and never inside a section that disabled them,      *)
(* which is therefore one step.  pc[t] is the place of t in kernel code:   *)
(*   "call"     in its own function, about to make any call                *)
(*   "down"     inside the loop of sema_down, interrupts disabled          *)
(*   "sleep"    in timer_sleep, between timer_ticks () and thread_sleep () *)
(*   "compare"  in thread_compare_priority, before list_empty (called with *)
(*              interrupts enabled from thread_create, thread_set_priority)*)
(*   "front"    the same, before list_front                                *)
(*   "yield"    the same, once outranked, before thread_yield              *)
(*   "push"     in thread_create, before the push on child_list            *)
(*   "halt"     idle, in `sti; hlt';  "loop" idle, before thread_block     *)
(*   "none"     the page holds no thread that can run                      *)
(***************************************************************************)
EXTENDS ListOps, FiniteSets

CONSTANTS
    Thread,      \* the pages a struct thread can live in, Main and Idle among them
    Main,        \* initial_thread
    Idle,        \* idle_thread
    Sema,        \* the semaphores
    DeviceSema,  \* those a device interrupt handler ups (disk.c's completion_wait)
    InitValue,   \* their values at sema_init
    MaxValue,    \* bound of the model on sema->value
    Pri,         \* the priorities threads ask for
    SleepTicks,  \* the arguments of timer_sleep (0 stands for every n <= 0)
    TimeSlice,   \* TIME_SLICE
    Calls        \* which calls the threads' functions make: the workload

None == "none"
CallNames == {"down", "trydown", "up", "sleep", "yield", "setpri", "create", "exit"}

ASSUME ThreadAssumption == Main \in Thread /\ Idle \in Thread /\ Main # Idle
                           /\ None \notin Thread
\* Memory is finite: so are the pages a thread can live in.
ASSUME FiniteAssumption == IsFiniteSet(Thread)
ASSUME SemaAssumption == /\ DeviceSema \subseteq Sema /\ None \notin Sema
                         /\ MaxValue \in Nat /\ InitValue \in [Sema -> 0..MaxValue]
ASSUME NumberAssumption == /\ Pri \subseteq Nat /\ Pri # {}
                           /\ SleepTicks \subseteq Nat
                           /\ TimeSlice \in Nat \ {0}
ASSUME CallsAssumption == Calls \subseteq CallNames

VARIABLES
    current,          \* running_thread ()
    status,           \* t->status, or "FREE" for a page without a thread
    priority,         \* t->priority
    awake,            \* t->awake - ticks, 0 once due: all the code compares
    pc,
    waiting,          \* the semaphore t is inside sema_down of
    child,            \* local t of thread_create, between unblock and push
    ready_list, sleep_list, destruction_req,
    thread_ticks,
    value, waiters,   \* of each semaphore
    cursor,           \* place of thread_awake in sleep_list, 0 out of the handler
    yield_on_return,
    panic             \* an ASSERT of the kernel has failed

threadVars == <<priority, awake, waiting, child>>
cpuVars    == <<current, status, ready_list, destruction_req, thread_ticks>>
semaVars   == <<value, waiters>>
intrVars   == <<cursor, yield_on_return>>
vars == <<threadVars, cpuVars, semaVars, intrVars, pc, sleep_list, panic>>

PcValues == {"call", "down", "sleep", "compare", "front", "yield", "push", "halt", "loop", "none"}
Status == {"RUNNING", "READY", "BLOCKED", "DYING", "FREE"}

\* After thread_start: idle_thread is set and blocked, main runs.
Init ==
    /\ current = Main
    /\ status = [t \in Thread |-> CASE t = Main -> "RUNNING" [] t = Idle -> "BLOCKED"
                                    [] OTHER -> "FREE"]
    /\ \E p \in Pri : priority = [t \in Thread |-> IF t = Main THEN p ELSE 0]
    /\ awake = [t \in Thread |-> 0]
    /\ pc = [t \in Thread |-> CASE t = Main -> "call" [] t = Idle -> "halt"
                                [] OTHER -> "none"]
    /\ waiting = [t \in Thread |-> None]
    /\ child = [t \in Thread |-> None]
    /\ ready_list = <<>> /\ sleep_list = <<>> /\ destruction_req = <<>>
    /\ thread_ticks = 0
    /\ value = InitValue
    /\ waiters = [s \in Sema |-> <<>>]
    /\ cursor = 0
    /\ yield_on_return = FALSE
    /\ panic = FALSE

InHandler == cursor # 0
IntrOn == ~InHandler /\ pc[current] # "down"

-----------------------------------------------------------------------------
(* The parts of thread.c every operation is built from.  st, rl, dr are    *)
(* the status map, the ready list and the destruction requests as the      *)
(* caller leaves them.                                                     *)

\* schedule() with next_thread_to_run(): the front of the ready list, or idle.
Schedule(st, rl, dr) ==
    LET next == IF rl = <<>> THEN Idle ELSE Head(rl)
        dies == st[current] = "DYING" /\ current # Main
    IN /\ current' = next
       /\ status' = [st EXCEPT ![next] = "RUNNING"]
       /\ ready_list' = IF rl = <<>> THEN rl ELSE Tail(rl)
       /\ destruction_req' = IF dies THEN Append(dr, current) ELSE dr
       /\ thread_ticks' = 0

\* Mutant: the page of the thread that dies now is freed with the others.
DoScheduleFreesDying(st, new, rl) ==
    LET dead == Range(destruction_req) \cup IF new = "DYING" THEN {current} ELSE {}
        st1 == [st EXCEPT ![current] = new]
    IN Schedule([t \in Thread |-> IF t \in dead THEN "FREE" ELSE st1[t]], rl, <<>>)

\* do_schedule(): the pages of the threads that died before are freed first.
DoSchedule(st, new, rl) ==
    LET freed == [t \in Thread |-> IF t \in Range(destruction_req) THEN "FREE" ELSE st[t]]
    IN Schedule([freed EXCEPT ![current] = new], rl, <<>>)

\* Mutant: idle joins the ready list like any other thread.
YieldIdleToo(st, rl) ==
    DoSchedule(st, "READY", InsertOrdered(rl, current, priority))

\* thread_yield()
Yield(st, rl) ==
    DoSchedule(st, "READY",
               IF current = Idle THEN rl ELSE InsertOrdered(rl, current, priority))

Outranked(rl) == rl # <<>> /\ priority[current] < priority[Head(rl)]

\* thread_compare_priority() with interrupts disabled: it returns at once when
\* context says that it was called by an interrupt handler.
ComparePriority(st, rl, context) ==
    \/ /\ ~context /\ Outranked(rl)
       /\ Yield(st, rl)
    \/ /\ context \/ ~Outranked(rl)
       /\ status' = st /\ ready_list' = rl
       /\ UNCHANGED <<current, destruction_req, thread_ticks>>

\* thread_block() of the running thread.
Block == Schedule([status EXCEPT ![current] = "BLOCKED"], ready_list, destruction_req)

Goto(place) == pc' = [pc EXCEPT ![current] = place]

\* A call made by the function of the running thread.
Calling(name) == ~InHandler /\ pc[current] = "call" /\ name \in Calls

-----------------------------------------------------------------------------
(* Semaphores.                                                             *)

\* One turn of the loop of sema_down(s), interrupts disabled: take a unit, or
\* join the waiters and block.
DownTurn(s) ==
    \/ /\ value[s] > 0
       /\ value' = [value EXCEPT ![s] = @ - 1]
       /\ waiting' = [waiting EXCEPT ![current] = None]
       /\ Goto("call")
       /\ UNCHANGED <<waiters, cpuVars>>
    \/ /\ value[s] = 0
       /\ waiters' = [waiters EXCEPT ![s] = InsertOrdered(@, current, priority)]
       /\ waiting' = [waiting EXCEPT ![current] = s]
       /\ Goto("down")
       /\ Block
       /\ UNCHANGED value

SemaDown(s) ==
    /\ Calling("down")
    /\ DownTurn(s)
    /\ UNCHANGED <<priority, awake, child, sleep_list, intrVars, panic>>

\* Mutant: `if (sema->value == 0)' in the place of `while'.
SemaDownResumeOnce ==
    /\ ~InHandler /\ pc[current] = "down"
    /\ value' = [value EXCEPT ![waiting[current]] = @ - 1]
    /\ waiting' = [waiting EXCEPT ![current] = None]
    /\ Goto("call")
    /\ UNCHANGED <<priority, awake, child, sleep_list, intrVars, panic, waiters, cpuVars>>

\* The woken waiter goes around the loop: another thread may have taken the
\* unit between its wakeup and its dispatch.
SemaDownResume ==
    /\ ~InHandler /\ pc[current] = "down"
    /\ DownTurn(waiting[current])
    /\ UNCHANGED <<priority, awake, child, sleep_list, intrVars, panic>>

SemaTryDown(s) ==
    /\ Calling("trydown")
    /\ value[s] > 0
    /\ value' = [value EXCEPT ![s] = @ - 1]
    /\ UNCHANGED <<threadVars, cpuVars, waiters, intrVars, pc, sleep_list, panic>>

\* Mutant: a waiter is woken only by the up that finds the value 0.
UpWakesAtZero(s, context) ==
    /\ value[s] < MaxValue
    /\ value' = [value EXCEPT ![s] = @ + 1]
    /\ \/ /\ waiters[s] = <<>> \/ value[s] > 0
          /\ ComparePriority(status, ready_list, context)
          /\ UNCHANGED waiters
       \/ \E q \in SortedOf(waiters[s], priority) :
            /\ q # <<>> /\ value[s] = 0
            /\ waiters' = [waiters EXCEPT ![s] = Tail(q)]
            /\ ComparePriority([status EXCEPT ![Head(q)] = "READY"],
                               InsertOrdered(ready_list, Head(q), priority), context)

\* Mutant: the list of the waiters is reinitialized once the first is woken.
UpForgetsOthers(s, context) ==
    /\ value[s] < MaxValue
    /\ value' = [value EXCEPT ![s] = @ + 1]
    /\ waiters' = [waiters EXCEPT ![s] = <<>>]
    /\ \/ waiters[s] = <<>> /\ ComparePriority(status, ready_list, context)
       \/ \E q \in SortedOf(waiters[s], priority) :
            /\ q # <<>>
            /\ ComparePriority([status EXCEPT ![Head(q)] = "READY"],
                               InsertOrdered(ready_list, Head(q), priority), context)

\* sema_up(s): the waiters are sorted and the first is readied, then the value
\* is raised and the running thread compares itself with the ready list.
Up(s, context) ==
    /\ value[s] < MaxValue
    /\ value' = [value EXCEPT ![s] = @ + 1]
    /\ \/ /\ waiters[s] = <<>>
          /\ ComparePriority(status, ready_list, context)
          /\ UNCHANGED waiters
       \/ \E q \in SortedOf(waiters[s], priority) :
            /\ q # <<>>
            /\ waiters' = [waiters EXCEPT ![s] = Tail(q)]
            /\ ComparePriority([status EXCEPT ![Head(q)] = "READY"],
                               InsertOrdered(ready_list, Head(q), priority), context)

SemaUp(s) ==
    /\ Calling("up")
    /\ Up(s, FALSE)
    /\ UNCHANGED <<threadVars, intrVars, pc, sleep_list, panic>>

-----------------------------------------------------------------------------
(* Interrupts.                                                             *)

\* The instruction after `sti; hlt' of the idle thread runs once an interrupt
\* has been handled.
WakeIdle == IF pc[current] = "halt" THEN Goto("loop") ELSE UNCHANGED pc

\* A device interrupt whose handler ups s: intr_handler clears yield_on_return
\* and nothing in the handler sets it.
DeviceInterrupt(s) ==
    /\ IntrOn
    /\ Up(s, TRUE)
    /\ WakeIdle
    /\ UNCHANGED <<threadVars, intrVars, sleep_list, panic>>

\* Mutant: the end of the time slice does not ask for a yield.
ThreadTickNoYield ==
    /\ thread_ticks' = IF thread_ticks < TimeSlice THEN thread_ticks + 1 ELSE thread_ticks
    /\ yield_on_return' = FALSE

\* thread_tick: the end of the time slice asks for a yield.
ThreadTick ==
    /\ thread_ticks' = thread_ticks + 1
    /\ yield_on_return' = (thread_ticks + 1 >= TimeSlice)

\* Mutant: thread_awake starts at the second element.
TimerInterruptSkipsFirst ==
    /\ IntrOn
    /\ awake' = [t \in Thread |-> IF awake[t] > 0 THEN awake[t] - 1 ELSE 0]
    /\ ThreadTick
    /\ cursor' = 2
    /\ WakeIdle
    /\ UNCHANGED <<current, status, priority, waiting, child, ready_list, sleep_list,
                   destruction_req, semaVars, panic>>

\* timer_interrupt: ticks++, thread_tick (), and thread_awake's first element.
TimerInterrupt ==
    /\ IntrOn
    /\ awake' = [t \in Thread |-> IF awake[t] > 0 THEN awake[t] - 1 ELSE 0]
    /\ ThreadTick
    /\ cursor' = 1
    /\ WakeIdle
    /\ UNCHANGED <<current, status, priority, waiting, child, ready_list, sleep_list,
                   destruction_req, semaVars, panic>>

\* Mutant: the walk goes on from the element after the next, as a loop that
\* removes and then calls list_next does.
ThreadAwakeSkips ==
    /\ InHandler /\ cursor <= Len(sleep_list)
    /\ cursor' = cursor + 1
    /\ LET t == sleep_list[cursor] IN
         \/ /\ awake[t] = 0
            /\ sleep_list' = RemoveAt(sleep_list, cursor)
            /\ ready_list' = InsertOrdered(ready_list, t, priority)
            /\ status' = [status EXCEPT ![t] = "READY"]
         \/ /\ awake[t] > 0
            /\ UNCHANGED <<sleep_list, ready_list, status>>
    /\ UNCHANGED <<current, threadVars, destruction_req, thread_ticks, semaVars,
                   yield_on_return, pc, panic>>

\* Mutant: woken threads go to the back of the ready list.
ThreadAwakeFifo ==
    /\ InHandler /\ cursor <= Len(sleep_list)
    /\ LET t == sleep_list[cursor] IN
         \/ /\ awake[t] = 0
            /\ sleep_list' = RemoveAt(sleep_list, cursor)
            /\ ready_list' = Append(ready_list, t)
            /\ status' = [status EXCEPT ![t] = "READY"]
            /\ UNCHANGED cursor
         \/ /\ awake[t] > 0
            /\ cursor' = cursor + 1
            /\ UNCHANGED <<sleep_list, ready_list, status>>
    /\ UNCHANGED <<current, threadVars, destruction_req, thread_ticks, semaVars,
                   yield_on_return, pc, panic>>

\* One turn of the loop of thread_awake: list_remove returns the next element,
\* so the place in the list stands still when a sleeper is taken out.
ThreadAwake ==
    /\ InHandler /\ cursor <= Len(sleep_list)
    /\ LET t == sleep_list[cursor] IN
         \/ /\ awake[t] = 0
            /\ sleep_list' = RemoveAt(sleep_list, cursor)
            /\ ready_list' = InsertOrdered(ready_list, t, priority)
            /\ status' = [status EXCEPT ![t] = "READY"]
            /\ UNCHANGED cursor
         \/ /\ awake[t] > 0
            /\ cursor' = cursor + 1
            /\ UNCHANGED <<sleep_list, ready_list, status>>
    /\ UNCHANGED <<current, threadVars, destruction_req, thread_ticks, semaVars,
                   yield_on_return, pc, panic>>

\* The end of intr_handler: yield if the handler asked for it.
InterruptReturn ==
    /\ InHandler /\ cursor > Len(sleep_list)
    /\ cursor' = 0
    /\ yield_on_return' = FALSE
    /\ IF yield_on_return THEN Yield(status, ready_list) ELSE UNCHANGED cpuVars
    /\ UNCHANGED <<threadVars, semaVars, pc, sleep_list, panic>>

\* The loop of idle (): disable interrupts, block, and once dispatched again
\* `sti; hlt'.
IdleLoop ==
    /\ ~InHandler /\ pc[current] = "loop"
    /\ Block
    /\ Goto("halt")
    /\ UNCHANGED <<threadVars, semaVars, intrVars, sleep_list, panic>>

-----------------------------------------------------------------------------
(* Calls of thread.c and timer.c.                                          *)

\* timer_sleep(n): the start tick is read, then thread_sleep puts the thread
\* on the sleep list with interrupts disabled.  A tick may come in between.
TimerSleep(n) ==
    /\ Calling("sleep")
    /\ awake' = [awake EXCEPT ![current] = n]
    /\ Goto("sleep")
    /\ UNCHANGED <<priority, waiting, child, cpuVars, semaVars, intrVars, sleep_list, panic>>

ThreadSleep ==
    /\ ~InHandler /\ pc[current] = "sleep"
    /\ sleep_list' = Append(sleep_list, current)
    /\ Block
    /\ Goto("call")
    /\ UNCHANGED <<threadVars, semaVars, intrVars, panic>>

ThreadYield ==
    /\ Calling("yield")
    /\ Yield(status, ready_list)
    /\ UNCHANGED <<threadVars, semaVars, intrVars, pc, sleep_list, panic>>

\* thread_create up to thread_unblock(t).
ThreadCreate(t, p) ==
    /\ Calling("create")
    /\ status[t] = "FREE"
    /\ priority' = [priority EXCEPT ![t] = p]
    /\ status' = [status EXCEPT ![t] = "READY"]
    /\ ready_list' = InsertOrdered(ready_list, t, priority')
    /\ child' = [child EXCEPT ![current] = t]
    /\ pc' = [pc EXCEPT ![current] = "compare", ![t] = "call"]
    /\ UNCHANGED <<current, awake, waiting, destruction_req, thread_ticks, semaVars,
                   intrVars, sleep_list, panic>>

\* thread_create when palloc has a page for the thread but none for the fdt:
\* it returns TID_ERROR and the page stays a BLOCKED thread nobody will ready.
ThreadCreateNoFdt(t, p) ==
    /\ Calling("create")
    /\ status[t] = "FREE"
    /\ priority' = [priority EXCEPT ![t] = p]
    /\ status' = [status EXCEPT ![t] = "BLOCKED"]
    /\ UNCHANGED <<current, awake, waiting, child, ready_list, destruction_req,
                   thread_ticks, semaVars, intrVars, pc, sleep_list, panic>>

\* thread_set_priority(p) before thread_compare_priority; without locks nobody
\* donates and re_priority leaves init_priority.
ThreadSetPriority(p) ==
    /\ Calling("setpri")
    /\ priority' = [priority EXCEPT ![current] = p]
    /\ Goto("compare")
    /\ UNCHANGED <<awake, waiting, child, cpuVars, semaVars, intrVars, sleep_list, panic>>

AfterCompare == IF child[current] = None THEN "call" ELSE "push"

\* thread_compare_priority with interrupts enabled, its two reads of the
\* list and its yield: an interrupt may come before each.
CompareEmpty ==
    /\ ~InHandler /\ pc[current] = "compare"
    /\ Goto(IF ready_list = <<>> THEN AfterCompare ELSE "front")
    /\ UNCHANGED <<threadVars, cpuVars, semaVars, intrVars, sleep_list, panic>>

\* list_front asserts that the list is not empty.
CompareFront ==
    /\ ~InHandler /\ pc[current] = "front"
    /\ \/ /\ ready_list = <<>>
          /\ panic' = TRUE
          /\ UNCHANGED pc
       \/ /\ ready_list # <<>>
          /\ Goto(IF Outranked(ready_list) THEN "yield" ELSE AfterCompare)
          /\ UNCHANGED panic
    /\ UNCHANGED <<threadVars, cpuVars, semaVars, intrVars, sleep_list>>

\* thread_yield, whoever is at the front of the list by then.
CompareYield ==
    /\ ~InHandler /\ pc[current] = "yield"
    /\ Yield(status, ready_list)
    /\ Goto(AfterCompare)
    /\ UNCHANGED <<threadVars, semaVars, intrVars, sleep_list, panic>>

\* The push of the child's child_elem, whatever became of the child.
ChildPush ==
    /\ ~InHandler /\ pc[current] = "push"
    /\ child' = [child EXCEPT ![current] = None]
    /\ Goto("call")
    /\ UNCHANGED <<priority, awake, waiting, cpuVars, semaVars, intrVars, sleep_list, panic>>

ThreadExit ==
    /\ Calling("exit")
    /\ DoSchedule(status, "DYING", ready_list)
    /\ Goto("none")
    /\ UNCHANGED <<threadVars, semaVars, intrVars, sleep_list, panic>>

-----------------------------------------------------------------------------
SemaNext == \/ SemaDownResume
            \/ \E s \in Sema : SemaDown(s) \/ SemaTryDown(s) \/ SemaUp(s)
InterruptNext == \/ TimerInterrupt \/ ThreadAwake \/ InterruptReturn \/ IdleLoop
                 \/ \E s \in DeviceSema : DeviceInterrupt(s)
SleepNext == ThreadSleep \/ \E n \in SleepTicks : TimerSleep(n)
PriorityNext == CompareEmpty \/ CompareFront \/ CompareYield \/ \E p \in Pri : ThreadSetPriority(p)
LifeNext == \/ ThreadExit \/ ChildPush
            \/ \E t \in Thread, p \in Pri : ThreadCreate(t, p) \/ ThreadCreateNoFdt(t, p)

\* PANIC prints and stops the machine.
Halted == panic /\ UNCHANGED vars

Next == \/ /\ ~panic
           /\ SemaNext \/ InterruptNext \/ SleepNext \/ PriorityNext \/ LifeNext \/ ThreadYield
        \/ Halted

Spec == Init /\ [][Next]_vars

\* The timer interrupt stays pending while interrupts are disabled, so a CPU
\* that enables them again and again takes it; code that runs with interrupts
\* disabled goes on; thread functions may loop or stop calling.
Fairness == /\ SF_vars(~panic /\ TimerInterrupt)
            /\ WF_vars(~panic /\ (ThreadAwake \/ InterruptReturn \/ SemaDownResume))
            /\ WF_vars(~panic /\ IdleLoop)

FairSpec == Spec /\ Fairness

-----------------------------------------------------------------------------
(* Properties.                                                             *)

TypeOK ==
    /\ current \in Thread
    /\ status \in [Thread -> Status]
    /\ priority \in [Thread -> Nat]
    /\ awake \in [Thread -> Nat]
    /\ pc \in [Thread -> PcValues]
    /\ waiting \in [Thread -> Sema \cup {None}]
    /\ child \in [Thread -> Thread \cup {None}]
    /\ ready_list \in Seq(Thread)
    /\ sleep_list \in Seq(Thread)
    /\ destruction_req \in Seq(Thread)
    /\ thread_ticks \in Nat
    /\ value \in [Sema -> 0..MaxValue]
    /\ waiters \in [Sema -> Seq(Thread)]
    /\ cursor \in Nat
    /\ yield_on_return \in BOOLEAN
    /\ panic \in BOOLEAN

\* The one thread whose status is THREAD_RUNNING is the one on the CPU
\* (thread_current asserts it on every call).
OneRunning == \A t \in Thread : status[t] = "RUNNING" <=> t = current

\* thread.h: one `elem' serves the run queue and the wait queues "only because
\* they are mutually exclusive".  Every list holds exactly the threads whose
\* status and place in the code say so, none twice; idle is in no list.
ReadyIsReady ==
    /\ NoRepeat(ready_list)
    /\ \A t \in Thread \ {Idle} : status[t] = "READY" <=> t \in Range(ready_list)
    /\ Idle \notin Range(ready_list)
SleepersAreBlocked ==
    /\ NoRepeat(sleep_list)
    /\ \A t \in Range(sleep_list) :
         status[t] = "BLOCKED" /\ pc[t] = "call" /\ waiting[t] = None /\ t # Idle
WaitersAreBlocked ==
    /\ \A s \in Sema : NoRepeat(waiters[s])
    /\ \A s \in Sema : \A t \in Range(waiters[s]) :
         status[t] = "BLOCKED" /\ pc[t] = "down" /\ waiting[t] = s
DyingAreQueued ==
    /\ NoRepeat(destruction_req)
    /\ \A t \in Thread \ {Main} : status[t] = "DYING" <=> t \in Range(destruction_req)
    /\ Main \notin Range(destruction_req)
ListsMatchStatus ==
    OneRunning /\ ReadyIsReady /\ SleepersAreBlocked /\ WaitersAreBlocked /\ DyingAreQueued

\* Nobody is forgotten: a blocked thread that got as far as running is idle, or
\* asleep on the sleep list, or on the waiters of the semaphore it downs.
BlockedIsFindable ==
    \A t \in Thread : status[t] = "BLOCKED" /\ pc[t] # "none" =>
        \/ t = Idle
        \/ t \in Range(sleep_list)
        \/ \E s \in Sema : t \in Range(waiters[s])

\* The place in the code says whether the thread is idle and whether it waits
\* in sema_down, and a page without a live thread is nowhere in the code: a
\* woken waiter finds its semaphore, a freed page is not resumed.
PlaceMatches ==
    \A t \in Thread :
        /\ pc[t] \in {"halt", "loop"} <=> t = Idle
        /\ pc[t] = "down" <=> waiting[t] # None
        /\ status[t] \in {"FREE", "DYING"} => pc[t] = "none"

\* next_thread_to_run takes the front: the ready list must be in order of
\* priority whatever the order of wakeups, yields and changes of priority.
ReadySorted == Decreasing(ready_list, priority)

\* sema_up readies one waiter and raises the value, sema_down tests again when
\* dispatched: while someone waits, every unit of the value is matched by a
\* woken thread that has yet to come for it.
Woken(s) == {t \in Thread : status[t] \in {"READY", "RUNNING"} /\ waiting[t] = s}
NoLostWakeup == \A s \in Sema : waiters[s] # <<>> => value[s] <= Cardinality(Woken(s))

\* do_schedule frees pages only of threads that are dead and off the CPU: never
\* the page whose stack the kernel stands on.
FreedIsOffCpu ==
    [][\A t \in Thread : status'[t] = "FREE" /\ status[t] # "FREE" =>
          status[t] = "DYING" /\ t # current /\ t # current']_vars

\* thread_awake wakes nobody early, and when the handler is done nobody whose
\* time has come is left on the list: its cursor skips no element although it
\* removes elements while it walks.
WakeOnTime ==
    [][/\ \A t \in Range(sleep_list) : t \notin Range(sleep_list') => awake[t] = 0
       /\ InHandler /\ ~InHandler' => \A t \in Range(sleep_list) : awake[t] > 0]_vars

\* A switch gives the CPU to a thread of highest priority among the ready ones,
\* the running one included when it merely yields; idle only if there is none.
SwitchToHighest ==
    [][current' # current => \A t \in Thread \ {Idle} :
          status'[t] = "READY" => priority[t] <= priority[current']]_vars

\* Everyone who sleeps is put back on the ready list.
SleeperWakes ==
    \A t \in Thread : t \in Range(sleep_list) ~> (t \notin Range(sleep_list) \/ panic)

\* Time slices: a ready thread that nobody outranks is dispatched, or stops
\* being of highest priority.
SliceIsShared ==
    \A t \in Thread \ {Idle} :
        (status[t] = "READY" /\ \A u \in Thread : priority[u] <= priority[t])
          ~> \/ status[t] = "RUNNING" \/ panic
             \/ \E u \in Thread : priority[u] > priority[t]

=============================================================================
