-------------------------------- MODULE Locks --------------------------------
(***************************************************************************)
(* The locks of threads/synch.c and the priority donation of               *)
(* threads/thread.c on top of Scheduler.  A lock is its semaphore (an      *)
(* element of Sema with initial value 1) and its holder.                   *)
(*                                                                         *)
(* lock_acquire and lock_release disable interrupts only inside sema_down  *)
(* and sema_up, so a timer interrupt may switch threads between any two of *)
(* their statements.  at[t] is the place of t in them:                     *)
(*   "out"      not in a lock function                                     *)
(*   "test"     lock_acquire, before the test of lock->holder              *)
(*   "insert"   before the insertion in holder->donations                  *)
(*   "donate"   in the loop of priority_donation                           *)
(*   "down"     in or before sema_down                                     *)
(*   "took"     after sema_down, before the assignment of holder           *)
(*   "remove"   lock_release, before remove_donation                       *)
(*   "base"     in re_priority, before priority = init_priority            *)
(*   "max"      in re_priority, before the sort of donations               *)
(*   "clear"    before holder = NULL                                       *)
(*   "up"       before sema_up                                             *)
(* and pc[t], the place in the scheduler's code, is "call" or "down".      *)
(* The threads are those running at the start: creation and exit of        *)
(* threads are Scheduler's.                                                *)
(***************************************************************************)
EXTENDS Scheduler

CONSTANTS
    Worker,      \* the threads, other than idle, that run
    Mlfqs,       \* thread_mlfqs
    BasePri,     \* their priorities at creation
    MaxDepth,    \* the 8 of priority_donation
    LockCalls    \* which lock functions the threads call

Lock == {s \in Sema : InitValue[s] = 1}

ASSUME WorkerAssumption == /\ Worker \subseteq Thread \ {Idle} /\ Main \in Worker
                           /\ IsFiniteSet(Worker) /\ BasePri \in [Worker -> Pri]
ASSUME LockAssumption == /\ Mlfqs \in BOOLEAN /\ MaxDepth \in Nat
                         /\ LockCalls \subseteq {"acquire", "try", "release", "setpri"}

VARIABLES
    holder,          \* lock->holder
    wait_on_lock, init_priority, donations,   \* of struct thread
    at, lock,        \* the place in a lock function, and its argument
    donee, depth     \* locals of priority_donation

lockVars == <<holder, wait_on_lock, init_priority, donations>>
localVars == <<at, lock, donee, depth>>
allVars == <<vars, lockVars, localVars>>

At == {"out", "test", "insert", "donate", "down", "took", "remove", "base", "max", "clear", "up"}

\* The workers have been created: main runs, the others are ready.
LockInit ==
    /\ current = Main
    /\ status = [t \in Thread |-> CASE t = Main -> "RUNNING" [] t = Idle -> "BLOCKED"
                                    [] t \in Worker \ {Main} -> "READY" [] OTHER -> "FREE"]
    /\ priority = [t \in Thread |-> IF t \in Worker THEN BasePri[t] ELSE 0]
    /\ \E q \in [1..Cardinality(Worker) - 1 -> Worker \ {Main}] :
         /\ NoRepeat(q) /\ Range(q) = Worker \ {Main} /\ Decreasing(q, priority)
         /\ ready_list = q
    /\ awake = [t \in Thread |-> 0]
    /\ pc = [t \in Thread |-> CASE t \in Worker -> "call" [] t = Idle -> "halt"
                                [] OTHER -> "none"]
    /\ waiting = [t \in Thread |-> None] /\ child = [t \in Thread |-> None]
    /\ sleep_list = <<>> /\ destruction_req = <<>>
    /\ thread_ticks = 0 /\ cursor = 0 /\ yield_on_return = FALSE /\ panic = FALSE
    /\ value = InitValue /\ waiters = [s \in Sema |-> <<>>]
    /\ holder = [l \in Lock |-> None]
    /\ wait_on_lock = [t \in Thread |-> None]
    /\ init_priority = priority
    /\ donations = [t \in Thread |-> <<>>]
    /\ at = [t \in Thread |-> "out"] /\ lock = [t \in Thread |-> None]
    /\ donee = [t \in Thread |-> None] /\ depth = [t \in Thread |-> 0]

\* The running thread is at `place', with interrupts enabled.
Here(place) == ~InHandler /\ pc[current] = "call" /\ at[current] = place

To(place) == at' = [at EXCEPT ![current] = place]
Return == To("out") /\ lock' = [lock EXCEPT ![current] = None]

\* What a step that does not touch the scheduler's state leaves alone.
SchedulerVars == <<awake, waiting, child, cpuVars, semaVars, intrVars, sleep_list>>

-----------------------------------------------------------------------------
(* lock_acquire                                                            *)

LockAcquire(l) ==
    /\ Here("out") /\ "acquire" \in LockCalls
    /\ holder[l] # current                       \* ASSERTed
    /\ To(IF Mlfqs THEN "down" ELSE "test")
    /\ lock' = [lock EXCEPT ![current] = l]
    /\ UNCHANGED <<vars, lockVars, donee, depth>>

\* if (lock->holder) { curr->wait_on_lock = lock; ...
TestHolder ==
    /\ Here("test")
    /\ \/ /\ holder[lock[current]] = None
          /\ To("down")
          /\ UNCHANGED wait_on_lock
       \/ /\ holder[lock[current]] # None
          /\ wait_on_lock' = [wait_on_lock EXCEPT ![current] = lock[current]]
          /\ To("insert")
    /\ UNCHANGED <<vars, holder, init_priority, donations, lock, donee, depth>>

\* lock->holder is read again: it may have become NULL, and then the insertion
\* faults in the kernel.
InsertDonation ==
    /\ Here("insert")
    /\ LET h == holder[lock[current]] IN
         \/ /\ h = None
            /\ panic' = TRUE
            /\ UNCHANGED <<donations, donee, depth, at>>
         \/ /\ h # None
            /\ donations' = [donations EXCEPT ![h] = InsertOrdered(@, current, priority)]
            /\ donee' = [donee EXCEPT ![current] = current]
            /\ depth' = [depth EXCEPT ![current] = 0]
            /\ To("donate")
            /\ UNCHANGED panic
    /\ UNCHANGED <<SchedulerVars, priority, pc, holder, wait_on_lock, init_priority, lock>>

\* One turn of the loop of priority_donation.  The donee's priority is
\* overwritten, and whatever list it is in is left as it is.
DonateTurn ==
    /\ Here("donate")
    /\ LET d == donee[current]
           w == wait_on_lock[d]
       IN \/ /\ depth[current] = MaxDepth \/ w = None
             /\ To("down")
             /\ donee' = [donee EXCEPT ![current] = None]
             /\ depth' = [depth EXCEPT ![current] = 0]
             /\ UNCHANGED <<priority, panic>>
          \/ /\ depth[current] < MaxDepth /\ w # None
             /\ holder[w] = None
             /\ panic' = TRUE
             /\ UNCHANGED <<priority, donee, depth, at>>
          \/ /\ depth[current] < MaxDepth /\ w # None
             /\ holder[w] # None
             /\ priority' = [priority EXCEPT ![holder[w]] = priority[d]]
             /\ donee' = [donee EXCEPT ![current] = holder[w]]
             /\ depth' = [depth EXCEPT ![current] = @ + 1]
             /\ UNCHANGED <<at, panic>>
    /\ UNCHANGED <<SchedulerVars, pc, holder, wait_on_lock, init_priority, donations, lock>>

\* sema_down (&lock->semaphore), whose later turns are SemaDownResume.
AcquireDown ==
    /\ Here("down")
    /\ DownTurn(lock[current])
    /\ To(IF value[lock[current]] > 0 THEN "took" ELSE "down")
    /\ UNCHANGED <<priority, awake, child, sleep_list, intrVars, panic,
                   lockVars, lock, donee, depth>>

AcquireResume ==
    /\ at[current] = "down"
    /\ SemaDownResume
    /\ To(IF value[waiting[current]] > 0 THEN "took" ELSE "down")
    /\ UNCHANGED <<lockVars, lock, donee, depth>>

\* curr->wait_on_lock = NULL; lock->holder = curr.  lock_try_acquire and the
\* mlfqs branch do not touch wait_on_lock, which is NULL there.
SetHolder ==
    /\ Here("took")
    /\ wait_on_lock' = [wait_on_lock EXCEPT ![current] = None]
    /\ holder' = [holder EXCEPT ![lock[current]] = current]
    /\ Return
    /\ UNCHANGED <<vars, init_priority, donations, donee, depth>>

\* Mutant: the value is tested but not taken.
LockTryAcquireTestsOnly(l) ==
    /\ Here("out") /\ "try" \in LockCalls
    /\ holder[l] # current
    /\ value[l] > 0
    /\ lock' = [lock EXCEPT ![current] = l]
    /\ To("took")
    /\ UNCHANGED <<vars, lockVars, donee, depth>>

\* lock_try_acquire when sema_try_down succeeds.
LockTryAcquire(l) ==
    /\ Here("out") /\ "try" \in LockCalls
    /\ holder[l] # current
    /\ value[l] > 0
    /\ value' = [value EXCEPT ![l] = @ - 1]
    /\ lock' = [lock EXCEPT ![current] = l]
    /\ To("took")
    /\ UNCHANGED <<threadVars, cpuVars, waiters, intrVars, pc, sleep_list, panic,
                   lockVars, donee, depth>>

-----------------------------------------------------------------------------
(* lock_release and thread_set_priority                                    *)

LockRelease(l) ==
    /\ Here("out") /\ "release" \in LockCalls
    /\ holder[l] = current                       \* ASSERTed
    /\ To(IF Mlfqs THEN "clear" ELSE "remove")
    /\ lock' = [lock EXCEPT ![current] = l]
    /\ UNCHANGED <<vars, lockVars, donee, depth>>

RemoveDonation ==
    /\ Here("remove")
    /\ \E q \in Unlinked(donations[current], {t \in Thread : wait_on_lock[t] = lock[current]}) :
         donations' = [donations EXCEPT ![current] = q]
    /\ To("base")
    /\ UNCHANGED <<vars, holder, wait_on_lock, init_priority, lock, donee, depth>>

\* thread_set_priority(p) stores the base; with -mlfqs it does nothing.
SetBasePriority(p) ==
    /\ Here("out") /\ "setpri" \in LockCalls /\ ~Mlfqs
    /\ init_priority' = [init_priority EXCEPT ![current] = p]
    /\ To("base")
    /\ UNCHANGED <<vars, holder, wait_on_lock, donations, lock, donee, depth>>

\* re_priority is over: lock_release goes on, thread_set_priority goes on to
\* thread_compare_priority.
Restored ==
    IF lock[current] = None
    THEN Goto("compare") /\ To("out")
    ELSE To("clear") /\ UNCHANGED pc

RestoreBase ==
    /\ Here("base")
    /\ priority' = [priority EXCEPT ![current] = init_priority[current]]
    /\ IF donations[current] = <<>> THEN Restored ELSE To("max") /\ UNCHANGED pc
    /\ UNCHANGED <<SchedulerVars, panic, lockVars, lock, donee, depth>>

RestoreMax ==
    /\ Here("max")
    /\ \E q \in SortedOf(donations[current], priority) :
         /\ donations' = [donations EXCEPT ![current] = q]
         /\ priority' = [priority EXCEPT ![current] =
                           IF @ < priority[Head(q)] THEN priority[Head(q)] ELSE @]
    /\ Restored
    /\ UNCHANGED <<SchedulerVars, panic, holder, wait_on_lock, init_priority, lock, donee, depth>>

ClearHolder ==
    /\ Here("clear")
    /\ holder' = [holder EXCEPT ![lock[current]] = None]
    /\ To("up")
    /\ UNCHANGED <<vars, wait_on_lock, init_priority, donations, lock, donee, depth>>

ReleaseUp ==
    /\ Here("up")
    /\ Up(lock[current], FALSE)
    /\ Return
    /\ UNCHANGED <<threadVars, intrVars, pc, sleep_list, panic, lockVars, donee, depth>>
-----------------------------------------------------------------------------
KeepLocks == UNCHANGED <<lockVars, localVars>>

\* The same d_elem linked at two places: the second insertion overwrote the
\* links of the first, and what the two lists then hold is undefined.  The
\* model follows the code up to there.
Relinked ==
    \E t \in Worker : \E h1, h2 \in Worker :
        \E i \in 1..Len(donations[h1]), j \in 1..Len(donations[h2]) :
            /\ donations[h1][i] = t /\ donations[h2][j] = t
            /\ <<h1, i>> # <<h2, j>>

AcquireNext == \/ TestHolder \/ InsertDonation \/ DonateTurn \/ AcquireDown
               \/ AcquireResume \/ SetHolder
               \/ \E l \in Lock : LockAcquire(l) \/ LockTryAcquire(l)
ReleaseNext == \/ RemoveDonation \/ RestoreBase \/ RestoreMax \/ ClearHolder \/ ReleaseUp
               \/ \E l \in Lock : LockRelease(l)
               \/ \E p \in Pri : SetBasePriority(p)

\* The scheduler's steps: the semaphores the threads have a pointer to, never a
\* lock's, sleep and yield outside the lock functions, and everything
\* interrupts do.
SchedulerCall(semas) ==
    /\ at[current] = "out"
    /\ \/ \E s \in semas : SemaDown(s) \/ SemaUp(s)
       \/ SleepNext \/ ThreadYield \/ CompareEmpty \/ CompareFront \/ CompareYield
SchedulerStep ==
    /\ \/ SchedulerCall(Sema \ Lock)
       \/ TimerInterrupt \/ ThreadAwake \/ InterruptReturn \/ IdleLoop
       \/ at[current] = "out" /\ SemaDownResume
    /\ KeepLocks

LockNext ==
    \/ /\ ~panic /\ ~Relinked
       /\ AcquireNext \/ ReleaseNext \/ SchedulerStep
    \/ (panic \/ Relinked) /\ UNCHANGED allVars

LockSpec == LockInit /\ [][LockNext]_allVars

-----------------------------------------------------------------------------
(* Properties.                                                             *)

LockTypeOK ==
    /\ TypeOK
    /\ holder \in [Lock -> Thread \cup {None}]
    /\ wait_on_lock \in [Thread -> Lock \cup {None}]
    /\ init_priority \in [Thread -> Nat]
    /\ donations \in [Thread -> Seq(Thread)]
    /\ at \in [Thread -> At]
    /\ lock \in [Thread -> Lock \cup {None}]
    /\ donee \in [Thread -> Thread \cup {None}]
    /\ depth \in [Thread -> 0..MaxDepth]

\* t is past the sema_down of l and not yet at its sema_up.
Owns(t, l) == \/ at[t] = "took" /\ lock[t] = l
              \/ holder[l] = t
              \/ at[t] = "up" /\ lock[t] = l
Owners(l) == {t \in Thread : Owns(t, l)}

\* Whatever preempts lock_acquire and lock_release between two statements, the
\* unit of the semaphore is in the semaphore or with exactly one thread.
OneOwner == \A l \in Lock : value[l] + Cardinality(Owners(l)) = 1

-----------------------------------------------------------------------------
(* Claims the code does not keep (see the findings).                       *)

\* exception.c: "Kernel code shouldn't throw exceptions."  lock_acquire and
\* priority_donation follow lock->holder, which they found not to be NULL.
LockCodeDoesNotFault == panic => at[current] \notin {"insert", "donate"}

=============================================================================
