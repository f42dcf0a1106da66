------------------------------- MODULE Condvar -------------------------------
(***************************************************************************)
(* The condition variables of threads/synch.c on top of Locks: one         *)
(* condition, its lock, and for every thread the struct semaphore_elem     *)
(* that cond_wait keeps on that thread's stack.  stage[t] is the place of  *)
(* t in the condition's functions:                                         *)
(*   "no"         outside the condition's functions                        *)
(*   "release"    cond_wait, in lock_release                               *)
(*   "down"       cond_wait, in sema_down of its own semaphore             *)
(*   "reacquire"  cond_wait, in lock_acquire                               *)
(*   "broadcast"  in the loop of cond_broadcast                            *)
(***************************************************************************)
EXTENDS Locks

CONSTANTS
    Cond,        \* the lock of the condition
    ElemSema,    \* the semaphore of each thread's semaphore_elem
    CondCalls    \* which functions the threads call

ASSUME CondAssumption == /\ Cond \in Lock
                         /\ ElemSema \in [Worker -> Sema \ Lock]
                         /\ \A t, u \in Worker : ElemSema[t] = ElemSema[u] => t = u
                         /\ CondCalls \subseteq {"wait", "signal", "broadcast"}

VARIABLES
    cond_waiters,    \* cond->waiters, each element named by its thread
    stage            \* the place of each thread

condVars == <<cond_waiters, stage>>
everyVar == <<allVars, condVars>>

CondInit == /\ LockInit
            /\ cond_waiters = <<>>
            /\ stage = [t \in Worker |-> "no"]

\* They are locals of cond_wait: only it and cond_signal reach them.
ElemSemas == {ElemSema[t] : t \in Worker}

Enter(place) == stage' = [stage EXCEPT ![current] = place]

\* At its own code again between two calls that cond_wait makes.
Between(place) == current \in Worker /\ Here("out") /\ stage[current] = place

HoldsCond(name) == Between("no") /\ name \in CondCalls /\ holder[Cond] = current

\* What sema_cmp_priority reads for each element: the priority of the first
\* waiter of its semaphore.  A thread between the insertion and its sema_down
\* has no waiter there, list_begin is the tail of the list and the memory read
\* is no thread's priority: any value, below or above the others.
Garbage == {0} \cup Pri \cup {p + 1 : p \in Pri}
Keys == {key \in [Worker -> Garbage] :
            \A t \in Worker : waiters[ElemSema[t]] # <<>> =>
                key[t] = priority[Head(waiters[ElemSema[t]])]}

\* cond_wait up to its call of lock_release.
CondWait ==
    /\ HoldsCond("wait")
    /\ \E key \in Keys : cond_waiters' = InsertOrdered(cond_waiters, current, key)
    /\ value' = [value EXCEPT ![ElemSema[current]] = 0]
    /\ waiters' = [waiters EXCEPT ![ElemSema[current]] = <<>>]
    /\ Enter("release")
    /\ To(IF Mlfqs THEN "clear" ELSE "remove")
    /\ lock' = [lock EXCEPT ![current] = Cond]
    /\ UNCHANGED <<threadVars, cpuVars, intrVars, pc, sleep_list, panic, lockVars, donee, depth>>

CondDown ==
    /\ Between("release")
    /\ DownTurn(ElemSema[current])
    /\ Enter("down")
    /\ UNCHANGED <<priority, awake, child, sleep_list, intrVars, panic, lockVars, localVars,
                   cond_waiters>>

CondReacquire ==
    /\ Between("down")
    /\ To(IF Mlfqs THEN "down" ELSE "test")
    /\ lock' = [lock EXCEPT ![current] = Cond]
    /\ Enter("reacquire")
    /\ UNCHANGED <<vars, lockVars, donee, depth, cond_waiters>>

CondReturn ==
    /\ Between("reacquire")
    /\ Enter("no")
    /\ UNCHANGED <<allVars, cond_waiters>>

\* Mutant: list_front in the place of list_pop_front.
SignalKeepsElem ==
    /\ cond_waiters # <<>>
    /\ \E key \in Keys : \E q \in SortedOf(cond_waiters, key) :
         /\ cond_waiters' = q
         /\ Up(ElemSema[Head(q)], FALSE)
    /\ UNCHANGED <<threadVars, intrVars, pc, sleep_list, lockVars, localVars, panic>>

\* Mutant: the semaphore is upped only if its thread is in sema_down already.
SignalOnlyBlocked ==
    /\ cond_waiters # <<>>
    /\ \E key \in Keys : \E q \in SortedOf(cond_waiters, key) :
         /\ cond_waiters' = Tail(q)
         /\ \/ waiters[ElemSema[Head(q)]] # <<>> /\ Up(ElemSema[Head(q)], FALSE)
            \/ waiters[ElemSema[Head(q)]] = <<>> /\ UNCHANGED <<cpuVars, semaVars>>
    /\ UNCHANGED <<threadVars, intrVars, pc, sleep_list, lockVars, localVars, panic>>

\* The body of cond_signal: only the sort depends on the test of list_empty,
\* and list_pop_front asserts that the list is not empty.
Signal ==
    /\ \/ /\ cond_waiters = <<>>
          /\ panic' = TRUE
          /\ UNCHANGED <<cond_waiters, cpuVars, semaVars>>
       \/ /\ cond_waiters # <<>>
          /\ \E key \in Keys : \E q \in SortedOf(cond_waiters, key) :
               /\ cond_waiters' = Tail(q)
               /\ Up(ElemSema[Head(q)], FALSE)
          /\ UNCHANGED panic
    /\ UNCHANGED <<threadVars, intrVars, pc, sleep_list, lockVars, localVars>>

CondSignal == HoldsCond("signal") /\ Signal /\ UNCHANGED stage

CondBroadcast ==
    /\ HoldsCond("broadcast")
    /\ Enter("broadcast")
    /\ UNCHANGED <<allVars, cond_waiters>>

BroadcastTurn ==
    /\ Between("broadcast")
    /\ \/ cond_waiters # <<>> /\ Signal /\ UNCHANGED stage
       \/ cond_waiters = <<>> /\ Enter("no") /\ UNCHANGED <<allVars, cond_waiters>>

-----------------------------------------------------------------------------
\* The threads' own calls, and the steps inside the functions they called.
OwnCall == /\ current \in Worker /\ stage[current] = "no"
           /\ \/ \E l \in Lock : LockAcquire(l) \/ LockRelease(l)
              \/ SchedulerCall(Sema \ (Lock \cup ElemSemas)) /\ KeepLocks
InsideStep ==
    \/ TestHolder \/ InsertDonation \/ DonateTurn \/ AcquireDown \/ AcquireResume \/ SetHolder
    \/ RemoveDonation \/ RestoreBase \/ RestoreMax \/ ClearHolder \/ ReleaseUp
    \/ /\ KeepLocks
       /\ \/ TimerInterrupt \/ ThreadAwake \/ InterruptReturn \/ IdleLoop
          \/ at[current] = "out" /\ SemaDownResume

CondStep == \/ CondWait \/ CondDown \/ CondReacquire \/ CondReturn
            \/ CondSignal \/ CondBroadcast \/ BroadcastTurn

CondNext ==
    \/ /\ ~panic /\ ~Relinked
       /\ \/ CondStep
          \/ (OwnCall \/ InsideStep) /\ UNCHANGED condVars
    \/ (panic \/ Relinked) /\ UNCHANGED everyVar

CondSpec == CondInit /\ [][CondNext]_everyVar

-----------------------------------------------------------------------------
(* Properties.                                                             *)

CondTypeOK == /\ LockTypeOK
              /\ cond_waiters \in Seq(Worker)
              /\ stage \in [Worker -> {"no", "release", "down", "reacquire", "broadcast"}]

\* A semaphore_elem lives on the stack of its cond_wait: one still on the
\* condition's list belongs to a thread that has not come out of its sema_down.
WaitersAreInWait ==
    /\ NoRepeat(cond_waiters)
    /\ \A t \in Range(cond_waiters) :
         stage[t] \in {"release", "down"} /\ (stage[t] = "down" => pc[t] = "down")

\* cond_wait releases the lock and waits "atomically": from the moment the lock
\* is free a waiter can be signalled, and a waiter taken off the list has its
\* unit, so that no signal is lost however late the thread gets to sema_down.
SignalIsKept ==
    \A t \in Worker :
        LET waits == \/ stage[t] = "release"
                     \/ stage[t] = "down" /\ pc[t] = "down"
        IN /\ waits /\ t \notin Range(cond_waiters) => value[ElemSema[t]] = 1
           /\ t \in Range(cond_waiters) => value[ElemSema[t]] = 0

\* cond_wait comes back with the lock held by the thread that waited, and the
\* list is changed only by the holder of the lock.
CondUnderLock ==
    /\ \A t \in Worker : stage[t] = "reacquire" /\ at[t] = "out" => holder[Cond] = t
    /\ \A t \in Worker : stage[t] = "broadcast" => holder[Cond] = t
=============================================================================
