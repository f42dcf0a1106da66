-------------------------------- MODULE Mlfqs --------------------------------
(***************************************************************************)
(* The advanced scheduler of src/threads/thread.c (-mlfqs): load_avg,      *)
(* recent_cpu and the priorities computed from them by timer_interrupt, in *)
(* 17.14 fixed point, and the ready list, which is ordered when a thread   *)
(* enters it and not when the priorities change.  Threads compute, sleep   *)
(* and wake; calls other than thread_sleep and thread_set_nice are in      *)
(* Scheduler, whose queues these are.                                      *)
(***************************************************************************)
EXTENDS ListOps

CONSTANTS
  Idle,
  Scenarios,  \* tests: the nice of each thread, the tick they start at, when and
              \* how long threads may nap, and what tests/threads/mlfqs expects
  F,          \* 1 << 14
  TIMER_FREQ, TIME_SLICE,
  SleepTime, SpinTime  \* sleep_time and spin_time of load_thread; bound: ticks

VARIABLES
  ticks, thread_ticks, load_avg,
  curr, ready_list,
  nice, recent_cpu, priority,
  sleep_list,
  awake,      \* thread -> the tick it sleeps to
  stage,      \* of load_thread: "nice", "sleep", "spin"
  tick_count, \* thread -> ticks it has seen
  scene       \* the scenario

vars == <<ticks, thread_ticks, load_avg, curr, ready_list, nice, recent_cpu,
          priority, sleep_list, awake, stage, tick_count, scene>>

Workers == DOMAIN scene.nice
Elapsed == ticks - scene.start   \* timer_elapsed (start_time)

(* int arithmetic: / truncates.                                            *)
Quot(a, b) == IF a >= 0 THEN a \div b ELSE -((-a) \div b)

convert_ntox(n) == n * F
convert_xton(x) == IF x >= 0 THEN (x + F \div 2) \div F ELSE -((-x + F \div 2) \div F)
add_xandn(x, n) == x + n * F
divide_xbyn(x, n) == IF n < 0 THEN -Quot(x, -n) ELSE Quot(x, n)

(* ((int64_t) x) * f / y for x, y >= 0, and ((int64_t) x) * y / f: worked  *)
(* out in parts, so that TLC's integers hold the products.                 *)
divide_xbyy(x, y) ==
    (F \div 128) * ((x * 128) \div y) + ((F \div 128) * ((x * 128) % y)) \div y
mult_xbyy(x, y) ==
    LET a == IF x < 0 THEN -x ELSE x
        b == IF y < 0 THEN -y ELSE y
        q == (a \div F) * b + (a % F) * (b \div F) + ((a % F) * (b % F)) \div F IN
    IF (x < 0) # (y < 0) THEN -q ELSE q

load_fir_co == divide_xbyn(convert_ntox(59), 60)
load_sec_co == divide_xbyn(convert_ntox(1), 60)

(* calculate_priority, which does not clamp to PRI_MIN .. PRI_MAX.         *)
calculate_priority(cpu, n) == convert_xton(add_xandn(divide_xbyn(cpu, -4), 63 - n * 2))
-----------------------------------------------------------------------------
\* main has created the threads and sleeps, for longer than the test takes.
Init ==
    /\ scene \in Scenarios
    /\ ticks = scene.start /\ thread_ticks = 0 /\ load_avg = 0
    /\ curr = 1 /\ ready_list = [n \in 1..Len(scene.nice) - 1 |-> n + 1] /\ sleep_list = <<>>
    /\ stage = [t \in Workers |-> "nice"]
    /\ priority = [t \in Workers |-> 31]   \* PRI_DEFAULT
    /\ nice = [t \in Workers |-> 0] /\ recent_cpu = nice /\ awake = nice /\ tick_count = nice

(* calculate_recent_cpu: the thread the tick finds running.                *)
Charged == IF curr = Idle THEN recent_cpu
           ELSE [recent_cpu EXCEPT ![curr] = add_xandn(@, 1)]

calculate_load_avg ==
    mult_xbyy(load_fir_co, load_avg)
        + load_sec_co * (Len(ready_list) + IF curr = Idle THEN 0 ELSE 1)

\* recalculate_recent_cpu; the mutant forgets to add nice.
DecayedOnly(cpu, load, n) == mult_xbyy(divide_xbyy(2 * load, 2 * load + F), cpu)
Decayed(cpu, load, n) ==
    mult_xbyy(divide_xbyy(2 * load, 2 * load + F), cpu) + convert_ntox(n)

(* thread_awake, with the priorities pri: the sleepers whose tick has come *)
(* enter the ready list.                                                   *)
Woken(list, pri, tick) ==
    FoldLeft(LAMBDA s, t : InsertOrdered(s, t, pri), list,
             SelectSeq(sleep_list, LAMBDA t : awake[t] <= tick))

\* schedule: the first thread of queue gets a new slice.
Schedule(queue) ==
    /\ curr' = IF queue = <<>> THEN Idle ELSE Head(queue)
    /\ ready_list' = IF queue = <<>> THEN <<>> ELSE Tail(queue)
    /\ thread_ticks' = 0

\* The loop of load_thread looks at the timer as soon as the thread runs, and has
\* not seen the tick of a switch before.
Seen == tick_count' = IF curr' # Idle /\ stage[curr'] = "spin"
                      THEN [tick_count EXCEPT ![curr'] = @ + 1] ELSE tick_count

(* timer_interrupt and what follows its return: thread_tick, the advanced  *)
(* scheduler's recalculations in the order of the code, thread_awake, and  *)
(* thread_yield if the time slice is over; idle blocks again at once.      *)
(* Bound: the threads of a test all begin within the tick it starts in.    *)
Tick ==
    LET tick == ticks + 1
        pri == IF tick % 4 = 0 THEN [t \in Workers |-> calculate_priority(Charged[t], nice[t])]
               ELSE priority
        second == tick % 4 = 0 /\ tick % TIMER_FREQ = 0
        load == IF second THEN calculate_load_avg ELSE load_avg
        woken == Woken(ready_list, pri, tick) IN
    /\ Elapsed + 1 < SpinTime
    /\ curr # Idle => stage[curr] = "spin"
    /\ ticks' = tick /\ priority' = pri /\ load_avg' = load
    /\ recent_cpu' = IF second THEN [t \in Workers |-> Decayed(Charged[t], load, nice[t])]
                     ELSE Charged
    /\ sleep_list' = SelectSeq(sleep_list, LAMBDA t : awake[t] > tick)
    /\ \/ curr = Idle /\ Schedule(woken)
       \/ /\ curr # Idle /\ thread_ticks + 1 >= TIME_SLICE
          /\ Schedule(InsertOrdered(woken, curr, pri))
       \/ /\ curr # Idle /\ thread_ticks + 1 < TIME_SLICE
          /\ ready_list' = woken /\ thread_ticks' = thread_ticks + 1 /\ UNCHANGED curr
    /\ Seen
    /\ UNCHANGED <<nice, awake, stage, scene>>

(* thread_set_nice, the first that load_thread does, with                  *)
(* thread_compare_priority at its end.                                     *)
SetNice ==
    LET n == scene.nice[curr]
        pri == [priority EXCEPT ![curr] = calculate_priority(recent_cpu[curr], n)] IN
    /\ curr # Idle /\ stage[curr] = "nice"
    /\ nice' = [nice EXCEPT ![curr] = n] /\ priority' = pri
    /\ stage' = [stage EXCEPT ![curr] = "sleep"]
    /\ IF ready_list # <<>> /\ pri[curr] < pri[Head(ready_list)]
       THEN Schedule(InsertOrdered(ready_list, curr, pri))
       ELSE UNCHANGED <<curr, ready_list, thread_ticks>>
    /\ UNCHANGED <<ticks, load_avg, recent_cpu, sleep_list, awake, tick_count, scene>>

(* timer_sleep: of load_thread after thread_set_nice, and of the threads   *)
(* that nap, at the ticks the scenario allows.                             *)
SleepUntil(tick) ==
    /\ awake' = [awake EXCEPT ![curr] = tick]
    /\ sleep_list' = Append(sleep_list, curr)
    /\ stage' = [stage EXCEPT ![curr] = "spin"]
    /\ Schedule(ready_list)
    /\ Seen
    /\ UNCHANGED <<ticks, load_avg, nice, recent_cpu, priority, scene>>
Sleep == curr # Idle /\ stage[curr] = "sleep" /\ SleepUntil(scene.start + SleepTime)
Nap == <<curr, Elapsed>> \in scene.naps /\ SleepUntil(ticks + scene.nap)

Next == Tick \/ SetNice \/ Sleep \/ Nap
Spec == Init /\ [][Next]_vars
-----------------------------------------------------------------------------
(* The ready list is not kept in the order of the priorities, and yet the  *)
(* shares come out: as tests/threads/mlfqs/mlfqs-fair.c has it, threads of *)
(* equal nice have at every tick received about the same, and threads of   *)
(* different nice in the end what the reference simulation says.           *)
Near(a, b) == a - b <= scene.tolerance /\ b - a <= scene.tolerance
FairShare ==
    /\ \A t, u \in scene.peers : Near(tick_count[t], tick_count[u])
    /\ Elapsed = SpinTime - 1 =>
         \A t \in DOMAIN scene.expected : Near(tick_count[t], scene.expected[t])
=============================================================================
