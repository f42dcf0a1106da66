----------------------------- MODULE MCScheduler -----------------------------
(* Small instances of Scheduler for TLC.                                   *)
EXTENDS Scheduler

CONSTANTS t1, t2, s1

NoDevice == {}
ZeroSemas == [s \in Sema |-> 0]

\* The threads other than Main and Idle are interchangeable.
OtherThreads == Permutations({t1, t2})
=============================================================================
