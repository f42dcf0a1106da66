----------------------------- MODULE MCSharing -----------------------------
(***************************************************************************)
(* Small instances of what threads share: two locks and a semaphore        *)
(* (Locks), a condition variable (Condvar), the open files of processes    *)
(* that fork (Process), the bytes of a file (FileIO).  In a behaviour the  *)
(* one that which names moves, so the states of the four are added up, not *)
(* multiplied.  Condvar extends Locks: the two share their variables.      *)
(***************************************************************************)
EXTENDS Condvar

CONSTANTS t1, t2, l1, l2, s1, w0, w1, w2,
          p1, initd, f1, f2, f3, n1, n2, NoCall

VARIABLES which,
          place, parent, born, child_list, load_sema, wait_sema, free_sema, exit_status,
          fdt, fd_index, runn_file, i, inode, deny_write, file_lock,
          io_lock, disk, file_pos, deny_write_cnt, io_place, request, io_panic

filesVars == <<place, parent, born, child_list, load_sema, wait_sema, free_sema, exit_status,
               fdt, fd_index, runn_file, i, inode, deny_write, file_lock>>
ioVars == <<io_lock, disk, file_pos, deny_write_cnt, io_place, request, io_panic>>
allFour == <<which, everyVar, filesVars, ioVars>>
-----------------------------------------------------------------------------
(* The condition: three threads of ascending priorities, a semaphore for   *)
(* the element of each.                                                    *)
AllWorkers == {Main, t1, t2}
Ascending == [t \in AllWorkers |-> IF t = Main THEN 1 ELSE IF t = t1 THEN 2 ELSE 3]
OneLock == [s \in Sema |-> IF s = l1 THEN 1 ELSE 0]
Elems == [t \in AllWorkers |-> IF t = Main THEN w0 ELSE IF t = t1 THEN w1 ELSE w2]
NoDevice == {}

(* Two threads, two locks, a semaphore, with donation.                     *)
LK == INSTANCE Locks WITH Thread <- {Main, Idle, t1}, Worker <- {Main, t1},
          BasePri <- (Main :> 1) @@ (t1 :> 2), Sema <- {l1, l2, s1},
          InitValue <- (l1 :> 1) @@ (l2 :> 1) @@ (s1 :> 0), MaxValue <- 1, Pri <- {1, 2},
          Mlfqs <- FALSE, Calls <- {"down", "up"},
          LockCalls <- {"acquire", "release", "setpri", "try"}

(* Main, initd and a third page; three file objects, two files.            *)
P == INSTANCE Process WITH Page <- {Main, initd, p1}, Initd <- initd, FdLimit <- 4,
         File <- {f1, f2, f3}, Inode <- {n1, n2}, Argument <- {}, pc <- place, child <- born,
         Calls <- {"fork", "wait", "exit", "open", "close", "exec", "io"}

(* A file of one whole sector and a part of another; two processes that    *)
(* write different bytes, sizes and positions up to its end and negative.  *)
Alternating(first) == [n \in 0..7 |-> IF n \in {0, 3} THEN first ELSE 1 - first]
IO == INSTANCE FileIO WITH Procs <- {initd, p1}, Nobody <- None, Bytes <- {0, 1},
         Length <- 3, SectorSize <- 2, Width <- 3, Args <- {1, 3, 5},
         Buffer <- (initd :> Alternating(0)) @@ (p1 :> Alternating(1)),
         file_lock <- io_lock, pc <- io_place, job <- request, panic <- io_panic

ASSUME FileParameters == IO!FileIOAssumption
-----------------------------------------------------------------------------
MCInit ==
    /\ which \in {"locks", "cond", "files", "bytes"}
    /\ IF which = "locks"
       THEN LK!LockInit /\ cond_waiters = <<>> /\ stage = [t \in Worker |-> "no"]
       ELSE CondInit
    /\ P!Init
    /\ which # "files" => runn_file[initd] = f1 /\ inode[f1] = n1
    /\ IO!Init /\ disk = [s \in 0..1 |-> [n \in 0..1 |-> 0]]

MCNext ==
    /\ UNCHANGED which
    /\ which # "bytes" => UNCHANGED ioVars
    /\ \/ which = "locks" /\ LK!LockNext /\ UNCHANGED <<condVars, filesVars>>
       \/ which = "cond" /\ CondNext /\ UNCHANGED filesVars
       \/ which = "files" /\ P!Next /\ UNCHANGED everyVar
       \/ which = "bytes" /\ IO!Next /\ UNCHANGED <<everyVar, filesVars>>

MCSpec == MCInit /\ [][MCNext]_allFour

\* File objects are interchangeable.
Alike == Permutations({f1, f2, f3})

\* Nobody reads the request of a call that only has to return.
MCView == <<which, everyVar, filesVars, io_lock, disk, file_pos, deny_write_cnt, io_place, io_panic,
            [p \in {initd, p1} |-> IF io_place[p] = "return" THEN NoCall ELSE request[p]]>>
-----------------------------------------------------------------------------
(* The properties of the instances, as their modules state them.           *)

\* Of each lock there is one unit, in its semaphore or with its owner; a thread
\* in or back from a function of the condition has its lock.
LocksAreOwned == CASE which = "locks" -> LK!LockTypeOK /\ LK!OneOwner
                   [] which = "cond" -> CondTypeOK /\ OneOwner /\ CondUnderLock
                   [] OTHER -> P!TypeOK

\* The locks, that of the condition among them, implement the abstract mutex.
OwnersOf(l) == CASE which = "locks" -> LK!Owners(l)
                 [] which = "cond" /\ l = Cond -> Owners(l)
                 [] OTHER -> {}
MX == INSTANCE Mutex WITH Owner <- AllWorkers, Resource <- {l1, l2},
                          owner <- [l \in {l1, l2} |-> OwnersOf(l)]
LocksAreMutexes == MX!Spec

ParentStandsStill == P!ParentStandsStill
FilesAreOwned == P!FilesAreOwned
ImplementsByteFile ==
    IO!AsBytes!Init /\ [][which = "bytes" => [IO!AsBytes!Next]_(IO!AsBytes!vars)]_allFour
=============================================================================
