------------------------------- MODULE Process -------------------------------
(***************************************************************************)
(* Processes: fork, exec, wait and exit of userprog/process.c, the file    *)
(* descriptors and file_lock of userprog/syscall.c, the kill and the page  *)
(* fault of userprog/exception.c.                                          *)
(*                                                                         *)
(* Every process takes its next step at any time: threads/thread.c may     *)
(* switch between any two of these steps.  A semaphore is a counter whose  *)
(* sema_down is enabled when it is positive (module Scheduler shows what   *)
(* the semaphores do).  Steps that touch only the process's own memory     *)
(* between two steps others can see are one action.  pc[p]:                *)
(*   "free"     no thread lives in the page                                *)
(*   "lost"     a thread thread_create gave up on, for good                *)
(*   "user"     in user code, or main's in run_task                        *)
(*   "push"     process_fork, before the push on child_list                *)
(*   "load"     process_fork, in sema_down (load_sema)                     *)
(*   "copy"     __do_fork, before the copy of the memory                   *)
(*   "dup"      __do_fork, in the loop over the descriptors                *)
(*   "forked", "failed"  __do_fork, before sema_up (load_sema)             *)
(*   "wait"     process_wait, in sema_down (wait_sema)                     *)
(*   "reap"     process_wait, before the read of exit_status               *)
(*   "release"  process_wait, before sema_up (free_sema)                   *)
(*   "lock", "io"  read or write, before and after lock_acquire            *)
(*   "closing"  process_exit, in the loop over the descriptors             *)
(*   "signal"   process_exit, before sema_up (wait_sema)                   *)
(*   "zombie"   process_exit, in sema_down (free_sema)                     *)
(*   "dying"    after do_schedule (THREAD_DYING)                           *)
(*   "off"      of main: the machine is switched off                       *)
(***************************************************************************)
EXTENDS Integers, FiniteSets, SequencesExt

CONSTANTS
    Page,        \* the pages a struct thread can live in
    Main,        \* initial_thread, which waits for initd
    Initd,       \* the page of initd
    FdLimit,     \* FDCOUNT_LIMIT
    File,        \* the file objects there is memory for
    Inode,       \* the files on disk
    Argument,    \* the arguments of exit other than 0 and -1
    Calls        \* which system calls user code makes, and "fault"

None == "none"
Fd == 2..FdLimit - 1      \* 0 and 1 are the console and are never closed

ASSUME PageAssumption == Main \in Page /\ Initd \in Page /\ Main # Initd /\ None \notin Page
ASSUME FileAssumption == /\ FdLimit \in Nat /\ FdLimit > 2
                         /\ File # {} /\ Inode # {} /\ None \notin File \cup Inode
ASSUME CallsAssumption ==
    Calls \subseteq {"fork", "exec", "wait", "exit", "open", "close", "io", "halt", "fault"}
ASSUME ArgumentAssumption == Argument \subseteq Int

Code == {0, -1} \cup Argument

VARIABLES
    pc,
    parent,              \* local of __do_fork: the thread that forked p
    child,               \* local of process_fork and process_wait
    child_list,
    load_sema, wait_sema, free_sema,
    exit_status,
    fdt, fd_index, runn_file,
    i,                   \* the loop index of __do_fork and process_exit, else 2
    inode, deny_write,   \* of each file object; inode None: not allocated
    file_lock            \* the holder of file_lock

treeVars == <<parent, child, child_list>>
semaVars == <<load_sema, wait_sema, free_sema>>
tableVars == <<fdt, fd_index, runn_file>>
fileVars == <<inode, deny_write>>
vars == <<pc, treeVars, semaVars, exit_status, tableVars, i, fileVars, file_lock>>

Places == {"free", "lost", "user", "push", "load", "copy", "dup", "forked", "failed", "wait",
           "reap", "release", "lock", "io", "closing", "signal", "zombie", "dying", "off"}

NoFiles == [n \in Fd |-> None]

\* run_task: main has created initd and waits for it, initd has been loaded.
Init ==
    /\ pc = [p \in Page |-> CASE p = Main -> "wait" [] p = Initd -> "user" [] OTHER -> "free"]
    /\ parent = [p \in Page |-> None]
    /\ child = [p \in Page |-> IF p = Main THEN Initd ELSE None]
    /\ child_list = [p \in Page |-> IF p = Main THEN <<Initd>> ELSE <<>>]
    /\ load_sema = [p \in Page |-> 0]
    /\ wait_sema = [p \in Page |-> 0]
    /\ free_sema = [p \in Page |-> 0]
    /\ exit_status = [p \in Page |-> 0]
    /\ fdt = [p \in Page |-> NoFiles]
    /\ fd_index = [p \in Page |-> 2]
    /\ i = [p \in Page |-> 2]
    /\ \E f \in File, n \in Inode :
         /\ runn_file = [p \in Page |-> IF p = Initd THEN f ELSE None]
         /\ inode = [g \in File |-> IF g = f THEN n ELSE None]
         /\ deny_write = [g \in File |-> g = f]
    /\ file_lock = None

-----------------------------------------------------------------------------
Goto(p, place) == pc' = [pc EXCEPT ![p] = place]

\* User code of p makes a call, or raises an exception.
Calling(p, name) == pc[p] = "user" /\ name \in Calls

\* exit (status): the status is stored and thread_exit enters process_exit.
Exiting(p, status) ==
    /\ exit_status' = [exit_status EXCEPT ![p] = status]
    /\ Goto(p, "closing")

\* file_close of a set of objects; file_close (NULL) does nothing.
FileClose(closed) ==
    /\ inode' = [f \in File |-> IF f \in closed THEN None ELSE inode[f]]
    /\ deny_write' = [f \in File |-> f \notin closed /\ deny_write[f]]

\* file_open of inode n gives the new object f.
FileOpen(f, n, deny) ==
    /\ inode[f] = None
    /\ inode' = [inode EXCEPT ![f] = n]
    /\ deny_write' = [deny_write EXCEPT ![f] = deny]

\* file_duplicate of the open object g gives the new object f.
FileDuplicate(f, g) == FileOpen(f, inode[g], deny_write[g])

-----------------------------------------------------------------------------
(* fork                                                                    *)

\* process_fork and thread_create up to thread_unblock: c is a new thread.
Fork(p, c) ==
    /\ Calling(p, "fork") /\ pc[c] = "free"
    /\ pc' = [pc EXCEPT ![p] = "push", ![c] = "copy"]
    /\ child' = [child EXCEPT ![p] = c]
    /\ parent' = [parent EXCEPT ![c] = p]
    /\ UNCHANGED <<child_list, semaVars, exit_status, tableVars, i, fileVars, file_lock>>

\* thread_create has a page for the thread and none for its fdt: fork returns
\* TID_ERROR and the page is never freed.
ForkNoFdt(p, c) ==
    /\ Calling(p, "fork") /\ pc[c] = "free"
    /\ Goto(c, "lost")
    /\ UNCHANGED <<treeVars, semaVars, exit_status, tableVars, i, fileVars, file_lock>>

\* The push on child_list, and get_child_process, which finds what it pushed.
ForkPush(p) ==
    /\ pc[p] = "push"
    /\ child_list' = [child_list EXCEPT ![p] = Append(@, child[p])]
    /\ Goto(p, "load")
    /\ UNCHANGED <<parent, child, semaVars, exit_status, tableVars, i, fileVars, file_lock>>

ForkReturn(p) ==
    /\ pc[p] = "load" /\ load_sema[child[p]] > 0
    /\ load_sema' = [load_sema EXCEPT ![child[p]] = @ - 1]
    /\ child' = [child EXCEPT ![p] = None]
    /\ Goto(p, "user")
    /\ UNCHANGED <<parent, child_list, wait_sema, free_sema, exit_status, tableVars, i,
                   fileVars, file_lock>>

\* Mutant: the parent is let go before the descriptors are duplicated.
CopyMemoryEarly(p) ==
    /\ pc[p] = "copy"
    /\ load_sema' = [load_sema EXCEPT ![p] = @ + 1]
    /\ Goto(p, "dup")
    /\ UNCHANGED <<treeVars, wait_sema, free_sema, exit_status, tableVars, i, fileVars, file_lock>>

\* The page table and the supplemental page table of the parent are copied, or
\* memory runs out.
CopyMemory(p) ==
    /\ pc[p] = "copy"
    /\ Goto(p, "dup") \/ Goto(p, "failed")
    /\ UNCHANGED <<treeVars, semaVars, exit_status, tableVars, i, fileVars, file_lock>>

\* The memcpy of page_copy_action finds the parent's page out, its frame NULL, or
\* the lazy load of the page faults: page_fault calls exit (-1) from inside
\* __do_fork, and nobody makes the sema_up (load_sema) the parent waits for.
CopyFaults(p) ==
    /\ pc[p] = "copy"
    /\ Exiting(p, -1)
    /\ UNCHANGED <<treeVars, semaVars, tableVars, i, fileVars, file_lock>>

\* One turn of the loop over the parent's descriptors.  Nothing tests whether
\* file_duplicate returned NULL.
DupFile(p) ==
    /\ pc[p] = "dup" /\ i[p] < FdLimit
    /\ LET file == fdt[parent[p]][i[p]] IN
         \/ /\ file # None
            /\ \E f \in File : /\ FileDuplicate(f, file)
                               /\ fdt' = [fdt EXCEPT ![p][i[p]] = f]
         \/ UNCHANGED <<fdt, fileVars>>
    /\ i' = [i EXCEPT ![p] = @ + 1]
    /\ UNCHANGED <<pc, treeVars, semaVars, exit_status, fd_index, runn_file, file_lock>>

DupDone(p) ==
    /\ pc[p] = "dup" /\ i[p] = FdLimit
    /\ fd_index' = [fd_index EXCEPT ![p] = fd_index[parent[p]]]
    /\ i' = [i EXCEPT ![p] = 2]
    /\ Goto(p, "forked")
    /\ UNCHANGED <<treeVars, semaVars, exit_status, fdt, runn_file, fileVars, file_lock>>

\* Mutant: when the copy failed the parent is not let go.
ForkedLeavesParent(p) ==
    /\ parent' = [parent EXCEPT ![p] = None]
    /\ \/ /\ pc[p] = "forked"
          /\ load_sema' = [load_sema EXCEPT ![p] = @ + 1]
          /\ Goto(p, "user")
          /\ UNCHANGED exit_status
       \/ /\ pc[p] = "failed"
          /\ Exiting(p, -1)
          /\ UNCHANGED load_sema
    /\ UNCHANGED <<child, child_list, wait_sema, free_sema, tableVars, i, fileVars, file_lock>>

\* The child lets its parent go and runs, or exits with TID_ERROR.
Forked(p) ==
    /\ load_sema' = [load_sema EXCEPT ![p] = @ + 1]
    /\ parent' = [parent EXCEPT ![p] = None]
    /\ \/ /\ pc[p] = "forked"
          /\ Goto(p, "user")
          /\ UNCHANGED exit_status
       \/ /\ pc[p] = "failed"
          /\ Exiting(p, -1)
    /\ UNCHANGED <<child, child_list, wait_sema, free_sema, tableVars, i, fileVars, file_lock>>

-----------------------------------------------------------------------------
(* exec, open, close, read and write                                       *)

\* load opens the executable and denies writes to it.  runn_file is overwritten
\* without closing what it was.
Load(p) ==
    \E f \in File, n \in Inode :
        /\ FileOpen(f, n, TRUE)
        /\ runn_file' = [runn_file EXCEPT ![p] = f]

\* process_exec: the memory is gone when load opens the executable, so the
\* process exits when that, or anything after it, fails.
Exec(p) ==
    /\ Calling(p, "exec")
    /\ \/ Load(p) /\ UNCHANGED <<pc, exit_status>>
       \/ Load(p) /\ Exiting(p, -1)
       \/ Exiting(p, -1) /\ UNCHANGED <<runn_file, fileVars>>
    /\ UNCHANGED <<treeVars, semaVars, fdt, fd_index, i, file_lock>>

\* Where add_file_to_fdt puts the file: from fd_index on, never before it.
FreeFd(p) == {n \in Fd : n >= fd_index[p] /\ fdt[p][n] = None}

\* open: filesys_open, then add_file_to_fdt; a file there is no descriptor for
\* is closed at once.
Open(p) ==
    /\ Calling(p, "open")
    /\ \E f \in File, n \in Inode :
         /\ inode[f] = None
         /\ \/ /\ FreeFd(p) # {}
               /\ FileOpen(f, n, FALSE)
               /\ fdt' = [fdt EXCEPT ![p][Min(FreeFd(p))] = f]
               /\ fd_index' = [fd_index EXCEPT ![p] = Min(FreeFd(p))]
            \/ /\ FreeFd(p) = {}
               /\ fd_index' = [fd_index EXCEPT ![p] = FdLimit]
               /\ UNCHANGED <<fdt, fileVars>>
    /\ UNCHANGED <<pc, treeVars, semaVars, exit_status, runn_file, i, file_lock>>

\* Mutant: the file is closed and stays in the table.
CloseKeepsEntry(p, n) ==
    /\ Calling(p, "close") /\ fdt[p][n] # None
    /\ FileClose({fdt[p][n]})
    /\ UNCHANGED <<pc, treeVars, semaVars, exit_status, tableVars, i, file_lock>>

Close(p, n) ==
    /\ Calling(p, "close") /\ fdt[p][n] # None
    /\ FileClose({fdt[p][n]})
    /\ fdt' = [fdt EXCEPT ![p][n] = None]
    /\ UNCHANGED <<pc, treeVars, semaVars, exit_status, fd_index, runn_file, i, file_lock>>

\* read or write of an open file.
ReadWrite(p) ==
    /\ Calling(p, "io") /\ \E n \in Fd : fdt[p][n] # None
    /\ Goto(p, "lock")
    /\ UNCHANGED <<treeVars, semaVars, exit_status, tableVars, i, fileVars, file_lock>>

AcquireFileLock(p) ==
    /\ pc[p] = "lock" /\ file_lock = None
    /\ file_lock' = p
    /\ Goto(p, "io")
    /\ UNCHANGED <<treeVars, semaVars, exit_status, tableVars, i, fileVars>>

ReleaseFileLock(p) ==
    /\ pc[p] = "io"
    /\ file_lock' = None
    /\ Goto(p, "user")
    /\ UNCHANGED <<treeVars, semaVars, exit_status, tableVars, i, fileVars>>

\* The buffer runs into a page that is not there, which check_buffer and
\* check_address do not see: page_fault calls exit (-1) from inside file_read.
FaultInIo(p) ==
    /\ pc[p] = "io"
    /\ Exiting(p, -1)
    /\ UNCHANGED <<treeVars, semaVars, tableVars, i, fileVars, file_lock>>

-----------------------------------------------------------------------------
(* wait and exit                                                           *)

\* get_child_process finds c.
IsChild(p, c) == c \in Range(child_list[p])

\* process_wait of a child; of any other pid it returns -1 at once.
Wait(p, c) ==
    /\ Calling(p, "wait") /\ IsChild(p, c)
    /\ child' = [child EXCEPT ![p] = c]
    /\ Goto(p, "wait")
    /\ UNCHANGED <<parent, child_list, semaVars, exit_status, tableVars, i, fileVars, file_lock>>

WaitDown(p) ==
    /\ pc[p] = "wait" /\ wait_sema[child[p]] > 0
    /\ wait_sema' = [wait_sema EXCEPT ![child[p]] = @ - 1]
    /\ Goto(p, "reap")
    /\ UNCHANGED <<treeVars, load_sema, free_sema, exit_status, tableVars, i, fileVars, file_lock>>

\* exit_status is read and the child taken off the list.
Reap(p) ==
    /\ pc[p] = "reap"
    /\ child_list' = [child_list EXCEPT ![p] = RemoveFirst(@, child[p])]
    /\ Goto(p, "release")
    /\ UNCHANGED <<parent, child, semaVars, exit_status, tableVars, i, fileVars, file_lock>>

\* The child may go.  When main's wait for initd is over it switches the machine
\* off (the option -q).
Release(p) ==
    /\ pc[p] = "release"
    /\ free_sema' = [free_sema EXCEPT ![child[p]] = @ + 1]
    /\ child' = [child EXCEPT ![p] = None]
    /\ Goto(p, IF p = Main THEN "off" ELSE "user")
    /\ UNCHANGED <<parent, child_list, load_sema, wait_sema, exit_status, tableVars, i,
                   fileVars, file_lock>>

\* Mutant: the parent is told before the files are closed.
ExitSignalsFirst(p, status) ==
    /\ Calling(p, "exit")
    /\ Exiting(p, status)
    /\ wait_sema' = [wait_sema EXCEPT ![p] = @ + 1]
    /\ UNCHANGED <<treeVars, load_sema, free_sema, tableVars, i, fileVars, file_lock>>

\* exit, also called by page_fault and for a bad pointer or system call.
Exit(p, status) ==
    /\ Calling(p, "exit")
    /\ Exiting(p, status)
    /\ UNCHANGED <<treeVars, semaVars, tableVars, i, fileVars, file_lock>>

\* kill, of exceptions other than page faults: thread_exit without exit.
Kill(p) ==
    /\ Calling(p, "fault")
    /\ Goto(p, "closing")
    /\ UNCHANGED <<treeVars, semaVars, exit_status, tableVars, i, fileVars, file_lock>>

CloseNext(p) ==
    /\ pc[p] = "closing" /\ i[p] < FdLimit
    /\ FileClose({fdt[p][i[p]]})
    /\ fdt' = [fdt EXCEPT ![p][i[p]] = None]
    /\ i' = [i EXCEPT ![p] = @ + 1]
    /\ UNCHANGED <<pc, treeVars, semaVars, exit_status, fd_index, runn_file, file_lock>>

\* The fdt and the memory are freed, and the executable is closed.  Nobody looks
\* at the pointers that are left.
CloseLast(p) ==
    /\ pc[p] = "closing" /\ i[p] = FdLimit
    /\ FileClose({runn_file[p]})
    /\ fd_index' = [fd_index EXCEPT ![p] = 2]
    /\ runn_file' = [runn_file EXCEPT ![p] = None]
    /\ i' = [i EXCEPT ![p] = 2]
    /\ Goto(p, "signal")
    /\ UNCHANGED <<treeVars, semaVars, exit_status, fdt, file_lock>>

\* Mutant: sema_up (free_sema) in the place of sema_up (wait_sema).
SignalExitWrongSema(p) ==
    /\ pc[p] = "signal"
    /\ free_sema' = [free_sema EXCEPT ![p] = @ + 1]
    /\ Goto(p, "zombie")
    /\ UNCHANGED <<treeVars, load_sema, wait_sema, exit_status, tableVars, i, fileVars, file_lock>>

SignalExit(p) ==
    /\ pc[p] = "signal"
    /\ wait_sema' = [wait_sema EXCEPT ![p] = @ + 1]
    /\ Goto(p, "zombie")
    /\ UNCHANGED <<treeVars, load_sema, free_sema, exit_status, tableVars, i, fileVars, file_lock>>

\* Mutant: without sema_down (free_sema).
DieAtOnce(p) ==
    /\ pc[p] = "zombie"
    /\ Goto(p, "dying")
    /\ UNCHANGED <<treeVars, semaVars, exit_status, tableVars, i, fileVars, file_lock>>

Die(p) ==
    /\ pc[p] = "zombie" /\ free_sema[p] > 0
    /\ free_sema' = [free_sema EXCEPT ![p] = @ - 1]
    /\ Goto(p, "dying")
    /\ UNCHANGED <<treeVars, load_sema, wait_sema, exit_status, tableVars, i, fileVars, file_lock>>

\* A later do_schedule frees the page; init_thread will find it, or make it,
\* what it is in Init.
FreePage(p) ==
    /\ pc[p] = "dying"
    /\ Goto(p, "free")
    /\ parent' = [parent EXCEPT ![p] = None]
    /\ child' = [child EXCEPT ![p] = None]
    /\ child_list' = [child_list EXCEPT ![p] = <<>>]
    /\ load_sema' = [load_sema EXCEPT ![p] = 0]
    /\ wait_sema' = [wait_sema EXCEPT ![p] = 0]
    /\ free_sema' = [free_sema EXCEPT ![p] = 0]
    /\ exit_status' = [exit_status EXCEPT ![p] = 0]
    /\ fdt' = [fdt EXCEPT ![p] = NoFiles]
    /\ fd_index' = [fd_index EXCEPT ![p] = 2]
    /\ runn_file' = [runn_file EXCEPT ![p] = None]
    /\ UNCHANGED <<i, fileVars, file_lock>>

\* The system call halt.
Halt(p) ==
    /\ Calling(p, "halt")
    /\ Goto(Main, "off")
    /\ UNCHANGED <<treeVars, semaVars, exit_status, tableVars, i, fileVars, file_lock>>

-----------------------------------------------------------------------------
Running == pc[Main] # "off"

\* The kernel goes on with these by itself; the others are the calls of user code.
KernelStep(p) ==
    \/ ForkPush(p) \/ ForkReturn(p) \/ CopyMemory(p) \/ CopyFaults(p)
    \/ DupFile(p) \/ DupDone(p) \/ Forked(p)
    \/ AcquireFileLock(p) \/ ReleaseFileLock(p) \/ FaultInIo(p)
    \/ WaitDown(p) \/ Reap(p) \/ Release(p)
    \/ CloseNext(p) \/ CloseLast(p) \/ SignalExit(p) \/ Die(p) \/ FreePage(p)

UserStep(p) ==
    \/ \E c \in Page : Fork(p, c) \/ ForkNoFdt(p, c) \/ Wait(p, c)
    \/ \E n \in Fd : Close(p, n)
    \/ \E status \in Code : Exit(p, status)
    \/ Exec(p) \/ Open(p) \/ ReadWrite(p) \/ Kill(p) \/ Halt(p)

\* In __do_fork.
Copying(c) == pc[c] \in {"copy", "dup", "forked", "failed"}
\* c left __do_fork by a page fault: its local parent was never let go.
CopyFaulted(c) == parent[c] # None /\ ~Copying(c)

\* power_off; or a process died with file_lock, which nobody will release: the
\* others go on, but whoever wants the lock stays at it (what lock_acquire does
\* once the page of the holder is freed is not followed); or a parent stays in
\* fork, whose child died there.
Stopped ==
    /\ \/ ~Running
       \/ \E p \in Page : file_lock = p /\ pc[p] # "io"
       \/ \E c \in Page : CopyFaulted(c)
    /\ UNCHANGED vars

Next == \/ Running /\ \E p \in Page : KernelStep(p) \/ UserStep(p)
        \/ Stopped

Spec == Init /\ [][Next]_vars

\* All processes have PRI_DEFAULT and share the CPU by time slices, so each goes
\* on with a kernel step it can make; user code may do nothing for ever.
FairSpec == Spec /\ \A p \in Page : WF_vars(Running /\ KernelStep(p))

-----------------------------------------------------------------------------
(* Properties.                                                             *)

TypeOK ==
    /\ pc \in [Page -> Places]
    /\ parent \in [Page -> Page \cup {None}]
    /\ child \in [Page -> Page \cup {None}]
    /\ child_list \in [Page -> Seq(Page)]
    /\ load_sema \in [Page -> 0..1]
    /\ wait_sema \in [Page -> 0..1]
    /\ free_sema \in [Page -> 0..1]
    /\ exit_status \in [Page -> Code]
    /\ fdt \in [Page -> [Fd -> File \cup {None}]]
    /\ fd_index \in [Page -> 2..FdLimit]
    /\ runn_file \in [Page -> File \cup {None}]
    /\ i \in [Page -> 2..FdLimit]
    /\ inode \in [File -> Inode \cup {None}]
    /\ deny_write \in [File -> BOOLEAN]
    /\ file_lock \in Page \cup {None}

\* Past the last use of the page's child_list and of its file table.
Gone(p) == pc[p] \in {"free", "lost", "signal", "zombie", "dying"}
\* The pages p reaches: its children, and the one it forks or waits for.
Reach(p) == Range(child_list[p]) \cup ({child[p]} \ {None})

\* process_wait and process_fork follow pointers into the child's page: every
\* page reached from a process that can still wait is a thread that has not yet
\* passed sema_down (free_sema), and is reached from no other process.
ChildrenAreThere ==
    \A p \in Page : ~Gone(p) =>
        /\ \A c \in Reach(p) : pc[c] \notin {"free", "lost", "dying"} /\ free_sema[c] = 0
        /\ \A q \in Page \ {p} : ~Gone(q) => Reach(p) \cap Reach(q) = {}

\* __do_fork reads the page, the memory and the descriptors of the parent: it
\* stands still in process_fork, waiting for this child, until the child is done.
ParentStandsStill ==
    \A c \in Page : Copying(c) =>
        /\ parent[c] \in Page /\ pc[parent[c]] \in {"push", "load"} /\ child[parent[c]] = c
        /\ load_sema[c] = 0
        /\ \A n \in Fd : fdt[c][n] # None =>
             /\ fdt[parent[c]][n] # None
             /\ inode[fdt[c][n]] = inode[fdt[parent[c]][n]]

\* The parent reads exit_status when the child has nothing left to do but to
\* wait for it: all its files are closed, for good.
StatusIsFinal ==
    \A p \in Page : pc[p] \in {"reap", "release"} =>
        pc[child[p]] = "zombie" /\ fdt[child[p]] = NoFiles

\* The places that refer to file object f: descriptors and executables.
References(f) == {pn \in Page \X Fd : ~Gone(pn[1]) /\ fdt[pn[1]][pn[2]] = f}
                 \cup {<<p, 0>> : p \in {q \in Page : ~Gone(q) /\ runn_file[q] = f}}

\* Forks, closes, exits and executions never leave a descriptor or an executable
\* on a file object that was freed, nor two of them on one object: a file is
\* closed once.  The executable of a process stays open and denied.
FilesAreOwned ==
    /\ \A f \in File : Cardinality(References(f)) <= 1
    /\ \A p \in Page : ~Gone(p) =>
         /\ \A n \in Fd : fdt[p][n] # None => inode[fdt[p][n]] # None
         /\ runn_file[p] # None => inode[runn_file[p]] # None /\ deny_write[runn_file[p]]

\* fork comes back, whatever the child does and however the copy ends, unless the
\* child died of a page fault in the copy.
ForkReturns ==
    \A p \in Page : pc[p] = "push"
                       ~> \/ pc[p] = "user" \/ ~Running
                          \/ child[p] \in {c \in Page : CopyFaulted(c)}

\* wait comes back once the child is in exit.
WaitReturns ==
    \A p \in Page : (pc[p] = "wait" /\ pc[child[p]] = "closing")
                       ~> (pc[p] = "user" \/ ~Running)

-----------------------------------------------------------------------------
(* A claim the code does not keep (see the findings).                      *)

\* introduction.html: after an invalid user pointer "you must still be sure to
\* release the lock".
DeadHoldNoLock == \A p \in Page : file_lock = p => pc[p] = "io"

(* And one no run makes, which TLC refutes (README, section 6).            *)

\* system_call.html: "if the child process fail to duplicate the resource, the
\* fork () call of parent should return".
ForkAnswers == \A p \in Page : pc[p] = "load" ~> (pc[p] = "user" \/ ~Running)
=============================================================================
