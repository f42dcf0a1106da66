-------------------------- MODULE Process_proofs ---------------------------
(***************************************************************************)
(* Proofs about Process: that a process never follows a pointer into the   *)
(* page of a child that is gone, that a parent stands still while it is    *)
(* copied, that the status it reads is final and that every open file has  *)
(* one owner, for any number of pages, files and descriptors.              *)
(***************************************************************************)
EXTENDS Process, ListOps_proofs, FiniteSetTheorems

(* The tree: who waits for whom, and what its pointers and semaphores say. *)
Busy == {"push", "load", "wait", "reap", "release"}
MainWaits == pc[Main] \in {"wait", "reap", "release", "off"}
ChildKnown ==
    \A p \in Page : /\ pc[p] \in Busy => child[p] \in Page
                    /\ child[p] # None => pc[p] \in Busy \cup {"off"}
FreshPages ==
    \A p \in Page : pc[p] = "free" =>
        /\ child[p] = None /\ child_list[p] = <<>>
        /\ load_sema[p] = 0 /\ wait_sema[p] = 0 /\ free_sema[p] = 0
ListedOnce ==
    \A p \in Page : /\ NoRepeat(child_list[p])
                    /\ pc[p] \in {"push", "release"} => child[p] \notin Range(child_list[p])
SemasAgree ==
    \A c \in Page : /\ wait_sema[c] > 0 => pc[c] = "zombie"
                    /\ free_sema[c] > 0 => pc[c] = "zombie" /\ wait_sema[c] = 0
ReapsZombie ==
    \A p \in Page : pc[p] \in {"reap", "release"} =>
        pc[child[p]] = "zombie" /\ wait_sema[child[p]] = 0
ForkerWaits ==
    \A c \in Page : Copying(c) =>
        /\ parent[c] \in Page /\ pc[parent[c]] \in {"push", "load"}
        /\ child[parent[c]] = c /\ load_sema[c] = 0
Waiting == MainWaits /\ ChildKnown /\ FreshPages /\ SemasAgree /\ ReapsZombie /\ ForkerWaits
Tree == Waiting /\ ListedOnce /\ ChildrenAreThere

(* The files: the places that refer to file objects.                       *)
Place == {0} \cup Fd
Held(p, n) == IF n = 0 THEN runn_file[p] ELSE fdt[p][n]
GoneHoldNothing == \A p \in Page : Gone(p) => fdt[p] = NoFiles /\ runn_file[p] = None
HeldOnce ==
    \A p, q \in Page, n, m \in Place :
        Held(p, n) # None /\ Held(p, n) = Held(q, m) => p = q /\ n = m
HeldOpen == \A p \in Page, n \in Place : Held(p, n) # None => inode[Held(p, n)] # None
RunDenied == \A p \in Page : runn_file[p] # None => deny_write[runn_file[p]] = TRUE
LoopIndex ==
    \A p \in Page : /\ pc[p] \notin {"dup", "closing"} => i[p] = 2
                    /\ pc[p] = "closing" => \A n \in Fd : n < i[p] => fdt[p][n] = None
SameFiles ==
    \A c \in Page : Copying(c) => \A n \in Fd : fdt[c][n] # None =>
        /\ fdt[parent[c]][n] # None
        /\ inode[fdt[c][n]] = inode[fdt[parent[c]][n]]
Files == GoneHoldNothing /\ HeldOnce /\ HeldOpen /\ RunDenied /\ LoopIndex /\ SameFiles

IInv == TypeOK /\ Tree /\ Files
-----------------------------------------------------------------------------
(* The constants; the numbers of descriptors.                              *)
LEMMA Constants ==
    /\ Main \in Page /\ Initd \in Page /\ Main # Initd
    /\ None \notin Page /\ None \notin File /\ None \notin Inode
    /\ 0 \in Code /\ -1 \in Code
    /\ Fd \subseteq Nat /\ 0 \notin Fd /\ 2 \in 2..FdLimit /\ FdLimit \in 2..FdLimit
BY PageAssumption, FileAssumption DEF Fd, Code
-----------------------------------------------------------------------------
LEMMA InitIInv == ASSUME Init PROVE IInv
<1> USE Constants
<1>1. TypeOK
  <2>1. \E f \in File, n \in Inode :
           /\ runn_file = [p \in Page |-> IF p = Initd THEN f ELSE None]
           /\ inode = [g \in File |-> IF g = f THEN n ELSE None]
           /\ deny_write = [g \in File |-> g = f]
    BY DEF Init
  <2>2. runn_file \in [Page -> File \cup {None}] /\ inode \in [File -> Inode \cup {None}]
        /\ deny_write \in [File -> BOOLEAN]
    BY <2>1
  <2>3. pc \in [Page -> Places]
    BY DEF Init, Places
  <2> QED
    BY <2>2, <2>3 DEF Init, TypeOK, NoFiles
<1>2. \A p \in Page : pc[p] = IF p = Main THEN "wait" ELSE IF p = Initd THEN "user" ELSE "free"
  BY DEF Init
<1>3. Tree
  <2>1. MainWaits /\ ChildKnown /\ FreshPages /\ SemasAgree /\ ReapsZombie /\ ForkerWaits
    BY <1>2 DEF Init, MainWaits, ChildKnown, Busy, FreshPages, SemasAgree, ReapsZombie,
                ForkerWaits, Copying
  <2>2. ListedOnce
    BY <1>2 DEF Init, ListedOnce, NoRepeat
  <2>3. ChildrenAreThere
    <3>1. Range(<<Initd>>) = {Initd} /\ Range(<<>>) = {}
      BY DEF Range
    <3>2. \A p \in Page : Reach(p) = IF p = Main THEN {Initd} ELSE {}
      BY <3>1 DEF Init, Reach
    <3> QED
      BY <1>2, <3>2 DEF Init, ChildrenAreThere, Gone
  <2> QED
    BY <2>1, <2>2, <2>3 DEF Tree, Waiting
<1>4. Files
  <2>1. PICK f \in File, n \in Inode :
           /\ runn_file = [p \in Page |-> IF p = Initd THEN f ELSE None]
           /\ inode = [g \in File |-> IF g = f THEN n ELSE None]
           /\ deny_write = [g \in File |-> g = f]
    BY DEF Init
  <2>2. fdt = [p \in Page |-> NoFiles] /\ i = [p \in Page |-> 2]
    BY DEF Init
  <2>3. \A p \in Page, m \in Place : Held(p, m) = IF p = Initd /\ m = 0 THEN f ELSE None
    BY <2>1, <2>2 DEF Held, NoFiles, Place
  <2>4. GoneHoldNothing /\ LoopIndex /\ SameFiles
    BY <1>2, <2>1, <2>2 DEF GoneHoldNothing, Gone, LoopIndex, SameFiles, Copying, NoFiles
  <2>5. HeldOnce /\ HeldOpen
    BY <2>1, <2>3 DEF HeldOnce, HeldOpen
  <2>6. RunDenied
    <3>1. deny_write[f] = TRUE
      BY <2>1
    <3> QED
      BY <2>1, <3>1 DEF RunDenied
  <2> QED
    BY <2>4, <2>5, <2>6 DEF Files
<1> QED
  BY <1>1, <1>3, <1>4 DEF IInv
-----------------------------------------------------------------------------
(* The files that FileClose and FileOpen leave.                            *)
LEMMA ClosedTyped ==
    ASSUME TypeOK, NEW closed, FileClose(closed)
    PROVE  inode' \in [File -> Inode \cup {None}] /\ deny_write' \in [File -> BOOLEAN]
<1>1. inode' \in [File -> Inode \cup {None}]
  BY DEF FileClose, TypeOK
<1>2. deny_write' \in [File -> BOOLEAN]
  <2>1. deny_write' = [f \in File |-> f \notin closed /\ deny_write[f]]
    BY DEF FileClose
  <2>2. \A f \in File : (f \notin closed /\ deny_write[f]) \in BOOLEAN
    OBVIOUS
  <2> QED
    BY <2>1, <2>2, Zenon
<1> QED
  BY <1>1, <1>2

LEMMA OpenedTyped ==
    ASSUME TypeOK, NEW f \in File, NEW n \in Inode \cup {None}, NEW deny \in BOOLEAN,
           FileOpen(f, n, deny)
    PROVE  inode' \in [File -> Inode \cup {None}] /\ deny_write' \in [File -> BOOLEAN]
<1>1. inode' \in [File -> Inode \cup {None}]
  BY DEF FileOpen, TypeOK
<1>2. deny_write' \in [File -> BOOLEAN]
  BY Zenon DEF FileOpen, TypeOK
<1> QED
  BY <1>1, <1>2

LEMMA FirstFree ==
    ASSUME NEW p \in Page, FreeFd(p) # {}
    PROVE  Min(FreeFd(p)) \in FreeFd(p)
<1>1. FreeFd(p) \in SUBSET Nat
  BY Constants DEF FreeFd
<1> QED
  BY <1>1, LeastElement

(* The types are kept.                                                     *)
LEMMA TypeStep == ASSUME IInv, [Next]_vars PROVE TypeOK'
<1>0. TypeOK
  BY DEF IInv
<1> USE Constants DEF Places
<1>1. ASSUME NEW p \in Page, NEW c \in Page, Fork(p, c) PROVE TypeOK'
  BY <1>0, <1>1 DEF Fork, TypeOK, Goto, treeVars, semaVars, tableVars, fileVars
<1>2. ASSUME NEW p \in Page, NEW c \in Page, ForkNoFdt(p, c) PROVE TypeOK'
  BY <1>0, <1>2 DEF ForkNoFdt, TypeOK, Goto, treeVars, semaVars, tableVars, fileVars
<1>3. ASSUME NEW p \in Page, ForkPush(p) PROVE TypeOK'
  <2>1. child[p] \in Page /\ Append(child_list[p], child[p]) \in Seq(Page)
    BY <1>0, <1>3, AppendProps DEF ForkPush, IInv, Tree, Waiting, ChildKnown, Busy, TypeOK
  <2> QED
    BY <1>0, <1>3, <2>1 DEF ForkPush, TypeOK, Goto, treeVars, semaVars, tableVars, fileVars
<1>4. ASSUME NEW p \in Page, ForkReturn(p) PROVE TypeOK'
  <2>1. child[p] \in Page
    BY <1>4 DEF ForkReturn, IInv, Tree, Waiting, ChildKnown, Busy
  <2> QED
    BY <1>0, <1>4, <2>1, SMTT(30) DEF ForkReturn, TypeOK, Goto, treeVars, semaVars, tableVars, fileVars
<1>5. ASSUME NEW p \in Page, CopyMemory(p) PROVE TypeOK'
  BY <1>0, <1>5 DEF CopyMemory, TypeOK, Goto, treeVars, semaVars, tableVars, fileVars
<1>6. ASSUME NEW p \in Page, DupFile(p) PROVE TypeOK'
  <2>1. i[p] \in Fd /\ i[p] + 1 \in 2..FdLimit
    BY <1>0, <1>6 DEF DupFile, TypeOK, Fd
  <2>2. /\ fdt' \in [Page -> [Fd -> File \cup {None}]]
        /\ inode' \in [File -> Inode \cup {None}] /\ deny_write' \in [File -> BOOLEAN]
    <3>1. CASE UNCHANGED <<fdt, fileVars>>
      BY <1>0, <3>1 DEF TypeOK, fileVars
    <3>2. CASE \E f \in File : /\ FileDuplicate(f, fdt[parent[p]][i[p]])
                              /\ fdt[parent[p]][i[p]] # None
                              /\ fdt' = [fdt EXCEPT ![p][i[p]] = f]
      <4>1. PICK f \in File : /\ FileDuplicate(f, fdt[parent[p]][i[p]])
                              /\ fdt[parent[p]][i[p]] # None
                              /\ fdt' = [fdt EXCEPT ![p][i[p]] = f]
        BY <3>2
      <4>2. parent[p] \in Page
        BY <1>6 DEF DupFile, IInv, Tree, Waiting, ForkerWaits, Copying
      <4>3. fdt[parent[p]][i[p]] \in File
        BY <1>0, <2>1, <4>1, <4>2 DEF TypeOK
      <4>4. inode[fdt[parent[p]][i[p]]] \in Inode \cup {None}
            /\ deny_write[fdt[parent[p]][i[p]]] \in BOOLEAN
        BY <1>0, <4>3 DEF TypeOK
      <4>5. inode' \in [File -> Inode \cup {None}] /\ deny_write' \in [File -> BOOLEAN]
        BY <1>0, <4>1, <4>4, OpenedTyped DEF FileDuplicate
      <4> QED
        BY <1>0, <2>1, <4>1, <4>5 DEF TypeOK
    <3> QED
      BY <1>6, <3>1, <3>2, Zenon DEF DupFile
  <2> QED
    BY <1>0, <1>6, <2>1, <2>2 DEF DupFile, TypeOK, Goto, treeVars, semaVars, tableVars, fileVars
<1>7. ASSUME NEW p \in Page, DupDone(p) PROVE TypeOK'
  <2>1. parent[p] \in Page
    BY <1>7 DEF DupDone, IInv, Tree, Waiting, ForkerWaits, Copying
  <2> QED
    BY <1>0, <1>7, <2>1 DEF DupDone, TypeOK, Goto, treeVars, semaVars, tableVars, fileVars
<1>8. ASSUME NEW p \in Page, Forked(p) PROVE TypeOK'
  <2>1. load_sema[p] = 0
    BY <1>8 DEF Forked, Exiting, IInv, Tree, Waiting, ForkerWaits, Copying
  <2>2. pc' \in [Page -> Places] /\ exit_status' \in [Page -> Code]
    <3>1. CASE Goto(p, "user") /\ UNCHANGED exit_status
      BY <1>0, <3>1 DEF Goto, TypeOK
    <3>2. CASE Exiting(p, -1)
      BY <1>0, <3>2 DEF Exiting, Goto, TypeOK
    <3> QED
      BY <1>8, <3>1, <3>2 DEF Forked
  <2>3. load_sema' \in [Page -> 0..1] /\ parent' \in [Page -> Page \cup {None}]
    BY <1>0, <1>8, <2>1, SMTT(30) DEF Forked, TypeOK
  <2> QED
    BY <1>0, <1>8, <2>2, <2>3 DEF Forked, TypeOK, tableVars, fileVars
<1>9. ASSUME NEW p \in Page, Exec(p) PROVE TypeOK'
  <2>1. /\ runn_file' \in [Page -> File \cup {None}]
        /\ inode' \in [File -> Inode \cup {None}] /\ deny_write' \in [File -> BOOLEAN]
    <3>1. CASE Load(p)
      <4>1. PICK f \in File, n \in Inode :
                 FileOpen(f, n, TRUE) /\ runn_file' = [runn_file EXCEPT ![p] = f]
        BY <3>1 DEF Load
      <4> QED
        BY <1>0, <4>1, OpenedTyped DEF TypeOK
    <3>2. CASE UNCHANGED <<runn_file, fileVars>>
      BY <1>0, <3>2 DEF TypeOK, fileVars
    <3> QED
      BY <1>9, <3>1, <3>2 DEF Exec
  <2>2. pc' \in [Page -> Places] /\ exit_status' \in [Page -> Code]
    <3>1. CASE UNCHANGED <<pc, exit_status>>
      BY <1>0, <3>1 DEF TypeOK
    <3>2. CASE Exiting(p, -1)
      BY <1>0, <3>2 DEF Exiting, Goto, TypeOK
    <3> QED
      BY <1>9, <3>1, <3>2 DEF Exec
  <2> QED
    BY <1>0, <1>9, <2>1, <2>2 DEF Exec, TypeOK, treeVars, semaVars
<1>10. ASSUME NEW p \in Page, Open(p) PROVE TypeOK'
  <2>1. /\ fdt' \in [Page -> [Fd -> File \cup {None}]] /\ fd_index' \in [Page -> 2..FdLimit]
        /\ inode' \in [File -> Inode \cup {None}] /\ deny_write' \in [File -> BOOLEAN]
    <3>1. CASE FreeFd(p) # {}
      <4>1. PICK f \in File, n \in Inode :
                 /\ FileOpen(f, n, FALSE)
                 /\ fdt' = [fdt EXCEPT ![p][Min(FreeFd(p))] = f]
                 /\ fd_index' = [fd_index EXCEPT ![p] = Min(FreeFd(p))]
        BY <1>10, <3>1 DEF Open
      <4>2. Min(FreeFd(p)) \in Fd /\ Min(FreeFd(p)) \in 2..FdLimit
        <5>1. \A m \in FreeFd(p) : m \in Fd /\ m \in 2..FdLimit
          BY FileAssumption DEF FreeFd, Fd
        <5> QED
          BY <3>1, <5>1, FirstFree
      <4>3. fdt' \in [Page -> [Fd -> File \cup {None}]] /\ fd_index' \in [Page -> 2..FdLimit]
        BY <1>0, <4>1, <4>2 DEF TypeOK
      <4> QED
        BY <1>0, <4>1, <4>3, OpenedTyped
    <3>2. CASE FreeFd(p) = {}
      <4>1. fd_index' = [fd_index EXCEPT ![p] = FdLimit] /\ UNCHANGED <<fdt, fileVars>>
        BY <1>10, <3>2, Zenon DEF Open
      <4> QED
        BY <1>0, <4>1 DEF TypeOK, fileVars
    <3> QED
      BY <3>1, <3>2
  <2> QED
    BY <1>0, <1>10, <2>1 DEF Open, Calling, TypeOK, Goto, treeVars, semaVars, tableVars, fileVars
<1>11. ASSUME NEW p \in Page, NEW n \in Fd, Close(p, n) PROVE TypeOK'
  BY <1>0, <1>11, ClosedTyped DEF Close, Calling, TypeOK, Goto, treeVars, semaVars, tableVars,
     fileVars
<1>12. ASSUME NEW p \in Page, ReadWrite(p) PROVE TypeOK'
  BY <1>0, <1>12 DEF ReadWrite, TypeOK, Goto, treeVars, semaVars, tableVars, fileVars
<1>13. ASSUME NEW p \in Page, AcquireFileLock(p) PROVE TypeOK'
  BY <1>0, <1>13 DEF AcquireFileLock, TypeOK, Goto, treeVars, semaVars, tableVars, fileVars
<1>14. ASSUME NEW p \in Page, ReleaseFileLock(p) PROVE TypeOK'
  BY <1>0, <1>14 DEF ReleaseFileLock, TypeOK, Goto, treeVars, semaVars, tableVars, fileVars
<1>15. ASSUME NEW p \in Page, FaultInIo(p) PROVE TypeOK'
  BY <1>0, <1>15 DEF FaultInIo, TypeOK, Goto, treeVars, semaVars, tableVars, fileVars, Exiting
<1>16. ASSUME NEW p \in Page, NEW c \in Page, Wait(p, c) PROVE TypeOK'
  BY <1>0, <1>16 DEF Wait, TypeOK, Goto, treeVars, semaVars, tableVars, fileVars
<1>17. ASSUME NEW p \in Page, WaitDown(p) PROVE TypeOK'
  <2>1. child[p] \in Page
    BY <1>17 DEF WaitDown, IInv, Tree, Waiting, ChildKnown, Busy
  <2>2. wait_sema' \in [Page -> 0..1] /\ pc' \in [Page -> Places]
    BY <1>0, <1>17, <2>1 DEF WaitDown, TypeOK, Goto
  <2> QED
    BY <1>0, <1>17, <2>2 DEF WaitDown, TypeOK, treeVars, tableVars, fileVars
<1>18. ASSUME NEW p \in Page, Reap(p) PROVE TypeOK'
  <2>1. RemoveFirst(child_list[p], child[p]) \in Seq(Page)
    BY <1>0, RemoveFirstProps DEF IInv, Tree, ListedOnce, TypeOK
  <2> QED
    BY <1>0, <1>18, <2>1 DEF Reap, TypeOK, Goto, treeVars, semaVars, tableVars, fileVars
<1>19. ASSUME NEW p \in Page, Release(p) PROVE TypeOK'
  <2>1. child[p] \in Page /\ free_sema[child[p]] = 0
    BY <1>19 DEF Release, IInv, Tree, Waiting, ChildKnown, Busy, ChildrenAreThere, Reach, Gone
  <2>2. /\ free_sema' \in [Page -> 0..1] /\ pc' \in [Page -> Places]
        /\ child' \in [Page -> Page \cup {None}]
    BY <1>0, <1>19, <2>1 DEF Release, TypeOK, Goto
  <2> QED
    BY <1>0, <1>19, <2>2 DEF Release, TypeOK, tableVars, fileVars
<1>20. ASSUME NEW p \in Page, NEW status \in Code, Exit(p, status) PROVE TypeOK'
  BY <1>0, <1>20 DEF Exit, Exiting, TypeOK, Goto, treeVars, semaVars, tableVars, fileVars
<1>f. ASSUME NEW p \in Page, CopyFaults(p) PROVE TypeOK'
  BY <1>0, <1>f DEF CopyFaults, Exiting, TypeOK, Goto, treeVars, semaVars, tableVars, fileVars
<1>21. ASSUME NEW p \in Page, Kill(p) PROVE TypeOK'
  BY <1>0, <1>21 DEF Kill, TypeOK, Goto, treeVars, semaVars, tableVars, fileVars
<1>22. ASSUME NEW p \in Page, CloseNext(p) PROVE TypeOK'
  <2>1. i[p] \in Fd /\ i[p] + 1 \in 2..FdLimit
    BY <1>0, <1>22 DEF CloseNext, TypeOK, Fd
  <2> QED
    BY <1>0, <1>22, <2>1, ClosedTyped DEF CloseNext, TypeOK, Goto, treeVars, semaVars,
       tableVars, fileVars
<1>23. ASSUME NEW p \in Page, CloseLast(p) PROVE TypeOK'
  <2>1. pc' \in [Page -> Places] /\ runn_file' \in [Page -> File \cup {None}]
    BY <1>0, <1>23 DEF CloseLast, TypeOK, Goto
  <2>2. i' \in [Page -> 2..FdLimit] /\ fd_index' \in [Page -> 2..FdLimit]
    BY <1>0, <1>23 DEF CloseLast, TypeOK
  <2>3. inode' \in [File -> Inode \cup {None}] /\ deny_write' \in [File -> BOOLEAN]
    BY <1>0, <1>23, ClosedTyped DEF CloseLast
  <2> QED
    BY <1>0, <1>23, <2>1, <2>2, <2>3 DEF CloseLast, TypeOK, treeVars, semaVars
<1>24. ASSUME NEW p \in Page, SignalExit(p) PROVE TypeOK'
  <2>1. wait_sema[p] = 0
    <3>1. wait_sema[p] \in 0..1
      BY <1>0 DEF TypeOK
    <3> QED
      BY <1>24, <3>1 DEF SignalExit, IInv, Tree, Waiting, SemasAgree
  <2> QED
    BY <1>0, <1>24, <2>1 DEF SignalExit, TypeOK, Goto, treeVars, semaVars, tableVars, fileVars
<1>25. ASSUME NEW p \in Page, Die(p) PROVE TypeOK'
  BY <1>0, <1>25 DEF Die, TypeOK, Goto, treeVars, semaVars, tableVars, fileVars
<1>26. ASSUME NEW p \in Page, FreePage(p) PROVE TypeOK'
  BY <1>0, <1>26 DEF FreePage, NoFiles, TypeOK, Goto, treeVars, semaVars, tableVars, fileVars
<1>27. ASSUME NEW p \in Page, Halt(p) PROVE TypeOK'
  BY <1>0, <1>27 DEF Halt, TypeOK, Goto, treeVars, semaVars, tableVars, fileVars
<1>28. CASE UNCHANGED vars
  BY <1>0, <1>28 DEF vars, TypeOK, Goto, treeVars, semaVars, tableVars, fileVars
<1> QED
  BY <1>1, <1>2, <1>3, <1>4, <1>5, <1>6, <1>7, <1>8, <1>9, <1>10, <1>11, <1>12, <1>13, <1>14,
     <1>15, <1>16, <1>17, <1>18, <1>19, <1>20, <1>21, <1>22, <1>23, <1>24, <1>25, <1>26, <1>27,
        <1>28, <1>f
  DEF Next, KernelStep, UserStep, Stopped
-----------------------------------------------------------------------------
(* Nobody reaches a page it did not reach, and no page that is reached     *)
(* goes away.                                                              *)
LEMMA Shrinks ==
    ASSUME ChildrenAreThere,
           \A q \in Page : ~Gone(q)' => ~Gone(q) /\ Reach(q)' \subseteq Reach(q),
           \A q \in Page : ~Gone(q)' => \A c \in Reach(q)' :
               pc'[c] \notin {"free", "lost", "dying"} /\ free_sema'[c] = 0
    PROVE  ChildrenAreThere'
BY DEF ChildrenAreThere

LEMMA ReachIs ==
    ASSUME TypeOK, NEW q \in Page
    PROVE  Reach(q) \subseteq Page
<1>1. child_list[q] \in Seq(Page) /\ child[q] \in Page \cup {None}
  BY DEF TypeOK
<1>2. Range(child_list[q]) \subseteq Page
  BY <1>1, InRange, ElementOfSeq
<1> QED
  BY <1>1, <1>2 DEF Reach

LEMMA ReachStays ==
    ASSUME NEW q \in Page, child'[q] = child[q], child_list'[q] = child_list[q]
    PROVE  Reach(q)' = Reach(q)
BY DEF Reach

(* A process that is on its own: neither waiting nor starting nor gone.    *)
Alone == {"user", "copy", "dup", "failed", "forked", "lock", "io", "closing", "signal"}
LEMMA AloneStep ==
    ASSUME TypeOK, Tree, NEW p \in Page, NEW l \in Alone, pc[p] \in Alone,
           pc' = [pc EXCEPT ![p] = l], UNCHANGED <<treeVars, semaVars>>,
           l \in {"copy", "dup", "failed", "forked"} => Copying(p),
           pc[p] = "signal" => l = "signal"
    PROVE  Tree'
<1>1. /\ pc'[p] = l /\ \A q \in Page \ {p} : pc'[q] = pc[q]
      /\ UNCHANGED <<parent, child, child_list, load_sema, wait_sema, free_sema>>
  BY DEF TypeOK, treeVars, semaVars
<1>2. \A q \in Page : Copying(q)' => Copying(q)
  BY <1>1 DEF Copying
<1>3. Waiting'
  BY <1>1, <1>2, Constants DEF Alone, Tree, Waiting, MainWaits, ChildKnown, FreshPages, SemasAgree,
     ReapsZombie, ForkerWaits, Busy
<1>4. ListedOnce'
  BY <1>1 DEF Tree, ListedOnce, Alone
<1>5. \A q \in Page : Reach(q)' = Reach(q)
  BY <1>1, ReachStays
<1>6. \A q \in Page : (Gone(q) => Gone(q)') /\ Reach(q) \subseteq Page
  BY <1>1, ReachIs DEF Gone, Alone
<1>7. ChildrenAreThere'
  BY <1>1, <1>5, <1>6, Shrinks DEF Tree, ChildrenAreThere, Alone
<1> QED
  BY <1>3, <1>4, <1>7 DEF Tree

LEMMA TreeStays ==
    ASSUME Tree, UNCHANGED <<pc, treeVars, semaVars>>
    PROVE  Tree'
BY SMTT(30) DEF Tree, Waiting, MainWaits, ChildKnown, FreshPages, SemasAgree, ReapsZombie, ForkerWaits,
   ListedOnce, ChildrenAreThere, Reach, Gone, Copying, treeVars, semaVars

(* The tree is kept.                                                       *)
LEMMA TreeStep == ASSUME IInv, [Next]_vars PROVE Tree'
<1>0. TypeOK /\ Tree /\ Waiting /\ ListedOnce /\ ChildrenAreThere
  BY DEF IInv, Tree
<1>a. \A q \in Page : /\ child_list[q] \in Seq(Page) /\ child[q] \in Page \cup {None}
                      /\ load_sema[q] \in 0..1 /\ wait_sema[q] \in 0..1 /\ free_sema[q] \in 0..1
                      /\ Reach(q) \subseteq Page
  BY <1>0, ReachIs DEF TypeOK
<1>b. \A q \in Page : ~Gone(q) => \A c \in Reach(q) :
          c \in Page /\ pc[c] \notin {"free", "lost", "dying"} /\ free_sema[c] = 0
  BY <1>0, <1>a DEF ChildrenAreThere
<1> USE Constants
<1>1. ASSUME NEW p \in Page, NEW c \in Page, Fork(p, c) PROVE Tree'
  <2>1. /\ pc[p] = "user" /\ pc[c] = "free" /\ p # c
        /\ pc'[p] = "push" /\ pc'[c] = "copy" /\ \A q \in Page \ {p, c} : pc'[q] = pc[q]
        /\ child'[p] = c /\ \A q \in Page \ {p} : child'[q] = child[q]
        /\ parent'[c] = p /\ \A q \in Page \ {c} : parent'[q] = parent[q]
        /\ UNCHANGED <<child_list, load_sema, wait_sema, free_sema>>
    BY <1>0, <1>1 DEF Fork, Calling, TypeOK, semaVars
  <2>2. child[p] = None /\ child[c] = None /\ child_list[c] = <<>>
    BY <1>0, <1>a, <2>1 DEF Waiting, ChildKnown, FreshPages, Busy
  <2>3. \A q \in Page \ {p, c} : Reach(q)' = Reach(q)
    BY <2>1, ReachStays
  <2>4. Reach(p)' = Reach(p) \cup {c} /\ Reach(c)' = {}
    <3>1. Range(<<>>) = {}
      BY DEF Range
    <3> QED
      BY <2>1, <2>2, <3>1 DEF Reach
  <2>5. \A q \in Page : ~Gone(q) => c \notin Reach(q)
    BY <1>0, <2>1 DEF ChildrenAreThere
  <2>6. \A q \in Page \ {p, c} : (Gone(q)' <=> Gone(q)) /\ (Copying(q)' <=> Copying(q))
    BY <2>1 DEF Gone, Copying
  <2>7. Waiting'
    BY <1>0, <2>1, <2>2, <2>6 DEF Waiting, MainWaits, ChildKnown, FreshPages, SemasAgree,
       ReapsZombie, ForkerWaits, Busy, Copying
  <2>8. ListedOnce'
    BY <1>0, <2>1, <2>2, <2>5 DEF ListedOnce, Gone, Reach
  <2>9. ChildrenAreThere'
    <3>1. ~Gone(p) /\ free_sema[c] = 0
      BY <1>0, <2>1 DEF Gone, Waiting, FreshPages
    <3> QED
      BY <1>0, <1>a, <2>1, <2>3, <2>4, <2>5, <2>6, <3>1 DEF ChildrenAreThere
  <2> QED
    BY <2>7, <2>8, <2>9 DEF Tree
<1>2. ASSUME NEW p \in Page, NEW c \in Page, ForkNoFdt(p, c) PROVE Tree'
  <2>1. /\ pc[c] = "free" /\ pc'[c] = "lost" /\ \A q \in Page \ {c} : pc'[q] = pc[q]
        /\ UNCHANGED <<parent, child, child_list, load_sema, wait_sema, free_sema>>
    BY <1>0, <1>2 DEF ForkNoFdt, Goto, TypeOK, treeVars, semaVars
  <2>2. \A q \in Page : Reach(q)' = Reach(q) /\ (Gone(q)' <=> Gone(q)) /\ (Copying(q)' <=> Copying(q))
    BY <2>1, ReachStays DEF Gone, Copying
  <2>3. \A q \in Page : ~Gone(q) => c \notin Reach(q)
    BY <1>0, <2>1 DEF ChildrenAreThere
  <2>7. Waiting'
    BY <1>0, <2>1, <2>2 DEF Waiting, MainWaits, ChildKnown, FreshPages, SemasAgree,
       ReapsZombie, ForkerWaits, Busy
  <2>8. ListedOnce'
    BY <1>0, <2>1 DEF ListedOnce
  <2>9. ChildrenAreThere'
    BY <1>0, <1>a, <2>1, <2>2, <2>3, Shrinks DEF ChildrenAreThere
  <2> QED
    BY <2>7, <2>8, <2>9 DEF Tree
<1>3. ASSUME NEW p \in Page, ForkPush(p) PROVE Tree'
  <2>1. /\ pc[p] = "push" /\ pc'[p] = "load" /\ \A q \in Page \ {p} : pc'[q] = pc[q]
        /\ child_list'[p] = Append(child_list[p], child[p])
        /\ \A q \in Page \ {p} : child_list'[q] = child_list[q]
        /\ UNCHANGED <<parent, child, load_sema, wait_sema, free_sema>>
    BY <1>0, <1>3 DEF ForkPush, Goto, TypeOK, semaVars
  <2>2. child[p] \in Page /\ child[p] \notin Range(child_list[p])
    BY <1>0, <2>1 DEF Waiting, ChildKnown, Busy, ListedOnce
  <2>3. Range(child_list'[p]) = Range(child_list[p]) \cup {child[p]} /\ NoRepeat(child_list'[p])
    BY <1>0, <1>a, <2>1, <2>2, AppendProps DEF ListedOnce
  <2>4. \A q \in Page : Reach(q)' = Reach(q)
    BY <2>1, <2>2, <2>3 DEF Reach
  <2>5. \A q \in Page : (Gone(q)' <=> Gone(q)) /\ (Copying(q)' <=> Copying(q))
    BY <2>1 DEF Gone, Copying
  <2>7. Waiting'
    BY <1>0, <2>1, <2>2, <2>5 DEF Waiting, MainWaits, ChildKnown, FreshPages, SemasAgree,
       ReapsZombie, ForkerWaits, Busy
  <2>8. ListedOnce'
    BY <1>0, <2>1, <2>3 DEF ListedOnce
  <2>9. ChildrenAreThere'
    BY <1>0, <1>b, <2>1, <2>4, <2>5, Shrinks
  <2> QED
    BY <2>7, <2>8, <2>9 DEF Tree
<1>4. ASSUME NEW p \in Page, ForkReturn(p) PROVE Tree'
  <2>1. /\ pc[p] = "load" /\ pc'[p] = "user" /\ \A q \in Page \ {p} : pc'[q] = pc[q]
        /\ child'[p] = None /\ \A q \in Page \ {p} : child'[q] = child[q]
        /\ UNCHANGED <<parent, child_list, wait_sema, free_sema>>
    BY <1>0, <1>4 DEF ForkReturn, Goto, TypeOK
  <2>2. child[p] \in Page
    BY <1>0, <2>1 DEF Waiting, ChildKnown, Busy
  <2>3. /\ load_sema[child[p]] > 0 /\ load_sema'[child[p]] = 0
        /\ \A q \in Page \ {child[p]} : load_sema'[q] = load_sema[q]
    BY <1>0, <1>a, <1>4, <2>2 DEF ForkReturn, TypeOK
  <2>4. \A q \in Page : (Gone(q)' <=> Gone(q)) /\ (Copying(q)' <=> Copying(q))
    BY <2>1 DEF Gone, Copying
  <2>5. \A q \in Page : Reach(q)' \subseteq Reach(q)
    BY <2>1 DEF Reach
  <2>7. Waiting'
    BY <1>0, <2>1, <2>2, <2>3, <2>4 DEF Waiting, MainWaits, ChildKnown, FreshPages, SemasAgree,
       ReapsZombie, ForkerWaits, Busy
  <2>8. ListedOnce'
    BY <1>0, <2>1 DEF ListedOnce
  <2>9. ChildrenAreThere'
    BY <1>0, <1>a, <2>1, <2>4, <2>5, Shrinks DEF ChildrenAreThere
  <2> QED
    BY <2>7, <2>8, <2>9 DEF Tree
<1>5. ASSUME NEW p \in Page, Forked(p) PROVE Tree'
  <2>1. /\ pc[p] \in {"forked", "failed"} /\ pc'[p] \in {"user", "closing"}
        /\ \A q \in Page \ {p} : pc'[q] = pc[q]
        /\ parent'[p] = None /\ \A q \in Page \ {p} : parent'[q] = parent[q]
        /\ \A q \in Page \ {p} : load_sema'[q] = load_sema[q]
        /\ UNCHANGED <<child, child_list, wait_sema, free_sema>>
    <3>1. CASE pc[p] = "forked" /\ Goto(p, "user")
      BY <1>0, <1>5, <3>1 DEF Forked, Goto, TypeOK
    <3>2. CASE pc[p] = "failed" /\ Exiting(p, -1)
      BY <1>0, <1>5, <3>2 DEF Forked, Exiting, Goto, TypeOK
    <3> QED
      BY <1>5, <3>1, <3>2 DEF Forked
  <2>2. \A q \in Page : (Gone(q)' <=> Gone(q)) /\ (Copying(q)' => Copying(q) /\ q # p)
    BY <2>1 DEF Gone, Copying
  <2>3. \A q \in Page : Reach(q)' = Reach(q)
    BY <2>1, ReachStays
  <2>7. Waiting'
    BY <1>0, <2>1, <2>2 DEF Waiting, MainWaits, ChildKnown, FreshPages, SemasAgree,
       ReapsZombie, ForkerWaits, Busy
  <2>8. ListedOnce'
    BY <1>0, <2>1 DEF ListedOnce
  <2>9. ChildrenAreThere'
    BY <1>0, <1>a, <2>1, <2>2, <2>3, Shrinks DEF ChildrenAreThere
  <2> QED
    BY <2>7, <2>8, <2>9 DEF Tree
<1>6. ASSUME NEW p \in Page, NEW c \in Page, Wait(p, c) PROVE Tree'
  <2>1. /\ pc[p] = "user" /\ pc'[p] = "wait" /\ \A q \in Page \ {p} : pc'[q] = pc[q]
        /\ child'[p] = c /\ \A q \in Page \ {p} : child'[q] = child[q]
        /\ c \in Range(child_list[p])
        /\ UNCHANGED <<parent, child_list, load_sema, wait_sema, free_sema>>
    BY <1>0, <1>6 DEF Wait, Calling, IsChild, Goto, TypeOK, semaVars
  <2>2. \A q \in Page : (Gone(q)' <=> Gone(q)) /\ (Copying(q)' <=> Copying(q))
    BY <2>1 DEF Gone, Copying
  <2>3. \A q \in Page : Reach(q)' \subseteq Reach(q)
    BY <2>1 DEF Reach
  <2>7. Waiting'
    BY <1>0, <2>1, <2>2 DEF Waiting, MainWaits, ChildKnown, FreshPages, SemasAgree,
       ReapsZombie, ForkerWaits, Busy
  <2>8. ListedOnce'
    BY <1>0, <2>1 DEF ListedOnce
  <2>9. ChildrenAreThere'
    BY <1>0, <1>a, <2>1, <2>2, <2>3, Shrinks DEF ChildrenAreThere
  <2> QED
    BY <2>7, <2>8, <2>9 DEF Tree
<1>7. ASSUME NEW p \in Page, WaitDown(p) PROVE Tree'
  <2>1. /\ pc[p] = "wait" /\ pc'[p] = "reap" /\ \A q \in Page \ {p} : pc'[q] = pc[q]
        /\ UNCHANGED <<parent, child, child_list, load_sema, free_sema>>
    BY <1>0, <1>7 DEF WaitDown, Goto, TypeOK, treeVars
  <2>2. child[p] \in Page
    BY <1>0, <2>1 DEF Waiting, ChildKnown, Busy
  <2>3. /\ wait_sema[child[p]] > 0 /\ wait_sema'[child[p]] = 0
        /\ \A q \in Page \ {child[p]} : wait_sema'[q] = wait_sema[q]
    BY <1>0, <1>a, <1>7, <2>2 DEF WaitDown, TypeOK
  <2>4. \A q \in Page : (Gone(q)' <=> Gone(q)) /\ (Copying(q)' <=> Copying(q)) /\ Reach(q)' = Reach(q)
    BY <2>1, ReachStays DEF Gone, Copying
  <2>7. Waiting'
    BY <1>0, <2>1, <2>2, <2>3, <2>4 DEF Waiting, MainWaits, ChildKnown, FreshPages, SemasAgree,
       ReapsZombie, ForkerWaits, Busy
  <2>8. ListedOnce'
    BY <1>0, <2>1 DEF ListedOnce
  <2>9. ChildrenAreThere'
    BY <1>0, <1>a, <2>1, <2>4, Shrinks DEF ChildrenAreThere
  <2> QED
    BY <2>7, <2>8, <2>9 DEF Tree
<1>8. ASSUME NEW p \in Page, Reap(p) PROVE Tree'
  <2>1. /\ pc[p] = "reap" /\ pc'[p] = "release" /\ \A q \in Page \ {p} : pc'[q] = pc[q]
        /\ child_list'[p] = RemoveFirst(child_list[p], child[p])
        /\ \A q \in Page \ {p} : child_list'[q] = child_list[q]
        /\ UNCHANGED <<parent, child, load_sema, wait_sema, free_sema>>
    BY <1>0, <1>8 DEF Reap, Goto, TypeOK, semaVars
  <2>2. Range(child_list'[p]) = Range(child_list[p]) \ {child[p]} /\ NoRepeat(child_list'[p])
    BY <1>0, <1>a, <2>1, RemoveFirstProps DEF ListedOnce
  <2>3. \A q \in Page : (Gone(q)' <=> Gone(q)) /\ (Copying(q)' <=> Copying(q))
    BY <2>1 DEF Gone, Copying
  <2>4. \A q \in Page : Reach(q)' \subseteq Reach(q)
    BY <2>1, <2>2 DEF Reach
  <2>7. Waiting'
    BY <1>0, <2>1, <2>3 DEF Waiting, MainWaits, ChildKnown, FreshPages, SemasAgree,
       ReapsZombie, ForkerWaits, Busy
  <2>8. ListedOnce'
    BY <1>0, <2>1, <2>2 DEF ListedOnce
  <2>9. ChildrenAreThere'
    BY <1>0, <1>a, <2>1, <2>3, <2>4, Shrinks DEF ChildrenAreThere
  <2> QED
    BY <2>7, <2>8, <2>9 DEF Tree
<1>9. ASSUME NEW p \in Page, Release(p) PROVE Tree'
  <2>1. /\ pc[p] = "release" /\ pc'[p] \in {"user", "off"} /\ (pc'[p] = "off" <=> p = Main)
        /\ \A q \in Page \ {p} : pc'[q] = pc[q]
        /\ child'[p] = None /\ \A q \in Page \ {p} : child'[q] = child[q]
        /\ UNCHANGED <<parent, child_list, load_sema, wait_sema>>
    BY <1>0, <1>9 DEF Release, Goto, TypeOK
  <2>2. /\ child[p] \in Page /\ child[p] \notin Range(child_list[p])
        /\ pc[child[p]] = "zombie" /\ wait_sema[child[p]] = 0 /\ p # child[p]
    BY <1>0, <2>1 DEF Waiting, ChildKnown, Busy, ListedOnce, ReapsZombie
  <2>3. \A q \in Page \ {child[p]} : free_sema'[q] = free_sema[q]
    BY <1>0, <1>9, <2>2 DEF Release, TypeOK
  <2>4. \A q \in Page : (Gone(q)' <=> Gone(q)) /\ (Copying(q)' <=> Copying(q))
    BY <2>1 DEF Gone, Copying
  <2>5. \A q \in Page : Reach(q)' \subseteq Reach(q)
    BY <2>1 DEF Reach
  <2>6. \A q \in Page : ~Gone(q) => child[p] \notin Reach(q)'
    <3>1. child[p] \in Reach(p) /\ ~Gone(p)
      BY <2>1, <2>2 DEF Reach, Gone
    <3>2. child[p] \notin Reach(p)'
      BY <2>1, <2>2 DEF Reach
    <3>3. \A q \in Page \ {p} : ~Gone(q) => child[p] \notin Reach(q)
      BY <1>0, <3>1 DEF ChildrenAreThere
    <3> QED
      BY <2>5, <3>2, <3>3
  <2>7. Waiting'
    BY <1>0, <2>1, <2>2, <2>3, <2>4 DEF Waiting, MainWaits, ChildKnown, FreshPages, SemasAgree,
       ReapsZombie, ForkerWaits, Busy
  <2>8. ListedOnce'
    BY <1>0, <2>1 DEF ListedOnce
  <2>9. ChildrenAreThere'
    BY <1>0, <1>a, <2>1, <2>2, <2>3, <2>4, <2>5, <2>6, Shrinks DEF ChildrenAreThere
  <2> QED
    BY <2>7, <2>8, <2>9 DEF Tree
<1>10. ASSUME NEW p \in Page, SignalExit(p) PROVE Tree'
  <2>1. /\ pc[p] = "signal" /\ pc'[p] = "zombie" /\ \A q \in Page \ {p} : pc'[q] = pc[q]
        /\ \A q \in Page \ {p} : wait_sema'[q] = wait_sema[q]
        /\ UNCHANGED <<parent, child, child_list, load_sema, free_sema>>
    BY <1>0, <1>10 DEF SignalExit, Goto, TypeOK, treeVars
  <2>2. free_sema[p] = 0
    BY <1>0, <1>a, <2>1 DEF Waiting, SemasAgree
  <2>3. \A q \in Page : (Gone(q)' <=> Gone(q)) /\ (Copying(q)' <=> Copying(q)) /\ Reach(q)' = Reach(q)
    BY <2>1, ReachStays DEF Gone, Copying
  <2>7. Waiting'
    BY <1>0, <2>1, <2>2, <2>3 DEF Waiting, MainWaits, ChildKnown, FreshPages, SemasAgree,
       ReapsZombie, ForkerWaits, Busy
  <2>8. ListedOnce'
    BY <1>0, <2>1 DEF ListedOnce
  <2>9. ChildrenAreThere'
    BY <1>0, <1>a, <2>1, <2>3, Shrinks DEF ChildrenAreThere
  <2> QED
    BY <2>7, <2>8, <2>9 DEF Tree
<1>11. ASSUME NEW p \in Page, Die(p) PROVE Tree'
  <2>1. /\ pc[p] = "zombie" /\ pc'[p] = "dying" /\ \A q \in Page \ {p} : pc'[q] = pc[q]
        /\ free_sema[p] > 0 /\ free_sema'[p] = 0 /\ \A q \in Page \ {p} : free_sema'[q] = free_sema[q]
        /\ UNCHANGED <<parent, child, child_list, load_sema, wait_sema>>
    BY <1>0, <1>a, <1>11 DEF Die, Goto, TypeOK, treeVars
  <2>2. \A q \in Page : (Gone(q)' <=> Gone(q)) /\ (Copying(q)' <=> Copying(q)) /\ Reach(q)' = Reach(q)
    BY <2>1, ReachStays DEF Gone, Copying
  <2>3. \A q \in Page : ~Gone(q) => p \notin Reach(q)
    BY <1>0, <2>1 DEF ChildrenAreThere
  <2>4. \A q \in Page : pc[q] \in {"reap", "release"} => child[q] # p
    BY <1>0, <2>3 DEF Waiting, ChildKnown, Busy, Gone, Reach
  <2>7. Waiting'
    BY <1>0, <2>1, <2>2, <2>4 DEF Waiting, MainWaits, ChildKnown, FreshPages, SemasAgree,
       ReapsZombie, ForkerWaits, Busy
  <2>8. ListedOnce'
    BY <1>0, <2>1 DEF ListedOnce
  <2>9. ChildrenAreThere'
    BY <1>0, <1>b, <2>1, <2>2, <2>3, Shrinks
  <2> QED
    BY <2>7, <2>8, <2>9 DEF Tree
<1>12. ASSUME NEW p \in Page, FreePage(p) PROVE Tree'
  <2>1. /\ pc[p] = "dying" /\ pc'[p] = "free" /\ \A q \in Page \ {p} : pc'[q] = pc[q]
        /\ child'[p] = None /\ child_list'[p] = <<>>
        /\ load_sema'[p] = 0 /\ wait_sema'[p] = 0 /\ free_sema'[p] = 0
        /\ \A q \in Page \ {p} : /\ parent'[q] = parent[q] /\ child'[q] = child[q]
                                 /\ child_list'[q] = child_list[q] /\ load_sema'[q] = load_sema[q]
                                 /\ wait_sema'[q] = wait_sema[q] /\ free_sema'[q] = free_sema[q]
    BY <1>0, <1>12 DEF FreePage, Goto, TypeOK
  <2>2. \A q \in Page : (Gone(q)' <=> Gone(q)) /\ (Copying(q)' => Copying(q) /\ q # p)
    BY <2>1 DEF Gone, Copying
  <2>3. \A q \in Page : ~Gone(q) => p \notin Reach(q) /\ Reach(q)' = Reach(q)
    BY <1>0, <2>1, ReachStays DEF ChildrenAreThere, Gone
  <2>4. \A q \in Page : pc[q] \in {"reap", "release"} => child[q] # p
    BY <1>0, <2>3 DEF Waiting, ChildKnown, Busy, Gone, Reach
  <2>7. Waiting'
    BY <1>0, <2>1, <2>2, <2>4 DEF Waiting, MainWaits, ChildKnown, FreshPages, SemasAgree,
       ReapsZombie, ForkerWaits, Busy
  <2>8. ListedOnce'
    <3>1. NoRepeat(<<>>)
      BY DEF NoRepeat
    <3> QED
      BY <1>0, <2>1, <3>1 DEF ListedOnce
  <2>9. ChildrenAreThere'
    BY <1>0, <1>b, <2>1, <2>2, <2>3, Shrinks
  <2> QED
    BY <2>7, <2>8, <2>9 DEF Tree
<1>13. ASSUME NEW p \in Page, Halt(p) PROVE Tree'
  <2>1. /\ pc[Main] \in {"wait", "reap", "release", "off"} /\ pc'[Main] = "off"
        /\ \A q \in Page \ {Main} : pc'[q] = pc[q]
        /\ UNCHANGED <<parent, child, child_list, load_sema, wait_sema, free_sema>>
    BY <1>0, <1>13 DEF Halt, Goto, TypeOK, Waiting, MainWaits, treeVars, semaVars
  <2>2. \A q \in Page : (Gone(q)' <=> Gone(q)) /\ (Copying(q)' <=> Copying(q)) /\ Reach(q)' = Reach(q)
    BY <2>1, ReachStays DEF Gone, Copying
  <2>7. Waiting'
    BY <1>0, <2>1, <2>2 DEF Waiting, MainWaits, ChildKnown, FreshPages, SemasAgree,
       ReapsZombie, ForkerWaits, Busy
  <2>8. ListedOnce'
    BY <1>0, <2>1 DEF ListedOnce
  <2>9. ChildrenAreThere'
    BY <1>0, <1>a, <2>1, <2>2, Shrinks DEF ChildrenAreThere
  <2> QED
    BY <2>7, <2>8, <2>9 DEF Tree
<1>14. ASSUME NEW p \in Page,
              CopyMemory(p) \/ DupDone(p) \/ ReadWrite(p) \/ AcquireFileLock(p) \/ ReleaseFileLock(p)
       PROVE  Tree'
  BY <1>0, <1>14, AloneStep DEF CopyMemory, DupDone, ReadWrite, AcquireFileLock, ReleaseFileLock,
     Calling, Goto, Alone, Copying
<1>15. ASSUME NEW p \in Page,
              \/ CopyFaults(p) \/ FaultInIo(p) \/ Kill(p) \/ CloseLast(p)
              \/ \E status \in Code : Exit(p, status)
       PROVE  Tree'
  BY <1>0, <1>15, AloneStep DEF CopyFaults, FaultInIo, Kill, CloseLast, Exit, Calling, Goto, Exiting,
     Alone, Copying
<1>16. ASSUME NEW p \in Page, Exec(p) PROVE Tree'
  <2>1. UNCHANGED <<treeVars, semaVars>> /\ pc[p] = "user"
    BY <1>16 DEF Exec, Calling
  <2>2. CASE UNCHANGED pc
    BY <1>0, <2>1, <2>2, TreeStays
  <2>3. CASE Exiting(p, -1)
    BY <1>0, <2>1, <2>3, AloneStep DEF Exiting, Goto, Alone
  <2> QED
    BY <1>16, <2>2, <2>3 DEF Exec
<1>17. CASE UNCHANGED <<pc, treeVars, semaVars>>
  BY <1>0, <1>17, TreeStays
<1> QED
  BY <1>1, <1>2, <1>3, <1>4, <1>5, <1>6, <1>7, <1>8, <1>9, <1>10, <1>11, <1>12, <1>13, <1>14,
     <1>15, <1>16, <1>17
  DEF Next, KernelStep, UserStep, Stopped, vars, DupFile, Open, Close, CloseNext
-----------------------------------------------------------------------------
(* What each place holds is a file object; main is never copied.           *)
LEMMA HeldTyped ==
    ASSUME TypeOK
    PROVE  \A p \in Page, n \in Place : Held(p, n) \in File \cup {None}
BY DEF TypeOK, Held, Place

(* Files without the index of the loops.                                   *)
Owned == GoneHoldNothing /\ HeldOnce /\ HeldOpen /\ RunDenied /\ SameFiles

(* No file object changes, nor who holds it.                               *)
LEMMA OwnedStays ==
    ASSUME Files, UNCHANGED <<fdt, runn_file, inode, deny_write>>,
           \A q \in Page : Gone(q)' => Gone(q),
           \A q \in Page : Copying(q)' =>
               (Copying(q) /\ parent'[q] = parent[q]) \/ fdt[q] = NoFiles
    PROVE  Owned'
<1>1. GoneHoldNothing'
  BY DEF Files, GoneHoldNothing
<1>2. HeldOnce' /\ HeldOpen'
  BY DEF Files, HeldOnce, HeldOpen, Held
<1>3. RunDenied'
  BY DEF Files, RunDenied
<1>4. SameFiles'
  BY DEF Files, SameFiles, NoFiles
<1> QED
  BY <1>1, <1>2, <1>3, <1>4 DEF Owned

LEMMA LoopStays ==
    ASSUME TypeOK, Files, UNCHANGED <<fdt, i>>,
           \A q \in Page : pc'[q] \notin {"dup", "closing"} => pc[q] \notin {"dup", "closing"},
           \A q \in Page : pc'[q] = "closing" => pc[q] # "dup"
    PROVE  LoopIndex'
<1>1. \A q \in Page : pc'[q] = "closing" => \A n \in Fd : n < i[q] => fdt[q][n] = None
  <2>1. \A n \in Fd : ~(n < 2)
    BY FileAssumption DEF Fd
  <2> QED
    BY <2>1 DEF Files, LoopIndex
<1> QED
  BY <1>1 DEF Files, LoopIndex

(* One place is emptied and what it held is closed.                        *)
LEMMA OwnedClose ==
    ASSUME TypeOK, Tree, Files, NEW p \in Page, NEW n \in Place,
           FileClose({Held(p, n)}), pc[p] \in {"user", "closing"},
           Held(p, n)' = None,
           \A q \in Page, m \in Place : q # p \/ m # n => Held(q, m)' = Held(q, m),
           \A q \in Page : Gone(q)' => Gone(q) \/ (q = p /\ \A m \in Place : Held(p, m)' = None),
           \A q \in Page : Copying(q)' => Copying(q), UNCHANGED parent,
           fdt' \in [Page -> [Fd -> File \cup {None}]]
    PROVE  Owned'
<1> DEFINE f == Held(p, n)
<1>1. \A q \in Page, m \in Place : Held(q, m)' # None =>
          Held(q, m)' = Held(q, m) /\ Held(q, m) # f /\ Held(q, m) \in File
  BY HeldTyped DEF Files, HeldOnce
<1>2. \A g \in File \ {f} : inode'[g] = inode[g] /\ (deny_write[g] = TRUE => deny_write'[g] = TRUE)
  <2>1. \A g \in File \ {f} : inode'[g] = inode[g]
    BY DEF FileClose
  <2>2. \A g \in File : deny_write'[g] = (g \notin {f} /\ deny_write[g])
    BY Zenon DEF FileClose
  <2>3. \A g \in File \ {f} : deny_write[g] = TRUE => deny_write'[g] = TRUE
    BY <2>2
  <2> QED
    BY <2>1, <2>3
<1>3. \A q \in Page : Held(q, 0) = runn_file[q] /\ Held(q, 0)' = runn_file'[q]
  BY DEF Held
<1>4. \A q \in Page, m \in Fd : Held(q, m) = fdt[q][m] /\ Held(q, m)' = fdt'[q][m] /\ m \in Place
  BY Constants DEF Held, Place
<1>5. GoneHoldNothing'
  <2>1. ASSUME NEW q \in Page, Gone(q)' PROVE \A m \in Place : Held(q, m)' = None
    <3>1. CASE Gone(q)
      <4>1. fdt[q] = NoFiles /\ runn_file[q] = None
        BY <3>1 DEF Files, GoneHoldNothing
      <4>2. \A m \in Place : Held(q, m) = None
        BY <4>1 DEF Held, Place, NoFiles
      <4> QED
        BY <4>2
    <3> QED
      BY <2>1, <3>1
  <2>2. ASSUME NEW q \in Page, Gone(q)' PROVE fdt'[q] = NoFiles /\ runn_file'[q] = None
    <3>1. \A m \in Fd : fdt'[q][m] = None
      BY <1>4, <2>1, <2>2
    <3>2. runn_file'[q] = None
      BY <1>3, <2>1, <2>2 DEF Place
    <3> QED
      BY <3>1, <3>2 DEF NoFiles
  <2> QED
    BY <2>2 DEF GoneHoldNothing
<1>6. HeldOnce'
  <2>1. \A q, r \in Page, m, k \in Place :
            Held(q, m)' # None /\ Held(q, m)' = Held(r, k)' => q = r /\ m = k
    BY <1>1 DEF Files, HeldOnce
  <2> QED
    BY <2>1 DEF HeldOnce
<1>7. HeldOpen'
  <2>1. \A q \in Page, m \in Place : Held(q, m)' # None => inode'[Held(q, m)'] # None
    BY <1>1, <1>2 DEF Files, HeldOpen
  <2> QED
    BY <2>1 DEF HeldOpen
<1>8. RunDenied'
  <2>1. ASSUME NEW q \in Page, runn_file'[q] # None PROVE deny_write'[runn_file'[q]] = TRUE
    <3>1. /\ runn_file'[q] = runn_file[q] /\ runn_file[q] # f /\ runn_file[q] \in File
          /\ runn_file[q] # None
      BY <1>1, <1>3, <2>1, Constants DEF Place
    <3>2. deny_write[runn_file[q]] = TRUE
      BY <3>1 DEF Files, RunDenied
    <3> QED
      BY <1>2, <3>1, <3>2
  <2> QED
    BY <2>1 DEF RunDenied
<1>9. SameFiles'
  <2>1. ASSUME NEW c \in Page, Copying(c)', NEW m \in Fd, fdt'[c][m] # None
        PROVE  /\ fdt'[parent'[c]][m] # None
               /\ inode'[fdt'[c][m]] = inode'[fdt'[parent'[c]][m]]
    <3>1. Copying(c) /\ parent'[c] = parent[c] /\ parent[c] \in Page /\ parent[c] # p
      BY <2>1 DEF Tree, Waiting, ForkerWaits
    <3>2. fdt'[c][m] = fdt[c][m] /\ fdt[c][m] \in File \ {f}
      BY <1>1, <1>4, <2>1
    <3>3. fdt'[parent[c]][m] = fdt[parent[c]][m]
      BY <1>4, <3>1
    <3>4. fdt[parent[c]][m] # None /\ inode[fdt[c][m]] = inode[fdt[parent[c]][m]]
      BY <2>1, <3>1, <3>2 DEF Files, SameFiles
    <3>5. fdt[parent[c]][m] \in File \ {f}
      BY <1>1, <1>4, <3>1, <3>3, <3>4
    <3> QED
      BY <1>2, <3>1, <3>2, <3>3, <3>4, <3>5
  <2> QED
    BY <2>1 DEF SameFiles
<1> QED
  BY <1>5, <1>6, <1>7, <1>8, <1>9 DEF Owned

(* A free file object is opened and put in one place.                      *)
LEMMA OwnedOpen ==
    ASSUME TypeOK, Tree, Files, NEW p \in Page, NEW n \in Place,
           NEW f \in File, NEW k \in Inode, NEW deny,
           FileOpen(f, k, deny), n = 0 => deny = TRUE,
           \/ pc[p] = "user"
           \/ /\ pc[p] = "dup" /\ n \in Fd /\ fdt[parent[p]][n] # None
              /\ k = inode[fdt[parent[p]][n]],
           Held(p, n)' = f,
           \A q \in Page, m \in Place : q # p \/ m # n => Held(q, m)' = Held(q, m),
           \A q \in Page : Gone(q)' => Gone(q),
           \A q \in Page : Copying(q)' => Copying(q), UNCHANGED parent,
           fdt' \in [Page -> [Fd -> File \cup {None}]]
    PROVE  Owned'
<1>1. \A q \in Page, m \in Place : Held(q, m) # f
  BY HeldTyped, Constants DEF Files, HeldOpen, FileOpen
<1>2. inode'[f] = k /\ k # None /\ f # None
  BY Constants DEF FileOpen, TypeOK
<1>3. \A g \in File \ {f} : inode'[g] = inode[g] /\ deny_write'[g] = deny_write[g]
  BY DEF FileOpen, TypeOK
<1>4. \A q \in Page : Held(q, 0) = runn_file[q] /\ Held(q, 0)' = runn_file'[q]
  BY DEF Held
<1>5. \A q \in Page, m \in Fd : Held(q, m) = fdt[q][m] /\ Held(q, m)' = fdt'[q][m] /\ m \in Place
  BY Constants DEF Held, Place
<1>6. GoneHoldNothing'
  <2>1. ASSUME NEW q \in Page, Gone(q)' PROVE fdt'[q] = NoFiles /\ runn_file'[q] = None
    <3>1. Gone(q) /\ q # p
      BY <2>1 DEF Gone
    <3>2. fdt[q] = NoFiles /\ runn_file[q] = None
      BY <3>1 DEF Files, GoneHoldNothing
    <3>3. \A m \in Fd : fdt'[q][m] = None
      BY <1>5, <3>1, <3>2 DEF NoFiles
    <3>4. runn_file'[q] = None
      BY <1>4, <3>1, <3>2 DEF Place
    <3> QED
      BY <3>3, <3>4 DEF NoFiles
  <2> QED
    BY <2>1 DEF GoneHoldNothing
<1>7. HeldOnce'
  <2>1. \A q, r \in Page, m, j \in Place :
            Held(q, m)' # None /\ Held(q, m)' = Held(r, j)' => q = r /\ m = j
    BY <1>1 DEF Files, HeldOnce
  <2> QED
    BY <2>1 DEF HeldOnce
<1>8. HeldOpen'
  <2>1. ASSUME NEW q \in Page, NEW m \in Place, Held(q, m)' # None
        PROVE  inode'[Held(q, m)'] # None
    <3>1. CASE q = p /\ m = n
      BY <1>2, <3>1
    <3>2. CASE q # p \/ m # n
      <4>1. Held(q, m)' = Held(q, m)
        BY <3>2
      <4>2. Held(q, m) \in File \ {f} /\ inode[Held(q, m)] # None
        BY <1>1, <2>1, <4>1, HeldTyped DEF Files, HeldOpen
      <4> QED
        BY <1>3, <4>1, <4>2
    <3> QED
      BY <3>1, <3>2
  <2> QED
    BY <2>1 DEF HeldOpen
<1>9. RunDenied'
  <2>1. ASSUME NEW q \in Page, runn_file'[q] # None PROVE deny_write'[runn_file'[q]] = TRUE
    <3>1. CASE q = p /\ n = 0
      <4>1. runn_file'[q] = f /\ deny = TRUE
        BY <1>4, <3>1
      <4>2. deny_write' = [deny_write EXCEPT ![f] = deny] /\ deny_write \in [File -> BOOLEAN]
        BY DEF FileOpen, TypeOK
      <4> QED
        BY <4>1, <4>2
    <3>2. CASE q # p \/ n # 0
      <4>1. runn_file'[q] = runn_file[q] /\ runn_file[q] \in File \ {f}
        BY <1>1, <1>4, <2>1, <3>2, HeldTyped DEF Place
      <4>2. deny_write[runn_file[q]] = TRUE
        BY <2>1, <4>1 DEF Files, RunDenied
      <4> QED
        BY <1>3, <4>1, <4>2
    <3> QED
      BY <3>1, <3>2
  <2> QED
    BY <2>1 DEF RunDenied
<1>10. SameFiles'
  <2>1. ASSUME NEW c \in Page, Copying(c)', NEW m \in Fd, fdt'[c][m] # None
        PROVE  /\ fdt'[parent'[c]][m] # None
               /\ inode'[fdt'[c][m]] = inode'[fdt'[parent'[c]][m]]
    <3>1. Copying(c) /\ parent'[c] = parent[c] /\ parent[c] \in Page /\ parent[c] # p
      BY <2>1 DEF Tree, Waiting, ForkerWaits
    <3>2. fdt'[parent[c]][m] = fdt[parent[c]][m]
      BY <1>5, <3>1
    <3>3. fdt[parent[c]][m] # f
      BY <1>1, <1>5, <3>1
    <3>4. CASE c = p /\ m = n
      <4>1. pc[p] = "dup"
        BY <3>1, <3>4 DEF Copying
      <4>2. fdt[parent[p]][n] # None /\ k = inode[fdt[parent[p]][n]]
        BY <4>1
      <4>3. fdt[parent[p]][n] \in File \ {f}
        BY <1>5, <3>1, <3>3, <3>4, <4>2, HeldTyped
      <4>4. fdt'[c][m] = f
        BY <1>5, <3>4
      <4> QED
        BY <1>2, <1>3, <3>1, <3>2, <3>4, <4>2, <4>3, <4>4
    <3>5. CASE c # p \/ m # n
      <4>1. fdt'[c][m] = fdt[c][m] /\ fdt[c][m] \in File \ {f}
        BY <1>1, <1>5, <2>1, <3>5, HeldTyped
      <4>2. fdt[parent[c]][m] # None /\ inode[fdt[c][m]] = inode[fdt[parent[c]][m]]
        BY <2>1, <3>1, <4>1 DEF Files, SameFiles
      <4>3. fdt[parent[c]][m] \in File \ {f}
        BY <1>5, <3>1, <3>3, <4>2, HeldTyped
      <4> QED
        BY <1>3, <3>1, <3>2, <4>1, <4>2, <4>3
    <3> QED
      BY <3>4, <3>5
  <2> QED
    BY <2>1 DEF SameFiles
<1> QED
  BY <1>6, <1>7, <1>8, <1>9, <1>10 DEF Owned
(* One place of the table of p is emptied, or filled.                      *)
LEMMA EntryHeld ==
    ASSUME TypeOK, NEW p \in Page, NEW n \in Fd, NEW f, UNCHANGED runn_file,
           fdt' = [fdt EXCEPT ![p][n] = f]
    PROVE  /\ n \in Place /\ n # 0 /\ Held(p, n) = fdt[p][n] /\ Held(p, n)' = f
           /\ \A q \in Page, m \in Place : q # p \/ m # n => Held(q, m)' = Held(q, m)
<1>1. n \in Place /\ n # 0
  BY Constants DEF Place
<1>2. fdt'[p][n] = f /\ \A q \in Page, m \in Fd : q # p \/ m # n => fdt'[q][m] = fdt[q][m]
  BY DEF TypeOK
<1> QED
  BY <1>1, <1>2 DEF Held, Place

LEMMA RunHeld ==
    ASSUME TypeOK, NEW p \in Page, NEW f, UNCHANGED fdt, runn_file' = [runn_file EXCEPT ![p] = f]
    PROVE  /\ 0 \in Place /\ Held(p, 0) = runn_file[p] /\ Held(p, 0)' = f
           /\ \A q \in Page, m \in Place : q # p \/ m # 0 => Held(q, m)' = Held(q, m)
BY DEF Held, Place, TypeOK

LEMMA FileStep == ASSUME IInv, TypeOK', [Next]_vars PROVE Files'
<1>0. TypeOK /\ Tree /\ Files
  BY DEF IInv
<1>a. fdt' \in [Page -> [Fd -> File \cup {None}]]
  BY DEF TypeOK
<1>1. ASSUME NEW p \in Page, DupFile(p) PROVE Files'
  <2>1. pc[p] = "dup" /\ i[p] \in Fd /\ UNCHANGED <<pc, parent, runn_file>>
    <3>1. i[p] \in 2..FdLimit /\ i[p] < FdLimit
      BY <1>0, <1>1 DEF DupFile, TypeOK
    <3> QED
      BY <1>1, <3>1, FileAssumption DEF DupFile, Fd, treeVars
  <2>2. LoopIndex'
    BY <1>0, <1>1, <2>1 DEF DupFile, Files, LoopIndex, TypeOK
  <2>3. \A q \in Page : (Gone(q)' <=> Gone(q)) /\ (Copying(q)' <=> Copying(q))
    BY <2>1 DEF Gone, Copying
  <2>4. Owned'
    <3>1. CASE UNCHANGED <<fdt, fileVars>>
      BY <1>0, <2>1, <2>3, <3>1, OwnedStays DEF fileVars
    <3>2. CASE \E f \in File : /\ FileDuplicate(f, fdt[parent[p]][i[p]])
                              /\ fdt[parent[p]][i[p]] # None
                              /\ fdt' = [fdt EXCEPT ![p][i[p]] = f]
      <4>1. PICK n \in Fd : n = i[p]
        BY <2>1
      <4>2. PICK f \in File : /\ FileDuplicate(f, fdt[parent[p]][n]) /\ fdt[parent[p]][n] # None
                              /\ fdt' = [fdt EXCEPT ![p][n] = f]
        BY <3>2, <4>1
      <4>3. parent[p] \in Page
        BY <1>0, <2>1 DEF Tree, Waiting, ForkerWaits, Copying
      <4>4. PICK g \in File : g = fdt[parent[p]][n]
        BY <1>0, <4>2, <4>3 DEF TypeOK
      <4>5. n \in Place /\ Held(parent[p], n) = g /\ g # None
        BY <4>2, <4>4, Constants DEF Held, Place
      <4>6. PICK k \in Inode : k = inode[g]
        <5>1. inode[g] # None
          BY <1>0, <4>3, <4>5 DEF Files, HeldOpen
        <5>2. inode[g] \in Inode \cup {None}
          BY <1>0 DEF TypeOK
        <5> QED
          BY <5>1, <5>2
      <4>7. PICK deny \in BOOLEAN : deny = deny_write[g]
        BY <1>0, <4>4 DEF TypeOK
      <4>8. FileOpen(f, k, deny)
        BY <4>2, <4>4, <4>6, <4>7 DEF FileDuplicate
      <4>9. /\ n # 0 /\ Held(p, n)' = f
            /\ \A q \in Page, m \in Place : q # p \/ m # n => Held(q, m)' = Held(q, m)
        BY <1>0, <2>1, <4>2, EntryHeld
      <4>10. k = inode[fdt[parent[p]][n]] /\ UNCHANGED parent
        BY <2>1, <4>4, <4>6
      <4> QED
        BY <1>0, <1>a, <2>1, <2>3, <4>1, <4>2, <4>5, <4>6, <4>7, <4>8, <4>9, <4>10, OwnedOpen
    <3> QED
      BY <1>1, <3>1, <3>2, Zenon DEF DupFile
  <2> QED
    BY <2>2, <2>4 DEF Files, Owned
<1>2. ASSUME NEW p \in Page, DupDone(p) PROVE Files'
  <2>1. /\ pc[p] = "dup" /\ pc'[p] = "forked" /\ \A q \in Page \ {p} : pc'[q] = pc[q]
        /\ i'[p] = 2 /\ \A q \in Page \ {p} : i'[q] = i[q]
        /\ UNCHANGED <<fdt, runn_file, inode, deny_write, parent>>
    BY <1>0, <1>2 DEF DupDone, Goto, TypeOK, treeVars, fileVars
  <2>2. LoopIndex'
    BY <1>0, <2>1 DEF Files, LoopIndex
  <2>3. Owned'
    BY <1>0, <2>1, OwnedStays DEF Gone, Copying
  <2> QED
    BY <2>2, <2>3 DEF Files, Owned
<1>3. ASSUME NEW p \in Page, Exec(p) PROVE Files'
  <2>1. pc[p] = "user" /\ UNCHANGED <<fdt, i, parent>>
    BY <1>3 DEF Exec, Calling, treeVars
  <2>2. pc' = pc \/ pc' = [pc EXCEPT ![p] = "closing"]
    BY <1>3 DEF Exec, Exiting, Goto
  <2>3. \A q \in Page : (Gone(q)' <=> Gone(q)) /\ (Copying(q)' <=> Copying(q))
    BY <1>0, <2>1, <2>2 DEF Gone, Copying, TypeOK
  <2>4. LoopIndex'
    <3>1. \A q \in Page : pc'[q] = pc[q] \/ (pc[q] = "user" /\ pc'[q] = "closing")
      BY <1>0, <2>1, <2>2 DEF TypeOK
    <3> QED
      BY <1>0, <2>1, <3>1, LoopStays
  <2>5. Owned'
    <3>1. CASE Load(p)
      <4>1. PICK f \in File, k \in Inode :
                 FileOpen(f, k, TRUE) /\ runn_file' = [runn_file EXCEPT ![p] = f]
        BY <3>1 DEF Load
      <4>2. /\ 0 \in Place /\ Held(p, 0)' = f
            /\ \A q \in Page, m \in Place : q # p \/ m # 0 => Held(q, m)' = Held(q, m)
        BY <1>0, <2>1, <4>1, RunHeld
      <4> QED
        BY <1>0, <1>a, <2>1, <2>3, <4>1, <4>2, OwnedOpen
    <3>2. CASE UNCHANGED <<runn_file, fileVars>>
      BY <1>0, <2>1, <2>3, <3>2, OwnedStays DEF fileVars
    <3> QED
      BY <1>3, <3>1, <3>2 DEF Exec
  <2> QED
    BY <2>4, <2>5 DEF Files, Owned
<1>4. ASSUME NEW p \in Page, Open(p) PROVE Files'
  <2>1. pc[p] = "user" /\ UNCHANGED <<pc, runn_file, i, parent>>
    BY <1>4 DEF Open, Calling, treeVars
  <2>2. \A q \in Page : (Gone(q)' <=> Gone(q)) /\ (Copying(q)' <=> Copying(q))
    BY <2>1 DEF Gone, Copying
  <2>3. CASE FreeFd(p) # {}
    <3>1. PICK n \in Fd : n = Min(FreeFd(p))
      BY <2>3, FirstFree DEF FreeFd
    <3>2. PICK f \in File, k \in Inode : FileOpen(f, k, FALSE) /\ fdt' = [fdt EXCEPT ![p][n] = f]
      BY <1>4, <2>3, <3>1 DEF Open
    <3>3. /\ n \in Place /\ n # 0 /\ Held(p, n)' = f
          /\ \A q \in Page, m \in Place : q # p \/ m # n => Held(q, m)' = Held(q, m)
      BY <1>0, <2>1, <3>2, EntryHeld
    <3>4. Owned'
      BY <1>0, <1>a, <2>1, <2>2, <3>2, <3>3, OwnedOpen
    <3>5. LoopIndex'
      <4>1. \A q \in Page : q # p => fdt'[q] = fdt[q]
        BY <1>0, <3>2 DEF TypeOK
      <4> QED
        BY <1>0, <2>1, <4>1 DEF Files, LoopIndex
    <3> QED
      BY <3>4, <3>5 DEF Files, Owned
  <2>4. CASE FreeFd(p) = {}
    <3>1. UNCHANGED <<fdt, fileVars>>
      BY <1>4, <2>4, Zenon DEF Open
    <3>2. Owned'
      BY <1>0, <2>1, <2>2, <3>1, OwnedStays DEF fileVars
    <3>3. LoopIndex'
      BY <1>0, <2>1, <3>1, LoopStays
    <3> QED
      BY <3>2, <3>3 DEF Files, Owned
  <2> QED
    BY <2>3, <2>4
<1>5. ASSUME NEW p \in Page, NEW n \in Fd, Close(p, n) PROVE Files'
  <2>1. /\ pc[p] = "user" /\ FileClose({fdt[p][n]}) /\ fdt' = [fdt EXCEPT ![p][n] = None]
        /\ UNCHANGED <<pc, runn_file, i, parent>>
    BY <1>5 DEF Close, Calling, treeVars
  <2>2. /\ n \in Place /\ Held(p, n) = fdt[p][n] /\ Held(p, n)' = None
        /\ \A q \in Page, m \in Place : q # p \/ m # n => Held(q, m)' = Held(q, m)
    BY <1>0, <2>1, EntryHeld
  <2>3. Owned'
    BY <1>0, <1>a, <2>1, <2>2, OwnedClose DEF Gone, Copying
  <2>4. LoopIndex'
    <3>1. \A q \in Page : q # p => fdt'[q] = fdt[q]
      BY <1>0, <2>1 DEF TypeOK
    <3> QED
      BY <1>0, <2>1, <3>1 DEF Files, LoopIndex
  <2> QED
    BY <2>3, <2>4 DEF Files, Owned
<1>6. ASSUME NEW p \in Page, CloseNext(p) PROVE Files'
  <2>0. PICK n \in Fd : n = i[p]
    <3>1. i[p] \in 2..FdLimit /\ i[p] < FdLimit
      BY <1>0, <1>6 DEF CloseNext, TypeOK
    <3> QED
      BY <3>1, FileAssumption DEF Fd
  <2>1. /\ pc[p] = "closing" /\ FileClose({fdt[p][n]}) /\ fdt' = [fdt EXCEPT ![p][n] = None]
        /\ i' = [i EXCEPT ![p] = n + 1] /\ UNCHANGED <<pc, runn_file, parent>>
    BY <1>6, <2>0 DEF CloseNext, treeVars
  <2>2. i'[p] = n + 1 /\ \A q \in Page \ {p} : i'[q] = i[q] /\ fdt'[q] = fdt[q]
    BY <1>0, <2>1 DEF TypeOK
  <2>3. fdt'[p][n] = None /\ \A m \in Fd \ {n} : fdt'[p][m] = fdt[p][m]
    BY <1>0, <2>1 DEF TypeOK
  <2>4. \A m \in Fd : m < n + 1 => m < n \/ m = n
    BY Constants
  <2>5. \A m \in Fd : m < n => fdt[p][m] = None
    BY <1>0, <2>0, <2>1 DEF Files, LoopIndex
  <2>6. /\ n \in Place /\ Held(p, n) = fdt[p][n] /\ Held(p, n)' = None
        /\ \A q \in Page, m \in Place : q # p \/ m # n => Held(q, m)' = Held(q, m)
    BY <1>0, <2>1, EntryHeld
  <2>7. Owned'
    BY <1>0, <1>a, <2>1, <2>6, OwnedClose DEF Gone, Copying
  <2>8. LoopIndex'
    <3>1. \A m \in Fd : m < i'[p] => fdt'[p][m] = None
      BY <2>2, <2>3, <2>4, <2>5
    <3> QED
      BY <1>0, <2>1, <2>2, <3>1 DEF Files, LoopIndex
  <2> QED
    BY <2>7, <2>8 DEF Files, Owned
<1>7. ASSUME NEW p \in Page, CloseLast(p) PROVE Files'
  <2>1. /\ pc[p] = "closing" /\ i[p] = FdLimit /\ FileClose({runn_file[p]})
        /\ runn_file' = [runn_file EXCEPT ![p] = None]
        /\ pc'[p] = "signal" /\ \A q \in Page \ {p} : pc'[q] = pc[q]
        /\ i'[p] = 2 /\ \A q \in Page \ {p} : i'[q] = i[q]
        /\ UNCHANGED <<fdt, parent>>
    BY <1>0, <1>7 DEF CloseLast, Goto, TypeOK, treeVars
  <2>2. /\ 0 \in Place /\ Held(p, 0) = runn_file[p] /\ Held(p, 0)' = None
        /\ \A q \in Page, m \in Place : q # p \/ m # 0 => Held(q, m)' = Held(q, m)
    BY <1>0, <2>1, RunHeld
  <2>3. \A m \in Place : Held(p, m)' = None
    <3>1. \A m \in Fd : m < FdLimit
      BY FileAssumption DEF Fd
    <3>2. \A m \in Fd : fdt[p][m] = None
      BY <1>0, <2>1, <3>1 DEF Files, LoopIndex
    <3> QED
      BY <2>1, <2>2, <3>2, Constants DEF Held, Place
  <2>4. Owned'
    <3>1. \A q \in Page : Gone(q)' => Gone(q) \/ q = p
      BY <2>1 DEF Gone
    <3>2. \A q \in Page : Copying(q)' => Copying(q)
      BY <2>1 DEF Copying
    <3> QED
      BY <1>0, <1>a, <2>1, <2>2, <2>3, <3>1, <3>2, OwnedClose
  <2>5. LoopIndex'
    BY <1>0, <2>1 DEF Files, LoopIndex
  <2> QED
    BY <2>4, <2>5 DEF Files, Owned
<1>8. ASSUME NEW p \in Page, FreePage(p) PROVE Files'
  <2>1. /\ pc[p] = "dying" /\ pc'[p] = "free" /\ \A q \in Page \ {p} : pc'[q] = pc[q]
        /\ \A q \in Page \ {p} : parent'[q] = parent[q]
        /\ UNCHANGED <<i, inode, deny_write>>
    BY <1>0, <1>8 DEF FreePage, Goto, TypeOK, fileVars
  <2>2. UNCHANGED <<fdt, runn_file>>
    <3>1. fdt[p] = NoFiles /\ runn_file[p] = None
      BY <1>0, <2>1 DEF Files, GoneHoldNothing, Gone
    <3> QED
      BY <1>0, <1>8, <3>1 DEF FreePage, TypeOK
  <2>3. Owned'
    BY <1>0, <2>1, <2>2, OwnedStays DEF Gone, Copying
  <2>4. LoopIndex'
    BY <1>0, <2>1, <2>2, LoopStays
  <2> QED
    BY <2>3, <2>4 DEF Files, Owned
<1>9. ASSUME UNCHANGED <<fdt, runn_file, inode, deny_write, i>>,
             \A q \in Page : Gone(q)' => Gone(q),
             \A q \in Page : Copying(q)' =>
                 (Copying(q) /\ parent'[q] = parent[q]) \/ fdt[q] = NoFiles,
             \A q \in Page : pc'[q] \notin {"dup", "closing"} => pc[q] \notin {"dup", "closing"},
             \A q \in Page : pc'[q] = "closing" => pc[q] # "dup"
      PROVE  Files'
  BY <1>0, <1>9, OwnedStays, LoopStays DEF Files, Owned
<1>10. ASSUME NEW p \in Page, NEW c \in Page, Fork(p, c) PROVE Files'
  <2>1. /\ pc[p] = "user" /\ pc'[p] = "push" /\ pc[c] = "free" /\ pc'[c] = "copy"
        /\ \A q \in Page \ {p, c} : pc'[q] = pc[q]
        /\ \A q \in Page \ {c} : parent'[q] = parent[q]
        /\ UNCHANGED <<fdt, runn_file, inode, deny_write, i>>
    BY <1>0, <1>10 DEF Fork, Calling, TypeOK, tableVars, fileVars
  <2>2. fdt[c] = NoFiles
    BY <1>0, <2>1 DEF Files, GoneHoldNothing, Gone
  <2> QED
    BY <2>1, <2>2, <1>9 DEF Gone, Copying
<1>11. ASSUME NEW p \in Page, NEW c \in Page, ForkNoFdt(p, c) PROVE Files'
  <2>1. /\ pc[c] = "free" /\ pc'[c] = "lost" /\ \A q \in Page \ {c} : pc'[q] = pc[q]
        /\ UNCHANGED <<fdt, runn_file, inode, deny_write, i, parent>>
    BY <1>0, <1>11 DEF ForkNoFdt, Goto, TypeOK, tableVars, fileVars, treeVars
  <2> QED
    BY <2>1, <1>9 DEF Gone, Copying
<1>12. ASSUME NEW p \in Page, NEW l,
              UNCHANGED <<fdt, runn_file, inode, deny_write, i>>, pc' = [pc EXCEPT ![p] = l],
              \A q \in Page \ {p} : parent'[q] = parent[q],
              \/ Gone(p) /\ l # "closing" /\ l \notin {"copy", "dup", "forked", "failed"}
              \/ /\ l \in {"user", "load", "lock", "io", "wait", "reap", "release",
                        "closing", "off"}
                 /\ pc[p] \notin {"dup", "closing"}
              \/ pc[p] = "copy" /\ l \in {"dup", "failed"} /\ parent'[p] = parent[p]
       PROVE  Files'
  <2>1. pc'[p] = l /\ \A q \in Page \ {p} : pc'[q] = pc[q]
    BY <1>0, <1>12 DEF TypeOK
  <2> QED
    BY <2>1, <1>12, <1>9 DEF Gone, Copying
<1>13. ASSUME NEW p \in Page, CopyMemory(p) PROVE Files'
  <2>1. pc[p] = "copy" /\ UNCHANGED <<fdt, runn_file, inode, deny_write, i, parent>>
    BY <1>13 DEF CopyMemory, treeVars, tableVars, fileVars
  <2>2. CASE Goto(p, "dup")
    BY <2>1, <2>2, <1>12 DEF Goto
  <2>3. CASE Goto(p, "failed")
    BY <2>1, <2>3, <1>12 DEF Goto
  <2> QED
    BY <1>13, <2>2, <2>3 DEF CopyMemory
<1>14. ASSUME NEW p \in Page, Forked(p) PROVE Files'
  <2>1. UNCHANGED <<fdt, runn_file, inode, deny_write,
     i>> /\ \A q \in Page \ {p} : parent'[q] = parent[q]
    BY <1>0, <1>14 DEF Forked, TypeOK, tableVars, fileVars
  <2>2. CASE pc[p] = "forked" /\ Goto(p, "user")
    BY <2>1, <2>2, <1>12 DEF Goto
  <2>3. CASE pc[p] = "failed" /\ Exiting(p, -1)
    BY <2>1, <2>3, <1>12 DEF Exiting, Goto
  <2> QED
    BY <1>14, <2>2, <2>3 DEF Forked
<1>15. ASSUME NEW p \in Page,
              \/ ForkPush(p) \/ ForkReturn(p) \/ WaitDown(p) \/ Reap(p)
              \/ SignalExit(p) \/ Die(p) \/ \E c \in Page : Wait(p, c)
       PROVE  Files'
  BY <1>15, <1>12 DEF ForkPush, ForkReturn, WaitDown, Reap, SignalExit, Die, Wait, Calling,
     Goto, Gone,
     treeVars, tableVars, fileVars
<1>16. ASSUME NEW p \in Page,
              \/ ReadWrite(p) \/ AcquireFileLock(p) \/ ReleaseFileLock(p) \/ FaultInIo(p)
              \/ CopyFaults(p) \/ Kill(p) \/ \E status \in Code : Exit(p, status)
       PROVE  Files'
  BY <1>16, <1>12 DEF ReadWrite, AcquireFileLock, ReleaseFileLock, FaultInIo, CopyFaults, Kill, Exit,
     Exiting,
     Calling, Goto, treeVars, tableVars, fileVars
<1>17. ASSUME NEW p \in Page, Release(p) PROVE Files'
  <2>1. pc[p] = "release" /\ UNCHANGED <<fdt, runn_file, inode, deny_write, i, parent>>
    BY <1>17 DEF Release, tableVars, fileVars
  <2>2. CASE Goto(p, "off")
    BY <2>1, <2>2, <1>12 DEF Goto
  <2>3. CASE Goto(p, "user")
    BY <2>1, <2>3, <1>12 DEF Goto
  <2> QED
    BY <1>17, <2>2, <2>3 DEF Release
<1>18. ASSUME NEW p \in Page, Halt(p) PROVE Files'
  <2>1. pc[Main] \in {"wait", "reap", "release", "off"}
    BY <1>0 DEF Tree, Waiting, MainWaits
  <2>2. UNCHANGED <<fdt, runn_file, inode, deny_write, i, parent>> /\ Goto(Main, "off")
    BY <1>18 DEF Halt, tableVars, fileVars, treeVars
  <2> QED
    BY <2>1, <2>2, <1>12, Constants DEF Goto
<1>19. CASE UNCHANGED vars
  BY <1>9, <1>19 DEF vars, treeVars, tableVars, fileVars, Gone, Copying
<1> QED
  BY <1>1, <1>2, <1>3, <1>4, <1>5, <1>6, <1>7, <1>8, <1>10, <1>11, <1>13, <1>14, <1>15, <1>16,
     <1>17, <1>18, <1>19
  DEF Next, KernelStep, UserStep, Stopped
-----------------------------------------------------------------------------
(* The inductive invariant holds in every state.                           *)
LEMMA Invariance == Spec => []IInv
<1>1. IInv /\ [Next]_vars => IInv'
  BY TypeStep, TreeStep, FileStep DEF IInv
<1> QED
  BY <1>1, InitIInv, PTL DEF Spec

\* Every variable keeps its type: no semaphore passes 1, no index leaves the table.
THEOREM ProcessTypes == Spec => []TypeOK
BY Invariance, PTL DEF IInv

\* process_fork and process_wait never follow a pointer into the page of a child
\* that has passed sema_down (free_sema), and no page has two such parents.
THEOREM ChildrenStay == Spec => []ChildrenAreThere
<1>1. IInv => ChildrenAreThere
  BY DEF IInv, Tree
<1> QED
  BY <1>1, Invariance, PTL

\* While __do_fork copies the parent's page table and descriptors, the parent is
\* in process_fork for this child, and what was copied so far is still open there.
THEOREM ParentIsStill == Spec => []ParentStandsStill
<1>1. IInv => ParentStandsStill
  BY DEF IInv, Tree, Waiting, ForkerWaits, Files, SameFiles, ParentStandsStill
<1> QED
  BY <1>1, Invariance, PTL

\* The exit_status that process_wait reads is the last one: the child is at
\* sema_down (free_sema) with its files closed.
THEOREM StatusIsLast == Spec => []StatusIsFinal
<1>1. ASSUME IInv PROVE StatusIsFinal
  <2>1. ASSUME NEW p \in Page, pc[p] \in {"reap", "release"}
        PROVE  pc[child[p]] = "zombie" /\ fdt[child[p]] = NoFiles
    <3>1. child[p] \in Page /\ pc[child[p]] = "zombie"
      BY <1>1, <2>1 DEF IInv, Tree, Waiting, ChildKnown, Busy, ReapsZombie
    <3> QED
      BY <1>1, <3>1 DEF IInv, Files, GoneHoldNothing, Gone
  <2> QED
    BY <2>1 DEF StatusIsFinal
<1> QED
  BY <1>1, Invariance, PTL

\* Every open file object is in one descriptor or is one executable, so it is
\* closed once, and what a table holds is open.
THEOREM FilesHaveOwners == Spec => []FilesAreOwned
<1>1. ASSUME IInv PROVE FilesAreOwned
  <2>1. ASSUME NEW f \in File PROVE Cardinality(References(f)) <= 1
    <3>1. \A x \in References(f) : x[1] \in Page /\ x[2] \in Place /\ x = <<x[1], x[2]>>
                                   /\ Held(x[1], x[2]) = f
      BY Constants DEF References, Held, Place
    <3>2. ASSUME NEW x \in References(f), NEW y \in References(f) PROVE x = y
      <4>1. x[1] = y[1] /\ x[2] = y[2]
        BY <1>1, <2>1, <3>1, Constants DEF IInv, Files, HeldOnce
      <4> QED
        BY <3>1, <4>1
    <3>3. CASE References(f) = {}
      BY <3>3, FS_EmptySet
    <3>4. CASE References(f) # {}
      <4>1. PICK x \in References(f) : References(f) = {x}
        BY <3>2, <3>4
      <4> QED
        BY <4>1, FS_Singleton
    <3> QED
      BY <3>3, <3>4
  <2>2. ASSUME NEW p \in Page
        PROVE  /\ \A n \in Fd : fdt[p][n] # None => inode[fdt[p][n]] # None
               /\ runn_file[p] # None => inode[runn_file[p]] # None /\ deny_write[runn_file[p]]
    <3>1. \A n \in Fd : n \in Place /\ Held(p, n) = fdt[p][n]
      BY Constants DEF Held, Place
    <3>2. 0 \in Place /\ Held(p, 0) = runn_file[p]
      BY DEF Held, Place
    <3>3. \A n \in Fd : fdt[p][n] # None => inode[fdt[p][n]] # None
      BY <1>1, <3>1 DEF IInv, Files, HeldOpen
    <3>4. runn_file[p] # None => inode[runn_file[p]] # None
      BY <1>1, <3>2 DEF IInv, Files, HeldOpen
    <3>5. runn_file[p] # None => deny_write[runn_file[p]]
      BY <1>1 DEF IInv, Files, RunDenied
    <3> QED
      BY <3>3, <3>4, <3>5
  <2> QED
    BY <2>1, <2>2 DEF FilesAreOwned
<1> QED
  BY <1>1, Invariance, PTL
=============================================================================
