------------------------------- MODULE FileIO -------------------------------
(***************************************************************************)
(* The calls read, write, seek, tell and filesize of                       *)
(* src/userprog/syscall.c down to the sectors: file.c keeps the position,  *)
(* inode.c goes through the sectors of the extent, whole sectors directly  *)
(* and parts of one through a bounce buffer, which is read, changed and    *)
(* written back.  Each process has a descriptor of its own for the one     *)
(* file; a position is an off_t of Width bits.  disk_read and disk_write   *)
(* block, so that other processes run between any two of them.             *)
(*                                                                         *)
(* The descriptor exists (Process has those that do not), and the file is  *)
(* written by these calls only: the write back of a mapped page takes no   *)
(* file_lock and is in Vm.                                                 *)
(***************************************************************************)
EXTENDS Integers

CONSTANTS Procs, Nobody, Bytes, NoCall,
          Length,      \* of the file, in bytes
          SectorSize,  \* DISK_SECTOR_SIZE
          Width,       \* bits of an off_t and of an unsigned
          Args,        \* the sizes and positions calls are made with
          Buffer       \* process -> the bytes it writes

FileIOAssumption ==
    /\ Length \in Nat /\ SectorSize \in Nat \ {0} /\ Width \in Nat \ {0}
    /\ Length < 2 ^ (Width - 1) /\ Args \subseteq 0..2 ^ Width - 1

VARIABLES
  file_lock,      \* the process that holds it
  disk,           \* sector of the file -> place in it -> byte
  file_pos,       \* process -> file->pos
  deny_write_cnt, \* of the inode
  pc,             \* process -> where it is
  job,            \* process -> its call: [op, arg, short, size, offset, bounce, buf, count]
  panic           \* an ASSERT failed

vars == <<file_lock, disk, file_pos, deny_write_cnt, pc, job, panic>>

Limit == 2 ^ (Width - 1)
off_t(n) == IF n < Limit THEN n ELSE n - 2 ^ Width
Nothing == [i \in {} |-> 0]
Smaller(m, n) == IF m < n THEN m ELSE n

(* byte_to_sector, and the place in the sector.                            *)
Sector(offset) == offset \div SectorSize
Ofs(offset) == offset % SectorSize

Init ==
    /\ file_lock = Nobody /\ panic = FALSE /\ deny_write_cnt = 0
    /\ disk \in [0..(Length - 1) \div SectorSize -> [0..SectorSize - 1 -> Bytes]]
    /\ file_pos = [p \in Procs |-> 0]
    /\ pc = [p \in Procs |-> "user"] /\ job = [p \in Procs |-> NoCall]

Go(p, place) == pc' = [pc EXCEPT ![p] = place]

(* A system call.                                                          *)
Call(p) ==
    /\ pc[p] = "user" /\ ~panic
    /\ \E op \in {"read", "write", "seek", "tell", "filesize"}, arg \in Args :
          /\ op \in {"tell", "filesize"} => arg = CHOOSE a \in Args : TRUE
          /\ job' = [job EXCEPT ![p] = [op |-> op, arg |-> arg, short |-> FALSE, size |-> off_t(arg),
                                        offset |-> 0, bounce |-> Nothing, buf |-> Nothing, count |-> 0]]
          /\ Go(p, IF op \in {"read", "write"} THEN "lock" ELSE "called")
    /\ UNCHANGED <<file_lock, disk, file_pos, deny_write_cnt, panic>>

(* seek, tell and filesize take no lock.                                   *)
SeekTell(p) ==
    LET op == job[p].op IN
    /\ pc[p] = "called" /\ ~panic
    /\ panic' = (op = "seek" /\ job[p].size < 0)   \* ASSERT (new_pos >= 0)
    /\ IF panic' THEN UNCHANGED <<file_pos, pc, job>>
       ELSE /\ file_pos' = IF op = "seek" THEN [file_pos EXCEPT ![p] = job[p].size] ELSE file_pos
            /\ job' = [job EXCEPT ![p].count = CASE op = "seek" -> 0
                                                 [] op = "tell" -> file_pos[p]
                                                 [] op = "filesize" -> Length]
            /\ Go(p, "return")
    /\ UNCHANGED <<file_lock, disk, deny_write_cnt>>
-----------------------------------------------------------------------------
\* lock_acquire of file_lock; the mutant goes on without it.
LockIgnored == TRUE
LockIsFree == file_lock = Nobody

AcquireLock(p) ==
    /\ pc[p] = "lock" /\ LockIsFree /\ ~panic
    /\ file_lock' = p /\ Go(p, "begin")
    /\ UNCHANGED <<disk, file_pos, deny_write_cnt, job, panic>>

(* The bytes to copy in this sector.                                       *)
Chunk(size, offset) ==
    Smaller(size, Smaller(Length - offset, SectorSize - Ofs(offset)))
IsWhole(size, offset) == Ofs(offset) = 0 /\ Chunk(size, offset) = SectorSize
Ends(size, offset, short) ==
    size <= 0 \/ Chunk(size, offset) <= 0 \/ (short /\ ~IsWhole(size, offset))

\* To the next turn of the loop, or behind it.
Turn(p, j) ==
    /\ job' = [job EXCEPT ![p] = j]
    /\ Go(p, IF Ends(j.size, j.offset, j.short) THEN "end" ELSE "loop")

(* The bytes that are transferred before the loop ends.                    *)
Total(size, offset, short) ==
    LET from[k \in 0..Length] ==
            IF Ends(size - k, offset + k, short) THEN k
            ELSE from[k + Chunk(size - k, offset + k)]
    IN from[0]

(* file_read and file_write enter inode_read_at and inode_write_at; the    *)
(* latter looks at deny_write_cnt here and never again.  short says that   *)
(* the malloc of the bounce buffer, if it comes to that, finds no memory.  *)
Begin(p) ==
    LET j == job[p] at == file_pos[p] IN
    /\ pc[p] = "begin" /\ ~panic
    /\ IF j.op = "write" /\ deny_write_cnt > 0
       THEN Go(p, "end") /\ UNCHANGED job
       ELSE \E short \in BOOLEAN :
            /\ short => Total(j.size, at, TRUE) < Total(j.size, at, FALSE)
            /\ Turn(p, [j EXCEPT !.offset = at, !.short = short])
    /\ UNCHANGED <<file_lock, disk, file_pos, deny_write_cnt, panic>>

\* One turn further; the mutant forgets the offset.
AdvanceSizeOnly(j, n) == [j EXCEPT !.size = @ - n, !.count = @ + n]
Advance(j, n) == [j EXCEPT !.size = @ - n, !.offset = @ + n, !.count = @ + n]

(* A turn of inode_read_at: disk_read into the buffer or into bounce, of   *)
(* which the chunk is copied.                                              *)
ReadTurn(p) ==
    LET j == job[p]
        n == Chunk(j.size, j.offset)
        data == [i \in 0..j.count + n - 1 |->
                    IF i < j.count THEN j.buf[i]
                    ELSE disk[Sector(j.offset)][Ofs(j.offset) + i - j.count]] IN
    /\ pc[p] = "loop" /\ j.op = "read" /\ ~panic
    /\ Turn(p, Advance([j EXCEPT !.buf = data], n))
    /\ UNCHANGED <<file_lock, disk, file_pos, deny_write_cnt, panic>>

(* The chunk of process p over the bytes of a sector.                      *)
Over(p, sector) ==
    LET j == job[p] n == Chunk(j.size, j.offset) IN
    [i \in 0..SectorSize - 1 |->
        IF Ofs(j.offset) <= i /\ i < Ofs(j.offset) + n
        THEN Buffer[p][j.count + i - Ofs(j.offset)] ELSE sector[i]]

(* A turn of inode_write_at: a part of a sector is read into bounce first. *)
ReadBounce(p) ==
    LET j == job[p] IN
    /\ pc[p] = "loop" /\ j.op = "write" /\ ~panic
    /\ IF IsWhole(j.size, j.offset) THEN UNCHANGED job
       ELSE job' = [job EXCEPT ![p].bounce = disk[Sector(j.offset)]]
    /\ Go(p, "write")
    /\ UNCHANGED <<file_lock, disk, file_pos, deny_write_cnt, panic>>

WriteTurn(p) ==
    LET j == job[p] IN
    /\ pc[p] = "write" /\ ~panic
    /\ disk' = [disk EXCEPT ![Sector(j.offset)] =
                   Over(p, IF IsWhole(j.size, j.offset) THEN @ ELSE j.bounce)]
    /\ Turn(p, Advance([j EXCEPT !.bounce = Nothing], Chunk(j.size, j.offset)))
    /\ UNCHANGED <<file_lock, file_pos, deny_write_cnt, panic>>

(* file->pos moves, and file_lock is released.                             *)
ReleaseLock(p) ==
    /\ pc[p] = "end" /\ ~panic
    /\ file_pos' = [file_pos EXCEPT ![p] = @ + job[p].count]
    /\ file_lock' = Nobody /\ Go(p, "return")
    /\ UNCHANGED <<disk, deny_write_cnt, job, panic>>

Return(p) ==
    /\ pc[p] = "return" /\ ~panic
    /\ Go(p, "user") /\ job' = [job EXCEPT ![p] = NoCall]
    /\ UNCHANGED <<file_lock, disk, file_pos, deny_write_cnt, panic>>

(* load denies writing to an executable and process_exit allows it again,  *)
(* without file_lock; one process runs this file.                          *)
DenyWrite ==
    /\ deny_write_cnt = 0 /\ deny_write_cnt' = 1 /\ ~panic
    /\ UNCHANGED <<file_lock, disk, file_pos, pc, job, panic>>
AllowWrite ==
    /\ deny_write_cnt = 1 /\ deny_write_cnt' = 0 /\ ~panic
    /\ UNCHANGED <<file_lock, disk, file_pos, pc, job, panic>>

\* The kernel stops at a failed ASSERT.
Halted == panic /\ UNCHANGED vars

Next ==
    \/ DenyWrite \/ AllowWrite \/ Halted
    \/ \E p \in Procs :
          \/ Call(p) \/ SeekTell(p) \/ AcquireLock(p) \/ Begin(p) \/ ReadTurn(p)
          \/ ReadBounce(p) \/ WriteTurn(p) \/ ReleaseLock(p) \/ Return(p)

Spec == Init /\ [][Next]_vars
-----------------------------------------------------------------------------
(* A transfer takes effect when it has looked at deny_write_cnt.  From     *)
(* then on what it is still going to transfer is fixed: Rest is the number *)
(* of those bytes.                                                         *)
Rest(p) ==
    LET j == job[p] IN
    IF pc[p] \in {"loop", "write"} THEN Total(j.size, j.offset, j.short) ELSE 0

InTransfer(p) == pc[p] \in {"loop", "write", "end"}
Byte(i) == disk[Sector(i)][Ofs(i)]
Content == [i \in 0..Length - 1 |->
    IF \E p \in Procs : /\ InTransfer(p) /\ job[p].op = "write"
                        /\ job[p].offset <= i /\ i < job[p].offset + Rest(p)
    THEN LET p == CHOOSE p \in Procs : InTransfer(p) /\ job[p].op = "write" IN
         Buffer[p][job[p].count + i - job[p].offset]
    ELSE Byte(i)]

(* However the sectors of one call fall between those of another, each     *)
(* read and write is one step on the bytes of the file and on the position *)
(* of its descriptor; sizes and positions that are negative as an off_t,   *)
(* positions past the end and a bounce buffer that malloc has no memory    *)
(* for included.                                                           *)
Called(p) ==
    LET j == job[p]
        done == InTransfer(p) \/ pc[p] = "return"
        count == IF done THEN j.count + Rest(p) ELSE 0 IN
    IF j = NoCall THEN NoCall
    ELSE [op |-> j.op, arg |-> j.arg, short |-> j.short, done |-> done, count |-> count,
          data |-> IF j.op = "read"
                   THEN [i \in 0..count - 1 |-> IF i < j.count THEN j.buf[i]
                                                ELSE Content[j.offset + i - j.count]]
                   ELSE Nothing]
AsBytes == INSTANCE ByteFile WITH
    content <- Content, denied <- deny_write_cnt > 0,
    pos <- [p \in Procs |-> file_pos[p] + (IF InTransfer(p) THEN job[p].count + Rest(p) ELSE 0)],
    call <- [p \in Procs |-> Called(p)]
ImplementsByteFile == AsBytes!Spec
=============================================================================
