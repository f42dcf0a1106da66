# Pintos: a TLA+ development

TLA+ modules for the kernel of this repository (Pintos for x86-64 with the
projects "threads", "user programs" and "virtual memory" filled in), TLC
configurations that check them on small instances, and TLAPS proofs for every
value of the constants.  Paths below are relative to the repository.

## 1. Inventory

| component | state it keeps | operations | interacts through |
|---|---|---|---|
| scheduler, `threads/thread.c` | `ready_list`, `sleep_list`, `destruction_req`, `status`, `priority`, `thread_ticks`, the running thread | `thread_create/block/unblock/yield/exit/set_priority`, `schedule`, `idle` | called by every component; preempted by the timer |
| alarm clock, `devices/timer.c` | `ticks`, `t->awake` | `timer_sleep`, `timer_interrupt` → `thread_tick`, `thread_awake` | interrupt handler, works on the scheduler's lists |
| semaphores, `threads/synch.c` | `value`, `waiters` | `sema_down/try_down/up` | threads and interrupt handlers |
| locks and donation, `threads/synch.c`, `threads/thread.c` | `holder`, `wait_on_lock`, `donations`, `init_priority` | `lock_acquire/try_acquire/release`, `priority_donation`, `remove_donation`, `re_priority` | semaphore inside; changes priorities of threads on other lists |
| condition variables, `threads/synch.c` | `cond->waiters`, a semaphore on each waiter's stack | `cond_wait/signal/broadcast` | lock and private semaphores |
| advanced scheduler, `threads/thread.c` | `load_avg`, `recent_cpu`, `nice` | recalculations in `timer_interrupt` | priorities of READY threads |
| processes, `userprog/process.c` | `child_list`, `load_sema`, `wait_sema`, `free_sema`, `exit_status`, `runn_file`, `fdt` | `process_fork/exec/wait/exit`, `load` | semaphores between parent and child, files |
| system calls, `userprog/syscall.c` | `fdt`, `fd_index`, `file_lock` | `open`, `close`, `read`, `write`, `seek`, `mmap`, ... | files, processes, pages |
| exceptions, `userprog/exception.c` | counters | `page_fault`, `kill` | virtual memory, exit |
| virtual memory, `vm/*.c` | the page table of each process, `frame_table`, `swap_table` | lazy load, fault, eviction, fork copy, mmap, munmap | disk, files, page tables |
| file system, `filesys/*.c` | `open_inodes`, `open_cnt`, `deny_write_cnt`, `removed`, the free map, directory entries | create, open, remove, read, write, close | disk; no lock of its own |
| page and block allocators, `threads/palloc.c`, `threads/malloc.c` | bitmaps of used pages; arenas and free lists | `palloc_init`, `palloc_get/free_multiple`; `malloc`, `calloc`, `realloc`, `free` | a lock per pool (taken to get pages only) and per descriptor |
| page tables, `threads/mmu.c` | four levels of tables in pages of the kernel pool | `pml4_create/destroy`, `pml4_set/get/clear_page`, the accessed and dirty bits | page allocator; virtual memory |
| disk, `devices/disk.c` | `expecting_interrupt`, `completion_wait`, the channel's lock | `disk_init`, `disk_read`, `disk_write`, `interrupt_handler` | device interrupt |
| interrupt queues and drivers, `devices/{intq,kbd,serial,input}.c` | ring buffer, one waiter at each end; the enabled interrupts | `serial_putc`, `serial_flush`, `input_getc`, the handlers | device interrupts |
| console, `lib/kernel/console.c` | a lock that can be taken again, its depth | `printf`, `console_panic` | serial port |
| lists, hash tables, bitmaps, `lib/kernel` | nodes, buckets, bits | insert, remove, sort, scan | used by everything |

What is hard: preemption between any two statements executed with interrupts
enabled; handlers that work on the lists the threads work on; pointers to other
threads' memory (lock holders, donors, children, stack-allocated semaphores)
used after the other thread may have moved on; lists ordered by keys that
change; resources that run out half-way through an operation; interrupts that come late,
twice or for nothing; commands to a device that two disks share.

What makes each component correct:

- scheduler: one thread runs; every list holds exactly the threads whose status
  says so, each once (one `elem` serves all lists); no blocked thread is
  unreachable; pages are freed only when dead and off the CPU; the CPU goes to
  the highest priority; sleepers wake on time; a ready thread is not starved by
  its equals.
- semaphores: no unit and no wakeup is lost, although the woken thread finds out
  only when dispatched.
- locks: one owner whatever preempts the statements of `lock_acquire` and
  `lock_release`; `holder` is the owner's; donation follows the chain of holders.
- condition variables: a signal sent after the waiter released the lock is not
  lost, a stack-allocated element is not left on the list, the caller comes back
  with the lock.
- processes: a parent reads the exit status of a child that has finished and
  whose memory is still there; a fork is a copy taken while the parent stands
  still; every file object is closed once and nobody uses it afterwards.
- virtual memory: a page is in one place (frame, swap slot, file, not yet
  loaded) and what is read is what was last written; slots and frames are not
  shared or leaked.
- file system: a sector belongs to one file; a removed inode lives until its
  last opener closes it; a denied file is not written; an inode is opened once.
- allocators: a block or page is handed out to one owner and comes back whole.
- page tables: a mapping is where the walk finds it; a table has one entry that leads to
  it; a walk that fails leaves nothing behind.
- disk and queues: one command per channel at a time, no interrupt is taken for
  another's; bytes leave a queue in the order they entered, and who sleeps at it is
  woken.
- lists, hash tables and bitmaps: sequences, and sets, whatever the pointers, buckets and
  words look like.

## 2. Modules

| module | models | extends | implements |
|---|---|---|---|
| `ListOps` | ordered operations of `lib/kernel/list.c` | – | – |
| `Scheduler` | `thread.c`, semaphores, sleep queue, interrupt exit | `ListOps` | – |
| `Locks` | locks and donation, statement by statement | `Scheduler` | `Mutex` |
| `Condvar` | condition variables | `Locks` | `Mutex` |
| `Process` | fork, exec, wait, exit, descriptors, `file_lock`, kill | – | – |
| `Vm` | page states, faults, frames, eviction, swap, mmap, fork's copy | – | `Memory` |
| `Filesys` | inodes, files, the root directory, the free map | – | `Files` |
| `FileIO` | `read`, `write`, `seek`, `tell`, `filesize` sector by sector | – | `ByteFile` |
| `Alloc` | `malloc.c` over `palloc_get/free_multiple` | – | `Heap` |
| `Pools` | `palloc_init`, `populate_pools`, `init_pool` | – | – |
| `PageTable` | `mmu.c` | – | `AddrSpace` |
| `Links` | the pointers of `list.c` | – | `Lists` |
| `Hash` | `hash.c` | – | `Dict` |
| `Bitmap` | the words of `bitmap.c` | – | `Bits` |
| `Mlfqs` | 17.14 arithmetic, `recent_cpu`, `load_avg`, priorities | `ListOps` | – |
| `Disk` | an ATA channel with its driver | – | `Store` |
| `Serial` | the ring buffer of `intq.c`; console, serial port, keyboard, input | – | `Fifo`, twice |
| `Mutex`, `Memory`, `Files`, `ByteFile`, `Heap`, `AddrSpace`, `Lists`, `Dict`, `Bits`, `Store`, `Fifo` | abstract: what a component promises | `ListOps` (`Lists`) | – |
| `MCScheduler`, `MCVm`, `MCFilesys`, `MCSerial` | small instances | the module named | – |
| `MCSharing` | small instances of `Locks`, `Condvar`, `Process`, `FileIO` | `Condvar` | – |
| `MCStructures` | small instances of `Alloc`, `Pools`, `PageTable`, `Links`, `Hash`, `Bitmap`, `Mlfqs` | `Alloc` | – |
| `ListOps_proofs`, `Process_proofs`, `Vm_proofs`, `Serial_proofs`, `Filesys_proofs` | lemmas and theorems | the module named | – |
| `Threads_proofs` | lemmas and theorems about `Scheduler`, `Locks` and `Condvar` | `Condvar` | – |
| `Alloc_proofs` | lemmas and theorems about `Alloc` and `Bitmap` | `Alloc`, `Bitmap` | – |
| `Hardware_proofs` | lemmas and theorems about `Disk` and `PageTable` | `Disk`, `PageTable` | – |

`Process`, `Vm` and the others do not extend `Scheduler`: `Scheduler` shows that
any runnable thread may come next and that a semaphore is what it should be, and
the later modules start from there (any process may take its next step, a
semaphore is a counter one can wait on, a lock is what `Mutex` says).  In the same way
`Filesys` and `Vm` use a bitmap as a set, which `Bitmap` shows it to be, `Vm` a page table
as a map (`PageTable`), `Filesys` a disk whose sectors are written one at a time (`Disk`),
and `Alloc` the locks.

### State and actions of the modules

`Scheduler` is the `threads` build without `-mlfqs`.  The variables have the
names of the kernel's: `current` is `running_thread ()`, `status`, `priority`
are fields of `struct thread`, `ready_list`, `sleep_list` and
`destruction_req` are sequences of threads, `value` and `waiters` belong to each
semaphore.  Abstractions:

- `awake[t]` is `t->awake - ticks`, 0 once due, so that time needs no counter.
- `pc[t]` is the place of `t` in kernel code, for functions that can be
  interrupted; a stretch that runs with interrupts disabled is one step.
  `thread_awake` is the exception: it is one step per list element, because its
  cursor moves over a list it removes from.
- a thread's own function is any sequence of calls out of `Calls`.
- a page is `FREE` when no thread lives in it; `thread_create` takes a free page,
  `do_schedule` frees those of the destruction requests.  `thread_create` can
  fail half-way (`ThreadCreateNoFdt`), when the page stays a blocked thread.
- `panic` is a failed `ASSERT` or a kernel fault; the system then stops
  (`Halted`).

One action per operation: `SemaDown`/`SemaDownResume` (first and later turns of
the loop), `SemaTryDown`, `SemaUp`, `TimerInterrupt` → `ThreadAwake`* →
`InterruptReturn`, `DeviceInterrupt`, `TimerSleep` → `ThreadSleep`,
`ThreadYield`, `ThreadSetPriority`, `ThreadCreate` → `CompareEmpty` →
`CompareFront` → `CompareYield` → `ChildPush`, `ThreadExit`, `IdleLoop`.

`Locks` adds `holder`, `wait_on_lock`, `donations`, `init_priority` and `at[t]`,
the statement of `lock_acquire`, `lock_release`, `priority_donation` or
`re_priority` that `t` is at.  These functions leave interrupts on between
their statements, so every timer step of `Scheduler` can come between any two.
When one `d_elem` is linked at two places (`Relinked`) what the lists hold is
undefined and the model stops there.

`Condvar` adds `cond->waiters` and `stage[t]`; the comparison function reads the
first waiter of a semaphore that may have none yet, so its key is then any value
(`Garbage`).

`Process` is the `userprog` side of the `vm` build.  A process is named by the
page of its `struct thread`, so a page that is freed and used again is the same
name, as a pointer to it would be.  `pc[p]` is the place of the process between
two steps that others can see; its header lists the places.  `fdt`, `fd_index`,
`runn_file`, `exit_status`, `child_list` and the three semaphores are the fields
of `struct thread`; `parent` and `child` are local variables of `__do_fork`,
`process_fork` and `process_wait`.  A file object is a member of `File` with the
inode it stands for and its `deny_write`.  User code makes any call of `Calls` at
any time (`UserStep`); what the kernel then does by itself is `KernelStep`:

- fork: `Fork` (`thread_create`) → `ForkPush` → `ForkReturn` in the parent,
  `CopyMemory` → `DupFile`* → `DupDone` → `Forked` in the child.  The copy of the
  memory succeeds, fails (`CopyMemory`), or faults (`CopyFaults`): the `memcpy` of
  `page_copy_action` meets a page of the parent that is out, or the lazy load of the
  page faults, and the child goes to `exit (-1)` from inside `__do_fork`.
- exit: `Exit` or `Kill` → `CloseNext`* → `CloseLast` → `SignalExit` → `Die` →
  `FreePage` (the `do_schedule` of whoever runs next).
- wait: `Wait` → `WaitDown` → `Reap` → `Release`.
- `Exec` (with `Load`), `Open`, `Close`, `Halt` are one step each: they touch
  nothing of another process.  `ReadWrite` → `AcquireFileLock` →
  `ReleaseFileLock` or `FaultInIo`.

Abstractions: descriptors 0 and 1 are the console and left out; file positions,
names and contents are left out; the machine is switched off when main's wait is
over (option `-q`, which the tests use).

`Vm` is the memory of the processes.  `spt[p][va]` is the `struct page` of an
address: its kind, whether it is still uninitialized, the `aux` of
`lazy_load_segment` (`ofs`, `read_bytes`, and `loader`, the process whose
executable the file is), its frame and its swap slot.  `pml4` and `dirty` are the
page table, `frame_list` and `page_of` the frames with their pages, `used` the
user pool of `palloc`, `ram`, `swap` and `contents` what frames, slots and the
file hold.  A process writes to its pages and makes calls in "user"; the kernel
goes through the places the header lists:

- fault: `Fault`, or `StackFault` → `StackGrowth`*; then a claim: `GetFrame` →
  (`EvictFrame` →) `Link` → `Fill`, that is `vm_get_frame`, the links and the page
  table entry, and `swap_in`.  The disk is waited for in `EvictFrame` and `Fill`,
  and others run meanwhile.
- mapping: `Mmap`, from a page of the file on; `Munmap` → `UnmapNext`*.
- fork: `Fork`, then in the child `CopyNext` (→ a claim → `Copied`)* → `CopyDone`
  or `CopyFails`, while the parent waits.
- exit and exec: `Exit`, `Exec` → `KillNext`* → `KillDone` (→ `Load` or
  `LoadFails`).

`Fill` is one of four: a panic, or `Filled`, `ComesShort` or `ReadsClosed`.  In
`ComesShort` `file_read` gives fewer bytes than `lazy_load_segment` wants: it frees
the page of a frame that stays listed, linked and mapped (`process.c:700-703`).  That
happens to the pages of an executable that was cut short, and to the last pages of a
mapping with an offset, which has as many pages as the file (`MappedPages`).
`ReadsClosed` is the read from an executable that was closed: what `malloc` made of
the block may fault, or be another file.  The variable `astray` remembers that one of
the two happened.  What follows is still modelled, up to the moment `palloc` gives
the freed page to somebody else (`FrameReturns`): then two struct frames have one
page, and the model ends.

Abstractions: a page holds one value, the file has a fixed length of whole pages
(a last page that is not full would be read short too, when a mapping does not begin
with the file), all pages are writable; the hash table is visited in any order; memory
for `struct page`, `struct frame` and page tables runs out only in fork's copy;
a write back, the removal of the victim from the list and the clearing of the
entry are one step; `swap_lock` is held inside such a step only.
`file_backed_initializer` returns no value: in the unoptimized build of
`Make.config` it is taken as success.

`Memory` is what a user program may rely on: a value for each page of a process's
own, a page of the file for each mapped address, one content for a page of the
file.  `Vm` implements it through a mapping that looks for the value of a page
where it is: the executable, the frame or the slot; and for that of a page of the
file in the frame it is mapped to, or on the disk.

`Filesys` is the file system over a disk that writes one sector at a time.  `disk`,
`disk_map` and `slots` are what is on the disk: the sectors of inodes and data, the
free map file and the entries of the root directory.  `free_map` is the bitmap in
memory, `inode` and `file` the open inodes and the file objects.  Every write to the
disk is a step of its own, because others may run and the power may go (`PowerOff`)
before the next one:

- create: `Create` → `WriteMap` → `AllocateData` → `WriteMap` → `WriteInode` →
  `WriteZero`* → `AddLookup` → `FindSlot` → `WriteEntry`; or `Undo` → `WriteMap`
  from `CreateFails` (no memory), `AllocateData` (the disk is full), `AddLookup` (the
  name is taken) or `WriteEntry` (the directory is full).
- open: `Open` → `InodeOpen` (→ `InodeRead`) → `FileOpen`, or `InodeOpenFails`,
  `FileOpenFails` → `InodeClose`.
- remove: `Remove` → `InodeOpen` (→ `InodeRead`) → `EraseEntry` → `InodeClose`.
- close: `Close` → `InodeClose` (→ `WriteMap` → `FreeData` → `WriteMap`).
- `Reopen`, `Duplicate`, `DenyWrite` and `Write` of one sector are one step.

Abstractions: a sector of data holds one value; positions, partial sectors and the
memory for bounce buffers are left out; so are the inodes of the root directory and of
the free map, which are never closed while the system runs, and the first two sectors.

`Files` is what a program may rely on: a name leads to a file or to none, a file keeps
its length and what was written to it while it has a name or is open, nobody writes
while an opener forbids it, and a loss of power closes files and does nothing else.
In `Filesys` the file is the sector of its inode and its content is in the extent the
inode on the disk names.

`FileIO` takes the calls on one open file down to its sectors.  `file_pos` is the position
of each process's descriptor, `disk` the sectors of the file, `deny_write_cnt` the count
of the inode, `file_lock` the lock of `syscall.c`; `job` holds the local variables of
`file_read` and `inode_read_at` (and their writing twins), `bounce` among them.  A call
goes `Call` → (`SeekTell`, or `AcquireLock` → `Begin` → (`ReadTurn` | `ReadBounce` →
`WriteTurn` | `WriteTurn`)* → `ReleaseLock`) → `Return`, one step per disk call, because
each of them blocks.  A transfer ends early when there is no memory for the bounce
buffer.  Positions and sizes are `off_t`s of `Width` bits and wrap; a negative position is
the failed ASSERT of `file_seek`.  `ByteFile` says that each call happens at one moment.

`Alloc` is a pool of pages and the arenas above it.  `used_map` is the pool's bitmap,
`arena` the headers, `free_list` and `desc_lock` belong to the descriptors; a pointer is a
page with a number of a block.  A request goes `Malloc`, `Calloc`, `Realloc` or `GetPages` →
`LockDesc` → (`LockPool` → `Scan`* → `Mark`* → `GotPages`, or `NoPage`) → `Pop` →
`UnlockDesc` → `Return`; giving back goes `Free` → `Clear` → `LockDesc` → `Push` →
(`Wipe` → `Reset`*) → `UnlockDesc`.  Each bit of the bitmap is a step, because
`palloc_free_multiple` resets them while another thread scans under the lock.  Abstractions:
the kernel and the user pool are two instances of one pool; the memory of a block is cells
with one value each; the multiplication of `calloc` does not wrap.

`Pools` is the start of `palloc.c`: the passes over the memory map, `CutEntry` for the
automaton of `populate_pools`, `UserPool` after it, `OpenEntry` and `FreePart` for the last
loop that resets the bits of usable pages behind the kernel.  `BufSize` is what a bitmap
takes.

`PageTable` has the tables in pages of the kernel pool: `table[page][index]`.  A walk is an
operator that follows or creates the four levels and undoes what it created when a page is
missing, as `pml4e_walk`, `pdpe_walk` and `pgdir_walk` do; `Pml4Create`, `Pml4Destroy`,
`Pml4SetPage`, `Pml4ClearPage` and `Pml4SetFlag` are the operations.  The kernel's own half
is left out.

`Links` has the `next` and `prev` of every element, head and tail; an operation is a step
that does its assignments in their order (recursive operators for the loops of `list_sort`
and `list_unique`).  `call` is the last call with its arguments and its result, in `Links` and
in `Lists`, so that a step of a function is compared with that function of `Lists` and no
other.  `Hash` has the buckets as sequences and ends every insertion and
deletion with the rehash; `Bitmap` the words as sets of positions, what the last word holds
beyond the size included, and a file.

`Mlfqs` has `load_avg`, `recent_cpu`, `nice`, `priority` and the ready list.  `Tick` is the
whole of `timer_interrupt`, in the order of the code: the running thread's `recent_cpu`,
every fourth tick the priorities, every hundredth `load_avg` and the decay, the sleepers, and
the yield at the end of a slice; when idle was running the first ready thread runs at once, as
the loop of `idle` blocks after each interrupt.  `SetNice`, `Sleep` and the counting of ticks
(`Seen`) are `load_thread` of `tests/threads/mlfqs/mlfqs-fair.c`, in its order: nice, sleep,
spin; `Nap` is a sleep in between.  64-bit products are worked out in parts, so that they fit
TLC's integers.

`Disk` is one channel.  `lock`, `expecting` and `completion` are the fields of `struct
channel`, `regs` and `hw` the task file and the device.  `CheckDevices` → `NextDevice` →
`Identified` is `disk_init`; a call goes `Call` → `Acquire` → `Select` → ... → the command →
`sema_down` → the transfer → the release.  `Transfer`, `Finish` and `Spurious` are the device,
`Interrupt` is the handler.  `WaitUntilIdle` finds the device idle, or runs out of polls and
goes on (`late`); a busy device then ignores what is written to its registers or the command,
or drops what it was at, and `Fails` is the `PANIC` of a call whose command got lost.

`Serial` has the two ring buffers of `intq.c`, `txq` and `inq`, the sleeper and the lock of
each, `ier` (what `write_ier` sets), the UART (`thr`, `rbr`), and the console's lock, `depth`
and `use_console_lock`.  A writer goes `Printf` → `AcquireConsole` → (`Putc` | `PutcWaits` →
`PutcWakes` | `NestedPrintf`)* → `ReleaseConsole`; a reader `InputGetc` (→ `GetcInLine`) (→
`GetcWakes`).  `SerialInterrupt`, `KeyboardInterrupt`, `PutcOff` (a handler prints), `Panic` and
`Flush` come in between; `Shift` and `Receive` are the UART.

## 3. Runs

| run | instance | question |
|---|---|---|
| `Scheduler` | main, idle, two more pages, one semaphore upped by threads and by a device interrupt, priorities 1–2, sleeps of 0 and 2 ticks, slice of 2 | all safety properties of the scheduler, every call |
| `SchedulerLive` | the same without the device, value ≤ 1 | sleepers wake, the slice is shared |
| `Sharing` | four instances, of which a behaviour moves one: two workers with two locks, a semaphore and donation; three workers with one condition, `-mlfqs` on; main, initd and one more page with three file objects of two files; two processes that read, write and seek in one file of three bytes | locks have one owner and implement `Mutex`; no lost signal, no dangling element; the parent of a fork stands still, a file object has one owner; file calls are atomic |
| `LocksFault` | the instances of `Sharing`, the condition's lock with donation and without its other calls | finding: NULL `holder` dereferenced |
| `Process` | main, initd, two more pages, one descriptor, one file object; every call but the file calls | children are there, the status is final, wait comes back, and fork unless the child died in its copy |
| `ProcessLock` | main, initd, one more page, two descriptors | finding: a process exits with `file_lock` held |
| `Vm` | two processes, two frames, one slot, four pages (executable, two for a mapping, stack), a file of two pages, two values | tables agree; user memory is what was written (`Memory`) |
| `VmShared` | two processes, two frames, three pages | finding: eviction clears the wrong page table |
| `Filesys` | one process, three names, four sectors, files of 0 to 2 sectors, two slots, two inodes and file objects, two values | sectors and inodes agree; files keep what was written (`Files`) |
| `Structures` | seven instances, of which a behaviour moves one: two threads in the allocators over three pages; five elements in two lists; five elements in a hash table; a bitmap of up to three bits; two processes' page tables in six pages; memory maps of four entries; four tests of the advanced scheduler, and a scene with naps | blocks, pages and pools are disjoint and none is lost; lists are sequences, tables sets, bitmaps sets, page tables maps; CPU time is shared as the tests ask |
| `Disk` | two threads, two devices, two sectors, one interrupt for nothing | commands do not mix and each call takes effect once (`Store`) until an idle wait runs out; none does unless an interrupt came for nothing; every call returns, or one panics |
| `Serial` | two writers, two readers, or one of each; a queue of two bytes; messages of one character, nested once | messages do not mix; no sleeper is forgotten; bytes stay in order (`Fifo`); writers wake |

What the properties say:

- `ListsMatchStatus` (with `OneRunning`, `ReadyIsReady`, `SleepersAreBlocked`,
  `WaitersAreBlocked`, `DyingAreQueued`), `PlaceMatches`, `BlockedIsFindable`:
  the parts of the inductive invariant of section 5.
- `ReadySorted`, `SwitchToHighest`: the front of the list is a thread of highest
  priority whenever it is taken.
- `NoLostWakeup`: while somebody waits, every unit of the semaphore has a woken
  thread coming for it.
- `FreedIsOffCpu`, `WakeOnTime`: what a step never does.
- `SleeperWakes`, `SliceIsShared`: liveness.
- `LocksAreOwned`: of each lock there is one unit, with its owner or in its semaphore, and
  who is in `cond_wait`, or back from it, has the lock (`OneOwner`, `CondUnderLock`).
- `LocksAreMutexes`: every step of `Locks` and of `Condvar` is one `Mutex` allows, or none.
- `WaitersAreInWait`, `SignalIsKept`: no element outlives its `cond_wait`; a signal after
  the release reaches a waiter.
- `ChildrenAreThere`: every page a process can reach is a thread that has not
  passed `sema_down (free_sema)`, and is reached from nobody else.
- `StatusIsFinal`, `ParentStandsStill`: what the other side of the semaphore does
  while `process_wait` and `__do_fork` read its page.
- `FilesAreOwned`: descriptors and executables refer to open objects, each to its
  own.
- `ForkReturns`, `WaitReturns`: liveness.  `ForkReturns` lets a parent stay whose child died in
  its copy; `ForkAnswers`, which does not, is refuted (section 6).
- `FramesAgree`: page, frame, frame list and page table say the same of each frame;
  and the pool does, until a load from a file came short.
- `SlotsAgree`: a slot that a page is in is taken, and by that page only; a page of
  the process's own is never nowhere.
- `ImplementsMemory`: every step of `Vm` is a step `Memory` allows, or none, until a
  load came short or read a closed file.
- `SectorsAreOwned`: the sectors of a file that has a name or is open are taken, by
  that file only, in memory; for those with a name on the disk too, so that a loss of
  power never gives a file's sectors to another.
- `InodesAgree`: an open file has one inode, whose counts, `removed` and data are those
  of its openers, the directory and the disk.
- `ImplementsFiles`: every step of `Filesys` is a step `Files` allows, or none.
- `ImplementsByteFile`: a read, write, seek, tell or filesize happens at one moment on the
  bytes of the file, although it goes through several disk calls; a write that changes a
  part of a sector leaves the rest.
- `ArenasAgree`: an arena's count is the number of its blocks on the free list, no block is
  there twice or in use, no ASSERT of `malloc.c` and `palloc.c` fails.
- `PagesAreOwned`: the pages taken are those of live blocks and arenas (`NothingLeaks`), a
  page of a page table has one place (`TablesAreOwned`), a frame is mapped by one page of one
  process (`FramesAreOwned`), the free pages of the pools are whole pages of memory that
  nothing else lies in, and all of those behind the kernel (`PoolsFit`).
- `ImplementsHeap`: live blocks share no memory, keep their contents, and are zero when
  they should be.
- `ImplementsLists`, `ImplementsDict`, `ImplementsBits`, `ImplementsAddrSpace`: every step of
  `Links`, `Hash`, `Bitmap`, `PageTable` is one of its abstract module.  A call of `list.c` and of
  `bitmap.c` is a step of the same call, with the same arguments and result: `list_sort` is
  stable, `list_insert_ordered` goes behind equals, `list_unique` and `list_max` keep the first
  of equals.  Of a `bitmap_scan_and_flip` of no bits `Bits` allows both answers, what the code
  gives and what its comment says (section 6).
- `FairShare`: threads of equal nice have got about the same CPU time at every tick, the
  others in the end what `tests/threads/mlfqs` expects, within the tolerances of the `.ck` files
  (50 ticks, 20 for mlfqs-fair-20, 25 for mlfqs-nice-10), whatever the tick the test starts at,
  but for the two scenes in `Unfair` (section 6).
- `CommandIsOwn`: until an idle wait runs out a command starts on an idle device, and what
  the device does belongs to the thread inside `disk_read` or `disk_write`; no wait runs out,
  however slow the devices, unless an interrupt came for nothing.
- `ImplementsStore`: until an idle wait runs out each call takes effect once on its sector.
- `DiskAnswers`: it returns, after such a wait too, or a call panics.
- `OneSpeaker`: until a panic one thread is in the middle of a message, however nested.
- `WaitersAreFound`: who sleeps at a queue is the one it will wake, and has a reason to;
  bytes to send and room to receive have their interrupt enabled.
- `BytesInOrder`, `WriterWakes`: the two `Fifo`s; a sleeping writer is woken.

Bounds.  Two pages besides main and idle give a waiter, a thread that takes the
unit before it, and a dead page that is handed out again; a third adds states
and no new pair of neighbours on a list.  Two priorities give equal and unequal
neighbours.  A sleep of 2 outlives a tick and two sleepers can be due at
different ticks and at the same tick; 0 is due at once.  `MaxValue` = 2 lets
two units wait for two woken threads; it caps `sema_up`, whose counter is an
`unsigned` nobody brings near its limit.  `TimeSlice` = 2 lets a slice end in
and between steps.  In `Sharing` two workers and two locks give crossed requests
and a chain of length one, three workers are needed for a chain of length two
(`LocksFault`).  Behaviours stop at a kernel fault and at a donation element linked
twice (`Relinked`), both of which two workers reach.
`thread_ticks` needs no bound: it restarts at every switch, and the slice ends.

`Condvar` is checked with `-mlfqs` on, where `lock_acquire` does not donate: the
questions there are about the condition, and donation is `Locks`' business.

`Sharing` and `Structures` hold instances that share no state.  The variable `which`
names the one that moves, so that their states are added up and not multiplied; the
others stay in one initial state, and a property of one instance is that of its module.

In `Process` four pages give a parent with two children, a grandchild, an orphan
and a page that is freed and used again; the file calls are left to
`Sharing`, where two processes share two inodes through three objects, so
that a fourth open or duplication fails.  File objects are symmetric there (the run
has safety properties only).  `Argument` is empty, so that the codes are 0 and -1: the
properties compare no other.

In `Vm` two frames are one more than the process that faults needs and one less
than its four pages, so that every kind of page is evicted and comes back; the
second page of the stack area and the executable compete for the slot, and the
swap disk also runs out.  A mapping of two pages can be unmapped while one page of
it is in memory, out, or never touched.  A process is created once under each
name.  `VIEW ViewOf` leaves out what nobody reads before it is written; the
number of states does not depend on the order in which they are found, which is
evidence that nothing that matters is left out.

The run `Vm` asks whether the rest is right, given what is known to be wrong, and
leaves out (`CONSTRAINT Harmless`) the states that follow

- an eviction while there is another process (`EvictsAlone`): what then happens is
  the finding of `VmShared`;
- a mapping that ran into another page, or of which a part was unmapped and
  something else put there, so that `do_munmap`, which counts bytes, would destroy
  it (`MappingsAreWhole`);
- a page of the file mapped twice: the code keeps no common copy (`MappedOnce`);
- a process that mapped more than the file has, while there is another: a bound for
  the number of states only (`LongMappingsAlone`).

All else, claims of two processes at once as long as there are frames, fork's copy
during them, a child whose executable was closed under it, a load that comes short,
exit and exec included, is checked.  `MapFrom` is {0, 1}: the mapping begins with the
file, or one page later and so ends one page after it.

In `Filesys` four sectors hold two files with one sector of data each, or one with two;
a third file, or data after a leak, fails for lack of room, and two slots fail a third
name.  Two inodes and two objects give a file opened twice, one removed while it is
open and created again beside it, and one that is full.  Names and file objects are
symmetric.  The run has one process in the file system: that is what
`project2/introduction.html` asks of the system calls; section 6 says what happens
without it.  `VIEW ViewOf` leaves out what free sectors hold; what a crash or a
failed creation leaves behind is a taken sector and stays in the state.

In the file of `FileIO` a sector has two bytes and the file three, so that one transfer
has a whole sector, a part of one, or both; an `off_t` has three bits, so that 5 is a
negative position or size, 3 reaches the end and 1 stays within a sector.  What the two
processes write differs byte by byte from what the other writes.  The view leaves out the
request of a call that only has to return.

In `Alloc` a page has 20 bytes, two blocks of 8 and the header, so that 8 asks for a block
and 20 for two pages; three pages hold an arena and a big block and not two big ones, so
that requests fail.  Each thread holds one block, and two while `realloc` copies.  `Links`
has two pairs of elements with equal keys, enough for a merge of three runs; its view leaves
out the pointers of an element in no list, which `list_insert` writes before it reads them.
`Hash` starts with one bucket and wants one element per bucket (4 and 2 in the code), so that
tables of 1, 2 and 4 buckets come up; two elements are equal, two collide.  `Bitmap` has
words of two bits and sizes 0 to 3: empty, within a word, a full word, and across.
`PageTable` has three user pages whose paths part at the lowest and at the second level;
six pages are too few for both processes to have all, so that a walk fails at every level.
`Pools` has pages of four bytes and maps of four entries, memory below and above the
kernel with a gap, of lengths on both sides of where the kernel pool ends; entries start on
page borders.  `Mlfqs` runs with the constants of the code for the 3500 ticks
of the tests, 500 of sleep and 3000 of work: mlfqs-fair-2, -fair-20, -nice-2 and three threads
of which one sleeps for 150 ticks at one of several moments, begun at every remainder by 4, and
mlfqs-nice-10, begun at every remainder by 100: slices, the recalculation of priorities and
that of `load_avg` then meet in every phase.  `load_avg` is 0 when a test starts, as it is in
the first second, the threads of a test all begin within one tick, and main sleeps.

In `Disk` two devices on one channel compete for registers, data port and interrupt; every
pair of signatures, from two disks to none, is an initial state of `disk_init`.  One
interrupt for nothing is enough to be one up ahead for ever, as `completion_wait` is never
reset.  In `Serial` a buffer of three places holds two bytes; who prints or reads is one of
three scenes, and bytes differ on the side where two threads compete.

Deadlock is checked in every run but three: `Structures` (`Mlfqs` ends with its
tests, `Pools` when the pools are made), `Disk` (no disk may be found, a call may panic) and `Serial` (a panic ends
it).  In the others main and idle always have a step, a process in
user code may always make a call, and `Stopped` is the machine switched off or
`file_lock` held by the dead, a kernel that panicked, a parent that waits for a child that
died in `fork`, or everybody gone or waiting so (section 6).

## 4. Fairness

`FairSpec` assumes only what the machine and the code give:

- strong fairness of `TimerInterrupt`: the interrupt controller keeps the
  interrupt pending while interrupts are disabled, so a CPU that enables them
  again and again takes it;
- weak fairness of `ThreadAwake`, `InterruptReturn` and `SemaDownResume`: code
  that runs with interrupts disabled is not interrupted and goes on;
- weak fairness of `IdleLoop`: the idle thread's loop goes on.

`Process` assumes weak fairness of `KernelStep (p)` for every process: all have
`PRI_DEFAULT`, equal processes share the CPU (`SliceIsShared` of `Scheduler`
shows it), and the kernel's steps wait for nothing but the semaphores that are
their guards.  A process that waits for `file_lock` is not promised that it gets
it.

`Disk` assumes that a thread past the lock goes on, that the device answers and the handler
is run (weak fairness of `Step`, `Transfer`, `Finish`, `Interrupt`), and strong fairness of
`Acquire`: the semaphore of the lock serves waiters of equal priority first come, first
served, so that each has its turn although others come back.

`Serial` assumes weak fairness of `Shift` and `SerialInterrupt`: the UART sends what it
holds, and an interrupt that is enabled and pending is served.

Nothing is assumed of the threads' own functions or of user code: they may compute forever, and
the properties hold nevertheless because the timer preempts them.

## 5. Proofs

### The scheduler

The first part of `Threads_proofs` proves, for every set of threads and semaphores, every set of
priorities and every time slice (the named assumptions of `Scheduler` and
nothing else):

| theorem | statement |
|---|---|
| `Invariance` | `Spec => []IInv` |
| `Typing` | `Spec => []TypeOK` |
| `ListsAgree` | `Spec => []ListsMatchStatus` |
| `NobodyForgotten` | `Spec => []BlockedIsFindable` |
| `Places` | `Spec => []PlaceMatches` |
| `FreedAreDead` | `Spec => FreedIsOffCpu` |
| `ReadyListSorted` | `Spec => []ReadySorted` |
| `SwitchesToHighest` | `Spec => SwitchToHighest` |
| `WakeupsAreKept` | `Spec => []NoLostWakeup` |
| `SleepersWakeOnTime` | `Spec => WakeOnTime` |

The inductive invariant is
`IInv == TypeOK /\ ListsMatchStatus /\ PlaceMatches /\ BlockedIsFindable`.
None of its parts is inductive alone: that `sema_down` does not link a thread
twice needs that a running thread is on no list (`ListsMatchStatus`) and that
one resumed in its loop knows its semaphore (`PlaceMatches`); that the idle
thread is on no wait list needs that it never calls `sema_down` or
`timer_sleep`, which its place says; that a blocked thread is found needs that
whoever takes one off a list readies it, hence that the lists hold only blocked
threads.  TLC checks the same four parts as invariants of the run `Scheduler`.

The proof goes along the code: `ScheduleProps`, `DoScheduleProps`, `YieldProps`,
`ComparePriorityProps` and `BlockProps` say what the parts of `thread.c` keep,
`DownTurnProps` and `UpProps` what a turn of `sema_down` and a `sema_up` keep,
`QuietStep` that a step that touches no wait list keeps what is said of them, and
`NextInv` has a step for every action.  `FreedAreDead` adds that only
`do_schedule` frees; `ReadyListSorted` uses `InsertOrderedProps` of
`ListOps_proofs` (insertion keeps a sorted list sorted) and that the priority of
a thread changes only while it runs; `SwitchesToHighest` combines the two.

`NoLostWakeup` (a semaphore that is up has no waiter that nobody has woken) is about a number:
as many waiters are awake as units are there.  `IInv` gives it the one fact it lacks, that the
waiters not yet awake are the ones on the list, and the proof counts: a `sema_up` takes one
thread from the sleeping to the awake as it adds the unit, a turn of `sema_down` that takes a
unit takes its thread away from both, and every other step leaves the two alone.  The counting
needs `FiniteAssumption` (finitely many threads; a page each, and the memory is finite).
`SleepersWakeOnTime` needs a part of its own for the walk of `thread_awake`, which timer
interrupts cannot interrupt but which takes several steps: `Walked` says that what stands
before the cursor has been seen and is not due.

`ListOps_proofs` has the lemmas on sequences: what insertion in order, removal,
the tail and the stable sort do to the elements, to repetitions and to the order.
They rest on `SequenceTheorems` and are proved directly from the definitions;
`list_sort` is specified by its result (`SortedOf`), not by its merges.

### The allocators

`Alloc_proofs` proves, from `AllocAssumption` alone, for any number of threads, pages and sizes:

| theorem | statement |
|---|---|
| `AllocInvariance` | `Spec => []AllocInv` |
| `ArenasAlwaysAgree` | `Spec => []ArenasAgree` |
| `NothingIsLost` | `Spec => []NothingLeaks` |
| `HeapIsKept` | `Spec => ImplementsHeap`: the allocators implement `Heap` |

`AllocAssumption` says of the sizes what `malloc_init` relies on: the smallest block (16 bytes)
is less than half a page (2048), the header of an arena is less than two of them and
no more than half a page.  It follows that an arena of every descriptor has at least two blocks
and that those of the smallest are the most, which is what a cell stands for (`ArenaSizes`).

Neither `ArenasAgree` nor `NothingLeaks` is inductive: both speak of what clients hold and of
free lists, and say nothing of what a thread has in its hands between two steps.

    AllocInv == AllocTypeOK /\ JobsFit /\ OwnFits /\ Apart /\ LandsFit /\ ListsFit
                /\ ArenasFit /\ NoneLost

accounts for all memory at every step.  `Land` is what a pointer stands for, a block or whole
pages, `All (t)` what a thread's clients hold and its call has in its hands: the pages found so
far in `Mark`, the block off the list before the lock is given back, what is being cleared and
wiped, the pages whose bits are still to be reset.  `Apart` says that no two threads have
the same and none has anything twice; `LandsFit` that pages are held with their bits
set and blocks in an arena and off its free list; `ListsFit` and `ArenasFit` that the lists
have blocks of live arenas once each and that an arena counts them; `NoneLost` that a page in use is
somebody's or an arena, a block somebody's or free, and that an arena without a block
in use is there only while its maker is about to take one (`Pop`), with the lock of
the descriptor.  `JobsFit` says what a call may rely on where it stands: the lock of the pool or of
the descriptor, that the pages to be marked are still free although bits are reset without that
lock, that the descriptor's list is still empty when `malloc` comes back with pages for
it.

A page stops being an arena (`Live`) with the step of `Push` that finds the last block free:
its blocks are off the list and the page is the thread's, header and all.  `Push` is the
longest of the steps for that reason (`GivenBack`, `PushShort`, `PushFull`): nobody else holds a
block of that arena, since every block is free or somebody's and all but this one are
counted free.  `Ranks` and `OffListProps` say what is left of a list without the blocks of one
arena, without induction: an element's place is the number of those kept up to it.
`OthersKeep` and `Quiet` say once that a step leaves the other threads' calls and memory alone;
then there is one lemma for each action, and `AllocStep` puts them together.

`HeapIsKept` follows from the invariant before and after a step.  `CellsAre` says that the cells
of a pointer are different and where they lie (the arithmetic of pages and places), `MemoryIs`
and `CellsApart` that what is apart shares no cell and has another address, so that an address
has one holder (`HeapIs`).  The `memset`s of `free` and `palloc_free_multiple` then
touch nothing a client holds (`ClearHeap`, `WipeHeap`); `Free` and `Write` map to `Release` and
`Write` of `Heap`, `Return` to `Allocate` or, for `realloc`, to `Resize`, and every other step
leaves the heap as it is.
TLC checked `AllocInv` on the instance of the run `Structures`, and on one with two
descriptors, before it was proved.

### Bitmaps

`Alloc_proofs` proves of `Bitmap`, from `BitmapAssumption` alone (a word has at least one bit,
there is at least one bit count), hence for every width of a word and every size of a bitmap:

| theorem | statement |
|---|---|
| `BitmapTyping` | `BitmapSpec => []BitmapTypeOK` |
| `WordsAreASet` | `BitmapSpec => ImplementsBits`: the words implement a set of bits |

The argument is arithmetic first: a bit number is its quotient and remainder by the width
(`DivMod`, `SameBit`), the words below a bit and their number (`WordsBefore`, `WordCount`),
and what the last word holds (`LastWord`).  Then one lemma for each kind of change says what
it does to the set `SetOf` the words stand for: one bit (`SetBit`), a run of bits
(`ManyBits`), whole words with the rest masked off (`SomeWords`, `MaskedWord`).  `FoundInSet`
and `ScanFindsFirst` say that `bitmap_contains` and `bitmap_scan` look at the set;
`StepImplements` has a step for every action.  No inductive invariant beyond the type is
needed: the unused bits of the last word may hold anything, the mapping leaves them out, and
the theorem says that no answer depends on them.

### The disk

`Hardware_proofs` proves of `Disk`, from `DiskAssumption` (there is a thread, a sector and a value, and the
two markers are none of them), for any number of threads, sectors, values and interrupts for
no command:

| theorem | statement |
|---|---|
| `ChannelInvariance` | `Spec => []IInv` |
| `CommandsKeptApart` | `Spec => []CommandIsOwn` |
| `DiskIsStore` | `Spec => ImplementsStore`: until an idle wait runs out, each call takes effect once, on its sector |

`CommandIsOwn` is not inductive.  That a thread finds its own command in the device needs
that no other thread is at the registers (`OneInside`: one thread runs `disk_init` while all
others have not started, afterwards the one at the channel is the owner of the lock), and what
the device can be at for each place of that thread (`DeviceAgrees`): a device with data or a
command always has a thread at `down` or `poll`, and only a write may still be under way with
nobody there, which is what an interrupt for nothing leads to.
All this ends when `wait_until_idle` gives up, which the code does after 10 ms.  That it
takes an interrupt for nothing to get there is `EveryAnswerTaken`: as long as there was none,
the one interrupt of each command is pending, or in `completion_wait`, exactly from the moment
the device answers to the moment its thread takes it, so that a thread leaves the channel with
the device idle.  `IInv == TypeOK /\ OneInside /\ (late \/ DeviceAgrees) /\ (spurious = 0 =>
EveryAnswerTaken)`, and `TypeStep`, `OneStep`, `AgreeStep` and `AnswerStep` prove that the steps
keep its parts.  The refinement then has a `Start` for `Acquire`, a `Do` for `InputSector` and `OutputSector`, a `Return` for `Release`, and a
stutter for everything else: a write takes effect when the device has accepted its data, for
whoever reads the sector next must wait until the device is idle.

### Page tables

`Hardware_proofs` proves of `PageTable`, from `PageTableAssumption` (a user page has four indices
and there is one, pages and frames are numbers and the pages finitely many, the marker for an
empty entry is no number and no entry), for any number of processes, user pages, pages of the
kernel pool and frames:

| theorem | statement |
|---|---|
| `TablesInvariance` | `TablesSpec => []TablesInv` |
| `TablesHaveOwners` | `TablesSpec => [](TablesAreOwned /\ FramesAreOwned)` |
| `TablesAreAMap` | `TablesSpec => ImplementsAddrSpace` |

    TablesInv == Good (free, table, pml4) /\ pool \subseteq Frames /\ FramesAreOwned

`TablesAreOwned` counts tables and does not say where they are.  `Good` says it of paths instead of
trees, since a tree would take recursion: `Node` is the table of level `l` on the path of a user
page `v`, and two paths part where their indices do (`Same`).  Every table met is in use
(`InUse`), two paths of any processes meet in a table only where they are the same so far
(`Apart`), a page in use is on a path (`NoLeak`), and an entry that is not 0 is one a path goes
through (`OnPath`), to a table at the upper levels and to a frame at the last (`ToTable`,
`ToFrame`), so that what `Pml4ClearPage` leaves without its P bit is never taken for a table.

`Good` speaks of any pool and tables and not of the variables alone, because `pml4e_walk` passes through
states that are never the system's: `EnterGood` says that entering an empty table keeps it,
`LeafGood` that an entry of a page table may become another, `AgreeGood` that tables of nobody
do not matter.  The last is what taking back needs: `TakenBack` says that after a
walk that failed the free pages are those from before and every table in use is as it was
(`Restored`), although the pages it had taken are not.  `PgdirWalks`, `LevelWalks` and `Pml4eWalks`
go up the levels with it.  `CreateGood` and `DestroyGood` are the two ends of a tree, whose
tables are the rows of its paths (`RowBelow`, `TablesAre`).

Each operation then changes the entries as its counterpart of `AddrSpace` does (`EntryBecomes`,
`EntriesStay`), and the frames follow from that alone: `OwnedMore`, `OwnedLess` and `OwnedKept`
say it of the map.  The count in `TablesAreOwned` is two bijections, from the processes to the top
tables and from the entries above the last level to all others (`LinkIs`, `TablesCounted`).
TLC checked `TablesInv` on an instance like that of the run `Structures` before it was proved.

### Processes

`Process_proofs` proves, from the four assumptions of `Process` (main and initd are two
pages, there are a file object, an inode and a descriptor, the markers are none of them, the
arguments of `exit` are integers), for any number of pages, files and descriptors:

| theorem | statement |
|---|---|
| `ProcessTypes` | `Spec => []TypeOK` |
| `ChildrenStay` | `Spec => []ChildrenAreThere` |
| `ParentIsStill` | `Spec => []ParentStandsStill` |
| `StatusIsLast` | `Spec => []StatusIsFinal` |
| `FilesHaveOwners` | `Spec => []FilesAreOwned` |

`IInv == TypeOK /\ Tree /\ Files`.  None of the five properties is inductive.  That `Die`
meets nobody who still holds a pointer to the page needs what the semaphores say
(`SemasAgree`: `wait_sema` is up only at a zombie nobody has waited for, `free_sema` only at one
that was waited for), that whoever waited is between the two (`ReapsZombie`), that a child is
on its parent's list once and not at all before the push and after the removal (`ListedOnce`),
and that a new page is on no list and reaches nothing (`FreshPages`).  That the parent stands
still is `ForkerWaits`: it is at `sema_down (load_sema)`, or on its way there, with this child
in its hands and the semaphore at 0.  `TypeStep` and `TreeStep` have a step for every action
that touches the tree; `AloneStep` does the processes that only go from place to place.

For the files, `HeldOnce` says that two places (a descriptor or the executable of a process)
never hold the same object, which is stronger than what the cardinality in `FilesAreOwned`
counts; `SameFiles` needs `ForkerWaits`, since the parent must not close what the child copies,
and `LoopIndex` says that the loop of `process_exit` leaves nothing behind.  `OwnedOpen` and
`OwnedClose` say what filling and emptying one place do, `FileStep` applies them to the actions.

### Locks

The second part of `Threads_proofs` builds on the first and proves, from the assumptions of `Scheduler` and
of `Locks`, for any number of threads, locks and other semaphores, with and without `-mlfqs`:

| theorem | statement |
|---|---|
| `LocksTyping` | `LockSpec => []LockTypeOK` |
| `LocksHaveOneOwner` | `LockSpec => []OneOwner` |
| `LocksAreMutex` | `LockSpec => ImplementsMutex` |

`LInv == IInv /\ LockTypes /\ PlacesAgree /\ OneUnit`.  `SchedulerKept` brings the scheduler's
invariant over: a lock function changes priorities at most, or is a turn of `sema_down` or
`sema_up` (`PriorityStep`, `DownStep`, `TryDownStep`, `UpStep`).  `OneUnit` is `OneOwner` without
a cardinality.  It is not inductive: that the assignment of `holder` and its clearing move no
unit needs `PlacesAgree`, which ties the place of a thread in a lock function to its place in
`sema_down` and to the holder (a thread on its way to `holder = NULL` is the holder; one that
is past it and before `sema_up` left none).  `UnitMoves` says of every step that it moves no
unit (`Kept`), that the running thread takes one (`Takes`) or that it gives one back
(`Gives`); `OneUnitKept` and the refinement are both read off from it.  The refinement maps
`owner[l]` to the set of the threads past `sema_down` and not yet at `sema_up`: `Takes` is
`Mutex`'s `Take`, `Gives` its `Give`, and every other step stutters.

The third part of the module carries this over to condition variables, whose steps are
interleaved with all of those above:

| theorem | statement |
|---|---|
| `CondInvariance` | `CondSpec => []CInv` |
| `CondHoldsLock` | `CondSpec => [](CondTypeOK /\ OneOwner /\ CondUnderLock)` |
| `NoElemDangles` | `CondSpec => []WaitersAreInWait` |
| `SignalsAreKept` | `CondSpec => []SignalIsKept` |
| `CondLocksAreMutex` | `CondSpec => ImplementsMutex` |

`CInv == LInv /\ CondTypes /\ StagesAgree /\ CondUnderLock /\ WaitersAreInWait /\ SignalIsKept`.
`StagesAgree` is the link between the two levels: a thread's stage in `cond_wait` or
`cond_broadcast` fixes where in `lock_release`, `sema_down` or `lock_acquire` it may be, and that
the semaphore of a list element is waited for by nobody but the thread in whose frame it
lives.  From that and the lock's one owner follows that only one thread changes
`cond->waiters` at a time, and so that the thread `cond_signal` takes off the list finds its
semaphore up however late it gets to `sema_down`.  The refinement of `Mutex` is proved again,
for the specification with the steps of the condition added.

### Virtual memory

`Vm_proofs` proves, from `SizeAssumption` (the numbers are naturals, the segment and the
addresses for `mmap` are addresses) and `ValueAssumption` (the first process is one, the values
of new pages are values, the marker is none), for any number of processes, addresses, frames,
slots and values and any length of the file:

| theorem | statement |
|---|---|
| `VmInvariance` | `Spec => [](VInv /\ astray \in BOOLEAN)` |
| `SlotsAreKept` | `Spec => []SlotsAgree` |
| `FramesDoAgree` | `Spec /\ [](EvictsAlone /\ MappingsAreWhole) => [](astray \/ FramesAgree)` |
| `MemoryIsKept` | `Spec /\ [](EvictsAlone /\ MappingsAreWhole /\ MappedOnce) => ImplementsMemory` |

`VInv == WellFormed /\ NoRepeat(frame_list) /\ (\A p : Busy(p)) /\ Family` says what
every step relies on: a process in the middle of a fault still has the page it faulted for
(`Busy`), although others run and a parent may be copied from; a parent in `fork` is waited for
by one child, which copies a page the parent has (`Family`).  It needs no condition on
who runs when, and holds through loads that come short; where `palloc` gives out the page of
a frame that `lazy_load_segment` freed while it was listed, the list would have that page twice:
there the model, and with it the theorem, ends (`FrameReturns`).

`SlotsAgree` is the one of the two promises that survives section 6: an eviction next to another
process may break the frames, but a slot that keeps a page is taken and keeps no other, and a
page of the process's own always has a frame or a slot.  `SlotsStay` covers the steps that touch
no slot, `SlotsEvict` and `SlotsFill` the two that take and free one.

`FramesAgree` fails when a process evicts next to another one (the finding of `VmShared`) or
when `do_munmap` destroys an anonymous page, whose entry in the page table then stays.  The
theorem takes exactly these two as its hypothesis; the others under which the run `Vm` checks
it turn out not to matter.  And it speaks of the time before a load comes short (`~astray`):
from then on a frame that is listed and mapped is not given out any more.  (What is left of
the agreement afterwards, links, list and page tables, is checked in the run `Vm` only.)  A process alone still
evicts, and any number of processes may claim frames while there are some, fork, load and end.
Under that hypothesis

    FrInv == Tables /\ LinksApart /\ \A p : Fresh(p) /\ Untouched(p)

is inductive relative to `VInv`.  `Tables` is `FramesAgree` with what it leaves open: an entry
of a page table is for its page, or for one that `supplemental_page_table_kill` has ended, whose
frame is then off the list (`Entry`), so that no victim is mapped where nobody looks; and two
entries never lead to one frame.  `Fresh` says that between `vm_get_frame` and the link the
frame is on the list and nobody's, `LinksApart` that no two processes are about to link the same
one.  `Untouched` says that a page with a frame is no longer uninitialized unless it is being
filled, so that the victim knows how to go out, and that `do_munmap` will meet pages of the file
only.  `TablesStay`, `TablesNew` and `TablesGone` say what a step does to the tables that
changes no page, makes one, or ends one; `OthersStay` that the other processes do not notice;
then there is a lemma for each action.  `AsLong` ties the cardinality in `FramesAgree` to
`NoRepeat`.

`MemoryIsKept` is what all of it is for: `Vm` implements `Memory`, so a user program finds at an
address what was last written there, wherever the page has been since.  Its hypothesis is that
of the run `Vm`, and each part of it is a place where the code falls short (section 6): an
eviction next to another process may leave the victim mapped; a mapping that was cut short leaves
a page `do_munmap` does not expect; and a page of the file that is mapped twice has two frames
with two contents.  Any number of processes still run, fork, load, map, fault and end in any
order.  A child whose parent's executable was closed (section 6) and whose next page of it
faults is ended, which `Memory` allows (`MemFillFails`).  If the block of the closed file is
another file by then, or a load comes short, the promise ends: a user program may see what it
never wrote, and `ImplementsMemory` says nothing from the step on that sets `astray`
(`[][astray' \/ M!Next]_(M!vars)`).  The proof adds

    MemInv == \A p, va : PageIsSound(p, va) /\ SegmentAt(p, va) /\ CopyAt(p, va)

to `VInv`, `FrInv` and `SlotsAgree`.  `PageIsSound` says that a page is in a frame or in a slot
and not in both unless it is being filled, that just the pages of the executable and of a
mapping are read on demand, a mapping's from a file that is never closed, that a page of a
mapping that was read lies in the file, so that writing it back stays in it, and that a page of the
file that is not dirty holds what the file does: hence an eviction may drop it, and one that writes
it back changes nothing that is seen.
`SegmentAt` says that the executable is whole while a process runs, so that what appears when
`load` or a fork is done is what `Memory` says.  `CopyAt` is about fork: whatever the child has
copied so far holds what the parent's page does, or is still to be read by both, so that the
copy becomes visible at once and whole; of the page it is busy with it says less.

`ChangeIs` and `SameRemembers` reduce a step to what it does to the values of each address;
`Steady` says that a page and what it holds stay, and `SoundStays`, `OwnStays`, `CopyStays` and
`ContentsStay` that everything said of it stays with it.  `Apart` says that two pages share no
frame and no slot, so that a step at one page leaves the others steady (`OnlyMem`).  Filling a
frame, linking it and evicting map to no step of `Memory`; a write, growth of the stack, `mmap`,
`munmap`, `load`, `exec`, exit and the end of a fork to one each.  TLC checked `VInv`, `FrInv`
and `MemInv` on the instance of the run `Vm` before they were proved.

### Serial port and console

`Serial_proofs` proves, from `IntqAssumption` (the buffer has room for a byte and there is a
byte) and `SerialAssumption` (printers and readers are different threads, the marker is no
thread and no byte), for any number of threads, any size of the buffer and any length of a
message:

| theorem | statement |
|---|---|
| `SerialInvariance` | `Spec => []SInv` |
| `MessagesDoNotMix` | `Spec => []OneSpeaker` |
| `SleepersAreFound` | `Spec => []WaitersAreFound` |
| `BytesStayInOrder` | `Spec => BytesInOrder`: both queues, with the UART, implement `Fifo` |

`SInv == Types /\ Speakers /\ Sleepers /\ Enabled`.  `Speakers` says what the console lock and
its depth are at each nesting of `printf`; `Sleepers` that whoever is between `intq`'s test and
its wakeup owns the queue's lock, that `not_full` and `not_empty` name it just as long as it
sleeps, and that the queue is then as it found it; `Enabled` that whatever has bytes to move
has its interrupt on.  `WaitersAreFound` takes both: the reason to sleep stands, and the
interrupt that is to end it can come.

The ring buffer is arithmetic modulo its size: `PutProps` and `GotProps` say that a put appends
to `Contents` and a get takes its first byte (`Wrapped`: positions wrap around once), with
emptiness, fullness and the count read off from `CountIs`.  `QueueSteps` sorts the steps of the
module into the few things that can happen to a queue, and `OutputStep` and `InputStep` map
each to a step of `Fifo` or a stutter: for the output, what is on the way is the byte in the UART
followed by the contents of the queue, so that handing a byte to the UART is no step.

### File system

`Filesys_proofs` proves, from the assumptions of `Filesys` (the numbers are naturals, the zero
value is a value, the marker is no record and no sector, there are finitely many file objects),
for any number of names, sectors, directory entries, inodes, file objects, values and sizes:

| theorem | statement |
|---|---|
| `FilesysInvariance` | `OneProcess => (Spec => []FInv)` |
| `SectorsAreTheirOwn` | `OneProcess => (Spec => []SectorsAreOwned)` |
| `InodesCount` | `OneProcess => (Spec => []InodesAgree)` |
| `FilesAreKept` | `OneProcess => (Spec => ImplementsFiles)` |

`OneProcess` says that one process at a time is in the file system.  It is a condition on the
callers and not on the code: `project2/introduction.html:783` says that there is no internal
synchronization and asks for it, the run `Filesys` has it, and section 6 tells what happens
without it.  The power may still go between any two steps.

`FInv == TypeOK /\ ~panic /\ Owned /\ NamedOnce /\ InodesAgree /\ FilesAreOpen /\ Places`.
Neither invariant is inductive.  That a creation or a removal does not give away a sector twice
needs to know which sectors a process has in its hands between two of its steps (`Mine`: those
of a file that has no name yet, or no opener any more) and that no file has them (`Private`).
That the disk agrees after a loss of power needs `Saved`: the map on the disk is behind only
while it is about to be written.  That the counts of an inode agree with the file objects and
the processes needs `Looks`: whoever looks a file up stands at an entry that is still there,
with an inode that is on the list.  `~panic` is the ASSERT of `bitmap_all` in
`free_map_release`: what is released was allocated.

`FitsIs` says that the run of sectors found is free; `QuietStep` that a step at no inode keeps
the counts; `OneInode`, `OpenStep` and `FileStep` what the steps at one inode do to them;
`OwnedKept` that files that do not change keep their sectors.  Then there is one lemma for each
action and `FilesysStep` puts them together.

`FilesAreKept` is what the two are for: names and handles lead to what was written, as `Files`
says.  It needs `NInv == Unique /\ \A p : Clear(p)` besides: no two entries have one name, nor has
any the name of a file on its way to its entry (`Unique`), so that a new entry changes where
its name leads and no other; and the sectors of that file are zero as far as the loop of
`inode_create` has come (`Clear`).  Most steps change nothing a name or a handle can see
(`QuietStutters`, `InodeStutters`, `MakingStutters`): whoever makes a file writes to sectors that
belong to none, and whoever takes an inode off the list is the last that had it.  The file of
`Files` begins with `WriteEntry`, leaves its name with `EraseEntry` and is gone with the last
handle, although its sectors are freed later (`KeepIs`).  `HeldStays` says that a step that leaves
a file's sectors alone leaves what it holds, and `WriteIs` that a write reaches one position of
one file, which nobody denies: the count of deniers is zero, hence their set is empty.
Everything `FInv` and `NInv` say has been model-checked on the instance of the run `Filesys`.

### Only model-checked

Liveness and `ENABLED` are out of the prover's reach.  `Links`, `Hash`, `Pools` and
`Mlfqs` compute by recursion over pointers, chunks or digits, which needs induction over data, and so does the refinement of `ByteFile`, which adds up the bytes of a
request.  `FramesAgree` and `Memory` where their conditions fail, and what becomes of two
processes in `Filesys`, are checked by TLC on the instances of section 3.

## 6. Where the code does not do what it says

Three runs end in a violation, each a finding of `PROJECT.json` with the words it quotes:

- `LocksFault`: `lock_acquire` reads `lock->holder` again when it may be NULL.
- `ProcessLock`: a process dies with `file_lock` held.
- `VmShared`: eviction clears the page table of the process that evicts.

The following were seen while modelling; no passing run claims the contrary.  Where the
claim is named, it is a definition of the module, which no run checks and TLC refutes on the
instance of section 3:

- fork's `memcpy` (`vm.c:324-325`) from a page of the parent that is out dereferences NULL,
  and a lazy load may fault in it; the child exits without `sema_up (load_sema)` and its
  parent waits at `process.c:93` for ever, where `system_call.html` asks for `TID_ERROR`
  (`CopyFaults`; in `Vm` the guard of `Copied`).  TLC refutes `ForkAnswers` of `Process`;
  `ForkReturns` leaves out the parents of such a child by name.
- begun 34 ticks after the clock, with `load_avg` 0, mlfqs-nice-10 gives its threads 704, 592, 480,
  392, 320, 224, 152, 88, 40 and 8 ticks: the first has 32 more than its `.ck` file expects,
  where 25 are allowed; begun after 46 ticks one thread has 28 too many.  The 98 other starts
  pass, and all pass once the ready list is sorted when the priorities are computed anew:
  the cause is a list whose order is older than its priorities.  TLC refutes `TestsPass` of
  `MCStructures`; `FairShare` leaves the two starts out by name (`Unfair`).
- `bitmap_scan_and_flip` of no bits answers `start`; its comment (`bitmap.c:289`) says 0.
  `Bits` allows both; TLC refutes `NoBitsAtZero` of `Bitmap`.
- `thread_awake` readies threads of higher priority and does not set
  `yield_on_return`: the running thread keeps the CPU up to the end of its slice
  (so `SwitchToHighest` speaks of switches only).
- `thread_compare_priority` tests `list_empty` and then calls `list_front` with
  interrupts enabled.  A tick between the two may take the last thread off the
  list and the ASSERT of `list_front` fails: `panic` in `CompareFront`.
- `thread_create` pushes the child's `child_elem` after the child may have run,
  exited and been freed (`ChildPush`).
- a donor that inserts itself in `holder->donations` after the holder's
  `remove_donation` stays there; its next donation links the same `d_elem` again
  (`Relinked`).
- donation changes the priority of a READY holder and does not move it in the list:
  with `Locks`, `SwitchToHighest` is violated.
- the `if` of `cond_signal` covers the sort only: with nobody waiting it pops from the
  empty list and the kernel panics (`Signal`).
- a donation is not taken back when the donor is readied by something else, and
  may lower the priority of a holder that had a larger donation.

- `kill` calls `thread_exit` without a status, so `wait` returns 0 for a process
  killed by an exception; the comment of `process_wait` says -1 (`Kill`).
- `process_fork` returns the child's tid when the child's copy failed
  (`system_call.html` asks for `TID_ERROR`): `Forked` from "failed".
- a child nobody waits for stays in `sema_down (free_sema)` for ever, with its
  page: `Die` is never enabled once its parent has gone.
- `exec` overwrites `runn_file` without closing it: the object leaks and the old
  executable stays denied (`Load`).  A forked child has no `runn_file`: when its
  parent exits, its executable may be written.
- `add_file_to_fdt` never looks below `fd_index`: a process that has once reached
  the limit can open no file again, whatever it closes (`FreeFd`).
- a failed `file_duplicate` leaves NULL in the child's table and fork succeeds
  (`DupFile`).
- `thread_create` leaks the page when there is no memory for the table
  (`ForkNoFdt`).
- the frame list is changed without a lock (`GetFrame`, `Dealloc`).
- a frame whose page is gone, or not yet linked, may be the victim: NULL is
  dereferenced (`CannotEvict`); so it is when the victim is still uninitialized.
- `lazy_load_segment` frees the page of its frame when `file_read` comes short
  (`process.c:700-703`): the frame stays on the list, linked and mapped.  The next
  `palloc_get_page` gives the page to another frame, and the end of the process frees it
  again: an ASSERT of `palloc_free_multiple` fails, or the page is taken from its new owner.
  `mmap` with an offset gets there without a broken file, since `mmap_load_segment` makes as
  many pages as the whole file has from the offset on, and what
  `file_backed_swap_in` reads of them later is not looked at (`ComesShort`).
- the child's `aux` refers to the parent's file, which is closed when the parent
  exits.  Its block is then on a free list of `malloc` or another object: the child faults,
  the kernel panics, or it reads another file (`ReadsClosed`); `file_seek` writes the
  offset into whatever is there, which the model does not follow.  The child's copy of the
  `aux` leaves `read_bytes` 0, so that it cannot unmap a page it had not touched (`CopyNext`).
- a swap slot is not freed when its page is destroyed; `introduction.html` of
  project 3 asks for it (`Dealloc`).
- `munmap` does not give the frame back to the pool (`Unframe`).
- `do_munmap` goes by the number of bytes and destroys whatever page is there;
  `mmap` looks at the first address only and leaves a part of the mapping when it
  runs into a page; the file it reopens is never closed (`UnmapNext`, `Mmap`).
- a new page of the stack is not zeroed (`Source`).
- a creation that fails after its data sectors were allocated keeps them
  (`Undo`); so does a loss of power, as `project2/introduction.html` says it may.
- `inode_open` puts the inode on the list before its data are read: another process
  that opens the file meanwhile goes by a length that is not there yet (`InodeRead`).
- `lookup` and `dir_add` take a short read for the end of the directory; when there is
  no memory for the bounce buffer a name in use is not found, and a slot may be taken
  that is in use (the comment in `dir_add` says so).
- `inode_write_at` looks at `deny_write_cnt` once, before its blocking disk calls.
- two processes that create the same name at a time, without a lock around the calls, leave
  two entries of that name: both look it up before either writes (`AddLookup`,
  `WriteEntry`; TLC refutes `NamesAreUnique` of `Filesys` with two processes).
- `load` denies writes to the executable without `file_lock`, so the denial may come in the
  middle of another process's write, which goes on (`DenyWrite`, `Begin`).
- the write back of a mapped page and lazy loading take no `file_lock`: a write to another
  part of the same sector can be lost between its read and its write (`ReadBounce`).
- `seek` to 2^31 or more fails the ASSERT `new_pos >= 0` in `file.c:151` and the kernel
  panics (`SeekTell`).
- `palloc.c:182` has ASSERT (`rem == size`), pages against bytes: memory maps with a third
  usable entry of more pages than the user pool still wants panic.  A last entry that
  ends within a page leaves `rem` over, and one after it reaches `NOT_REACHED` (`CutEntry`).
- `calloc` tests the overflow of `a * b` with `size < a || size < b` (`malloc.c:154-155`);
  products that wrap to something larger pass.
- `bitmap_create` leaves the unused bits of the last word as the memory was, and
  `bitmap_write` stores them; `bitmap_read` masks them (`BitmapRead`).
- `expecting_interrupt` is set by the first command and never cleared, although
  `disk.c:72-73` says it is false if an interrupt would be spurious: from then on an
  interrupt for nothing ups `completion_wait`, and a write returns while the device is at it
  (`Interrupt`).  The next command waits for the device, for 10 ms: if the device is slower
  than that the command goes to a busy device (TLC refutes `StartsOnIdle` of `Disk`), and what
  becomes of the sector being written, and of the call, is no longer promised.  The comment of
  `wait_until_idle` (`disk.c:449`) speaks of 10 seconds.
- with two readers of the keyboard, the second gets the lock of the buffer after a byte has
  come, and the ASSERT of `intq.c:84` fails (`GetcInLine`).
- `pml4_destroy` looks at `pml4[0]` only, while `is_user_vaddr` goes to `KERN_BASE`
  (0x8004000000), the first 64 MB of `pml4[1]` included: tables there would leak.
- `calculate_priority` is not clamped: nice -20 gives a priority of 103, nice 20 with
  `recent_cpu` a negative one.
- `thread_get_recent_cpu` rounds before it multiplies by 100 (`thread.c:455-457`).
- without `-q`, main's `thread_exit` closes the descriptors of a thread that has
  no table.

## 7. Plan

What is left, in order; every definition gets its mutant or its theorem.

1. Proofs: the invariant of `Pools`, for which the memory maps that make `palloc_init` panic have
   to be told apart.
2. `Input`: the scan codes of `kbd.c`, with shift, control and caps lock.
3. `Timer`: the calibration and the waits of `real_time_sleep`.
4. `Arguments`: the stack `argument_stack` builds, against a reference definition.
5. Larger: eviction between two processes, once the entry it clears is the owner's.

## 8. Not modelled

Boot, segments, interrupt entry in assembly, the ports of the devices below a
command or a byte, the display, `printf` and formatting, the ELF format beyond its
segments' effect, the test programs and the build: pure I/O, generated or
hardware-level code.  `lib/` outside `lib/kernel` is the C library.  Iterators that
read only (`hash_next`, `pml4_for_each`), statistics, the translation of scan codes,
the words of a command line and the calibration of the timer are left out of modules
that model their files.
