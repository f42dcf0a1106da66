---------------------------------- MODULE Vm ----------------------------------
(***************************************************************************)
(* Virtual memory: the supplemental page tables, page faults, frames and   *)
(* eviction of vm/*.c, fork's copy of the memory, and the loading, mapping *)
(* and unmapping of pages in userprog/process.c.                           *)
(*                                                                         *)
(* A process is in user code, where it writes to its pages or makes a      *)
(* call, or at one of these places (pc[p]):                                *)
(*   "none"    there is no such process                                    *)
(*   "load"    load, when the old memory is gone                           *)
(*   "claim"   vm_do_claim_page, before vm_get_frame                       *)
(*   "evict"   vm_evict_frame, in swap_out of the victim                   *)
(*   "link"    vm_do_claim_page, with the frame                            *)
(*   "fill"    vm_do_claim_page, in swap_in                                *)
(*   "grow"    vm_stack_growth, in the loop                                *)
(*   "unmap"   do_munmap, in the loop                                      *)
(*   "copy"    supplemental_page_table_copy, in the loop                   *)
(*   "copied"  page_copy_action, before the memcpy                         *)
(*   "fork"    the parent of a process that copies, in process_fork        *)
(*   "kill"    supplemental_page_table_kill, in the loop                   *)
(* Between two of these other processes run: the disk is waited for in     *)
(* "evict", "fill", "unmap" and "kill", and the timer comes anywhere.      *)
(*                                                                         *)
(* A page holds one value.  All pages are writable: a write where it is    *)
(* not allowed ends the process as an exit does.                           *)
(***************************************************************************)
EXTENDS Integers, FiniteSets, SequencesExt

CONSTANTS
    Proc, First,  \* the processes, and the first of them
    Top,          \* pages of user memory are 1..Top, the stack begins at Top
    Segment,      \* the pages of the executable
    MapAt,        \* where user code may map the file
    FileLength,   \* the pages of the file, which fills the last of them
    MapFrom,      \* bound: the offsets user code gives mmap, in pages
    Frames,       \* the pages of the user pool
    Slots,        \* the slots of the swap disk
    Value,        \* what a page can hold
    Start,        \* what the executable and the file hold at the start
    Junk,         \* what is in a page of the pool: palloc fills freed pages with 0xcc
    None

Va == 1..Top
Frame == 1..Frames
Slot == 1..Slots
Offset == 0..FileLength - 1

ASSUME SizeAssumption == /\ Top \in Nat \ {0} /\ FileLength \in Nat /\ Frames \in Nat /\ Slots \in Nat
                         /\ Segment \subseteq Va \ {Top} /\ MapAt \subseteq Va
                         /\ MapFrom \subseteq Nat
ASSUME ValueAssumption == /\ First \in Proc /\ {Start, Junk} \subseteq Value
                          /\ None \notin Value \cup Proc \cup Nat \cup (Proc \X Va)

VARIABLES
    pc,
    at,             \* the page the process is busy with
    then,           \* where it goes when the page is claimed
    frame,          \* local of vm_get_frame: the victim's or the new frame
    left,           \* read_bytes of do_munmap
    parent,         \* aux of __do_fork
    spt,            \* per process and address: the struct page, or NoPage
    pml4, dirty,    \* per process and address: the frame mapped, and the dirty bit
    frame_list, page_of,   \* frame_table; frame->page
    used,           \* the user pool: the frames given out by palloc
    ram,
    swap_bitmap, swap,
    contents,       \* of the file on disk
    closed,         \* the processes whose executable was closed
    panic,
    astray          \* a load from a file came short or read a file that was closed

localVars == <<pc, at, then, frame, left, parent>>
tableVars == <<spt, pml4, dirty>>
frameVars == <<frame_list, page_of, used>>
diskVars == <<swap_bitmap, swap, contents>>
vars == <<localVars, tableVars, frameVars, ram, diskVars, closed, panic, astray>>

(* A struct page.  kind is the type the page has, or will have once it is  *)
(* initialized; lazy: init is lazy_load_segment; read_bytes (in pages) and *)
(* loader, the process whose file the aux refers to, are in its aux.       *)
NoPage == [kind |-> None]
NewPage(kind, lazy, ofs, rest, loader) ==
    [kind |-> kind, uninit |-> TRUE, lazy |-> lazy, ofs |-> ofs, read_bytes |-> rest,
     loader |-> loader, frame |-> None, slot |-> None]
PageOf(p, va) == IF va \in Va THEN spt[p][va] ELSE NoPage

\* What load makes: load_segment the pages of the executable, setup_stack the first
\* page of the stack.
LoadedPages(p) ==
    [va \in Va |-> IF va \in Segment THEN NewPage("anon", TRUE, 0, 0, p)
                  ELSE IF va = Top THEN NewPage("anon", FALSE, 0, 0, None)
                  ELSE NoPage]

Places == {"none", "load", "user", "claim", "evict", "link", "fill", "grow", "unmap",
           "copy", "copied", "fork", "kill"}

\* The first process is loaded, but for the claim of its stack.
Init ==
    /\ pc = [p \in Proc |-> IF p = First THEN "claim" ELSE "none"]
    /\ at = [p \in Proc |-> Top]
    /\ then = [p \in Proc |-> "user"]
    /\ frame = [p \in Proc |-> None]
    /\ left = [p \in Proc |-> 0]
    /\ parent = [p \in Proc |-> None]
    /\ spt = [p \in Proc |-> IF p = First THEN LoadedPages(p) ELSE [va \in Va |-> NoPage]]
    /\ pml4 = [p \in Proc |-> [va \in Va |-> None]]
    /\ dirty = [p \in Proc |-> [va \in Va |-> FALSE]]
    /\ frame_list = <<>>
    /\ page_of = [f \in Frame |-> None]
    /\ used = {}
    /\ ram = [f \in Frame |-> Junk]
    /\ swap_bitmap = {}
    /\ swap = [s \in Slot |-> Start]
    /\ contents = [o \in Offset |-> Start]
    /\ closed = {}
    /\ panic = FALSE /\ astray = FALSE

-----------------------------------------------------------------------------
Goto(p, place) == pc' = [pc EXCEPT ![p] = place]

\* ASSERT or PANIC, or a fault of the kernel.
Panic == panic' = TRUE

\* pml4_clear_page; the mutant leaves the entry.
KeepsPage(p, va) == UNCHANGED pml4
ClearPage(p, va) == pml4' = [pml4 EXCEPT ![p][va] = None]

\* The file after the page in frame f is written back to it, if it has to be; the
\* mutant writes when the page is clean.
WrittenClean(page, f, isDirty) ==
    IF isDirty THEN contents ELSE [contents EXCEPT ![page.ofs] = ram[f]]
Written(page, f, isDirty) ==
    IF isDirty THEN [contents EXCEPT ![page.ofs] = ram[f]] ELSE contents

\* bitmap_scan_and_flip on the swap bitmap: the first free slot, and the bitmap
\* after it; the mutant does not flip.
FreeSlot == Min(Slot \ swap_bitmap)
NotFlipped == swap_bitmap

Flipped == swap_bitmap \cup {FreeSlot}

\* vm_claim_page of page va, and on to the place next.
Claim(p, va, next) ==
    /\ at' = [at EXCEPT ![p] = va]
    /\ then' = [then EXCEPT ![p] = next]
    /\ Goto(p, "claim")

-----------------------------------------------------------------------------
(* User code and the page fault.                                           *)

Write(p, va, v) ==
    /\ pc[p] = "user" /\ pml4[p][va] # None
    /\ ram' = [ram EXCEPT ![pml4[p][va]] = v]
    /\ dirty' = [dirty EXCEPT ![p][va] = TRUE]
    /\ UNCHANGED <<localVars, spt, pml4, frameVars, diskVars, closed, panic>>

\* vm_try_handle_fault of an address whose page is known.
Fault(p, va) ==
    /\ pc[p] = "user" /\ pml4[p][va] = None /\ spt[p][va] # NoPage
    /\ Claim(p, va, "user")
    /\ UNCHANGED <<frame, left, parent, tableVars, frameVars, ram, diskVars, closed, panic>>

\* ... of an address without a page, where the stack pointer has gone to.
StackFault(p, va) ==
    /\ pc[p] = "user" /\ spt[p][va] = NoPage /\ pml4[p][va] = None
    /\ at' = [at EXCEPT ![p] = va]
    /\ Goto(p, "grow")
    /\ UNCHANGED <<then, frame, left, parent, tableVars, frameVars, ram, diskVars, closed, panic>>

\* A turn of the loop of vm_stack_growth: from the fault up to the first page.
StackGrowth(p) ==
    /\ pc[p] = "grow"
    /\ IF at[p] \in Va /\ PageOf(p, at[p]) = NoPage
       THEN /\ spt' = [spt EXCEPT ![p][at[p]] = NewPage("anon", FALSE, 0, 0, None)]
            /\ Claim(p, at[p], "grow")
       ELSE /\ Goto(p, "user")
            /\ UNCHANGED <<at, then, spt>>
    /\ UNCHANGED <<frame, left, parent, pml4, dirty, frameVars, ram, diskVars, closed, panic>>

-----------------------------------------------------------------------------
(* Frames: vm_get_frame, vm_evict_frame, vm_do_claim_page.                 *)

\* The frame goes to the end of frame_list, for no page yet.
Got(p, f) ==
    /\ frame_list' = Append(RemoveFirst(frame_list, f), f)
    /\ page_of' = [page_of EXCEPT ![f] = None]
    /\ frame' = [frame EXCEPT ![p] = f]
    /\ Goto(p, "link")

\* The page of the pool palloc gives next is that of a frame which is still on
\* frame_list: lazy_load_segment freed it there.  From then on two struct frames
\* have one page; the model ends.
FrameReturns == Frame \ used # {} /\ Min(Frame \ used) \in Range(frame_list)

\* A page from the pool; without one the first of frame_list is the victim.
GetFrame(p) ==
    /\ pc[p] = "claim" /\ ~FrameReturns
    /\ LET free == Frame \ used IN
         IF free # {}
         THEN /\ Got(p, Min(free))
              /\ used' = used \cup {Min(free)}
              /\ UNCHANGED panic
         ELSE /\ UNCHANGED <<used, page_of, frame_list>>
              /\ IF frame_list = <<>>
                 THEN Panic /\ UNCHANGED <<pc, frame>>
                 ELSE /\ frame' = [frame EXCEPT ![p] = Head(frame_list)]
                      /\ Goto(p, "evict")
                      /\ UNCHANGED panic
    /\ UNCHANGED <<at, then, left, parent, tableVars, ram, diskVars, closed>>

\* Which page p evicts.
Victim(p) == page_of[frame[p]]

\* The victim is gone, or has no swap_out yet, or there is no slot for it.
CannotEvict(p) ==
    \/ Victim(p) = None
    \/ LET page == spt[Victim(p)[1]][Victim(p)[2]] IN
         page = NoPage \/ page.uninit \/ (page.kind = "anon" /\ swap_bitmap = Slot)

\* Both clear the entry of the page table of the process that runs; then the frame
\* is taken from the page.
AnonSwapOut(p, q, va) ==
    /\ swap_bitmap' = Flipped
    /\ swap' = [swap EXCEPT ![FreeSlot] = ram[frame[p]]]
    /\ spt' = [spt EXCEPT ![q][va].slot = FreeSlot, ![q][va].frame = None]
    /\ ClearPage(p, va)
    /\ UNCHANGED <<contents, dirty>>

FileSwapOut(p, q, va) ==
    /\ contents' = Written(spt[q][va], frame[p], dirty[p][va])
    /\ dirty' = [dirty EXCEPT ![p][va] = FALSE]
    /\ spt' = [spt EXCEPT ![q][va].frame = None]
    /\ ClearPage(p, va)
    /\ UNCHANGED <<swap_bitmap, swap>>

SwapOut(p) ==
    LET q == Victim(p)[1] va == Victim(p)[2] IN
    IF spt[q][va].kind = "anon" THEN AnonSwapOut(p, q, va) ELSE FileSwapOut(p, q, va)

EvictFrame(p) ==
    /\ pc[p] = "evict"
    /\ IF CannotEvict(p)
       THEN Panic /\ UNCHANGED <<pc, frame, tableVars, frameVars, diskVars>>
       ELSE SwapOut(p) /\ Got(p, frame[p]) /\ UNCHANGED <<used, panic>>
    /\ UNCHANGED <<at, then, left, parent, ram, closed>>

\* pml4_set_page, with a clean entry.
SetPage(p, va, f) ==
    /\ pml4' = [pml4 EXCEPT ![p][va] = f]
    /\ dirty' = [dirty EXCEPT ![p][va] = FALSE]

\* The frame and the page are linked and the page is mapped.
Link(p) ==
    /\ pc[p] = "link"
    /\ page_of' = [page_of EXCEPT ![frame[p]] = <<p, at[p]>>]
    /\ spt' = [spt EXCEPT ![p][at[p]].frame = frame[p]]
    /\ SetPage(p, at[p], frame[p])
    /\ frame' = [frame EXCEPT ![p] = None]
    /\ Goto(p, "fill")
    /\ UNCHANGED <<at, then, left, parent, frame_list, used, ram, diskVars, closed, panic>>

\* exit: the pages go, then the process.
Exiting(p) == Goto(p, "kill") /\ then' = [then EXCEPT ![p] = "none"]

\* The page is read from the file of its aux: when it is initialized, and later
\* if it is a page of a mapping.
FromFile(page) == IF page.uninit THEN page.lazy ELSE page.kind = "file"

\* What lazy_load_segment or anon_swap_in bring, what is in the frame otherwise.
Source(p, va) ==
    LET page == spt[p][va] IN
    IF FromFile(page) THEN (IF page.kind = "file" THEN contents[page.ofs] ELSE Start)
    ELSE IF page.uninit THEN ram[page.frame]
    ELSE swap[page.slot]

\* The frame was taken meanwhile, or anon_swap_in has no slot to read.
CannotFill(page) ==
    page.frame = None \/ (~page.uninit /\ page.kind = "anon" /\ page.slot = None)

\* The struct file was freed when its process exited; that of a mapping never is.
FileIsClosed(page) == FromFile(page) /\ page.kind = "anon" /\ page.loader \in closed
\* What the page is read from may end before it: an executable that was cut
\* short; a mapping with an offset, which has as many pages as the file.
MayEnd(page) == FromFile(page) /\ (page.kind = "anon" \/ page.ofs \notin Offset)

\* The page is what its kind says, initialized or back from its slot.
Initialized(p) == spt' = [spt EXCEPT ![p][at[p]].uninit = FALSE, ![p][at[p]].slot = None]

\* swap_in: uninit_initialize with lazy_load_segment, anon_swap_in, or
\* file_backed_swap_in.
Filled(p, page) ==
    /\ ~FileIsClosed(page) /\ (page.kind = "file" => page.ofs \in Offset)
    /\ ram' = [ram EXCEPT ![page.frame] = Source(p, at[p])]
    /\ swap_bitmap' = swap_bitmap \ {page.slot}
    /\ Initialized(p) /\ Goto(p, then[p])
    /\ UNCHANGED <<then, used, panic, astray>>

\* file_read gives fewer bytes than asked: lazy_load_segment frees the page of a
\* frame that stays linked, listed and mapped.  A process that faulted exits;
\* fork leaves the memcpy out; file_backed_swap_in looks at no result.
ComesShort(p, page) ==
    /\ FileIsClosed(page) \/ MayEnd(page)
    /\ panic' = (page.frame \notin used)
    /\ used' = used \ {page.frame}
    /\ ram' = [ram EXCEPT ![page.frame] = Junk]
    /\ Initialized(p) /\ astray' = TRUE
    /\ IF page.uninit /\ then[p] # "copied" THEN Exiting(p)
       ELSE Goto(p, IF page.uninit THEN "copy" ELSE then[p]) /\ UNCHANGED then
    /\ UNCHANGED swap_bitmap

\* A closed file is what malloc made of its block: an inode that faults, so that
\* the process exits or the kernel panics, or something that can be read, the
\* file of somebody else among it.  (What file_seek writes to it is not followed.)
ReadsClosed(p, page) ==
    /\ FileIsClosed(page)
    /\ Initialized(p)
    /\ \/ Exiting(p) /\ UNCHANGED <<ram, panic, astray>>
       \/ Panic /\ UNCHANGED <<pc, then, ram, astray>>
       \/ /\ \E v \in Value : ram' = [ram EXCEPT ![page.frame] = v]
          /\ astray' = TRUE
          /\ Goto(p, then[p]) /\ UNCHANGED <<then, panic>>
    /\ UNCHANGED <<used, swap_bitmap>>

Fill(p) ==
    LET page == spt[p][at[p]] IN
    /\ pc[p] = "fill"
    /\ IF CannotFill(page)
       THEN Panic /\ UNCHANGED <<pc, then, spt, used, ram, swap_bitmap, astray>>
       ELSE Filled(p, page) \/ ComesShort(p, page) \/ ReadsClosed(p, page)
    /\ UNCHANGED <<at, frame, left, parent, pml4, dirty, frame_list, page_of, swap, contents, closed>>

-----------------------------------------------------------------------------
(* The end of pages.                                                       *)

\* anon_destroy, and the end of file_backed_destroy: the frame is off the list, but
\* not back in the pool.
Unframe(page) ==
    IF page.frame = None
    THEN UNCHANGED <<frame_list, page_of>>
    ELSE /\ frame_list' = RemoveFirst(frame_list, page.frame)
         /\ page_of' = [page_of EXCEPT ![page.frame] = None]

\* vm_dealloc_page: a mapped page is written back when it is dirty and its entry is
\* cleared.  The slot of a page that is out stays taken.
Dealloc(p, va) ==
    LET page == spt[p][va] IN
    /\ spt' = [spt EXCEPT ![p][va] = NoPage]
    /\ Unframe(page)
    /\ IF page.kind = "file" /\ ~page.uninit
       THEN /\ ClearPage(p, va)
            /\ contents' = Written(page, page.frame, dirty[p][va] /\ page.frame # None)
            /\ panic' = (dirty[p][va] /\ page.frame = None)
       ELSE UNCHANGED <<pml4, contents, panic>>

\* A turn of supplemental_page_table_kill, in the order of the hash table.
KillNext(p, va) ==
    /\ pc[p] = "kill" /\ spt[p][va] # NoPage
    /\ Dealloc(p, va)
    /\ UNCHANGED <<localVars, dirty, used, ram, swap_bitmap, swap, closed>>

\* The frames pml4_destroy gives back to the pool.
Mapped(p) == {pml4[p][va] : va \in Va} \ {None}

\* The page tables go; exit, not exec, closes the executable.
KillDone(p) ==
    /\ pc[p] = "kill" /\ \A va \in Va : spt[p][va] = NoPage
    /\ panic' = (Mapped(p) \ used # {})
    /\ used' = used \ Mapped(p)
    /\ ram' = [f \in Frame |-> IF f \in Mapped(p) THEN Junk ELSE ram[f]]
    /\ pml4' = [pml4 EXCEPT ![p] = [va \in Va |-> None]]
    /\ dirty' = [dirty EXCEPT ![p] = [va \in Va |-> FALSE]]
    /\ closed' = IF then[p] = "none" THEN closed \cup {p} ELSE closed
    /\ Goto(p, then[p])
    /\ then' = [then EXCEPT ![p] = "user"]
    /\ UNCHANGED <<at, frame, left, parent, spt, frame_list, page_of, diskVars>>

-----------------------------------------------------------------------------
(* The calls of user code.                                                 *)

Exit(p) ==
    /\ pc[p] = "user"
    /\ Exiting(p)
    /\ UNCHANGED <<at, frame, left, parent, tableVars, frameVars, ram, diskVars, closed, panic>>

Exec(p) ==
    /\ pc[p] = "user"
    /\ Goto(p, "kill") /\ then' = [then EXCEPT ![p] = "load"]
    /\ UNCHANGED <<at, frame, left, parent, tableVars, frameVars, ram, diskVars, closed, panic>>

\* load, which ends with the claim of the stack.
Load(p) ==
    /\ pc[p] = "load"
    /\ spt' = [spt EXCEPT ![p] = LoadedPages(p)]
    /\ Claim(p, Top, "user")
    /\ UNCHANGED <<frame, left, parent, pml4, dirty, frameVars, ram, diskVars, closed, panic>>

\* The executable is not there, or not one: the process exits.
LoadFails(p) ==
    /\ pc[p] = "load"
    /\ Exiting(p)
    /\ UNCHANGED <<at, frame, left, parent, tableVars, frameVars, ram, diskVars, closed, panic>>

\* mmap_load_segment, from page ofs of the file on, as many pages as the file has,
\* stops where a page is in the way, and leaves what it made.
MappedPages(p, va, ofs) ==
    LET Room(o) == \A k \in 0..o : PageOf(p, va + k) = NoPage /\ va + k \in Va IN
    [x \in Va |-> IF x - va \in Offset /\ Room(x - va)
                  THEN NewPage("file", TRUE, ofs + (x - va), FileLength - (x - va), None)
                  ELSE spt[p][x]]

\* mmap looks at the first address only.
Mmap(p, va, ofs) ==
    /\ pc[p] = "user" /\ va \in MapAt /\ spt[p][va] = NoPage
    /\ spt' = [spt EXCEPT ![p] = MappedPages(p, va, ofs)]
    /\ UNCHANGED <<localVars, pml4, dirty, frameVars, ram, diskVars, closed, panic>>

\* munmap, into do_munmap: as many pages as the aux of the first one says.
Munmap(p, va) ==
    /\ pc[p] = "user" /\ spt[p][va] # NoPage /\ spt[p][va].kind = "file"
    /\ at' = [at EXCEPT ![p] = va]
    /\ left' = [left EXCEPT ![p] = spt[p][va].read_bytes]
    /\ Goto(p, "unmap")
    /\ UNCHANGED <<then, frame, parent, tableVars, frameVars, ram, diskVars, closed, panic>>

\* The condition of its loop.
MoreToUnmap(p) == left[p] > 0 /\ PageOf(p, at[p]) # NoPage

\* A turn of it, which looks at the number only, not at the kind of the page.
UnmapNext(p) ==
    /\ pc[p] = "unmap"
    /\ IF MoreToUnmap(p)
       THEN /\ Dealloc(p, at[p])
            /\ at' = [at EXCEPT ![p] = @ + 1]
            /\ left' = [left EXCEPT ![p] = @ - 1]
            /\ UNCHANGED pc
       ELSE /\ Goto(p, "user")
            /\ left' = [left EXCEPT ![p] = 0]
            /\ UNCHANGED <<at, spt, pml4, frame_list, page_of, contents, panic>>
    /\ UNCHANGED <<then, frame, parent, dirty, used, ram, swap_bitmap, swap, closed>>

-----------------------------------------------------------------------------
(* fork: the child copies the memory of a parent that waits (Process).     *)

Fork(p, c) ==
    /\ pc[p] = "user" /\ pc[c] = "none" /\ c \notin closed
    /\ pc' = [pc EXCEPT ![p] = "fork", ![c] = "copy"]
    /\ parent' = [parent EXCEPT ![c] = p]
    /\ UNCHANGED <<at, then, frame, left, tableVars, frameVars, ram, diskVars, closed, panic>>

\* page_copy_action: the page is made, with a copy of the aux but for its read_bytes,
\* and claimed if that of the parent is initialized.
CopyNext(c, va) ==
    LET page == spt[parent[c]][va] IN
    /\ pc[c] = "copy" /\ page # NoPage /\ spt[c][va] = NoPage
    /\ spt' = [spt EXCEPT ![c][va] =
                  NewPage(page.kind, page.lazy, page.ofs, 0, page.loader)]
    /\ IF page.uninit THEN UNCHANGED <<pc, at, then>> ELSE Claim(c, va, "copied")
    /\ UNCHANGED <<frame, left, parent, pml4, dirty, frameVars, ram, diskVars, closed, panic>>

\* The memcpy.  If the page of the parent is not in a frame the kernel faults and
\* the child exits, without sema_up (load_sema): the parent waits for ever.
Copied(c) ==
    LET from == spt[parent[c]][at[c]].frame to == spt[c][at[c]].frame IN
    /\ pc[c] = "copied"
    /\ IF from = None \/ to = None
       THEN /\ Exiting(c)
            /\ parent' = [parent EXCEPT ![c] = None]
            /\ UNCHANGED ram
       ELSE /\ ram' = [ram EXCEPT ![to] = ram[from]]
            /\ Goto(c, "copy")
            /\ UNCHANGED <<then, parent>>
    /\ UNCHANGED <<at, frame, left, tableVars, frameVars, diskVars, closed, panic>>

CopyDone(c) ==
    /\ pc[c] = "copy" /\ \A va \in Va : spt[parent[c]][va] # NoPage => spt[c][va] # NoPage
    /\ pc' = [pc EXCEPT ![c] = "user", ![parent[c]] = "user"]
    /\ parent' = [parent EXCEPT ![c] = None]
    /\ UNCHANGED <<at, then, frame, left, tableVars, frameVars, ram, diskVars, closed, panic>>

\* There is no memory for a struct page or an aux: the child lets its parent go
\* and exits.
CopyFails(c) ==
    /\ pc[c] = "copy"
    /\ pc' = [pc EXCEPT ![c] = "kill", ![parent[c]] = "user"]
    /\ then' = [then EXCEPT ![c] = "none"]
    /\ parent' = [parent EXCEPT ![c] = None]
    /\ UNCHANGED <<at, frame, left, tableVars, frameVars, ram, diskVars, closed, panic>>

-----------------------------------------------------------------------------
\* The kernel panicked, or nobody is left who could take a step, or the model ends.
Stopped ==
    /\ panic \/ FrameReturns \/ \A p \in Proc : pc[p] \in {"none", "fork"}
    /\ UNCHANGED vars

Step(p) ==
    \/ Fill(p)
    \/ /\ \/ \E va \in Va : \/ \E v \in Value : Write(p, va, v)
                            \/ \E ofs \in MapFrom : Mmap(p, va, ofs)
                            \/ Fault(p, va) \/ StackFault(p, va) \/ Munmap(p, va)
                            \/ KillNext(p, va) \/ CopyNext(p, va)
          \/ StackGrowth(p) \/ GetFrame(p) \/ EvictFrame(p) \/ Link(p)
          \/ KillDone(p) \/ Exit(p) \/ Exec(p) \/ Load(p) \/ LoadFails(p) \/ UnmapNext(p)
          \/ \E c \in Proc : Fork(p, c)
          \/ Copied(p) \/ CopyDone(p) \/ CopyFails(p)
       /\ UNCHANGED astray

Next == (~panic /\ \E p \in Proc : Step(p)) \/ Stopped

Spec == Init /\ [][Next]_vars

-----------------------------------------------------------------------------
(* Properties.                                                             *)

\* What struct page and the aux of lazy_load_segment can hold.
PageRecord == [kind : {"anon", "file"}, uninit : BOOLEAN, lazy : BOOLEAN, ofs : Nat,
               read_bytes : 0..FileLength, loader : Proc \cup {None},
               frame : Frame \cup {None}, slot : Slot \cup {None}]

\* The state of vm and of the processes is well formed; do_munmap never counts
\* more pages down than the mapping has.
WellFormed ==
    /\ pc \in [Proc -> Places]
    /\ at \in [Proc -> Nat]
    /\ then \in [Proc -> Places]
    /\ frame \in [Proc -> Frame \cup {None}]
    /\ left \in [Proc -> 0..FileLength]
    /\ parent \in [Proc -> Proc \cup {None}]
    /\ spt \in [Proc -> [Va -> PageRecord \cup {NoPage}]]
    /\ pml4 \in [Proc -> [Va -> Frame \cup {None}]]
    /\ dirty \in [Proc -> [Va -> BOOLEAN]]
    /\ frame_list \in Seq(Frame)
    /\ page_of \in [Frame -> (Proc \X Va) \cup {None}]
    /\ used \in SUBSET Frame
    /\ ram \in [Frame -> Value]
    /\ swap_bitmap \in SUBSET Slot
    /\ swap \in [Slot -> Value]
    /\ contents \in [Offset -> Value]
    /\ closed \in SUBSET Proc
    /\ panic \in BOOLEAN

TypeOK == WellFormed /\ astray \in BOOLEAN

PageAt(x) == spt[x[1]][x[2]]
Pages == {x \in Proc \X Va : PageAt(x) # NoPage}
Live(p) == pc[p] # "none"

\* After vm_do_claim_page, eviction, the destroy functions and pml4_destroy frames,
\* pages and page tables say the same: the frame of a page knows it and is on
\* frame_list, a list without repetitions; and, as long as lazy_load_segment got
\* what it asked for, a frame on the list or mapped is given out, and mapped for its
\* page only.
FramesAgree ==
    /\ TypeOK
    /\ Cardinality(Range(frame_list)) = Len(frame_list)
    /\ astray \/ Range(frame_list) \subseteq used
    /\ \A x \in Pages : PageAt(x).frame # None =>
         page_of[PageAt(x).frame] = x /\ PageAt(x).frame \in Range(frame_list)
    /\ \A f \in Frame : page_of[f] # None => page_of[f] \in Pages /\ PageAt(page_of[f]).frame = f
    /\ \A p \in Proc, va \in Va : pml4[p][va] # None =>
         /\ astray \/ pml4[p][va] \in used
         /\ pc[p] = "kill" \/ (spt[p][va] # NoPage /\ spt[p][va].frame = pml4[p][va])

\* anon_swap_out and anon_swap_in lose no page: a slot keeps one page, and is
\* taken as long as it does; the value of a page of the process's own is in a
\* frame or in a slot.
SlotsAgree ==
    /\ \A x \in Pages : PageAt(x).slot # None =>
         /\ PageAt(x).slot \in swap_bitmap
         /\ \A y \in Pages \ {x} : PageAt(y).slot # PageAt(x).slot
    /\ \A x \in Pages : ~PageAt(x).uninit /\ PageAt(x).kind = "anon" =>
         PageAt(x).frame # None \/ PageAt(x).slot # None

\* The process has no memory yet, no more, or a copy that is not finished.
Hidden(p) == pc[p] \in {"none", "load", "kill"} \/ parent[p] # None

OwnValue(p, va) ==
    LET page == spt[p][va] IN
    IF Hidden(p) \/ page = NoPage \/ page.kind = "file" THEN None
    ELSE IF page.uninit THEN (IF page.lazy THEN Start ELSE None)
    ELSE IF page.slot # None THEN swap[page.slot]
    ELSE IF page.frame # None THEN ram[page.frame] ELSE None

\* The pages of the mapping of o that are in memory.
InMemory(o) == {x \in Pages : LET page == PageAt(x) IN
                  /\ page.kind = "file" /\ page.ofs = o /\ ~page.uninit /\ page.frame # None
                  /\ ~(pc[x[1]] = "fill" /\ at[x[1]] = x[2])}

\* What the variables of Memory are here.
OwnOf == [p \in Proc |-> [va \in Va |-> OwnValue(p, va)]]

MapOf == [p \in Proc |-> [va \in Va |->
            IF spt[p][va] # NoPage /\ spt[p][va].kind = "file" /\ spt[p][va].ofs \in Offset
            THEN spt[p][va].ofs ELSE None]]

ContentsOf == [o \in Offset |->
                 IF InMemory(o) = {} THEN contents[o]
                 ELSE ram[PageAt(CHOOSE x \in InMemory(o) : TRUE).frame]]

M == INSTANCE Memory WITH
       FilePage <- Offset, Image <- [va \in Segment |-> Start],
       own <- OwnOf, map <- MapOf, contents <- ContentsOf

\* Through page faults, eviction, swapping, loading on demand, mapping and fork,
\* memory is what user code wrote to it, as long as lazy_load_segment gets what it
\* asks for, from a file that is open.
ImplementsMemory == M!Init /\ [][astray' \/ M!Next]_(M!vars)

-----------------------------------------------------------------------------
(* What the code is not up to (see the README); a run that asks whether    *)
(* the rest is right leaves these states out.                              *)

\* Nobody evicts while there is another process.
EvictsAlone == \A p, q \in Proc : pc[p] = "evict" /\ Live(q) => p = q
\* No other page lies where a mapping was cut short or ended in part.
MappingsAreWhole ==
    \A x \in Pages : PageAt(x).kind = "file" =>
        \A k \in 1..PageAt(x).read_bytes - 1 :
            LET page == PageOf(x[1], x[2] + k) IN
            page = NoPage \/ (page.kind = "file" /\ page.ofs = PageAt(x).ofs + k)
\* No page of the file, nor one past its end, is mapped twice.
MappedOnce ==
    \A x, y \in Pages : PageAt(x).kind = "file" /\ PageAt(y).kind = "file"
                        /\ PageAt(x).ofs = PageAt(y).ofs => x = y

\* introduction.html on eviction: "Remove references to the frame from any page
\* table that refers to it."
MappingsAreOwn ==
    \A p \in Proc, va \in Va : pml4[p][va] # None /\ pc[p] # "kill" =>
        spt[p][va] # NoPage /\ spt[p][va].frame = pml4[p][va]
=============================================================================
