------------------------------ MODULE Vm_proofs ------------------------------
(***************************************************************************)
(* Proofs about Vm: the tables of pages keep their types, a process that   *)
(* is busy with a page has it, no page's value is lost to a swap slot,     *)
(* frames, pages and page tables say the same as long as nobody evicts     *)
(* next to another process and no load from a file comes short, and memory *)
(* is then what user code wrote to it, for any number of processes, pages, *)
(* frames, slots and values.                                               *)
(***************************************************************************)
EXTENDS Vm, ListOps_proofs, FiniteSetTheorems

(***************************************************************************)
(* What holds of every execution.                                          *)
(***************************************************************************)
Claiming == {"claim", "evict", "link", "fill"}

\* A process that is busy with a page has it; one without memory has none.
Busy(p) ==
    /\ pc[p] \in Claiming \cup {"copied"} => at[p] \in Va /\ spt[p][at[p]] # NoPage
    /\ pc[p] \in {"evict", "link"} => frame[p] \in Frame
    /\ pc[p] \in Claiming => then[p] \in {"user", "grow", "copied"}
    /\ pc[p] = "kill" => then[p] \in {"none", "load"}
    /\ pc[p] \in {"none", "load"} => \A va \in Va : spt[p][va] = NoPage

\* A child copies until it is killed; the page it copies is its parent's, too.
ToCopy(c) == pc[c] \in Claiming /\ then[c] = "copied"
Copying(c) ==
    \/ pc[c] \in {"copy", "none"}
    \/ pc[c] = "kill" /\ then[c] = "none"
    \/ (pc[c] = "copied" \/ ToCopy(c)) /\ spt[parent[c]][at[c]] # NoPage

\* The parent waits for it, and for no other.
Family ==
    /\ \A c \in Proc : parent[c] # None => pc[parent[c]] = "fork" /\ Copying(c)
    /\ \A c \in Proc : pc[c] \in {"copy", "copied"} \/ ToCopy(c) => parent[c] # None
    /\ \A c, d \in Proc : parent[c] # None /\ parent[c] = parent[d] => c = d

VInv == WellFormed /\ NoRepeat(frame_list) /\ (\A p \in Proc : Busy(p)) /\ Family
-----------------------------------------------------------------------------
LEMMA VmConstants ==
    /\ Top \in Va /\ Va \subseteq Nat /\ Frame \subseteq Nat /\ Slot \subseteq Nat
    /\ Offset \subseteq Nat /\ FileLength \in Nat
    /\ None \notin Value /\ None \notin Proc /\ None \notin Frame /\ None \notin Slot
    /\ None \notin Proc \X Va
    /\ First \in Proc /\ Start \in Value /\ Junk \in Value
    /\ Segment \subseteq Va /\ Top \notin Segment
  BY SizeAssumption, ValueAssumption DEF Va, Frame, Slot, Offset

LEMMA PageKinds == \A page \in PageRecord : page # NoPage
<1> SUFFICES ASSUME NEW page \in PageRecord, page = NoPage PROVE FALSE
  OBVIOUS
<1>1. "uninit" \in DOMAIN page
  BY DEF PageRecord
<1>2. DOMAIN NoPage = {"kind"}
  BY DEF NoPage
<1> QED
  BY <1>1, <1>2

LEMMA VmState ==
    ASSUME WellFormed
    PROVE  /\ pc \in [Proc -> Places] /\ at \in [Proc -> Nat] /\ then \in [Proc -> Places]
           /\ frame \in [Proc -> Frame \cup {None}] /\ left \in [Proc -> 0..FileLength]
           /\ parent \in [Proc -> Proc \cup {None}]
           /\ spt \in [Proc -> [Va -> PageRecord \cup {NoPage}]]
           /\ \A p \in Proc, va \in Va : spt[p][va] # NoPage => spt[p][va] \in PageRecord
           /\ pml4 \in [Proc -> [Va -> Frame \cup {None}]]
           /\ dirty \in [Proc -> [Va -> BOOLEAN]]
           /\ frame_list \in Seq(Frame) /\ page_of \in [Frame -> (Proc \X Va) \cup {None}]
           /\ used \subseteq Frame /\ swap_bitmap \subseteq Slot
  BY DEF WellFormed

LEMMA ListOfFrames == WellFormed => Range(frame_list) \subseteq Frame
<1> SUFFICES ASSUME WellFormed, NEW f \in Range(frame_list) PROVE f \in Frame
  OBVIOUS
<1>1. frame_list \in Seq(Frame)
  BY VmState
<1>2. PICK i \in 1..Len(frame_list) : frame_list[i] = f
  BY <1>1, InRange
<1> QED
  BY <1>1, <1>2, ElementOfSeq

LEMMA PageFields ==
    ASSUME WellFormed, NEW p \in Proc, NEW va \in Va, spt[p][va] # NoPage
    PROVE  /\ spt[p][va] \in PageRecord
           /\ spt[p][va].kind \in {"anon", "file"} /\ spt[p][va].uninit \in BOOLEAN
           /\ spt[p][va].lazy \in BOOLEAN /\ spt[p][va].ofs \in Nat
           /\ spt[p][va].read_bytes \in 0..FileLength /\ spt[p][va].loader \in Proc \cup {None}
           /\ spt[p][va].frame \in Frame \cup {None} /\ spt[p][va].slot \in Slot \cup {None}
<1>1. spt[p][va] \in PageRecord
  BY VmState
<1> QED
  BY <1>1 DEF PageRecord

\* One page is replaced.
LEMMA OnePage ==
    ASSUME WellFormed, NEW p \in Proc, NEW va \in Va, NEW page \in PageRecord \cup {NoPage},
           spt' = [spt EXCEPT ![p][va] = page]
    PROVE  /\ spt' \in [Proc -> [Va -> PageRecord \cup {NoPage}]]
           /\ spt'[p][va] = page
           /\ \A q \in Proc, vb \in Va : q # p \/ vb # va => spt'[q][vb] = spt[q][vb]
  BY VmState

LEMMA NewPageTyped ==
    ASSUME NEW kind \in {"anon", "file"}, NEW lazy \in BOOLEAN, NEW ofs \in Nat,
           NEW rest \in 0..FileLength, NEW loader \in Proc \cup {None}
    PROVE  /\ NewPage(kind, lazy, ofs, rest, loader) \in PageRecord
           /\ NewPage(kind, lazy, ofs, rest, loader) # NoPage
           /\ NewPage(kind, lazy, ofs, rest, loader).kind = kind
           /\ NewPage(kind, lazy, ofs, rest, loader).ofs = ofs
           /\ NewPage(kind, lazy, ofs, rest, loader).uninit
           /\ NewPage(kind, lazy, ofs, rest, loader).frame = None
           /\ NewPage(kind, lazy, ofs, rest, loader).slot = None
<1>1. NewPage(kind, lazy, ofs, rest, loader) \in PageRecord
  BY DEF NewPage, PageRecord
<1> QED
  BY <1>1, PageKinds DEF NewPage

LEMMA LoadedIs ==
    ASSUME NEW p \in Proc
    PROVE  /\ LoadedPages(p) \in [Va -> PageRecord \cup {NoPage}]
           /\ LoadedPages(p)[Top] # NoPage
           /\ \A va \in Va : LoadedPages(p)[va] # NoPage =>
                /\ LoadedPages(p)[va].kind = "anon" /\ LoadedPages(p)[va].uninit
                /\ LoadedPages(p)[va].frame = None /\ LoadedPages(p)[va].slot = None
<1>1. /\ NewPage("anon", TRUE, 0, 0, p) \in PageRecord /\ NewPage("anon", TRUE, 0, 0, p) # NoPage
      /\ NewPage("anon", FALSE, 0, 0, None) \in PageRecord
      /\ NewPage("anon", FALSE, 0, 0, None) # NoPage
  <2>1. 0 \in Nat /\ 0 \in 0..FileLength /\ TRUE \in BOOLEAN /\ FALSE \in BOOLEAN
        /\ "anon" \in {"anon", "file"}
    BY VmConstants
  <2>2. /\ NewPage("anon", TRUE, 0, 0, p) \in PageRecord
        /\ NewPage("anon", TRUE, 0, 0, p) # NoPage
    <3>1. NewPage("anon", TRUE, 0, 0, p) \in PageRecord
      BY <2>1 DEF NewPage, PageRecord
    <3> QED
      BY <3>1, PageKinds
  <2>3. /\ NewPage("anon", FALSE, 0, 0, None) \in PageRecord
        /\ NewPage("anon", FALSE, 0, 0, None) # NoPage
    <3>1. NewPage("anon", FALSE, 0, 0, None) \in PageRecord
      BY <2>1 DEF NewPage, PageRecord
    <3> QED
      BY <3>1, PageKinds
  <2> QED
    BY <2>2, <2>3
<1>2. \A va \in Va : LoadedPages(p)[va] \in
        {NewPage("anon", TRUE, 0, 0, p), NewPage("anon", FALSE, 0, 0, None), NoPage}
  BY DEF LoadedPages
<1>3. LoadedPages(p)[Top] = NewPage("anon", FALSE, 0, 0, None)
  BY VmConstants DEF LoadedPages
<1>4. LoadedPages(p) \in [Va -> PageRecord \cup {NoPage}]
  BY <1>1, <1>2 DEF LoadedPages
<1> QED
  BY <1>1, <1>2, <1>3, <1>4 DEF NewPage

\* Stepping from place to place.
LEMMA GotoIs ==
    ASSUME WellFormed, NEW p \in Proc, NEW place \in Places, Goto(p, place)
    PROVE  /\ pc' \in [Proc -> Places] /\ pc'[p] = place
           /\ \A q \in Proc \ {p} : pc'[q] = pc[q]
  BY VmState DEF Goto

LEMMA ClaimIs ==
    ASSUME WellFormed, NEW p \in Proc, NEW va \in Va, NEW next \in Places, Claim(p, va, next)
    PROVE  /\ pc' \in [Proc -> Places] /\ at' \in [Proc -> Nat] /\ then' \in [Proc -> Places]
           /\ pc'[p] = "claim" /\ at'[p] = va /\ then'[p] = next
           /\ \A q \in Proc \ {p} : pc'[q] = pc[q] /\ at'[q] = at[q] /\ then'[q] = then[q]
<1>1. "claim" \in Places
  BY DEF Places
<1> QED
  BY <1>1, GotoIs, VmState, VmConstants DEF Claim

LEMMA ExitingIs ==
    ASSUME WellFormed, NEW p \in Proc, Exiting(p)
    PROVE  /\ pc' \in [Proc -> Places] /\ then' \in [Proc -> Places]
           /\ pc'[p] = "kill" /\ then'[p] = "none"
           /\ \A q \in Proc \ {p} : pc'[q] = pc[q] /\ then'[q] = then[q]
<1>1. "kill" \in Places /\ "none" \in Places
  BY DEF Places
<1> QED
  BY <1>1, GotoIs, VmState DEF Exiting

\* A frame is taken off the list; or off, and linked again at its end.
LEMMA GotIs ==
    ASSUME WellFormed, NoRepeat(frame_list), NEW p \in Proc, NEW f \in Frame, Got(p, f)
    PROVE  /\ frame_list' \in Seq(Frame) /\ NoRepeat(frame_list')
           /\ Range(frame_list') = Range(frame_list) \cup {f}
           /\ page_of' \in [Frame -> (Proc \X Va) \cup {None}] /\ page_of'[f] = None
           /\ \A g \in Frame \ {f} : page_of'[g] = page_of[g]
           /\ frame' \in [Proc -> Frame \cup {None}] /\ frame'[p] = f
           /\ \A q \in Proc \ {p} : frame'[q] = frame[q]
           /\ pc' \in [Proc -> Places] /\ pc'[p] = "link"
           /\ \A q \in Proc \ {p} : pc'[q] = pc[q]
<1>1. "link" \in Places
  BY DEF Places
<1>2. PICK rest : rest = RemoveFirst(frame_list, f)
  OBVIOUS
<1>3. rest \in Seq(Frame) /\ NoRepeat(rest) /\ Range(rest) = Range(frame_list) \ {f}
  BY <1>2, RemoveFirstProps, VmState
<1>4. frame_list' = Append(rest, f)
  BY <1>2 DEF Got
<1>5. /\ frame_list' \in Seq(Frame) /\ NoRepeat(frame_list')
      /\ Range(frame_list') = Range(frame_list) \cup {f}
  BY <1>3, <1>4, AppendProps
<1>6. /\ pc' \in [Proc -> Places] /\ pc'[p] = "link"
      /\ \A q \in Proc \ {p} : pc'[q] = pc[q]
  BY <1>1, GotoIs DEF Got
<1> QED
  BY <1>5, <1>6, VmState DEF Got

LEMMA UnframeIs ==
    ASSUME WellFormed, NoRepeat(frame_list), NEW p \in Proc, NEW va \in Va, spt[p][va] # NoPage,
           Unframe(spt[p][va])
    PROVE  /\ frame_list' \in Seq(Frame) /\ NoRepeat(frame_list')
           /\ Range(frame_list') = Range(frame_list) \ {spt[p][va].frame}
           /\ page_of' \in [Frame -> (Proc \X Va) \cup {None}]
           /\ \A f \in Frame : page_of'[f] = IF f = spt[p][va].frame THEN None ELSE page_of[f]
<1>1. spt[p][va].frame \in Frame \cup {None}
  BY PageFields
<1>2. CASE spt[p][va].frame = None
  <2>1. frame_list' = frame_list /\ page_of' = page_of
    BY <1>2 DEF Unframe
  <2>2. None \notin Range(frame_list)
    BY ListOfFrames, VmConstants
  <2> QED
    BY <1>2, <2>1, <2>2, VmState, VmConstants
<1>3. CASE spt[p][va].frame # None
  <2>1. PICK f \in Frame : f = spt[p][va].frame
    BY <1>1, <1>3
  <2>2. frame_list' = RemoveFirst(frame_list, f) /\ page_of' = [page_of EXCEPT ![f] = None]
    BY <1>3, <2>1 DEF Unframe
  <2> QED
    BY <2>1, <2>2, RemoveFirstProps, VmState
<1> QED
  BY <1>2, <1>3

-----------------------------------------------------------------------------
(* The steps of a process that concern nobody else.                        *)

LEMMA AloneStep ==
    ASSUME VInv, NEW p \in Proc, pc[p] # "fork",
           \A q \in Proc \ {p} : /\ pc'[q] = pc[q] /\ at'[q] = at[q] /\ then'[q] = then[q]
                                 /\ frame'[q] = frame[q] /\ parent'[q] = parent[q],
           \A q \in Proc \ {p}, va \in Va : spt'[q][va] = NoPage <=> spt[q][va] = NoPage,
           Busy(p)',
           parent'[p] # None => parent'[p] = parent[p] /\ Copying(p)',
           pc'[p] \in {"copy", "copied"} \/ ToCopy(p)' => parent'[p] # None
    PROVE  (\A q \in Proc : Busy(q)') /\ Family'
<1>0. /\ \A q \in Proc : Busy(q)
      /\ \A c \in Proc : parent[c] # None => pc[parent[c]] = "fork" /\ Copying(c)
      /\ \A c \in Proc : pc[c] \in {"copy", "copied"} \/ ToCopy(c) => parent[c] # None
      /\ \A c, d \in Proc : parent[c] # None /\ parent[c] = parent[d] => c = d
      /\ parent \in [Proc -> Proc \cup {None}]
  BY VmState DEF VInv, Family
<1>1. ASSUME NEW q \in Proc PROVE Busy(q)'
  <2>1. CASE q = p
    BY <2>1
  <2>2. CASE q # p
    BY <1>0, <2>2 DEF Busy
  <2> QED
    BY <2>1, <2>2
<1>2. ASSUME NEW c \in Proc, parent'[c] # None
      PROVE  parent'[c] = parent[c] /\ pc'[parent'[c]] = "fork" /\ Copying(c)'
  <2>1. parent'[c] = parent[c]
    BY <1>2
  <2>2. parent[c] \in Proc \ {p}
    BY <1>0, <1>2, <2>1
  <2>3. pc'[parent'[c]] = "fork"
    BY <1>0, <1>2, <2>1, <2>2
  <2>4. CASE c # p
    <3>1. Copying(c) /\ Busy(c)
      BY <1>0, <1>2, <2>1
    <3>2. ToCopy(c)' <=> ToCopy(c)
      BY <2>4 DEF ToCopy
    <3>3. (pc[c] = "copied" \/ ToCopy(c)) /\ spt[parent[c]][at[c]] # NoPage =>
             spt'[parent'[c]][at'[c]] # NoPage
      BY <2>1, <2>2, <2>4, <3>1 DEF Busy, ToCopy
    <3>4. CASE pc[c] \in {"copy", "none"} \/ (pc[c] = "kill" /\ then[c] = "none")
      BY <2>1, <2>3, <2>4, <3>4 DEF Copying
    <3>5. CASE (pc[c] = "copied" \/ ToCopy(c)) /\ spt[parent[c]][at[c]] # NoPage
      <4>1. pc'[c] = "copied" \/ ToCopy(c)'
        BY <2>4, <3>2, <3>5
      <4> QED
        BY <2>1, <2>3, <3>3, <3>5, <4>1 DEF Copying
    <3> QED
      BY <3>1, <3>4, <3>5 DEF Copying
  <2> QED
    BY <1>2, <2>1, <2>3, <2>4
<1>3. ASSUME NEW c \in Proc, pc'[c] \in {"copy", "copied"} \/ ToCopy(c)' PROVE parent'[c] # None
  <2>1. CASE c # p
    BY <1>0, <1>3, <2>1 DEF ToCopy
  <2> QED
    BY <1>3, <2>1
<1>4. ASSUME NEW c \in Proc, NEW d \in Proc, parent'[c] # None, parent'[c] = parent'[d]
      PROVE  c = d
  BY <1>0, <1>2, <1>4
<1> QED
  BY <1>1, <1>2, <1>3, <1>4 DEF Family

\* ... and that change no page.
LEMMA SamePages ==
    ASSUME VInv, UNCHANGED spt
    PROVE  /\ spt' \in [Proc -> [Va -> PageRecord \cup {NoPage}]]
           /\ \A p \in Proc, va \in Va : spt'[p][va] = spt[p][va]
  BY VmState DEF VInv

\* One page is as it was, but for its frame, slot or state.
LEMMA SamePage ==
    ASSUME NEW p \in Proc, NEW va \in Va, spt[p][va] # NoPage, NEW page \in PageRecord,
           spt'[p][va] = page,
           \A q \in Proc, vb \in Va : q # p \/ vb # va => spt'[q][vb] = spt[q][vb]
    PROVE  \A q \in Proc, vb \in Va : spt'[q][vb] = NoPage <=> spt[q][vb] = NoPage
  BY PageKinds

\* Who is in user code, or in a call of it, copies nothing.
LEMMA NoParent ==
    ASSUME VInv, NEW p \in Proc, pc[p] \in {"user", "load", "grow", "unmap", "fork"}
    PROVE  parent[p] = None
<1>1. pc[p] \notin Claiming /\ pc[p] \notin {"copy", "copied", "none", "kill"}
  BY DEF Claiming
<1> QED
  BY <1>1 DEF VInv, Family, Copying, ToCopy

LEMMA WriteStep ==
    ASSUME VInv, NEW p \in Proc, NEW va \in Va, NEW v \in Value, Write(p, va, v)
    PROVE  VInv'
<1>1. /\ pc' = pc /\ at' = at /\ then' = then /\ frame' = frame /\ parent' = parent /\ left' = left
      /\ spt' = spt /\ frame_list' = frame_list
  BY DEF Write, localVars, frameVars
<1>2. WellFormed'
  <2>1. ram' \in [Frame -> Value] /\ dirty' \in [Proc -> [Va -> BOOLEAN]]
    BY DEF Write, VInv, WellFormed
  <2> QED
    BY <1>1, <2>1 DEF Write, VInv, WellFormed, frameVars, diskVars
<1>3. pc[p] # "fork" /\ parent[p] = None /\ Busy(p) /\ ~ToCopy(p) /\ pc[p] = "user"
  BY NoParent DEF Write, VInv, Claiming, ToCopy
<1>4. (\A q \in Proc : Busy(q)') /\ Family'
  <2>1. Busy(p)' /\ parent'[p] = None /\ ~ToCopy(p)'
    BY <1>1, <1>3 DEF Busy, ToCopy
  <2> QED
    BY <1>1, <1>3, <2>1, AloneStep
<1> QED
  BY <1>1, <1>2, <1>4, SamePages DEF VInv

\* A process in user code, or in a call of it, goes to another place.
LEMMA UserGoes ==
    ASSUME VInv, NEW p \in Proc, pc[p] \in {"user", "load", "grow", "unmap"},
           \A q \in Proc \ {p} : /\ pc'[q] = pc[q] /\ at'[q] = at[q] /\ then'[q] = then[q]
                                 /\ frame'[q] = frame[q],
           \A q \in Proc \ {p}, va \in Va : spt'[q][va] = NoPage <=> spt[q][va] = NoPage,
           UNCHANGED parent,
           \/ pc'[p] \in {"user", "grow", "unmap", "fork"}
           \/ pc'[p] = "kill" /\ then'[p] \in {"none", "load"}
           \/ /\ pc'[p] = "claim" /\ then'[p] \in {"user", "grow"}
              /\ at'[p] \in Va /\ spt'[p][at'[p]] # NoPage
    PROVE  (\A q \in Proc : Busy(q)') /\ Family'
<1>1. pc[p] # "fork" /\ parent'[p] = None
  BY NoParent
<1>2. Busy(p)'
  BY DEF Busy, Claiming
<1>3. ~(pc'[p] \in {"copy", "copied"} \/ ToCopy(p)')
  BY DEF ToCopy, Claiming
<1> QED
  BY <1>1, <1>2, <1>3, AloneStep

LEMMA FaultStep ==
    ASSUME VInv, NEW p \in Proc, NEW va \in Va, Fault(p, va)
    PROVE  VInv'
<1>0. WellFormed /\ "user" \in Places
  BY DEF VInv, Places
<1>1. /\ pc[p] = "user" /\ spt[p][va] # NoPage /\ Claim(p, va, "user")
      /\ frame' = frame /\ left' = left /\ parent' = parent /\ spt' = spt
      /\ frame_list' = frame_list
  BY DEF Fault, frameVars, tableVars
<1>2. /\ pc' \in [Proc -> Places] /\ at' \in [Proc -> Nat] /\ then' \in [Proc -> Places]
      /\ pc'[p] = "claim" /\ at'[p] = va /\ then'[p] = "user"
      /\ \A q \in Proc \ {p} : pc'[q] = pc[q] /\ at'[q] = at[q] /\ then'[q] = then[q]
  BY <1>0, <1>1, ClaimIs
<1>3. WellFormed'
  BY <1>0, <1>2 DEF Fault, WellFormed, frameVars, tableVars, diskVars
<1>4. (\A q \in Proc : Busy(q)') /\ Family'
  BY <1>1, <1>2, UserGoes
<1> QED
  BY <1>1, <1>3, <1>4, SamePages DEF VInv

LEMMA StackFaultStep ==
    ASSUME VInv, NEW p \in Proc, NEW va \in Va, StackFault(p, va)
    PROVE  VInv'
<1>0. WellFormed /\ "grow" \in Places
  BY DEF VInv, Places
<1>1. /\ pc[p] = "user" /\ at' = [at EXCEPT ![p] = va] /\ Goto(p, "grow")
      /\ then' = then /\ frame' = frame /\ left' = left /\ parent' = parent /\ spt' = spt
      /\ frame_list' = frame_list
  BY DEF StackFault, frameVars, tableVars
<1>2. /\ pc' \in [Proc -> Places] /\ pc'[p] = "grow" /\ \A q \in Proc \ {p} : pc'[q] = pc[q]
  BY <1>0, <1>1, GotoIs
<1>3. at' \in [Proc -> Nat] /\ \A q \in Proc \ {p} : at'[q] = at[q]
  BY <1>0, <1>1, VmConstants DEF WellFormed
<1>4. WellFormed'
  BY <1>0, <1>2, <1>3 DEF StackFault, WellFormed, frameVars, tableVars, diskVars
<1>5. (\A q \in Proc : Busy(q)') /\ Family'
  BY <1>1, <1>2, <1>3, UserGoes
<1> QED
  BY <1>1, <1>4, <1>5, SamePages DEF VInv

LEMMA StackGrowthStep ==
    ASSUME VInv, NEW p \in Proc, StackGrowth(p)
    PROVE  VInv'
<1>0. WellFormed /\ "grow" \in Places /\ "user" \in Places
  BY DEF VInv, Places
<1>1. /\ pc[p] = "grow"
      /\ frame' = frame /\ left' = left /\ parent' = parent /\ frame_list' = frame_list
  BY DEF StackGrowth, frameVars
<1>2. CASE at[p] \in Va /\ PageOf(p, at[p]) = NoPage
  <2>1. PICK page : page = NewPage("anon", FALSE, 0, 0, None)
    OBVIOUS
  <2>2. page \in PageRecord /\ page # NoPage /\ page.kind = "anon"
    <3>1. page \in PageRecord
      BY <2>1, VmConstants DEF NewPage, PageRecord
    <3> QED
      BY <2>1, <3>1, PageKinds DEF NewPage
  <2>3. spt' = [spt EXCEPT ![p][at[p]] = page] /\ Claim(p, at[p], "grow")
    BY <1>2, <2>1 DEF StackGrowth
  <2>4. /\ spt' \in [Proc -> [Va -> PageRecord \cup {NoPage}]] /\ spt'[p][at[p]] = page
        /\ \A q \in Proc, vb \in Va : q # p \/ vb # at[p] => spt'[q][vb] = spt[q][vb]
    BY <1>0, <1>2, <2>2, <2>3, VmState
  <2>6. /\ pc' \in [Proc -> Places] /\ at' \in [Proc -> Nat] /\ then' \in [Proc -> Places]
        /\ pc'[p] = "claim" /\ at'[p] = at[p] /\ then'[p] = "grow"
        /\ \A q \in Proc \ {p} : pc'[q] = pc[q] /\ at'[q] = at[q] /\ then'[q] = then[q]
    BY <1>0, <1>2, <2>3, ClaimIs
  <2>7. WellFormed'
    BY <1>0, <2>4, <2>6 DEF StackGrowth, WellFormed, frameVars, diskVars
  <2>8. (\A q \in Proc : Busy(q)') /\ Family'
    BY <1>1, <1>2, <2>2, <2>4, <2>6, UserGoes
  <2> QED
    BY <1>1, <2>7, <2>8 DEF VInv
<1>3. CASE ~(at[p] \in Va /\ PageOf(p, at[p]) = NoPage)
  <2>1. Goto(p, "user") /\ at' = at /\ then' = then /\ spt' = spt
    BY <1>3 DEF StackGrowth
  <2>2. /\ pc' \in [Proc -> Places] /\ pc'[p] = "user" /\ \A q \in Proc \ {p} : pc'[q] = pc[q]
    BY <1>0, <2>1, GotoIs
  <2>3. WellFormed'
    BY <1>0, <2>1, <2>2 DEF StackGrowth, WellFormed, frameVars, diskVars
  <2>4. (\A q \in Proc : Busy(q)') /\ Family'
    BY <1>1, <2>1, <2>2, UserGoes
  <2> QED
    BY <1>1, <2>1, <2>3, <2>4, SamePages DEF VInv
<1> QED
  BY <1>2, <1>3

\* A process that claims a page goes on, with the same page.
LEMMA ClaimGoes ==
    ASSUME VInv, NEW p \in Proc, pc[p] \in Claiming, UNCHANGED <<at, then, parent>>,
           pc'[p] \in Claiming, pc'[p] \in {"evict", "link"} => frame'[p] \in Frame,
           \A q \in Proc \ {p} : pc'[q] = pc[q] /\ frame'[q] = frame[q],
           \A q \in Proc, va \in Va : spt'[q][va] = NoPage <=> spt[q][va] = NoPage
    PROVE  (\A q \in Proc : Busy(q)') /\ Family'
<1>1. /\ Busy(p) /\ pc[p] # "fork" /\ at \in [Proc -> Nat]
      /\ (parent[p] # None => pc[parent[p]] = "fork" /\ Copying(p))
      /\ (ToCopy(p) => parent[p] # None)
      /\ parent \in [Proc -> Proc \cup {None}]
  BY VmState DEF VInv, Family, Claiming
<1>2. at[p] \in Va /\ spt[p][at[p]] # NoPage /\ then[p] \in {"user", "grow", "copied"}
  BY <1>1 DEF Busy
<1>3. Busy(p)'
  BY <1>2 DEF Busy, Claiming
<1>4. ToCopy(p)' <=> ToCopy(p)
  BY DEF ToCopy
<1>5. ASSUME parent'[p] # None PROVE parent'[p] = parent[p] /\ Copying(p)'
  <2>1. parent[p] \in Proc /\ parent'[p] = parent[p]
    BY <1>1, <1>5
  <2>2. ToCopy(p) /\ spt[parent[p]][at[p]] # NoPage
    BY <1>1, <1>5 DEF Copying, Claiming
  <2>3. spt'[parent'[p]][at'[p]] # NoPage
    BY <1>2, <2>1, <2>2
  <2> QED
    BY <1>4, <2>1, <2>2, <2>3 DEF Copying
<1>6. pc'[p] \in {"copy", "copied"} \/ ToCopy(p)' => parent'[p] # None
  BY <1>1, <1>4 DEF Claiming
<1> QED
  BY <1>1, <1>3, <1>5, <1>6, AloneStep

LEMMA FreeIs ==
    ASSUME NEW S \in SUBSET Nat, NEW T \in SUBSET S, S \ T # {}
    PROVE  Min(S \ T) \in S \ T
  BY LeastElement

LEMMA GetFrameStep ==
    ASSUME VInv, NEW p \in Proc, GetFrame(p)
    PROVE  VInv'
<1>0. WellFormed /\ NoRepeat(frame_list) /\ "evict" \in Places
  BY DEF VInv, Places
<1>1. /\ pc[p] = "claim" /\ at' = at /\ then' = then /\ left' = left /\ parent' = parent
      /\ spt' = spt
  BY DEF GetFrame, tableVars
<1>2. CASE Frame \ used # {}
  <2>1. PICK f : f = Min(Frame \ used)
    OBVIOUS
  <2>2. f \in Frame
    BY <1>0, <1>2, <2>1, FreeIs, VmConstants, VmState
  <2>3. Got(p, f) /\ used' = used \cup {f} /\ panic' = panic
    BY <1>2, <2>1 DEF GetFrame
  <2>4. /\ frame_list' \in Seq(Frame) /\ NoRepeat(frame_list')
        /\ page_of' \in [Frame -> (Proc \X Va) \cup {None}]
        /\ frame' \in [Proc -> Frame \cup {None}] /\ frame'[p] = f
        /\ \A q \in Proc \ {p} : frame'[q] = frame[q]
        /\ pc' \in [Proc -> Places] /\ pc'[p] = "link"
        /\ \A q \in Proc \ {p} : pc'[q] = pc[q]
    BY <1>0, <2>2, <2>3, GotIs
  <2>5. WellFormed'
    BY <1>0, <2>2, <2>3, <2>4 DEF GetFrame, WellFormed, tableVars, diskVars
  <2>6. (\A q \in Proc : Busy(q)') /\ Family'
    BY <1>1, <2>2, <2>4, ClaimGoes DEF Claiming
  <2> QED
    BY <1>1, <2>4, <2>5, <2>6, SamePages DEF VInv
<1>3. CASE Frame \ used = {} /\ frame_list # <<>>
  <2>1. PICK f : f = Head(frame_list)
    OBVIOUS
  <2>2. f \in Frame
    BY <1>0, <1>3, <2>1, VmState
  <2>3. /\ frame' = [frame EXCEPT ![p] = f] /\ Goto(p, "evict")
        /\ UNCHANGED <<used, page_of, frame_list, panic>>
    BY <1>3, <2>1 DEF GetFrame
  <2>4. /\ pc' \in [Proc -> Places] /\ pc'[p] = "evict"
        /\ \A q \in Proc \ {p} : pc'[q] = pc[q]
    BY <1>0, <2>3, GotoIs
  <2>5. /\ frame' \in [Proc -> Frame \cup {None}] /\ frame'[p] = f
        /\ \A q \in Proc \ {p} : frame'[q] = frame[q]
    BY <1>0, <2>2, <2>3 DEF WellFormed
  <2>6. WellFormed'
    BY <1>0, <2>3, <2>4, <2>5 DEF GetFrame, WellFormed, tableVars, diskVars
  <2>7. (\A q \in Proc : Busy(q)') /\ Family'
    BY <1>1, <2>2, <2>4, <2>5, ClaimGoes DEF Claiming
  <2> QED
    BY <1>0, <1>1, <2>3, <2>6, <2>7, SamePages DEF VInv
<1>4. CASE Frame \ used = {} /\ frame_list = <<>>
  <2>1. /\ UNCHANGED <<pc, frame, used, page_of, frame_list>> /\ panic' = TRUE
    BY <1>4 DEF GetFrame, Panic
  <2>2. WellFormed'
    BY <1>0, <2>1 DEF GetFrame, WellFormed, tableVars, diskVars
  <2>3. (\A q \in Proc : Busy(q)') /\ Family'
    BY <1>1, <2>1, ClaimGoes DEF Claiming
  <2> QED
    BY <1>0, <1>1, <2>1, <2>2, <2>3, SamePages DEF VInv
<1> QED
  BY <1>2, <1>3, <1>4

\* What eviction does: the page of the victim gets a slot, if it is a page of the process's
\* own, and has no frame any more.
LEMMA SlotFound ==
    ASSUME WellFormed, swap_bitmap # Slot
    PROVE  FreeSlot \in Slot /\ FreeSlot \notin swap_bitmap /\ FreeSlot # None
<1>1. Slot \in SUBSET Nat /\ swap_bitmap \in SUBSET Slot /\ Slot \ swap_bitmap # {}
  BY VmState, VmConstants
<1>2. Min(Slot \ swap_bitmap) \in Slot \ swap_bitmap
  BY <1>1, FreeIs
<1> QED
  BY <1>2, VmConstants DEF FreeSlot

Evicts(p, q, va, page) ==
    /\ page_of[frame[p]] = <<q, va>>
    /\ spt[q][va] # NoPage /\ ~spt[q][va].uninit
    /\ spt' = [spt EXCEPT ![q][va] = page]
    /\ page.frame = None /\ page.kind = spt[q][va].kind /\ page.ofs = spt[q][va].ofs
    /\ page.uninit = FALSE
    /\ pml4' = [pml4 EXCEPT ![p][va] = None]
    /\ Got(p, frame[p])
    /\ swap_bitmap' \subseteq Slot
    /\ swap' \in [Slot -> Value] /\ contents' \in [Offset -> Value]
    /\ dirty' \in [Proc -> [Va -> BOOLEAN]]
    /\ \/ /\ page.kind = "anon" /\ page.slot \in Slot \ swap_bitmap
          /\ swap_bitmap' = swap_bitmap \cup {page.slot}
       \/ /\ page.kind = "file" /\ page.slot = spt[q][va].slot
          /\ swap_bitmap' = swap_bitmap

LEMMA EvictIs ==
    ASSUME WellFormed, NEW p \in Proc, frame[p] \in Frame, EvictFrame(p), ~CannotEvict(p)
    PROVE  \E q \in Proc, va \in Va, page \in PageRecord : Evicts(p, q, va, page)
<1>1. page_of[frame[p]] \in Proc \X Va
  BY VmState DEF CannotEvict, Victim
<1>2. PICK q \in Proc, va \in Va : page_of[frame[p]] = <<q, va>>
  BY <1>1
<1>3. Victim(p)[1] = q /\ Victim(p)[2] = va
  BY <1>2 DEF Victim
<1>4. PICK old : old = spt[q][va]
  OBVIOUS
<1>5. old # NoPage /\ ~old.uninit /\ (old.kind = "anon" => swap_bitmap # Slot)
  BY <1>3, <1>4 DEF CannotEvict
<1>6. old \in PageRecord
  BY <1>4, <1>5, VmState
<1>7. SwapOut(p) /\ Got(p, frame[p])
  BY DEF EvictFrame
<1>8. CASE old.kind = "anon"
  <2>1. AnonSwapOut(p, q, va)
    BY <1>3, <1>4, <1>7, <1>8 DEF SwapOut
  <2>2. PICK s : s = FreeSlot
    OBVIOUS
  <2>3. s \in Slot \ swap_bitmap
    BY <1>5, <1>8, <2>2, SlotFound
  <2>4. PICK page : page = [old EXCEPT !.slot = s, !.frame = None]
    OBVIOUS
  <2>5. /\ page \in PageRecord /\ page.frame = None /\ page.slot = s /\ page.kind = old.kind
        /\ page.ofs = old.ofs /\ page.uninit = FALSE
    BY <1>5, <1>6, <2>3, <2>4 DEF PageRecord
  <2>6. spt' = [spt EXCEPT ![q][va].slot = s, ![q][va].frame = None]
    BY <2>1, <2>2 DEF AnonSwapOut
  <2>7. spt' = [spt EXCEPT ![q][va] = page]
    BY <1>4, <2>4, <2>6, VmState
  <2>8. /\ swap_bitmap' = swap_bitmap \cup {s} /\ swap' = [swap EXCEPT ![s] = ram[frame[p]]]
        /\ pml4' = [pml4 EXCEPT ![p][va] = None] /\ UNCHANGED <<contents, dirty>>
    BY <2>1, <2>2 DEF AnonSwapOut, Flipped, ClearPage
  <2>9. /\ swap' \in [Slot -> Value] /\ contents' \in [Offset -> Value]
        /\ dirty' \in [Proc -> [Va -> BOOLEAN]] /\ swap_bitmap' \subseteq Slot
    BY <2>3, <2>8 DEF WellFormed
  <2> QED
    BY <1>2, <1>4, <1>5, <1>7, <1>8, <2>3, <2>5, <2>7, <2>8, <2>9 DEF Evicts
<1>9. CASE old.kind # "anon"
  <2>1. FileSwapOut(p, q, va)
    BY <1>3, <1>4, <1>7, <1>9 DEF SwapOut
  <2>2. PICK page : page = [old EXCEPT !.frame = None]
    OBVIOUS
  <2>3. /\ page \in PageRecord /\ page.frame = None /\ page.slot = old.slot /\ page.kind = old.kind
        /\ page.ofs = old.ofs /\ page.uninit = FALSE
    BY <1>5, <1>6, <2>2 DEF PageRecord
  <2>4. spt' = [spt EXCEPT ![q][va].frame = None]
    BY <2>1 DEF FileSwapOut
  <2>5. spt' = [spt EXCEPT ![q][va] = page]
    BY <1>4, <2>2, <2>4, VmState
  <2>6. /\ UNCHANGED <<swap_bitmap, swap>> /\ pml4' = [pml4 EXCEPT ![p][va] = None]
        /\ dirty' = [dirty EXCEPT ![p][va] = FALSE]
        /\ \/ contents' = contents
           \/ contents' = [contents EXCEPT ![old.ofs] = ram[frame[p]]]
    BY <1>4, <2>1 DEF FileSwapOut, ClearPage, Written
  <2>7. old.kind = "file"
    BY <1>6, <1>9 DEF PageRecord
  <2>8. /\ swap' \in [Slot -> Value] /\ contents' \in [Offset -> Value]
        /\ dirty' \in [Proc -> [Va -> BOOLEAN]] /\ swap_bitmap' \subseteq Slot
    BY <2>6 DEF WellFormed
  <2> QED
    <3>1. /\ page.kind = "file" /\ page.slot = spt[q][va].slot /\ swap_bitmap' = swap_bitmap
          /\ page.kind = spt[q][va].kind /\ page.ofs = spt[q][va].ofs
      BY <1>4, <2>3, <2>6, <2>7
    <3>2. spt[q][va] # NoPage /\ ~spt[q][va].uninit
      BY <1>4, <1>5
    <3>3. Evicts(p, q, va, page)
      BY <1>2, <1>7, <2>3, <2>5, <2>6, <2>8, <3>1, <3>2 DEF Evicts
    <3> QED
      BY <2>3, <3>3
<1> QED
  BY <1>8, <1>9

LEMMA EvictFrameStep ==
    ASSUME VInv, NEW p \in Proc, EvictFrame(p)
    PROVE  VInv'
<1>0. WellFormed /\ NoRepeat(frame_list) /\ Busy(p)
  BY DEF VInv
<1>1. /\ pc[p] = "evict" /\ at' = at /\ then' = then /\ left' = left /\ parent' = parent
      /\ ram' = ram /\ closed' = closed /\ frame[p] \in Frame
  BY <1>0 DEF EvictFrame, Busy
<1>2. CASE CannotEvict(p)
  <2>1. /\ UNCHANGED <<pc, frame, spt, frame_list>> /\ panic' = TRUE
    BY <1>2 DEF EvictFrame, Panic, tableVars, frameVars
  <2>2. WellFormed'
    BY <1>0, <1>1, <1>2, <2>1 DEF EvictFrame, WellFormed, tableVars, frameVars, diskVars
  <2>3. (\A q \in Proc : Busy(q)') /\ Family'
    BY <1>1, <2>1, ClaimGoes DEF Claiming
  <2> QED
    BY <1>0, <1>1, <2>1, <2>2, <2>3, SamePages DEF VInv
<1>3. CASE ~CannotEvict(p)
  <2>0. PICK q \in Proc, va \in Va, page \in PageRecord : Evicts(p, q, va, page)
    BY <1>0, <1>1, <1>3, EvictIs
  <2>1. /\ spt[q][va] # NoPage
        /\ spt' = [spt EXCEPT ![q][va] = page]
        /\ page.kind = spt[q][va].kind /\ page.ofs = spt[q][va].ofs
        /\ pml4' = [pml4 EXCEPT ![p][va] = None]
        /\ Got(p, frame[p])
        /\ swap_bitmap' \subseteq Slot
        /\ swap' \in [Slot -> Value] /\ contents' \in [Offset -> Value]
        /\ dirty' \in [Proc -> [Va -> BOOLEAN]]
    BY <2>0 DEF Evicts
  <2>2. /\ frame_list' \in Seq(Frame) /\ NoRepeat(frame_list')
        /\ page_of' \in [Frame -> (Proc \X Va) \cup {None}]
        /\ frame' \in [Proc -> Frame \cup {None}] /\ frame'[p] = frame[p]
        /\ \A r \in Proc \ {p} : frame'[r] = frame[r]
        /\ pc' \in [Proc -> Places] /\ pc'[p] = "link"
        /\ \A r \in Proc \ {p} : pc'[r] = pc[r]
    BY <1>0, <1>1, <2>1, GotIs
  <2>3. /\ spt' \in [Proc -> [Va -> PageRecord \cup {NoPage}]]
        /\ \A r \in Proc, vb \in Va : spt'[r][vb] = NoPage <=> spt[r][vb] = NoPage
    <3>1. /\ spt' \in [Proc -> [Va -> PageRecord \cup {NoPage}]] /\ spt'[q][va] = page
          /\ \A r \in Proc, vb \in Va : r # q \/ vb # va => spt'[r][vb] = spt[r][vb]
      BY <1>0, <2>1, VmState
    <3> QED
      BY <2>1, <3>1, SamePage
  <2>4. used' = used /\ panic' = panic
    BY <1>3 DEF EvictFrame
  <2>5. pml4' \in [Proc -> [Va -> Frame \cup {None}]]
    BY <1>0, <2>1, VmState
  <2>6. WellFormed'
    BY <1>0, <1>1, <2>1, <2>2, <2>3, <2>4, <2>5 DEF WellFormed
  <2>7. (\A r \in Proc : Busy(r)') /\ Family'
    BY <1>1, <2>2, <2>3, ClaimGoes DEF Claiming
  <2> QED
    BY <2>2, <2>3, <2>6, <2>7 DEF VInv
<1> QED
  BY <1>2, <1>3

\* The page of a process that claims one.
LEMMA ClaimedPage ==
    ASSUME VInv, NEW p \in Proc, pc[p] \in Claiming \cup {"copied"}
    PROVE  at[p] \in Va /\ spt[p][at[p]] # NoPage /\ spt[p][at[p]] \in PageRecord
  BY PageFields DEF VInv, Busy

LEMMA LinkIs ==
    ASSUME VInv, NEW p \in Proc, Link(p)
    PROVE  /\ pc[p] = "link" /\ at[p] \in Va /\ frame[p] \in Frame
           /\ page_of' = [page_of EXCEPT ![frame[p]] = <<p, at[p]>>]
           /\ pml4' = [pml4 EXCEPT ![p][at[p]] = frame[p]]
           /\ UNCHANGED <<at, then, left, parent, frame_list, used>>
           /\ frame' \in [Proc -> Frame \cup {None}]
           /\ \A q \in Proc \ {p} : frame'[q] = frame[q]
           /\ pc' \in [Proc -> Places] /\ pc'[p] = "fill"
           /\ \A q \in Proc \ {p} : pc'[q] = pc[q]
           /\ \E page \in PageRecord :
                /\ spt' = [spt EXCEPT ![p][at[p]] = page]
                /\ page = [spt[p][at[p]] EXCEPT !.frame = frame[p]]
                /\ page.frame = frame[p] /\ page.kind = spt[p][at[p]].kind
                /\ page.ofs = spt[p][at[p]].ofs /\ page.slot = spt[p][at[p]].slot
                /\ page.uninit = spt[p][at[p]].uninit
<1>1. WellFormed /\ Busy(p) /\ pc[p] = "link" /\ Goto(p, "fill") /\ "fill" \in Places
  BY DEF VInv, Link, Places
<1>2. frame[p] \in Frame
  BY <1>1 DEF Busy
<1>3. at[p] \in Va /\ spt[p][at[p]] \in PageRecord
  BY <1>1, ClaimedPage DEF Claiming
<1>4. PICK old, page : old = spt[p][at[p]] /\ page = [old EXCEPT !.frame = frame[p]]
  OBVIOUS
<1>5. /\ page \in PageRecord /\ page.frame = frame[p] /\ page.kind = old.kind /\ page.ofs = old.ofs
      /\ page.slot = old.slot /\ page.uninit = old.uninit
  BY <1>2, <1>3, <1>4 DEF PageRecord
<1>6. spt' = [spt EXCEPT ![p][at[p]].frame = frame[p]]
  BY DEF Link
<1>7. spt' = [spt EXCEPT ![p][at[p]] = page]
  BY <1>1, <1>4, <1>6, VmState
<1>8. /\ pc' \in [Proc -> Places] /\ pc'[p] = "fill" /\ \A q \in Proc \ {p} : pc'[q] = pc[q]
  BY <1>1, GotoIs
<1>9. frame' \in [Proc -> Frame \cup {None}] /\ \A q \in Proc \ {p} : frame'[q] = frame[q]
  BY <1>1, VmState DEF Link
<1>10. /\ page_of' = [page_of EXCEPT ![frame[p]] = <<p, at[p]>>]
       /\ pml4' = [pml4 EXCEPT ![p][at[p]] = frame[p]]
       /\ UNCHANGED <<at, then, left, parent, frame_list, used>>
  BY DEF Link, SetPage
<1>11. \E x \in PageRecord :
         /\ spt' = [spt EXCEPT ![p][at[p]] = x]
         /\ x = [spt[p][at[p]] EXCEPT !.frame = frame[p]]
         /\ x.frame = frame[p] /\ x.kind = spt[p][at[p]].kind
         /\ x.ofs = spt[p][at[p]].ofs /\ x.slot = spt[p][at[p]].slot
         /\ x.uninit = spt[p][at[p]].uninit
  BY <1>4, <1>5, <1>7
<1> QED
  BY <1>1, <1>2, <1>3, <1>8, <1>9, <1>10, <1>11

LEMMA LinkStep ==
    ASSUME VInv, NEW p \in Proc, Link(p)
    PROVE  VInv'
<1>0. WellFormed /\ NoRepeat(frame_list)
  BY DEF VInv
<1>1. /\ pc[p] = "link" /\ at[p] \in Va /\ frame[p] \in Frame
      /\ page_of' = [page_of EXCEPT ![frame[p]] = <<p, at[p]>>]
      /\ pml4' = [pml4 EXCEPT ![p][at[p]] = frame[p]]
      /\ UNCHANGED <<at, then, left, parent, frame_list, used>>
      /\ frame' \in [Proc -> Frame \cup {None}]
      /\ \A q \in Proc \ {p} : frame'[q] = frame[q]
      /\ pc' \in [Proc -> Places] /\ pc'[p] = "fill"
      /\ \A q \in Proc \ {p} : pc'[q] = pc[q]
  BY LinkIs
<1>2. PICK page \in PageRecord :
        /\ spt' = [spt EXCEPT ![p][at[p]] = page]
        /\ page.kind = spt[p][at[p]].kind /\ page.ofs = spt[p][at[p]].ofs
  BY LinkIs
<1>3. spt[p][at[p]] # NoPage
  BY <1>1, ClaimedPage DEF Claiming
<1>4. /\ spt' \in [Proc -> [Va -> PageRecord \cup {NoPage}]]
      /\ \A r \in Proc, vb \in Va : spt'[r][vb] = NoPage <=> spt[r][vb] = NoPage
  <2>1. /\ spt' \in [Proc -> [Va -> PageRecord \cup {NoPage}]] /\ spt'[p][at[p]] = page
        /\ \A r \in Proc, vb \in Va : r # p \/ vb # at[p] => spt'[r][vb] = spt[r][vb]
    BY <1>0, <1>1, <1>2, VmState
  <2> QED
    BY <1>1, <1>2, <1>3, <2>1, SamePage
<1>5. /\ page_of' \in [Frame -> (Proc \X Va) \cup {None}]
      /\ pml4' \in [Proc -> [Va -> Frame \cup {None}]]
  BY <1>0, <1>1, VmState
<1>6. dirty' \in [Proc -> [Va -> BOOLEAN]]
  BY <1>0, VmState DEF Link, SetPage
<1>7. WellFormed'
  BY <1>0, <1>1, <1>4, <1>5, <1>6 DEF Link, WellFormed, diskVars
<1>8. (\A q \in Proc : Busy(q)') /\ Family'
  BY <1>1, <1>4, ClaimGoes DEF Claiming
<1> QED
  BY <1>0, <1>1, <1>4, <1>7, <1>8 DEF VInv

\* A page is filled, or its load fails.
Fills(p, page) ==
    /\ ~CannotFill(spt[p][at[p]])
    /\ spt' = [spt EXCEPT ![p][at[p]] = page]
    /\ page.kind = spt[p][at[p]].kind /\ page.ofs = spt[p][at[p]].ofs
    /\ page.frame = spt[p][at[p]].frame /\ page.frame \in Frame
    /\ page.slot = None /\ page.uninit = FALSE
    /\ swap_bitmap \ {spt[p][at[p]].slot} \subseteq swap_bitmap' /\ swap_bitmap' \subseteq swap_bitmap
    /\ ram' \in [Frame -> Value] /\ panic' \in BOOLEAN /\ used' \subseteq used

\* Where the process goes: back; on to exit; nowhere, in a panic; or, in fork, to
\* the next page.
Goes(p) ==
    \/ Goto(p, then[p]) /\ UNCHANGED then
    \/ Exiting(p)
    \/ UNCHANGED <<pc, then>>
    \/ then[p] = "copied" /\ Goto(p, "copy") /\ UNCHANGED then

LEMMA InitializedIs ==
    ASSUME WellFormed, NEW p \in Proc, at[p] \in Va, spt[p][at[p]] \in PageRecord, Initialized(p)
    PROVE  \E page \in PageRecord :
             /\ spt' = [spt EXCEPT ![p][at[p]] = page]
             /\ page.kind = spt[p][at[p]].kind /\ page.ofs = spt[p][at[p]].ofs
             /\ page.frame = spt[p][at[p]].frame /\ page.slot = None /\ page.uninit = FALSE
             /\ page.lazy = spt[p][at[p]].lazy
<1>1. PICK old : old = spt[p][at[p]]
  OBVIOUS
<1>2. PICK page : page = [old EXCEPT !.uninit = FALSE, !.slot = None]
  OBVIOUS
<1>3. /\ page \in PageRecord /\ page.kind = old.kind /\ page.ofs = old.ofs
      /\ page.frame = old.frame /\ page.slot = None /\ page.uninit = FALSE
      /\ page.lazy = old.lazy
  BY <1>1, <1>2 DEF PageRecord
<1>4. spt' = [spt EXCEPT ![p][at[p]] = page]
  <2>1. spt \in [Proc -> [Va -> PageRecord \cup {NoPage}]]
    BY VmState
  <2> QED
    BY <1>1, <1>2, <2>1 DEF Initialized
<1> QED
  BY <1>1, <1>3, <1>4

LEMMA SourceIs ==
    ASSUME WellFormed, NEW p \in Proc, NEW va \in Va, spt[p][va] \in PageRecord,
           ~CannotFill(spt[p][va]), spt[p][va].kind = "file" => spt[p][va].ofs \in Offset
    PROVE  Source(p, va) \in Value
<1>1. PICK old : old = spt[p][va]
  OBVIOUS
<1>2. old.kind \in {"anon", "file"} /\ old.slot \in Slot \cup {None} /\ old.frame \in Frame
  BY <1>1 DEF CannotFill, PageRecord
<1>3. /\ ram \in [Frame -> Value] /\ swap \in [Slot -> Value] /\ contents \in [Offset -> Value]
      /\ Start \in Value
  BY VmConstants DEF WellFormed
<1>4. CASE FromFile(old)
  BY <1>1, <1>3, <1>4 DEF Source
<1>5. CASE ~FromFile(old) /\ old.uninit
  BY <1>1, <1>2, <1>3, <1>5 DEF Source
<1>6. CASE ~FromFile(old) /\ ~old.uninit
  <2>1. old.slot \in Slot
    BY <1>1, <1>2, <1>6 DEF CannotFill, FromFile
  <2> QED
    BY <1>1, <1>3, <1>6, <2>1 DEF Source
<1> QED
  BY <1>4, <1>5, <1>6

LEMMA FillIs ==
    ASSUME VInv, NEW p \in Proc, Fill(p)
    PROVE  \/ /\ \E page \in PageRecord : Fills(p, page)
              /\ Goes(p)
           \/ panic' = TRUE /\ UNCHANGED <<pc, then, spt, used, ram, swap_bitmap>>
<1>1. WellFormed /\ pc[p] = "fill"
  BY DEF VInv, Fill
<1>2. PICK old : old = spt[p][at[p]]
  OBVIOUS
<1>3. at[p] \in Va /\ old # NoPage /\ old \in PageRecord
  BY <1>1, <1>2, ClaimedPage DEF Claiming
<1>4. CASE CannotFill(old)
  BY <1>2, <1>4 DEF Fill, Panic
<1>5. CASE ~CannotFill(old)
  <2>1. old.frame \in Frame /\ old.uninit \in BOOLEAN
    BY <1>3, <1>5 DEF CannotFill, PageRecord
  <2>2. ram \in [Frame -> Value] /\ Junk \in Value /\ panic \in BOOLEAN
    BY <1>1, VmConstants DEF WellFormed
  <2>3. /\ Initialized(p) /\ Goes(p)
        /\ swap_bitmap \ {old.slot} \subseteq swap_bitmap' /\ swap_bitmap' \subseteq swap_bitmap
        /\ ram' \in [Frame -> Value] /\ panic' \in BOOLEAN /\ used' \subseteq used
    <3>1. CASE Filled(p, old)
      <4>1. Source(p, at[p]) \in Value
        BY <1>1, <1>2, <1>3, <1>5, <3>1, SourceIs DEF Filled
      <4> QED
        BY <2>1, <2>2, <3>1, <4>1 DEF Filled, Goes
    <3>2. CASE ComesShort(p, old)
      <4>1. Goes(p)
        BY <2>1, <3>2 DEF ComesShort, Goes
      <4> QED
        BY <2>1, <2>2, <3>2, <4>1 DEF ComesShort
    <3>3. CASE ReadsClosed(p, old)
      <4>1. Goes(p)
        BY <3>3 DEF ReadsClosed, Goes
      <4> QED
        BY <2>1, <2>2, <3>3, <4>1 DEF ReadsClosed, Panic
    <3> QED
      BY <1>2, <1>5, <3>1, <3>2, <3>3 DEF Fill
  <2>4. PICK page \in PageRecord :
          /\ spt' = [spt EXCEPT ![p][at[p]] = page]
          /\ page.kind = old.kind /\ page.ofs = old.ofs
          /\ page.frame = old.frame /\ page.slot = None /\ page.uninit = FALSE
    BY <1>1, <1>2, <1>3, <2>3, InitializedIs
  <2>5. Fills(p, page)
    BY <1>2, <1>5, <2>1, <2>3, <2>4 DEF Fills
  <2> QED
    BY <2>3, <2>5
<1> QED
  BY <1>4, <1>5

LEMMA FillStep ==
    ASSUME VInv, NEW p \in Proc, Fill(p)
    PROVE  VInv'
<1>0. /\ WellFormed /\ NoRepeat(frame_list) /\ Busy(p) /\ Family /\ pc[p] = "fill"
      /\ UNCHANGED <<at, frame, left, parent, pml4, dirty, frame_list, page_of, swap,
                     contents, closed>>
  BY DEF VInv, Fill
<1>1. /\ at[p] \in Va /\ spt[p][at[p]] # NoPage /\ spt[p][at[p]] \in PageRecord
      /\ then[p] \in {"user", "grow", "copied"} /\ then[p] \in Places
      /\ {"copy", "kill", "none"} \subseteq Places
  BY <1>0, ClaimedPage DEF Claiming, Busy, Places
<1>2. /\ parent[p] # None => parent[p] \in Proc /\ pc[parent[p]] = "fork" /\ Copying(p)
      /\ ToCopy(p) => parent[p] # None
  BY <1>0, VmState DEF Family
<1>3. CASE (\E page \in PageRecord : Fills(p, page)) /\ Goes(p)
  <2>1. PICK page \in PageRecord : Fills(p, page)
    BY <1>3
  <2>2. /\ spt' = [spt EXCEPT ![p][at[p]] = page]
        /\ swap_bitmap' \subseteq swap_bitmap /\ used' \subseteq used
        /\ ram' \in [Frame -> Value] /\ panic' \in BOOLEAN
    BY <2>1 DEF Fills
  <2>3. /\ spt' \in [Proc -> [Va -> PageRecord \cup {NoPage}]]
        /\ \A r \in Proc, vb \in Va : spt'[r][vb] = NoPage <=> spt[r][vb] = NoPage
    <3>1. /\ spt' \in [Proc -> [Va -> PageRecord \cup {NoPage}]] /\ spt'[p][at[p]] = page
          /\ \A r \in Proc, vb \in Va : r # p \/ vb # at[p] => spt'[r][vb] = spt[r][vb]
      BY <1>0, <1>1, <2>2, VmState
    <3> QED
      BY <1>1, <2>2, <3>1, SamePage
  <2>4. /\ pc' \in [Proc -> Places] /\ then' \in [Proc -> Places]
        /\ \A q \in Proc \ {p} : pc'[q] = pc[q] /\ then'[q] = then[q]
        /\ \/ then'[p] = then[p] /\ pc'[p] \in {"fill", then[p]}
           \/ then'[p] = then[p] /\ then[p] = "copied" /\ pc'[p] = "copy"
           \/ pc'[p] = "kill" /\ then'[p] = "none"
    <3>1. then \in [Proc -> Places] /\ pc \in [Proc -> Places]
      BY <1>0, VmState
    <3>2. CASE Exiting(p)
      BY <1>0, <3>2, ExitingIs
    <3>3. CASE Goto(p, then[p]) /\ UNCHANGED then
      BY <1>0, <1>1, <3>1, <3>3, GotoIs
    <3>4. CASE then[p] = "copied" /\ Goto(p, "copy") /\ UNCHANGED then
      BY <1>0, <1>1, <3>1, <3>4, GotoIs
    <3> QED
      BY <1>0, <1>3, <3>1, <3>2, <3>3, <3>4 DEF Goes
  <2>5. WellFormed'
    BY <1>0, <2>2, <2>3, <2>4 DEF WellFormed
  <2>6. Busy(p)'
    BY <1>0, <1>1, <2>3, <2>4 DEF Busy, Claiming
  <2>7. ASSUME parent'[p] # None PROVE parent'[p] = parent[p] /\ Copying(p)'
    <3>1. parent'[p] = parent[p] /\ parent[p] \in Proc /\ Copying(p)
      BY <1>0, <1>2, <2>7
    <3>2. ToCopy(p) /\ then[p] = "copied" /\ spt[parent[p]][at[p]] # NoPage
      BY <1>0, <3>1 DEF Copying, ToCopy
    <3>3. spt'[parent'[p]][at'[p]] # NoPage
      BY <1>0, <1>1, <2>3, <3>1, <3>2
    <3>4. CASE pc'[p] = "kill" /\ then'[p] = "none"
      BY <3>1, <3>4 DEF Copying
    <3>5. CASE pc'[p] = "copy"
      BY <3>1, <3>5 DEF Copying
    <3>6. CASE then'[p] = then[p] /\ pc'[p] \in {"fill", "copied"}
      BY <3>1, <3>2, <3>3, <3>6 DEF Copying, ToCopy, Claiming
    <3> QED
      BY <2>4, <3>1, <3>2, <3>4, <3>5, <3>6
  <2>8. pc'[p] \in {"copy", "copied"} \/ ToCopy(p)' => parent'[p] # None
    BY <1>0, <1>1, <1>2, <2>4 DEF ToCopy, Claiming
  <2>9. (\A q \in Proc : Busy(q)') /\ Family'
    BY <1>0, <2>3, <2>4, <2>6, <2>7, <2>8, AloneStep
  <2> QED
    BY <1>0, <2>5, <2>9 DEF VInv
<1>4. CASE panic' = TRUE /\ UNCHANGED <<pc, then, spt, used, ram, swap_bitmap>>
  <2>1. WellFormed'
    BY <1>0, <1>4 DEF WellFormed
  <2>2. (\A q \in Proc : Busy(q)') /\ Family'
    BY <1>0, <1>4, ClaimGoes DEF Claiming
  <2> QED
    BY <1>0, <1>4, <2>1, <2>2, SamePages DEF VInv
<1> QED
  BY <1>3, <1>4, FillIs

\* A page is gone.
Gone(p, va) ==
    /\ spt' = [spt EXCEPT ![p][va] = NoPage]
    /\ frame_list' \in Seq(Frame) /\ NoRepeat(frame_list')
    /\ Range(frame_list') = Range(frame_list) \ {spt[p][va].frame}
    /\ page_of' \in [Frame -> (Proc \X Va) \cup {None}]
    /\ \A f \in Frame : page_of'[f] = IF f = spt[p][va].frame THEN None ELSE page_of[f]
    /\ contents' \in [Offset -> Value] /\ panic' \in BOOLEAN
    /\ IF spt[p][va].kind = "file" /\ ~spt[p][va].uninit
       THEN pml4' = [pml4 EXCEPT ![p][va] = None]
       ELSE pml4' = pml4

LEMMA DeallocIs ==
    ASSUME VInv, NEW p \in Proc, NEW va \in Va, spt[p][va] # NoPage, Dealloc(p, va)
    PROVE  /\ Gone(p, va)
           /\ spt' \in [Proc -> [Va -> PageRecord \cup {NoPage}]]
           /\ spt'[p][va] = NoPage
           /\ \A q \in Proc, vb \in Va : q # p \/ vb # va => spt'[q][vb] = spt[q][vb]
           /\ pml4' \in [Proc -> [Va -> Frame \cup {None}]]
<1>0. WellFormed /\ NoRepeat(frame_list) /\ Unframe(spt[p][va])
  BY DEF VInv, Dealloc
<1>1. PICK old : old = spt[p][va]
  OBVIOUS
<1>2. spt' = [spt EXCEPT ![p][va] = NoPage]
  BY DEF Dealloc
<1>3. /\ spt' \in [Proc -> [Va -> PageRecord \cup {NoPage}]]
      /\ spt'[p][va] = NoPage
      /\ \A q \in Proc, vb \in Va : q # p \/ vb # va => spt'[q][vb] = spt[q][vb]
  BY <1>0, <1>2, VmState
<1>5. /\ frame_list' \in Seq(Frame) /\ NoRepeat(frame_list')
      /\ Range(frame_list') = Range(frame_list) \ {spt[p][va].frame}
      /\ page_of' \in [Frame -> (Proc \X Va) \cup {None}]
      /\ \A f \in Frame : page_of'[f] = IF f = spt[p][va].frame THEN None ELSE page_of[f]
  BY <1>0, UnframeIs
<1>6. old \in PageRecord
  BY <1>0, <1>1, VmState
<1>7. CASE old.kind = "file" /\ ~old.uninit
  <2>1. /\ pml4' = [pml4 EXCEPT ![p][va] = None]
        /\ contents' = Written(old, old.frame, dirty[p][va] /\ old.frame # None)
        /\ panic' = (dirty[p][va] /\ old.frame = None)
    BY <1>1, <1>7 DEF Dealloc, ClearPage
  <2>2. panic' \in BOOLEAN
    BY <2>1
  <2>3. contents' \in [Offset -> Value]
    <3>1. CASE dirty[p][va] /\ old.frame # None
      <4>1. contents' = [contents EXCEPT ![old.ofs] = ram[old.frame]]
        BY <2>1, <3>1 DEF Written
      <4>2. old.frame \in Frame
        BY <1>6, <3>1 DEF PageRecord
      <4> QED
        BY <1>0, <4>1, <4>2 DEF WellFormed
    <3>2. CASE ~(dirty[p][va] /\ old.frame # None)
      BY <1>0, <2>1, <3>2 DEF Written, WellFormed
    <3> QED
      BY <3>1, <3>2
  <2>4. pml4' \in [Proc -> [Va -> Frame \cup {None}]]
    BY <1>0, <2>1, VmState
  <2>5. Gone(p, va)
    BY <1>1, <1>2, <1>5, <1>7, <2>1, <2>2, <2>3 DEF Gone
  <2> QED
    BY <1>3, <2>4, <2>5
<1>8. CASE ~(old.kind = "file" /\ ~old.uninit)
  <2>1. UNCHANGED <<pml4, contents, panic>>
    BY <1>1, <1>8 DEF Dealloc
  <2>2. /\ contents' \in [Offset -> Value] /\ panic' \in BOOLEAN
        /\ pml4' \in [Proc -> [Va -> Frame \cup {None}]]
    BY <1>0, <2>1 DEF WellFormed
  <2>3. Gone(p, va)
    BY <1>1, <1>2, <1>5, <1>8, <2>1, <2>2 DEF Gone
  <2> QED
    BY <1>3, <2>2, <2>3
<1> QED
  BY <1>7, <1>8

LEMMA KillNextStep ==
    ASSUME VInv, NEW p \in Proc, NEW va \in Va, KillNext(p, va)
    PROVE  VInv'
<1>0. /\ WellFormed /\ Busy(p) /\ Family /\ pc[p] = "kill" /\ spt[p][va] # NoPage /\ Dealloc(p, va)
      /\ UNCHANGED <<pc, at, then, frame, left, parent, dirty, used, ram, swap_bitmap, swap,
                     closed>>
  BY DEF VInv, KillNext, localVars
<1>1. /\ Gone(p, va)
      /\ spt' \in [Proc -> [Va -> PageRecord \cup {NoPage}]]
      /\ \A q \in Proc, vb \in Va : q # p \/ vb # va => spt'[q][vb] = spt[q][vb]
      /\ pml4' \in [Proc -> [Va -> Frame \cup {None}]]
  BY <1>0, DeallocIs
<1>2. WellFormed' /\ NoRepeat(frame_list)'
  BY <1>0, <1>1 DEF WellFormed, Gone
<1>3. Busy(p)' /\ ~ToCopy(p)' /\ (Copying(p) => Copying(p)')
  BY <1>0 DEF Busy, ToCopy, Claiming, Copying
<1>4. parent'[p] # None => parent'[p] = parent[p] /\ Copying(p)'
  BY <1>0, <1>3 DEF Family
<1>5. (\A q \in Proc : Busy(q)') /\ Family'
  BY <1>0, <1>1, <1>3, <1>4, AloneStep
<1> QED
  BY <1>1, <1>2, <1>5 DEF VInv

LEMMA MappedFrames == WellFormed => \A p \in Proc : Mapped(p) \subseteq Frame
<1> SUFFICES ASSUME WellFormed, NEW p \in Proc, NEW f \in Mapped(p) PROVE f \in Frame
  OBVIOUS
<1>1. PICK va \in Va : f = pml4[p][va] /\ f # None
  BY DEF Mapped
<1> QED
  BY <1>1, VmState

LEMMA KillDoneStep ==
    ASSUME VInv, NEW p \in Proc, KillDone(p)
    PROVE  VInv'
<1>0. /\ WellFormed /\ NoRepeat(frame_list) /\ Busy(p) /\ Family /\ pc[p] = "kill"
      /\ \A va \in Va : spt[p][va] = NoPage
      /\ UNCHANGED <<at, frame, left, parent, spt, frame_list, page_of, swap_bitmap, swap,
                     contents>>
      /\ Goto(p, then[p]) /\ then' = [then EXCEPT ![p] = "user"]
  BY DEF VInv, KillDone, diskVars
<1>1. then[p] \in {"none", "load"} /\ then[p] \in Places /\ "user" \in Places
  BY <1>0 DEF Busy, Places
<1>2. /\ pc' \in [Proc -> Places] /\ pc'[p] = then[p] /\ \A q \in Proc \ {p} : pc'[q] = pc[q]
  BY <1>0, <1>1, GotoIs
<1>3. then' \in [Proc -> Places] /\ \A q \in Proc \ {p} : then'[q] = then[q]
  BY <1>0, <1>1, VmState
<1>4. /\ used' \subseteq Frame /\ pml4' \in [Proc -> [Va -> Frame \cup {None}]]
      /\ dirty' \in [Proc -> [Va -> BOOLEAN]]
  BY <1>0, VmState DEF KillDone
<1>5. ram' \in [Frame -> Value] /\ closed' \subseteq Proc /\ panic' \in BOOLEAN
  <2>1. ram' \in [Frame -> Value]
    BY <1>0, VmConstants DEF KillDone, WellFormed
  <2>2. closed' \subseteq Proc
    BY <1>0 DEF KillDone, WellFormed
  <2>3. panic' = (Mapped(p) \ used # {})
    BY DEF KillDone
  <2>4. panic' \in BOOLEAN
    BY <2>3
  <2> QED
    BY <2>1, <2>2, <2>4
<1>6. WellFormed'
  BY <1>0, <1>2, <1>3, <1>4, <1>5 DEF WellFormed
<1>7. Busy(p)' /\ ~ToCopy(p)' /\ pc'[p] \notin {"copy", "copied"}
  BY <1>0, <1>1, <1>2 DEF Busy, ToCopy, Claiming
<1>8. parent'[p] # None => parent'[p] = parent[p] /\ Copying(p)'
  BY <1>0, <1>1, <1>2 DEF Family, Copying, ToCopy, Claiming
<1>9. (\A q \in Proc : Busy(q)') /\ Family'
  BY <1>0, <1>2, <1>3, <1>7, <1>8, AloneStep
<1> QED
  BY <1>0, <1>6, <1>9, SamePages DEF VInv

LEMMA ExitStep ==
    ASSUME VInv, NEW p \in Proc, Exit(p) \/ LoadFails(p)
    PROVE  VInv'
<1>0. /\ WellFormed /\ NoRepeat(frame_list) /\ pc[p] \in {"user", "load"} /\ Exiting(p)
      /\ UNCHANGED <<at, frame, left, parent, tableVars, frameVars, ram, diskVars, closed, panic>>
  BY DEF VInv, Exit, LoadFails
<1>1. UNCHANGED <<at, frame, parent, spt, frame_list>>
  BY <1>0 DEF tableVars, frameVars
<1>2. /\ pc' \in [Proc -> Places] /\ then' \in [Proc -> Places]
      /\ pc'[p] = "kill" /\ then'[p] = "none"
      /\ \A q \in Proc \ {p} : pc'[q] = pc[q] /\ then'[q] = then[q]
  BY <1>0, ExitingIs
<1>3. WellFormed'
  BY <1>0, <1>2 DEF WellFormed, tableVars, frameVars, diskVars
<1>4. (\A q \in Proc : Busy(q)') /\ Family'
  BY <1>0, <1>1, <1>2, UserGoes
<1> QED
  BY <1>0, <1>1, <1>3, <1>4, SamePages DEF VInv

LEMMA ExecStep ==
    ASSUME VInv, NEW p \in Proc, Exec(p)
    PROVE  VInv'
<1>0. /\ WellFormed /\ NoRepeat(frame_list) /\ pc[p] = "user" /\ Goto(p, "kill")
      /\ then' = [then EXCEPT ![p] = "load"] /\ {"kill", "load"} \subseteq Places
      /\ UNCHANGED <<at, frame, left, parent, tableVars, frameVars, ram, diskVars, closed, panic>>
  BY DEF VInv, Exec, Places
<1>1. UNCHANGED <<at, frame, parent, spt, frame_list>>
  BY <1>0 DEF tableVars, frameVars
<1>2. /\ pc' \in [Proc -> Places] /\ pc'[p] = "kill" /\ \A q \in Proc \ {p} : pc'[q] = pc[q]
  BY <1>0, GotoIs
<1>3. /\ then' \in [Proc -> Places] /\ then'[p] = "load"
      /\ \A q \in Proc \ {p} : then'[q] = then[q]
  BY <1>0, VmState
<1>4. WellFormed'
  BY <1>0, <1>2, <1>3 DEF WellFormed, tableVars, frameVars, diskVars
<1>5. (\A q \in Proc : Busy(q)') /\ Family'
  BY <1>0, <1>1, <1>2, <1>3, UserGoes
<1> QED
  BY <1>0, <1>1, <1>4, <1>5, SamePages DEF VInv

LEMMA LoadStep ==
    ASSUME VInv, NEW p \in Proc, Load(p)
    PROVE  VInv'
<1>0. /\ WellFormed /\ NoRepeat(frame_list) /\ pc[p] = "load" /\ Claim(p, Top, "user")
      /\ spt' = [spt EXCEPT ![p] = LoadedPages(p)] /\ Top \in Va /\ "user" \in Places
      /\ UNCHANGED <<frame, left, parent, pml4, dirty, frameVars, ram, diskVars, closed, panic>>
  BY VmConstants DEF VInv, Load, Places
<1>1. UNCHANGED <<frame, parent, frame_list>>
  BY <1>0 DEF frameVars
<1>2. /\ pc' \in [Proc -> Places] /\ at' \in [Proc -> Nat] /\ then' \in [Proc -> Places]
      /\ pc'[p] = "claim" /\ at'[p] = Top /\ then'[p] = "user"
      /\ \A q \in Proc \ {p} : pc'[q] = pc[q] /\ at'[q] = at[q] /\ then'[q] = then[q]
  BY <1>0, ClaimIs
<1>3. /\ spt' \in [Proc -> [Va -> PageRecord \cup {NoPage}]]
      /\ spt'[p] = LoadedPages(p) /\ \A q \in Proc \ {p} : spt'[q] = spt[q]
  BY <1>0, LoadedIs, VmState
<1>4. WellFormed'
  BY <1>0, <1>2, <1>3 DEF WellFormed, frameVars, diskVars
<1>5. (\A q \in Proc : Busy(q)') /\ Family'
  <2>1. spt'[p][at'[p]] # NoPage /\ at'[p] \in Va
    BY <1>0, <1>2, <1>3, LoadedIs
  <2> QED
    BY <1>0, <1>1, <1>2, <1>3, <2>1, UserGoes
<1> QED
  BY <1>0, <1>1, <1>4, <1>5 DEF VInv

\* mmap makes pages where there are none.
LEMMA MappedIs ==
    ASSUME WellFormed, NEW p \in Proc, NEW va \in Va, NEW ofs \in MapFrom
    PROVE  /\ MappedPages(p, va, ofs) \in [Va -> PageRecord \cup {NoPage}]
           /\ \A x \in Va :
                \/ MappedPages(p, va, ofs)[x] = spt[p][x]
                \/ /\ spt[p][x] = NoPage /\ MappedPages(p, va, ofs)[x] # NoPage
                   /\ MappedPages(p, va, ofs)[x].kind = "file"
                   /\ MappedPages(p, va, ofs)[x].uninit /\ MappedPages(p, va, ofs)[x].frame = None
                   /\ MappedPages(p, va, ofs)[x].slot = None
<1> DEFINE Room(o) == \A k \in 0..o : PageOf(p, va + k) = NoPage /\ va + k \in Va
<1> DEFINE New(x) == NewPage("file", TRUE, ofs + (x - va), FileLength - (x - va), None)
<1>1. \A x \in Va : MappedPages(p, va, ofs)[x] = IF x - va \in Offset /\ Room(x - va) THEN New(x)
                                            ELSE spt[p][x]
  BY DEF MappedPages
<1>2. ASSUME NEW x \in Va, x - va \in Offset, Room(x - va)
      PROVE  spt[p][x] = NoPage /\ New(x) \in PageRecord /\ New(x) # NoPage
  <2>1. va \in Nat /\ x \in Nat /\ x - va \in Nat /\ ofs + (x - va) \in Nat /\ x - va \in 0..(x - va) /\ va + (x - va) = x
    BY <1>2, SizeAssumption, VmConstants
  <2>2. PageOf(p, x) = NoPage
    BY <1>2, <2>1
  <2>3. FileLength - (x - va) \in 0..FileLength
    BY <1>2, <2>1, VmConstants DEF Offset
  <2>4. New(x) \in PageRecord
    BY <2>1, <2>3 DEF NewPage, PageRecord
  <2> QED
    BY <2>2, <2>4, PageKinds DEF PageOf
<1>3. ASSUME NEW x \in Va PROVE MappedPages(p, va, ofs)[x] \in PageRecord \cup {NoPage}
  BY <1>1, <1>2, VmState
<1>4. MappedPages(p, va, ofs) \in [Va -> PageRecord \cup {NoPage}]
  BY <1>3 DEF MappedPages
<1>5. ASSUME NEW x \in Va
      PROVE  \/ MappedPages(p, va, ofs)[x] = spt[p][x]
             \/ /\ spt[p][x] = NoPage /\ MappedPages(p, va, ofs)[x] # NoPage
                /\ MappedPages(p, va, ofs)[x].kind = "file"
                /\ MappedPages(p, va, ofs)[x].uninit /\ MappedPages(p, va, ofs)[x].frame = None
                /\ MappedPages(p, va, ofs)[x].slot = None
  <2>1. CASE x - va \in Offset /\ Room(x - va)
    <3>1. MappedPages(p, va, ofs)[x] = New(x)
      BY <1>1, <2>1
    <3>2. /\ New(x).kind = "file" /\ New(x).uninit
          /\ New(x).frame = None /\ New(x).slot = None
      BY DEF NewPage
    <3> HIDE DEF New
    <3> QED
      BY <1>2, <2>1, <3>1, <3>2
  <2>2. CASE ~(x - va \in Offset /\ Room(x - va))
    BY <1>1, <2>2
  <2> QED
    BY <2>1, <2>2
<1> QED
  BY <1>4, <1>5

LEMMA MmapStep ==
    ASSUME VInv, NEW p \in Proc, NEW va \in Va, NEW ofs \in MapFrom, Mmap(p, va, ofs)
    PROVE  VInv'
<1>0. /\ WellFormed /\ NoRepeat(frame_list) /\ Busy(p) /\ pc[p] = "user"
      /\ spt' = [spt EXCEPT ![p] = MappedPages(p, va, ofs)]
      /\ UNCHANGED <<localVars, pml4, dirty, frameVars, ram, diskVars, closed, panic>>
  BY DEF VInv, Mmap
<1>1. UNCHANGED <<pc, at, then, frame, left, parent, frame_list>>
  BY <1>0 DEF localVars, frameVars
<1>2. /\ spt' \in [Proc -> [Va -> PageRecord \cup {NoPage}]]
      /\ spt'[p] = MappedPages(p, va, ofs) /\ \A q \in Proc \ {p} : spt'[q] = spt[q]
  BY <1>0, MappedIs, VmState
<1>3. WellFormed'
  BY <1>0, <1>2 DEF WellFormed, localVars, frameVars, diskVars
<1>4. (\A q \in Proc : Busy(q)') /\ Family'
  BY <1>0, <1>1, <1>2, UserGoes
<1> QED
  BY <1>0, <1>1, <1>3, <1>4 DEF VInv

LEMMA MunmapStep ==
    ASSUME VInv, NEW p \in Proc, NEW va \in Va, Munmap(p, va)
    PROVE  VInv'
<1>0. /\ WellFormed /\ NoRepeat(frame_list) /\ pc[p] = "user" /\ spt[p][va] # NoPage
      /\ Goto(p, "unmap") /\ "unmap" \in Places
      /\ at' = [at EXCEPT ![p] = va] /\ left' = [left EXCEPT ![p] = spt[p][va].read_bytes]
      /\ UNCHANGED <<then, frame, parent, tableVars, frameVars, ram, diskVars, closed, panic>>
  BY DEF VInv, Munmap, Places
<1>1. UNCHANGED <<then, frame, parent, spt, frame_list>>
  BY <1>0 DEF tableVars, frameVars
<1>2. /\ pc' \in [Proc -> Places] /\ pc'[p] = "unmap" /\ \A q \in Proc \ {p} : pc'[q] = pc[q]
  BY <1>0, GotoIs
<1>3. at' \in [Proc -> Nat] /\ \A q \in Proc \ {p} : at'[q] = at[q]
  BY <1>0, VmState, VmConstants
<1>4. left' \in [Proc -> 0..FileLength]
  BY <1>0, VmState, PageFields
<1>5. WellFormed'
  BY <1>0, <1>2, <1>3, <1>4 DEF WellFormed, tableVars, frameVars, diskVars
<1>6. (\A q \in Proc : Busy(q)') /\ Family'
  BY <1>0, <1>1, <1>2, <1>3, UserGoes
<1> QED
  BY <1>0, <1>1, <1>5, <1>6, SamePages DEF VInv

LEMMA UnmapNextStep ==
    ASSUME VInv, NEW p \in Proc, UnmapNext(p)
    PROVE  VInv'
<1>0. /\ WellFormed /\ NoRepeat(frame_list) /\ pc[p] = "unmap"
      /\ UNCHANGED <<then, frame, parent, dirty, used, ram, swap_bitmap, swap, closed>>
  BY DEF VInv, UnmapNext
<1>1. CASE MoreToUnmap(p)
  <2>1. /\ Dealloc(p, at[p]) /\ at' = [at EXCEPT ![p] = at[p] + 1]
        /\ left' = [left EXCEPT ![p] = left[p] - 1] /\ pc' = pc
    BY <1>1 DEF UnmapNext
  <2>2. at[p] \in Va /\ spt[p][at[p]] # NoPage /\ left[p] > 0
    BY <1>1 DEF MoreToUnmap, PageOf
  <2>3. /\ Gone(p, at[p])
        /\ spt' \in [Proc -> [Va -> PageRecord \cup {NoPage}]]
        /\ \A q \in Proc, vb \in Va : q # p \/ vb # at[p] => spt'[q][vb] = spt[q][vb]
        /\ pml4' \in [Proc -> [Va -> Frame \cup {None}]]
    BY <2>1, <2>2, DeallocIs
  <2>4. at' \in [Proc -> Nat] /\ \A q \in Proc \ {p} : at'[q] = at[q]
    BY <1>0, <2>1, VmState
  <2>5. left' \in [Proc -> 0..FileLength]
    <3>1. left[p] - 1 \in 0..FileLength
      BY <1>0, <2>2, VmState, VmConstants
    <3> QED
      BY <1>0, <2>1, <3>1, VmState
  <2>6. WellFormed' /\ NoRepeat(frame_list)'
    BY <1>0, <2>1, <2>3, <2>4, <2>5 DEF WellFormed, Gone
  <2>7. (\A q \in Proc : Busy(q)') /\ Family'
    BY <1>0, <2>1, <2>3, <2>4, UserGoes
  <2> QED
    BY <2>3, <2>6, <2>7 DEF VInv
<1>2. CASE ~MoreToUnmap(p)
  <2>1. /\ Goto(p, "user") /\ left' = [left EXCEPT ![p] = 0] /\ "user" \in Places
        /\ UNCHANGED <<at, spt, pml4, frame_list, page_of, contents, panic>>
    BY <1>2 DEF UnmapNext, Places
  <2>2. /\ pc' \in [Proc -> Places] /\ pc'[p] = "user" /\ \A q \in Proc \ {p} : pc'[q] = pc[q]
    BY <1>0, <2>1, GotoIs
  <2>3. left' \in [Proc -> 0..FileLength]
    BY <1>0, <2>1, VmState, VmConstants
  <2>4. WellFormed'
    BY <1>0, <2>1, <2>2, <2>3 DEF WellFormed
  <2>5. (\A q \in Proc : Busy(q)') /\ Family'
    BY <1>0, <2>1, <2>2, UserGoes
  <2> QED
    BY <1>0, <2>1, <2>4, <2>5, SamePages DEF VInv
<1> QED
  BY <1>1, <1>2

-----------------------------------------------------------------------------
(* fork.                                                                   *)

LEMMA ForkStep ==
    ASSUME VInv, NEW p \in Proc, NEW c \in Proc, Fork(p, c)
    PROVE  VInv'
<1>0. /\ WellFormed /\ NoRepeat(frame_list) /\ pc[p] = "user" /\ pc[c] = "none" /\ p # c
      /\ pc' = [pc EXCEPT ![p] = "fork", ![c] = "copy"] /\ {"fork", "copy"} \subseteq Places
      /\ parent' = [parent EXCEPT ![c] = p]
      /\ UNCHANGED <<at, then, frame, left, tableVars, frameVars, ram, diskVars, closed, panic>>
  BY DEF VInv, Fork, Places
<1>1. UNCHANGED <<at, then, frame, spt, frame_list>>
  BY <1>0 DEF tableVars, frameVars
<1>2. /\ pc' \in [Proc -> Places] /\ pc'[p] = "fork" /\ pc'[c] = "copy"
      /\ \A q \in Proc \ {p, c} : pc'[q] = pc[q]
  BY <1>0, VmState
<1>3. /\ parent \in [Proc -> Proc \cup {None}] /\ parent' \in [Proc -> Proc \cup {None}]
      /\ parent'[c] = p /\ \A q \in Proc \ {c} : parent'[q] = parent[q]
  BY <1>0, VmState
<1>4. WellFormed'
  BY <1>0, <1>2, <1>3 DEF WellFormed, tableVars, frameVars, diskVars
<1>5. ASSUME NEW q \in Proc PROVE Busy(q)'
  <2>1. Busy(q)
    BY DEF VInv
  <2> QED
    BY <1>1, <1>2, <2>1 DEF Busy, Claiming
<1>6. Family'
  <2>0. /\ \A d \in Proc : parent[d] # None => pc[parent[d]] = "fork" /\ Copying(d)
        /\ \A d \in Proc : pc[d] \in {"copy", "copied"} \/ ToCopy(d) => parent[d] # None
        /\ \A d, e \in Proc : parent[d] # None /\ parent[d] = parent[e] => d = e
        /\ p # None /\ parent[p] = None
    BY <1>0, NoParent, VmConstants DEF VInv, Family
  <2>1. ASSUME NEW d \in Proc, parent'[d] # None
        PROVE  pc'[parent'[d]] = "fork" /\ Copying(d)'
    <3>1. CASE d = c
      BY <1>2, <1>3, <3>1 DEF Copying
    <3>2. CASE d # c
      <4>1. parent'[d] = parent[d] /\ parent[d] \in Proc \ {p, c} /\ Copying(d) /\ d # p
        BY <1>0, <1>3, <2>0, <2>1, <3>2
      <4>2. pc'[d] = pc[d] /\ (ToCopy(d)' <=> ToCopy(d))
        BY <1>1, <1>2, <3>2, <4>1 DEF ToCopy
      <4> QED
        BY <1>1, <1>2, <2>0, <2>1, <4>1, <4>2 DEF Copying
    <3> QED
      BY <3>1, <3>2
  <2>2. ASSUME NEW d \in Proc, pc'[d] \in {"copy", "copied"} \/ ToCopy(d)' PROVE parent'[d] # None
    BY <1>1, <1>2, <1>3, <2>0, <2>2 DEF ToCopy, Claiming
  <2>3. ASSUME NEW d \in Proc, NEW e \in Proc, parent'[d] # None, parent'[d] = parent'[e]
        PROVE  d = e
    BY <1>0, <1>3, <2>0, <2>3
  <2> QED
    BY <2>1, <2>2, <2>3 DEF Family
<1> QED
  BY <1>0, <1>1, <1>4, <1>5, <1>6, SamePages DEF VInv

\* The parent goes on.
LEMMA ParentGoes ==
    ASSUME VInv, NEW c \in Proc, pc[c] = "copy", NEW place \in {"user", "kill"},
           pc' = [pc EXCEPT ![c] = place, ![parent[c]] = "user"],
           parent' = [parent EXCEPT ![c] = None],
           place = "kill" => then'[c] = "none",
           \A q \in Proc \ {c} : then'[q] = then[q],
           UNCHANGED <<at, frame, spt>>
    PROVE  /\ pc' \in [Proc -> Places] /\ parent' \in [Proc -> Proc \cup {None}]
           /\ (\A q \in Proc : Busy(q)') /\ Family'
<1>0. /\ \A d \in Proc : parent[d] # None => pc[parent[d]] = "fork" /\ Copying(d)
      /\ \A d \in Proc : pc[d] \in {"copy", "copied"} \/ ToCopy(d) => parent[d] # None
      /\ \A d, e \in Proc : parent[d] # None /\ parent[d] = parent[e] => d = e
      /\ WellFormed /\ parent \in [Proc -> Proc \cup {None}] /\ pc \in [Proc -> Places]
      /\ {"user", "kill"} \subseteq Places
  BY VmState DEF VInv, Family, Places
<1>1. PICK p \in Proc : parent[c] = p
  BY <1>0
<1>2. pc[p] = "fork" /\ p # c /\ p # None
  BY <1>0, <1>1, VmConstants
<1>3. /\ pc' \in [Proc -> Places] /\ pc'[p] = "user" /\ pc'[c] = place
      /\ \A q \in Proc \ {p, c} : pc'[q] = pc[q]
  BY <1>0, <1>1, <1>2
<1>4. /\ parent' \in [Proc -> Proc \cup {None}]
      /\ parent'[c] = None /\ \A q \in Proc \ {c} : parent'[q] = parent[q]
  BY <1>0
<1>5. ASSUME NEW q \in Proc PROVE Busy(q)'
  <2>1. Busy(q)
    BY DEF VInv
  <2> QED
    BY <1>3, <2>1 DEF Busy, Claiming
<1>6. ASSUME NEW d \in Proc, parent'[d] # None
      PROVE  pc'[parent'[d]] = "fork" /\ Copying(d)'
  <2>1. /\ d # c /\ parent'[d] = parent[d] /\ parent[d] \in Proc
        /\ pc[parent[d]] = "fork" /\ Copying(d)
    BY <1>0, <1>4, <1>6
  <2>2. parent[d] \notin {p, c}
    BY <1>0, <1>1, <1>2, <2>1
  <2>3. d # p
    BY <1>2, <2>1 DEF Copying, ToCopy, Claiming
  <2>4. pc'[d] = pc[d] /\ (ToCopy(d)' <=> ToCopy(d))
    BY <1>3, <2>1, <2>3 DEF ToCopy
  <2> QED
    BY <1>3, <2>1, <2>2, <2>4 DEF Copying
<1>7. ASSUME NEW d \in Proc, pc'[d] \in {"copy", "copied"} \/ ToCopy(d)' PROVE parent'[d] # None
  <2>1. d \notin {p, c}
    BY <1>3, <1>7 DEF ToCopy, Claiming
  <2> QED
    BY <1>0, <1>3, <1>4, <1>7, <2>1 DEF ToCopy
<1>8. ASSUME NEW d \in Proc, NEW e \in Proc, parent'[d] # None, parent'[d] = parent'[e]
      PROVE  d = e
  BY <1>0, <1>4, <1>8
<1> QED
  BY <1>3, <1>4, <1>5, <1>6, <1>7, <1>8 DEF Family

LEMMA CopyDoneStep ==
    ASSUME VInv, NEW c \in Proc, CopyDone(c)
    PROVE  VInv'
<1>0. /\ WellFormed /\ NoRepeat(frame_list) /\ pc[c] = "copy"
      /\ pc' = [pc EXCEPT ![c] = "user", ![parent[c]] = "user"]
      /\ parent' = [parent EXCEPT ![c] = None]
      /\ UNCHANGED <<at, then, frame, left, tableVars, frameVars, ram, diskVars, closed, panic>>
  BY DEF VInv, CopyDone
<1>1. UNCHANGED <<at, then, frame, spt, frame_list>>
  BY <1>0 DEF tableVars, frameVars
<1>2. /\ pc' \in [Proc -> Places] /\ parent' \in [Proc -> Proc \cup {None}]
      /\ (\A q \in Proc : Busy(q)') /\ Family'
  BY <1>0, <1>1, ParentGoes
<1>3. WellFormed'
  BY <1>0, <1>2 DEF WellFormed, tableVars, frameVars, diskVars
<1> QED
  BY <1>0, <1>1, <1>2, <1>3, SamePages DEF VInv

LEMMA CopyFailsStep ==
    ASSUME VInv, NEW c \in Proc, CopyFails(c)
    PROVE  VInv'
<1>0. /\ WellFormed /\ NoRepeat(frame_list) /\ pc[c] = "copy"
      /\ pc' = [pc EXCEPT ![c] = "kill", ![parent[c]] = "user"]
      /\ then' = [then EXCEPT ![c] = "none"] /\ "none" \in Places
      /\ parent' = [parent EXCEPT ![c] = None]
      /\ UNCHANGED <<at, frame, left, tableVars, frameVars, ram, diskVars, closed, panic>>
  BY DEF VInv, CopyFails, Places
<1>1. UNCHANGED <<at, frame, spt, frame_list>>
  BY <1>0 DEF tableVars, frameVars
<1>2. /\ then' \in [Proc -> Places] /\ then'[c] = "none"
      /\ \A q \in Proc \ {c} : then'[q] = then[q]
  BY <1>0, VmState
<1>3. /\ pc' \in [Proc -> Places] /\ parent' \in [Proc -> Proc \cup {None}]
      /\ (\A q \in Proc : Busy(q)') /\ Family'
  BY <1>0, <1>1, <1>2, ParentGoes
<1>4. WellFormed'
  BY <1>0, <1>2, <1>3 DEF WellFormed, tableVars, frameVars, diskVars
<1> QED
  BY <1>0, <1>1, <1>3, <1>4, SamePages DEF VInv

\* The page that is copied, and its copy.
LEMMA CopyNextIs ==
    ASSUME VInv, NEW c \in Proc, NEW va \in Va, CopyNext(c, va)
    PROVE  /\ pc[c] = "copy" /\ parent[c] \in Proc /\ pc[parent[c]] = "fork" /\ parent[c] # c
           /\ spt[parent[c]][va] # NoPage /\ spt[c][va] = NoPage
           /\ \E page \in PageRecord :
                /\ page # NoPage /\ page.kind = spt[parent[c]][va].kind
                /\ page.ofs = spt[parent[c]][va].ofs /\ page.uninit
                /\ page.read_bytes = 0 /\ page.frame = None /\ page.slot = None
                /\ spt' = [spt EXCEPT ![c][va] = page]
<1>1. WellFormed /\ pc[c] = "copy" /\ spt[parent[c]][va] # NoPage /\ spt[c][va] = NoPage
  BY DEF VInv, CopyNext
<1>2. PICK p \in Proc : p = parent[c] /\ pc[p] = "fork"
  BY <1>1, VmState DEF VInv, Family
<1>3. PICK old : old = spt[p][va]
  OBVIOUS
<1>4. old \in PageRecord
  BY <1>1, <1>2, <1>3, VmState
<1>5. PICK page : page = NewPage(old.kind, old.lazy, old.ofs, 0, old.loader)
  OBVIOUS
<1>6. page \in PageRecord
  BY <1>4, <1>5, VmConstants DEF NewPage, PageRecord
<1>7. /\ page # NoPage /\ page.kind = old.kind /\ page.ofs = old.ofs /\ page.uninit
      /\ page.read_bytes = 0 /\ page.frame = None /\ page.slot = None
  BY <1>5, <1>6, PageKinds DEF NewPage
<1>8. spt' = [spt EXCEPT ![c][va] = page]
  BY <1>2, <1>3, <1>5 DEF CopyNext
<1>9. parent[c] \in Proc /\ pc[parent[c]] = "fork" /\ parent[c] # c
  BY <1>1, <1>2
<1> QED
  BY <1>1, <1>2, <1>3, <1>6, <1>7, <1>8, <1>9

LEMMA CopyNextStep ==
    ASSUME VInv, NEW c \in Proc, NEW va \in Va, CopyNext(c, va)
    PROVE  VInv'
<1>0. /\ WellFormed /\ NoRepeat(frame_list) /\ Busy(c) /\ "copied" \in Places
      /\ UNCHANGED <<frame, left, parent, pml4, dirty, frameVars, ram, diskVars, closed, panic>>
  BY DEF VInv, CopyNext, Places
<1>1. UNCHANGED <<frame, parent, frame_list>>
  BY <1>0 DEF frameVars
<1>2. /\ pc[c] = "copy" /\ parent[c] \in Proc /\ parent[c] # c /\ parent[c] # None
      /\ spt[parent[c]][va] # NoPage /\ spt[c][va] = NoPage
  BY CopyNextIs, VmConstants
<1>3. PICK page \in PageRecord :
        /\ page # NoPage /\ page.kind = spt[parent[c]][va].kind
        /\ page.ofs = spt[parent[c]][va].ofs
        /\ spt' = [spt EXCEPT ![c][va] = page]
  BY CopyNextIs
<1>4. /\ spt' \in [Proc -> [Va -> PageRecord \cup {NoPage}]] /\ spt'[c][va] = page
      /\ \A q \in Proc, vb \in Va : q # c \/ vb # va => spt'[q][vb] = spt[q][vb]
  BY <1>0, <1>3, VmState
<1>6. CASE spt[parent[c]][va].uninit
  <2>1. UNCHANGED <<pc, at, then>>
    BY <1>6 DEF CopyNext
  <2>2. WellFormed'
    BY <1>0, <1>4, <2>1 DEF WellFormed, frameVars, diskVars
  <2>3. Busy(c)' /\ Copying(c)'
    BY <1>2, <2>1 DEF Busy, Claiming, Copying
  <2>4. (\A q \in Proc : Busy(q)') /\ Family'
    BY <1>1, <1>2, <1>4, <2>1, <2>3, AloneStep
  <2> QED
    BY <1>0, <1>1, <2>2, <2>4 DEF VInv
<1>7. CASE ~spt[parent[c]][va].uninit
  <2>1. Claim(c, va, "copied")
    BY <1>7 DEF CopyNext
  <2>2. /\ pc' \in [Proc -> Places] /\ at' \in [Proc -> Nat] /\ then' \in [Proc -> Places]
        /\ pc'[c] = "claim" /\ at'[c] = va /\ then'[c] = "copied"
        /\ \A q \in Proc \ {c} : pc'[q] = pc[q] /\ at'[q] = at[q] /\ then'[q] = then[q]
    BY <1>0, <2>1, ClaimIs
  <2>3. WellFormed'
    BY <1>0, <1>4, <2>2 DEF WellFormed, frameVars, diskVars
  <2>4. Busy(c)'
    BY <1>3, <1>4, <2>2 DEF Busy, Claiming
  <2>5. Copying(c)'
    BY <1>1, <1>2, <1>4, <2>2 DEF Copying, ToCopy, Claiming
  <2>6. (\A q \in Proc : Busy(q)') /\ Family'
    BY <1>1, <1>2, <1>4, <2>2, <2>4, <2>5, AloneStep
  <2> QED
    BY <1>0, <1>1, <2>3, <2>6 DEF VInv
<1> QED
  BY <1>6, <1>7

LEMMA CopiedStep ==
    ASSUME VInv, NEW c \in Proc, Copied(c)
    PROVE  VInv'
<1>0. /\ WellFormed /\ NoRepeat(frame_list) /\ pc[c] = "copied" /\ "copy" \in Places
      /\ UNCHANGED <<at, frame, left, tableVars, frameVars, diskVars, closed, panic>>
  BY DEF VInv, Copied, Places
<1>1. UNCHANGED <<at, frame, spt, frame_list>>
  BY <1>0 DEF tableVars, frameVars
<1>2. parent[c] \in Proc /\ parent[c] # None
  BY <1>0, VmState DEF VInv, Family
<1>3. /\ at[c] \in Va /\ spt[c][at[c]] \in PageRecord /\ spt[parent[c]][at[c]] \in PageRecord
  <2>1. at[c] \in Va /\ spt[c][at[c]] \in PageRecord
    BY <1>0, ClaimedPage
  <2>2. spt[parent[c]][at[c]] # NoPage
    BY <1>0, <1>2 DEF VInv, Family, Copying
  <2> QED
    BY <1>0, <1>2, <2>1, <2>2, VmState
<1>4. PICK from, to : from = spt[parent[c]][at[c]].frame /\ to = spt[c][at[c]].frame
  OBVIOUS
<1>5. from \in Frame \cup {None} /\ to \in Frame \cup {None}
  BY <1>3, <1>4 DEF PageRecord
<1>6. CASE from = None \/ to = None
  <2>1. Exiting(c) /\ parent' = [parent EXCEPT ![c] = None] /\ ram' = ram
    BY <1>4, <1>6 DEF Copied
  <2>2. /\ pc' \in [Proc -> Places] /\ then' \in [Proc -> Places]
        /\ pc'[c] = "kill" /\ then'[c] = "none"
        /\ \A q \in Proc \ {c} : pc'[q] = pc[q] /\ then'[q] = then[q]
    BY <1>0, <2>1, ExitingIs
  <2>3. /\ parent' \in [Proc -> Proc \cup {None}] /\ parent'[c] = None
        /\ \A q \in Proc \ {c} : parent'[q] = parent[q]
    BY <1>0, <2>1, VmState
  <2>4. WellFormed'
    BY <1>0, <2>1, <2>2, <2>3 DEF WellFormed, tableVars, frameVars, diskVars
  <2>5. Busy(c)' /\ ~ToCopy(c)' /\ pc'[c] \notin {"copy", "copied"}
    BY <2>2 DEF Busy, ToCopy, Claiming
  <2>6. (\A q \in Proc : Busy(q)') /\ Family'
    BY <1>0, <1>1, <2>2, <2>3, <2>5, AloneStep
  <2> QED
    BY <1>0, <1>1, <2>4, <2>6, SamePages DEF VInv
<1>7. CASE ~(from = None \/ to = None)
  <2>1. /\ ram' = [ram EXCEPT ![to] = ram[from]] /\ Goto(c, "copy") /\ UNCHANGED <<then, parent>>
    BY <1>4, <1>7 DEF Copied
  <2>2. /\ pc' \in [Proc -> Places] /\ pc'[c] = "copy" /\ \A q \in Proc \ {c} : pc'[q] = pc[q]
    BY <1>0, <2>1, GotoIs
  <2>3. ram' \in [Frame -> Value]
    BY <1>0, <1>5, <1>7, <2>1 DEF WellFormed
  <2>4. WellFormed'
    BY <1>0, <2>1, <2>2, <2>3 DEF WellFormed, tableVars, frameVars, diskVars
  <2>5. Busy(c)' /\ Copying(c)'
    BY <2>2 DEF Busy, Copying, Claiming
  <2>6. (\A q \in Proc : Busy(q)') /\ Family'
    BY <1>0, <1>1, <1>2, <2>1, <2>2, <2>5, AloneStep
  <2> QED
    BY <1>0, <1>1, <2>4, <2>6, SamePages DEF VInv
<1> QED
  BY <1>6, <1>7

-----------------------------------------------------------------------------
LEMMA VmInit == Init => VInv
<1> SUFFICES ASSUME Init PROVE VInv
  OBVIOUS
<1>1. /\ pc = [p \in Proc |-> IF p = First THEN "claim" ELSE "none"]
      /\ at = [p \in Proc |-> Top] /\ then = [p \in Proc |-> "user"]
      /\ frame = [p \in Proc |-> None] /\ left = [p \in Proc |-> 0]
      /\ parent = [p \in Proc |-> None]
      /\ spt = [p \in Proc |-> IF p = First THEN LoadedPages(p) ELSE [va \in Va |-> NoPage]]
      /\ frame_list = <<>>
  BY DEF Init
<1>2. {"claim", "none", "user"} \subseteq Places /\ 0 \in 0..FileLength
  BY VmConstants DEF Places
<1>3. spt \in [Proc -> [Va -> PageRecord \cup {NoPage}]]
  BY <1>1, LoadedIs
<1>4. WellFormed
  <2>1. /\ pc \in [Proc -> Places] /\ at \in [Proc -> Nat] /\ then \in [Proc -> Places]
        /\ frame \in [Proc -> Frame \cup {None}] /\ left \in [Proc -> 0..FileLength]
        /\ parent \in [Proc -> Proc \cup {None}] /\ frame_list \in Seq(Frame)
    BY <1>1, <1>2, VmConstants
  <2>2. /\ pml4 \in [Proc -> [Va -> Frame \cup {None}]] /\ dirty \in [Proc -> [Va -> BOOLEAN]]
        /\ page_of \in [Frame -> (Proc \X Va) \cup {None}] /\ used \in SUBSET Frame
        /\ ram \in [Frame -> Value] /\ swap_bitmap \in SUBSET Slot
        /\ swap \in [Slot -> Value] /\ contents \in [Offset -> Value]
        /\ closed \in SUBSET Proc /\ panic \in BOOLEAN
    BY VmConstants DEF Init
  <2> QED
    BY <1>3, <2>1, <2>2 DEF WellFormed
<1>5. ASSUME NEW p \in Proc PROVE Busy(p)
  BY <1>1, LoadedIs, VmConstants DEF Busy, Claiming
<1>6. Family
  BY <1>1 DEF Family, ToCopy
<1>7. NoRepeat(frame_list)
  BY <1>1 DEF NoRepeat
<1> QED
  BY <1>4, <1>5, <1>6, <1>7 DEF VInv

LEMMA VmStays == VInv /\ UNCHANGED vars => VInv'
<1> SUFFICES ASSUME VInv, UNCHANGED vars PROVE VInv'
  OBVIOUS
<1>1. /\ UNCHANGED <<pc, at, then, frame, left, parent, spt, pml4, dirty>>
      /\ UNCHANGED <<frame_list, page_of, used, ram, swap_bitmap, swap, contents, closed, panic>>
  BY DEF vars, localVars, tableVars, frameVars, diskVars
<1>2. WellFormed' /\ NoRepeat(frame_list)'
  BY <1>1 DEF VInv, WellFormed
<1>3. \A p \in Proc : Busy(p)'
  BY <1>1 DEF VInv, Busy
<1>4. Family'
  BY <1>1 DEF VInv, Family, Copying, ToCopy
<1> QED
  BY <1>2, <1>3, <1>4 DEF VInv

LEMMA VmSteps == VInv /\ [Next]_vars => VInv'
<1> SUFFICES ASSUME VInv, [Next]_vars PROVE VInv'
  OBVIOUS
<1>1. CASE UNCHANGED vars \/ Stopped
  BY <1>1, VmStays DEF Stopped
<1>2. ASSUME NEW p \in Proc, Step(p) PROVE VInv'
  BY <1>2, WriteStep, FaultStep, StackFaultStep, MmapStep, MunmapStep, KillNextStep, CopyNextStep,
     StackGrowthStep, GetFrameStep, EvictFrameStep, LinkStep, FillStep, KillDoneStep, ExitStep,
     ExecStep, LoadStep, UnmapNextStep, ForkStep, CopiedStep, CopyDoneStep, CopyFailsStep
     DEF Step
<1> QED
  BY <1>1, <1>2 DEF Next

\* A load that went astray stays so.
LEMMA AstrayStays == astray \in BOOLEAN /\ [Next]_vars => astray' \in BOOLEAN /\ (astray => astray')
<1> SUFFICES ASSUME astray \in BOOLEAN, [Next]_vars
             PROVE  astray' \in BOOLEAN /\ (astray => astray')
  OBVIOUS
<1>1. CASE UNCHANGED vars \/ Stopped
  BY <1>1 DEF Stopped, vars
<1>2. ASSUME NEW p \in Proc, Fill(p) PROVE astray' \in BOOLEAN /\ (astray => astray')
  BY <1>2 DEF Fill, Filled, ComesShort, ReadsClosed
<1>3. ASSUME NEW p \in Proc, Step(p) PROVE Fill(p) \/ astray' = astray
  BY <1>3 DEF Step
<1> QED
  BY <1>1, <1>2, <1>3 DEF Next

\* Every execution of the virtual memory, up to the moment palloc gives out a page
\* that is still on frame_list, where the model ends, keeps its tables well formed
\* and that list without repetitions; a process that claims or copies a page has it,
\* and a parent in fork is waited for by one child.
THEOREM VmInvariance == Spec => [](VInv /\ astray \in BOOLEAN)
<1>1. Init => VInv /\ astray \in BOOLEAN
  BY VmInit DEF Init
<1>2. VInv /\ astray \in BOOLEAN /\ [Next]_vars => (VInv /\ astray \in BOOLEAN)'
  BY VmSteps, AstrayStays
<1> QED
  BY <1>1, <1>2, PTL DEF Spec

(***************************************************************************)
(* The swap slots.                                                         *)
(***************************************************************************)
SlotAgrees(p, va) ==
    LET page == spt[p][va] IN
    page # NoPage =>
        /\ page.slot # None =>
             /\ page.slot \in swap_bitmap
             /\ \A q \in Proc, vb \in Va :
                  spt[q][vb] # NoPage /\ spt[q][vb].slot = page.slot => q = p /\ vb = va
        /\ ~page.uninit /\ page.kind = "anon" => page.frame # None \/ page.slot # None

LEMMA SlotsAt == SlotsAgree <=> \A p \in Proc, va \in Va : SlotAgrees(p, va)
<1>1. ASSUME SlotsAgree, NEW p \in Proc, NEW va \in Va PROVE SlotAgrees(p, va)
  <2>1. spt[p][va] # NoPage => <<p, va>> \in Pages /\ PageAt(<<p, va>>) = spt[p][va]
    BY DEF Pages, PageAt
  <2>2. ASSUME NEW q \in Proc, NEW vb \in Va, spt[q][vb] # NoPage, ~(q = p /\ vb = va)
        PROVE  /\ <<q, vb>> \in Pages \ {<<p, va>>}
               /\ PageAt(<<q, vb>>) = spt[q][vb]
    <3>1. <<q, vb>> # <<p, va>>
      BY <2>2
    <3>2. <<q, vb>> \in Pages /\ PageAt(<<q, vb>>) = spt[q][vb]
      BY <2>2 DEF Pages, PageAt
    <3> QED
      BY <3>1, <3>2
  <2>3. ASSUME spt[p][va] # NoPage, spt[p][va].slot # None
        PROVE  /\ spt[p][va].slot \in swap_bitmap
               /\ \A y \in Pages \ {<<p, va>>} : PageAt(y).slot # spt[p][va].slot
    BY <1>1, <2>1, <2>3 DEF SlotsAgree
  <2>4. ASSUME spt[p][va] # NoPage, ~spt[p][va].uninit, spt[p][va].kind = "anon"
        PROVE  spt[p][va].frame # None \/ spt[p][va].slot # None
    BY <1>1, <2>1, <2>4 DEF SlotsAgree
  <2>5. ASSUME spt[p][va] # NoPage, spt[p][va].slot # None, NEW q \in Proc, NEW vb \in Va,
               spt[q][vb] # NoPage, spt[q][vb].slot = spt[p][va].slot
        PROVE  q = p /\ vb = va
    <3>1. SUFFICES ASSUME ~(q = p /\ vb = va) PROVE FALSE
      OBVIOUS
    <3>2. PICK y \in Pages \ {<<p, va>>} : PageAt(y) = spt[q][vb]
      BY <2>2, <2>5, <3>1
    <3> QED
      BY <2>3, <2>5, <3>2
  <2> QED
    BY <2>3, <2>4, <2>5 DEF SlotAgrees
<1>2. ASSUME \A p \in Proc, va \in Va : SlotAgrees(p, va) PROVE SlotsAgree
  <2>1. ASSUME NEW x \in Pages
        PROVE  \E p \in Proc, va \in Va : x = <<p, va>> /\ PageAt(x) = spt[p][va]
                                          /\ spt[p][va] # NoPage
    <3>1. PICK p \in Proc, va \in Va : x = <<p, va>>
      BY DEF Pages
    <3> QED
      BY <3>1 DEF Pages, PageAt
  <2>2. ASSUME NEW x \in Pages, PageAt(x).slot # None
        PROVE  /\ PageAt(x).slot \in swap_bitmap
               /\ \A y \in Pages \ {x} : PageAt(y).slot # PageAt(x).slot
    <3>1. PICK p \in Proc, va \in Va : x = <<p, va>> /\ PageAt(x) = spt[p][va]
                                       /\ spt[p][va] # NoPage
      BY <2>1
    <3>2. SlotAgrees(p, va)
      BY <1>2
    <3>3. ASSUME NEW y \in Pages \ {x} PROVE PageAt(y).slot # PageAt(x).slot
      <4>1. PICK q \in Proc, vb \in Va : y = <<q, vb>> /\ PageAt(y) = spt[q][vb]
                                         /\ spt[q][vb] # NoPage
        BY <2>1
      <4>2. ~(q = p /\ vb = va)
        BY <3>1, <4>1
      <4> QED
        BY <2>2, <3>1, <3>2, <4>1, <4>2 DEF SlotAgrees
    <3> QED
      BY <2>2, <3>1, <3>2, <3>3 DEF SlotAgrees
  <2>3. ASSUME NEW x \in Pages, ~PageAt(x).uninit, PageAt(x).kind = "anon"
        PROVE  PageAt(x).frame # None \/ PageAt(x).slot # None
    <3>1. PICK p \in Proc, va \in Va : x = <<p, va>> /\ PageAt(x) = spt[p][va]
                                       /\ spt[p][va] # NoPage
      BY <2>1
    <3>2. SlotAgrees(p, va)
      BY <1>2
    <3> QED
      BY <2>3, <3>1, <3>2 DEF SlotAgrees
  <2> QED
    BY <2>2, <2>3 DEF SlotsAgree
<1> QED
  BY <1>1, <1>2

LEMMA SlotsNext == (\A p \in Proc, va \in Va : SlotAgrees(p, va)') => SlotsAgree'
<1>1. (SlotsAgree <=> \A p \in Proc, va \in Va : SlotAgrees(p, va))'
  BY SlotsAt, PTL
<1> QED
  BY <1>1

\* Steps that give no slot and take none: pages are new, gone, as they were, or got a frame.
SlotsSame ==
    \A p \in Proc, va \in Va :
        \/ spt'[p][va] = NoPage
        \/ spt'[p][va].uninit /\ spt'[p][va].slot = None
        \/ /\ spt[p][va] # NoPage
           /\ spt'[p][va].slot = spt[p][va].slot /\ spt'[p][va].uninit = spt[p][va].uninit
           /\ spt'[p][va].kind = spt[p][va].kind
           /\ spt'[p][va].frame = spt[p][va].frame \/ spt'[p][va].frame # None

LEMMA SlotsStay ==
    ASSUME SlotsAgree, swap_bitmap' = swap_bitmap, SlotsSame
    PROVE  SlotsAgree'
<1>1. \A p \in Proc, va \in Va : SlotAgrees(p, va)
  BY SlotsAt
<1>2. ASSUME NEW p \in Proc, NEW va \in Va PROVE SlotAgrees(p, va)'
  <2>1. CASE spt'[p][va] = NoPage \/ (spt'[p][va].uninit /\ spt'[p][va].slot = None)
    BY <2>1 DEF SlotAgrees
  <2>2. CASE ~(spt'[p][va] = NoPage \/ (spt'[p][va].uninit /\ spt'[p][va].slot = None))
    <3>1. /\ spt[p][va] # NoPage
          /\ spt'[p][va].slot = spt[p][va].slot /\ spt'[p][va].uninit = spt[p][va].uninit
          /\ spt'[p][va].kind = spt[p][va].kind
          /\ spt'[p][va].frame = spt[p][va].frame \/ spt'[p][va].frame # None
      BY <2>2 DEF SlotsSame
    <3>2. SlotAgrees(p, va)
      BY <1>1
    <3>3. ASSUME NEW q \in Proc, NEW vb \in Va, spt'[q][vb] # NoPage,
                 spt'[q][vb].slot = spt'[p][va].slot, spt'[p][va].slot # None
          PROVE  q = p /\ vb = va
      <4>1. spt[q][vb] # NoPage /\ spt[q][vb].slot = spt[p][va].slot
        BY <3>1, <3>3 DEF SlotsSame
      <4> QED
        BY <3>1, <3>2, <3>3, <4>1 DEF SlotAgrees
    <3> QED
      BY <3>1, <3>2, <3>3 DEF SlotAgrees
  <2> QED
    BY <2>1, <2>2
<1> QED
  BY <1>2, SlotsNext

LEMMA SlotsUnchanged ==
    ASSUME VInv, SlotsAgree, UNCHANGED <<spt, swap_bitmap>>
    PROVE  SlotsAgree'
<1>1. SlotsSame
  BY DEF SlotsSame
<1> QED
  BY <1>1, SlotsStay

\* The steps that touch no page.
LEMMA SlotsIdle ==
    ASSUME VInv, SlotsAgree, NEW p \in Proc,
           \/ \E va \in Va : \/ \E v \in Value : Write(p, va, v)
                             \/ Fault(p, va) \/ StackFault(p, va) \/ Munmap(p, va)
           \/ GetFrame(p) \/ KillDone(p) \/ Exit(p) \/ Exec(p) \/ LoadFails(p)
           \/ \E c \in Proc : Fork(p, c)
           \/ Copied(p) \/ CopyDone(p) \/ CopyFails(p)
    PROVE  SlotsAgree'
<1>1. UNCHANGED <<spt, swap_bitmap>>
  BY DEF Write, Fault, StackFault, Munmap, GetFrame, KillDone, Exit, Exec, LoadFails, Fork,
         Copied, CopyDone, CopyFails, tableVars, diskVars
<1> QED
  BY <1>1, SlotsUnchanged

\* One page is new, gone, or as it was.
LEMMA SlotsOnePage ==
    ASSUME VInv, SlotsAgree, swap_bitmap' = swap_bitmap, NEW p \in Proc, NEW va \in Va,
           NEW page \in PageRecord \cup {NoPage}, spt' = [spt EXCEPT ![p][va] = page],
           page = NoPage \/ (page.uninit /\ page.slot = None)
    PROVE  SlotsAgree'
<1>1. /\ spt'[p][va] = page
      /\ \A q \in Proc, vb \in Va : q # p \/ vb # va => spt'[q][vb] = spt[q][vb]
  BY VmState DEF VInv
<1>2. SlotsSame
  BY <1>1 DEF SlotsSame
<1> QED
  BY <1>2, SlotsStay

LEMMA SlotsNew ==
    ASSUME VInv, SlotsAgree, NEW p \in Proc,
           \/ StackGrowth(p) \/ Load(p)
           \/ \E va \in Va : CopyNext(p, va) \/ \E ofs \in MapFrom : Mmap(p, va, ofs)
    PROVE  SlotsAgree'
<1>0. WellFormed
  BY DEF VInv
<1>1. swap_bitmap' = swap_bitmap
  BY DEF StackGrowth, Load, Mmap, CopyNext, diskVars
<1>2. CASE StackGrowth(p)
  <2>1. CASE at[p] \in Va /\ PageOf(p, at[p]) = NoPage
    <3>1. PICK page : page = NewPage("anon", FALSE, 0, 0, None)
      OBVIOUS
    <3>2. page \in PageRecord /\ page.uninit /\ page.slot = None
      BY <3>1, VmConstants DEF NewPage, PageRecord
    <3>3. spt' = [spt EXCEPT ![p][at[p]] = page]
      BY <1>2, <2>1, <3>1 DEF StackGrowth
    <3> QED
      BY <1>1, <2>1, <3>2, <3>3, SlotsOnePage
  <2>2. CASE ~(at[p] \in Va /\ PageOf(p, at[p]) = NoPage)
    <3>1. spt' = spt
      BY <1>2, <2>2 DEF StackGrowth
    <3> QED
      BY <1>1, <3>1, SlotsUnchanged
  <2> QED
    BY <2>1, <2>2
<1>3. CASE Load(p)
  <2>1. spt'[p] = LoadedPages(p) /\ \A q \in Proc \ {p} : spt'[q] = spt[q]
    BY <1>0, <1>3, VmState DEF Load
  <2>2. SlotsSame
    BY <2>1, LoadedIs DEF SlotsSame
  <2> QED
    BY <1>1, <2>2, SlotsStay
<1>4. ASSUME NEW va \in Va, NEW ofs \in MapFrom, Mmap(p, va, ofs) PROVE SlotsAgree'
  <2>1. spt'[p] = MappedPages(p, va, ofs) /\ \A q \in Proc \ {p} : spt'[q] = spt[q]
    BY <1>0, <1>4, VmState DEF Mmap
  <2>2. SlotsSame
    BY <1>0, <2>1, MappedIs DEF SlotsSame
  <2> QED
    BY <1>1, <2>2, SlotsStay
<1>5. ASSUME NEW va \in Va, CopyNext(p, va) PROVE SlotsAgree'
  <2>1. PICK page \in PageRecord :
          /\ page.uninit /\ page.slot = None
          /\ spt' = [spt EXCEPT ![p][va] = page]
    BY <1>5, CopyNextIs
  <2> QED
    BY <1>1, <2>1, SlotsOnePage
<1> QED
  BY <1>2, <1>3, <1>4, <1>5

LEMMA SlotsGone ==
    ASSUME VInv, SlotsAgree, NEW p \in Proc, UnmapNext(p) \/ \E va \in Va : KillNext(p, va)
    PROVE  SlotsAgree'
<1>1. swap_bitmap' = swap_bitmap
  BY DEF UnmapNext, KillNext
<1>2. CASE UnmapNext(p) /\ ~MoreToUnmap(p)
  <2>1. spt' = spt
    BY <1>2 DEF UnmapNext
  <2> QED
    BY <1>1, <2>1, SlotsUnchanged
<1>3. CASE UnmapNext(p) /\ MoreToUnmap(p)
  <2>1. spt' = [spt EXCEPT ![p][at[p]] = NoPage] /\ at[p] \in Va
    BY <1>3 DEF UnmapNext, MoreToUnmap, PageOf, Dealloc
  <2> QED
    BY <1>1, <2>1, SlotsOnePage
<1>4. ASSUME NEW va \in Va, KillNext(p, va) PROVE SlotsAgree'
  <2>1. spt' = [spt EXCEPT ![p][va] = NoPage]
    BY <1>4 DEF KillNext, Dealloc
  <2> QED
    BY <1>1, <2>1, SlotsOnePage
<1> QED
  BY <1>2, <1>3, <1>4

LEMMA SlotsLink ==
    ASSUME VInv, SlotsAgree, NEW p \in Proc, Link(p)
    PROVE  SlotsAgree'
<1>1. at[p] \in Va /\ frame[p] \in Frame /\ spt[p][at[p]] # NoPage /\ pc[p] = "link"
  BY LinkIs, ClaimedPage DEF Claiming
<1>2. PICK page \in PageRecord :
        /\ spt' = [spt EXCEPT ![p][at[p]] = page]
        /\ page.frame = frame[p] /\ page.kind = spt[p][at[p]].kind
        /\ page.slot = spt[p][at[p]].slot /\ page.uninit = spt[p][at[p]].uninit
  BY LinkIs
<1>3. /\ spt'[p][at[p]] = page
      /\ \A q \in Proc, vb \in Va : q # p \/ vb # at[p] => spt'[q][vb] = spt[q][vb]
  BY <1>1, <1>2, VmState DEF VInv
<1>4. SlotsSame
  BY <1>1, <1>2, <1>3, VmConstants DEF SlotsSame
<1>5. swap_bitmap' = swap_bitmap
  BY DEF Link, diskVars
<1> QED
  BY <1>4, <1>5, SlotsStay

\* The victim's value goes to a slot nobody has.
LEMMA SlotsEvict ==
    ASSUME VInv, SlotsAgree, NEW p \in Proc, EvictFrame(p)
    PROVE  SlotsAgree'
<1>0. WellFormed /\ frame[p] \in Frame
  BY DEF VInv, Busy, EvictFrame
<1>1. CASE CannotEvict(p)
  <2>1. UNCHANGED <<spt, swap_bitmap>>
    BY <1>1 DEF EvictFrame, tableVars, diskVars
  <2> QED
    BY <2>1, SlotsUnchanged
<1>2. CASE ~CannotEvict(p)
  <2>1. PICK q \in Proc, va \in Va, page \in PageRecord : Evicts(p, q, va, page)
    BY <1>0, <1>2, EvictIs
  <2>2. /\ spt[q][va] # NoPage /\ ~spt[q][va].uninit
        /\ spt' = [spt EXCEPT ![q][va] = page]
        /\ page.kind = spt[q][va].kind /\ page.uninit = FALSE
        /\ \/ /\ page.kind = "anon" /\ page.slot \in Slot \ swap_bitmap
              /\ swap_bitmap' = swap_bitmap \cup {page.slot}
           \/ /\ page.kind = "file" /\ page.slot = spt[q][va].slot
              /\ swap_bitmap' = swap_bitmap
    BY <2>1 DEF Evicts
  <2>3. /\ spt'[q][va] = page
        /\ \A r \in Proc, vb \in Va : r # q \/ vb # va => spt'[r][vb] = spt[r][vb]
    <3>1. page \in PageRecord \cup {NoPage}
      OBVIOUS
    <3>2. spt' = [spt EXCEPT ![q][va] = page]
      BY <2>2
    <3> QED
      BY <1>0, <3>1, <3>2, VmState
  <2>4. \A r \in Proc, vb \in Va : SlotAgrees(r, vb)
    BY SlotsAt
  <2>5. ASSUME NEW r \in Proc, NEW vb \in Va PROVE SlotAgrees(r, vb)'
    <3>1. CASE page.kind = "anon"
      <4>0. /\ page.slot \in Slot \ swap_bitmap /\ page.slot # None
            /\ swap_bitmap' = swap_bitmap \cup {page.slot}
        BY <2>2, <3>1, VmConstants
      <4>1. ASSUME NEW s \in Proc, NEW vc \in Va, s # q \/ vc # va, spt'[s][vc] # NoPage
            PROVE  spt'[s][vc].slot # page.slot
        <5>1. spt[s][vc] = spt'[s][vc] /\ SlotAgrees(s, vc)
          BY <2>3, <2>4, <4>1
        <5> QED
          BY <4>0, <4>1, <5>1 DEF SlotAgrees
      <4>2. CASE r = q /\ vb = va
        BY <2>3, <4>0, <4>1, <4>2 DEF SlotAgrees
      <4>3. CASE r # q \/ vb # va
        <5>1. spt'[r][vb] = spt[r][vb] /\ SlotAgrees(r, vb)
          BY <2>3, <2>4, <4>3
        <5>2. ASSUME NEW s \in Proc, NEW vc \in Va, spt'[r][vb] # NoPage, spt'[s][vc] # NoPage,
                     spt'[r][vb].slot # None, spt'[s][vc].slot = spt'[r][vb].slot
              PROVE  s = r /\ vc = vb
          <6>1. s # q \/ vc # va
            BY <2>3, <4>1, <4>3, <5>2
          <6>2. spt'[s][vc] = spt[s][vc]
            BY <2>3, <6>1
          <6> QED
            BY <5>1, <5>2, <6>2 DEF SlotAgrees
        <5> QED
          BY <4>0, <5>1, <5>2 DEF SlotAgrees
      <4> QED
        BY <4>2, <4>3
    <3>2. CASE page.kind # "anon"
      <4>1. /\ page.kind = "file" /\ page.slot = spt[q][va].slot /\ swap_bitmap' = swap_bitmap
        BY <2>2, <3>2
      <4>2. \A s \in Proc, vc \in Va :
              /\ spt'[s][vc] # NoPage => spt[s][vc] # NoPage /\ spt'[s][vc].slot = spt[s][vc].slot
        BY <2>2, <2>3, <4>1
      <4>3. SlotAgrees(r, vb)
        BY <2>4
      <4>4. spt'[r][vb] # NoPage /\ spt'[r][vb].kind = "anon" => spt'[r][vb] = spt[r][vb]
        BY <2>3, <4>1
      <4> QED
        BY <4>1, <4>2, <4>3, <4>4 DEF SlotAgrees
    <3> QED
      BY <3>1, <3>2
  <2> QED
    BY <2>5, SlotsNext
<1> QED
  BY <1>1, <1>2

\* The slot of the page that comes in is free again, and was nobody else's.
LEMMA SlotsFill ==
    ASSUME VInv, SlotsAgree, NEW p \in Proc, Fill(p)
    PROVE  SlotsAgree'
<1>0. WellFormed /\ pc[p] = "fill"
  BY DEF VInv, Fill
<1>1. CASE UNCHANGED <<spt, swap_bitmap>>
  BY <1>1, SlotsUnchanged
<1>2. CASE \E page \in PageRecord : Fills(p, page)
  <2>1. PICK page \in PageRecord : Fills(p, page)
    BY <1>2
  <2>2. /\ spt' = [spt EXCEPT ![p][at[p]] = page]
        /\ page.frame \in Frame /\ page.slot = None
        /\ swap_bitmap \ {spt[p][at[p]].slot} \subseteq swap_bitmap'
    BY <2>1 DEF Fills
  <2>3. at[p] \in Va /\ spt[p][at[p]] # NoPage
    BY <1>0, ClaimedPage DEF Claiming
  <2>4. /\ spt'[p][at[p]] = page
        /\ \A r \in Proc, vb \in Va : r # p \/ vb # at[p] => spt'[r][vb] = spt[r][vb]
    <3>1. page \in PageRecord \cup {NoPage}
      OBVIOUS
    <3>2. spt' = [spt EXCEPT ![p][at[p]] = page]
      BY <2>2
    <3> QED
      BY <1>0, <2>3, <3>1, <3>2, VmState
  <2>5. ASSUME NEW r \in Proc, NEW vb \in Va PROVE SlotAgrees(r, vb)'
    <3>1. CASE r = p /\ vb = at[p]
      BY <2>2, <2>4, <3>1, VmConstants DEF SlotAgrees
    <3>2. CASE r # p \/ vb # at[p]
      <4>1. spt'[r][vb] = spt[r][vb] /\ SlotAgrees(r, vb)
        BY <2>4, <3>2, SlotsAt
      <4>2. spt[r][vb] # NoPage /\ spt[r][vb].slot # None => spt[p][at[p]].slot # spt[r][vb].slot
        BY <2>3, <3>2, <4>1 DEF SlotAgrees
      <4>3. ASSUME NEW s \in Proc, NEW vc \in Va, spt'[r][vb] # NoPage, spt'[s][vc] # NoPage,
                   spt'[r][vb].slot # None, spt'[s][vc].slot = spt'[r][vb].slot
            PROVE  s = r /\ vc = vb
        <5>1. spt'[s][vc] = spt[s][vc]
          BY <2>2, <2>4, <4>3
        <5> QED
          BY <4>1, <4>3, <5>1 DEF SlotAgrees
      <4> QED
        BY <2>2, <4>1, <4>2, <4>3 DEF SlotAgrees
    <3> QED
      BY <3>1, <3>2
  <2> QED
    BY <2>5, SlotsNext
<1> QED
  BY <1>1, <1>2, FillIs

LEMMA SlotsSteps == VInv /\ SlotsAgree /\ [Next]_vars => SlotsAgree'
<1> SUFFICES ASSUME VInv, SlotsAgree, [Next]_vars PROVE SlotsAgree'
  OBVIOUS
<1>1. CASE UNCHANGED vars \/ Stopped
  <2>1. UNCHANGED <<spt, swap_bitmap>>
    BY <1>1 DEF Stopped, vars, tableVars, diskVars
  <2> QED
    BY <2>1, SlotsUnchanged
<1>2. ASSUME NEW p \in Proc, Step(p) PROVE SlotsAgree'
  BY <1>2, SlotsIdle, SlotsNew, SlotsGone, SlotsLink, SlotsEvict, SlotsFill DEF Step
<1> QED
  BY <1>1, <1>2 DEF Next

LEMMA SlotsInit == Init => SlotsAgree
<1> SUFFICES ASSUME Init, NEW p \in Proc, NEW va \in Va PROVE SlotAgrees(p, va)
  BY SlotsAt
<1>1. spt[p][va] # NoPage => spt[p][va] = LoadedPages(p)[va]
  BY DEF Init
<1> QED
  BY <1>1, LoadedIs DEF SlotAgrees

\* anon_swap_out and anon_swap_in, and everything that makes or ends pages: no slot of the
\* swap disk keeps two pages, none that keeps one is free, and the value of a page of a
\* process's own is in a frame or in a slot.
THEOREM SlotsAreKept == Spec => []SlotsAgree
<1> QED
  BY VmInit, VmSteps, SlotsInit, SlotsSteps, PTL DEF Spec

(***************************************************************************)
(* Frames, pages and page tables.                                          *)
(***************************************************************************)
\* The frame of a page is on the list, knows the page, and is mapped for it.
PageFrame(p, va) ==
    spt[p][va] # NoPage /\ spt[p][va].frame # None =>
        /\ spt[p][va].frame \in Range(frame_list)
        /\ page_of[spt[p][va].frame] = <<p, va>>
        /\ pml4[p][va] = spt[p][va].frame

FramePage(f) ==
    page_of[f] # None =>
        \E p \in Proc, va \in Va :
            page_of[f] = <<p, va>> /\ spt[p][va] # NoPage /\ spt[p][va].frame = f

\* A mapped frame is given out and mapped once: for its page, or for one that
\* supplemental_page_table_kill has ended.
Entry(p, va) ==
    pml4[p][va] # None =>
        /\ pml4[p][va] \in used
        /\ spt[p][va] # NoPage => spt[p][va].frame = pml4[p][va]
        /\ spt[p][va] = NoPage => pc[p] = "kill" /\ pml4[p][va] \notin Range(frame_list)
        /\ \A q \in Proc, vb \in Va : pml4[q][vb] = pml4[p][va] => q = p /\ vb = va

Tables ==
    /\ Range(frame_list) \subseteq used
    /\ \A p \in Proc, va \in Va : PageFrame(p, va) /\ Entry(p, va)
    /\ \A f \in Frame : FramePage(f)

\* A page that is claimed has no frame yet, and the frame it will get no page.
Fresh(p) ==
    /\ pc[p] \in {"claim", "evict", "link"} => spt[p][at[p]].frame = None
    /\ pc[p] \in {"evict", "link"} => frame[p] \in Range(frame_list)
    /\ pc[p] = "link" => page_of[frame[p]] = None
LinksApart == \A p, q \in Proc : pc[p] = "link" /\ pc[q] = "link" /\ frame[p] = frame[q] => p = q

\* A page in a frame is initialized, but for the one that is being filled; do_munmap
\* will meet pages of the mapping only.
Untouched(p) ==
    /\ pc[p] # "kill" => \A va \in Va :
         spt[p][va] # NoPage /\ spt[p][va].uninit /\ spt[p][va].frame # None =>
             pc[p] = "fill" /\ at[p] = va
    /\ pc[p] = "unmap" => \A k \in Nat :
         k < left[p] /\ PageOf(p, at[p] + k) # NoPage => PageOf(p, at[p] + k).kind = "file"

FrInv == Tables /\ LinksApart /\ \A p \in Proc : Fresh(p) /\ Untouched(p)
-----------------------------------------------------------------------------
\* What the others are at is not disturbed.
LEMMA OthersStay ==
    ASSUME VInv, FrInv, EvictsAlone, NEW p \in Proc, pc[p] # "none",
           \A q \in Proc \ {p} : /\ pc'[q] = pc[q] /\ at'[q] = at[q] /\ frame'[q] = frame[q]
                                 /\ left'[q] = left[q],
           \A q \in Proc \ {p}, va \in Va : spt'[q][va] = spt[q][va],
           \A q \in Proc \ {p} : pc[q] = "link" =>
               /\ frame[q] \in Range(frame_list)' /\ page_of'[frame[q]] = None
               /\ pc'[p] = "link" => frame'[p] # frame[q],
           Tables', Fresh(p)', Untouched(p)'
    PROVE  FrInv'
<1>1. ASSUME NEW q \in Proc, q # p PROVE Fresh(q)' /\ Untouched(q)'
  <2>1. Fresh(q) /\ Untouched(q) /\ Busy(q) /\ pc[q] # "evict"
    BY <1>1 DEF FrInv, VInv, EvictsAlone, Live
  <2>2. Fresh(q)'
    BY <1>1, <2>1 DEF Fresh, Busy, Claiming
  <2>3. \A x : PageOf(q, x)' = PageOf(q, x)
    BY <1>1 DEF PageOf
  <2>4. Untouched(q)'
    BY <1>1, <2>1, <2>3 DEF Untouched
  <2> QED
    BY <2>2, <2>4
<1>2. LinksApart'
  BY DEF FrInv, LinksApart
<1> QED
  BY <1>1, <1>2 DEF FrInv

\* Nothing but places changes.
LEMMA TablesStay ==
    ASSUME VInv, FrInv, UNCHANGED <<spt, pml4, frame_list, page_of, used>>,
           \A p \in Proc : pc[p] = "kill" => pc'[p] = "kill"
    PROVE  Tables'
<1>1. \A p \in Proc, va \in Va : PageFrame(p, va)'
  BY DEF FrInv, Tables, PageFrame
<1>2. \A p \in Proc, va \in Va : Entry(p, va)'
  BY DEF FrInv, Tables, Entry
<1>3. \A f \in Frame : FramePage(f)'
  BY DEF FrInv, Tables, FramePage
<1> QED
  BY <1>1, <1>2, <1>3 DEF FrInv, Tables

LEMMA PlacesStep ==
    ASSUME VInv, FrInv, EvictsAlone, NEW p \in Proc, pc[p] # "none",
           \A q \in Proc \ {p} : /\ pc'[q] = pc[q] /\ at'[q] = at[q] /\ frame'[q] = frame[q]
                                 /\ left'[q] = left[q],
           UNCHANGED <<spt, pml4, frame_list, page_of, used>>,
           pc[p] = "kill" => pc'[p] = "kill",
           pc'[p] # "link", Fresh(p)', Untouched(p)'
    PROVE  FrInv'
<1>1. Tables'
  BY TablesStay
<1>2. \A q \in Proc \ {p} : pc[q] = "link" =>
        frame[q] \in Range(frame_list)' /\ page_of'[frame[q]] = None
  BY DEF FrInv, Fresh
<1> QED
  BY <1>1, <1>2, OthersStay

\* No page of a process that fills none and is not killed waits in a frame to be initialized.
LEMMA NoneUntouched ==
    ASSUME FrInv, NEW p \in Proc, pc[p] \notin {"fill", "kill"}
    PROVE  \A va \in Va : spt[p][va] # NoPage /\ spt[p][va].uninit => spt[p][va].frame = None
  BY DEF FrInv, Untouched

\* Steps of user code that change no table.
LEMMA FrIdle ==
    ASSUME VInv, FrInv, EvictsAlone, NEW p \in Proc,
           Exit(p) \/ LoadFails(p) \/ Exec(p) \/ Copied(p)
           \/ \E va \in Va : StackFault(p, va) \/ \E v \in Value : Write(p, va, v)
    PROVE  FrInv'
<1>0. WellFormed
  BY DEF VInv
<1>1. /\ UNCHANGED <<frame, left, spt, pml4, frame_list, page_of, used>>
      /\ pc[p] \in {"user", "load", "copied"}
  BY DEF Exit, LoadFails, Exec, Copied, StackFault, Write, localVars, tableVars, frameVars
<1>2. /\ pc'[p] \in {"user", "kill", "grow", "copy"}
      /\ \A q \in Proc \ {p} : pc'[q] = pc[q] /\ at'[q] = at[q]
  <2>1. CASE Exit(p) \/ LoadFails(p)
    <3>1. Exiting(p) /\ at' = at
      BY <2>1 DEF Exit, LoadFails
    <3> QED
      BY <1>0, <3>1, ExitingIs
  <2>2. CASE Exec(p)
    <3>1. Goto(p, "kill") /\ at' = at /\ "kill" \in Places
      BY <2>2 DEF Exec, Places
    <3> QED
      BY <1>0, <3>1, GotoIs
  <2>3. CASE Copied(p)
    <3>1. (Exiting(p) \/ Goto(p, "copy")) /\ at' = at /\ "copy" \in Places
      BY <2>3 DEF Copied, Places
    <3> QED
      BY <1>0, <3>1, GotoIs, ExitingIs
  <2>4. ASSUME NEW va \in Va, StackFault(p, va)
        PROVE  pc'[p] = "grow" /\ \A q \in Proc \ {p} : pc'[q] = pc[q] /\ at'[q] = at[q]
    <3>1. Goto(p, "grow") /\ at' = [at EXCEPT ![p] = va] /\ "grow" \in Places
      BY <2>4 DEF StackFault, Places
    <3> QED
      BY <1>0, <3>1, GotoIs, VmState
  <2>5. ASSUME NEW va \in Va, NEW v \in Value, Write(p, va, v) PROVE pc' = pc /\ at' = at
                                                                   /\ pc[p] = "user"
    BY <2>5 DEF Write, localVars
  <2> QED
    BY <2>1, <2>2, <2>3, <2>4, <2>5
<1>3. Fresh(p)'
  BY <1>2 DEF Fresh
<1>4. Untouched(p)'
  BY <1>1, <1>2, NoneUntouched DEF Untouched
<1> QED
  BY <1>1, <1>2, <1>3, <1>4, PlacesStep

LEMMA FrFault ==
    ASSUME VInv, FrInv, EvictsAlone, NEW p \in Proc, NEW va \in Va, Fault(p, va)
    PROVE  FrInv'
<1>0. /\ WellFormed /\ pc[p] = "user" /\ pml4[p][va] = None /\ spt[p][va] # NoPage
      /\ Claim(p, va, "user") /\ "user" \in Places
      /\ UNCHANGED <<frame, left, spt, pml4, frame_list, page_of, used>>
  BY DEF VInv, Fault, Places, tableVars, frameVars
<1>1. /\ pc'[p] = "claim" /\ at'[p] = va
      /\ \A q \in Proc \ {p} : pc'[q] = pc[q] /\ at'[q] = at[q]
  BY <1>0, ClaimIs
<1>2. spt[p][va].frame = None
  BY <1>0 DEF FrInv, Tables, PageFrame
<1>3. Fresh(p)'
  BY <1>0, <1>1, <1>2 DEF Fresh
<1>4. Untouched(p)'
  BY <1>0, <1>1, NoneUntouched DEF Untouched
<1> QED
  BY <1>0, <1>1, <1>3, <1>4, PlacesStep

\* munmap finds the mapping whole.
LEMMA FrMunmap ==
    ASSUME VInv, FrInv, EvictsAlone, MappingsAreWhole, NEW p \in Proc, NEW va \in Va,
           Munmap(p, va)
    PROVE  FrInv'
<1>0. /\ WellFormed /\ pc[p] = "user" /\ spt[p][va] # NoPage /\ spt[p][va].kind = "file"
      /\ Goto(p, "unmap") /\ "unmap" \in Places
      /\ at' = [at EXCEPT ![p] = va] /\ left' = [left EXCEPT ![p] = spt[p][va].read_bytes]
      /\ UNCHANGED <<frame, spt, pml4, frame_list, page_of, used>>
  BY DEF VInv, Munmap, Places, tableVars, frameVars
<1>1. /\ pc'[p] = "unmap" /\ at'[p] = va /\ left'[p] = spt[p][va].read_bytes
      /\ \A q \in Proc \ {p} : pc'[q] = pc[q] /\ at'[q] = at[q] /\ left'[q] = left[q]
  BY <1>0, GotoIs, VmState
<1>2. Fresh(p)'
  BY <1>1 DEF Fresh
<1>3. ASSUME NEW k \in Nat, k < spt[p][va].read_bytes, PageOf(p, va + k) # NoPage
      PROVE  PageOf(p, va + k).kind = "file"
  <2>1. CASE k = 0
    BY <1>0, <2>1, VmConstants DEF PageOf
  <2>2. CASE k # 0
    <3>1. PICK x : x = <<p, va>>
      OBVIOUS
    <3>2. x \in Pages /\ PageAt(x) = spt[p][va] /\ x[1] = p /\ x[2] = va
      BY <1>0, <3>1 DEF Pages, PageAt
    <3>3. \A j \in 1..PageAt(x).read_bytes - 1 :
            LET page == PageOf(x[1], x[2] + j) IN
            page = NoPage \/ (page.kind = "file" /\ page.ofs = PageAt(x).ofs + j)
      BY <1>0, <3>2 DEF MappingsAreWhole
    <3>4. k \in 1..spt[p][va].read_bytes - 1
      <4>1. spt[p][va].read_bytes \in Nat
        BY <1>0, PageFields, VmConstants
      <4> QED
        BY <1>3, <2>2, <4>1
    <3> QED
      BY <1>3, <3>2, <3>3, <3>4
  <2> QED
    BY <2>1, <2>2
<1>4. Untouched(p)'
  <2>1. \A x : PageOf(p, x)' = PageOf(p, x)
    BY <1>0 DEF PageOf
  <2>2. \A vb \in Va : spt'[p][vb] # NoPage /\ spt'[p][vb].uninit => spt'[p][vb].frame = None
    BY <1>0, NoneUntouched
  <2>3. \A k \in Nat : k < left'[p] /\ PageOf(p, at'[p] + k) # NoPage =>
                       PageOf(p, at'[p] + k).kind = "file"
    BY <1>1, <1>3
  <2> QED
    BY <2>1, <2>2, <2>3 DEF Untouched
<1> QED
  BY <1>0, <1>1, <1>2, <1>4, PlacesStep

\* fork and its end change the place of two.
LEMMA FrFork ==
    ASSUME VInv, FrInv, EvictsAlone, NEW p \in Proc,
           CopyDone(p) \/ CopyFails(p) \/ \E c \in Proc : Fork(p, c)
    PROVE  FrInv'
<1>0. /\ WellFormed /\ pc[p] # "none"
      /\ UNCHANGED <<at, frame, left, spt, pml4, frame_list, page_of, used>>
  BY DEF VInv, CopyDone, CopyFails, Fork, tableVars, frameVars
<1>1. PICK q, r \in Proc, place, there \in Places :
        /\ q # r /\ pc' = [pc EXCEPT ![q] = place, ![r] = there]
        /\ pc[q] \in {"user", "copy"} /\ pc[r] \in {"none", "fork"}
        /\ place \in {"fork", "user", "kill"} /\ there \in {"copy", "user"}
  <2>1. {"fork", "user", "kill", "copy"} \subseteq Places
    BY DEF Places
  <2>2. ASSUME NEW c \in Proc, Fork(p, c)
        PROVE  /\ p # c /\ pc' = [pc EXCEPT ![p] = "fork", ![c] = "copy"]
               /\ pc[p] = "user" /\ pc[c] = "none"
    BY <2>2 DEF Fork
  <2>3. ASSUME CopyDone(p) \/ CopyFails(p)
        PROVE  /\ parent[p] \in Proc /\ p # parent[p] /\ pc[p] = "copy" /\ pc[parent[p]] = "fork"
               /\ \/ pc' = [pc EXCEPT ![p] = "user", ![parent[p]] = "user"]
                  \/ pc' = [pc EXCEPT ![p] = "kill", ![parent[p]] = "user"]
    <3>1. pc[p] = "copy"
      BY <2>3 DEF CopyDone, CopyFails
    <3>2. parent[p] \in Proc /\ pc[parent[p]] = "fork"
      BY <1>0, <3>1, VmState DEF VInv, Family
    <3> QED
      BY <2>3, <3>1, <3>2 DEF CopyDone, CopyFails
  <2> QED
    BY <2>1, <2>2, <2>3
<1>2. /\ pc'[q] = place /\ pc'[r] = there /\ \A s \in Proc \ {q, r} : pc'[s] = pc[s]
  BY <1>0, <1>1, VmState
<1>3. Tables'
  BY <1>0, <1>1, <1>2, TablesStay
<1>4. ASSUME NEW s \in Proc PROVE Fresh(s)' /\ Untouched(s)'
  <2>1. Fresh(s) /\ Untouched(s)
    BY DEF FrInv
  <2>2. Fresh(s)'
    BY <1>0, <1>1, <1>2, <2>1 DEF Fresh
  <2>3. \A x : PageOf(s, x)' = PageOf(s, x)
    BY <1>0 DEF PageOf
  <2>4. Untouched(s)'
    <3>1. CASE s \in {q, r}
      <4>1. pc'[s] # "unmap"
        BY <1>1, <1>2, <3>1
      <4>2. \A va \in Va : spt[s][va] # NoPage /\ spt[s][va].uninit => spt[s][va].frame = None
        BY <1>1, <3>1, NoneUntouched
      <4> QED
        BY <1>0, <4>1, <4>2 DEF Untouched
    <3>2. CASE s \notin {q, r}
      BY <1>0, <1>2, <2>1, <2>3, <3>2 DEF Untouched
    <3> QED
      BY <3>1, <3>2
  <2> QED
    BY <2>2, <2>4
<1>5. LinksApart'
  <2>1. \A s \in Proc : pc'[s] = "link" => pc[s] = "link" /\ frame'[s] = frame[s]
    BY <1>0, <1>1, <1>2
  <2> QED
    BY <2>1 DEF FrInv, LinksApart
<1> QED
  BY <1>3, <1>4, <1>5 DEF FrInv

\* New pages have no frame.
LEMMA TablesNew ==
    ASSUME VInv, FrInv, NEW p \in Proc, pc[p] # "kill",
           UNCHANGED <<pml4, frame_list, page_of, used>>,
           \A q \in Proc \ {p} : pc'[q] = pc[q],
           \A q \in Proc \ {p}, va \in Va : spt'[q][va] = spt[q][va],
           \A va \in Va : \/ spt'[p][va] = spt[p][va]
                          \/ /\ spt[p][va] = NoPage /\ spt'[p][va] # NoPage
                             /\ spt'[p][va].uninit /\ spt'[p][va].frame = None
    PROVE  Tables'
<1>1. \A q \in Proc, va \in Va : PageFrame(q, va) /\ Entry(q, va)
  BY DEF FrInv, Tables
<1>2. ASSUME NEW q \in Proc, NEW va \in Va PROVE PageFrame(q, va)' /\ Entry(q, va)'
  <2>1. CASE spt'[q][va] = spt[q][va]
    <3>1. PageFrame(q, va)'
      BY <1>1, <2>1 DEF PageFrame
    <3>2. spt[q][va] = NoPage /\ pml4[q][va] # None => q # p
      BY <1>1 DEF Entry
    <3>3. Entry(q, va)'
      BY <1>1, <2>1, <3>2 DEF Entry
    <3> QED
      BY <3>1, <3>3
  <2>2. CASE spt'[q][va] # spt[q][va]
    <3>1. q = p /\ spt[p][va] = NoPage /\ spt'[p][va].frame = None
      BY <2>2
    <3>2. pml4[p][va] = None
      BY <1>1, <3>1 DEF Entry
    <3> QED
      BY <3>1, <3>2 DEF PageFrame, Entry
  <2> QED
    BY <2>1, <2>2
<1>3. ASSUME NEW f \in Frame PROVE FramePage(f)'
  <2>1. SUFFICES ASSUME page_of[f] # None PROVE FramePage(f)'
    BY DEF FramePage
  <2>2. PICK q \in Proc, va \in Va :
          page_of[f] = <<q, va>> /\ spt[q][va] # NoPage /\ spt[q][va].frame = f
    BY <2>1 DEF FrInv, Tables, FramePage
  <2>3. spt'[q][va] = spt[q][va]
    BY <2>2
  <2> QED
    BY <2>2, <2>3 DEF FramePage
<1> QED
  BY <1>2, <1>3 DEF FrInv, Tables

LEMMA NewStep ==
    ASSUME VInv, FrInv, EvictsAlone, NEW p \in Proc, pc[p] \notin {"kill", "fill", "none"},
           UNCHANGED <<frame, left, pml4, frame_list, page_of, used>>,
           \A q \in Proc \ {p} : pc'[q] = pc[q] /\ at'[q] = at[q],
           \A q \in Proc \ {p}, va \in Va : spt'[q][va] = spt[q][va],
           \A va \in Va : \/ spt'[p][va] = spt[p][va]
                          \/ /\ spt[p][va] = NoPage /\ spt'[p][va] # NoPage
                             /\ spt'[p][va].uninit /\ spt'[p][va].frame = None,
           pc'[p] \notin {"evict", "link", "unmap"},
           pc'[p] = "claim" => spt'[p][at'[p]].frame = None
    PROVE  FrInv'
<1>1. Tables'
  BY TablesNew
<1>2. Fresh(p)'
  BY DEF Fresh
<1>3. Untouched(p)'
  <2>1. \A va \in Va : spt'[p][va] # NoPage /\ spt'[p][va].uninit => spt'[p][va].frame = None
    BY NoneUntouched
  <2> QED
    BY <2>1 DEF Untouched
<1>4. \A q \in Proc \ {p} : pc[q] = "link" =>
        frame[q] \in Range(frame_list)' /\ page_of'[frame[q]] = None
  BY DEF FrInv, Fresh
<1> QED
  BY <1>1, <1>2, <1>3, <1>4, OthersStay

LEMMA FrNew ==
    ASSUME VInv, FrInv, EvictsAlone, NEW p \in Proc,
           \/ StackGrowth(p) \/ Load(p)
           \/ \E va \in Va : CopyNext(p, va) \/ \E ofs \in MapFrom : Mmap(p, va, ofs)
    PROVE  FrInv'
<1>0. /\ WellFormed /\ {"grow", "user", "copied"} \subseteq Places
      /\ UNCHANGED <<frame, left, pml4, frame_list, page_of, used>>
  BY DEF VInv, Places, StackGrowth, Load, Mmap, CopyNext, frameVars, localVars
<1>1. CASE StackGrowth(p)
  <2>0. pc[p] = "grow"
    BY <1>1 DEF StackGrowth
  <2>1. CASE at[p] \in Va /\ PageOf(p, at[p]) = NoPage
    <3>1. PICK page : page = NewPage("anon", FALSE, 0, 0, None)
      OBVIOUS
    <3>2. page \in PageRecord /\ page # NoPage /\ page.uninit /\ page.frame = None
      <4>1. page \in PageRecord
        BY <3>1, VmConstants DEF NewPage, PageRecord
      <4> QED
        BY <3>1, <4>1, PageKinds DEF NewPage
    <3>3. spt' = [spt EXCEPT ![p][at[p]] = page] /\ Claim(p, at[p], "grow")
      BY <1>1, <2>1, <3>1 DEF StackGrowth
    <3>4. /\ spt'[p][at[p]] = page
          /\ \A q \in Proc, vb \in Va : q # p \/ vb # at[p] => spt'[q][vb] = spt[q][vb]
      BY <1>0, <2>1, <3>2, <3>3, VmState
    <3>5. /\ pc'[p] = "claim" /\ at'[p] = at[p]
          /\ \A q \in Proc \ {p} : pc'[q] = pc[q] /\ at'[q] = at[q]
      BY <1>0, <2>1, <3>3, ClaimIs
    <3>6. spt[p][at[p]] = NoPage
      BY <2>1 DEF PageOf
    <3> QED
      BY <1>0, <2>0, <3>2, <3>4, <3>5, <3>6, NewStep
  <2>2. CASE ~(at[p] \in Va /\ PageOf(p, at[p]) = NoPage)
    <3>1. Goto(p, "user") /\ at' = at /\ spt' = spt
      BY <1>1, <2>2 DEF StackGrowth
    <3>2. pc'[p] = "user" /\ \A q \in Proc \ {p} : pc'[q] = pc[q]
      BY <1>0, <3>1, GotoIs
    <3> QED
      BY <1>0, <2>0, <3>1, <3>2, NewStep
  <2> QED
    BY <2>1, <2>2
<1>2. CASE Load(p)
  <2>1. /\ pc[p] = "load" /\ Claim(p, Top, "user") /\ Top \in Va
        /\ \A va \in Va : spt[p][va] = NoPage
    BY <1>2, VmConstants DEF Load, VInv, Busy
  <2>2. spt'[p] = LoadedPages(p) /\ \A q \in Proc \ {p} : spt'[q] = spt[q]
    BY <1>0, <1>2, VmState DEF Load
  <2>3. /\ pc'[p] = "claim" /\ at'[p] = Top
        /\ \A q \in Proc \ {p} : pc'[q] = pc[q] /\ at'[q] = at[q]
    BY <1>0, <2>1, ClaimIs
  <2>4. /\ spt'[p][at'[p]].frame = None
        /\ \A va \in Va : \/ spt'[p][va] = spt[p][va]
                          \/ /\ spt[p][va] = NoPage /\ spt'[p][va] # NoPage
                             /\ spt'[p][va].uninit /\ spt'[p][va].frame = None
    BY <2>1, <2>2, <2>3, LoadedIs
  <2> QED
    BY <1>0, <2>1, <2>2, <2>3, <2>4, NewStep
<1>3. ASSUME NEW va \in Va, NEW ofs \in MapFrom, Mmap(p, va, ofs) PROVE FrInv'
  <2>1. pc[p] = "user" /\ pc' = pc /\ at' = at
    BY <1>3 DEF Mmap, localVars
  <2>2. spt'[p] = MappedPages(p, va, ofs) /\ \A q \in Proc \ {p} : spt'[q] = spt[q]
    BY <1>0, <1>3, VmState DEF Mmap
  <2>3. \A x \in Va : \/ spt'[p][x] = spt[p][x]
                      \/ /\ spt[p][x] = NoPage /\ spt'[p][x] # NoPage
                         /\ spt'[p][x].uninit /\ spt'[p][x].frame = None
    BY <1>0, <2>2, MappedIs
  <2> QED
    BY <1>0, <2>1, <2>2, <2>3, NewStep
<1>4. ASSUME NEW va \in Va, CopyNext(p, va) PROVE FrInv'
  <2>1. pc[p] = "copy" /\ spt[p][va] = NoPage
    BY <1>4, CopyNextIs
  <2>2. PICK page \in PageRecord :
          /\ page # NoPage /\ page.uninit /\ page.frame = None
          /\ spt' = [spt EXCEPT ![p][va] = page]
    BY <1>4, CopyNextIs
  <2>3. /\ spt'[p][va] = page
        /\ \A q \in Proc, vb \in Va : q # p \/ vb # va => spt'[q][vb] = spt[q][vb]
    BY <1>0, <2>2, VmState
  <2>4. UNCHANGED <<pc, at, then>> \/ Claim(p, va, "copied")
    BY <1>4 DEF CopyNext
  <2>5. /\ pc'[p] = "copy" \/ (pc'[p] = "claim" /\ at'[p] = va)
        /\ \A q \in Proc \ {p} : pc'[q] = pc[q] /\ at'[q] = at[q]
    BY <1>0, <2>1, <2>4, ClaimIs
  <2> QED
    BY <1>0, <2>1, <2>2, <2>3, <2>5, NewStep
<1> QED
  BY <1>1, <1>2, <1>3, <1>4

\* A frame from the pool is nobody's.
LEMMA FrGetFrame ==
    ASSUME VInv, FrInv, EvictsAlone, NEW p \in Proc, GetFrame(p)
    PROVE  FrInv'
<1>0. /\ WellFormed /\ NoRepeat(frame_list) /\ pc[p] = "claim" /\ "evict" \in Places
      /\ UNCHANGED <<at, left, spt, pml4>>
  BY DEF VInv, Places, GetFrame, tableVars
<1>1. Fresh(p) /\ Tables /\ \A q \in Proc : Fresh(q)
  BY DEF FrInv
<1>2. CASE Frame \ used # {}
  <2>1. PICK f : f = Min(Frame \ used)
    OBVIOUS
  <2>2. f \in Frame \ used
    BY <1>0, <1>2, <2>1, FreeIs, VmConstants, VmState
  <2>3. Got(p, f) /\ used' = used \cup {f}
    BY <1>2, <2>1 DEF GetFrame
  <2>4. /\ Range(frame_list') = Range(frame_list) \cup {f}
        /\ page_of'[f] = None
        /\ \A g \in Frame \ {f} : page_of'[g] = page_of[g]
        /\ frame'[p] = f
        /\ \A q \in Proc \ {p} : frame'[q] = frame[q]
        /\ pc'[p] = "link"
        /\ \A q \in Proc \ {p} : pc'[q] = pc[q]
    BY <1>0, <2>2, <2>3, GotIs
  <2>5. f \notin Range(frame_list)
    BY <1>1, <2>2 DEF Tables
  <2>6. \A q \in Proc, va \in Va : PageFrame(q, va)'
    <3>1. ASSUME NEW q \in Proc, NEW va \in Va, spt[q][va] # NoPage, spt[q][va].frame # None
          PROVE  spt[q][va].frame \in Frame \ {f}
      <4>1. spt[q][va].frame \in Frame
        BY <1>0, <3>1, PageFields
      <4>2. spt[q][va].frame \in Range(frame_list)
        BY <1>1, <3>1 DEF Tables, PageFrame
      <4> QED
        BY <2>5, <4>1, <4>2
    <3>2. ASSUME NEW q \in Proc, NEW va \in Va PROVE PageFrame(q, va)'
      <4>1. PageFrame(q, va)
        BY <1>1 DEF Tables
      <4> QED
        BY <1>0, <2>4, <3>1, <4>1 DEF PageFrame
    <3> QED
      BY <3>2
  <2>7. \A q \in Proc, va \in Va : Entry(q, va)'
    <3>1. ASSUME NEW q \in Proc, NEW va \in Va, pml4[q][va] # None
          PROVE  pml4[q][va] # f /\ pml4[q][va] \in used
      BY <1>1, <2>2, <3>1 DEF Tables, Entry
    <3>2. \A q \in Proc : pc[q] = "kill" => pc'[q] = "kill"
      BY <1>0, <2>4
    <3> QED
      BY <1>0, <1>1, <2>3, <2>4, <3>1, <3>2 DEF Tables, Entry
  <2>8. \A g \in Frame : FramePage(g)'
    BY <1>0, <1>1, <2>4 DEF Tables, FramePage
  <2>9. Tables'
    BY <1>1, <2>3, <2>4, <2>6, <2>7, <2>8 DEF Tables
  <2>10. Fresh(p)' /\ Untouched(p)'
    <3>1. Fresh(p)'
      BY <1>0, <1>1, <2>4 DEF Fresh
    <3>2. Untouched(p)'
      BY <1>0, <2>4, NoneUntouched DEF Untouched
    <3> QED
      BY <3>1, <3>2
  <2>11. \A q \in Proc \ {p} : pc[q] = "link" =>
           /\ frame[q] \in Range(frame_list)' /\ page_of'[frame[q]] = None
           /\ pc'[p] = "link" => frame'[p] # frame[q]
    <3>1. ASSUME NEW q \in Proc \ {p}, pc[q] = "link"
          PROVE  frame[q] \in Frame \ {f} /\ frame[q] \in Range(frame_list)
                 /\ page_of[frame[q]] = None
      BY <1>1, <2>5, <3>1 DEF Fresh, VInv, Busy
    <3> QED
      BY <2>4, <3>1
  <2> QED
    BY <1>0, <2>4, <2>9, <2>10, <2>11, OthersStay
<1>3. CASE Frame \ used = {} /\ frame_list # <<>>
  <2>1. PICK f : f = Head(frame_list)
    OBVIOUS
  <2>2. f \in Frame /\ f \in Range(frame_list)
    BY <1>0, <1>3, <2>1, VmState, TailProps
  <2>3. /\ frame' = [frame EXCEPT ![p] = f] /\ Goto(p, "evict")
        /\ UNCHANGED <<used, page_of, frame_list>>
    BY <1>3, <2>1 DEF GetFrame
  <2>4. /\ pc'[p] = "evict" /\ \A q \in Proc \ {p} : pc'[q] = pc[q]
        /\ frame'[p] = f /\ \A q \in Proc \ {p} : frame'[q] = frame[q]
    BY <1>0, <2>2, <2>3, GotoIs, VmState
  <2>5. Fresh(p)'
    BY <1>0, <1>1, <2>2, <2>3, <2>4 DEF Fresh
  <2>6. Untouched(p)'
    BY <1>0, <2>4, NoneUntouched DEF Untouched
  <2> QED
    BY <1>0, <2>3, <2>4, <2>5, <2>6, PlacesStep
<1>4. CASE Frame \ used = {} /\ frame_list = <<>>
  <2>1. UNCHANGED <<pc, frame, used, page_of, frame_list>>
    BY <1>4 DEF GetFrame
  <2>2. Fresh(p)'
    BY <1>0, <1>1, <2>1 DEF Fresh
  <2>3. Untouched(p)'
    BY <1>0, <2>1, NoneUntouched DEF Untouched
  <2> QED
    BY <1>0, <2>1, <2>2, <2>3, PlacesStep
<1> QED
  BY <1>2, <1>3, <1>4

\* Alone, a process evicts a page of its own.
LEMMA FrEvict ==
    ASSUME VInv, FrInv, EvictsAlone, NEW p \in Proc, EvictFrame(p)
    PROVE  FrInv'
<1>0. /\ WellFormed /\ NoRepeat(frame_list) /\ pc[p] = "evict" /\ UNCHANGED <<at, left>>
      /\ frame[p] \in Frame /\ at[p] \in Va /\ spt[p][at[p]] # NoPage
  BY ClaimedPage DEF VInv, EvictFrame, Busy, Claiming
<1>1. Fresh(p) /\ Tables /\ \A q \in Proc : Fresh(q)
  BY DEF FrInv
<1>2. CASE CannotEvict(p)
  <2>1. UNCHANGED <<pc, frame, spt, pml4, used, page_of, frame_list>>
    BY <1>2 DEF EvictFrame, tableVars, frameVars
  <2>2. Fresh(p)'
    BY <1>0, <1>1, <2>1 DEF Fresh
  <2>3. Untouched(p)'
    BY <1>0, <2>1, NoneUntouched DEF Untouched
  <2> QED
    BY <1>0, <2>1, <2>2, <2>3, PlacesStep
<1>3. CASE ~CannotEvict(p)
  <2>0. PICK q \in Proc, va \in Va, page \in PageRecord : Evicts(p, q, va, page)
    BY <1>0, <1>3, EvictIs
  <2>1. /\ page_of[frame[p]] = <<q, va>>
        /\ spt[q][va] # NoPage
        /\ spt' = [spt EXCEPT ![q][va] = page]
        /\ page.frame = None /\ page.uninit = FALSE
        /\ pml4' = [pml4 EXCEPT ![p][va] = None]
        /\ Got(p, frame[p])
    BY <2>0 DEF Evicts
  <2>2. PICK f \in Frame : f = frame[p]
    BY <1>0
  <2>3. \A r \in Proc \ {p} : pc[r] = "none" /\ \A vb \in Va : spt[r][vb] = NoPage
    BY <1>0 DEF EvictsAlone, Live, VInv, Busy
  <2>4. q = p
    BY <2>1, <2>3
  <2>5. used' = used
    BY <1>3 DEF EvictFrame
  <2>6. /\ Range(frame_list') = Range(frame_list) \cup {f}
        /\ page_of'[f] = None
        /\ \A g \in Frame \ {f} : page_of'[g] = page_of[g]
        /\ frame'[p] = f
        /\ \A r \in Proc \ {p} : frame'[r] = frame[r]
        /\ pc'[p] = "link"
        /\ \A r \in Proc \ {p} : pc'[r] = pc[r]
    BY <1>0, <2>1, <2>2, GotIs
  <2>7. f \in Range(frame_list)
    BY <1>0, <1>1, <2>2 DEF Fresh
  <2>8. /\ spt'[p][va] = page
        /\ \A r \in Proc, vb \in Va : r # p \/ vb # va => spt'[r][vb] = spt[r][vb]
    BY <1>0, <2>1, <2>4, VmState
  <2>9. /\ pml4'[p][va] = None
        /\ \A r \in Proc, vb \in Va : r # p \/ vb # va => pml4'[r][vb] = pml4[r][vb]
    BY <1>0, <2>1, VmState
  <2>10. page # NoPage
    BY PageKinds
  <2>11. \A r \in Proc, vb \in Va : PageFrame(r, vb)'
    <3>1. ASSUME NEW r \in Proc, NEW vb \in Va, r # p \/ vb # va PROVE PageFrame(r, vb)'
      <4>1. PageFrame(r, vb) /\ spt'[r][vb] = spt[r][vb] /\ pml4'[r][vb] = pml4[r][vb]
        BY <1>1, <2>8, <2>9, <3>1 DEF Tables
      <4>2. ASSUME spt[r][vb] # NoPage, spt[r][vb].frame # None
            PROVE  spt[r][vb].frame \in Frame \ {f}
        <5>1. spt[r][vb].frame \in Frame
          BY <1>0, <4>2, PageFields
        <5>2. page_of[spt[r][vb].frame] = <<r, vb>>
          BY <4>1, <4>2 DEF PageFrame
        <5> QED
          BY <2>1, <2>2, <2>4, <3>1, <5>1, <5>2
      <4> QED
        BY <2>6, <4>1, <4>2 DEF PageFrame
    <3>2. PageFrame(p, va)'
      BY <2>1, <2>8 DEF PageFrame
    <3> QED
      BY <3>1, <3>2
  <2>12. ASSUME NEW r \in Proc, NEW vb \in Va PROVE Entry(r, vb)'
    <3>1. CASE r = p /\ vb = va
      BY <2>9, <3>1 DEF Entry
    <3>2. CASE r # p \/ vb # va
      <4>1. Entry(r, vb) /\ spt'[r][vb] = spt[r][vb] /\ pml4'[r][vb] = pml4[r][vb]
        BY <1>1, <2>8, <2>9, <3>2 DEF Tables
      <4>2. Range(frame_list') = Range(frame_list)
        BY <2>6, <2>7
      <4>3. pc[r] = "kill" => pc'[r] = "kill"
        BY <1>0, <2>6
      <4>4. \A s \in Proc, vc \in Va : pml4'[s][vc] # None => pml4'[s][vc] = pml4[s][vc]
        BY <2>9
      <4> QED
        BY <2>5, <4>1, <4>2, <4>3, <4>4 DEF Entry
    <3> QED
      BY <3>1, <3>2
  <2>13. ASSUME NEW g \in Frame PROVE FramePage(g)'
    <3>1. CASE g = f
      BY <2>6, <3>1 DEF FramePage
    <3>2. CASE g # f
      <4>1. SUFFICES ASSUME page_of'[g] # None PROVE FramePage(g)'
        BY DEF FramePage
      <4>2. page_of'[g] = page_of[g]
        BY <2>6, <3>2
      <4>3. PICK r \in Proc, vb \in Va :
              page_of[g] = <<r, vb>> /\ spt[r][vb] # NoPage /\ spt[r][vb].frame = g
        BY <1>1, <4>1, <4>2 DEF Tables, FramePage
      <4>4. r # p \/ vb # va
        <5>1. CASE r = p /\ vb = va
          <6>1. FramePage(f) /\ page_of[f] = <<p, va>> /\ page_of[f] # None
            <7>1. <<p, va>> \in Proc \X Va
              OBVIOUS
            <7>2. <<p, va>> # None
              BY <7>1, VmConstants
            <7>3. FramePage(f)
              BY <1>1 DEF Tables
            <7> QED
              BY <2>1, <2>2, <2>4, <7>2, <7>3
          <6>2. PICK s \in Proc, vc \in Va : page_of[f] = <<s, vc>> /\ spt[s][vc].frame = f
            BY <6>1 DEF FramePage
          <6> QED
            BY <3>2, <4>3, <5>1, <6>1, <6>2
        <5> QED
          BY <5>1
      <4> QED
        BY <2>8, <4>2, <4>3, <4>4 DEF FramePage
    <3> QED
      BY <3>1, <3>2
  <2>14. Tables'
    BY <1>1, <2>5, <2>6, <2>7, <2>11, <2>12, <2>13 DEF Tables
  <2>15. Fresh(p)'
    <3>1. spt'[p][at[p]].frame = None
      BY <1>0, <1>1, <2>1, <2>8 DEF Fresh
    <3> QED
      BY <1>0, <2>6, <3>1 DEF Fresh
  <2>16. Untouched(p)'
    <3>1. \A vb \in Va : spt'[p][vb] # NoPage /\ spt'[p][vb].uninit => spt'[p][vb].frame = None
      BY <1>0, <2>1, <2>8, NoneUntouched
    <3> QED
      BY <2>6, <3>1 DEF Untouched
  <2>17. \A r \in Proc \ {p} : pc[r] # "link"
    BY <2>3
  <2>18. \A r \in Proc \ {p}, vb \in Va : spt'[r][vb] = spt[r][vb]
    BY <2>8
  <2> QED
    BY <1>0, <2>6, <2>14, <2>15, <2>16, <2>17, <2>18, OthersStay
<1> QED
  BY <1>2, <1>3

LEMMA FrLink ==
    ASSUME VInv, FrInv, EvictsAlone, NEW p \in Proc, Link(p)
    PROVE  FrInv'
<1>0. WellFormed /\ \A q \in Proc : Fresh(q)
  BY DEF VInv, FrInv
<1>1. /\ pc[p] = "link" /\ at[p] \in Va /\ frame[p] \in Frame
      /\ page_of' = [page_of EXCEPT ![frame[p]] = <<p, at[p]>>]
      /\ pml4' = [pml4 EXCEPT ![p][at[p]] = frame[p]]
      /\ UNCHANGED <<at, left, frame_list, used>>
      /\ \A q \in Proc \ {p} : frame'[q] = frame[q]
      /\ pc'[p] = "fill"
      /\ \A q \in Proc \ {p} : pc'[q] = pc[q]
  BY LinkIs
<1>2. PICK page \in PageRecord :
        /\ spt' = [spt EXCEPT ![p][at[p]] = page]
        /\ page.frame = frame[p]
  BY LinkIs
<1>3. PICK f \in Frame, va \in Va : f = frame[p] /\ va = at[p]
  BY <1>1
<1>4. /\ spt'[p][va] = page /\ page # NoPage
      /\ \A q \in Proc, vb \in Va : q # p \/ vb # va => spt'[q][vb] = spt[q][vb]
  BY <1>0, <1>1, <1>2, <1>3, VmState, PageKinds
<1>5. /\ pml4'[p][va] = f
      /\ \A q \in Proc, vb \in Va : q # p \/ vb # va => pml4'[q][vb] = pml4[q][vb]
  BY <1>0, <1>1, <1>3, VmState
<1>6. /\ page_of'[f] = <<p, va>> /\ \A g \in Frame \ {f} : page_of'[g] = page_of[g]
  BY <1>0, <1>1, <1>3, VmState
<1>7. /\ spt[p][va].frame = None /\ f \in Range(frame_list) /\ page_of[f] = None
      /\ spt[p][va] # NoPage
  BY <1>0, <1>1, <1>3, ClaimedPage DEF Fresh, Claiming
<1>8. /\ Range(frame_list) \subseteq used
      /\ \A q \in Proc, vb \in Va : PageFrame(q, vb) /\ Entry(q, vb)
      /\ \A g \in Frame : FramePage(g)
  BY DEF FrInv, Tables
<1>9. \A q \in Proc, vb \in Va : spt[q][vb] # NoPage => spt[q][vb].frame # f
  <2>1. SUFFICES ASSUME NEW q \in Proc, NEW vb \in Va, spt[q][vb] # NoPage, spt[q][vb].frame = f
                 PROVE  FALSE
    OBVIOUS
  <2>2. page_of[f] = <<q, vb>> /\ <<q, vb>> \in Proc \X Va
    BY <1>8, <2>1, VmConstants DEF PageFrame
  <2> QED
    BY <1>7, <2>2, VmConstants
<1>10. \A q \in Proc, vb \in Va : pml4[q][vb] # f
  <2>1. SUFFICES ASSUME NEW q \in Proc, NEW vb \in Va, pml4[q][vb] = f PROVE FALSE
    OBVIOUS
  <2>2. Entry(q, vb) /\ f # None
    BY <1>8, VmConstants
  <2> QED
    BY <1>7, <1>9, <2>1, <2>2 DEF Entry
<1>11. \A q \in Proc, vb \in Va : PageFrame(q, vb)'
  <2>1. PageFrame(p, va)'
    BY <1>1, <1>2, <1>3, <1>4, <1>5, <1>6, <1>7 DEF PageFrame
  <2>2. ASSUME NEW q \in Proc, NEW vb \in Va, q # p \/ vb # va PROVE PageFrame(q, vb)'
    <3>1. spt'[q][vb] = spt[q][vb] /\ pml4'[q][vb] = pml4[q][vb] /\ PageFrame(q, vb)
      BY <1>4, <1>5, <1>8, <2>2
    <3>2. spt[q][vb] # NoPage /\ spt[q][vb].frame # None => spt[q][vb].frame \in Frame \ {f}
      BY <1>0, <1>9, PageFields
    <3> QED
      BY <1>1, <1>6, <3>1, <3>2 DEF PageFrame
  <2> QED
    BY <2>1, <2>2
<1>12. \A q \in Proc, vb \in Va : Entry(q, vb)'
  <2>1. Entry(p, va)'
    <3>1. pml4'[p][va] \in used'
      BY <1>1, <1>5, <1>7, <1>8
    <3>2. \A q \in Proc, vb \in Va : pml4'[q][vb] = f => q = p /\ vb = va
      BY <1>5, <1>10
    <3> QED
      BY <1>2, <1>3, <1>4, <1>5, <3>1, <3>2 DEF Entry
  <2>2. ASSUME NEW q \in Proc, NEW vb \in Va, q # p \/ vb # va PROVE Entry(q, vb)'
    <3>1. spt'[q][vb] = spt[q][vb] /\ pml4'[q][vb] = pml4[q][vb] /\ Entry(q, vb)
      BY <1>4, <1>5, <1>8, <2>2
    <3>2. \A s \in Proc, vc \in Va :
            pml4'[s][vc] = pml4[s][vc] \/ (pml4'[s][vc] = f /\ pml4'[s][vc] # pml4[q][vb])
      BY <1>5, <1>10
    <3>3. pc[q] = "kill" => pc'[q] = "kill"
      BY <1>1
    <3> QED
      BY <1>1, <3>1, <3>2, <3>3 DEF Entry
  <2> QED
    BY <2>1, <2>2
<1>13. ASSUME NEW g \in Frame PROVE FramePage(g)'
  <2>1. CASE g = f
    BY <1>2, <1>3, <1>4, <1>6, <2>1 DEF FramePage
  <2>2. CASE g # f
    <3>1. SUFFICES ASSUME page_of'[g] # None PROVE FramePage(g)'
      BY DEF FramePage
    <3>2. page_of'[g] = page_of[g]
      BY <1>6, <2>2
    <3>3. PICK q \in Proc, vb \in Va :
            page_of[g] = <<q, vb>> /\ spt[q][vb] # NoPage /\ spt[q][vb].frame = g
      BY <1>8, <3>1, <3>2 DEF FramePage
    <3>4. g # None
      BY VmConstants
    <3>5. q # p \/ vb # va
      BY <1>7, <3>3, <3>4
    <3> QED
      BY <1>4, <3>2, <3>3, <3>5 DEF FramePage
  <2> QED
    BY <2>1, <2>2
<1>14. Tables'
  BY <1>1, <1>8, <1>11, <1>12, <1>13 DEF Tables
<1>15. Fresh(p)'
  BY <1>1 DEF Fresh
<1>16. Untouched(p)'
  <2>1. \A vb \in Va : spt'[p][vb] # NoPage /\ spt'[p][vb].uninit /\ spt'[p][vb].frame # None =>
                       vb = va
    BY <1>1, <1>4, NoneUntouched
  <2> QED
    BY <1>1, <1>3, <2>1 DEF Untouched
<1>17. \A q \in Proc \ {p} : pc[q] = "link" =>
         frame[q] \in Range(frame_list)' /\ page_of'[frame[q]] = None
  <2>1. SUFFICES ASSUME NEW q \in Proc \ {p}, pc[q] = "link"
                 PROVE  frame[q] \in Range(frame_list)' /\ page_of'[frame[q]] = None
    OBVIOUS
  <2>2. frame[q] \in Frame
    BY <2>1 DEF VInv, Busy
  <2>3. frame[q] # f
    BY <1>1, <1>3, <2>1 DEF FrInv, LinksApart
  <2> QED
    BY <1>0, <1>1, <1>6, <2>1, <2>2, <2>3 DEF Fresh
<1> QED
  BY <1>1, <1>4, <1>14, <1>15, <1>16, <1>17, OthersStay

\* As long as no load comes short no frame is freed before its page is gone.
LEMMA FillKeeps ==
    ASSUME NEW p \in Proc, Fill(p), ~astray'
    PROVE  used' = used
  BY DEF Fill, Filled, ComesShort, ReadsClosed

LEMMA FrFill ==
    ASSUME VInv, FrInv, EvictsAlone, NEW p \in Proc, Fill(p), ~astray'
    PROVE  FrInv'
<1>0. /\ WellFormed /\ pc[p] = "fill" /\ UNCHANGED <<at, frame, left, pml4, frame_list, page_of, used>>
      /\ Fresh(p) /\ Untouched(p)
  BY FillKeeps DEF VInv, FrInv, Fill
<1>1. CASE (\E page \in PageRecord : Fills(p, page)) /\ Goes(p)
  <2>1. PICK page \in PageRecord : Fills(p, page)
    BY <1>1
  <2>2. /\ spt' = [spt EXCEPT ![p][at[p]] = page]
        /\ page.frame = spt[p][at[p]].frame /\ page.uninit = FALSE
    BY <2>1 DEF Fills
  <2>3. /\ at[p] \in Va /\ spt[p][at[p]] # NoPage
        /\ then[p] \in {"user", "grow", "copied"} /\ then[p] \in Places
        /\ "copy" \in Places
    BY <1>0, ClaimedPage DEF Claiming, VInv, Busy, Places
  <2>4. PICK va \in Va : va = at[p]
    BY <2>3
  <2>5. /\ spt'[p][va] = page /\ page # NoPage
        /\ \A q \in Proc, vb \in Va : q # p \/ vb # va => spt'[q][vb] = spt[q][vb]
    BY <1>0, <2>2, <2>4, VmState, PageKinds
  <2>6. /\ pc'[p] \in {"user", "grow", "copied", "copy", "fill", "kill"}
        /\ \A q \in Proc \ {p} : pc'[q] = pc[q]
    BY <1>0, <1>1, <2>3, GotoIs, ExitingIs DEF Goes
  <2>7. \A q \in Proc, vb \in Va :
          /\ spt'[q][vb] = NoPage <=> spt[q][vb] = NoPage
          /\ spt'[q][vb].frame = spt[q][vb].frame
    <3>1. spt[p][va] # NoPage /\ page.frame = spt[p][va].frame
      BY <2>2, <2>3, <2>4
    <3> QED
      BY <2>5, <3>1
  <2>8. Tables'
    <3>1. ASSUME NEW q \in Proc, NEW vb \in Va PROVE PageFrame(q, vb)'
      <4>1. PageFrame(q, vb)
        BY DEF FrInv, Tables
      <4>2. /\ spt'[q][vb] = NoPage <=> spt[q][vb] = NoPage
            /\ spt'[q][vb].frame = spt[q][vb].frame
        BY <2>7
      <4> QED
        BY <1>0, <4>1, <4>2 DEF PageFrame
    <3>2. \A q \in Proc : pc[q] = "kill" => pc'[q] = "kill"
      BY <1>0, <2>6
    <3>3. \A q \in Proc, vb \in Va : Entry(q, vb)'
      BY <1>0, <2>7, <3>2 DEF FrInv, Tables, Entry
    <3>4. \A f \in Frame : FramePage(f)'
      BY <1>0, <2>7 DEF FrInv, Tables, FramePage
    <3> QED
      BY <1>0, <3>1, <3>3, <3>4 DEF FrInv, Tables
  <2>9. Fresh(p)'
    BY <2>3, <2>6 DEF Fresh
  <2>10. Untouched(p)'
    <3>1. \A vb \in Va : spt'[p][vb] # NoPage /\ spt'[p][vb].uninit => spt'[p][vb].frame = None
      BY <1>0, <2>2, <2>4, <2>5 DEF Untouched
    <3> QED
      BY <2>3, <2>6, <3>1 DEF Untouched
  <2>11. \A q \in Proc \ {p} : pc[q] = "link" =>
           frame[q] \in Range(frame_list)' /\ page_of'[frame[q]] = None
    BY <1>0 DEF FrInv, Fresh
  <2>12. pc'[p] # "link" /\ pc[p] # "none"
    BY <1>0, <2>3, <2>6
  <2> QED
    BY <1>0, <2>5, <2>6, <2>8, <2>9, <2>10, <2>11, <2>12, OthersStay
<1>2. CASE UNCHANGED <<pc, spt>>
  <2>1. Fresh(p)' /\ Untouched(p)'
    BY <1>0, <1>2 DEF Fresh, Untouched
  <2> QED
    BY <1>0, <1>2, <2>1, PlacesStep
<1> QED
  BY <1>1, <1>2, FillIs

\* A page with its frame off the list, in a process that is killed, or with no entry left.
LEMMA TablesGone ==
    ASSUME VInv, FrInv, NEW p \in Proc, NEW va \in Va, spt[p][va] # NoPage, Dealloc(p, va),
           UNCHANGED <<pc, used>>,
           pc[p] = "kill" \/ pml4'[p][va] = None
    PROVE  /\ Tables'
           /\ \A q \in Proc : pc[q] = "link" =>
                frame[q] \in Range(frame_list)' /\ page_of'[frame[q]] = None
<1>0. WellFormed /\ Gone(p, va)
  BY DeallocIs DEF VInv
<1>1. /\ spt'[p][va] = NoPage
      /\ \A q \in Proc, vb \in Va : q # p \/ vb # va => spt'[q][vb] = spt[q][vb]
  BY DeallocIs
<1>2. /\ Range(frame_list)' = Range(frame_list) \ {spt[p][va].frame}
      /\ \A f \in Frame : page_of'[f] = IF f = spt[p][va].frame THEN None ELSE page_of[f]
  BY <1>0 DEF Gone
<1>3. /\ \A q \in Proc, vb \in Va : q # p \/ vb # va => pml4'[q][vb] = pml4[q][vb]
      /\ pml4'[p][va] = None \/ pml4'[p][va] = pml4[p][va]
  BY <1>0, VmState DEF Gone
<1>4. /\ Range(frame_list) \subseteq used
      /\ \A q \in Proc, vb \in Va : PageFrame(q, vb) /\ Entry(q, vb)
      /\ \A g \in Frame : FramePage(g)
      /\ \A q \in Proc : Fresh(q)
  BY DEF FrInv, Tables
<1>5. \A q \in Proc, vb \in Va : PageFrame(q, vb)'
  <2>1. PageFrame(p, va)'
    BY <1>1 DEF PageFrame
  <2>2. ASSUME NEW q \in Proc, NEW vb \in Va, q # p \/ vb # va PROVE PageFrame(q, vb)'
    <3>1. spt'[q][vb] = spt[q][vb] /\ pml4'[q][vb] = pml4[q][vb] /\ PageFrame(q, vb)
      BY <1>1, <1>3, <1>4, <2>2
    <3>2. ASSUME spt[q][vb] # NoPage, spt[q][vb].frame # None
          PROVE  spt[q][vb].frame \in Frame /\ spt[q][vb].frame # spt[p][va].frame
      <4>1. spt[q][vb].frame \in Frame
        BY <1>0, <3>2, PageFields
      <4>2. PageFrame(p, va) /\ page_of[spt[q][vb].frame] = <<q, vb>>
        BY <1>4, <3>1, <3>2 DEF PageFrame
      <4> QED
        BY <2>2, <3>2, <4>1, <4>2 DEF PageFrame
    <3> QED
      BY <1>2, <3>1, <3>2 DEF PageFrame
  <2> QED
    BY <2>1, <2>2
<1>6. \A q \in Proc, vb \in Va : Entry(q, vb)'
  <2>1. Entry(p, va)'
    <3>1. SUFFICES ASSUME pml4'[p][va] # None PROVE Entry(p, va)'
      BY DEF Entry
    <3>2. pc[p] = "kill" /\ pml4'[p][va] = pml4[p][va] /\ Entry(p, va)
      BY <1>3, <1>4, <3>1
    <3>3. pml4'[p][va] \notin Range(frame_list)'
      BY <1>2, <3>1, <3>2 DEF Entry
    <3>4. \A q \in Proc, vb \in Va : pml4'[q][vb] = pml4'[p][va] => q = p /\ vb = va
      BY <1>3, <3>1, <3>2 DEF Entry
    <3> QED
      BY <1>1, <3>1, <3>2, <3>3, <3>4 DEF Entry
  <2>2. ASSUME NEW q \in Proc, NEW vb \in Va, q # p \/ vb # va PROVE Entry(q, vb)'
    <3>1. spt'[q][vb] = spt[q][vb] /\ pml4'[q][vb] = pml4[q][vb] /\ Entry(q, vb)
      BY <1>1, <1>3, <1>4, <2>2
    <3>2. \A s \in Proc, vc \in Va : pml4'[s][vc] = None \/ pml4'[s][vc] = pml4[s][vc]
      BY <1>3
    <3> QED
      BY <1>2, <3>1, <3>2 DEF Entry
  <2> QED
    BY <2>1, <2>2
<1>7. ASSUME NEW g \in Frame PROVE FramePage(g)'
  <2>1. SUFFICES ASSUME page_of'[g] # None PROVE FramePage(g)'
    BY DEF FramePage
  <2>2. page_of'[g] = page_of[g] /\ g # spt[p][va].frame
    BY <1>2, <2>1
  <2>3. PICK q \in Proc, vb \in Va :
          page_of[g] = <<q, vb>> /\ spt[q][vb] # NoPage /\ spt[q][vb].frame = g
    BY <1>4, <2>1, <2>2 DEF FramePage
  <2>4. q # p \/ vb # va
    BY <2>2, <2>3
  <2> QED
    BY <1>1, <2>2, <2>3, <2>4 DEF FramePage
<1>8. ASSUME NEW q \in Proc, pc[q] = "link"
      PROVE  frame[q] \in Range(frame_list)' /\ page_of'[frame[q]] = None
  <2>1. frame[q] \in Frame /\ frame[q] \in Range(frame_list) /\ page_of[frame[q]] = None
    BY <1>4, <1>8 DEF Fresh, VInv, Busy
  <2>2. frame[q] # spt[p][va].frame
    <3>1. SUFFICES ASSUME frame[q] = spt[p][va].frame PROVE FALSE
      OBVIOUS
    <3>2. frame[q] # None
      BY <2>1, VmConstants
    <3>3. PageFrame(p, va) /\ spt[p][va].frame # None
      BY <1>4, <3>1, <3>2
    <3>4. page_of[frame[q]] = <<p, va>> /\ <<p, va>> \in Proc \X Va
      BY <3>1, <3>3 DEF PageFrame
    <3> QED
      BY <2>1, <3>4, VmConstants
  <2> QED
    BY <1>2, <2>1, <2>2
<1>9. Range(frame_list)' \subseteq used'
  BY <1>2, <1>4
<1> QED
  BY <1>5, <1>6, <1>7, <1>8, <1>9 DEF Tables

LEMMA FrKillNext ==
    ASSUME VInv, FrInv, EvictsAlone, NEW p \in Proc, NEW va \in Va, KillNext(p, va)
    PROVE  FrInv'
<1>0. /\ pc[p] = "kill" /\ spt[p][va] # NoPage /\ Dealloc(p, va)
      /\ UNCHANGED <<pc, at, frame, left, used>>
  BY DEF KillNext, localVars
<1>1. /\ Tables'
      /\ \A q \in Proc : pc[q] = "link" =>
           frame[q] \in Range(frame_list)' /\ page_of'[frame[q]] = None
  BY <1>0, TablesGone
<1>2. \A q \in Proc \ {p}, vb \in Va : spt'[q][vb] = spt[q][vb]
  BY <1>0, DeallocIs
<1>3. Fresh(p)' /\ Untouched(p)'
  BY <1>0 DEF Fresh, Untouched
<1> QED
  BY <1>0, <1>1, <1>2, <1>3, OthersStay

\* do_munmap ends a page of the mapping: if it is in a frame it is initialized, and its
\* entry is cleared.
LEMMA FrUnmapNext ==
    ASSUME VInv, FrInv, EvictsAlone, NEW p \in Proc, UnmapNext(p)
    PROVE  FrInv'
<1>0. /\ WellFormed /\ pc[p] = "unmap" /\ UNCHANGED <<frame, used>> /\ Untouched(p) /\ Tables
  BY DEF VInv, FrInv, UnmapNext
<1>1. CASE MoreToUnmap(p)
  <2>0. PICK va \in Va : va = at[p] /\ spt[p][va] # NoPage /\ left[p] > 0
    BY <1>1 DEF MoreToUnmap, PageOf
  <2>1. /\ Dealloc(p, va) /\ at' = [at EXCEPT ![p] = va + 1]
        /\ left' = [left EXCEPT ![p] = left[p] - 1] /\ pc' = pc
    BY <1>1, <2>0 DEF UnmapNext
  <2>2. va \in Nat /\ left[p] \in Nat
    BY <1>0, VmState, VmConstants
  <2>3. spt[p][va].kind = "file"
    <3>1. PageOf(p, at[p] + 0) = spt[p][va]
      BY <2>0, <2>2 DEF PageOf
    <3> QED
      BY <1>0, <2>0, <2>2, <3>1 DEF Untouched
  <2>4. pml4'[p][va] = None
    <3>1. Gone(p, va)
      BY <2>0, <2>1, DeallocIs
    <3>2. CASE ~spt[p][va].uninit
      <4>1. pml4' = [pml4 EXCEPT ![p][va] = None]
        BY <2>3, <3>1, <3>2 DEF Gone
      <4> QED
        BY <1>0, <4>1, VmState
    <3>3. CASE spt[p][va].uninit
      <4>1. pml4' = pml4
        BY <3>1, <3>3 DEF Gone
      <4>2. spt[p][va].frame = None
        BY <1>0, <2>0, <3>3, NoneUntouched
      <4>3. pml4[p][va] = None
        BY <1>0, <2>0, <4>2 DEF Tables, Entry
      <4> QED
        BY <4>1, <4>3
    <3> QED
      BY <3>2, <3>3
  <2>5. /\ Tables'
        /\ \A q \in Proc : pc[q] = "link" =>
             frame[q] \in Range(frame_list)' /\ page_of'[frame[q]] = None
    BY <1>0, <2>0, <2>1, <2>4, TablesGone
  <2>6. /\ spt'[p][va] = NoPage
        /\ \A q \in Proc, vb \in Va : q # p \/ vb # va => spt'[q][vb] = spt[q][vb]
    BY <2>0, <2>1, DeallocIs
  <2>7. /\ at'[p] = va + 1 /\ left'[p] = left[p] - 1
        /\ \A q \in Proc \ {p} : at'[q] = at[q] /\ left'[q] = left[q]
    BY <1>0, <2>1, VmState
  <2>8. Fresh(p)'
    BY <1>0, <2>1 DEF Fresh
  <2>9. Untouched(p)'
    <3>1. \A vb \in Va : spt'[p][vb] # NoPage /\ spt'[p][vb].uninit => spt'[p][vb].frame = None
      BY <1>0, <2>6, NoneUntouched
    <3>2. ASSUME NEW k \in Nat, k < left'[p], PageOf(p, at[p] + k)' # NoPage
          PROVE  PageOf(p, at[p] + k)'.kind = "file"
      <4>1. k + 1 \in Nat /\ k + 1 < left[p] /\ at'[p] + k = va + (k + 1) /\ va + (k + 1) # va
        BY <2>2, <2>7, <3>2
      <4>2. PageOf(p, at[p] + k)' = PageOf(p, va + (k + 1))
        BY <2>6, <4>1, <3>2 DEF PageOf
      <4>3. PageOf(p, at[p] + (k + 1)) # NoPage => PageOf(p, at[p] + (k + 1)).kind = "file"
        BY <1>0, <4>1 DEF Untouched
      <4> QED
        BY <2>0, <3>2, <4>2, <4>3
    <3> QED
      BY <3>1, <3>2 DEF Untouched
  <2> QED
    BY <1>0, <2>1, <2>5, <2>6, <2>7, <2>8, <2>9, OthersStay
<1>2. CASE ~MoreToUnmap(p)
  <2>1. /\ Goto(p, "user") /\ left' = [left EXCEPT ![p] = 0] /\ "user" \in Places
        /\ UNCHANGED <<at, spt, pml4, frame_list, page_of>>
    BY <1>2 DEF UnmapNext, Places
  <2>2. /\ pc'[p] = "user" /\ \A q \in Proc \ {p} : pc'[q] = pc[q] /\ left'[q] = left[q]
    BY <1>0, <2>1, GotoIs, VmState
  <2>3. Fresh(p)'
    BY <2>2 DEF Fresh
  <2>4. Untouched(p)'
    BY <1>0, <2>1, <2>2, NoneUntouched DEF Untouched
  <2> QED
    BY <1>0, <2>1, <2>2, <2>3, <2>4, PlacesStep
<1> QED
  BY <1>1, <1>2

\* pml4_destroy gives back frames that are nobody else's, and off the list.
LEMMA FrKillDone ==
    ASSUME VInv, FrInv, EvictsAlone, NEW p \in Proc, KillDone(p)
    PROVE  FrInv'
<1>0. /\ WellFormed /\ pc[p] = "kill" /\ \A va \in Va : spt[p][va] = NoPage
      /\ used' = used \ Mapped(p) /\ pml4' = [pml4 EXCEPT ![p] = [va \in Va |-> None]]
      /\ UNCHANGED <<at, frame, left, spt, frame_list, page_of>>
      /\ Goto(p, then[p])
  BY DEF VInv, KillDone
<1>1. then[p] \in {"none", "load"} /\ then[p] \in Places
  BY <1>0 DEF VInv, Busy, Places
<1>2. pc'[p] \in {"none", "load"} /\ \A q \in Proc \ {p} : pc'[q] = pc[q]
  BY <1>0, <1>1, GotoIs
<1>3. /\ Range(frame_list) \subseteq used
      /\ \A q \in Proc, va \in Va : PageFrame(q, va) /\ Entry(q, va)
      /\ \A f \in Frame : FramePage(f)
  BY DEF FrInv, Tables
<1>4. /\ \A va \in Va : pml4'[p][va] = None
      /\ \A q \in Proc \ {p}, va \in Va : pml4'[q][va] = pml4[q][va]
  BY <1>0, VmState
<1>5. \A q \in Proc, va \in Va : PageFrame(q, va)'
  BY <1>0, <1>3, <1>4 DEF PageFrame
<1>6. ASSUME NEW q \in Proc, NEW va \in Va PROVE Entry(q, va)'
  <2>1. CASE q = p
    BY <1>4, <2>1 DEF Entry
  <2>2. CASE q # p
    <3>1. pml4'[q][va] = pml4[q][va] /\ Entry(q, va) /\ pc'[q] = pc[q]
      BY <1>2, <1>3, <1>4, <2>2
    <3>2. pml4[q][va] # None => pml4[q][va] \notin Mapped(p)
      BY <2>2, <3>1 DEF Mapped, Entry
    <3>3. \A r \in Proc, vb \in Va : pml4'[r][vb] = None \/ pml4'[r][vb] = pml4[r][vb]
      BY <1>4
    <3> QED
      BY <1>0, <3>1, <3>2, <3>3 DEF Entry
  <2> QED
    BY <2>1, <2>2
<1>7. \A f \in Frame : FramePage(f)'
  BY <1>0, <1>3 DEF FramePage
<1>8. Range(frame_list)' \subseteq used'
  <2>1. \A f \in Mapped(p) : f \notin Range(frame_list)
    BY <1>0, <1>3 DEF Mapped, Entry
  <2> QED
    BY <1>0, <1>3, <2>1
<1>9. Tables'
  BY <1>5, <1>6, <1>7, <1>8 DEF Tables
<1>10. Fresh(p)'
  BY <1>2 DEF Fresh
<1>11. Untouched(p)'
  BY <1>0, <1>2 DEF Untouched
<1>12. \A q \in Proc \ {p} : pc[q] = "link" =>
         frame[q] \in Range(frame_list)' /\ page_of'[frame[q]] = None
  BY <1>0 DEF FrInv, Fresh
<1> QED
  BY <1>0, <1>2, <1>9, <1>10, <1>11, <1>12, OthersStay

LEMMA FrSteps ==
    VInv /\ FrInv /\ EvictsAlone /\ MappingsAreWhole /\ ~astray' /\ [Next]_vars => FrInv'
<1> SUFFICES ASSUME VInv, FrInv, EvictsAlone, MappingsAreWhole, ~astray', [Next]_vars PROVE FrInv'
  OBVIOUS
<1>1. CASE UNCHANGED vars \/ Stopped
  <2>1. UNCHANGED <<pc, at, frame, left, spt, pml4, frame_list, page_of, used>>
    BY <1>1 DEF Stopped, vars, localVars, tableVars, frameVars
  <2>2. Tables'
    BY <2>1, TablesStay
  <2>3. LinksApart'
    BY <2>1 DEF FrInv, LinksApart
  <2>4. ASSUME NEW p \in Proc PROVE Fresh(p)' /\ Untouched(p)'
    <3>1. \A x : PageOf(p, x)' = PageOf(p, x)
      BY <2>1 DEF PageOf
    <3> QED
      BY <2>1, <3>1 DEF FrInv, Fresh, Untouched
  <2> QED
    BY <2>2, <2>3, <2>4 DEF FrInv
<1>2. ASSUME NEW p \in Proc, Step(p) PROVE FrInv'
  BY <1>2, FrIdle, FrFault, FrMunmap, FrFork, FrNew, FrGetFrame, FrEvict, FrLink, FrFill,
     FrKillNext, FrUnmapNext, FrKillDone DEF Step
<1> QED
  BY <1>1, <1>2 DEF Next

LEMMA FrStart == Init => FrInv
<1> SUFFICES ASSUME Init PROVE FrInv
  OBVIOUS
<1>1. /\ pc = [p \in Proc |-> IF p = First THEN "claim" ELSE "none"]
      /\ at = [p \in Proc |-> Top]
      /\ spt = [p \in Proc |-> IF p = First THEN LoadedPages(p) ELSE [va \in Va |-> NoPage]]
      /\ pml4 = [p \in Proc |-> [va \in Va |-> None]]
      /\ frame_list = <<>> /\ page_of = [f \in Frame |-> None] /\ used = {}
  BY DEF Init
<1>2. \A p \in Proc, va \in Va : spt[p][va] # NoPage =>
        spt[p][va].frame = None /\ spt[p][va].uninit
  BY <1>1, LoadedIs
<1>3. Range(frame_list) = {}
  <2>1. frame_list \in Seq(Frame) /\ Len(frame_list) = 0
    BY <1>1
  <2>2. ASSUME NEW f \in Range(frame_list) PROVE FALSE
    <3>1. PICK i \in 1..Len(frame_list) : frame_list[i] = f
      BY <2>1, InRange
    <3> QED
      BY <2>1, <3>1
  <2> QED
    BY <2>2
<1>4. Tables
  BY <1>1, <1>2, <1>3 DEF Tables, PageFrame, Entry, FramePage
<1>5. ASSUME NEW p \in Proc PROVE Fresh(p)
  <2>1. pc[p] \in {"claim", "evict", "link"} => p = First /\ pc[p] = "claim" /\ at[p] = Top
    BY <1>1
  <2>2. spt[First][Top] # NoPage
    BY <1>1, LoadedIs, VmConstants
  <2> QED
    BY <1>2, <2>1, <2>2, VmConstants DEF Fresh
<1>6. ASSUME NEW p \in Proc PROVE Untouched(p)
  BY <1>1, <1>2 DEF Untouched
<1>7. LinksApart
  BY <1>1 DEF LinksApart
<1> QED
  BY <1>4, <1>5, <1>6, <1>7 DEF FrInv

\* A list without repetitions has as many elements as places.
LEMMA AsLong ==
    ASSUME NEW S, NEW s \in Seq(S), NoRepeat(s)
    PROVE  Cardinality(Range(s)) = Len(s)
<1>1. Len(s) \in Nat /\ s \in [1..Len(s) -> S]
  OBVIOUS
<1>2. PICK n \in Nat : n = Len(s)
  BY <1>1
<1>3. s \in Bijection(1..n, Range(s))
  <2>1. \A x : x \in Range(s) <=> \E i \in 1..n : s[i] = x
    BY <1>2, InRange
  <2>2. s \in [1..n -> Range(s)]
    BY <1>1, <1>2, <2>1
  <2>3. \A a, b \in 1..n : s[a] = s[b] => a = b
    BY <1>2 DEF NoRepeat
  <2>4. \A t \in Range(s) : \E i \in 1..n : s[i] = t
    BY <2>1
  <2> QED
    BY <2>2, <2>3, <2>4 DEF Bijection, Injection, Surjection, IsInjective
<1>4. ExistsBijection(1..n, Range(s))
  BY <1>3 DEF ExistsBijection
<1> QED
  BY <1>2, <1>4, FS_CountingElements

LEMMA FrAgree == VInv /\ FrInv /\ astray \in BOOLEAN => FramesAgree
<1> SUFFICES ASSUME VInv, FrInv, astray \in BOOLEAN PROVE FramesAgree
  OBVIOUS
<1>1. /\ TypeOK /\ Cardinality(Range(frame_list)) = Len(frame_list)
      /\ Range(frame_list) \subseteq used
  BY AsLong, VmState DEF VInv, FrInv, Tables, TypeOK
<1>2. ASSUME NEW x \in Pages, PageAt(x).frame # None
      PROVE  page_of[PageAt(x).frame] = x /\ PageAt(x).frame \in Range(frame_list)
  <2>1. PICK p \in Proc, va \in Va : x = <<p, va>>
    BY DEF Pages
  <2>2. PageAt(x) = spt[p][va] /\ spt[p][va] # NoPage
    BY <2>1 DEF Pages, PageAt
  <2> QED
    BY <1>2, <2>1, <2>2 DEF FrInv, Tables, PageFrame
<1>3. ASSUME NEW f \in Frame, page_of[f] # None
      PROVE  page_of[f] \in Pages /\ PageAt(page_of[f]).frame = f
  <2>1. PICK p \in Proc, va \in Va :
          page_of[f] = <<p, va>> /\ spt[p][va] # NoPage /\ spt[p][va].frame = f
    BY <1>3 DEF FrInv, Tables, FramePage
  <2> QED
    BY <2>1 DEF Pages, PageAt
<1>4. ASSUME NEW p \in Proc, NEW va \in Va, pml4[p][va] # None
      PROVE  /\ pml4[p][va] \in used
             /\ pc[p] = "kill" \/ (spt[p][va] # NoPage /\ spt[p][va].frame = pml4[p][va])
  BY <1>4 DEF FrInv, Tables, Entry
<1> QED
  BY <1>1, <1>2, <1>3, <1>4 DEF FramesAgree

\* As long as nobody evicts next to another process, no mapping is cut short where
\* another page lies, and lazy_load_segment gets what it asks for, from a file that is open,
\* the frame table, the supplemental page tables and the page tables agree, through every
\* fault, eviction, fork, munmap and exit.
THEOREM FramesDoAgree ==
    Spec /\ [](EvictsAlone /\ MappingsAreWhole) => [](astray \/ FramesAgree)
<1>1. Init => VInv /\ astray \in BOOLEAN /\ (astray \/ FrInv)
  BY VmInit, FrStart DEF Init
<1>2. /\ VInv /\ astray \in BOOLEAN /\ (astray \/ FrInv) /\ (EvictsAlone /\ MappingsAreWhole)
      /\ [Next]_vars
      => (VInv /\ astray \in BOOLEAN /\ (astray \/ FrInv))'
  BY VmSteps, AstrayStays, FrSteps
<1>3. VInv /\ astray \in BOOLEAN /\ (astray \/ FrInv) => astray \/ FramesAgree
  BY FrAgree
<1> QED
  BY <1>1, <1>2, <1>3, PTL DEF Spec

(***************************************************************************)
(* What user code sees of its memory.                                      *)
(***************************************************************************)
Filling(p, va) == pc[p] = "fill" /\ at[p] = va

\* The pages of the executable are where it is, and are read on demand, as those of a
\* mapping are; a page is in a frame or in a slot, but when it comes in; and the clean page
\* of a mapping holds what the file does.
PageIsSound(p, va) ==
    LET page == spt[p][va] IN
    page # NoPage =>
        /\ page.kind = "anon" => (page.lazy <=> va \in Segment)
        /\ page.kind = "file" => page.lazy /\ page.loader = None
                                 /\ (page.uninit \/ page.ofs \in Offset)
        /\ page.uninit => page.slot = None
        /\ page.frame # None /\ page.slot # None => Filling(p, va)
        /\ page.kind = "file" /\ ~page.uninit /\ page.frame # None /\ ~Filling(p, va)
           /\ ~dirty[p][va] => ram[page.frame] = contents[page.ofs]

\* A process with memory has the pages of its executable.
SegmentAt(p, va) ==
    pc[p] \notin {"none", "load", "kill"} /\ parent[p] = None /\ va \in Segment =>
        spt[p][va] # NoPage /\ spt[p][va].kind = "anon"

\* What a child has copied is what its parent has, but for the page it is busy with.
InCopy(c, va) == (pc[c] = "copied" \/ ToCopy(c)) /\ at[c] = va
CopyAt(c, va) ==
    LET page == spt[c][va] old == spt[parent[c]][va] IN
    parent[c] # None /\ pc[c] # "kill" /\ page # NoPage =>
        /\ old # NoPage /\ old.kind = "anon" /\ page.kind = "anon"
        /\ IF InCopy(c, va)
           THEN ~old.uninit /\ (pc[c] = "copied" => ~page.uninit)
           ELSE /\ page.uninit = old.uninit
                /\ ~page.uninit => /\ page.frame # None /\ old.frame # None
                                   /\ ram[page.frame] = ram[old.frame]

MemInv == \A p \in Proc, va \in Va : PageIsSound(p, va) /\ SegmentAt(p, va) /\ CopyAt(p, va)

\* What holds of every state here, and what is asked of it.
Sane == VInv /\ FrInv /\ SlotsAgree /\ MemInv
Asked == EvictsAlone /\ MappingsAreWhole /\ MappedOnce
-----------------------------------------------------------------------------
\* The page of the file at va, whether it is in memory, and what it shows of the file.
Maps(p, va, o) == spt[p][va] # NoPage /\ spt[p][va].kind = "file" /\ spt[p][va].ofs = o
InMem(p, va) == ~spt[p][va].uninit /\ spt[p][va].frame # None /\ ~Filling(p, va)
Shown(p, va) == IF InMem(p, va) THEN ram[spt[p][va].frame] ELSE contents[spt[p][va].ofs]

LEMMA MapsOnce ==
    MappedOnce => \A p, q \in Proc, va, vb \in Va : \A o :
        Maps(p, va, o) /\ Maps(q, vb, o) => p = q /\ va = vb
<1> SUFFICES ASSUME MappedOnce, NEW p \in Proc, NEW q \in Proc, NEW va \in Va, NEW vb \in Va,
                    NEW o, Maps(p, va, o), Maps(q, vb, o)
             PROVE  p = q /\ va = vb
  OBVIOUS
<1>1. PICK x, y : x = <<p, va>> /\ y = <<q, vb>>
  OBVIOUS
<1>2. /\ x \in Pages /\ y \in Pages
      /\ PageAt(x) = spt[p][va] /\ PageAt(y) = spt[q][vb]
  BY <1>1 DEF Pages, PageAt, Maps
<1>3. x = y
  BY <1>2 DEF MappedOnce, Maps
<1> QED
  BY <1>1, <1>3

LEMMA InMemoryIs ==
    \A o, x : x \in InMemory(o) <=>
        \E p \in Proc, va \in Va : x = <<p, va>> /\ Maps(p, va, o) /\ InMem(p, va)
<1> SUFFICES ASSUME NEW o, NEW x
             PROVE  x \in InMemory(o) <=>
                    \E p \in Proc, va \in Va : x = <<p, va>> /\ Maps(p, va, o) /\ InMem(p, va)
  OBVIOUS
<1>1. ASSUME x \in InMemory(o)
      PROVE  \E p \in Proc, va \in Va : x = <<p, va>> /\ Maps(p, va, o) /\ InMem(p, va)
  <2>1. PICK p \in Proc, va \in Va : x = <<p, va>>
    BY <1>1 DEF InMemory, Pages
  <2> QED
    BY <1>1, <2>1 DEF InMemory, Pages, PageAt, Maps, InMem, Filling
<1>2. ASSUME NEW p \in Proc, NEW va \in Va, x = <<p, va>>, Maps(p, va, o), InMem(p, va)
      PROVE  x \in InMemory(o)
  BY <1>2 DEF InMemory, Pages, PageAt, Maps, InMem, Filling
<1> QED
  BY <1>1, <1>2

\* What the file shows: what its page shows where it is mapped, what is on disk elsewhere.
LEMMA ShownIs ==
    MappedOnce => \A p \in Proc, va \in Va, o \in Offset :
        Maps(p, va, o) => ContentsOf[o] = Shown(p, va)
<1> SUFFICES ASSUME MappedOnce, NEW p \in Proc, NEW va \in Va, NEW o \in Offset, Maps(p, va, o)
             PROVE  ContentsOf[o] = Shown(p, va)
  OBVIOUS
<1>1. \A x : x \in InMemory(o) => x = <<p, va>> /\ InMem(p, va)
  BY InMemoryIs, MapsOnce
<1>2. CASE InMem(p, va)
  <2>1. InMemory(o) # {} /\ (CHOOSE x \in InMemory(o) : TRUE) = <<p, va>>
    BY <1>1, <1>2, InMemoryIs
  <2>2. PageAt(<<p, va>>) = spt[p][va]
    BY DEF PageAt
  <2> QED
    BY <1>2, <2>1, <2>2 DEF ContentsOf, Shown
<1>3. CASE ~InMem(p, va)
  <2>1. InMemory(o) = {} /\ spt[p][va].ofs = o
    BY <1>1, <1>3 DEF Maps
  <2> QED
    BY <1>3, <2>1 DEF ContentsOf, Shown
<1> QED
  BY <1>2, <1>3

LEMMA UnmappedIs ==
    \A o \in Offset :
        (\A p \in Proc, va \in Va : Maps(p, va, o) => ~InMem(p, va)) => ContentsOf[o] = contents[o]
<1> SUFFICES ASSUME NEW o \in Offset, \A p \in Proc, va \in Va : Maps(p, va, o) => ~InMem(p, va)
             PROVE  ContentsOf[o] = contents[o]
  OBVIOUS
<1>1. InMemory(o) = {}
  BY InMemoryIs
<1> QED
  BY <1>1 DEF ContentsOf

LEMMA ShownNext ==
    MappedOnce' => \A p \in Proc, va \in Va, o \in Offset :
        Maps(p, va, o)' => ContentsOf'[o] = Shown(p, va)'
<1>1. (MappedOnce => \A p \in Proc, va \in Va, o \in Offset :
         Maps(p, va, o) => ContentsOf[o] = Shown(p, va))'
  BY ShownIs, PTL
<1> QED
  BY <1>1

LEMMA UnmappedNext ==
    \A o \in Offset :
        (\A p \in Proc, va \in Va : Maps(p, va, o)' => ~InMem(p, va)') =>
            ContentsOf'[o] = contents'[o]
<1>1. (\A o \in Offset :
         (\A p \in Proc, va \in Va : Maps(p, va, o) => ~InMem(p, va)) =>
             ContentsOf[o] = contents[o])'
  BY UnmappedIs, PTL
<1> QED
  BY <1>1

LEMMA OnceNext ==
    MappedOnce' => \A p, q \in Proc, va, vb \in Va : \A o :
        Maps(p, va, o)' /\ Maps(q, vb, o)' => p = q /\ va = vb
<1>1. (MappedOnce => \A p, q \in Proc, va, vb \in Va : \A o :
         Maps(p, va, o) /\ Maps(q, vb, o) => p = q /\ va = vb)'
  BY MapsOnce, PTL
<1> QED
  BY <1>1

\* The page at va is as it was, and so is what it holds.
Steady(p, va) ==
    /\ spt'[p][va] = spt[p][va]
    /\ Filling(p, va)' <=> Filling(p, va)
    /\ spt[p][va] # NoPage =>
         /\ spt[p][va].frame # None => ram'[spt[p][va].frame] = ram[spt[p][va].frame]
         /\ spt[p][va].slot # None => swap'[spt[p][va].slot] = swap[spt[p][va].slot]
         /\ spt[p][va].kind = "file" =>
              /\ dirty'[p][va] = dirty[p][va]
              /\ spt[p][va].ofs \in Offset =>
                   contents'[spt[p][va].ofs] = contents[spt[p][va].ofs]

LEMMA SoundStays ==
    ASSUME NEW p \in Proc, NEW va \in Va, PageIsSound(p, va), Steady(p, va)
    PROVE  PageIsSound(p, va)'
  BY DEF PageIsSound, Steady

LEMMA MapsStays ==
    ASSUME NEW p \in Proc, NEW va \in Va, NEW o, Steady(p, va)
    PROVE  /\ Maps(p, va, o)' <=> Maps(p, va, o)
           /\ Maps(p, va, o) /\ o \in Offset =>
                (InMem(p, va)' <=> InMem(p, va)) /\ Shown(p, va)' = Shown(p, va)
  BY DEF Maps, InMem, Shown, Steady

LEMMA OwnStays ==
    ASSUME NEW p \in Proc, NEW va \in Va, Steady(p, va), Hidden(p)' <=> Hidden(p)
    PROVE  OwnValue(p, va)' = OwnValue(p, va)
<1>1. CASE Hidden(p)
  BY <1>1 DEF OwnValue
<1>2. CASE ~Hidden(p)
  BY <1>2 DEF OwnValue, Steady
<1> QED
  BY <1>1, <1>2

LEMMA CopyStays ==
    ASSUME NEW c \in Proc, NEW va \in Va, CopyAt(c, va), parent'[c] = parent[c],
           InCopy(c, va)' <=> InCopy(c, va), InCopy(c, va) /\ pc'[c] = "copied" => pc[c] = "copied",
           pc[c] = "kill" => pc'[c] = "kill", Steady(c, va),
           parent[c] # None => Steady(parent[c], va)
    PROVE  CopyAt(c, va)'
<1> SUFFICES ASSUME parent[c] # None, pc'[c] # "kill", spt'[c][va] # NoPage
             PROVE  CopyAt(c, va)'
  BY DEF CopyAt
<1>1. Steady(c, va) /\ Steady(parent[c], va)
  OBVIOUS
<1>2. /\ spt[parent[c]][va] # NoPage /\ spt[parent[c]][va].kind = "anon"
      /\ spt[c][va].kind = "anon" /\ spt[c][va] # NoPage
      /\ IF InCopy(c, va)
         THEN ~spt[parent[c]][va].uninit /\ (pc[c] = "copied" => ~spt[c][va].uninit)
         ELSE /\ spt[c][va].uninit = spt[parent[c]][va].uninit
              /\ ~spt[c][va].uninit =>
                   /\ spt[c][va].frame # None /\ spt[parent[c]][va].frame # None
                   /\ ram[spt[c][va].frame] = ram[spt[parent[c]][va].frame]
  BY <1>1 DEF CopyAt, Steady
<1>3. spt'[c][va] = spt[c][va] /\ spt'[parent[c]][va] = spt[parent[c]][va]
  BY <1>1 DEF Steady
<1>4. /\ spt[c][va].frame # None => ram'[spt[c][va].frame] = ram[spt[c][va].frame]
      /\ spt[parent[c]][va].frame # None =>
           ram'[spt[parent[c]][va].frame] = ram[spt[parent[c]][va].frame]
  BY <1>1, <1>2 DEF Steady
<1> QED
  BY <1>2, <1>3, <1>4 DEF CopyAt

\* Frames and slots are of one page each.
LEMMA Apart ==
    ASSUME FrInv, NEW p \in Proc, NEW va \in Va, NEW q \in Proc, NEW vb \in Va,
           spt[p][va] # NoPage, spt[q][vb] # NoPage, spt[p][va].frame # None,
           spt[p][va].frame = spt[q][vb].frame
    PROVE  p = q /\ va = vb
<1>1. page_of[spt[p][va].frame] = <<p, va>> /\ page_of[spt[p][va].frame] = <<q, vb>>
  BY DEF FrInv, Tables, PageFrame
<1> QED
  BY <1>1

\* The file, when at most one page changes.
LEMMA ContentsStay ==
    ASSUME MappedOnce, MappedOnce', NEW p \in Proc, NEW va \in Va, NEW o \in Offset,
           \A q \in Proc, vb \in Va : q # p \/ vb # va => Steady(q, vb),
           Maps(p, va, o)' => Maps(p, va, o) /\ Shown(p, va)' = Shown(p, va),
           Maps(p, va, o) /\ ~Maps(p, va, o)' => contents'[o] = Shown(p, va),
           ~Maps(p, va, o) => contents'[o] = contents[o]
    PROVE  ContentsOf'[o] = ContentsOf[o]
<1>1. CASE Maps(p, va, o)'
  BY <1>1, ShownIs, ShownNext
<1>2. CASE Maps(p, va, o) /\ ~Maps(p, va, o)'
  <2>1. ContentsOf[o] = Shown(p, va)
    BY <1>2, ShownIs
  <2>2. ASSUME NEW q \in Proc, NEW vb \in Va, Maps(q, vb, o)' PROVE FALSE
    <3>1. q # p \/ vb # va
      BY <1>2, <2>2
    <3>2. Maps(q, vb, o)
      BY <2>2, <3>1, MapsStays
    <3> QED
      BY <1>2, <3>1, <3>2, MapsOnce
  <2> QED
    BY <1>2, <2>1, <2>2, UnmappedNext
<1>3. CASE ~Maps(p, va, o)
  <2>1. CASE \E q \in Proc, vb \in Va : Maps(q, vb, o)
    <3>1. PICK q \in Proc, vb \in Va : Maps(q, vb, o)
      BY <2>1
    <3>2. q # p \/ vb # va
      BY <1>3, <3>1
    <3>3. Maps(q, vb, o)' /\ Shown(q, vb)' = Shown(q, vb)
      BY <3>1, <3>2, MapsStays
    <3> QED
      BY <3>1, <3>3, ShownIs, ShownNext
  <2>2. CASE ~\E q \in Proc, vb \in Va : Maps(q, vb, o)
    <3>1. \A q \in Proc, vb \in Va : ~Maps(q, vb, o)'
      BY <1>3, <2>2, MapsStays
    <3>2. ContentsOf[o] = contents[o] /\ ContentsOf'[o] = contents'[o]
      BY <2>2, <3>1, UnmappedIs, UnmappedNext
    <3> QED
      BY <1>3, <3>2
  <2> QED
    BY <2>1, <2>2
<1> QED
  BY <1>1, <1>2, <1>3

\* The other processes, and the other pages, when p changes at most one page.
LEMMA OthersMem ==
    ASSUME Sane, NEW p \in Proc, pc[p] # "fork",
           \A q \in Proc \ {p} : /\ pc'[q] = pc[q] /\ at'[q] = at[q] /\ then'[q] = then[q]
                                 /\ parent'[q] = parent[q],
           NEW q \in Proc, NEW vb \in Va, q # p, \A r \in Proc \ {p} : Steady(r, vb)
    PROVE  /\ PageIsSound(q, vb)' /\ SegmentAt(q, vb)' /\ CopyAt(q, vb)'
           /\ OwnValue(q, vb)' = OwnValue(q, vb)
<1>1. PageIsSound(q, vb) /\ SegmentAt(q, vb) /\ CopyAt(q, vb) /\ Steady(q, vb)
  BY DEF Sane, MemInv
<1>2. PageIsSound(q, vb)' /\ SegmentAt(q, vb)'
  BY <1>1, SoundStays DEF SegmentAt, Steady
<1>3. (Hidden(q)' <=> Hidden(q)) /\ (InCopy(q, vb)' <=> InCopy(q, vb))
  BY DEF Hidden, InCopy, ToCopy
<1>4. parent[q] # None => parent[q] \in Proc \ {p}
  BY VmState DEF Sane, VInv, Family
<1>5. CopyAt(q, vb)'
  BY <1>1, <1>3, <1>4, CopyStays
<1> QED
  BY <1>1, <1>2, <1>3, <1>5, OwnStays

LEMMA SameMemory ==
    ASSUME \A p \in Proc, va \in Va : /\ OwnValue(p, va)' = OwnValue(p, va)
                                      /\ \A o : Maps(p, va, o)' <=> Maps(p, va, o),
           \A o \in Offset : ContentsOf'[o] = ContentsOf[o]
    PROVE  UNCHANGED <<OwnOf, MapOf, ContentsOf>>
<1>1. OwnOf' = OwnOf
  BY DEF OwnOf
<1>2. MapOf' = MapOf
  <2>1. ASSUME NEW p \in Proc, NEW va \in Va PROVE MapOf'[p][va] = MapOf[p][va]
    <3>1. \A o : Maps(p, va, o)' <=> Maps(p, va, o)
      OBVIOUS
    <3>2. CASE spt[p][va] # NoPage /\ spt[p][va].kind = "file"
      <4>1. Maps(p, va, spt[p][va].ofs)'
        BY <3>1, <3>2 DEF Maps
      <4> QED
        BY <3>2, <4>1 DEF Maps, MapOf
    <3>3. CASE ~(spt[p][va] # NoPage /\ spt[p][va].kind = "file")
      <4>1. PICK o : o = spt'[p][va].ofs
        OBVIOUS
      <4>2. ~Maps(p, va, o)'
        BY <3>1, <3>3 DEF Maps
      <4> QED
        BY <3>3, <4>1, <4>2 DEF Maps, MapOf
    <3> QED
      BY <3>2, <3>3
  <2> QED
    BY <2>1 DEF MapOf
<1>3. ContentsOf' = ContentsOf
  <2>1. /\ ContentsOf = [o \in Offset |-> ContentsOf[o]]
        /\ ContentsOf' = [o \in Offset |-> ContentsOf'[o]]
    BY DEF ContentsOf
  <2> QED
    BY <2>1
<1> QED
  BY <1>1, <1>2, <1>3

\* A step of Memory, or none.
Remembers == [M!Next]_(M!vars)

LEMMA MemoryTyped ==
    VInv => /\ OwnOf \in [Proc -> [Va -> Value \cup {None}]]
            /\ MapOf \in [Proc -> [Va -> Offset \cup {None}]]
<1> SUFFICES ASSUME VInv
             PROVE  /\ OwnOf \in [Proc -> [Va -> Value \cup {None}]]
                    /\ MapOf \in [Proc -> [Va -> Offset \cup {None}]]
  OBVIOUS
<1>1. ASSUME NEW p \in Proc, NEW va \in Va PROVE OwnValue(p, va) \in Value \cup {None}
  <2>1. CASE Hidden(p) \/ spt[p][va] = NoPage
    BY <2>1 DEF OwnValue
  <2>2. CASE ~(Hidden(p) \/ spt[p][va] = NoPage)
    <3>1. spt[p][va].frame \in Frame \cup {None} /\ spt[p][va].slot \in Slot \cup {None}
      BY <2>2, PageFields DEF VInv
    <3>2. ram \in [Frame -> Value] /\ swap \in [Slot -> Value] /\ Start \in Value
      BY VmConstants DEF VInv, WellFormed
    <3> QED
      BY <2>2, <3>1, <3>2 DEF OwnValue
  <2> QED
    BY <2>1, <2>2
<1>2. OwnOf \in [Proc -> [Va -> Value \cup {None}]]
  BY <1>1 DEF OwnOf
<1>3. MapOf \in [Proc -> [Va -> Offset \cup {None}]]
  <2>1. \A p \in Proc, va \in Va :
          (IF spt[p][va] # NoPage /\ spt[p][va].kind = "file" /\ spt[p][va].ofs \in Offset
           THEN spt[p][va].ofs ELSE None) \in Offset \cup {None}
    OBVIOUS
  <2> QED
    BY <2>1 DEF MapOf
<1> QED
  BY <1>2, <1>3

LEMMA MemoryTypedNext ==
    VInv' => /\ OwnOf' \in [Proc -> [Va -> Value \cup {None}]]
             /\ MapOf' \in [Proc -> [Va -> Offset \cup {None}]]
<1>1. (VInv => /\ OwnOf \in [Proc -> [Va -> Value \cup {None}]]
               /\ MapOf \in [Proc -> [Va -> Offset \cup {None}]])'
  BY MemoryTyped, PTL
<1> QED
  BY <1>1

\* What user code sees at an address.
LEMMA SeenIs ==
    ASSUME NEW p \in Proc, NEW va \in Va
    PROVE  /\ OwnOf[p][va] = OwnValue(p, va) /\ OwnOf'[p][va] = OwnValue(p, va)'
           /\ spt[p][va] = NoPage => OwnValue(p, va) = None /\ MapOf[p][va] = None
           /\ spt[p][va] # NoPage /\ spt[p][va].kind = "file" =>
                /\ OwnValue(p, va) = None
                /\ MapOf[p][va] = IF spt[p][va].ofs \in Offset THEN spt[p][va].ofs ELSE None
           /\ spt[p][va] # NoPage /\ spt[p][va].kind # "file" => MapOf[p][va] = None
           /\ Hidden(p) => OwnValue(p, va) = None
           /\ spt'[p][va] = NoPage => OwnValue(p, va)' = None /\ MapOf'[p][va] = None
           /\ spt'[p][va] # NoPage /\ spt'[p][va].kind = "file" =>
                /\ OwnValue(p, va)' = None
                /\ MapOf'[p][va] = IF spt'[p][va].ofs \in Offset THEN spt'[p][va].ofs ELSE None
           /\ spt'[p][va] # NoPage /\ spt'[p][va].kind # "file" => MapOf'[p][va] = None
           /\ Hidden(p)' => OwnValue(p, va)' = None
           /\ spt'[p][va] = spt[p][va] => MapOf'[p][va] = MapOf[p][va]
<1>1. OwnOf[p][va] = OwnValue(p, va) /\ OwnOf'[p][va] = OwnValue(p, va)'
  BY DEF OwnOf
<1>2. /\ MapOf[p][va] = IF spt[p][va] # NoPage /\ spt[p][va].kind = "file"
                           /\ spt[p][va].ofs \in Offset
                        THEN spt[p][va].ofs ELSE None
      /\ MapOf'[p][va] = IF spt'[p][va] # NoPage /\ spt'[p][va].kind = "file"
                            /\ spt'[p][va].ofs \in Offset
                         THEN spt'[p][va].ofs ELSE None
  BY DEF MapOf
<1>3. /\ Hidden(p) \/ spt[p][va] = NoPage \/ spt[p][va].kind = "file" => OwnValue(p, va) = None
      /\ Hidden(p)' \/ spt'[p][va] = NoPage \/ spt'[p][va].kind = "file" =>
           OwnValue(p, va)' = None
  BY DEF OwnValue
<1> QED
  BY <1>1, <1>2, <1>3

LEMMA ChangeIs ==
    ASSUME VInv', NEW p \in Proc,
           \/ \A va \in Va : M!Kept(p, va) \/ M!Got(p, va)
           \/ \A va \in Va : M!Kept(p, va) \/ M!Lost(p, va),
           \A q \in Proc \ {p}, va \in Va : M!Kept(q, va),
           \A o \in Offset : ContentsOf'[o] = ContentsOf[o]
    PROVE  Remembers
<1>1. ContentsOf' = ContentsOf
  <2>1. /\ ContentsOf = [o \in Offset |-> ContentsOf[o]]
        /\ ContentsOf' = [o \in Offset |-> ContentsOf'[o]]
    BY DEF ContentsOf
  <2> QED
    BY <2>1
<1>2. M!Change(p)
  BY <1>1, MemoryTypedNext DEF M!Change
<1> QED
  BY <1>2 DEF M!Next, Remembers

LEMMA SameRemembers ==
    ASSUME \A p \in Proc, va \in Va : /\ OwnValue(p, va)' = OwnValue(p, va)
                                      /\ \A o : Maps(p, va, o)' <=> Maps(p, va, o),
           \A o \in Offset : ContentsOf'[o] = ContentsOf[o]
    PROVE  Remembers
  BY SameMemory DEF Remembers, M!vars

\* A step that touches no page.
LEMMA QuietMem ==
    ASSUME Sane, MappedOnce, MappedOnce', NEW p \in Proc, pc[p] # "fork",
           \A q \in Proc \ {p} : /\ pc'[q] = pc[q] /\ at'[q] = at[q] /\ then'[q] = then[q]
                                 /\ parent'[q] = parent[q],
           UNCHANGED <<spt, dirty, ram, swap, contents>>,
           pc[p] # "fill" /\ pc'[p] # "fill", parent'[p] = parent[p],
           pc[p] \in {"none", "load", "kill"} => pc'[p] \in {"none", "load", "kill"},
           \/ parent[p] = None
           \/ /\ \A va \in Va : InCopy(p, va)' <=> InCopy(p, va)
              /\ pc[p] # "kill" /\ pc'[p] # "copied"
    PROVE  /\ MemInv'
           /\ \A q \in Proc, vb \in Va : Steady(q, vb)
           /\ \A q \in Proc \ {p}, vb \in Va : OwnValue(q, vb)' = OwnValue(q, vb)
           /\ \A o \in Offset : ContentsOf'[o] = ContentsOf[o]
<1>1. \A q \in Proc, vb \in Va : Steady(q, vb)
  BY DEF Steady, Filling
<1>2. \A q \in Proc, vb \in Va : q # p =>
        /\ PageIsSound(q, vb)' /\ SegmentAt(q, vb)' /\ CopyAt(q, vb)'
        /\ OwnValue(q, vb)' = OwnValue(q, vb)
  BY <1>1, OthersMem
<1>3. ASSUME NEW vb \in Va PROVE PageIsSound(p, vb)' /\ SegmentAt(p, vb)' /\ CopyAt(p, vb)'
  <2>1. PageIsSound(p, vb) /\ SegmentAt(p, vb) /\ CopyAt(p, vb) /\ Steady(p, vb)
    BY <1>1 DEF Sane, MemInv
  <2>2. SegmentAt(p, vb)'
    BY <2>1 DEF SegmentAt
  <2>3. CopyAt(p, vb)'
    <3>1. CASE parent[p] = None
      BY <3>1 DEF CopyAt
    <3>2. CASE parent[p] # None
      <4>1. parent[p] \in Proc /\ pc[p] # "kill"
        BY <3>2, VmState DEF Sane, VInv
      <4> QED
        BY <1>1, <2>1, <3>2, <4>1, CopyStays
    <3> QED
      BY <3>1, <3>2
  <2> QED
    BY <2>1, <2>2, <2>3, SoundStays
<1>4. MemInv'
  BY <1>2, <1>3 DEF MemInv
<1>5. ASSUME NEW o \in Offset PROVE ContentsOf'[o] = ContentsOf[o]
  <2>1. \A vb \in Va : /\ Maps(p, vb, o)' <=> Maps(p, vb, o)
                       /\ Maps(p, vb, o) => Shown(p, vb)' = Shown(p, vb)
    BY <1>1, MapsStays
  <2>2. Top \in Va
    BY VmConstants
  <2> QED
    BY <1>1, <2>1, <2>2, ContentsStay
<1> QED
  BY <1>1, <1>2, <1>4, <1>5

\* Steps that touch no page and hide none.
LEMMA MemQuiet ==
    ASSUME Sane, VInv', Asked, Asked', NEW p \in Proc,
           \/ \E va \in Va : Fault(p, va) \/ StackFault(p, va) \/ Munmap(p, va)
           \/ GetFrame(p) \/ LoadFails(p)
    PROVE  MemInv' /\ Remembers
<1>0. WellFormed /\ MappedOnce /\ MappedOnce' /\ Busy(p)
  BY DEF Sane, VInv, Asked
<1>1. UNCHANGED <<spt, dirty, ram, swap, contents, parent>>
  BY DEF Fault, StackFault, Munmap, GetFrame, LoadFails, tableVars, diskVars
<1>2. /\ \A q \in Proc \ {p} : pc'[q] = pc[q] /\ at'[q] = at[q] /\ then'[q] = then[q]
      /\ \/ pc[p] = "user" /\ pc'[p] \in {"claim", "grow", "unmap"}
         \/ pc[p] = "load" /\ pc'[p] = "kill"
         \/ pc[p] = "claim" /\ pc'[p] \in {"claim", "evict", "link"} /\ at' = at /\ then' = then
  <2>1. ASSUME NEW va \in Va, Fault(p, va)
        PROVE  /\ \A q \in Proc \ {p} : pc'[q] = pc[q] /\ at'[q] = at[q] /\ then'[q] = then[q]
               /\ pc[p] = "user" /\ pc'[p] = "claim"
    <3>1. pc[p] = "user" /\ Claim(p, va, "user") /\ "user" \in Places
      BY <2>1 DEF Fault, Places
    <3> QED
      BY <1>0, <3>1, ClaimIs
  <2>2. ASSUME NEW va \in Va, StackFault(p, va)
        PROVE  /\ \A q \in Proc \ {p} : pc'[q] = pc[q] /\ at'[q] = at[q] /\ then'[q] = then[q]
               /\ pc[p] = "user" /\ pc'[p] = "grow"
    <3>1. /\ pc[p] = "user" /\ Goto(p, "grow") /\ "grow" \in Places
          /\ at' = [at EXCEPT ![p] = va] /\ then' = then
      BY <2>2 DEF StackFault, Places
    <3> QED
      BY <1>0, <3>1, GotoIs, VmState
  <2>3. ASSUME NEW va \in Va, Munmap(p, va)
        PROVE  /\ \A q \in Proc \ {p} : pc'[q] = pc[q] /\ at'[q] = at[q] /\ then'[q] = then[q]
               /\ pc[p] = "user" /\ pc'[p] = "unmap"
    <3>1. /\ pc[p] = "user" /\ Goto(p, "unmap") /\ "unmap" \in Places
          /\ at' = [at EXCEPT ![p] = va] /\ then' = then
      BY <2>3 DEF Munmap, Places
    <3> QED
      BY <1>0, <3>1, GotoIs, VmState
  <2>4. CASE GetFrame(p)
    <3>1. pc[p] = "claim" /\ at' = at /\ then' = then
      BY <2>4 DEF GetFrame
    <3>2. pc' = pc \/ Goto(p, "link") \/ Goto(p, "evict")
      BY <2>4 DEF GetFrame, Got
    <3>3. "link" \in Places /\ "evict" \in Places
      BY DEF Places
    <3> QED
      BY <1>0, <3>1, <3>2, <3>3, GotoIs
  <2>5. CASE LoadFails(p)
    <3>1. pc[p] = "load" /\ Exiting(p) /\ at' = at
      BY <2>5 DEF LoadFails
    <3> QED
      BY <1>0, <3>1, ExitingIs
  <2> QED
    BY <2>1, <2>2, <2>3, <2>4, <2>5
<1>3. pc[p] # "claim" => parent[p] = None
  BY <1>2, NoParent DEF Sane
<1>4. pc[p] = "claim" => /\ (\A va \in Va : InCopy(p, va)' <=> InCopy(p, va))
                         /\ pc[p] # "kill" /\ pc'[p] # "copied"
  BY <1>2 DEF InCopy, ToCopy, Claiming
<1>5. /\ MemInv'
      /\ \A q \in Proc, vb \in Va : Steady(q, vb)
      /\ \A q \in Proc \ {p}, vb \in Va : OwnValue(q, vb)' = OwnValue(q, vb)
      /\ \A o \in Offset : ContentsOf'[o] = ContentsOf[o]
  <2>1. pc[p] # "fork" /\ pc[p] # "fill" /\ pc'[p] # "fill"
    BY <1>2
  <2>2. /\ \A q \in Proc \ {p} : /\ pc'[q] = pc[q] /\ at'[q] = at[q] /\ then'[q] = then[q]
                                 /\ parent'[q] = parent[q]
        /\ parent'[p] = parent[p]
        /\ pc[p] \in {"none", "load", "kill"} => pc'[p] \in {"none", "load", "kill"}
    BY <1>1, <1>2
  <2>3. UNCHANGED <<spt, dirty, ram, swap, contents>>
    BY <1>1
  <2> QED
    BY <1>0, <1>3, <1>4, <2>1, <2>2, <2>3, QuietMem
<1>6. Hidden(p)' <=> Hidden(p)
  BY <1>1, <1>2 DEF Hidden
<1>7. \A q \in Proc, vb \in Va : OwnValue(q, vb)' = OwnValue(q, vb)
  BY <1>5, <1>6, OwnStays
<1> QED
  BY <1>5, <1>7, MapsStays, SameRemembers

\* In exit and exec the memory of p is given up.
LEMMA MemExit ==
    ASSUME Sane, VInv', Asked, Asked', NEW p \in Proc, Exit(p) \/ Exec(p)
    PROVE  MemInv' /\ Remembers
<1>0. WellFormed /\ MappedOnce /\ MappedOnce' /\ pc[p] = "user"
  BY DEF Sane, VInv, Asked, Exit, Exec
<1>1. UNCHANGED <<at, spt, dirty, ram, swap, contents, parent>>
  BY DEF Exit, Exec, tableVars, diskVars
<1>2. pc'[p] = "kill" /\ \A q \in Proc \ {p} : pc'[q] = pc[q] /\ then'[q] = then[q]
  <2>1. CASE Exit(p)
    BY <1>0, <2>1, ExitingIs DEF Exit
  <2>2. CASE Exec(p)
    <3>1. Goto(p, "kill") /\ then' = [then EXCEPT ![p] = "load"] /\ "kill" \in Places
      BY <2>2 DEF Exec, Places
    <3> QED
      BY <1>0, <3>1, GotoIs, VmState
  <2> QED
    BY <2>1, <2>2
<1>3. parent[p] = None
  BY <1>0, NoParent DEF Sane
<1>4. /\ MemInv'
      /\ \A q \in Proc, vb \in Va : Steady(q, vb)
      /\ \A q \in Proc \ {p}, vb \in Va : OwnValue(q, vb)' = OwnValue(q, vb)
      /\ \A o \in Offset : ContentsOf'[o] = ContentsOf[o]
  <2>1. pc[p] # "fork" /\ pc[p] # "fill" /\ pc'[p] # "fill"
    BY <1>0, <1>2
  <2>2. /\ \A q \in Proc \ {p} : /\ pc'[q] = pc[q] /\ at'[q] = at[q] /\ then'[q] = then[q]
                                 /\ parent'[q] = parent[q]
        /\ parent'[p] = parent[p]
        /\ pc[p] \in {"none", "load", "kill"} => pc'[p] \in {"none", "load", "kill"}
    BY <1>0, <1>1, <1>2
  <2>3. UNCHANGED <<spt, dirty, ram, swap, contents>>
    BY <1>1
  <2> QED
    BY <1>0, <1>3, <2>1, <2>2, <2>3, QuietMem
<1>5. Hidden(p)'
  BY <1>2 DEF Hidden
<1>6. \A q \in Proc \ {p}, vb \in Va : M!Kept(q, vb)
  BY <1>1, <1>4, SeenIs DEF M!Kept
<1>7. ASSUME NEW vb \in Va PROVE M!Kept(p, vb) \/ M!Lost(p, vb)
  <2>1. OwnOf'[p][vb] = None /\ MapOf'[p][vb] = MapOf[p][vb]
    BY <1>1, <1>5, SeenIs
  <2>2. OwnOf[p][vb] = None \/ MapOf[p][vb] = None
    BY SeenIs
  <2> QED
    BY <2>1, <2>2 DEF M!Kept, M!Lost
<1>8. Remembers
  BY <1>4, <1>6, <1>7, ChangeIs
<1> QED
  BY <1>4, <1>8

\* A page with an entry is in its frame, and initialized.
LEMMA WriteTo ==
    ASSUME Sane, NEW p \in Proc, NEW va \in Va, pc[p] = "user", pml4[p][va] # None
    PROVE  /\ spt[p][va] # NoPage /\ spt[p][va].frame = pml4[p][va]
           /\ ~spt[p][va].uninit /\ spt[p][va].slot = None
           /\ pml4[p][va] \in Frame /\ parent[p] = None
<1>1. Entry(p, va) /\ Untouched(p) /\ PageIsSound(p, va) /\ WellFormed /\ VInv
  BY DEF Sane, FrInv, Tables, MemInv, VInv
<1>2. spt[p][va] # NoPage /\ spt[p][va].frame = pml4[p][va]
  BY <1>1 DEF Entry
<1>3. ~spt[p][va].uninit
  BY <1>1, <1>2 DEF Untouched
<1>4. spt[p][va].slot = None
  BY <1>1, <1>2 DEF PageIsSound, Filling
<1> QED
  BY <1>1, <1>2, <1>3, <1>4, NoParent, VmState

LEMMA MemWrite ==
    ASSUME Sane, VInv', Asked, Asked', NEW p \in Proc, NEW va \in Va, NEW v \in Value,
           Write(p, va, v)
    PROVE  MemInv' /\ Remembers
<1>0. /\ WellFormed /\ MappedOnce /\ MappedOnce' /\ pc[p] = "user" /\ pml4[p][va] # None
      /\ ram' = [ram EXCEPT ![pml4[p][va]] = v]
      /\ dirty' = [dirty EXCEPT ![p][va] = TRUE]
      /\ UNCHANGED <<pc, at, then, parent, spt, swap, contents>>
  BY DEF Sane, VInv, Asked, Write, localVars, diskVars
<1>1. PICK f \in Frame : f = pml4[p][va]
  BY <1>0, WriteTo
<1>2. /\ spt[p][va] # NoPage /\ spt[p][va].frame = f /\ f # None
      /\ ~spt[p][va].uninit /\ spt[p][va].slot = None /\ parent[p] = None
  BY <1>0, <1>1, WriteTo
<1>3. /\ ram'[f] = v /\ \A g \in Frame \ {f} : ram'[g] = ram[g]
      /\ dirty'[p][va]
      /\ \A q \in Proc, vb \in Va : q # p \/ vb # va => dirty'[q][vb] = dirty[q][vb]
  BY <1>0, <1>1 DEF WellFormed
<1>4. ASSUME NEW q \in Proc, NEW vb \in Va, q # p \/ vb # va PROVE Steady(q, vb)
  <2>1. ASSUME spt[q][vb] # NoPage, spt[q][vb].frame # None
        PROVE  spt[q][vb].frame \in Frame \ {f}
    <3>1. spt[q][vb].frame \in Frame
      BY <1>0, <2>1, PageFields
    <3>2. spt[q][vb].frame # f
      BY <1>2, <1>4, <2>1, Apart DEF Sane
    <3> QED
      BY <3>1, <3>2
  <2> QED
    BY <1>0, <1>3, <1>4, <2>1 DEF Steady, Filling
<1>5. \A q \in Proc, vb \in Va : q # p =>
        /\ PageIsSound(q, vb)' /\ SegmentAt(q, vb)' /\ CopyAt(q, vb)'
        /\ OwnValue(q, vb)' = OwnValue(q, vb)
  <2>1. \A r \in Proc \ {p}, vb \in Va : Steady(r, vb)
    BY <1>4
  <2>2. pc[p] # "fork" /\ \A q \in Proc \ {p} : /\ pc'[q] = pc[q] /\ at'[q] = at[q]
                                                 /\ then'[q] = then[q] /\ parent'[q] = parent[q]
    BY <1>0
  <2> QED
    BY <2>1, <2>2, OthersMem
<1>6. ASSUME NEW vb \in Va PROVE PageIsSound(p, vb)' /\ SegmentAt(p, vb)' /\ CopyAt(p, vb)'
  <2>0. PageIsSound(p, vb) /\ SegmentAt(p, vb)
    BY DEF Sane, MemInv
  <2>1. PageIsSound(p, vb)'
    <3>1. CASE vb = va
      BY <1>0, <1>3, <2>0, <3>1 DEF PageIsSound, Filling
    <3>2. CASE vb # va
      BY <1>4, <2>0, <3>2, SoundStays
    <3> QED
      BY <3>1, <3>2
  <2> QED
    BY <1>0, <1>2, <2>0, <2>1 DEF SegmentAt, CopyAt
<1>7. MemInv'
  BY <1>5, <1>6 DEF MemInv
<1>8. ~Hidden(p) /\ \A q \in Proc : Hidden(q)' <=> Hidden(q)
  BY <1>0, <1>2 DEF Hidden
<1>9. \A q \in Proc, vb \in Va : q # p \/ vb # va => OwnValue(q, vb)' = OwnValue(q, vb)
  BY <1>4, <1>8, OwnStays
<1>10. MapOf' = MapOf
  BY <1>0 DEF MapOf
<1>11. CASE spt[p][va].kind = "file"
  <2>1. PICK o \in Offset : o = spt[p][va].ofs
    BY <1>2, <1>11 DEF Sane, MemInv, PageIsSound
  <2>2. Maps(p, va, o)' /\ InMem(p, va)'
    BY <1>0, <1>2, <1>11, <2>1 DEF Maps, InMem, Filling
  <2>3. ContentsOf'[o] = v
    BY <1>0, <1>2, <1>3, <2>2, ShownNext DEF Shown
  <2>4. ASSUME NEW u \in Offset, u # o PROVE ContentsOf'[u] = ContentsOf[u]
    <3>1. ~Maps(p, va, u) /\ ~Maps(p, va, u)' /\ contents'[u] = contents[u]
      BY <1>0, <2>1, <2>4 DEF Maps
    <3> QED
      BY <1>0, <1>4, <3>1, ContentsStay
  <2>5. ContentsOf' = [ContentsOf EXCEPT ![o] = v]
    <3>1. /\ ContentsOf = [u \in Offset |-> ContentsOf[u]]
          /\ ContentsOf' = [u \in Offset |-> ContentsOf'[u]]
      BY DEF ContentsOf
    <3> QED
      BY <2>3, <2>4, <3>1
  <2>6. OwnOf' = OwnOf
    <3>1. OwnValue(p, va)' = None /\ OwnValue(p, va) = None
      BY <1>0, <1>2, <1>11, SeenIs
    <3> QED
      BY <1>9, <3>1 DEF OwnOf
  <2>7. MapOf[p][va] = o /\ o # None
    BY <1>2, <1>11, <2>1, SeenIs, VmConstants, ValueAssumption
  <2>8. M!Write(p, va, v)
    BY <1>10, <2>5, <2>6, <2>7 DEF M!Write
  <2>9. M!Next
    BY <2>8 DEF M!Next
  <2> QED
    BY <1>7, <2>9 DEF Remembers
<1>12. CASE spt[p][va].kind # "file"
  <2>1. \A o \in Offset : ContentsOf'[o] = ContentsOf[o]
    <3>1. \A o \in Offset : ~Maps(p, va, o) /\ ~Maps(p, va, o)' /\ contents'[o] = contents[o]
      BY <1>0, <1>12 DEF Maps
    <3> QED
      BY <1>0, <1>4, <3>1, ContentsStay
  <2>2. ContentsOf' = ContentsOf
    <3>1. /\ ContentsOf = [u \in Offset |-> ContentsOf[u]]
          /\ ContentsOf' = [u \in Offset |-> ContentsOf'[u]]
      BY DEF ContentsOf
    <3> QED
      BY <2>1, <3>1
  <2>3. OwnValue(p, va) = ram[f] /\ OwnValue(p, va)' = v
    BY <1>0, <1>2, <1>3, <1>8, <1>12 DEF OwnValue
  <2>4. OwnOf' = [OwnOf EXCEPT ![p][va] = v]
    BY <1>9, <2>3 DEF OwnOf
  <2>5. OwnOf[p][va] # None
    <3>1. ram[f] \in Value
      BY <1>0 DEF WellFormed
    <3> QED
      BY <2>3, <3>1, SeenIs, VmConstants
  <2>6. M!Write(p, va, v)
    BY <1>10, <2>2, <2>4, <2>5 DEF M!Write
  <2>7. M!Next
    BY <2>6 DEF M!Next
  <2> QED
    BY <1>7, <2>7 DEF Remembers
<1> QED
  BY <1>11, <1>12

\* A step of p that changes at most the page at va, or what it holds.
OnlyAt(p, va) ==
    /\ pc[p] # "fork" /\ parent'[p] = parent[p]
    /\ \A q \in Proc \ {p} : /\ pc'[q] = pc[q] /\ at'[q] = at[q] /\ then'[q] = then[q]
                             /\ parent'[q] = parent[q]
    /\ \A q \in Proc, vb \in Va : q # p \/ vb # va => Steady(q, vb)
    /\ pc[p] \in {"none", "load", "kill"} => pc'[p] \in {"none", "load", "kill"}
    /\ parent[p] # None /\ pc'[p] # "kill" =>
         /\ pc[p] # "kill"
         /\ \A vb \in Va : vb # va => ~InCopy(p, vb) /\ ~InCopy(p, vb)'
    /\ \A o \in Offset : /\ Maps(p, va, o)' => Maps(p, va, o) /\ Shown(p, va)' = Shown(p, va)
                         /\ Maps(p, va, o) /\ ~Maps(p, va, o)' => contents'[o] = Shown(p, va)
                         /\ ~Maps(p, va, o) => contents'[o] = contents[o]

LEMMA OnlyMem ==
    ASSUME Sane, MappedOnce, MappedOnce', NEW p \in Proc, NEW va \in Va, OnlyAt(p, va),
           PageIsSound(p, va)', SegmentAt(p, va)', CopyAt(p, va)'
    PROVE  /\ MemInv'
           /\ \A q \in Proc \ {p}, vb \in Va : OwnValue(q, vb)' = OwnValue(q, vb)
           /\ \A o \in Offset : ContentsOf'[o] = ContentsOf[o]
<1>1. \A q \in Proc, vb \in Va : q # p =>
        /\ PageIsSound(q, vb)' /\ SegmentAt(q, vb)' /\ CopyAt(q, vb)'
        /\ OwnValue(q, vb)' = OwnValue(q, vb)
  <2>1. /\ pc[p] # "fork" /\ \A r \in Proc \ {p}, vb \in Va : Steady(r, vb)
        /\ \A q \in Proc \ {p} : /\ pc'[q] = pc[q] /\ at'[q] = at[q] /\ then'[q] = then[q]
                                 /\ parent'[q] = parent[q]
    BY DEF OnlyAt
  <2> QED
    BY <2>1, OthersMem
<1>2. ASSUME NEW vb \in Va, vb # va
      PROVE  PageIsSound(p, vb)' /\ SegmentAt(p, vb)' /\ CopyAt(p, vb)'
  <2>1. PageIsSound(p, vb) /\ SegmentAt(p, vb) /\ CopyAt(p, vb) /\ Steady(p, vb)
    BY <1>2 DEF Sane, MemInv, OnlyAt
  <2>2. SegmentAt(p, vb)'
    BY <2>1 DEF SegmentAt, OnlyAt, Steady
  <2>3. CopyAt(p, vb)'
    <3>1. CASE parent[p] = None \/ pc'[p] = "kill"
      BY <3>1 DEF CopyAt, OnlyAt
    <3>2. CASE parent[p] # None /\ pc'[p] # "kill"
      <4>1. parent[p] \in Proc /\ pc[parent[p]] = "fork"
        BY <3>2, VmState DEF Sane, VInv, Family
      <4>2. parent[p] # p /\ parent'[p] = parent[p] /\ pc[p] # "kill"
            /\ ~InCopy(p, vb) /\ ~InCopy(p, vb)'
        BY <1>2, <3>2, <4>1 DEF OnlyAt
      <4>3. Steady(parent[p], vb)
        BY <4>1, <4>2 DEF OnlyAt
      <4> QED
        BY <2>1, <4>2, <4>3, CopyStays
    <3> QED
      BY <3>1, <3>2
  <2> QED
    BY <2>1, <2>2, <2>3, SoundStays
<1>3. MemInv'
  BY <1>1, <1>2 DEF MemInv
<1>4. \A o \in Offset : ContentsOf'[o] = ContentsOf[o]
  BY ContentsStay DEF OnlyAt
<1> QED
  BY <1>1, <1>3, <1>4

\* ... and not what user code sees of it.
LEMMA OnlySame ==
    ASSUME Sane, MappedOnce, MappedOnce', NEW p \in Proc, NEW va \in Va, OnlyAt(p, va),
           PageIsSound(p, va)', SegmentAt(p, va)', CopyAt(p, va)',
           Hidden(p)' <=> Hidden(p), OwnValue(p, va)' = OwnValue(p, va),
           \A o : Maps(p, va, o)' <=> Maps(p, va, o)
    PROVE  MemInv' /\ Remembers
<1>1. /\ MemInv'
      /\ \A q \in Proc \ {p}, vb \in Va : OwnValue(q, vb)' = OwnValue(q, vb)
      /\ \A o \in Offset : ContentsOf'[o] = ContentsOf[o]
  BY OnlyMem
<1>2. \A q \in Proc, vb \in Va : q # p \/ vb # va => Steady(q, vb)
  BY DEF OnlyAt
<1>3. \A q \in Proc, vb \in Va : OwnValue(q, vb)' = OwnValue(q, vb)
  BY <1>1, <1>2, OwnStays
<1>4. \A q \in Proc, vb \in Va : \A o : Maps(q, vb, o)' <=> Maps(q, vb, o)
  BY <1>2, MapsStays
<1> QED
  BY <1>1, <1>3, <1>4, SameRemembers

\* The stack grows where no page of the executable can be.
LEMMA MemStackGrowth ==
    ASSUME Sane, VInv', Asked, Asked', NEW p \in Proc, StackGrowth(p)
    PROVE  MemInv' /\ Remembers
<1>0. /\ WellFormed /\ MappedOnce /\ MappedOnce' /\ pc[p] = "grow" /\ Busy(p)
      /\ UNCHANGED <<parent, dirty, ram, swap, contents>>
  BY DEF Sane, VInv, Asked, StackGrowth, diskVars
<1>1. parent[p] = None
  BY <1>0, NoParent DEF Sane
<1>2. CASE at[p] \in Va /\ PageOf(p, at[p]) = NoPage
  <2>1. PICK va \in Va : va = at[p]
    BY <1>2
  <2>2. PICK page : page = NewPage("anon", FALSE, 0, 0, None)
    OBVIOUS
  <2>3. /\ page \in PageRecord /\ page # NoPage /\ page.kind = "anon" /\ page.uninit
        /\ ~page.lazy /\ page.frame = None /\ page.slot = None
    <3>1. page \in PageRecord
      BY <2>2, VmConstants DEF NewPage, PageRecord
    <3> QED
      BY <2>2, <3>1, PageKinds DEF NewPage
  <2>4. /\ spt' = [spt EXCEPT ![p][va] = page] /\ spt[p][va] = NoPage
        /\ Claim(p, va, "grow") /\ "grow" \in Places
    BY <1>2, <2>1, <2>2 DEF StackGrowth, PageOf, Places
  <2>5. /\ spt'[p][va] = page
        /\ \A q \in Proc, vb \in Va : q # p \/ vb # va => spt'[q][vb] = spt[q][vb]
    BY <1>0, <2>3, <2>4, VmState
  <2>6. /\ pc'[p] = "claim"
        /\ \A q \in Proc \ {p} : pc'[q] = pc[q] /\ at'[q] = at[q] /\ then'[q] = then[q]
    BY <1>0, <2>4, ClaimIs
  <2>7. \A q \in Proc, vb \in Va : q # p \/ vb # va => Steady(q, vb)
    BY <1>0, <2>5, <2>6 DEF Steady, Filling
  <2>8. OnlyAt(p, va)
    BY <1>0, <1>1, <2>3, <2>4, <2>5, <2>6, <2>7 DEF OnlyAt, Maps
  <2>9. va \notin Segment
    BY <1>0, <1>1, <2>4 DEF Sane, MemInv, SegmentAt
  <2>10. PageIsSound(p, va)' /\ SegmentAt(p, va)' /\ CopyAt(p, va)'
    BY <1>0, <1>1, <2>3, <2>5, <2>9 DEF PageIsSound, SegmentAt, CopyAt
  <2>11. Hidden(p)' <=> Hidden(p)
    BY <1>0, <1>1, <2>6 DEF Hidden
  <2>12. OwnValue(p, va)' = OwnValue(p, va)
    BY <2>3, <2>4, <2>5 DEF OwnValue
  <2>13. \A o : Maps(p, va, o)' <=> Maps(p, va, o)
    BY <2>3, <2>4, <2>5 DEF Maps
  <2> QED
    BY <1>0, <2>8, <2>10, <2>11, <2>12, <2>13, OnlySame
<1>3. CASE ~(at[p] \in Va /\ PageOf(p, at[p]) = NoPage)
  <2>1. Goto(p, "user") /\ UNCHANGED <<at, then, spt>> /\ "user" \in Places
    BY <1>3 DEF StackGrowth, Places
  <2>2. pc'[p] = "user" /\ \A q \in Proc \ {p} : pc'[q] = pc[q]
    BY <1>0, <2>1, GotoIs
  <2>3. /\ MemInv'
        /\ \A q \in Proc, vb \in Va : Steady(q, vb)
        /\ \A o \in Offset : ContentsOf'[o] = ContentsOf[o]
    BY <1>0, <1>1, <2>1, <2>2, QuietMem
  <2>4. \A q \in Proc : Hidden(q)' <=> Hidden(q)
    BY <1>0, <1>1, <2>2 DEF Hidden
  <2> QED
    BY <2>3, <2>4, OwnStays, MapsStays, SameRemembers
<1> QED
  BY <1>2, <1>3

\* The page is mapped to its frame, and not filled yet.
LEMMA MemLink ==
    ASSUME Sane, VInv', Asked, Asked', NEW p \in Proc, Link(p)
    PROVE  MemInv' /\ Remembers
<1>0. /\ WellFormed /\ MappedOnce /\ MappedOnce' /\ pc[p] = "link" /\ at[p] \in Va
      /\ frame[p] \in Frame /\ pc'[p] = "fill"
      /\ UNCHANGED <<at, then, parent>>
      /\ \A q \in Proc \ {p} : pc'[q] = pc[q]
  BY LinkIs DEF Sane, VInv, Asked
<1>1. PICK va \in Va : va = at[p]
  BY <1>0
<1>2. /\ UNCHANGED <<ram, swap, contents>> /\ dirty' = [dirty EXCEPT ![p][va] = FALSE]
  BY <1>1 DEF Link, SetPage, diskVars
<1>3. PICK old : old = spt[p][va]
  OBVIOUS
<1>4. old # NoPage /\ old \in PageRecord /\ old.frame = None
  BY <1>0, <1>1, <1>3, ClaimedPage DEF Sane, FrInv, Fresh, Claiming
<1>5. PICK page \in PageRecord :
        spt' = [spt EXCEPT ![p][va] = page] /\ page = [old EXCEPT !.frame = frame[p]]
  BY <1>1, <1>3, LinkIs DEF Sane
<1>6. /\ page # NoPage /\ page.kind = old.kind /\ page.lazy = old.lazy /\ page.ofs = old.ofs
      /\ page.loader = old.loader /\ page.slot = old.slot /\ page.uninit = old.uninit
  BY <1>4, <1>5, PageKinds DEF PageRecord
<1>7. /\ spt'[p][va] = page
      /\ \A q \in Proc, vb \in Va : q # p \/ vb # va => spt'[q][vb] = spt[q][vb]
  BY <1>0, <1>5, VmState
<1>8. \A q \in Proc, vb \in Va : q # p \/ vb # va => dirty'[q][vb] = dirty[q][vb]
  BY <1>0, <1>2, VmState
<1>9. \A q \in Proc, vb \in Va : q # p \/ vb # va => Steady(q, vb)
  BY <1>0, <1>1, <1>2, <1>7, <1>8 DEF Steady, Filling
<1>10. PageIsSound(p, va) /\ SegmentAt(p, va) /\ CopyAt(p, va) /\ SlotAgrees(p, va)
  BY SlotsAt DEF Sane, MemInv
<1>11. /\ \A o : Maps(p, va, o)' <=> Maps(p, va, o)
       /\ Shown(p, va)' = Shown(p, va)
  <2>1. Filling(p, va)' /\ ~InMem(p, va) /\ ~InMem(p, va)'
    BY <1>0, <1>1, <1>3, <1>4 DEF Filling, InMem
  <2> QED
    BY <1>2, <1>3, <1>4, <1>6, <1>7, <2>1 DEF Maps, Shown
<1>12. OnlyAt(p, va)
  <2>1. \A vb \in Va : vb # va => ~InCopy(p, vb) /\ ~InCopy(p, vb)'
    BY <1>0, <1>1 DEF InCopy
  <2> QED
    BY <1>0, <1>2, <1>9, <1>11, <2>1 DEF OnlyAt
<1>13. PageIsSound(p, va)' /\ SegmentAt(p, va)'
  <2>1. Filling(p, va)'
    BY <1>0, <1>1 DEF Filling
  <2> QED
    BY <1>0, <1>3, <1>4, <1>6, <1>7, <1>10, <2>1 DEF PageIsSound, SegmentAt
<1>14. CopyAt(p, va)'
  <2>1. CASE parent[p] = None
    BY <1>0, <2>1 DEF CopyAt
  <2>2. CASE parent[p] # None
    <3>1. /\ pc[parent[p]] = "fork" /\ ToCopy(p) /\ parent[p] \in Proc
      <4>1. pc[parent[p]] = "fork" /\ Copying(p)
        BY <2>2 DEF Sane, VInv, Family
      <4>2. parent[p] \in Proc
        BY <1>0, <2>2, VmState
      <4> QED
        BY <1>0, <4>1, <4>2 DEF Copying
    <3>2. InCopy(p, va) /\ InCopy(p, va)' /\ parent[p] # p
      BY <1>0, <1>1, <3>1 DEF InCopy, ToCopy, Claiming
    <3>3. spt'[parent[p]][va] = spt[parent[p]][va]
      BY <1>7, <3>1, <3>2
    <3> QED
      BY <1>0, <1>3, <1>4, <1>6, <1>7, <1>10, <2>2, <3>2, <3>3 DEF CopyAt
  <2> QED
    BY <2>1, <2>2
<1>15. Hidden(p)' <=> Hidden(p)
  BY <1>0 DEF Hidden
<1>16. OwnValue(p, va)' = OwnValue(p, va)
  <2>1. ~old.uninit /\ old.kind = "anon" => old.slot # None
    BY <1>3, <1>4, <1>10 DEF SlotAgrees
  <2>2. old.kind \in {"anon", "file"}
    BY <1>4 DEF PageRecord
  <2> QED
    BY <1>2, <1>3, <1>4, <1>6, <1>7, <1>15, <2>1, <2>2 DEF OwnValue
<1> QED
  BY <1>0, <1>11, <1>12, <1>13, <1>14, <1>15, <1>16, OnlySame

LEMMA MemStays ==
    ASSUME MemInv, UNCHANGED <<pc, at, then, parent, spt, dirty, ram, swap, contents>>
    PROVE  MemInv' /\ Remembers
<1>1. MemInv'
  BY DEF MemInv, PageIsSound, SegmentAt, CopyAt, InCopy, ToCopy, Filling
<1>2. OwnOf' = OwnOf
  BY DEF OwnOf, OwnValue, Hidden
<1>3. MapOf' = MapOf
  BY DEF MapOf
<1>4. ContentsOf' = ContentsOf
  BY DEF ContentsOf, InMemory, Pages, PageAt
<1> QED
  BY <1>1, <1>2, <1>3, <1>4 DEF Remembers, M!vars

\* What do_munmap and supplemental_page_table_kill end: the file holds what the page held.
LEMMA MemGone ==
    ASSUME Sane, VInv', Asked, Asked', NEW p \in Proc, NEW va \in Va, spt[p][va] # NoPage,
           Dealloc(p, va), UNCHANGED <<pc, then, parent, dirty, ram, swap>>,
           \A q \in Proc \ {p} : at'[q] = at[q],
           pc[p] = "kill" \/ (pc[p] = "unmap" /\ spt[p][va].kind = "file")
    PROVE  MemInv' /\ Remembers
<1>0. WellFormed /\ MappedOnce /\ MappedOnce' /\ VInv
  BY DEF Sane, VInv, Asked
<1>1. PICK page : page = spt[p][va]
  OBVIOUS
<1>2. /\ page # NoPage /\ page.kind \in {"anon", "file"}
      /\ page.frame \in Frame \cup {None}
      /\ page.kind = "file" /\ ~page.uninit => page.ofs \in Offset
  BY <1>0, <1>1, PageFields DEF Sane, MemInv, PageIsSound
<1>3. /\ spt'[p][va] = NoPage
      /\ \A q \in Proc, vb \in Va : q # p \/ vb # va => spt'[q][vb] = spt[q][vb]
  BY <1>0, DeallocIs
<1>4. /\ page.kind = "file" /\ ~page.uninit /\ dirty[p][va] /\ page.frame # None =>
           contents' = [contents EXCEPT ![page.ofs] = ram[page.frame]]
      /\ ~(page.kind = "file" /\ ~page.uninit /\ dirty[p][va] /\ page.frame # None) =>
           contents' = contents
  BY <1>1 DEF Dealloc, Written
<1>5. \A o \in Offset : contents'[o] = contents[o] \/ Maps(p, va, o)
  BY <1>0, <1>1, <1>2, <1>4 DEF Maps, WellFormed
<1>6. ASSUME NEW q \in Proc, NEW vb \in Va, q # p \/ vb # va PROVE Steady(q, vb)
  <2>1. spt'[q][vb] = spt[q][vb]
    BY <1>3, <1>6
  <2>2. Filling(q, vb)' <=> Filling(q, vb)
    BY DEF Filling
  <2>3. ASSUME spt[q][vb] # NoPage, spt[q][vb].kind = "file", spt[q][vb].ofs \in Offset
        PROVE  contents'[spt[q][vb].ofs] = contents[spt[q][vb].ofs]
    <3>1. PICK o \in Offset : o = spt[q][vb].ofs
      BY <2>3
    <3>2. Maps(q, vb, o)
      BY <2>3, <3>1 DEF Maps
    <3>3. ~Maps(p, va, o)
      BY <1>0, <1>6, <3>2, MapsOnce
    <3> QED
      BY <1>5, <3>1, <3>3
  <2> QED
    BY <2>1, <2>2, <2>3 DEF Steady
<1>7. \A o \in Offset : ~Maps(p, va, o)' /\ (~Maps(p, va, o) => contents'[o] = contents[o])
  BY <1>3, <1>5 DEF Maps
<1>8. ASSUME NEW o \in Offset, Maps(p, va, o) PROVE contents'[o] = Shown(p, va)
  <2>1. page.kind = "file" /\ page.ofs = o /\ ~Filling(p, va)
    BY <1>1, <1>8 DEF Maps, Filling
  <2>2. CASE ~page.uninit /\ page.frame # None
    <3>1. InMem(p, va) /\ Shown(p, va) = ram[page.frame]
      BY <1>1, <2>1, <2>2 DEF InMem, Shown
    <3>2. CASE dirty[p][va]
      <4>1. contents' = [contents EXCEPT ![o] = ram[page.frame]]
        BY <1>4, <2>1, <2>2, <3>2
      <4> QED
        BY <1>0, <3>1, <4>1 DEF WellFormed
    <3>3. CASE ~dirty[p][va]
      <4>1. ram[page.frame] = contents[o]
        BY <1>1, <1>2, <2>1, <2>2, <3>3 DEF Sane, MemInv, PageIsSound
      <4>2. contents' = contents
        BY <1>4, <3>3
      <4> QED
        BY <3>1, <4>1, <4>2
    <3> QED
      BY <3>2, <3>3
  <2>3. CASE ~(~page.uninit /\ page.frame # None)
    <3>1. contents' = contents
      BY <1>4, <2>3
    <3>2. ~InMem(p, va)
      BY <1>1, <2>3 DEF InMem
    <3> QED
      BY <1>1, <2>1, <3>1, <3>2 DEF Shown
  <2> QED
    BY <2>2, <2>3
<1>9. pc[p] = "unmap" => parent[p] = None
  BY <1>0, NoParent
<1>10. OnlyAt(p, va)
  BY <1>6, <1>7, <1>8, <1>9 DEF OnlyAt
<1>11. SegmentAt(p, va)'
  BY <1>1, <1>2 DEF Sane, MemInv, SegmentAt
<1>12. PageIsSound(p, va)' /\ CopyAt(p, va)'
  BY <1>3 DEF PageIsSound, CopyAt
<1>13. /\ MemInv'
       /\ \A q \in Proc \ {p}, vb \in Va : OwnValue(q, vb)' = OwnValue(q, vb)
       /\ \A o \in Offset : ContentsOf'[o] = ContentsOf[o]
  BY <1>0, <1>10, <1>11, <1>12, OnlyMem
<1>14. Hidden(p)' <=> Hidden(p)
  BY DEF Hidden
<1>15. \A q \in Proc \ {p}, vb \in Va : M!Kept(q, vb)
  BY <1>3, <1>13, SeenIs DEF M!Kept
<1>16. \A vb \in Va : vb # va => M!Kept(p, vb)
  BY <1>3, <1>6, <1>14, OwnStays, SeenIs DEF M!Kept
<1>17. M!Lost(p, va)
  BY <1>3, SeenIs DEF M!Lost
<1>18. Remembers
  <2>1. \A vb \in Va : M!Kept(p, vb) \/ M!Lost(p, vb)
    BY <1>16, <1>17
  <2> QED
    BY <1>13, <1>15, <2>1, ChangeIs
<1> QED
  BY <1>13, <1>18

LEMMA MemKillNext ==
    ASSUME Sane, VInv', Asked, Asked', NEW p \in Proc, NEW va \in Va, KillNext(p, va)
    PROVE  MemInv' /\ Remembers
<1>1. /\ pc[p] = "kill" /\ spt[p][va] # NoPage /\ Dealloc(p, va)
      /\ UNCHANGED <<pc, at, then, parent, dirty, ram, swap>>
  BY DEF KillNext, localVars
<1> QED
  BY <1>1, MemGone

LEMMA MemUnmapNext ==
    ASSUME Sane, VInv', Asked, Asked', NEW p \in Proc, UnmapNext(p)
    PROVE  MemInv' /\ Remembers
<1>0. /\ pc[p] = "unmap" /\ WellFormed /\ MappedOnce /\ MappedOnce' /\ VInv
      /\ UNCHANGED <<then, parent, dirty, ram, swap>>
  BY DEF UnmapNext, Sane, VInv, Asked
<1>1. CASE MoreToUnmap(p)
  <2>1. /\ Dealloc(p, at[p]) /\ at' = [at EXCEPT ![p] = at[p] + 1] /\ pc' = pc
    BY <1>1 DEF UnmapNext
  <2>2. /\ at[p] \in Va /\ left[p] > 0 /\ spt[p][at[p]] # NoPage
    BY <1>1 DEF MoreToUnmap, PageOf
  <2>3. spt[p][at[p]].kind = "file"
    <3>1. Untouched(p) /\ 0 \in Nat /\ 0 < left[p] /\ at[p] + 0 = at[p]
      BY <1>0, <2>2, VmState DEF Sane, FrInv
    <3>2. PageOf(p, at[p]) # NoPage => PageOf(p, at[p]).kind = "file"
      BY <1>0, <3>1 DEF Untouched
    <3> QED
      BY <2>2, <3>2 DEF PageOf
  <2>4. \A q \in Proc \ {p} : at'[q] = at[q]
    BY <1>0, <2>1, VmState
  <2> QED
    BY <1>0, <2>1, <2>2, <2>3, <2>4, MemGone
<1>2. CASE ~MoreToUnmap(p)
  <2>1. Goto(p, "user") /\ "user" \in Places /\ UNCHANGED <<at, spt, contents>>
    BY <1>2 DEF UnmapNext, Places
  <2>2. pc'[p] = "user" /\ \A q \in Proc \ {p} : pc'[q] = pc[q]
    BY <1>0, <2>1, GotoIs
  <2>3. parent[p] = None
    BY <1>0, NoParent
  <2>4. /\ MemInv'
        /\ \A q \in Proc, vb \in Va : Steady(q, vb)
        /\ \A o \in Offset : ContentsOf'[o] = ContentsOf[o]
    BY <1>0, <2>1, <2>2, <2>3, QuietMem
  <2>5. \A q \in Proc : Hidden(q)' <=> Hidden(q)
    BY <1>0, <2>2 DEF Hidden
  <2> QED
    BY <2>4, <2>5, OwnStays, MapsStays, SameRemembers
<1> QED
  BY <1>1, <1>2

\* The block of the file is another's, and cannot be read: the page is one of the
\* executable, and the process exits, or the kernel panics.
LEMMA MemFillFails ==
    ASSUME Sane, VInv', Asked, Asked', NEW p \in Proc, Fill(p), ~astray',
           ~CannotFill(spt[p][at[p]]), ReadsClosed(p, spt[p][at[p]])
    PROVE  MemInv' /\ Remembers
<1>0. /\ WellFormed /\ VInv /\ MappedOnce /\ MappedOnce' /\ pc[p] = "fill"
      /\ UNCHANGED <<at, parent, dirty, swap, contents>>
  BY DEF Sane, VInv, Asked, Fill
<1>1. PICK va \in Va : va = at[p]
  BY <1>0, ClaimedPage DEF Claiming
<1>2. PICK old : old = spt[p][va]
  OBVIOUS
<1>3. /\ old # NoPage /\ old \in PageRecord /\ old.frame \in Frame /\ old.frame # None
      /\ PageIsSound(p, va) /\ SegmentAt(p, va) /\ CopyAt(p, va)
  <2>1. old # NoPage /\ old \in PageRecord
    BY <1>0, <1>1, <1>2, ClaimedPage DEF Claiming
  <2> QED
    BY <1>1, <1>2, <2>1 DEF CannotFill, PageRecord, Sane, MemInv
<1>4. old.kind = "anon" /\ old.uninit /\ old.lazy /\ old.slot = None
  <2>1. FileIsClosed(old)
    BY <1>1, <1>2 DEF ReadsClosed
  <2>2. old.kind = "anon" /\ old.uninit /\ old.lazy
    BY <2>1 DEF FileIsClosed, FromFile
  <2> QED
    BY <1>2, <1>3, <2>2 DEF PageIsSound
<1>5. /\ Initialized(p) /\ ram' = ram
      /\ Exiting(p) \/ (pc' = pc /\ then' = then)
  BY DEF ReadsClosed
<1>6. PICK page \in PageRecord :
        /\ spt' = [spt EXCEPT ![p][va] = page]
        /\ page.kind = "anon" /\ page.frame = old.frame /\ page.slot = None /\ page.uninit = FALSE
        /\ page.lazy
  BY <1>0, <1>1, <1>2, <1>3, <1>4, <1>5, InitializedIs
<1>7. /\ spt'[p][va] = page /\ page # NoPage
      /\ \A q \in Proc, vb \in Va : q # p \/ vb # va => spt'[q][vb] = spt[q][vb]
  BY <1>0, <1>6, VmState, PageKinds
<1>8. /\ pc'[p] = "kill" \/ (pc' = pc /\ then' = then)
      /\ \A q \in Proc \ {p} : pc'[q] = pc[q] /\ then'[q] = then[q]
  BY <1>0, <1>5, ExitingIs
<1>9. \A q \in Proc, vb \in Va : q # p \/ vb # va => Steady(q, vb)
  BY <1>0, <1>1, <1>5, <1>7, <1>8 DEF Steady, Filling
<1>10. \A o : ~Maps(p, va, o) /\ ~Maps(p, va, o)'
  BY <1>2, <1>4, <1>6, <1>7 DEF Maps
<1>11. OnlyAt(p, va)
  <2>1. \A vb \in Va : vb # va => ~InCopy(p, vb) /\ ~InCopy(p, vb)'
    BY <1>0, <1>1 DEF InCopy
  <2> QED
    BY <1>0, <1>8, <1>9, <1>10, <2>1 DEF OnlyAt
<1>12. PageIsSound(p, va)' /\ SegmentAt(p, va)'
  BY <1>0, <1>2, <1>3, <1>4, <1>6, <1>7 DEF PageIsSound, SegmentAt
<1>13. CopyAt(p, va)'
  <2>1. CASE parent[p] = None \/ pc'[p] = "kill"
    BY <1>0, <2>1 DEF CopyAt
  <2>2. CASE parent[p] # None /\ pc'[p] # "kill"
    <3>1. pc[parent[p]] = "fork" /\ Copying(p)
      BY <2>2 DEF Sane, VInv, Family
    <3>2. ToCopy(p) /\ parent[p] \in Proc /\ parent[p] # p
      BY <1>0, <2>2, <3>1, VmState DEF Copying
    <3>3. InCopy(p, va) /\ InCopy(p, va)' /\ pc'[p] = "fill"
      BY <1>0, <1>1, <1>8, <2>2, <3>2 DEF InCopy, ToCopy, Claiming
    <3>4. spt'[parent[p]][va] = spt[parent[p]][va]
      BY <1>7, <3>2
    <3> QED
      BY <1>0, <1>2, <1>3, <1>6, <1>7, <2>2, <3>3, <3>4 DEF CopyAt
  <2> QED
    BY <2>1, <2>2
<1>14. /\ MemInv'
       /\ \A q \in Proc \ {p}, vb \in Va : OwnValue(q, vb)' = OwnValue(q, vb)
       /\ \A o \in Offset : ContentsOf'[o] = ContentsOf[o]
  BY <1>0, <1>11, <1>12, <1>13, OnlyMem
<1>15. \A q \in Proc, vb \in Va : MapOf'[q][vb] = MapOf[q][vb]
  BY <1>2, <1>3, <1>4, <1>6, <1>7, SeenIs
<1>16. CASE Hidden(p)'
  <2>1. \A q \in Proc \ {p}, vb \in Va : M!Kept(q, vb)
    BY <1>14, <1>15, SeenIs DEF M!Kept
  <2>2. ASSUME NEW vb \in Va PROVE M!Kept(p, vb) \/ M!Lost(p, vb)
    <3>1. OwnOf'[p][vb] = None /\ MapOf'[p][vb] = MapOf[p][vb]
      BY <1>15, <1>16, SeenIs
    <3>2. OwnOf[p][vb] = None \/ MapOf[p][vb] = None
      BY SeenIs
    <3> QED
      BY <3>1, <3>2 DEF M!Kept, M!Lost
  <2>3. Remembers
    BY <1>14, <2>1, <2>2, ChangeIs
  <2> QED
    BY <1>14, <2>3
<1>17. CASE ~Hidden(p)'
  <2>1. ~Hidden(p) /\ pc' = pc
    BY <1>0, <1>8, <1>17 DEF Hidden
  <2>2. Hidden(p)' <=> Hidden(p)
    BY <1>17, <2>1
  <2>3. \A vb \in Va : vb # va => OwnValue(p, vb)' = OwnValue(p, vb)
    BY <1>9, <2>2, OwnStays
  <2>4. OwnValue(p, va) = Start /\ OwnValue(p, va)' = ram[old.frame]
    BY <1>2, <1>3, <1>4, <1>5, <1>6, <1>7, <1>17, <2>1 DEF OwnValue
  <2>5. Start # None /\ ram[old.frame] \in Value
    BY <1>0, <1>3, VmConstants DEF WellFormed
  <2>6. OwnOf' = [OwnOf EXCEPT ![p][va] = ram[old.frame]]
    <3>1. \A q \in Proc, vb \in Va : q # p \/ vb # va => OwnValue(q, vb)' = OwnValue(q, vb)
      BY <1>14, <2>3
    <3> QED
      BY <2>4, <3>1 DEF OwnOf
  <2>7. MapOf' = MapOf
    BY <1>15 DEF MapOf
  <2>8. ContentsOf' = ContentsOf
    <3>1. /\ ContentsOf = [o \in Offset |-> ContentsOf[o]]
          /\ ContentsOf' = [o \in Offset |-> ContentsOf'[o]]
      BY DEF ContentsOf
    <3> QED
      BY <1>14, <3>1
  <2>9. OwnOf[p][va] # None
    BY <2>4, <2>5, SeenIs
  <2>10. M!Write(p, va, ram[old.frame])
    BY <2>6, <2>7, <2>8, <2>9 DEF M!Write
  <2>11. M!Next
    BY <2>5, <2>10 DEF M!Next
  <2> QED
    BY <1>14, <2>11 DEF Remembers
<1> QED
  BY <1>16, <1>17

\* The page comes in: with what the file, the executable or the slot holds, or, if it
\* is one of the stack, with what was in the frame.
LEMMA FillTo ==
    ASSUME Sane, NEW p \in Proc, Fill(p), Filled(p, spt[p][at[p]])
    PROVE  /\ spt' = [spt EXCEPT ![p][at[p]] = [@ EXCEPT !.uninit = FALSE, !.slot = None]]
           /\ ram' = [ram EXCEPT ![spt[p][at[p]].frame] = Source(p, at[p])]
           /\ Goto(p, then[p]) /\ then' = then
<1>1. PICK old : old = spt[p][at[p]]
  OBVIOUS
<1>2. at[p] \in Va /\ old # NoPage /\ WellFormed
  BY <1>1, ClaimedPage DEF Fill, Sane, VInv, Claiming
<1>4. /\ spt' = [spt EXCEPT ![p][at[p]].uninit = FALSE, ![p][at[p]].slot = None]
      /\ ram' = [ram EXCEPT ![old.frame] = Source(p, at[p])]
      /\ Goto(p, then[p]) /\ then' = then
  BY <1>1 DEF Filled, Initialized
<1>5. spt \in [Proc -> [Va -> PageRecord \cup {NoPage}]]
  BY <1>2, VmState
<1>6. spt' = [spt EXCEPT ![p][at[p]] = [@ EXCEPT !.uninit = FALSE, !.slot = None]]
  BY <1>2, <1>4, <1>5
<1> QED
  BY <1>1, <1>4, <1>6

LEMMA MemFill ==
    ASSUME Sane, VInv', Asked, Asked', NEW p \in Proc, Fill(p), ~astray'
    PROVE  MemInv' /\ Remembers
<1>0. /\ WellFormed /\ VInv /\ MappedOnce /\ MappedOnce' /\ pc[p] = "fill" /\ Busy(p)
      /\ UNCHANGED <<at, parent, dirty, swap, contents>>
  BY DEF Sane, VInv, Asked, Fill
<1>1. CASE CannotFill(spt[p][at[p]])
  <2>1. UNCHANGED <<pc, then, spt, ram>>
    BY <1>1 DEF Fill
  <2> QED
    BY <1>0, <2>1, MemStays DEF Sane
<1>2. CASE ~CannotFill(spt[p][at[p]]) /\ ReadsClosed(p, spt[p][at[p]])
  BY <1>2, MemFillFails
<1>3. CASE ~CannotFill(spt[p][at[p]]) /\ Filled(p, spt[p][at[p]])
  <2>1. PICK va \in Va : va = at[p]
    BY <1>0, ClaimedPage DEF Claiming
  <2>2. PICK old : old = spt[p][va]
    OBVIOUS
  <2>3. old # NoPage /\ old \in PageRecord
    BY <1>0, <2>1, <2>2, ClaimedPage DEF Claiming
  <2>4. PICK page : page = [old EXCEPT !.uninit = FALSE, !.slot = None]
    OBVIOUS
  <2>5. /\ page \in PageRecord /\ page # NoPage /\ page.kind = old.kind /\ page.lazy = old.lazy
        /\ page.loader = old.loader /\ page.ofs = old.ofs /\ page.frame = old.frame /\ ~page.uninit /\ page.slot = None
    <3>1. page \in PageRecord
      BY <2>3, <2>4 DEF PageRecord
    <3> QED
      BY <2>3, <2>4, <3>1, PageKinds DEF PageRecord
  <2>6. PICK v : v = Source(p, va)
    OBVIOUS
  <2>7. /\ spt' = [spt EXCEPT ![p][va] = page] /\ ram' = [ram EXCEPT ![old.frame] = v]
        /\ Goto(p, then[p]) /\ then' = then
    BY <1>3, <2>1, <2>2, <2>4, <2>6, FillTo
  <2>8. then[p] \in {"user", "grow", "copied"} /\ then[p] \in Places
    BY <1>0 DEF Busy, Claiming, Places
  <2>9. pc'[p] = then[p] /\ \A q \in Proc \ {p} : pc'[q] = pc[q]
    BY <1>0, <2>7, <2>8, GotoIs
  <2>10. /\ spt'[p][va] = page
         /\ \A q \in Proc, vb \in Va : q # p \/ vb # va => spt'[q][vb] = spt[q][vb]
    BY <1>0, <2>5, <2>7, VmState
  <2>11. /\ old.frame \in Frame /\ old.frame # None
         /\ ~old.uninit /\ old.kind = "anon" => old.slot # None
    BY <1>3, <2>1, <2>2, <2>3 DEF CannotFill, PageRecord
  <2>12. ram'[old.frame] = v /\ \A g \in Frame \ {old.frame} : ram'[g] = ram[g]
    BY <1>0, <2>7, <2>11 DEF WellFormed
  <2>13. PageIsSound(p, va) /\ SegmentAt(p, va) /\ CopyAt(p, va) /\ Filling(p, va)
    BY <1>0, <2>1 DEF Sane, MemInv, Filling
  <2>14. ~Filling(p, va)' /\ (pc'[p] = "copied" <=> ToCopy(p))
    BY <1>0, <2>8, <2>9 DEF Filling, ToCopy, Claiming
  <2>15. /\ old.kind = "file" => v = contents[old.ofs]
         /\ old.kind = "anon" /\ ~old.uninit => v = swap[old.slot]
         /\ old.kind = "anon" /\ old.uninit /\ old.lazy => v = Start
         /\ old.kind = "anon" /\ old.uninit /\ ~old.lazy => v = ram[old.frame]
         /\ old.kind = "file" => old.ofs \in Offset
    BY <1>3, <2>1, <2>2, <2>3, <2>6, <2>13 DEF Source, FromFile, PageIsSound, Filled
  <2>16. ASSUME NEW q \in Proc, NEW vb \in Va, q # p \/ vb # va PROVE Steady(q, vb)
    <3>1. Filling(q, vb)' <=> Filling(q, vb)
      BY <1>0, <2>1, <2>8, <2>9, <2>16 DEF Filling
    <3>2. ASSUME spt[q][vb] # NoPage, spt[q][vb].frame # None
          PROVE  spt[q][vb].frame \in Frame \ {old.frame}
      <4>1. spt[q][vb].frame \in Frame
        BY <1>0, <3>2, PageFields
      <4>2. spt[q][vb].frame # old.frame
        BY <2>2, <2>3, <2>11, <2>16, <3>2, Apart DEF Sane
      <4> QED
        BY <4>1, <4>2
    <3> QED
      BY <1>0, <2>10, <2>12, <2>16, <3>1, <3>2 DEF Steady
  <2>17. \A o \in Offset : /\ Maps(p, va, o)' <=> Maps(p, va, o)
                           /\ Maps(p, va, o) => Shown(p, va)' = Shown(p, va)
    <3>1. ~InMem(p, va)
      BY <2>13 DEF InMem
    <3>2. InMem(p, va)'
      BY <2>5, <2>10, <2>11, <2>14 DEF InMem
    <3>3. ASSUME old.kind = "file" PROVE Shown(p, va)' = Shown(p, va)
      BY <2>2, <2>5, <2>10, <2>12, <2>15, <3>1, <3>2, <3>3 DEF Shown
    <3> QED
      BY <2>2, <2>3, <2>5, <2>10, <3>3 DEF Maps
  <2>18. OnlyAt(p, va)
    <3>1. \A vb \in Va : vb # va => ~InCopy(p, vb) /\ ~InCopy(p, vb)'
      BY <1>0, <2>1 DEF InCopy
    <3> QED
      BY <1>0, <2>7, <2>8, <2>9, <2>16, <2>17, <3>1 DEF OnlyAt
  <2>19. PageIsSound(p, va)' /\ SegmentAt(p, va)'
    <3>1. PageIsSound(p, va)'
      BY <1>0, <2>2, <2>3, <2>5, <2>10, <2>12, <2>13, <2>15 DEF PageIsSound
    <3>2. SegmentAt(p, va)'
      BY <1>0, <2>2, <2>3, <2>5, <2>10, <2>13 DEF SegmentAt
    <3> QED
      BY <3>1, <3>2
  <2>20. CopyAt(p, va)'
    <3>1. CASE parent[p] = None
      BY <1>0, <3>1 DEF CopyAt
    <3>2. CASE parent[p] # None
      <4>1. pc[parent[p]] = "fork" /\ Copying(p)
        BY <3>2 DEF Sane, VInv, Family
      <4>2. ToCopy(p) /\ parent[p] \in Proc /\ parent[p] # p
        BY <1>0, <3>2, <4>1, VmState DEF Copying
      <4>3. InCopy(p, va) /\ InCopy(p, va)'
        BY <1>0, <2>1, <2>14, <4>2 DEF InCopy
      <4>4. spt'[parent[p]][va] = spt[parent[p]][va]
        BY <2>10, <4>2
      <4> QED
        BY <1>0, <2>2, <2>3, <2>5, <2>10, <2>13, <3>2, <4>3, <4>4 DEF CopyAt
    <3> QED
      BY <3>1, <3>2
  <2>21. /\ MemInv'
         /\ \A q \in Proc \ {p}, vb \in Va : OwnValue(q, vb)' = OwnValue(q, vb)
         /\ \A o \in Offset : ContentsOf'[o] = ContentsOf[o]
    BY <1>0, <2>18, <2>19, <2>20, OnlyMem
  <2>22. Hidden(p)' <=> Hidden(p)
    BY <1>0, <2>8, <2>9 DEF Hidden
  <2>23. old.kind \in {"anon", "file"}
    BY <2>3 DEF PageRecord
  <2>24. \A vb \in Va : vb # va => M!Kept(p, vb)
    BY <2>10, <2>16, <2>22, OwnStays, SeenIs DEF M!Kept
  <2>25. \A q \in Proc \ {p}, vb \in Va : M!Kept(q, vb)
    BY <2>10, <2>21, SeenIs DEF M!Kept
  <2>26. M!Kept(p, va) \/ M!Got(p, va)
    <3>1. MapOf'[p][va] = MapOf[p][va]
      <4>1. MapOf'[p][va] = IF page.kind = "file" /\ page.ofs \in Offset THEN page.ofs ELSE None
        BY <2>5, <2>10, SeenIs
      <4>2. MapOf[p][va] = IF old.kind = "file" /\ old.ofs \in Offset THEN old.ofs ELSE None
        BY <2>2, <2>3, SeenIs
      <4> QED
        BY <2>5, <4>1, <4>2
    <3>2. CASE Hidden(p) \/ old.kind = "file"
      BY <2>2, <2>3, <2>5, <2>10, <2>22, <3>1, <3>2, SeenIs DEF M!Kept
    <3>3. CASE ~Hidden(p) /\ old.kind = "anon"
      <4>1. OwnValue(p, va)' = v
        BY <2>5, <2>10, <2>11, <2>12, <2>22, <3>3 DEF OwnValue
      <4>2. CASE ~old.uninit \/ old.lazy
        <5>1. OwnValue(p, va) = v
          BY <2>2, <2>3, <2>11, <2>15, <3>3, <4>2 DEF OwnValue
        <5> QED
          BY <3>1, <4>1, <5>1, SeenIs DEF M!Kept
      <4>3. CASE old.uninit /\ ~old.lazy
        <5>1. OwnValue(p, va) = None
          BY <2>2, <2>3, <3>3, <4>3 DEF OwnValue
        <5>2. va \notin Segment
          BY <2>2, <2>3, <2>13, <3>3, <4>3 DEF PageIsSound
        <5>3. v \in Value
          BY <1>0, <2>11, <2>15, <3>3, <4>3 DEF WellFormed
        <5>4. MapOf[p][va] = None /\ MapOf'[p][va] = None
          BY <2>2, <2>3, <3>1, <3>3, SeenIs
        <5>5. DOMAIN [x \in Segment |-> Start] = Segment
          OBVIOUS
        <5> QED
          BY <4>1, <5>1, <5>2, <5>3, <5>4, <5>5, SeenIs DEF M!Got
      <4> QED
        BY <4>2, <4>3
    <3> QED
      BY <2>23, <3>2, <3>3
  <2>27. Remembers
    <3>1. \A vb \in Va : M!Kept(p, vb) \/ M!Got(p, vb)
      BY <2>24, <2>26
    <3> QED
      BY <2>21, <2>25, <3>1, ChangeIs
  <2> QED
    BY <2>21, <2>27
<1> QED
  BY <1>1, <1>2, <1>3 DEF Fill, ComesShort

\* The victim is a page of the process that evicts, which is alone.
LEMMA EvictTo ==
    ASSUME Sane, Asked, NEW p \in Proc, EvictFrame(p), ~CannotEvict(p)
    PROVE  /\ parent[p] = None /\ Got(p, frame[p]) /\ UNCHANGED <<at, then, parent, ram>>
           /\ \E va \in Va :
                /\ spt[p][va] # NoPage /\ ~spt[p][va].uninit /\ spt[p][va].frame = frame[p]
                /\ IF spt[p][va].kind = "anon"
                   THEN AnonSwapOut(p, p, va) /\ swap_bitmap # Slot ELSE FileSwapOut(p, p, va)
<1>0. VInv /\ WellFormed /\ pc[p] = "evict" /\ frame[p] \in Frame /\ EvictsAlone
  BY DEF Sane, VInv, Busy, Asked, EvictFrame
<1>1. \A q \in Proc : pc[q] # "none" => p = q
  BY <1>0 DEF EvictsAlone, Live
<1>2. parent[p] = None
  <2>1. SUFFICES ASSUME parent[p] # None PROVE FALSE
    OBVIOUS
  <2>2. parent[p] \in Proc /\ pc[parent[p]] = "fork"
    BY <1>0, <2>1, VmState DEF VInv, Family
  <2> QED
    BY <1>0, <1>1, <2>2
<1>3. Victim(p) # None /\ Victim(p) = page_of[frame[p]]
  BY DEF CannotEvict, Victim
<1>4. PICK q \in Proc, va \in Va :
        page_of[frame[p]] = <<q, va>> /\ spt[q][va] # NoPage /\ spt[q][va].frame = frame[p]
  BY <1>0, <1>3 DEF Sane, FrInv, Tables, FramePage
<1>5. q = p
  <2>1. Busy(q)
    BY <1>0 DEF VInv
  <2> QED
    BY <1>1, <1>4, <2>1 DEF Busy
<1>6. Victim(p)[1] = p /\ Victim(p)[2] = va
  BY <1>3, <1>4, <1>5
<1>7. ~spt[p][va].uninit /\ (spt[p][va].kind = "anon" => swap_bitmap # Slot)
  BY <1>6 DEF CannotEvict
<1>8. IF spt[p][va].kind = "anon" THEN AnonSwapOut(p, p, va) ELSE FileSwapOut(p, p, va)
  BY <1>6 DEF EvictFrame, SwapOut
<1>9. Got(p, frame[p]) /\ UNCHANGED <<at, then, parent, ram>>
  BY DEF EvictFrame
<1> QED
  BY <1>2, <1>4, <1>5, <1>7, <1>8, <1>9

\* Its value goes to a slot nobody has, or to the file, and is not lost.
LEMMA MemEvict ==
    ASSUME Sane, VInv', Asked, Asked', NEW p \in Proc, EvictFrame(p)
    PROVE  MemInv' /\ Remembers
<1>0. /\ WellFormed /\ VInv /\ MappedOnce /\ MappedOnce' /\ pc[p] = "evict" /\ frame[p] \in Frame
      /\ NoRepeat(frame_list)
  BY DEF Sane, VInv, Asked, Busy, EvictFrame
<1>1. CASE CannotEvict(p)
  <2>1. UNCHANGED <<pc, at, then, parent, spt, dirty, ram, swap, contents>>
    BY <1>1 DEF EvictFrame, tableVars, diskVars
  <2> QED
    BY <2>1, MemStays DEF Sane
<1>2. CASE ~CannotEvict(p)
  <2>1. parent[p] = None /\ Got(p, frame[p]) /\ UNCHANGED <<at, then, parent, ram>>
    BY <1>2, EvictTo
  <2>2. PICK va \in Va :
          /\ spt[p][va] # NoPage /\ ~spt[p][va].uninit /\ spt[p][va].frame = frame[p]
          /\ IF spt[p][va].kind = "anon"
             THEN AnonSwapOut(p, p, va) /\ swap_bitmap # Slot ELSE FileSwapOut(p, p, va)
    BY <1>2, EvictTo
  <2>3. pc'[p] = "link" /\ \A q \in Proc \ {p} : pc'[q] = pc[q]
    BY <1>0, <2>1, GotIs
  <2>4. PICK old : old = spt[p][va]
    OBVIOUS
  <2>5. /\ old # NoPage /\ old \in PageRecord /\ ~old.uninit /\ old.frame = frame[p]
        /\ old.frame # None /\ old.kind \in {"anon", "file"}
    <3>1. old \in PageRecord
      BY <1>0, <2>2, <2>4, VmState
    <3> QED
      BY <1>0, <2>2, <2>4, <3>1, VmConstants DEF PageRecord
  <2>6. PageIsSound(p, va) /\ SegmentAt(p, va) /\ ~Filling(p, va)
    BY <1>0 DEF Sane, MemInv, Filling
  <2>7. old.slot = None
    BY <2>4, <2>5, <2>6 DEF PageIsSound
  <2>8. \A q \in Proc, vb \in Va : Filling(q, vb)' <=> Filling(q, vb)
    BY <1>0, <2>1, <2>3 DEF Filling
  <2>9. Hidden(p)' <=> Hidden(p)
    BY <1>0, <2>1, <2>3 DEF Hidden
  <2>10. CASE old.kind = "anon"
    <3>1. PICK s : s = FreeSlot
      OBVIOUS
    <3>2. s \in Slot \ swap_bitmap /\ s # None
      <4>1. swap_bitmap # Slot
        BY <2>2, <2>4, <2>10
      <4> QED
        BY <1>0, <3>1, <4>1, SlotFound, VmConstants
    <3>3. PICK page : page = [old EXCEPT !.slot = s, !.frame = None]
      OBVIOUS
    <3>4. /\ page \in PageRecord /\ page # NoPage /\ page.frame = None /\ page.slot = s
          /\ page.kind = "anon" /\ page.lazy = old.lazy /\ ~page.uninit
          /\ page.loader = old.loader
      <4>1. page \in PageRecord
        BY <2>5, <3>2, <3>3 DEF PageRecord
      <4> QED
        BY <2>5, <2>10, <3>3, <4>1, PageKinds DEF PageRecord
    <3>5. /\ spt' = [spt EXCEPT ![p][va].slot = s, ![p][va].frame = None]
          /\ swap' = [swap EXCEPT ![s] = ram[frame[p]]] /\ UNCHANGED <<contents, dirty>>
      BY <2>2, <2>4, <2>10, <3>1 DEF AnonSwapOut
    <3>6. spt' = [spt EXCEPT ![p][va] = page]
      <4>1. spt \in [Proc -> [Va -> PageRecord \cup {NoPage}]]
        BY <1>0, VmState
      <4> QED
        BY <2>4, <3>3, <3>5, <4>1
    <3>7. /\ spt'[p][va] = page
          /\ \A q \in Proc, vb \in Va : q # p \/ vb # va => spt'[q][vb] = spt[q][vb]
      BY <1>0, <3>4, <3>6, VmState
    <3>8. swap'[s] = ram[frame[p]] /\ \A t \in Slot \ {s} : swap'[t] = swap[t]
      BY <1>0, <3>2, <3>5 DEF WellFormed
    <3>9. ASSUME NEW q \in Proc, NEW vb \in Va, q # p \/ vb # va PROVE Steady(q, vb)
      <4>1. ASSUME spt[q][vb] # NoPage, spt[q][vb].slot # None
            PROVE  spt[q][vb].slot \in Slot \ {s}
        <5>1. SlotAgrees(q, vb)
          BY SlotsAt DEF Sane
        <5>2. spt[q][vb].slot \in swap_bitmap /\ spt[q][vb].slot \in Slot
          BY <1>0, <4>1, <5>1, PageFields DEF SlotAgrees
        <5> QED
          BY <3>2, <5>2
      <4> QED
        BY <2>1, <2>8, <3>5, <3>7, <3>8, <3>9, <4>1 DEF Steady
    <3>10. \A o : ~Maps(p, va, o) /\ ~Maps(p, va, o)'
      BY <2>4, <2>10, <3>4, <3>7 DEF Maps
    <3>11. OnlyAt(p, va)
      BY <1>0, <2>1, <2>3, <3>5, <3>9, <3>10 DEF OnlyAt
    <3>12. PageIsSound(p, va)' /\ SegmentAt(p, va)' /\ CopyAt(p, va)'
      BY <2>1, <2>4, <2>5, <2>6, <2>10, <3>4, <3>7 DEF PageIsSound, SegmentAt, CopyAt
    <3>13. OwnValue(p, va)' = OwnValue(p, va)
      <4>1. CASE Hidden(p)
        BY <2>9, <4>1, SeenIs
      <4>2. CASE ~Hidden(p)
        <5>1. OwnValue(p, va) = ram[frame[p]]
          BY <2>4, <2>5, <2>7, <2>10, <4>2 DEF OwnValue
        <5>2. OwnValue(p, va)' = swap'[s]
          BY <2>9, <3>2, <3>4, <3>7, <4>2 DEF OwnValue
        <5> QED
          BY <3>8, <5>1, <5>2
      <4> QED
        BY <4>1, <4>2
    <3> QED
      BY <1>0, <2>9, <3>10, <3>11, <3>12, <3>13, OnlySame
  <2>11. CASE old.kind = "file"
    <3>1. PICK page : page = [old EXCEPT !.frame = None]
      OBVIOUS
    <3>2. /\ page \in PageRecord /\ page # NoPage /\ page.frame = None /\ page.ofs = old.ofs
          /\ page.kind = "file" /\ page.lazy = old.lazy /\ ~page.uninit
          /\ page.loader = old.loader
      <4>1. page \in PageRecord
        BY <2>5, <3>1 DEF PageRecord
      <4> QED
        BY <2>5, <2>11, <3>1, <4>1, PageKinds DEF PageRecord
    <3>3. /\ spt' = [spt EXCEPT ![p][va].frame = None]
          /\ contents' = Written(old, frame[p], dirty[p][va])
          /\ dirty' = [dirty EXCEPT ![p][va] = FALSE] /\ swap' = swap
      BY <2>2, <2>4, <2>11 DEF FileSwapOut
    <3>4. spt' = [spt EXCEPT ![p][va] = page]
      <4>1. spt \in [Proc -> [Va -> PageRecord \cup {NoPage}]]
        BY <1>0, VmState
      <4> QED
        BY <2>4, <3>1, <3>3, <4>1
    <3>5. /\ spt'[p][va] = page
          /\ \A q \in Proc, vb \in Va : q # p \/ vb # va =>
               spt'[q][vb] = spt[q][vb] /\ dirty'[q][vb] = dirty[q][vb]
      <4>1. /\ spt'[p][va] = page
            /\ \A q \in Proc, vb \in Va : q # p \/ vb # va => spt'[q][vb] = spt[q][vb]
        BY <1>0, <3>2, <3>4, VmState
      <4>2. dirty \in [Proc -> [Va -> BOOLEAN]] /\ dirty' = [dirty EXCEPT ![p][va] = FALSE]
        BY <1>0, <3>3, VmState
      <4>3. \A q \in Proc, vb \in Va : q # p \/ vb # va => dirty'[q][vb] = dirty[q][vb]
        BY <4>2
      <4> QED
        BY <4>1, <4>3
    <3>6. PICK o \in Offset : o = old.ofs
      BY <2>4, <2>5, <2>6, <2>11 DEF PageIsSound
    <3>7. contents'[o] = ram[frame[p]] /\ \A u \in Offset \ {o} : contents'[u] = contents[u]
      <4>1. CASE dirty[p][va]
        <5>1. contents' = [contents EXCEPT ![o] = ram[frame[p]]]
          BY <3>3, <3>6, <4>1 DEF Written
        <5> QED
          BY <1>0, <5>1 DEF WellFormed
      <4>2. CASE ~dirty[p][va]
        <5>1. contents' = contents
          BY <3>3, <4>2 DEF Written
        <5>2. ram[frame[p]] = contents[o]
          BY <2>4, <2>5, <2>6, <2>11, <3>6, <4>2 DEF PageIsSound
        <5> QED
          BY <5>1, <5>2
      <4> QED
        BY <4>1, <4>2
    <3>8. Maps(p, va, o) /\ Maps(p, va, o)' /\ \A u : u # o => ~Maps(p, va, u) /\ ~Maps(p, va, u)'
      BY <2>4, <2>5, <2>11, <3>2, <3>5, <3>6 DEF Maps
    <3>9. Shown(p, va)' = Shown(p, va)
      <4>1. InMem(p, va) /\ ~InMem(p, va)'
        BY <2>4, <2>5, <2>6, <3>2, <3>5 DEF InMem
      <4> QED
        BY <2>4, <2>5, <3>2, <3>5, <3>6, <3>7, <4>1 DEF Shown
    <3>10. ASSUME NEW q \in Proc, NEW vb \in Va, q # p \/ vb # va PROVE Steady(q, vb)
      <4>1. ASSUME spt[q][vb] # NoPage, spt[q][vb].kind = "file", spt[q][vb].ofs \in Offset
            PROVE  contents'[spt[q][vb].ofs] = contents[spt[q][vb].ofs]
        <5>1. PICK u \in Offset : u = spt[q][vb].ofs
          BY <4>1
        <5>2. Maps(q, vb, u)
          BY <4>1, <5>1 DEF Maps
        <5>3. u # o
          BY <1>0, <3>8, <3>10, <5>2, MapsOnce
        <5> QED
          BY <3>7, <5>1, <5>3
      <4> QED
        BY <2>1, <2>8, <3>3, <3>5, <3>10, <4>1 DEF Steady
    <3>11. OnlyAt(p, va)
      BY <1>0, <2>1, <2>3, <3>7, <3>8, <3>9, <3>10 DEF OnlyAt
    <3>12. PageIsSound(p, va)' /\ SegmentAt(p, va)' /\ CopyAt(p, va)'
      BY <1>0, <2>1, <2>4, <2>5, <2>6, <2>11, <3>2, <3>5 DEF PageIsSound, SegmentAt, CopyAt
    <3>13. OwnValue(p, va)' = OwnValue(p, va)
      BY <2>4, <2>5, <2>11, <3>2, <3>5, SeenIs
    <3>14. \A u : Maps(p, va, u)' <=> Maps(p, va, u)
      BY <3>8
    <3> QED
      BY <1>0, <2>9, <3>11, <3>12, <3>13, <3>14, OnlySame
  <2> QED
    BY <2>5, <2>10, <2>11
<1> QED
  BY <1>1, <1>2

\* The file, when pages are made that are not in memory yet.
LEMMA ContentsNew ==
    ASSUME MappedOnce, MappedOnce', NEW o \in Offset, UNCHANGED <<ram, contents>>,
           \A q \in Proc, vb \in Va :
               \/ spt'[q][vb] = spt[q][vb] /\ (Filling(q, vb)' <=> Filling(q, vb))
               \/ spt[q][vb] = NoPage /\ spt'[q][vb].uninit
    PROVE  ContentsOf'[o] = ContentsOf[o]
<1>1. CASE \E q \in Proc, vb \in Va : Maps(q, vb, o)
  <2>1. PICK q \in Proc, vb \in Va : Maps(q, vb, o)
    BY <1>1
  <2>2. spt'[q][vb] = spt[q][vb] /\ (Filling(q, vb)' <=> Filling(q, vb))
    BY <2>1 DEF Maps
  <2>3. Maps(q, vb, o)' /\ Shown(q, vb)' = Shown(q, vb)
    BY <2>1, <2>2 DEF Maps, Shown, InMem
  <2> QED
    BY <2>1, <2>3, ShownIs, ShownNext
<1>2. CASE ~\E q \in Proc, vb \in Va : Maps(q, vb, o)
  <2>1. ASSUME NEW q \in Proc, NEW vb \in Va, Maps(q, vb, o)' PROVE ~InMem(q, vb)'
    <3>1. spt'[q][vb].uninit
      BY <1>2, <2>1 DEF Maps
    <3> QED
      BY <3>1 DEF InMem
  <2> QED
    BY <1>2, <2>1, UnmappedIs, UnmappedNext
<1> QED
  BY <1>1, <1>2

LEMMA LoadedAre ==
    ASSUME NEW p \in Proc, NEW va \in Va
    PROVE  /\ LoadedPages(p)[va] # NoPage => (LoadedPages(p)[va].lazy <=> va \in Segment)
           /\ va \in Segment => LoadedPages(p)[va] # NoPage
<1>1. LoadedPages(p)[va] = IF va \in Segment THEN NewPage("anon", TRUE, 0, 0, p)
                           ELSE IF va = Top THEN NewPage("anon", FALSE, 0, 0, None)
                           ELSE NoPage
  BY DEF LoadedPages
<1>2. NewPage("anon", TRUE, 0, 0, p) # NoPage
  <2>1. NewPage("anon", TRUE, 0, 0, p) \in PageRecord
    BY VmConstants DEF NewPage, PageRecord
  <2> QED
    BY <2>1, PageKinds
<1>3. NewPage("anon", TRUE, 0, 0, p).lazy /\ ~NewPage("anon", FALSE, 0, 0, None).lazy
  BY DEF NewPage
<1> QED
  BY <1>1, <1>2, <1>3

\* load brings the executable.
LEMMA MemLoad ==
    ASSUME Sane, VInv', Asked, Asked', NEW p \in Proc, Load(p)
    PROVE  MemInv' /\ Remembers
<1>0. /\ WellFormed /\ VInv /\ MappedOnce /\ MappedOnce' /\ pc[p] = "load" /\ Busy(p)
      /\ Claim(p, Top, "user") /\ Top \in Va /\ "user" \in Places
      /\ UNCHANGED <<parent, dirty, ram, swap, contents>>
  BY VmConstants DEF Sane, VInv, Asked, Load, Places, diskVars
<1>1. parent[p] = None /\ \A va \in Va : spt[p][va] = NoPage
  BY <1>0, NoParent DEF Busy
<1>2. /\ pc'[p] = "claim"
      /\ \A q \in Proc \ {p} : pc'[q] = pc[q] /\ at'[q] = at[q] /\ then'[q] = then[q]
  BY <1>0, ClaimIs
<1>3. spt'[p] = LoadedPages(p) /\ \A q \in Proc \ {p} : spt'[q] = spt[q]
  BY <1>0, VmState DEF Load
<1>4. \A q \in Proc \ {p}, va \in Va : Steady(q, va)
  BY <1>0, <1>2, <1>3 DEF Steady, Filling
<1>5. \A q \in Proc, vb \in Va : q # p =>
        /\ PageIsSound(q, vb)' /\ SegmentAt(q, vb)' /\ CopyAt(q, vb)'
        /\ OwnValue(q, vb)' = OwnValue(q, vb)
  <2>1. pc[p] # "fork" /\ \A q \in Proc \ {p} : parent'[q] = parent[q]
    BY <1>0
  <2> QED
    BY <1>2, <1>4, <2>1, OthersMem
<1>6. ASSUME NEW va \in Va PROVE PageIsSound(p, va)' /\ SegmentAt(p, va)' /\ CopyAt(p, va)'
  BY <1>0, <1>1, <1>3, LoadedIs, LoadedAre DEF PageIsSound, SegmentAt, CopyAt
<1>7. MemInv'
  BY <1>5, <1>6 DEF MemInv
<1>8. \A o \in Offset : ContentsOf'[o] = ContentsOf[o]
  <2>1. ASSUME NEW q \in Proc, NEW vb \in Va
        PROVE  \/ spt'[q][vb] = spt[q][vb] /\ (Filling(q, vb)' <=> Filling(q, vb))
               \/ spt[q][vb] = NoPage /\ spt'[q][vb].uninit
    <3>1. CASE q # p
      BY <1>4, <3>1 DEF Steady
    <3>2. CASE q = p
      BY <1>0, <1>1, <1>2, <1>3, <3>2, LoadedIs DEF Filling
    <3> QED
      BY <3>1, <3>2
  <2> QED
    BY <1>0, <2>1, ContentsNew
<1>9. \A q \in Proc \ {p}, vb \in Va : M!Kept(q, vb)
  BY <1>3, <1>5, SeenIs DEF M!Kept
<1>10. ASSUME NEW va \in Va PROVE M!Kept(p, va) \/ M!Got(p, va)
  <2>1. OwnValue(p, va) = None /\ MapOf[p][va] = None
    BY <1>1, SeenIs
  <2>2. CASE spt'[p][va] = NoPage
    BY <2>1, <2>2, SeenIs DEF M!Kept
  <2>3. CASE spt'[p][va] # NoPage
    <3>1. /\ spt'[p][va].kind = "anon" /\ spt'[p][va].uninit
          /\ (spt'[p][va].lazy <=> va \in Segment)
      BY <1>3, <2>3, LoadedIs, LoadedAre
    <3>2. MapOf'[p][va] = None
      BY <2>3, <3>1, SeenIs
    <3>3. ~Hidden(p)'
      BY <1>0, <1>1, <1>2 DEF Hidden
    <3>4. OwnValue(p, va)' = IF va \in Segment THEN Start ELSE None
      BY <2>3, <3>1, <3>3 DEF OwnValue
    <3>5. CASE va \in Segment
      <4>1. /\ DOMAIN [x \in Segment |-> Start] = Segment
            /\ [x \in Segment |-> Start][va] = Start
        BY <3>5
      <4>2. OwnOf'[p][va] = Start /\ OwnOf[p][va] = None
        BY <2>1, <3>4, <3>5, SeenIs
      <4>3. M!Got(p, va)
        BY <2>1, <3>2, <3>5, <4>1, <4>2 DEF M!Got
      <4> QED
        BY <4>3
    <3>6. CASE va \notin Segment
      BY <2>1, <3>2, <3>4, <3>6, SeenIs DEF M!Kept
    <3> QED
      BY <3>5, <3>6
  <2> QED
    BY <2>2, <2>3
<1>11. Remembers
  BY <1>8, <1>9, <1>10, ChangeIs
<1> QED
  BY <1>7, <1>11

LEMMA MappedAreNew ==
    ASSUME NEW p \in Proc, NEW va \in Va, NEW ofs \in MapFrom, NEW x \in Va
    PROVE  \/ MappedPages(p, va, ofs)[x] = spt[p][x]
           \/ MappedPages(p, va, ofs)[x].lazy /\ MappedPages(p, va, ofs)[x].loader = None
<1> DEFINE Room(o) == \A k \in 0..o : PageOf(p, va + k) = NoPage /\ va + k \in Va
<1>1. MappedPages(p, va, ofs)[x] =
        IF x - va \in Offset /\ Room(x - va)
        THEN NewPage("file", TRUE, ofs + (x - va), FileLength - (x - va), None) ELSE spt[p][x]
  BY DEF MappedPages
<1>2. /\ NewPage("file", TRUE, ofs + (x - va), FileLength - (x - va), None).lazy
      /\ NewPage("file", TRUE, ofs + (x - va), FileLength - (x - va), None).loader = None
  BY DEF NewPage
<1> QED
  BY <1>1, <1>2

\* mmap maps the file where there is no page.
LEMMA MemMmap ==
    ASSUME Sane, VInv', Asked, Asked', NEW p \in Proc, NEW va \in Va, NEW ofs \in MapFrom,
           Mmap(p, va, ofs)
    PROVE  MemInv' /\ Remembers
<1>0. /\ WellFormed /\ VInv /\ MappedOnce /\ MappedOnce' /\ pc[p] = "user"
      /\ UNCHANGED <<pc, at, then, parent, dirty, ram, swap, contents>>
  BY DEF Sane, VInv, Asked, Mmap, localVars, diskVars
<1>1. parent[p] = None
  BY <1>0, NoParent
<1>2. spt'[p] = MappedPages(p, va, ofs) /\ \A q \in Proc \ {p} : spt'[q] = spt[q]
  BY <1>0, VmState DEF Mmap
<1>3. \A q \in Proc \ {p}, vb \in Va : Steady(q, vb)
  BY <1>0, <1>2 DEF Steady, Filling
<1>4. \A q \in Proc, vb \in Va : q # p =>
        /\ PageIsSound(q, vb)' /\ SegmentAt(q, vb)' /\ CopyAt(q, vb)'
        /\ OwnValue(q, vb)' = OwnValue(q, vb)
  <2>1. pc[p] # "fork" /\ \A q \in Proc \ {p} : /\ pc'[q] = pc[q] /\ at'[q] = at[q]
                                                 /\ then'[q] = then[q] /\ parent'[q] = parent[q]
    BY <1>0
  <2> QED
    BY <1>3, <2>1, OthersMem
<1>5. ASSUME NEW x \in Va
      PROVE  \/ spt'[p][x] = spt[p][x] /\ Steady(p, x)
             \/ /\ spt[p][x] = NoPage /\ spt'[p][x] # NoPage
                /\ spt'[p][x].kind = "file"
                /\ spt'[p][x].uninit /\ spt'[p][x].frame = None /\ spt'[p][x].lazy
                /\ spt'[p][x].loader = None /\ spt'[p][x].slot = None
  <2>1. CASE spt'[p][x] = spt[p][x]
    BY <1>0, <2>1 DEF Steady, Filling
  <2>2. CASE spt'[p][x] # spt[p][x]
    BY <1>0, <1>2, <2>2, MappedIs, MappedAreNew
  <2> QED
    BY <2>1, <2>2
<1>6. ASSUME NEW x \in Va PROVE PageIsSound(p, x)' /\ SegmentAt(p, x)' /\ CopyAt(p, x)'
  <2>1. PageIsSound(p, x) /\ SegmentAt(p, x)
    BY DEF Sane, MemInv
  <2>2. PageIsSound(p, x)'
    <3>1. CASE Steady(p, x)
      BY <2>1, <3>1, SoundStays
    <3>2. CASE ~Steady(p, x)
      BY <1>5, <3>2 DEF PageIsSound
    <3> QED
      BY <3>1, <3>2
  <2>3. SegmentAt(p, x)'
    BY <1>0, <1>5, <2>1 DEF SegmentAt
  <2>4. CopyAt(p, x)'
    BY <1>0, <1>1 DEF CopyAt
  <2> QED
    BY <2>2, <2>3, <2>4
<1>7. MemInv'
  BY <1>4, <1>6 DEF MemInv
<1>8. \A o \in Offset : ContentsOf'[o] = ContentsOf[o]
  <2>1. \A q \in Proc, vb \in Va :
          \/ spt'[q][vb] = spt[q][vb] /\ (Filling(q, vb)' <=> Filling(q, vb))
          \/ spt[q][vb] = NoPage /\ spt'[q][vb].uninit
    BY <1>3, <1>5 DEF Steady
  <2> QED
    BY <1>0, <2>1, ContentsNew
<1>9. \A q \in Proc \ {p}, vb \in Va : M!Kept(q, vb)
  BY <1>2, <1>4, SeenIs DEF M!Kept
<1>10. Hidden(p)' <=> Hidden(p)
  BY <1>0 DEF Hidden
<1>11. ASSUME NEW x \in Va PROVE M!Kept(p, x) \/ M!Got(p, x)
  <2>1. CASE spt'[p][x] = spt[p][x] /\ Steady(p, x)
    BY <1>10, <2>1, OwnStays, SeenIs DEF M!Kept
  <2>2. CASE ~(spt'[p][x] = spt[p][x] /\ Steady(p, x))
    <3>1. /\ OwnOf[p][x] = None /\ MapOf[p][x] = None
          /\ OwnOf'[p][x] = None /\ MapOf'[p][x] \in Offset \cup {None}
      BY <1>5, <2>2, SeenIs
    <3> QED
      BY <3>1 DEF M!Got, M!Kept
  <2> QED
    BY <2>1, <2>2
<1>12. Remembers
  BY <1>8, <1>9, <1>11, ChangeIs
<1> QED
  BY <1>7, <1>12

\* The frames that go back to the pool are of no page.
LEMMA MemKillDone ==
    ASSUME Sane, VInv', Asked, Asked', NEW p \in Proc, KillDone(p)
    PROVE  MemInv' /\ Remembers
<1>0. /\ WellFormed /\ VInv /\ MappedOnce /\ MappedOnce' /\ pc[p] = "kill" /\ Busy(p)
      /\ \A va \in Va : spt[p][va] = NoPage
      /\ ram' = [f \in Frame |-> IF f \in Mapped(p) THEN Junk ELSE ram[f]]
      /\ dirty' = [dirty EXCEPT ![p] = [va \in Va |-> FALSE]]
      /\ Goto(p, then[p]) /\ then' = [then EXCEPT ![p] = "user"]
      /\ UNCHANGED <<at, parent, spt, swap, contents>>
  BY DEF Sane, VInv, Asked, KillDone, diskVars
<1>1. then[p] \in {"none", "load"} /\ then[p] \in Places
  BY <1>0 DEF Busy, Places
<1>2. pc'[p] \in {"none", "load"} /\ \A q \in Proc \ {p} : pc'[q] = pc[q] /\ then'[q] = then[q]
  BY <1>0, <1>1, GotoIs, VmState
<1>3. ASSUME NEW q \in Proc, NEW vb \in Va PROVE Steady(q, vb)
  <2>1. Filling(q, vb)' <=> Filling(q, vb)
    BY <1>0, <1>2 DEF Filling
  <2>2. CASE q = p
    BY <1>0, <2>1, <2>2 DEF Steady
  <2>3. CASE q # p
    <3>1. ASSUME spt[q][vb] # NoPage, spt[q][vb].frame # None
          PROVE  ram'[spt[q][vb].frame] = ram[spt[q][vb].frame]
      <4>1. pml4[q][vb] = spt[q][vb].frame /\ Entry(q, vb)
        BY <3>1 DEF Sane, FrInv, Tables, PageFrame
      <4>2. spt[q][vb].frame \notin Mapped(p)
        BY <2>3, <3>1, <4>1 DEF Mapped, Entry
      <4>3. spt[q][vb].frame \in Frame
        BY <1>0, <3>1, PageFields
      <4> QED
        BY <1>0, <4>2, <4>3
    <3>2. dirty'[q][vb] = dirty[q][vb]
      BY <1>0, <2>3, VmState
    <3> QED
      BY <1>0, <2>1, <3>1, <3>2 DEF Steady
  <2> QED
    BY <2>2, <2>3
<1>4. \A q \in Proc, vb \in Va : q # p =>
        /\ PageIsSound(q, vb)' /\ SegmentAt(q, vb)' /\ CopyAt(q, vb)'
        /\ OwnValue(q, vb)' = OwnValue(q, vb)
  <2>1. /\ pc[p] # "fork"
        /\ \A q \in Proc \ {p} : at'[q] = at[q] /\ parent'[q] = parent[q]
    BY <1>0
  <2> QED
    BY <1>2, <1>3, <2>1, OthersMem
<1>5. \A vb \in Va : PageIsSound(p, vb)' /\ SegmentAt(p, vb)' /\ CopyAt(p, vb)'
  BY <1>0, <1>2 DEF PageIsSound, SegmentAt, CopyAt
<1>6. MemInv'
  BY <1>4, <1>5 DEF MemInv
<1>7. \A o \in Offset : ContentsOf'[o] = ContentsOf[o]
  <2>1. \A o \in Offset : ~Maps(p, Top, o) /\ ~Maps(p, Top, o)' /\ contents'[o] = contents[o]
    BY <1>0, VmConstants DEF Maps
  <2> QED
    BY <1>0, <1>3, <2>1, ContentsStay, VmConstants
<1>8. \A q \in Proc, vb \in Va : OwnValue(q, vb)' = OwnValue(q, vb)
  <2>1. \A vb \in Va : OwnValue(p, vb)' = OwnValue(p, vb)
    BY <1>0, SeenIs
  <2> QED
    BY <1>4, <2>1
<1> QED
  BY <1>3, <1>6, <1>7, <1>8, MapsStays, SameRemembers

LEMMA SteadyRemembers ==
    ASSUME MappedOnce, MappedOnce', contents' = contents,
           \A q \in Proc, vb \in Va : Steady(q, vb) /\ OwnValue(q, vb)' = OwnValue(q, vb)
    PROVE  Remembers
<1>1. First \in Proc /\ Top \in Va
  BY VmConstants
<1>2. \A o \in Offset : /\ Maps(First, Top, o)' <=> Maps(First, Top, o)
                        /\ Maps(First, Top, o) => Shown(First, Top)' = Shown(First, Top)
  BY <1>1, MapsStays
<1>3. \A o \in Offset : ContentsOf'[o] = ContentsOf[o]
  BY <1>1, <1>2, ContentsStay
<1> QED
  BY <1>3, MapsStays, SameRemembers

\* The processes that take no part in the start and the end of a fork.
LEMMA ForkMem ==
    ASSUME Sane, NEW q \in Proc, pc'[q] = pc[q], parent'[q] = parent[q], at' = at,
           then'[q] = then[q], \A r \in Proc, vb \in Va : Steady(r, vb), NEW vb \in Va
    PROVE  /\ SegmentAt(q, vb)' /\ CopyAt(q, vb)'
           /\ OwnValue(q, vb)' = OwnValue(q, vb)
<1>1. SegmentAt(q, vb) /\ CopyAt(q, vb) /\ Steady(q, vb)
  BY DEF Sane, MemInv
<1>2. SegmentAt(q, vb)'
  BY <1>1 DEF SegmentAt, Steady
<1>3. (Hidden(q)' <=> Hidden(q)) /\ (InCopy(q, vb)' <=> InCopy(q, vb))
  BY DEF Hidden, InCopy, ToCopy
<1>4. parent[q] # None => parent[q] \in Proc
  BY VmState DEF Sane, VInv
<1>5. CopyAt(q, vb)'
  BY <1>1, <1>3, <1>4, CopyStays
<1> QED
  BY <1>1, <1>2, <1>3, <1>5, OwnStays

LEMMA MemFork ==
    ASSUME Sane, VInv', Asked, Asked', NEW p \in Proc, NEW c \in Proc, Fork(p, c)
    PROVE  MemInv' /\ Remembers
<1>0. /\ WellFormed /\ VInv /\ MappedOnce /\ MappedOnce' /\ pc[p] = "user" /\ pc[c] = "none" /\ p # c
      /\ pc' = [pc EXCEPT ![p] = "fork", ![c] = "copy"] /\ parent' = [parent EXCEPT ![c] = p]
      /\ UNCHANGED <<at, then, spt, dirty, ram, swap, contents>>
  BY DEF Sane, VInv, Asked, Fork, tableVars, diskVars
<1>1. /\ pc'[p] = "fork" /\ pc'[c] = "copy" /\ \A q \in Proc \ {p, c} : pc'[q] = pc[q]
      /\ parent'[c] = p /\ \A q \in Proc \ {c} : parent'[q] = parent[q]
  BY <1>0, VmState
<1>2. parent[p] = None /\ \A va \in Va : spt[c][va] = NoPage
  BY <1>0, NoParent DEF VInv, Busy
<1>3. \A q \in Proc, vb \in Va : Steady(q, vb)
  BY <1>0, <1>1 DEF Steady, Filling
<1>4. \A q \in Proc \ {p, c}, vb \in Va :
        /\ SegmentAt(q, vb)' /\ CopyAt(q, vb)' /\ OwnValue(q, vb)' = OwnValue(q, vb)
  BY <1>0, <1>1, <1>3, ForkMem
<1>5. ASSUME NEW vb \in Va
      PROVE  /\ SegmentAt(p, vb)' /\ CopyAt(p, vb)' /\ OwnValue(p, vb)' = OwnValue(p, vb)
  <2>1. SegmentAt(p, vb)
    BY DEF Sane, MemInv
  <2>2. Hidden(p)' <=> Hidden(p)
    BY <1>0, <1>1 DEF Hidden
  <2> QED
    BY <1>0, <1>1, <1>2, <1>3, <2>1, <2>2, OwnStays DEF SegmentAt, CopyAt
<1>6. ASSUME NEW vb \in Va
      PROVE  /\ SegmentAt(c, vb)' /\ CopyAt(c, vb)' /\ OwnValue(c, vb)' = OwnValue(c, vb)
  <2>1. parent'[c] # None
    BY <1>1, VmConstants
  <2> QED
    BY <1>0, <1>2, <2>1, SeenIs DEF SegmentAt, CopyAt
<1>7. \A q \in Proc, vb \in Va :
        /\ SegmentAt(q, vb)' /\ CopyAt(q, vb)' /\ OwnValue(q, vb)' = OwnValue(q, vb)
  BY <1>4, <1>5, <1>6
<1>8. \A q \in Proc, vb \in Va : PageIsSound(q, vb)'
  BY <1>3, SoundStays DEF Sane, MemInv
<1>9. MemInv'
  BY <1>7, <1>8 DEF MemInv
<1> QED
  BY <1>0, <1>3, <1>7, <1>9, SteadyRemembers

\* What the end of a copy does to the places of the two.
LEMMA CopyEnds ==
    ASSUME Sane, NEW c \in Proc, pc[c] = "copy", NEW place \in {"user", "kill"},
           pc' = [pc EXCEPT ![c] = place, ![parent[c]] = "user"],
           parent' = [parent EXCEPT ![c] = None],
           \A q \in Proc \ {c} : then'[q] = then[q],
           UNCHANGED <<at, spt, dirty, ram, swap, contents>>
    PROVE  /\ parent[c] \in Proc /\ parent[c] # None /\ pc[parent[c]] = "fork" /\ parent[c] # c
           /\ parent[parent[c]] = None
           /\ pc'[c] = place /\ pc'[parent[c]] = "user"
           /\ parent'[c] = None
           /\ \A q \in Proc, vb \in Va : Steady(q, vb) /\ PageIsSound(q, vb)'
           /\ \A q \in Proc \ {c}, vb \in Va :
                SegmentAt(q, vb)' /\ CopyAt(q, vb)' /\ OwnValue(q, vb)' = OwnValue(q, vb)
           /\ \A vb \in Va : CopyAt(c, vb)'
<1>0. WellFormed /\ VInv
  BY DEF Sane, VInv
<1>1. /\ parent[c] \in Proc /\ parent[c] # None /\ pc[parent[c]] = "fork" /\ parent[c] # c
  <2>1. parent[c] # None /\ pc[parent[c]] = "fork"
    BY <1>0 DEF VInv, Family
  <2> QED
    BY <1>0, <2>1, VmState
<1>2. PICK p \in Proc : p = parent[c]
  BY <1>1
<1>3. parent[p] = None
  BY <1>0, <1>1, <1>2, NoParent
<1>4. /\ pc'[c] = place /\ pc'[p] = "user" /\ \A q \in Proc \ {p, c} : pc'[q] = pc[q]
      /\ parent'[c] = None /\ \A q \in Proc \ {c} : parent'[q] = parent[q]
  BY <1>0, <1>1, <1>2, VmState
<1>5. \A q \in Proc, vb \in Va : Steady(q, vb)
  BY <1>1, <1>2, <1>4 DEF Steady, Filling
<1>6. \A q \in Proc, vb \in Va : PageIsSound(q, vb)'
  BY <1>5, SoundStays DEF Sane, MemInv
<1>7. \A q \in Proc \ {p, c}, vb \in Va :
        SegmentAt(q, vb)' /\ CopyAt(q, vb)' /\ OwnValue(q, vb)' = OwnValue(q, vb)
  BY <1>4, <1>5, ForkMem
<1>8. ASSUME NEW vb \in Va
      PROVE  SegmentAt(p, vb)' /\ CopyAt(p, vb)' /\ OwnValue(p, vb)' = OwnValue(p, vb)
  <2>1. SegmentAt(p, vb)
    BY DEF Sane, MemInv
  <2>2. (Hidden(p)' <=> Hidden(p)) /\ parent'[p] = None
    BY <1>1, <1>2, <1>3, <1>4 DEF Hidden
  <2> QED
    BY <1>1, <1>2, <1>3, <1>4, <1>5, <2>1, <2>2, OwnStays DEF SegmentAt, CopyAt
<1>9. \A vb \in Va : CopyAt(c, vb)'
  BY <1>4 DEF CopyAt
<1> QED
  BY <1>1, <1>2, <1>3, <1>4, <1>5, <1>6, <1>7, <1>8, <1>9

\* The child has what its parent has.
LEMMA MemCopyDone ==
    ASSUME Sane, VInv', Asked, Asked', NEW c \in Proc, CopyDone(c)
    PROVE  MemInv' /\ Remembers
<1>0. /\ WellFormed /\ VInv /\ MappedOnce /\ MappedOnce' /\ pc[c] = "copy"
      /\ pc' = [pc EXCEPT ![c] = "user", ![parent[c]] = "user"]
      /\ parent' = [parent EXCEPT ![c] = None]
      /\ \A va \in Va : spt[parent[c]][va] # NoPage => spt[c][va] # NoPage
      /\ UNCHANGED <<at, then, spt, dirty, ram, swap, contents>>
  BY DEF Sane, VInv, Asked, CopyDone, tableVars, diskVars
<1>1. PICK p \in Proc : p = parent[c]
  BY <1>0, CopyEnds
<1>2. /\ p # None /\ pc[p] = "fork" /\ p # c /\ parent[p] = None
      /\ pc'[c] = "user" /\ pc'[p] = "user" /\ parent'[c] = None
      /\ \A q \in Proc, vb \in Va : Steady(q, vb) /\ PageIsSound(q, vb)'
      /\ \A q \in Proc \ {c}, vb \in Va :
           SegmentAt(q, vb)' /\ CopyAt(q, vb)' /\ OwnValue(q, vb)' = OwnValue(q, vb)
      /\ \A vb \in Va : CopyAt(c, vb)'
  BY <1>0, <1>1, CopyEnds
<1>3. ASSUME NEW va \in Va, spt[c][va] # NoPage
      PROVE  /\ spt[p][va] # NoPage /\ spt[p][va].kind = "anon" /\ spt[c][va].kind = "anon"
             /\ spt[c][va].uninit = spt[p][va].uninit
             /\ ~spt[c][va].uninit => /\ spt[c][va].frame # None /\ spt[p][va].frame # None
                                      /\ ram[spt[c][va].frame] = ram[spt[p][va].frame]
  <2>1. CopyAt(c, va) /\ ~InCopy(c, va)
    BY <1>0 DEF Sane, MemInv, InCopy, ToCopy, Claiming
  <2> QED
    BY <1>0, <1>1, <1>2, <1>3, <2>1 DEF CopyAt
<1>4. ASSUME NEW va \in Va PROVE SegmentAt(c, va)'
  <2>1. SegmentAt(p, va)
    BY DEF Sane, MemInv
  <2> QED
    BY <1>0, <1>1, <1>2, <1>3, <2>1 DEF SegmentAt
<1>5. MemInv'
  BY <1>2, <1>4 DEF MemInv
<1>6. ASSUME NEW va \in Va
      PROVE  OwnValue(c, va)' = OwnValue(p, va) /\ OwnValue(c, va) = None
  <2>1. ~Hidden(p) /\ ~Hidden(c)' /\ Hidden(c)
    BY <1>0, <1>1, <1>2 DEF Hidden
  <2>2. CASE spt[c][va] = NoPage
    BY <1>0, <1>1, <2>1, <2>2, SeenIs
  <2>3. CASE spt[c][va] # NoPage
    <3>1. PageIsSound(p, va) /\ PageIsSound(c, va) /\ ~Filling(p, va) /\ ~Filling(c, va)
      BY <1>0, <1>2 DEF Sane, MemInv, Filling
    <3>2. spt[c][va].lazy <=> spt[p][va].lazy
      BY <1>3, <2>3, <3>1 DEF PageIsSound
    <3>3. ~spt[c][va].uninit => spt[c][va].slot = None /\ spt[p][va].slot = None
      BY <1>3, <2>3, <3>1 DEF PageIsSound
    <3>4. CASE spt[c][va].uninit
      BY <1>0, <1>3, <2>1, <2>3, <3>2, <3>4, SeenIs DEF OwnValue
    <3>5. CASE ~spt[c][va].uninit
      <4>1. OwnValue(p, va) = ram[spt[p][va].frame]
        BY <1>3, <2>1, <2>3, <3>3, <3>5 DEF OwnValue
      <4>2. OwnValue(c, va)' = ram[spt[c][va].frame]
        BY <1>0, <1>3, <2>1, <2>3, <3>3, <3>5 DEF OwnValue
      <4> QED
        BY <1>3, <2>1, <2>3, <3>5, <4>1, <4>2, SeenIs
    <3> QED
      BY <3>4, <3>5
  <2> QED
    BY <2>2, <2>3
<1>7. OwnOf[c] = M!Nothing
  BY <1>6 DEF OwnOf, M!Nothing
<1>8. OwnOf' = [OwnOf EXCEPT ![c] = OwnOf[p]]
  BY <1>2, <1>6 DEF OwnOf
<1>9. MapOf' = MapOf
  BY <1>0 DEF MapOf
<1>10. ContentsOf' = ContentsOf
  <2>1. First \in Proc /\ Top \in Va
    BY VmConstants
  <2>2. \A o \in Offset : ContentsOf'[o] = ContentsOf[o]
    BY <1>0, <1>2, <2>1, MapsStays, ContentsStay
  <2>3. /\ ContentsOf = [o \in Offset |-> ContentsOf[o]]
        /\ ContentsOf' = [o \in Offset |-> ContentsOf'[o]]
    BY DEF ContentsOf
  <2> QED
    BY <2>2, <2>3
<1>11. M!Fork(p, c)
  BY <1>2, <1>7, <1>8, <1>9, <1>10 DEF M!Fork
<1>12. Remembers
  BY <1>11 DEF M!Next, Remembers
<1> QED
  BY <1>5, <1>12

LEMMA MemCopyFails ==
    ASSUME Sane, VInv', Asked, Asked', NEW c \in Proc, CopyFails(c)
    PROVE  MemInv' /\ Remembers
<1>0. /\ WellFormed /\ VInv /\ MappedOnce /\ MappedOnce' /\ pc[c] = "copy"
      /\ pc' = [pc EXCEPT ![c] = "kill", ![parent[c]] = "user"]
      /\ parent' = [parent EXCEPT ![c] = None] /\ then' = [then EXCEPT ![c] = "none"]
      /\ UNCHANGED <<at, spt, dirty, ram, swap, contents>>
  BY DEF Sane, VInv, Asked, CopyFails, tableVars, diskVars
<1>1. \A q \in Proc \ {c} : then'[q] = then[q]
  BY <1>0, VmState
<1>2. /\ parent[c] # None /\ pc'[c] = "kill" /\ parent'[c] = None
      /\ \A q \in Proc, vb \in Va : Steady(q, vb) /\ PageIsSound(q, vb)'
      /\ \A q \in Proc \ {c}, vb \in Va :
           SegmentAt(q, vb)' /\ CopyAt(q, vb)' /\ OwnValue(q, vb)' = OwnValue(q, vb)
      /\ \A vb \in Va : CopyAt(c, vb)'
  BY <1>0, <1>1, CopyEnds
<1>3. \A vb \in Va : SegmentAt(c, vb)' /\ OwnValue(c, vb)' = OwnValue(c, vb)
  <2>1. Hidden(c) /\ Hidden(c)'
    BY <1>2 DEF Hidden
  <2> QED
    BY <1>2, <2>1, SeenIs DEF SegmentAt
<1>4. MemInv'
  BY <1>2, <1>3 DEF MemInv
<1> QED
  BY <1>0, <1>2, <1>3, <1>4, SteadyRemembers

\* The child gets a page like its parent's, which is one of its own: the page of a file
\* would be mapped twice.
LEMMA MemCopyNext ==
    ASSUME Sane, VInv', Asked, Asked', NEW c \in Proc, NEW va \in Va, CopyNext(c, va)
    PROVE  MemInv' /\ Remembers
<1>0. /\ WellFormed /\ VInv /\ MappedOnce /\ MappedOnce' /\ pc[c] = "copy" /\ "copied" \in Places
      /\ UNCHANGED <<parent, dirty, ram, swap, contents>>
  BY DEF Sane, VInv, Asked, CopyNext, diskVars, Places
<1>1. PICK p \in Proc : p = parent[c]
  BY <1>0, CopyNextIs
<1>2. pc[p] = "fork" /\ p # c /\ p # None /\ spt[p][va] # NoPage /\ spt[c][va] = NoPage
  BY <1>0, <1>1, CopyNextIs, VmConstants
<1>3. PICK page \in PageRecord :
        /\ page # NoPage /\ page.kind = spt[p][va].kind /\ page.ofs = spt[p][va].ofs
        /\ page.uninit /\ page.frame = None /\ page.slot = None
        /\ spt' = [spt EXCEPT ![c][va] = page]
  BY <1>0, <1>1, CopyNextIs
<1>4. /\ spt'[c][va] = page
      /\ \A q \in Proc, vb \in Va : q # c \/ vb # va => spt'[q][vb] = spt[q][vb]
  BY <1>0, <1>3, VmState
<1>5. page.lazy = spt[p][va].lazy
  <2>1. spt' = [spt EXCEPT ![c][va] =
                  NewPage(spt[p][va].kind, spt[p][va].lazy, spt[p][va].ofs, 0,
                          spt[p][va].loader)]
    BY <1>1 DEF CopyNext
  <2>2. PICK new : new = NewPage(spt[p][va].kind, spt[p][va].lazy, spt[p][va].ofs, 0,
                                 spt[p][va].loader)
    OBVIOUS
  <2>3. spt'[c][va] = new
    BY <1>0, <2>1, <2>2, VmState
  <2> QED
    BY <1>4, <2>2, <2>3 DEF NewPage
<1>6. page.kind = "anon"
  <2>1. SUFFICES ASSUME page.kind # "anon" PROVE FALSE
    OBVIOUS
  <2>2. page.kind = "file" /\ spt'[p][va] = spt[p][va]
    BY <1>2, <1>3, <1>4, <2>1 DEF PageRecord
  <2>3. Maps(c, va, page.ofs)' /\ Maps(p, va, page.ofs)'
    BY <1>2, <1>3, <1>4, <2>2 DEF Maps
  <2> QED
    BY <1>0, <1>2, <2>3, OnceNext
<1>7. /\ \A q \in Proc \ {c} : pc'[q] = pc[q] /\ at'[q] = at[q] /\ then'[q] = then[q]
      /\ IF spt[p][va].uninit
         THEN pc'[c] = "copy" ELSE pc'[c] = "claim" /\ at'[c] = va /\ then'[c] = "copied"
  <2>1. CASE spt[p][va].uninit
    <3>1. UNCHANGED <<pc, at, then>>
      BY <1>1, <2>1 DEF CopyNext
    <3> QED
      BY <1>0, <2>1, <3>1
  <2>2. CASE ~spt[p][va].uninit
    <3>1. Claim(c, va, "copied")
      BY <1>1, <2>2 DEF CopyNext
    <3> QED
      BY <1>0, <2>2, <3>1, ClaimIs
  <2> QED
    BY <2>1, <2>2
<1>8. \A q \in Proc, vb \in Va : q # c \/ vb # va => Steady(q, vb)
  BY <1>0, <1>4, <1>7 DEF Steady, Filling
<1>9. \A o : ~Maps(c, va, o) /\ ~Maps(c, va, o)'
  BY <1>2, <1>4, <1>6 DEF Maps
<1>10. OnlyAt(c, va)
  <2>1. \A vb \in Va : vb # va => ~InCopy(c, vb) /\ ~InCopy(c, vb)'
    BY <1>0, <1>7 DEF InCopy, ToCopy, Claiming
  <2> QED
    BY <1>0, <1>7, <1>8, <1>9, <2>1 DEF OnlyAt
<1>11. PageIsSound(c, va)' /\ SegmentAt(c, va)'
  <2>1. PageIsSound(p, va)
    BY DEF Sane, MemInv
  <2> QED
    BY <1>0, <1>1, <1>2, <1>3, <1>4, <1>5, <1>6, <2>1 DEF PageIsSound, SegmentAt
<1>12. CopyAt(c, va)'
  <2>1. spt'[parent'[c]][va] = spt[p][va]
    BY <1>0, <1>1, <1>2, <1>4
  <2>2. CASE spt[p][va].uninit
    <3>1. ~InCopy(c, va)'
      BY <1>7, <2>2 DEF InCopy, ToCopy, Claiming
    <3>2. page.uninit = spt[p][va].uninit
      <4>1. spt[p][va].uninit \in BOOLEAN
        BY <1>0, <1>2, PageFields
      <4> QED
        BY <1>3, <2>2, <4>1 DEF PageRecord
    <3> QED
      BY <1>2, <1>3, <1>4, <1>6, <2>1, <2>2, <3>1, <3>2 DEF CopyAt
  <2>3. CASE ~spt[p][va].uninit
    <3>1. InCopy(c, va)' /\ pc'[c] # "copied"
      BY <1>7, <2>3 DEF InCopy, ToCopy, Claiming
    <3> QED
      BY <1>2, <1>3, <1>4, <1>6, <2>1, <2>3, <3>1 DEF CopyAt
  <2> QED
    BY <2>2, <2>3
<1>13. Hidden(c) /\ Hidden(c)'
  BY <1>0, <1>1, <1>2 DEF Hidden
<1> QED
  BY <1>0, <1>9, <1>10, <1>11, <1>12, <1>13, SeenIs, OnlySame

\* The memcpy.
LEMMA MemCopied ==
    ASSUME Sane, VInv', Asked, Asked', NEW c \in Proc, Copied(c)
    PROVE  MemInv' /\ Remembers
<1>0. /\ WellFormed /\ VInv /\ MappedOnce /\ MappedOnce' /\ pc[c] = "copied" /\ "copy" \in Places
      /\ UNCHANGED <<at, spt, dirty, swap, contents>>
  BY DEF Sane, VInv, Asked, Copied, tableVars, diskVars, Places
<1>1. PICK va \in Va : va = at[c]
  BY <1>0, ClaimedPage
<1>2. parent[c] # None
  BY <1>0 DEF VInv, Family
<1>3. PICK p \in Proc : p = parent[c] /\ pc[p] = "fork" /\ p # c
  BY <1>0, <1>2, VmState DEF VInv, Family
<1>4. spt[c][va] # NoPage /\ InCopy(c, va) /\ CopyAt(c, va)
  BY <1>0, <1>1, ClaimedPage DEF InCopy, Sane, MemInv
<1>5. /\ spt[p][va] # NoPage /\ spt[p][va].kind = "anon" /\ spt[c][va].kind = "anon"
      /\ ~spt[p][va].uninit /\ ~spt[c][va].uninit
  BY <1>0, <1>2, <1>3, <1>4 DEF CopyAt
<1>6. PICK from, to : from = spt[p][va].frame /\ to = spt[c][va].frame
  OBVIOUS
<1>7. CASE from = None \/ to = None
  <2>1. Exiting(c) /\ parent' = [parent EXCEPT ![c] = None] /\ ram' = ram
    BY <1>1, <1>3, <1>6, <1>7 DEF Copied
  <2>2. pc'[c] = "kill" /\ \A q \in Proc \ {c} : pc'[q] = pc[q] /\ then'[q] = then[q]
    BY <1>0, <2>1, ExitingIs
  <2>3. parent'[c] = None /\ \A q \in Proc \ {c} : parent'[q] = parent[q]
    BY <1>0, <2>1, VmState
  <2>4. \A q \in Proc, vb \in Va : Steady(q, vb)
    BY <1>0, <2>1, <2>2 DEF Steady, Filling
  <2>5. \A q \in Proc, vb \in Va : q # c =>
          /\ PageIsSound(q, vb)' /\ SegmentAt(q, vb)' /\ CopyAt(q, vb)'
          /\ OwnValue(q, vb)' = OwnValue(q, vb)
    <3>1. pc[c] # "fork" /\ \A q \in Proc \ {c} : at'[q] = at[q]
      BY <1>0
    <3> QED
      BY <2>2, <2>3, <2>4, <3>1, OthersMem
  <2>6. ASSUME NEW vb \in Va
        PROVE  /\ PageIsSound(c, vb)' /\ SegmentAt(c, vb)' /\ CopyAt(c, vb)'
               /\ OwnValue(c, vb)' = OwnValue(c, vb)
    <3>1. Hidden(c) /\ Hidden(c)'
      BY <1>2, <2>2 DEF Hidden
    <3>2. PageIsSound(c, vb)'
      BY <2>4, SoundStays DEF Sane, MemInv
    <3> QED
      BY <2>2, <2>3, <3>1, <3>2, SeenIs DEF SegmentAt, CopyAt
  <2>7. MemInv'
    BY <2>5, <2>6 DEF MemInv
  <2> QED
    BY <1>0, <2>4, <2>5, <2>6, <2>7, SteadyRemembers
<1>8. CASE ~(from = None \/ to = None)
  <2>1. /\ ram' = [ram EXCEPT ![to] = ram[from]] /\ Goto(c, "copy") /\ UNCHANGED <<then, parent>>
    BY <1>1, <1>3, <1>6, <1>8 DEF Copied
  <2>2. pc'[c] = "copy" /\ \A q \in Proc \ {c} : pc'[q] = pc[q]
    BY <1>0, <2>1, GotoIs
  <2>3. from \in Frame /\ to \in Frame
    BY <1>0, <1>4, <1>5, <1>6, <1>8, PageFields
  <2>4. ram'[to] = ram[from] /\ \A f \in Frame \ {to} : ram'[f] = ram[f]
    BY <1>0, <2>1, <2>3 DEF WellFormed
  <2>5. ASSUME NEW q \in Proc, NEW vb \in Va, q # c \/ vb # va PROVE Steady(q, vb)
    <3>1. ASSUME spt[q][vb] # NoPage, spt[q][vb].frame # None
          PROVE  spt[q][vb].frame \in Frame \ {to}
      <4>1. spt[q][vb].frame \in Frame
        BY <1>0, <3>1, PageFields
      <4>2. spt[q][vb].frame # to
        BY <1>4, <1>6, <1>8, <2>5, <3>1, Apart DEF Sane
      <4> QED
        BY <4>1, <4>2
    <3> QED
      BY <1>0, <2>2, <2>4, <3>1 DEF Steady, Filling
  <2>6. \A o : ~Maps(c, va, o) /\ ~Maps(c, va, o)'
    BY <1>0, <1>5 DEF Maps
  <2>7. OnlyAt(c, va)
    <3>1. \A vb \in Va : vb # va => ~InCopy(c, vb) /\ ~InCopy(c, vb)'
      BY <1>0, <1>1 DEF InCopy
    <3> QED
      BY <1>0, <2>1, <2>2, <2>5, <2>6, <3>1 DEF OnlyAt
  <2>8. PageIsSound(c, va)' /\ SegmentAt(c, va)'
    <3>1. PageIsSound(c, va) /\ ~Filling(c, va)
      BY <1>0 DEF Sane, MemInv, Filling
    <3> QED
      BY <1>0, <1>2, <1>5, <2>1, <3>1 DEF PageIsSound, SegmentAt
  <2>9. CopyAt(c, va)'
    <3>1. ~InCopy(c, va)'
      BY <2>2 DEF InCopy, ToCopy, Claiming
    <3>2. ram'[from] = ram[from]
      BY <1>3, <1>5, <1>6, <1>8, <2>5 DEF Steady
    <3>3. spt[c][va].uninit = spt[p][va].uninit
      <4>1. spt[c][va].uninit \in BOOLEAN /\ spt[p][va].uninit \in BOOLEAN
        BY <1>0, <1>4, <1>5, PageFields
      <4> QED
        BY <1>5, <4>1
    <3> QED
      BY <1>0, <1>3, <1>5, <1>6, <1>8, <2>1, <2>4, <3>1, <3>2, <3>3 DEF CopyAt
  <2>10. Hidden(c) /\ Hidden(c)'
    BY <1>2, <2>1 DEF Hidden
  <2> QED
    BY <1>0, <2>6, <2>7, <2>8, <2>9, <2>10, SeenIs, OnlySame
<1> QED
  BY <1>7, <1>8

LEMMA MemSteps ==
    Sane /\ VInv' /\ Asked /\ Asked' /\ ~astray' /\ [Next]_vars => MemInv' /\ Remembers
<1> SUFFICES ASSUME Sane, VInv', Asked, Asked', ~astray', [Next]_vars PROVE MemInv' /\ Remembers
  OBVIOUS
<1>1. CASE UNCHANGED vars \/ Stopped
  <2>1. UNCHANGED <<pc, at, then, parent, spt, dirty, ram, swap, contents>>
    BY <1>1 DEF Stopped, vars, localVars, tableVars, diskVars
  <2> QED
    BY <2>1, MemStays DEF Sane
<1>2. ASSUME NEW p \in Proc, Step(p) PROVE MemInv' /\ Remembers
  BY <1>2, MemWrite, MemQuiet, MemMmap, MemKillNext, MemCopyNext, MemStackGrowth, MemEvict,
     MemLink, MemFill, MemKillDone, MemExit, MemLoad, MemUnmapNext, MemFork, MemCopied,
     MemCopyDone, MemCopyFails DEF Step
<1> QED
  BY <1>1, <1>2 DEF Next

LEMMA MemStart == Init => MemInv /\ M!Init
<1> SUFFICES ASSUME Init PROVE MemInv /\ M!Init
  OBVIOUS
<1>1. /\ pc = [p \in Proc |-> IF p = First THEN "claim" ELSE "none"]
      /\ parent = [p \in Proc |-> None]
      /\ spt = [p \in Proc |-> IF p = First THEN LoadedPages(p) ELSE [va \in Va |-> NoPage]]
      /\ contents = [o \in Offset |-> Start]
  BY DEF Init
<1>2. ASSUME NEW p \in Proc, NEW va \in Va
      PROVE  PageIsSound(p, va) /\ SegmentAt(p, va) /\ CopyAt(p, va)
  <2>1. parent[p] = None /\ CopyAt(p, va)
    BY <1>1 DEF CopyAt
  <2>2. CASE p = First
    BY <1>1, <2>1, <2>2, LoadedIs, LoadedAre DEF PageIsSound, SegmentAt
  <2>3. CASE p # First
    BY <1>1, <2>1, <2>3 DEF PageIsSound, SegmentAt
  <2> QED
    BY <2>1, <2>2, <2>3
<1>3. ASSUME NEW p \in Proc, NEW va \in Va
      PROVE  /\ MapOf[p][va] = None /\ \A o : ~Maps(p, va, o)
             /\ OwnValue(p, va) = IF p = First /\ va \in Segment THEN Start ELSE None
  <2>1. CASE spt[p][va] = NoPage
    <3>1. ~(p = First /\ va \in Segment)
      BY <1>1, <2>1, LoadedAre
    <3> QED
      BY <2>1, <3>1, SeenIs DEF Maps
  <2>2. CASE spt[p][va] # NoPage
    <3>1. p = First /\ spt[p][va] = LoadedPages(p)[va]
      BY <1>1, <2>2
    <3>2. /\ spt[p][va].kind = "anon" /\ spt[p][va].uninit /\ (spt[p][va].lazy <=> va \in Segment)
      BY <2>2, <3>1, LoadedIs, LoadedAre
    <3>3. ~Hidden(p)
      BY <1>1, <3>1 DEF Hidden
    <3>4. OwnValue(p, va) = IF va \in Segment THEN Start ELSE None
      BY <2>2, <3>2, <3>3 DEF OwnValue
    <3> QED
      BY <2>2, <3>1, <3>2, <3>4, SeenIs DEF Maps
  <2> QED
    BY <2>1, <2>2
<1>4. ASSUME NEW p \in Proc PROVE OwnOf[p] \in {M!Nothing, M!Loaded}
  <2>1. OwnOf[p] = [va \in Va |-> OwnValue(p, va)]
    BY DEF OwnOf
  <2>2. M!Loaded = [va \in Va |-> IF va \in Segment THEN Start ELSE None]
    BY DEF M!Loaded
  <2>3. M!Nothing = [va \in Va |-> None]
    BY DEF M!Nothing
  <2>4. CASE p = First
    <3>1. [va \in Va |-> OwnValue(p, va)] = [va \in Va |-> IF va \in Segment THEN Start ELSE None]
      BY <1>3, <2>4
    <3> QED
      BY <2>1, <2>2, <3>1
  <2>5. CASE p # First
    <3>1. [va \in Va |-> OwnValue(p, va)] = [va \in Va |-> None]
      BY <1>3, <2>5
    <3> QED
      BY <2>1, <2>3, <3>1
  <2> QED
    BY <2>4, <2>5
<1>5. OwnOf \in [Proc -> {M!Nothing, M!Loaded}]
  BY <1>4 DEF OwnOf
<1>6. MapOf = [p \in Proc |-> M!Nothing]
  BY <1>3 DEF MapOf, M!Nothing
<1>7. ContentsOf \in [Offset -> Value]
  <2>1. \A o \in Offset : ContentsOf[o] = Start
    BY <1>1, <1>3, UnmappedIs
  <2>2. ContentsOf = [o \in Offset |-> ContentsOf[o]]
    BY DEF ContentsOf
  <2>3. [o \in Offset |-> ContentsOf[o]] \in [Offset -> Value]
    BY <2>1, VmConstants
  <2> QED
    BY <2>2, <2>3
<1> QED
  BY <1>2, <1>5, <1>6, <1>7 DEF MemInv, M!Init

\* Through page faults, eviction, swapping, loading on demand, mapping and fork, memory is
\* what user code wrote to it, as long as nobody evicts next to another process, no mapping
\* is cut short by another page, and no page of the file is mapped twice; and until
\* lazy_load_segment gets less than it asks for, or reads a file that was closed.
THEOREM MemoryIsKept ==
    Spec /\ [](EvictsAlone /\ MappingsAreWhole /\ MappedOnce) => ImplementsMemory
<1>1. Init => VInv /\ astray \in BOOLEAN /\ (astray \/ Sane) /\ M!Init
  BY VmInit, FrStart, SlotsInit, MemStart DEF Sane, Init
<1>2. /\ VInv /\ astray \in BOOLEAN /\ (astray \/ Sane) /\ Asked /\ Asked' /\ [Next]_vars
      => /\ (VInv /\ astray \in BOOLEAN /\ (astray \/ Sane))'
         /\ [astray' \/ M!Next]_(M!vars)
  <2> SUFFICES ASSUME VInv, astray \in BOOLEAN, astray \/ Sane, Asked, Asked', [Next]_vars
               PROVE  /\ (VInv /\ astray \in BOOLEAN /\ (astray \/ Sane))'
                      /\ [astray' \/ M!Next]_(M!vars)
    OBVIOUS
  <2>1. VInv' /\ astray' \in BOOLEAN /\ (astray => astray')
    BY VmSteps, AstrayStays
  <2>2. CASE ~astray'
    <3>1. Sane
      BY <2>1, <2>2
    <3>2. FrInv' /\ SlotsAgree'
      BY <2>2, <3>1, FrSteps, SlotsSteps DEF Sane, Asked
    <3>3. MemInv' /\ Remembers
      BY <2>1, <2>2, <3>1, MemSteps
    <3> QED
      BY <2>1, <3>2, <3>3 DEF Sane, Remembers
  <2> QED
    BY <2>1, <2>2
<1>3. Spec /\ []Asked => ImplementsMemory
  BY <1>1, <1>2, PTL DEF Spec, ImplementsMemory
<1> QED
  BY <1>3 DEF Asked
=============================================================================
