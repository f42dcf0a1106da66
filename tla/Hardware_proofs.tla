-------------------------- MODULE Hardware_proofs --------------------------
(***************************************************************************)
(* Proofs about the two things the kernel shares with the hardware.  The   *)
(* commands of a disk channel do not mix, and it implements Store, for any *)
(* number of threads, sectors and values, and any number of interrupts for *)
(* no command.  The page tables implement AddrSpace, and no page of theirs *)
(* and no frame is lost or shared, for any number of processes, user pages *)
(* and pages of the pool.                                                  *)
(***************************************************************************)
EXTENDS Disk, PageTable, FiniteSetTheorems, WellFoundedInduction, TLAPS

-----------------------------------------------------------------------------
(* The disk.                                                               *)

Places == {"boot", "check", "next", "idle", "lock", "select", "selected", "issue",
           "down", "poll", "unlock", "panic"}
Inside == {"select", "selected", "issue", "down", "poll", "unlock", "panic"}
Booting(t) == pc[t] \in {"check", "next"} \/ (pc[t] \in Inside /\ job[t].op = "identify")
Transfers(t) == pc[t] \in Inside /\ job[t].op # "identify"

Jobs == [op : {"read", "write", "identify"}, dev : Devices \cup {NoDevice}, sec : Sectors, val : Values]
Devs == [state : {"idle", "command", "data in", "data out", "writing"},
         op : {"none", "read", "write", "identify"}, dev : Devices \cup {NoDevice},
         sec : Sectors, val : Values]

PlacesTyped ==
    /\ pc \in [Threads -> Places]
    /\ DOMAIN job = Threads
    /\ \A t \in Threads : IF pc[t] \in {"boot", "idle", "lock"} THEN job[t] = NoCall ELSE job[t] \in Jobs
DriverTyped ==
    /\ lock \in Threads \cup {Nobody}
    /\ completion \in Nat /\ is_ata \in [Devices -> BOOLEAN]
DeviceTyped ==
    /\ spurious \in Nat /\ late \in BOOLEAN /\ irq \in BOOLEAN
    /\ hw.state # "idle" => hw.dev \in Devices
    /\ regs \in [dev : Devices, sec : Sectors] /\ hw \in Devs
    /\ media \in [Devices -> [Sectors -> Values]]
TypeOK == PlacesTyped /\ DriverTyped /\ DeviceTyped

(* One thread is at the channel: the one that runs disk_init, while all    *)
(* others have not started, or the one in the lock.                        *)
OneInside ==
    /\ \A t \in Threads : Booting(t) => lock = Nobody /\ \A u \in Threads \ {t} : pc[u] = "boot"
    /\ \A t \in Threads :
          /\ pc[t] \in {"check", "next"} => job[t].op = "identify"
          /\ pc[t] \in Inside => job[t].dev \in Devices
          /\ Transfers(t) <=> lock = t

(* Until a wait runs out, what the device is at is what the thread at the  *)
(* channel asked it, or a write that an interrupt for nothing let go.      *)
DeviceAgrees ==
    /\ hw.state \in {"command", "data in", "data out"} =>
          \E t \in Threads : pc[t] \in {"down", "poll"}
    /\ hw.state = "data in" /\ hw.op = "read" => hw.val = media[hw.dev][hw.sec]
    /\ hw.state = "data in" => hw.op # "write"
    /\ hw.state \in {"data out", "writing"} => hw.op = "write"
    /\ \A t \in Threads :
          /\ pc[t] = "issue" => Idle /\ regs = [dev |-> job[t].dev, sec |-> job[t].sec]
          /\ pc[t] \in {"down", "poll"} /\ ~Idle =>
                hw.op = job[t].op /\ hw.dev = job[t].dev /\ hw.sec = job[t].sec
          /\ pc[t] \in {"down", "poll"} /\ job[t].op = "read" => hw.state \in {"command", "data in"}
          /\ pc[t] \in {"down", "poll"} /\ job[t].op = "identify" =>
                hw.state \in {"idle", "command", "data in"}
          /\ pc[t] = "poll" /\ job[t].op = "write" => hw.state \in {"command", "data out"}
          /\ pc[t] = "down" /\ job[t].op = "write" => hw.state \in {"idle", "writing"}

(* One interrupt of the command is on its way, or in completion_wait.      *)
Answered == (irq /\ completion = 0) \/ (~irq /\ completion = 1)
Unanswered == ~irq /\ completion = 0
(* As long as no interrupt came for nothing, every command has one, which  *)
(* its thread takes: the device is idle when the channel is given up, and  *)
(* no wait runs out.                                                       *)
EveryAnswerTaken ==
    /\ ~late
    /\ (\A t \in Threads : pc[t] \notin {"down", "poll"}) => Idle /\ Unanswered
    /\ \A t \in Threads :
          /\ pc[t] \in {"down", "poll"} => expecting
          /\ pc[t] = "down" /\ hw.state \in {"command", "writing"} => Unanswered
          /\ pc[t] = "down" /\ hw.state \in {"idle", "data in"} => Answered
          /\ pc[t] = "poll" => Unanswered
          /\ pc[t] = "poll" /\ job[t].op # "write" => hw.state # "command"

IInv == /\ TypeOK /\ OneInside
        /\ late \/ DeviceAgrees
        /\ spurious = 0 => EveryAnswerTaken
-----------------------------------------------------------------------------
(* The thread at the channel is one.                                       *)
LEMMA OnlyOne ==
    ASSUME OneInside, NEW t \in Threads, NEW u \in Threads,
           pc[t] \in Inside \cup {"check", "next"}, pc[u] \in Inside \cup {"check", "next"}
    PROVE  t = u
<1>1. Booting(t) \/ Transfers(t)
  BY DEF Booting, Transfers
<1>2. Booting(u) \/ Transfers(u)
  BY DEF Booting, Transfers
<1>3. Nobody \notin Threads /\ "boot" \notin Inside \cup {"check", "next"}
  BY DiskAssumption DEF Inside
<1> QED
  BY <1>1, <1>2, <1>3 DEF OneInside

(* The default values are values.                                          *)
LEMMA Constants ==
    /\ Boot \in Threads /\ AnySec \in Sectors /\ AnyVal \in Values
    /\ Ready \in Devs /\ Ready.state = "idle"
    /\ NoCall \notin Jobs
<1>1. Boot \in Threads /\ AnySec \in Sectors /\ AnyVal \in Values
  BY DiskAssumption DEF Boot, AnySec, AnyVal
<1> QED
  BY <1>1, DiskAssumption DEF Ready, Devs, Jobs

(* disk_init begins with one thread at the channel and an idle device.     *)
LEMMA InitIInv == ASSUME Init PROVE IInv
<1>1. \A t \in Threads : pc[t] = (IF t = Boot THEN "check" ELSE "boot") /\ ~Transfers(t)
  BY DEF Init, Transfers, Inside
<1>2. TypeOK
  <2>1. PlacesTyped
    <3>1. job[Boot] \in Jobs
      BY Constants DEF Init, Jobs, Devices, NoDevice
    <3> QED
      BY <1>1, <3>1 DEF Init, PlacesTyped, Places
  <2>2. DriverTyped
    BY DEF Init, DriverTyped, Devices
  <2>3. DeviceTyped
    BY Constants DEF Init, DeviceTyped, Devices
  <2> QED
    BY <2>1, <2>2, <2>3 DEF TypeOK
<1>3. OneInside
  BY <1>1, Constants, DiskAssumption DEF Init, OneInside, Booting, Inside
<1>4. DeviceAgrees
  BY <1>1, Constants DEF Init, DeviceAgrees, Idle
<1>5. EveryAnswerTaken
  BY <1>1, Constants DEF Init, EveryAnswerTaken, Unanswered, Idle
<1> QED
  BY <1>2, <1>3, <1>4, <1>5 DEF IInv

(* A step that moves one thread on, and may change its call.               *)
LEMMA Moves ==
    ASSUME PlacesTyped, NEW t \in Threads, NEW l \in Places, pc' = [pc EXCEPT ![t] = l],
           NEW j, job' = [job EXCEPT ![t] = j],
           IF l \in {"boot", "idle", "lock"} THEN j = NoCall ELSE j \in Jobs
    PROVE  PlacesTyped'
BY DEF PlacesTyped

LEMMA MovesOn ==
    ASSUME PlacesTyped, NEW t \in Threads, NEW l \in Places, pc' = [pc EXCEPT ![t] = l],
           job' = job,
           l \in {"boot", "idle", "lock"} <=> pc[t] \in {"boot", "idle", "lock"}
    PROVE  PlacesTyped'
BY DEF PlacesTyped

LEMMA Stays == ASSUME PlacesTyped, pc' = pc, job' = job PROVE PlacesTyped'
BY DEF PlacesTyped

LEMMA DriverStays ==
    ASSUME DriverTyped, UNCHANGED <<lock, completion, is_ata>> PROVE DriverTyped'
BY DEF DriverTyped

LEMMA DeviceStays == ASSUME DeviceTyped, UNCHANGED devVars PROVE DeviceTyped'
BY DEF DeviceTyped, devVars

(* The types are kept.                                                     *)
LEMMA TypeStep == ASSUME IInv, [Next]_vars PROVE TypeOK'
<1> USE DEF Places, At, Go
<1>0. PlacesTyped /\ DriverTyped /\ DeviceTyped
  BY DEF IInv, TypeOK
<1>a. \A t \in Threads : pc[t] \notin {"boot", "idle", "lock"} => job[t] \in Jobs
  BY <1>0 DEF PlacesTyped
<1> SUFFICES PlacesTyped' /\ DriverTyped' /\ DeviceTyped'
  BY DEF TypeOK
<1>1. CASE UNCHANGED vars
  BY <1>0, <1>1, Stays, DriverStays, DeviceStays DEF vars, devVars
<1>2. ASSUME NEW t \in Threads, Call(t) PROVE PlacesTyped' /\ DriverTyped' /\ DeviceTyped'
  BY <1>0, <1>2, MovesOn, DriverStays, DeviceStays DEF Call, drvVars
<1>3. ASSUME NEW t \in Threads, Acquire(t) PROVE PlacesTyped' /\ DriverTyped' /\ DeviceTyped'
  <2>1. PICK op \in {"read", "write"}, d \in Devices, sec \in Sectors, v \in Values :
             job' = [job EXCEPT ![t] = [op |-> op, dev |-> d, sec |-> sec, val |-> v]]
    BY <1>3 DEF Acquire
  <2>2. [op |-> op, dev |-> d, sec |-> sec, val |-> v] \in Jobs
    BY DEF Jobs
  <2>3. DriverTyped'
    BY <1>0, <1>3 DEF Acquire, DriverTyped
  <2> QED
    BY <1>0, <1>3, <2>1, <2>2, <2>3, Moves, DeviceStays DEF Acquire
<1>4. ASSUME NEW t \in Threads, CheckDevices(t) PROVE PlacesTyped' /\ DriverTyped' /\ DeviceTyped'
  <2>1. is_ata' \in [Devices -> BOOLEAN] /\ regs' \in [dev : Devices, sec : Sectors]
    BY <1>0, <1>4 DEF CheckDevices, Devices, LooksAta, DriverTyped, DeviceTyped
  <2>2. DriverTyped' /\ DeviceTyped'
    BY <1>0, <1>4, <2>1 DEF CheckDevices, DriverTyped, DeviceTyped
  <2> QED
    BY <1>0, <1>4, <2>2, MovesOn DEF CheckDevices
<1>5. ASSUME NEW t \in Threads, NextDevice(t) PROVE PlacesTyped' /\ DriverTyped' /\ DeviceTyped'
  <2>1. PlacesTyped'
    <3>1. CASE pc' = [pc EXCEPT ![t] = "select"] /\ job' = job
      BY <1>0, <1>5, <3>1, MovesOn DEF NextDevice
    <3>2. CASE job[t].dev \in Devices /\ job' = [job EXCEPT ![t].dev = job[t].dev + 1] /\ pc' = pc
      <4>1. [job[t] EXCEPT !.dev = job[t].dev + 1] \in Jobs
        BY <1>a, <1>5, <3>2 DEF NextDevice, Jobs, Devices, NoDevice
      <4> QED
        BY <1>0, <1>5, <3>2, <4>1 DEF NextDevice, PlacesTyped
    <3>3. CASE job' = [job EXCEPT ![t] = NoCall] /\ pc' = [u \in Threads |-> "idle"]
      <4>1. \A u \in Threads : u # t => job[u] = NoCall
        BY <1>0, <1>5 DEF IInv, OneInside, Booting, NextDevice, PlacesTyped
      <4> QED
        BY <1>0, <3>3, <4>1 DEF PlacesTyped
    <3> QED
      BY <1>5, <3>1, <3>2, <3>3 DEF NextDevice
  <2> QED
    BY <1>0, <1>5, <2>1, DriverStays, DeviceStays DEF NextDevice, drvVars
<1>6. ASSUME NEW t \in Threads, Identified(t) PROVE PlacesTyped' /\ DriverTyped' /\ DeviceTyped'
  <2>1. [job[t] EXCEPT !.dev = job[t].dev + 1] \in Jobs
    BY <1>a, <1>6 DEF Identified, Jobs, Devices, NoDevice, IInv, OneInside, Inside
  <2>2. DriverTyped'
    <3>1. HasData \in BOOLEAN
      BY DEF HasData
    <3>2. is_ata' \in [Devices -> BOOLEAN]
      BY <1>0, <1>6, <3>1, Zenon DEF Identified, DriverTyped
    <3> QED
      BY <1>0, <1>6, <3>2 DEF Identified, DriverTyped
  <2>3. DeviceTyped'
    BY <1>0, <1>6, Constants DEF Identified, DeviceTyped
  <2>4. PlacesTyped'
    BY <1>0, <1>6, <2>1, Moves DEF Identified
  <2> QED
    BY <2>2, <2>3, <2>4
<1>7. ASSUME NEW t \in Threads, Select(t) \/ SelectSector(t)
      PROVE  PlacesTyped' /\ DriverTyped' /\ DeviceTyped'
  <2>1. job[t].dev \in Devices /\ job[t].sec \in Sectors
    BY <1>a, <1>7 DEF Select, SelectSector, IInv, OneInside, Inside, Jobs
  <2>2. DeviceTyped'
    <3>1. regs' \in [dev : Devices, sec : Sectors]
      BY <1>0, <1>7, <2>1 DEF Select, SelectSector, DeviceTyped
    <3>2. late' \in BOOLEAN /\ irq' \in BOOLEAN
      BY <1>0, <1>7 DEF Select, SelectSector, WaitUntilIdle, StatusRead, DeviceTyped
    <3> QED
      BY <1>0, <1>7, <3>1, <3>2 DEF Select, SelectSector, DeviceTyped
  <2>3. PlacesTyped'
    BY <1>0, <1>7, MovesOn DEF Select, SelectSector
  <2> QED
    BY <1>0, <1>7, <2>2, <2>3, DriverStays DEF Select, SelectSector, drvVars
<1>8. ASSUME NEW t \in Threads, Issue(t) PROVE PlacesTyped' /\ DriverTyped' /\ DeviceTyped'
  <2>1. hw' \in Devs /\ (hw'.state # "idle" => hw'.dev \in Devices)
    <3>1. CASE hw' = hw
      BY <1>0, <3>1 DEF DeviceTyped
    <3>2. CASE hw' = [state |-> "command", op |-> job[t].op, dev |-> regs.dev,
                      sec |-> regs.sec, val |-> AnyVal]
      <4>1. job[t].op \in {"read", "write", "identify"} /\ regs.dev \in Devices /\ regs.sec \in Sectors
        BY <1>0, <1>a, <1>8 DEF Issue, Jobs, DeviceTyped
      <4> QED
        BY <3>2, <4>1, Constants DEF Devs
    <3> QED
      BY <1>8, <3>1, <3>2 DEF Issue
  <2>2. DeviceTyped'
    BY <1>0, <1>8, <2>1 DEF Issue, DeviceTyped
  <2>3. PlacesTyped'
    BY <1>0, <1>8, MovesOn DEF Issue, AfterIssue
  <2> QED
    BY <1>0, <1>8, <2>2, <2>3, DriverStays DEF Issue
<1>9. ASSUME NEW t \in Threads, Down(t) PROVE PlacesTyped' /\ DriverTyped' /\ DeviceTyped'
  <2>1. DriverTyped'
    BY <1>0, <1>9 DEF Down, DriverTyped
  <2>2. PlacesTyped'
    BY <1>0, <1>9, MovesOn DEF Down
  <2> QED
    BY <1>0, <1>9, <2>1, <2>2, DeviceStays DEF Down
<1>10. ASSUME NEW t \in Threads, InputSector(t) PROVE PlacesTyped' /\ DriverTyped' /\ DeviceTyped'
  <2>1. [job[t] EXCEPT !.val = hw.val] \in Jobs
    BY <1>0, <1>a, <1>10 DEF InputSector, Jobs, DeviceTyped, Devs
  <2>2. DeviceTyped'
    BY <1>0, <1>10, Constants DEF InputSector, DeviceTyped
  <2> QED
    BY <1>0, <1>10, <2>1, <2>2, Moves, DriverStays DEF InputSector, drvVars
<1>11. ASSUME NEW t \in Threads, OutputSector(t) PROVE PlacesTyped' /\ DriverTyped' /\ DeviceTyped'
  <2>1. hw' \in Devs /\ hw'.dev \in Devices
    BY <1>0, <1>a, <1>11 DEF OutputSector, DeviceTyped, Devs, Jobs
  <2>2. DeviceTyped'
    BY <1>0, <1>11, <2>1 DEF OutputSector, DeviceTyped
  <2> QED
    BY <1>0, <1>11, <2>2, MovesOn, DriverStays DEF OutputSector, drvVars
<1>12. ASSUME NEW t \in Threads, Release(t) PROVE PlacesTyped' /\ DriverTyped' /\ DeviceTyped'
  <2>1. DriverTyped'
    BY <1>0, <1>12 DEF Release, DriverTyped
  <2> QED
    BY <1>0, <1>12, <2>1, Moves, DeviceStays DEF Release
<1>13. CASE Transfer
  <2>1. hw' \in Devs /\ (hw'.state # "idle" => hw'.dev \in Devices)
    <3>0. hw.dev \in Devices
      BY <1>0, <1>13 DEF Transfer, DeviceTyped
    <3>1. CASE hw' = [hw EXCEPT !.state = "data out"]
      BY <1>0, <3>0, <3>1 DEF DeviceTyped, Devs
    <3>2. CASE hw' = [hw EXCEPT !.state = "data in", !.val = media[hw.dev][hw.sec]]
      BY <1>0, <3>0, <3>2 DEF DeviceTyped, Devs
    <3> QED
      BY <1>13, <3>1, <3>2, Constants DEF Transfer
  <2>2. DeviceTyped'
    BY <1>0, <1>13, <2>1 DEF Transfer, DeviceTyped
  <2> QED
    BY <1>0, <1>13, <2>2, Stays, DriverStays DEF Transfer, drvVars
<1>14. CASE Finish
  <2>1. media' \in [Devices -> [Sectors -> Values]]
    BY <1>0, <1>14 DEF Finish, DeviceTyped, Devs
  <2>2. DeviceTyped'
    BY <1>0, <1>14, <2>1, Constants DEF Finish, DeviceTyped
  <2> QED
    BY <1>0, <1>14, <2>2, Stays, DriverStays DEF Finish, drvVars
<1>15. CASE Interrupt
  <2>1. completion' \in Nat
    BY <1>0, <1>15 DEF Interrupt, DriverTyped
  <2>2. DriverTyped' /\ DeviceTyped'
    BY <1>0, <1>15, <2>1 DEF Interrupt, DriverTyped, DeviceTyped
  <2> QED
    BY <1>0, <1>15, <2>2, Stays DEF Interrupt
<1>16. CASE Spurious
  <2>1. DeviceTyped'
    BY <1>0, <1>16 DEF Spurious, DeviceTyped
  <2> QED
    BY <1>0, <1>16, <2>1, Stays, DriverStays DEF Spurious, drvVars
<1>17. ASSUME NEW t \in Threads, Fails(t) PROVE PlacesTyped' /\ DriverTyped' /\ DeviceTyped'
  BY <1>0, <1>17, MovesOn, DriverStays, DeviceStays DEF Fails, drvVars
<1> QED
  BY <1>1, <1>2, <1>3, <1>4, <1>5, <1>6, <1>7, <1>8, <1>9, <1>10, <1>11, <1>12, <1>13,
     <1>14, <1>15, <1>16, <1>17 DEF Next, Step, Hardware
-----------------------------------------------------------------------------
(* A step of the thread at the channel that leaves it there.               *)
LEMMA StaysAtChannel ==
    ASSUME PlacesTyped, OneInside, NEW t \in Threads, NEW l \in Inside \cup {"check", "next"},
           pc[t] \in Inside \cup {"check", "next"},
           pc' = [pc EXCEPT ![t] = l], lock' = lock,
           \A u \in Threads \ {t} : job'[u] = job[u],
           job'[t].op = job[t].op,
           l \in {"check", "next"} => job[t].op = "identify",
           l \in Inside => job'[t].dev \in Devices
    PROVE  OneInside'
<1>1. pc'[t] = l /\ \A u \in Threads \ {t} : pc'[u] = pc[u]
  BY DEF PlacesTyped
<1>2. \A u \in Threads : (Booting(u)' <=> Booting(u)) /\ (Transfers(u)' <=> Transfers(u))
  BY <1>1 DEF OneInside, Booting, Transfers, Inside
<1>3. "boot" \notin Inside \cup {"check", "next"}
  BY DEF Inside
<1>4. \A u \in Threads : Booting(u) => u = t
  BY <1>3 DEF OneInside
<1>5. \A u \in Threads : Booting(u)' => lock' = Nobody /\ \A v \in Threads \ {u} : pc'[v] = "boot"
  BY <1>1, <1>2, <1>4 DEF OneInside
<1>6. \A u \in Threads :
          /\ pc'[u] \in {"check", "next"} => job'[u].op = "identify"
          /\ pc'[u] \in Inside => job'[u].dev \in Devices
          /\ Transfers(u)' <=> lock' = u
  BY <1>1, <1>2 DEF OneInside, Inside
<1> QED
  BY <1>5, <1>6 DEF OneInside

LEMMA NobodyMoves ==
    ASSUME OneInside, pc' = pc, job' = job, lock' = lock PROVE OneInside'
BY DEF OneInside, Booting, Transfers

(* One thread is at the channel after every step.                          *)
LEMMA OneStep == ASSUME IInv, [Next]_vars PROVE OneInside'
<1> USE DEF At, Go
<1>0. PlacesTyped /\ DriverTyped /\ DeviceTyped /\ OneInside
  BY DEF IInv, TypeOK
<1>a. \A t \in Threads : pc[t] \notin {"boot", "idle", "lock"} => job[t] \in Jobs
  BY <1>0 DEF PlacesTyped
<1>1. CASE UNCHANGED <<pc, job, lock>>
  BY <1>0, <1>1, NobodyMoves
<1>2. ASSUME NEW t \in Threads, Call(t) PROVE OneInside'
  <2>1. pc'[t] = "lock" /\ lock' = lock /\ pc[t] = "idle" /\ job' = job
    BY <1>0, <1>2 DEF Call, PlacesTyped, drvVars
  <2>2. \A u \in Threads \ {t} : pc'[u] = pc[u]
    BY <1>0, <1>2 DEF Call, PlacesTyped
  <2>3. \A u \in Threads : ~Booting(u)
    BY <1>0, <2>1 DEF OneInside, Booting, Inside
  <2>4. \A u \in Threads : ~Booting(u)' /\ (Transfers(u)' <=> Transfers(u))
    BY <2>1, <2>2, <2>3 DEF Booting, Transfers, Inside
  <2> QED
    BY <1>0, <2>1, <2>2, <2>4 DEF OneInside, Inside
<1>3. ASSUME NEW t \in Threads, Acquire(t) PROVE OneInside'
  <2>1. PICK op \in {"read", "write"}, d \in Devices, sec \in Sectors, v \in Values :
             job' = [job EXCEPT ![t] = [op |-> op, dev |-> d, sec |-> sec, val |-> v]]
    BY <1>3 DEF Acquire
  <2>2. pc[t] = "lock" /\ pc'[t] = "select" /\ lock = Nobody /\ lock' = t
        /\ job'[t].op # "identify" /\ job'[t].dev \in Devices
    BY <1>0, <1>3, <2>1 DEF Acquire, LockIsFree, PlacesTyped
  <2>3. \A u \in Threads \ {t} : pc'[u] = pc[u] /\ job'[u] = job[u]
    BY <1>0, <1>3, <2>1 DEF Acquire, PlacesTyped
  <2>4. \A u \in Threads : ~Booting(u) /\ ~Transfers(u)
    BY <1>0, <2>2, DiskAssumption DEF OneInside, Booting, Inside
  <2>5. \A u \in Threads : ~Booting(u)' /\ (Transfers(u)' <=> u = t)
    BY <1>0, <2>2, <2>3, <2>4 DEF OneInside, Booting, Transfers, Inside
  <2> QED
    BY <1>0, <2>2, <2>3, <2>5 DEF OneInside, Inside
<1>4. ASSUME NEW t \in Threads, CheckDevices(t) PROVE OneInside'
  BY <1>0, <1>4, StaysAtChannel DEF CheckDevices, OneInside, Inside
<1>5. ASSUME NEW t \in Threads, NextDevice(t) PROVE OneInside'
  <2>1. pc[t] = "next" /\ job[t].op = "identify" /\ lock' = lock /\ Booting(t)
    BY <1>0, <1>5 DEF NextDevice, OneInside, drvVars, Booting
  <2>2. CASE job[t].dev \in Devices /\ pc' = [pc EXCEPT ![t] = "select"] /\ job' = job
    BY <1>0, <2>1, <2>2, StaysAtChannel DEF Inside
  <2>3. CASE job' = [job EXCEPT ![t].dev = job[t].dev + 1] /\ pc' = pc
    <3>1. pc' = [pc EXCEPT ![t] = "next"]
      BY <1>0, <2>1, <2>3 DEF PlacesTyped
    <3>2. job'[t].op = job[t].op /\ \A u \in Threads \ {t} : job'[u] = job[u]
      BY <1>0, <1>a, <2>1, <2>3 DEF PlacesTyped, Jobs
    <3> QED
      BY <1>0, <2>1, <3>1, <3>2, StaysAtChannel DEF Inside
  <2>4. CASE pc' = [u \in Threads |-> "idle"]
    <3>1. \A u \in Threads : ~Booting(u)' /\ ~Transfers(u)'
      BY <2>4 DEF Booting, Transfers, Inside
    <3>2. lock' = Nobody
      BY <1>0, <2>1 DEF OneInside
    <3> QED
      BY <2>4, <3>1, <3>2, DiskAssumption DEF OneInside, Inside
  <2> QED
    BY <1>5, <2>2, <2>3, <2>4 DEF NextDevice
<1>6. ASSUME NEW t \in Threads, Identified(t) PROVE OneInside'
  <2>1. job'[t].op = job[t].op /\ \A u \in Threads \ {t} : job'[u] = job[u]
    BY <1>0, <1>a, <1>6 DEF Identified, PlacesTyped, Jobs
  <2> QED
    BY <1>0, <1>6, <2>1, StaysAtChannel DEF Identified, Inside
<1>7. ASSUME NEW t \in Threads, Select(t) \/ SelectSector(t) PROVE OneInside'
  BY <1>0, <1>7, StaysAtChannel DEF Select, SelectSector, OneInside, Inside, drvVars
<1>8. ASSUME NEW t \in Threads, Issue(t) PROVE OneInside'
  BY <1>0, <1>8, StaysAtChannel DEF Issue, AfterIssue, OneInside, Inside
<1>9. ASSUME NEW t \in Threads, Down(t) PROVE OneInside'
  BY <1>0, <1>9, StaysAtChannel DEF Down, OneInside, Inside
<1>10. ASSUME NEW t \in Threads, InputSector(t) PROVE OneInside'
  <2>1. job'[t].op = job[t].op /\ job'[t].dev = job[t].dev
        /\ \A u \in Threads \ {t} : job'[u] = job[u]
    BY <1>0, <1>a, <1>10 DEF InputSector, PlacesTyped, Jobs
  <2> QED
    BY <1>0, <1>10, <2>1, StaysAtChannel DEF InputSector, OneInside, Inside, drvVars
<1>11. ASSUME NEW t \in Threads, OutputSector(t) PROVE OneInside'
  BY <1>0, <1>11, StaysAtChannel DEF OutputSector, OneInside, Inside, drvVars
<1>12. ASSUME NEW t \in Threads, Release(t) PROVE OneInside'
  <2>1. lock' = Nobody /\ pc[t] = "unlock" /\ pc'[t] = "idle"
        /\ \A u \in Threads \ {t} : pc'[u] = pc[u] /\ job'[u] = job[u]
    BY <1>0, <1>12 DEF Release, PlacesTyped
  <2>2. Booting(t) \/ lock = t
    BY <1>0, <2>1 DEF OneInside, Booting, Transfers, Inside
  <2> QED
    BY <1>0, <2>1, <2>2, DiskAssumption DEF OneInside, Booting, Transfers, Inside
<1>13. ASSUME NEW t \in Threads, Fails(t) PROVE OneInside'
  BY <1>0, <1>13, StaysAtChannel DEF Fails, OneInside, Inside, drvVars
<1> QED
  BY <1>1, <1>2, <1>3, <1>4, <1>5, <1>6, <1>7, <1>8, <1>9, <1>10, <1>11, <1>12, <1>13
  DEF Next, Step, Hardware, Transfer, Finish, Interrupt, Spurious, vars, drvVars
-----------------------------------------------------------------------------
(* A step that leaves the device, its registers and the places that see it *)
(* as they were.                                                           *)
LEMMA DeviceUnseen ==
    ASSUME DeviceAgrees, UNCHANGED <<hw, media, regs>>,
           \A u \in Threads : IF pc[u] \in {"issue", "down", "poll"}
                              THEN pc'[u] = pc[u] /\ job'[u] = job[u]
                              ELSE pc'[u] \notin {"issue", "down", "poll"}
    PROVE  DeviceAgrees'
BY ZenonT(30) DEF DeviceAgrees, Idle

(* A wait that ran out has run out.                                        *)
LEMMA LateIsLate == ASSUME [Next]_vars, ~late' PROVE ~late
BY DEF Next, Step, Hardware, Call, Acquire, CheckDevices, NextDevice, Identified, Select,
       SelectSector, WaitUntilIdle, Issue, Down, InputSector, OutputSector, Fails, Release,
       Transfer, Finish, Interrupt, Spurious, vars, devVars

(* The thread at the channel sees what the device is at.                   *)
LEMMA AgreeStep == ASSUME IInv, [Next]_vars, ~late' PROVE DeviceAgrees'
<1> USE DEF At, Go
<1>0. PlacesTyped /\ DriverTyped /\ DeviceTyped /\ OneInside /\ DeviceAgrees
  BY LateIsLate DEF IInv, TypeOK
<1>a. \A t \in Threads : pc[t] \notin {"boot", "idle", "lock"} => job[t] \in Jobs
  BY <1>0 DEF PlacesTyped
<1>b. \A t, u \in Threads : pc[t] \in Inside \cup {"check", "next"} /\ u # t
                            => pc[u] \notin {"issue", "down", "poll"}
  BY <1>0, OnlyOne DEF Inside
<1>c. Ready.state = "idle"
  BY DEF Ready
<1>1. CASE UNCHANGED <<pc, job, hw, media, regs>>
  BY <1>0, <1>1, DeviceUnseen
<1>2. ASSUME NEW t \in Threads, Call(t) \/ Acquire(t) \/ Release(t) PROVE DeviceAgrees'
  <2>1. pc[t] \notin {"issue", "down", "poll"} /\ pc'[t] \notin {"issue", "down", "poll"}
        /\ UNCHANGED <<hw, media, regs>>
    BY <1>0, <1>2 DEF Call, Acquire, Release, PlacesTyped, devVars
  <2>2. \A u \in Threads \ {t} : pc'[u] = pc[u] /\ job'[u] = job[u]
    BY <1>0, <1>2 DEF Call, Acquire, Release, PlacesTyped
  <2> QED
    BY <1>0, <2>1, <2>2, DeviceUnseen
<1>4. ASSUME NEW t \in Threads, CheckDevices(t) PROVE DeviceAgrees'
  <2>1. \A u \in Threads : pc[u] \notin {"issue", "down", "poll"}
    BY <1>b, <1>4 DEF CheckDevices
  <2>2. \A u \in Threads : pc'[u] \notin {"issue", "down", "poll"}
    BY <1>0, <1>4, <2>1 DEF CheckDevices, PlacesTyped
  <2> QED
    BY <1>0, <1>4, <2>1, <2>2 DEF CheckDevices, DeviceAgrees
<1>5. ASSUME NEW t \in Threads, NextDevice(t) PROVE DeviceAgrees'
  <2>1. \A u \in Threads : pc[u] \notin {"issue", "down", "poll"}
    BY <1>b, <1>5 DEF NextDevice
  <2>2. \A u \in Threads : pc'[u] \notin {"issue", "down", "poll"}
    BY <1>0, <1>5, <2>1 DEF NextDevice, PlacesTyped
  <2> QED
    BY <1>0, <1>5, <2>1, <2>2, DeviceUnseen DEF NextDevice, devVars
<1>6. ASSUME NEW t \in Threads, Identified(t) PROVE DeviceAgrees'
  <2>1. \A u \in Threads : pc'[u] \notin {"issue", "down", "poll"}
    BY <1>0, <1>b, <1>6 DEF Identified, PlacesTyped, Inside
  <2> QED
    BY <1>c, <1>6, <2>1 DEF Identified, DeviceAgrees
<1>7. ASSUME NEW t \in Threads, Select(t) PROVE DeviceAgrees'
  <2>1. \A u \in Threads : pc'[u] \notin {"issue", "down", "poll"}
    BY <1>0, <1>b, <1>7 DEF Select, PlacesTyped, Inside
  <2> QED
    BY <1>7, <2>1 DEF Select, WaitUntilIdle, Idle, DeviceAgrees
<1>8. ASSUME NEW t \in Threads, SelectSector(t) PROVE DeviceAgrees'
  <2>1. \A u \in Threads : IF u = t THEN pc'[u] = "issue" ELSE pc'[u] \notin {"issue", "down", "poll"}
    BY <1>0, <1>b, <1>8 DEF SelectSector, PlacesTyped, Inside
  <2> QED
    BY <1>8, <2>1 DEF SelectSector, WaitUntilIdle, Idle, DeviceAgrees, drvVars
<1>9. ASSUME NEW t \in Threads, Issue(t) PROVE DeviceAgrees'
  <2>1. \A u \in Threads : IF u = t THEN pc'[u] = (IF job[t].op = "write" THEN "poll" ELSE "down")
                                    ELSE pc'[u] \notin {"issue", "down", "poll"}
    BY <1>0, <1>b, <1>9 DEF Issue, AfterIssue, PlacesTyped, Inside
  <2>2. hw'.state = "command" /\ hw'.op = job[t].op /\ hw'.dev = job[t].dev /\ hw'.sec = job[t].sec
        /\ job' = job
    <3>1. regs = [dev |-> job[t].dev, sec |-> job[t].sec]
      BY <1>0, <1>9 DEF Issue, DeviceAgrees
    <3>2. Idle
      BY <1>0, <1>9 DEF Issue, DeviceAgrees
    <3> QED
      BY <1>9, <3>1, <3>2 DEF Issue
  <2> QED
    BY <2>1, <2>2 DEF DeviceAgrees, Idle
<1>10. ASSUME NEW t \in Threads, Down(t) PROVE DeviceAgrees'
  <2>1. \A u \in Threads : IF u = t THEN pc'[u] = (IF job[t].op = "write" THEN "unlock" ELSE "poll")
                                    ELSE pc'[u] \notin {"issue", "down", "poll"}
    BY <1>0, <1>b, <1>10 DEF Down, PlacesTyped, Inside
  <2>2. UNCHANGED <<hw, media, regs, job>> /\ pc[t] = "down"
    BY <1>10 DEF Down, devVars
  <2> QED
    BY <1>0, <2>1, <2>2 DEF DeviceAgrees, Idle
<1>11. ASSUME NEW t \in Threads, InputSector(t) PROVE DeviceAgrees'
  <2>1. \A u \in Threads : pc'[u] \notin {"issue", "down", "poll"}
    BY <1>0, <1>b, <1>11 DEF InputSector, PlacesTyped, Inside
  <2> QED
    BY <1>c, <1>11, <2>1 DEF InputSector, DeviceAgrees
<1>12. ASSUME NEW t \in Threads, OutputSector(t) PROVE DeviceAgrees'
  <2>1. \A u \in Threads : IF u = t THEN pc'[u] = "down" ELSE pc'[u] \notin {"issue", "down", "poll"}
    BY <1>0, <1>b, <1>12 DEF OutputSector, PlacesTyped, Inside
  <2>2. hw.op = job[t].op /\ hw.dev = job[t].dev /\ hw.sec = job[t].sec /\ job[t].op = "write"
    BY <1>0, <1>12 DEF OutputSector, DeviceAgrees, Idle
  <2>3. hw'.state = "writing" /\ hw'.op = hw.op /\ hw'.dev = hw.dev /\ hw'.sec = hw.sec /\ job' = job
    BY <1>0, <1>12 DEF OutputSector, DeviceTyped, Devs, drvVars
  <2> QED
    BY <2>1, <2>2, <2>3 DEF DeviceAgrees, Idle
<1>13. CASE Transfer
  <2>1. PICK t \in Threads : pc[t] \in {"down", "poll"}
    BY <1>0, <1>13 DEF Transfer, DeviceAgrees
  <2>2. \A u \in Threads \ {t} : pc[u] \notin {"issue", "down", "poll"}
    BY <1>b, <2>1 DEF Inside
  <2>3. hw.op = job[t].op /\ hw.dev = job[t].dev /\ hw.sec = job[t].sec /\ hw.state = "command"
        /\ pc' = pc /\ job' = job /\ media' = media
    BY <1>0, <1>13, <2>1 DEF Transfer, DeviceAgrees, Idle, drvVars
  <2>4. CASE hw' = [hw EXCEPT !.state = "data out"] /\ hw.op = "write"
    <3>1. hw'.state = "data out" /\ hw'.op = hw.op /\ hw'.dev = hw.dev /\ hw'.sec = hw.sec
      BY <1>0, <2>4 DEF DeviceTyped, Devs
    <3> QED
      BY <1>0, <2>1, <2>2, <2>3, <2>4, <3>1 DEF DeviceAgrees, Idle
  <2>5. CASE hw' = [hw EXCEPT !.state = "data in", !.val = media[hw.dev][hw.sec]] /\ hw.op # "write"
    <3>1. hw'.state = "data in" /\ hw'.op = hw.op /\ hw'.dev = hw.dev /\ hw'.sec = hw.sec
          /\ hw'.val = media[hw.dev][hw.sec]
      BY <1>0, <2>5 DEF DeviceTyped, Devs
    <3> QED
      BY <1>0, <2>1, <2>2, <2>3, <2>5, <3>1 DEF DeviceAgrees, Idle
  <2>6. CASE hw' = Ready /\ hw.op = "identify"
    BY <1>0, <1>c, <2>1, <2>2, <2>3, <2>6 DEF DeviceAgrees, Idle
  <2> QED
    BY <1>13, <2>4, <2>5, <2>6 DEF Transfer
<1>14. CASE Finish
  <2>1. hw'.state = "idle" /\ pc' = pc /\ job' = job /\ regs' = regs
    BY <1>c, <1>14 DEF Finish, drvVars
  <2> QED
    BY <1>0, <1>14, <2>1 DEF Finish, DeviceAgrees, Idle
<1>15. ASSUME NEW t \in Threads, Fails(t) PROVE DeviceAgrees'
  <2>1. job[t].op \in {"read", "write"} /\ pc[t] = "poll" /\ Idle
    BY <1>a, <1>15 DEF Fails, Jobs
  <2> QED
    BY <1>0, <2>1 DEF DeviceAgrees, Idle
<1> QED
  BY <1>1, <1>2, <1>4, <1>5, <1>6, <1>7, <1>8, <1>9, <1>10, <1>11, <1>12, <1>13, <1>14, <1>15
  DEF Next, Step, Hardware, Interrupt, Spurious, vars, drvVars
-----------------------------------------------------------------------------
(* A thread that goes to or comes from no place in which the device is     *)
(* waited for.                                                             *)
LEMMA AnswersUnseen ==
    ASSUME EveryAnswerTaken, UNCHANGED <<hw, irq, completion, late>>,
           expecting => expecting',
           \A u \in Threads : IF pc[u] \in {"down", "poll"}
                              THEN pc'[u] = pc[u] /\ job'[u] = job[u]
                              ELSE pc'[u] \notin {"down", "poll"}
    PROVE  EveryAnswerTaken'
BY ZenonT(30) DEF EveryAnswerTaken, Unanswered, Answered, Idle

(* Without interrupts for nothing every interrupt is that of a command.    *)
LEMMA AnswerStep == ASSUME IInv, [Next]_vars, spurious' = 0 PROVE EveryAnswerTaken'
<1> USE DEF At, Go
<1>0. PlacesTyped /\ DriverTyped /\ DeviceTyped /\ OneInside
  BY DEF IInv, TypeOK
<1>1. spurious = 0 /\ ~Spurious
  <2>1. spurious' = spurious \/ Spurious
    BY DEF Next, Step, Hardware, Call, Acquire, CheckDevices, NextDevice, Identified, Select,
       SelectSector, Issue, Down, InputSector, OutputSector, Fails, Release,
       Transfer, Finish, Interrupt, vars, devVars
  <2>2. ~Spurious
    BY <1>0 DEF Spurious, DeviceTyped
  <2> QED
    BY <2>1, <2>2
<1>2. EveryAnswerTaken /\ ~late /\ DeviceAgrees
  BY <1>1 DEF IInv, EveryAnswerTaken
<1>a. \A t \in Threads : pc[t] \notin {"boot", "idle", "lock"} => job[t] \in Jobs
  BY <1>0 DEF PlacesTyped
<1>b. \A t, u \in Threads : pc[t] \in Inside \cup {"check", "next"} /\ u # t
                            => pc[u] \notin {"down", "poll"}
  BY <1>0, OnlyOne DEF Inside
<1>c. Ready.state = "idle"
  BY DEF Ready
<1>d. \A t \in Threads : pc[t] \in Inside \cup {"check", "next"} /\ pc[t] \notin {"down", "poll"}
                         => Idle /\ Unanswered
  BY <1>b, <1>2 DEF EveryAnswerTaken
<1>3. CASE UNCHANGED <<pc, job, hw, irq, completion, late, expecting>>
  BY <1>2, <1>3, AnswersUnseen
<1>4. ASSUME NEW t \in Threads, Call(t) \/ Acquire(t) \/ Release(t) \/ CheckDevices(t) \/ NextDevice(t)
      PROVE EveryAnswerTaken'
  <2>1. pc[t] \notin {"down", "poll"}
    BY <1>4 DEF Call, Acquire, Release, CheckDevices, NextDevice
  <2>2. UNCHANGED <<hw, irq, completion, late, expecting>>
    BY <1>4 DEF Call, Acquire, Release, CheckDevices, NextDevice, devVars, drvVars
  <2>3. CASE pc' = [u \in Threads |-> "idle"]
    <3>1. \A u \in Threads : u # t => pc[u] \notin {"down", "poll"}
      BY <1>b, <1>4, <2>3, <1>0 DEF NextDevice, Call, Acquire, Release, CheckDevices, PlacesTyped
    <3> QED
      BY <1>2, <2>1, <2>2, <2>3, <3>1, AnswersUnseen
  <2>4. CASE pc' # [u \in Threads |-> "idle"]
    <3>1. pc'[t] \notin {"down", "poll"} /\ \A u \in Threads \ {t} : pc'[u] = pc[u]
      BY <1>0, <1>4, <2>4 DEF Call, Acquire, Release, CheckDevices, NextDevice, PlacesTyped
    <3>2. \A u \in Threads \ {t} : pc[u] \in {"down", "poll"} => job'[u] = job[u]
      BY <1>0, <1>4 DEF Call, Acquire, Release, CheckDevices, NextDevice, PlacesTyped
    <3> QED
      BY <1>2, <2>1, <2>2, <3>1, <3>2, AnswersUnseen
  <2> QED
    BY <2>3, <2>4
<1>5. ASSUME NEW t \in Threads, Select(t) \/ SelectSector(t) PROVE EveryAnswerTaken'
  <2>1. Idle /\ Unanswered
    BY <1>d, <1>5 DEF Select, SelectSector, Inside
  <2>2. UNCHANGED <<hw, irq, completion, late, expecting>>
    <3>1. irq \in BOOLEAN /\ irq' \in {irq, FALSE} /\ late' = late
      BY <1>0, <1>5, <2>1 DEF Select, SelectSector, WaitUntilIdle, StatusRead, DeviceTyped
    <3>2. irq' = irq
      BY <2>1, <3>1 DEF Unanswered
    <3> QED
      BY <1>5, <3>1, <3>2 DEF Select, SelectSector, drvVars
  <2>3. \A u \in Threads : pc[u] \notin {"down", "poll"} /\ pc'[u] \notin {"down", "poll"}
    BY <1>0, <1>b, <1>5 DEF Select, SelectSector, Inside, PlacesTyped
  <2> QED
    BY <1>2, <2>2, <2>3, AnswersUnseen
<1>6. ASSUME NEW t \in Threads, Issue(t) PROVE EveryAnswerTaken'
  <2>1. Idle /\ Unanswered
    BY <1>d, <1>6 DEF Issue, Inside
  <2>2. hw'.state = "command" /\ UNCHANGED <<irq, completion, late, job>> /\ expecting'
    BY <1>6, <2>1 DEF Issue
  <2>3. \A u \in Threads : IF u = t THEN pc'[u] = (IF job[t].op = "write" THEN "poll" ELSE "down")
                                    ELSE pc'[u] \notin {"down", "poll"}
    BY <1>0, <1>b, <1>6 DEF Issue, AfterIssue, PlacesTyped, Inside
  <2> QED
    BY <1>2, <2>1, <2>2, <2>3 DEF EveryAnswerTaken, Unanswered
<1>7. ASSUME NEW t \in Threads, Down(t) PROVE EveryAnswerTaken'
  <2>1. \A u \in Threads : IF u = t THEN pc'[u] = (IF job[t].op = "write" THEN "unlock" ELSE "poll")
                                    ELSE pc'[u] \notin {"down", "poll"}
    BY <1>0, <1>b, <1>7 DEF Down, PlacesTyped, Inside
  <2>2. UNCHANGED <<hw, irq, late, job>> /\ pc[t] = "down" /\ completion > 0
        /\ completion' = completion - 1 /\ expecting' = expecting
    BY <1>7 DEF Down, devVars
  <2>3. hw.state \in {"idle", "data in"} /\ Answered
    <3>1. completion # 0
      BY <1>0, <2>2 DEF DriverTyped
    <3>2. hw.state \notin {"command", "writing"}
      BY <1>2, <2>2, <3>1 DEF EveryAnswerTaken, Unanswered
    <3>3. job[t].op \in {"read", "write", "identify"}
      BY <1>a, <2>2 DEF Jobs
    <3>4. hw.state \in {"idle", "data in"}
      BY <1>2, <2>2, <3>2, <3>3 DEF DeviceAgrees
    <3> QED
      BY <1>2, <2>2, <3>4 DEF EveryAnswerTaken
  <2>4. Unanswered'
    <3>1. completion # 0 /\ irq' = irq
      BY <1>0, <1>7, <2>2 DEF DriverTyped, Down, devVars
    <3>2. ~irq /\ completion = 1
      BY <2>3, <3>1 DEF Answered
    <3>3. completion' = 0
      BY <2>2, <3>2
    <3> QED
      BY <3>1, <3>2, <3>3 DEF Unanswered
  <2>5. job[t].op = "write" => hw.state = "idle"
    BY <1>2, <2>2, <2>3 DEF DeviceAgrees
  <2> QED
    BY <1>2, <2>1, <2>2, <2>3, <2>4, <2>5 DEF EveryAnswerTaken, Idle
<1>8. ASSUME NEW t \in Threads, InputSector(t) \/ Identified(t) PROVE EveryAnswerTaken'
  <2>1. \A u \in Threads : pc'[u] \notin {"down", "poll"}
    BY <1>0, <1>b, <1>8 DEF InputSector, Identified, PlacesTyped, Inside
  <2>2. Unanswered /\ UNCHANGED <<irq, completion, late>> /\ hw' = Ready
    BY <1>2, <1>8 DEF InputSector, Identified, EveryAnswerTaken, drvVars
  <2> QED
    BY <1>2, <1>c, <2>1, <2>2 DEF EveryAnswerTaken, Idle, Unanswered
<1>9. ASSUME NEW t \in Threads, OutputSector(t) PROVE EveryAnswerTaken'
  <2>1. \A u \in Threads : IF u = t THEN pc'[u] = "down" ELSE pc'[u] \notin {"down", "poll"}
    BY <1>0, <1>b, <1>9 DEF OutputSector, PlacesTyped, Inside
  <2>2. Unanswered /\ UNCHANGED <<irq, completion, late, expecting>> /\ hw'.state = "writing"
    BY <1>0, <1>2, <1>9 DEF OutputSector, EveryAnswerTaken, drvVars, DeviceTyped, Devs
  <2>3. expecting
    BY <1>2, <1>9 DEF OutputSector, EveryAnswerTaken
  <2> QED
    BY <1>2, <2>1, <2>2, <2>3 DEF EveryAnswerTaken, Unanswered
<1>10. ASSUME NEW t \in Threads, Fails(t) PROVE EveryAnswerTaken'
  <2>1. job[t].op \in {"read", "write"} /\ pc[t] = "poll" /\ Idle
    BY <1>a, <1>10 DEF Fails, Jobs
  <2> QED
    BY <1>2, <2>1 DEF DeviceAgrees, Idle
<1>11. CASE Transfer
  <2>1. PICK t \in Threads : pc[t] \in {"down", "poll"}
    BY <1>2, <1>11 DEF Transfer, DeviceAgrees
  <2>2. \A u \in Threads \ {t} : pc[u] \notin {"down", "poll"}
    BY <1>b, <2>1 DEF Inside
  <2>3. hw.op = job[t].op /\ hw.state = "command" /\ pc' = pc /\ job' = job
        /\ UNCHANGED <<completion, expecting, late>>
    BY <1>2, <1>11, <2>1 DEF Transfer, DeviceAgrees, Idle, drvVars
  <2>4. CASE hw' = [hw EXCEPT !.state = "data out"] /\ hw.op = "write" /\ irq' = irq
    <3>1. hw'.state = "data out"
      BY <1>0, <2>4 DEF DeviceTyped, Devs
    <3>2. pc[t] = "poll"
      BY <1>2, <2>1, <2>3, <2>4 DEF DeviceAgrees
    <3> QED
      BY <1>2, <2>1, <2>2, <2>3, <2>4, <3>1, <3>2 DEF EveryAnswerTaken, Unanswered
  <2>5. CASE hw'.state \in {"data in", "idle"} /\ hw.op # "write" /\ irq' = TRUE
    <3>1. pc[t] = "down"
      BY <1>2, <2>1, <2>3, <2>5 DEF EveryAnswerTaken
    <3>2. Unanswered
      BY <1>2, <2>3, <3>1 DEF EveryAnswerTaken
    <3>3. Answered'
      BY <2>3, <2>5, <3>2 DEF Answered, Unanswered
    <3> QED
      BY <1>2, <2>1, <2>2, <2>3, <2>5, <3>1, <3>3 DEF EveryAnswerTaken
  <2>6. hw'.state = "data in" \/ hw' = Ready \/ hw' = [hw EXCEPT !.state = "data out"]
    BY <1>0, <1>11 DEF Transfer, DeviceTyped, Devs
  <2> QED
    BY <1>11, <1>c, <2>4, <2>5, <2>6, <1>0 DEF Transfer, DeviceTyped, Devs
<1>12. CASE Finish
  <2>1. hw.state = "writing" /\ hw'.state = "idle" /\ irq' = TRUE /\ pc' = pc /\ job' = job
        /\ UNCHANGED <<completion, expecting, late>>
    BY <1>c, <1>12 DEF Finish, drvVars
  <2>2. PICK t \in Threads : pc[t] \in {"down", "poll"}
    BY <1>2, <2>1 DEF EveryAnswerTaken, Idle
  <2>3. \A u \in Threads \ {t} : pc[u] \notin {"down", "poll"}
    BY <1>b, <2>2 DEF Inside
  <2>4. job[t].op = "write" /\ pc[t] = "down"
    BY <1>0, <1>a, <1>2, <2>1, <2>2 DEF DeviceAgrees, Jobs, Idle
  <2>5. Unanswered
    BY <1>2, <2>1, <2>4 DEF EveryAnswerTaken
  <2>6. Answered'
    BY <2>1, <2>5 DEF Answered, Unanswered
  <2> QED
    BY <1>2, <2>1, <2>2, <2>3, <2>4, <2>6 DEF EveryAnswerTaken
<1>13. CASE Interrupt
  <2>1. irq /\ ~irq' /\ pc' = pc /\ job' = job /\ UNCHANGED <<hw, expecting, late>>
        /\ completion' = IF expecting THEN completion + 1 ELSE completion
    BY <1>13 DEF Interrupt
  <2>2. PICK t \in Threads : pc[t] \in {"down", "poll"}
    BY <1>2, <2>1 DEF EveryAnswerTaken, Unanswered
  <2>3. \A u \in Threads \ {t} : pc[u] \notin {"down", "poll"}
    BY <1>b, <2>2 DEF Inside
  <2>4. pc[t] = "down" /\ expecting /\ hw.state \notin {"command", "writing"}
    BY <1>2, <2>1, <2>2 DEF EveryAnswerTaken, Unanswered
  <2>5. hw.state \in {"idle", "data in"}
    BY <1>0, <1>a, <1>2, <2>4 DEF DeviceAgrees, Jobs
  <2>6. Answered'
    <3>1. completion = 0
      BY <1>2, <2>1, <2>4, <2>5 DEF EveryAnswerTaken, Answered
    <3>2. completion' = 1
      BY <2>1, <2>4, <3>1
    <3> QED
      BY <2>1, <3>2 DEF Answered
  <2> QED
    BY <1>2, <2>1, <2>2, <2>3, <2>4, <2>5, <2>6 DEF EveryAnswerTaken
<1> QED
  BY <1>1, <1>3, <1>4, <1>5, <1>6, <1>7, <1>8, <1>9, <1>10, <1>11, <1>12, <1>13
  DEF Next, Step, Hardware, vars
-----------------------------------------------------------------------------
(* The inductive invariant of the channel, whether or not a wait for an    *)
(* idle device runs out (wait_until_idle of disk.c gives up after 10 ms).  *)
THEOREM ChannelInvariance == Spec => []IInv
<1>1. Init => IInv
  BY InitIInv
<1>2. IInv /\ [Next]_vars => IInv'
  <2> SUFFICES ASSUME IInv, [Next]_vars PROVE IInv'
    OBVIOUS
  <2>1. TypeOK' /\ OneInside'
    BY TypeStep, OneStep
  <2>2. late' \/ DeviceAgrees'
    BY AgreeStep
  <2>3. spurious' = 0 => EveryAnswerTaken'
    BY AnswerStep
  <2> QED
    BY <2>1, <2>2, <2>3 DEF IInv
<1> QED
  BY <1>1, <1>2, PTL DEF Spec

(* Until a wait runs out no command runs on another thread's device or     *)
(* sector, or is started on a device that is still at one; and no wait     *)
(* runs out unless an interrupt came for nothing, however slow the devices *)
(* are (disk_read and disk_write of disk.c).                               *)
THEOREM CommandsKeptApart == Spec => []CommandIsOwn
<1>1. IInv => CommandIsOwn
  <2> SUFFICES ASSUME IInv PROVE CommandIsOwn
    OBVIOUS
  <2>1. \A t \in Threads : pc[t] = "poll" => job[t].op \in {"read", "write", "identify"}
    BY DEF IInv, TypeOK, PlacesTyped, Jobs
  <2>2. ~late => Undisturbed
    BY <2>1 DEF IInv, DeviceAgrees, Undisturbed, At, Idle
  <2>3. late => spurious > 0
    BY DEF IInv, TypeOK, DeviceTyped, EveryAnswerTaken
  <2> QED
    BY <2>2, <2>3 DEF CommandIsOwn
<1> QED
  BY <1>1, ChannelInvariance, PTL
-----------------------------------------------------------------------------
(* What Store sees of a thread that calls disk_read or disk_write.         *)
LEMMA CalledIs ==
    ASSUME IInv, NEW t \in Threads, pc[t] \in Inside, job[t].op # "identify"
    PROVE  /\ job[t].op \in {"read", "write"} /\ job[t].dev \in Devices
           /\ job[t].sec \in Sectors /\ job[t].val \in Values
           /\ Called(t) = [op |-> job[t].op, dev |-> job[t].dev, sec |-> job[t].sec,
                           val |-> job[t].val,
                           done |-> pc[t] = "unlock" \/ (pc[t] = "down" /\ job[t].op = "write")]
           /\ Called(t) # NoCall
<1>1. job[t] \in Jobs /\ job[t].dev \in Devices
  BY DEF IInv, TypeOK, PlacesTyped, OneInside, Inside
<1>2. job[t] # NoCall
  BY <1>1, Constants
<1>3. job[t].op \in {"read", "write"} /\ job[t].sec \in Sectors /\ job[t].val \in Values
  BY <1>1 DEF Jobs
<1>4. Called(t) = [op |-> job[t].op, dev |-> job[t].dev, sec |-> job[t].sec, val |-> job[t].val,
                   done |-> pc[t] = "unlock" \/ (pc[t] = "down" /\ job[t].op = "write")]
  BY <1>2 DEF Called, At
<1>5. Called(t) \in [op : {"read", "write"}, dev : Devices, sec : Sectors, val : Values,
                     done : BOOLEAN]
  BY <1>1, <1>3, <1>4
<1> QED
  BY <1>1, <1>3, <1>4, <1>5, DiskAssumption

(* disk_init has no call in Store.                                         *)
LEMMA CalledNot ==
    ASSUME NEW t \in Threads, job[t] = NoCall \/ job[t].op = "identify"
    PROVE  Called(t) = NoCall
BY DEF Called

LEMMA CalledStays ==
    ASSUME NEW t \in Threads, pc'[t] = pc[t], job'[t] = job[t]
    PROVE  Called(t)' = Called(t)
BY DEF Called, At

LEMMA AcceptedTyped == ASSUME IInv PROVE Accepted \in [Devices -> [Sectors -> Values]]
<1>1. media \in [Devices -> [Sectors -> Values]] /\ hw.val \in Values
  BY DEF IInv, TypeOK, DeviceTyped, Devs
<1> QED
  BY <1>1 DEF Accepted

(* The sectors as Store sees them change only where a write begins.        *)
LEMMA AcceptedStays ==
    ASSUME media' = media, hw' = hw \/ (hw.state # "writing" /\ hw'.state # "writing")
    PROVE  Accepted' = Accepted
BY DEF Accepted

(* A step of which Store sees nothing.                                     *)
LEMMA Quiet ==
    ASSUME Accepted' = Accepted, \A t \in Threads : Called(t)' = Called(t)
    PROVE  UNCHANGED <<Accepted, [t \in Threads |-> Called(t)]>>
<1>1. [t \in Threads |-> Called(t)]' = [t \in Threads |-> Called(t)']
  OBVIOUS
<1> QED
  BY <1>1

LEMMA InitImplements == ASSUME Init PROVE S!Init
<1>1. Accepted \in [Devices -> [Sectors -> Values]]
  BY InitIInv, AcceptedTyped
<1>2. \A t \in Threads : Called(t) = NoCall
  BY DEF Init, Called
<1> QED
  BY <1>1, <1>2 DEF S!Init
(* Marking a call done.                                                    *)
LEMMA MarkDone ==
    ASSUME NEW op, NEW dev, NEW sec, NEW val, NEW a, NEW b \in BOOLEAN,
           NEW c, c = [op |-> op, dev |-> dev, sec |-> sec, val |-> val, done |-> a]
    PROVE  [c EXCEPT !.done = b] = [op |-> op, dev |-> dev, sec |-> sec, val |-> val, done |-> b]
OBVIOUS

(* Every step is a start, the effect or the return of one call, or nothing *)
(* to Store.                                                               *)
LEMMA StepImplements ==
    ASSUME IInv, IInv', [Next]_vars, ~late'
    PROVE  S!Next \/ UNCHANGED <<Accepted, [t \in Threads |-> Called(t)]>>
<1> USE DEF At, Go
<1>0. PlacesTyped /\ OneInside /\ DeviceAgrees /\ DeviceTyped
  BY LateIsLate DEF IInv, TypeOK
<1>a. \A t \in Threads : pc[t] \notin {"boot", "idle", "lock"} => job[t] \in Jobs
  BY <1>0 DEF PlacesTyped
<1>b. Ready.state = "idle"
  BY DEF Ready
<1> DEFINE Still(t) == \A u \in Threads \ {t} : pc'[u] = pc[u] /\ job'[u] = job[u]
           call == [u \in Threads |-> Called(u)]
<1>c. ASSUME NEW t \in Threads, Still(t)
      PROVE  \A u \in Threads \ {t} : Called(u)' = Called(u)
  BY <1>c, CalledStays
<1>d. \A t \in Threads :
          S!Do(t) <=>
            /\ call[t] # NoCall /\ ~call[t].done
            /\ IF call[t].op = "write"
               THEN /\ Accepted' = [Accepted EXCEPT ![call[t].dev][call[t].sec] = call[t].val]
                    /\ call' = [call EXCEPT ![t].done = TRUE]
               ELSE /\ call' = [call EXCEPT ![t].done = TRUE,
                                          ![t].val = Accepted[call[t].dev][call[t].sec]]
                    /\ Accepted' = Accepted
  BY DEF S!Do
<1>1. CASE UNCHANGED <<pc, job, media>> /\ Accepted' = Accepted
  BY <1>1, CalledStays, Quiet
<1>2. ASSUME NEW t \in Threads, Acquire(t) PROVE S!Next
  <2>1. PICK op \in {"read", "write"}, d \in Devices, sec \in Sectors, v \in Values :
             job' = [job EXCEPT ![t] = [op |-> op, dev |-> d, sec |-> sec, val |-> v]]
    BY <1>2 DEF Acquire
  <2> DEFINE c == [op |-> op, dev |-> d, sec |-> sec, val |-> v, done |-> FALSE]
  <2>2. pc[t] = "lock" /\ job[t] = NoCall /\ Still(t) /\ pc'[t] = "select"
        /\ job'[t] = [op |-> op, dev |-> d, sec |-> sec, val |-> v]
    BY <1>0, <1>2, <2>1 DEF Acquire, PlacesTyped
  <2>3. Called(t) = NoCall
    BY <2>2, CalledNot
  <2>4. job'[t] \in Jobs
    BY <2>2 DEF Jobs
  <2>5. job'[t] # NoCall
    BY <2>4, Constants
  <2>6. Called(t)' = c
    <3>1. (pc'[t] = "unlock" \/ (pc'[t] = "down" /\ job'[t].op = "write")) = FALSE
      BY <2>2
    <3>2. Called(t)' = [op |-> job'[t].op, dev |-> job'[t].dev, sec |-> job'[t].sec,
                        val |-> job'[t].val,
                        done |-> pc'[t] = "unlock" \/ (pc'[t] = "down" /\ job'[t].op = "write")]
      BY <2>2, <2>5 DEF Called
    <3>3. job'[t].op = op /\ job'[t].dev = d /\ job'[t].sec = sec /\ job'[t].val = v
      BY <2>2
    <3> QED
      BY <3>1, <3>2, <3>3, Zenon
  <2>7. c \in S!Calls
    BY DEF S!Calls
  <2>8. Accepted' = Accepted
    BY <1>2, AcceptedStays DEF Acquire, devVars
  <2>9. call' = [call EXCEPT ![t] = c]
    BY <1>c, <2>2, <2>6
  <2>10. S!Start(t)
    BY <2>3, <2>7, <2>8, <2>9 DEF S!Start
  <2> QED
    BY <2>10 DEF S!Next
<1>3. ASSUME NEW t \in Threads,
             Call(t) \/ Select(t) \/ SelectSector(t) \/ Issue(t) \/ Down(t)
      PROVE  UNCHANGED <<Accepted, call>>
  <2>1. Still(t) /\ job' = job /\ media' = media
    BY <1>0, <1>3 DEF Call, Select, SelectSector, Issue, Down, PlacesTyped, devVars, drvVars
  <2>2. hw' = hw \/ (hw.state # "writing" /\ hw'.state # "writing")
    <3>1. CASE Issue(t)
      <4>1. hw.state = "idle"
        BY <1>0, <3>1 DEF Issue, DeviceAgrees, Idle
      <4>2. hw'.state = "command"
        BY <3>1, <4>1 DEF Issue, Idle
      <4> QED
        BY <4>1, <4>2
    <3>2. CASE ~Issue(t)
      BY <1>3, <3>2 DEF Call, Select, SelectSector, Down, devVars
    <3> QED
      BY <3>1, <3>2
  <2>3. IF job[t].op = "write" /\ pc[t] = "down" THEN pc'[t] = "unlock"
        ELSE pc[t] \notin {"unlock"} /\ pc'[t] # "unlock"
             /\ (job[t].op = "write" => pc[t] # "down" /\ pc'[t] # "down")
    BY <1>0, <1>3 DEF Call, Select, SelectSector, Issue, AfterIssue, Down, PlacesTyped
  <2>4. Called(t)' = Called(t)
    BY <2>1, <2>3 DEF Called
  <2>5. Accepted' = Accepted
    BY <2>1, <2>2, AcceptedStays
  <2> QED
    BY <1>c, <2>1, <2>4, <2>5, Quiet
<1>4. ASSUME NEW t \in Threads, CheckDevices(t) \/ NextDevice(t) \/ Identified(t)
      PROVE  UNCHANGED <<Accepted, call>>
  <2>1. job[t].op = "identify" /\ pc[t] \in {"check", "next", "poll"} /\ job[t] \in Jobs
    BY <1>0, <1>a, <1>4 DEF CheckDevices, NextDevice, Identified, OneInside
  <2>2. (job'[t] = NoCall \/ job'[t].op = "identify") /\ \A u \in Threads \ {t} : job'[u] = job[u]
    BY <1>0, <1>4, <2>1 DEF CheckDevices, NextDevice, Identified, PlacesTyped, Jobs
  <2>3. Called(t) = NoCall /\ Called(t)' = NoCall
    BY <2>1, <2>2 DEF Called
  <2>4. \A u \in Threads \ {t} : pc[u] = "boot"
    BY <1>0, <2>1 DEF OneInside, Booting, Inside
  <2>5. \A u \in Threads \ {t} : job[u] = NoCall
    BY <1>0, <2>4 DEF PlacesTyped
  <2>6. \A u \in Threads : Called(u)' = Called(u)
    BY <2>2, <2>3, <2>5 DEF Called
  <2>7. media' = media /\ (hw' = hw \/ (hw.state # "writing" /\ hw'.state # "writing"))
    BY <1>b, <1>4 DEF CheckDevices, NextDevice, Identified, devVars, Busy
  <2> QED
    BY <2>6, <2>7, AcceptedStays, Quiet
<1>5. ASSUME NEW t \in Threads, InputSector(t) PROVE S!Next
  <2>1. pc[t] = "poll" /\ job[t].op = "read" /\ pc'[t] = "unlock" /\ Still(t)
        /\ job'[t] = [job[t] EXCEPT !.val = hw.val]
    BY <1>0, <1>5 DEF InputSector, PlacesTyped
  <2>2. hw.val = media[job[t].dev][job[t].sec] /\ hw.state = "data in"
    BY <1>0, <1>5 DEF InputSector, DeviceAgrees, Idle
  <2> DEFINE c == [op |-> "read", dev |-> job[t].dev, sec |-> job[t].sec, val |-> hw.val, done |-> TRUE]
  <2>3. job[t].dev \in Devices /\ job[t].sec \in Sectors /\ Called(t) # NoCall
        /\ Called(t) = [op |-> "read", dev |-> job[t].dev, sec |-> job[t].sec,
                        val |-> job[t].val, done |-> FALSE]
    BY <2>1, CalledIs DEF Inside
  <2>4. job'[t] = [op |-> "read", dev |-> job[t].dev, sec |-> job[t].sec, val |-> hw.val]
    BY <1>a, <2>1 DEF Jobs
  <2>5. job'[t] # NoCall
    BY <1>0, <2>1, <2>4, Constants DEF IInv, TypeOK, PlacesTyped
  <2>6. Called(t)' = c
    BY <2>1, <2>4, <2>5 DEF Called
  <2>7. Accepted' = Accepted
    BY <1>b, <1>5, <2>2, AcceptedStays DEF InputSector
  <2>8. hw.val = Accepted[job[t].dev][job[t].sec]
    BY <2>2, <2>3 DEF Accepted
  <2>9. call' = [call EXCEPT ![t] = [Called(t) EXCEPT !.done = TRUE, !.val = hw.val]]
    <3>1. [Called(t) EXCEPT !.done = TRUE, !.val = hw.val] = c
      <4>1. \A b \in BOOLEAN : [Called(t) EXCEPT !.done = b, !.val = hw.val]
              = [op |-> "read", dev |-> job[t].dev, sec |-> job[t].sec, val |-> hw.val, done |-> b]
        <5>1. ASSUME NEW b \in BOOLEAN
              PROVE  [Called(t) EXCEPT !.done = b]
                     = [op |-> "read", dev |-> job[t].dev, sec |-> job[t].sec,
                        val |-> job[t].val, done |-> b]
          BY <2>3, MarkDone
        <5>2. ASSUME NEW b
              PROVE  [[op |-> "read", dev |-> job[t].dev, sec |-> job[t].sec,
                       val |-> job[t].val, done |-> b] EXCEPT !.val = hw.val]
                     = [op |-> "read", dev |-> job[t].dev, sec |-> job[t].sec,
                        val |-> hw.val, done |-> b]
          OBVIOUS
        <5>3. ASSUME NEW b
              PROVE  [Called(t) EXCEPT !.done = b, !.val = hw.val]
                     = [[Called(t) EXCEPT !.done = b] EXCEPT !.val = hw.val]
          OBVIOUS
        <5> HIDE DEF Still, call
        <5> QED
          BY <5>1, <5>2, <5>3
      <4> QED
        BY <4>1, Zenon
    <3> QED
      BY <1>c, <2>1, <2>6, <3>1, ZenonT(30)
  <2>10. S!Do(t)
    <3>1. call[t] # NoCall /\ ~call[t].done /\ call[t].op = "read"
          /\ Accepted[call[t].dev][call[t].sec] = hw.val
      BY <2>3, <2>8
    <3>2. call' = [call EXCEPT ![t].done = TRUE, ![t].val = Accepted[call[t].dev][call[t].sec]]
      BY <2>9, <3>1
    <3> HIDE DEF call
    <3> QED
      BY <1>d, <2>7, <3>1, <3>2, Zenon
  <2> QED
    BY <2>10 DEF S!Next
<1>6. ASSUME NEW t \in Threads, OutputSector(t) PROVE S!Next
  <2>1. pc[t] = "poll" /\ job[t].op = "write" /\ pc'[t] = "down" /\ Still(t) /\ job' = job
        /\ media' = media
    BY <1>0, <1>6 DEF OutputSector, PlacesTyped, drvVars
  <2>2. hw.dev = job[t].dev /\ hw.sec = job[t].sec /\ hw.state = "data out"
    BY <1>0, <1>6 DEF OutputSector, DeviceAgrees, Idle
  <2>3. job[t].dev \in Devices /\ job[t].sec \in Sectors /\ Called(t) # NoCall
        /\ job[t].val \in Values
        /\ Called(t) = [op |-> "write", dev |-> job[t].dev, sec |-> job[t].sec,
                        val |-> job[t].val, done |-> FALSE]
    BY <2>1, CalledIs DEF Inside
  <2>4. Called(t)' = [op |-> "write", dev |-> job[t].dev, sec |-> job[t].sec,
                      val |-> job[t].val, done |-> TRUE]
    BY <2>1, <2>3 DEF Called
  <2>5. hw'.state = "writing" /\ hw'.dev = job[t].dev /\ hw'.sec = job[t].sec /\ hw'.val = job[t].val
    BY <1>0, <1>6, <2>2 DEF OutputSector, DeviceTyped, Devs
  <2>6. Accepted' = [Accepted EXCEPT ![job[t].dev][job[t].sec] = job[t].val]
    BY <2>1, <2>2, <2>3, <2>5 DEF Accepted
  <2>7. call' = [call EXCEPT ![t] = [Called(t) EXCEPT !.done = TRUE]]
    <3>1. [Called(t) EXCEPT !.done = TRUE]
          = [op |-> "write", dev |-> job[t].dev, sec |-> job[t].sec, val |-> job[t].val, done |-> TRUE]
      <4>1. \A b \in BOOLEAN : [Called(t) EXCEPT !.done = b]
              = [op |-> "write", dev |-> job[t].dev, sec |-> job[t].sec, val |-> job[t].val, done |-> b]
        BY <2>3, MarkDone
      <4> QED
        BY <4>1, Zenon
    <3> QED
      BY <1>c, <2>1, <2>4, <3>1
  <2>8. S!Do(t)
    <3>1. call[t] # NoCall /\ ~call[t].done /\ call[t].op = "write" /\ call[t].dev = job[t].dev
          /\ call[t].sec = job[t].sec /\ call[t].val = job[t].val
      BY <2>3
    <3>2. call' = [call EXCEPT ![t].done = TRUE]
      BY <2>7
    <3> HIDE DEF call
    <3> QED
      BY <1>d, <2>6, <3>1, <3>2, Zenon
  <2> QED
    BY <2>8 DEF S!Next
<1>7. ASSUME NEW t \in Threads, Release(t) PROVE S!Next \/ UNCHANGED <<Accepted, call>>
  <2>1. pc[t] = "unlock" /\ Still(t) /\ job'[t] = NoCall
    BY <1>0, <1>7 DEF Release, PlacesTyped
  <2>2. Called(t)' = NoCall
    BY <2>1 DEF Called
  <2>3. Accepted' = Accepted
    BY <1>7, AcceptedStays DEF Release, devVars
  <2>4. call' = [call EXCEPT ![t] = NoCall]
    BY <1>c, <2>1, <2>2
  <2>5. CASE job[t].op = "identify"
    <3>1. Called(t) = NoCall
      BY <2>5 DEF Called
    <3> QED
      BY <1>c, <2>1, <2>2, <2>3, <3>1, Quiet
  <2>6. CASE job[t].op # "identify"
    <3>1. Called(t) # NoCall /\ Called(t).done
      <4>1. Called(t) # NoCall
            /\ Called(t) = [op |-> job[t].op, dev |-> job[t].dev, sec |-> job[t].sec,
                            val |-> job[t].val,
                            done |-> pc[t] = "unlock" \/ (pc[t] = "down" /\ job[t].op = "write")]
        BY <2>1, <2>6, CalledIs DEF Inside
      <4>2. (pc[t] = "unlock" \/ (pc[t] = "down" /\ job[t].op = "write")) = TRUE
        BY <2>1
      <4>3. Called(t) = [op |-> job[t].op, dev |-> job[t].dev, sec |-> job[t].sec,
                        val |-> job[t].val, done |-> TRUE]
        BY <4>1, <4>2, Zenon
      <4> QED
        BY <4>1, <4>3
    <3>2. S!Return(t)
      BY <2>3, <2>4, <3>1 DEF S!Return
    <3> QED
      BY <3>2 DEF S!Next
  <2> QED
    BY <2>5, <2>6
<1>8. CASE Transfer
  <2>1. hw'.state # "writing" /\ hw.state # "writing" /\ UNCHANGED <<pc, job, media>>
    BY <1>0, <1>b, <1>8 DEF Transfer, DeviceTyped, Devs, drvVars
  <2> QED
    BY <1>1, <2>1, AcceptedStays
<1>9. CASE Finish
  <2>1. UNCHANGED <<pc, job>> /\ hw.state = "writing" /\ hw'.state = "idle"
        /\ media' = [media EXCEPT ![hw.dev][hw.sec] = hw.val]
    BY <1>b, <1>9 DEF Finish, drvVars
  <2>2. Accepted' = Accepted
    BY <1>0, <2>1 DEF Accepted, DeviceTyped, Devs
  <2> QED
    BY <2>1, <2>2, CalledStays, Quiet
<1>10. CASE UNCHANGED <<pc, job, media, hw>>
  BY <1>1, <1>10, AcceptedStays
<1>11. ASSUME NEW t \in Threads, Fails(t) PROVE FALSE
  <2>1. job[t].op \in {"read", "write"} /\ pc[t] = "poll" /\ Idle
    BY <1>a, <1>11 DEF Fails, Jobs
  <2> QED
    BY <1>0, <2>1 DEF DeviceAgrees, Idle
<1> QED
  BY <1>2, <1>3, <1>4, <1>5, <1>6, <1>7, <1>8, <1>9, <1>10, <1>11
  DEF Next, Step, Hardware, Interrupt, Spurious, vars, drvVars

(* Until a wait runs out every read and write of a sector takes effect     *)
(* once, as a whole, on the sector it names, between its start and its     *)
(* return (disk.c).                                                        *)
THEOREM DiskIsStore == Spec => ImplementsStore
<1>1. Init => S!Init
  BY InitImplements
<1>2. IInv /\ IInv' /\ [Next]_vars => [late' \/ [S!Next]_(S!vars)]_vars
  <2> SUFFICES ASSUME IInv, IInv', [Next]_vars, ~late'
               PROVE  S!Next \/ UNCHANGED S!vars
    OBVIOUS
  <2> QED
    BY StepImplements DEF S!vars
<1> QED
  BY <1>1, <1>2, ChannelInvariance, PTL DEF Spec, ImplementsStore
-----------------------------------------------------------------------------
(* The page tables.                                                        *)

(* The table of level l on the way from the top table of p to the entry of v, or None. *)
Node(tb, tops, p, v, l) ==
    CASE l = 4 -> tops[p]
      [] l = 3 -> Child(tb, tops[p], v, 4)
      [] l = 2 -> Child(tb, Child(tb, tops[p], v, 4), v, 3)
      [] l = 1 -> Walk(tb, tops[p], v)

\* The pages that share the table of level l.
Same(v, w, l) == \A m \in (l + 1)..4 : Index(v, m) = Index(w, m)

UserFlags == SUBSET (Flags \cup {"P"})
TableEntries == {TableEntry(k) : k \in Pages}
PageEntries == [to : Frames, flags : UserFlags]

Typed(fr, tb, tops) ==
    /\ fr \subseteq Pages /\ tops \in [Procs -> Pages \cup {None}]
    /\ tb \in [Pages -> [Indices -> TableEntries \cup PageEntries \cup {None}]]

\* What a path meets is in use, each table in one place of one process's tree,
\* and nothing else is in use.
InUse(fr, tb, tops) == \A p \in Procs, v \in VAs, l \in 1..4 :
    Node(tb, tops, p, v, l) # None => Node(tb, tops, p, v, l) \in Pages \ fr
Apart(tb, tops) == \A p, q \in Procs, v, w \in VAs, l, m \in 1..4 :
    Node(tb, tops, p, v, l) # None /\ Node(tb, tops, p, v, l) = Node(tb, tops, q, w, m)
    => p = q /\ l = m /\ Same(v, w, l)
NoLeak(fr, tb, tops) == \A k \in Pages \ fr : \E p \in Procs, v \in VAs, l \in 1..4 :
    Node(tb, tops, p, v, l) = k

\* An entry that is not 0 is on the path of a user page, leads to a table at
\* the levels above the last, and to a frame at the last.
OnPath(tb, tops) == \A p \in Procs, v \in VAs, l \in 1..4, i \in Indices :
    Node(tb, tops, p, v, l) # None /\ tb[Node(tb, tops, p, v, l)][i] # None
    => \E w \in VAs : Same(v, w, l) /\ Index(w, l) = i
ToTable(tb, tops) == \A p \in Procs, v \in VAs, l \in 2..4 :
    Node(tb, tops, p, v, l) # None
    => tb[Node(tb, tops, p, v, l)][Index(v, l)] \in TableEntries \cup {None}
ToFrame(tb, tops) == \A p \in Procs, v \in VAs :
    Node(tb, tops, p, v, 1) # None
    => tb[Node(tb, tops, p, v, 1)][Index(v, 1)] \in PageEntries \cup {None}

Good(fr, tb, tops) ==
    /\ Typed(fr, tb, tops) /\ InUse(fr, tb, tops) /\ Apart(tb, tops) /\ NoLeak(fr, tb, tops)
    /\ OnPath(tb, tops) /\ ToTable(tb, tops) /\ ToFrame(tb, tops)

\* The inductive invariant: the tables are good, whatever the walk met, and
\* every frame is free or mapped once.
TablesInv == Good(free, table, pml4) /\ pool \subseteq Frames /\ FramesAreOwned

-----------------------------------------------------------------------------
\* NextFree is a free page.
LEMMA FirstOf ==
    ASSUME NEW X \in SUBSET Nat, X # {}
    PROVE  NextFree(X) \in X
<1>1. PICK k \in X : \A j \in X : <<j, k>> \notin OpToRel(<, Nat)
  BY NatLessThanWellFounded, WFMin
<1>2. ASSUME NEW j \in X PROVE k <= j
  <2>1. <<j, k>> \in Nat \X Nat /\ OpToRel(<, Nat) = {ss \in Nat \X Nat : ss[1] < ss[2]}
    BY DEF OpToRel
  <2>2. ~(j < k)
    BY <1>1, <2>1
  <2> QED
    BY <2>2
<1> QED
  BY <1>2 DEF NextFree

\* What the assumption says, as the steps below need it.
LEMMA TableConstants ==
    ASSUME PageTableAssumption
    PROVE  /\ None \notin Pages /\ None \notin Frames
           /\ None \notin TableEntries /\ None \notin PageEntries
           /\ \A v \in VAs, l \in 1..4 : Index(v, l) \in Indices /\ Index(v, l) = v[5 - l]
           /\ \A v, w \in VAs : (\A l \in 1..4 : Index(v, l) = Index(w, l)) => v = w
<1> USE DEF PageTableAssumption
<1>1. None \notin TableEntries
  <2> SUFFICES ASSUME NEW k \in Pages PROVE TableEntry(k) # None
    BY DEF TableEntries
  <2>1. TableEntry(k) \in [to : Nat, flags : SUBSET (Flags \cup {"P"})]
    BY DEF TableEntry
  <2> QED
    BY <2>1
<1>2. None \notin PageEntries
  BY DEF PageEntries, UserFlags
<1>3. \A v \in VAs, l \in 1..4 : Index(v, l) \in Indices
  BY DEF Index, Indices
<1>4. ASSUME NEW v \in VAs, NEW w \in VAs, \A l \in 1..4 : Index(v, l) = Index(w, l)
      PROVE  v = w
  <2>1. \A m \in 1..4 : 5 - m \in 1..4 /\ 5 - (5 - m) = m
    OBVIOUS
  <2>2. \A m \in 1..4 : v[m] = w[m]
    BY <1>4, <2>1 DEF Index
  <2>3. v \in [1..4 -> Nat] /\ w \in [1..4 -> Nat]
    OBVIOUS
  <2> QED
    BY <2>2, <2>3
<1> QED
  BY <1>1, <1>2, <1>3, <1>4 DEF Index

LEMMA NodeDown ==
    ASSUME NEW tb, NEW tops, NEW p, NEW v, NEW l \in 2..4
    PROVE  Node(tb, tops, p, v, l - 1) = Child(tb, Node(tb, tops, p, v, l), v, l)
<1>1. CASE l = 4
  BY <1>1 DEF Node
<1>2. CASE l = 3
  BY <1>2 DEF Node
<1>3. CASE l = 2
  BY <1>3 DEF Node, Walk
<1> QED
  BY <1>1, <1>2, <1>3

LEMMA NodeTop ==
    ASSUME NEW tb, NEW tops, NEW p, NEW v
    PROVE  Node(tb, tops, p, v, 4) = tops[p] /\ Node(tb, tops, p, v, 1) = Walk(tb, tops[p], v)
BY DEF Node

\* Sharing a table is an equivalence, and finer one level down.
LEMMA SameIs ==
    ASSUME NEW v, NEW w, NEW l \in 1..4
    PROVE  /\ Same(v, v, l) /\ Same(v, w, 4)
           /\ Same(v, w, l) <=> Same(w, v, l)
           /\ \A x : Same(v, w, l) /\ Same(w, x, l) => Same(v, x, l)
           /\ l > 1 => (Same(v, w, l - 1) <=> Same(v, w, l) /\ Index(v, l) = Index(w, l))
<1>1. l > 1 => l..4 = {l} \cup ((l + 1)..4)
  OBVIOUS
<1>2. l > 1 => (l - 1) + 1 = l
  OBVIOUS
<1>3. l > 1 => (Same(v, w, l - 1) <=> Same(v, w, l) /\ Index(v, l) = Index(w, l))
  BY <1>1, <1>2 DEF Same
<1>4. Same(v, w, 4)
  BY DEF Same
<1> QED
  BY <1>3, <1>4 DEF Same

LEMMA SameNode ==
    ASSUME NEW tb, NEW tops, NEW p, NEW v, NEW w, NEW l \in 1..4, Same(v, w, l)
    PROVE  Node(tb, tops, p, v, l) = Node(tb, tops, p, w, l)
<1> DEFINE A(x, m) == Node(tb, tops, p, x, m)
<1>1. A(v, 4) = A(w, 4)
  BY NodeTop
<1>2. ASSUME NEW m \in 2..4, A(v, m) = A(w, m), Index(v, m) = Index(w, m)
      PROVE  A(v, m - 1) = A(w, m - 1)
  BY <1>2, NodeDown DEF Child
<1>3. \A m \in 1..4 : m > l => Index(v, m) = Index(w, m)
  BY DEF Same
<1>4. l <= 3 => A(v, 3) = A(w, 3)
  BY <1>1, <1>2, <1>3, 4 \in 2..4, 4 - 1 = 3
<1>5. l <= 2 => A(v, 2) = A(w, 2)
  BY <1>4, <1>2, <1>3, 3 \in 2..4, 3 - 1 = 2
<1>6. l <= 1 => A(v, 1) = A(w, 1)
  BY <1>5, <1>2, <1>3, 2 \in 2..4, 2 - 1 = 1
<1> QED
  BY <1>1, <1>4, <1>5, <1>6

LEMMA SameAll ==
    ASSUME PageTableAssumption, NEW v \in VAs, NEW w \in VAs, Same(v, w, 1),
           Index(v, 1) = Index(w, 1)
    PROVE  v = w
BY TableConstants DEF Same
-----------------------------------------------------------------------------
(* A table that is allocated is entered empty.                             *)
Entering(fr, tb, tops, p, v, l, k, nb) ==
    /\ Good(fr, tb, tops) /\ p \in Procs /\ v \in VAs /\ l \in 2..4 /\ k \in fr
    /\ Node(tb, tops, p, v, l) # None /\ ~Present(tb[Node(tb, tops, p, v, l)][Index(v, l)])
    /\ nb = [tb EXCEPT ![k] = Zero, ![Node(tb, tops, p, v, l)][Index(v, l)] = TableEntry(k)]

\* The places in the new tree: the new table, with what shares it, below t.
EnteredNode(tb, tops, p, v, l, k, q, w, m) ==
    IF q = p /\ m = l - 1 /\ Same(v, w, l - 1) THEN k ELSE Node(tb, tops, q, w, m)

LEMMA DownEntered ==
    ASSUME PageTableAssumption, NEW fr, NEW tb, NEW tops, NEW p, NEW v, NEW l, NEW k, NEW nb,
           Entering(fr, tb, tops, p, v, l, k, nb),
           NEW q \in Procs, NEW w \in VAs, NEW m \in 2..4,
           Node(nb, tops, q, w, m) = EnteredNode(tb, tops, p, v, l, k, q, w, m)
    PROVE  Node(nb, tops, q, w, m - 1) = EnteredNode(tb, tops, p, v, l, k, q, w, m - 1)
<1> DEFINE t == Node(tb, tops, p, v, l)
           u == Node(tb, tops, q, w, m)
           i == Index(v, l)
           j == Index(w, m)
<1>a. /\ Good(fr, tb, tops) /\ p \in Procs /\ v \in VAs /\ l \in 2..4 /\ k \in fr
      /\ t # None /\ ~Present(tb[t][i])
      /\ nb = [tb EXCEPT ![k] = Zero, ![t][i] = TableEntry(k)]
  BY DEF Entering
<1> USE <1>a
<1>0. /\ k \in Pages /\ k # None /\ t \in Pages \ fr /\ t # k
      /\ i \in Indices /\ j \in Indices /\ tb \in [Pages -> [Indices -> TableEntries \cup PageEntries \cup {None}]]
  BY TableConstants DEF Good, Typed, InUse
<1>1. /\ nb[k] = Zero
      /\ nb[t] = [tb[t] EXCEPT ![i] = TableEntry(k)]
      /\ \A x \in Pages : x # t /\ x # k => nb[x] = tb[x]
  BY <1>0
<1>2. Node(nb, tops, q, w, m - 1) = Child(nb, Node(nb, tops, q, w, m), w, m)
      /\ Node(tb, tops, q, w, m - 1) = Child(tb, u, w, m)
  BY NodeDown
<1> SUFFICES Node(nb, tops, q, w, m - 1) = IF q = p /\ m = l /\ Same(v, w, l - 1) THEN k
                                         ELSE Node(tb, tops, q, w, m - 1)
  BY DEF EnteredNode
<1>b. Node(nb, tops, q, w, m) = IF q = p /\ m = l - 1 /\ Same(v, w, l - 1) THEN k ELSE u
  BY DEF EnteredNode
<1> USE <1>b
<1>3. CASE q = p /\ m = l - 1 /\ Same(v, w, l - 1)
  <2>1. Child(nb, k, w, m) = None
    BY <1>0, <1>1 DEF Child, Zero, Present
  <2>2. u = Node(tb, tops, p, v, l - 1)
    BY <1>3, SameNode, l - 1 \in 1..4
  <2>3. u = None
    BY <2>2, NodeDown DEF Child
  <2>4. Child(tb, u, w, m) = None
    BY <2>3 DEF Child
  <2> QED
    BY <1>2, <1>3, <2>1, <2>4
<1>4. CASE ~(q = p /\ m = l - 1 /\ Same(v, w, l - 1)) /\ u = None
  <2>1. ~(q = p /\ m = l /\ Same(v, w, l - 1))
    <3> SUFFICES ASSUME q = p, m = l, Same(v, w, l - 1) PROVE FALSE
      OBVIOUS
    <3>1. Same(v, w, l)
      BY SameIs
    <3> QED
      BY <3>1, <1>4, SameNode
  <2> QED
    BY <1>2, <1>4, <2>1 DEF Child
<1>5. CASE ~(q = p /\ m = l - 1 /\ Same(v, w, l - 1)) /\ u # None /\ u = t
  <2>1. q = p /\ m = l /\ Same(v, w, l)
    BY <1>5, SameIs DEF Good, Apart
  <2>2. CASE j = i
    <3>1. Same(v, w, l - 1)
      BY <2>1, <2>2, SameIs
    <3>2. nb[u][j] = TableEntry(k)
      BY <1>0, <1>1, <1>5, <2>2
    <3>3. Child(nb, u, w, m) = k
      <4>1. TableEntry(k) # None
        BY <1>0, TableConstants DEF TableEntries
      <4>2. Present(TableEntry(k)) /\ TableEntry(k).to = k
        BY <4>1 DEF Present, TableEntry
      <4> QED
        BY <3>2, <4>2, <1>5 DEF Child
    <3> QED
      BY <1>2, <1>5, <2>1, <3>1, <3>3
  <2>3. CASE j # i
    <3>1. ~Same(v, w, l - 1)
      BY <2>1, <2>3, SameIs
    <3>2. nb[u][j] = tb[u][j]
      BY <1>0, <1>1, <1>5, <2>3
    <3> QED
      BY <1>2, <1>5, <3>1, <3>2 DEF Child
  <2> QED
    BY <2>2, <2>3
<1>6. CASE ~(q = p /\ m = l - 1 /\ Same(v, w, l - 1)) /\ u # None /\ u # t
  <2>1. u \in Pages \ fr /\ nb[u] = tb[u]
    BY <1>0, <1>1, <1>6 DEF Good, InUse
  <2>2. ~(q = p /\ m = l /\ Same(v, w, l - 1))
    BY <1>6, SameIs, SameNode
  <2> QED
    BY <1>2, <1>6, <2>1, <2>2 DEF Child
<1> QED
  BY <1>3, <1>4, <1>5, <1>6

LEMMA NodeEntered ==
    ASSUME PageTableAssumption, NEW fr, NEW tb, NEW tops, NEW p, NEW v, NEW l, NEW k, NEW nb,
           Entering(fr, tb, tops, p, v, l, k, nb),
           NEW q \in Procs, NEW w \in VAs, NEW m \in 1..4
    PROVE  Node(nb, tops, q, w, m) = EnteredNode(tb, tops, p, v, l, k, q, w, m)
<1> DEFINE New(n) == Node(nb, tops, q, w, n) = EnteredNode(tb, tops, p, v, l, k, q, w, n)
<1>1. New(4)
  <2>1. l \in 2..4
    BY DEF Entering
  <2> QED
    BY <2>1, NodeTop DEF EnteredNode
<1>2. \A n \in 2..4 : New(n) => New(n - 1)
  BY DownEntered
<1>3. New(3)
  BY <1>1, <1>2, 4 \in 2..4, 4 - 1 = 3
<1>4. New(2)
  BY <1>3, <1>2, 3 \in 2..4, 3 - 1 = 2
<1>5. New(1)
  BY <1>4, <1>2, 2 \in 2..4, 2 - 1 = 1
<1>6. m = 1 \/ m = 2 \/ m = 3 \/ m = 4
  OBVIOUS
<1> QED
  BY <1>1, <1>3, <1>4, <1>5, <1>6

\* The entry of page w of process q.
EntryAt(tb, tops, q, w) ==
    IF Node(tb, tops, q, w, 1) = None THEN None ELSE tb[Node(tb, tops, q, w, 1)][Index(w, 1)]

Entered(fr, tb, tops, p, v, l, k, nb) ==
    /\ Good(fr \ {k}, nb, tops)
    /\ Node(nb, tops, p, v, l - 1) = k
    /\ \A q \in Procs, w \in VAs : EntryAt(nb, tops, q, w) = EntryAt(tb, tops, q, w)

LEMMA EnterGood ==
    ASSUME PageTableAssumption, NEW fr, NEW tb, NEW tops, NEW p, NEW v, NEW l, NEW k, NEW nb,
           Entering(fr, tb, tops, p, v, l, k, nb)
    PROVE  Entered(fr, tb, tops, p, v, l, k, nb)
<1> DEFINE t == Node(tb, tops, p, v, l)
           i == Index(v, l)
           A(q, w, m) == Node(tb, tops, q, w, m)
           N(q, w, m) == Node(nb, tops, q, w, m)
           Is(q, w, m) == q = p /\ m = l - 1 /\ Same(v, w, l - 1)
<1>a. /\ Good(fr, tb, tops) /\ p \in Procs /\ v \in VAs /\ l \in 2..4 /\ k \in fr
      /\ t # None /\ ~Present(tb[t][i])
      /\ nb = [tb EXCEPT ![k] = Zero, ![t][i] = TableEntry(k)]
  BY DEF Entering
<1>0. /\ k \in Pages /\ k # None /\ t \in Pages \ fr /\ t # k /\ l - 1 \in 1..3 /\ l \in 1..4
      /\ i \in Indices /\ tb \in [Pages -> [Indices -> TableEntries \cup PageEntries \cup {None}]]
  BY <1>a, TableConstants DEF Good, Typed, InUse
<1>b. l - 1 \in 1..4
  BY <1>0
<1>1. /\ nb[k] = Zero
      /\ nb[t] = [tb[t] EXCEPT ![i] = TableEntry(k)]
      /\ \A x \in Pages : x # t /\ x # k => nb[x] = tb[x]
  BY <1>0, <1>a
<1>2. \A q \in Procs, w \in VAs, m \in 1..4 : N(q, w, m) = IF Is(q, w, m) THEN k ELSE A(q, w, m)
  <2> SUFFICES ASSUME NEW q \in Procs, NEW w \in VAs, NEW m \in 1..4
               PROVE  N(q, w, m) = IF Is(q, w, m) THEN k ELSE A(q, w, m)
    OBVIOUS
  <2>1. Node(nb, tops, q, w, m) = EnteredNode(tb, tops, p, v, l, k, q, w, m)
    BY NodeEntered
  <2> QED
    BY <2>1 DEF EnteredNode
<1>3. \A q \in Procs, w \in VAs, m \in 1..4 : A(q, w, m) # None => A(q, w, m) \in Pages \ fr
  BY <1>a DEF Good, InUse
<1>4. \A q \in Procs, w \in VAs, m \in 1..4 : Is(q, w, m) => A(q, w, m) = None
  <2> SUFFICES ASSUME NEW w \in VAs, Same(v, w, l - 1) PROVE A(p, w, l - 1) = None
    OBVIOUS
  <2>1. A(p, v, l - 1) = None
    BY <1>a, NodeDown DEF Child
  <2> QED
    BY <2>1, <1>b, <1>a, SameNode
<1>5. Is(p, v, l - 1)
  BY <1>0, SameIs, l - 1 \in 1..4
<1> HIDE DEF A, N, Is, t, i
<1>6. Typed(fr \ {k}, nb, tops)
  <2>1. TableEntry(k) \in TableEntries /\ Zero \in [Indices -> TableEntries \cup PageEntries \cup {None}]
    BY <1>0 DEF TableEntries, Zero
  <2>2. nb \in [Pages -> [Indices -> TableEntries \cup PageEntries \cup {None}]]
    BY <2>1, <1>0, <1>a
  <2> QED
    BY <1>a, <2>2 DEF Good, Typed
<1>7. InUse(fr \ {k}, nb, tops)
  <2> SUFFICES ASSUME NEW q \in Procs, NEW w \in VAs, NEW m \in 1..4, N(q, w, m) # None
               PROVE  N(q, w, m) \in Pages \ (fr \ {k})
    BY DEF InUse, N
  <2> QED
    BY <1>0, <1>2, <1>3
<1>8. Apart(nb, tops)
  <2> SUFFICES ASSUME NEW q \in Procs, NEW r \in Procs, NEW w \in VAs, NEW x \in VAs,
                      NEW m \in 1..4, NEW n \in 1..4,
                      N(q, w, m) # None, N(q, w, m) = N(r, x, n)
               PROVE  q = r /\ m = n /\ Same(w, x, m)
    BY DEF Apart, N
  <2>1. CASE Is(q, w, m) /\ Is(r, x, n)
    BY <2>1, <1>0, SameIs DEF Is
  <2>2. CASE ~Is(q, w, m) /\ ~Is(r, x, n)
    <3>1. A(q, w, m) # None /\ A(q, w, m) = A(r, x, n)
      BY <2>2, <1>2
    <3> QED
      BY <1>a, <3>1 DEF Good, Apart, A
  <2>3. CASE Is(q, w, m) /\ ~Is(r, x, n)
    BY <2>3, <1>2, <1>3, <1>0, <1>a
  <2>4. CASE ~Is(q, w, m) /\ Is(r, x, n)
    BY <2>4, <1>2, <1>3, <1>0, <1>a
  <2> QED
    BY <2>1, <2>2, <2>3, <2>4
<1>9. NoLeak(fr \ {k}, nb, tops)
  <2> SUFFICES ASSUME NEW y \in Pages \ (fr \ {k})
               PROVE  \E q \in Procs, w \in VAs, m \in 1..4 : N(q, w, m) = y
    BY DEF NoLeak, N
  <2>1. CASE y = k
    BY <2>1, <1>2, <1>5, <1>0, <1>a
  <2>2. CASE y # k
    <3>1. PICK q \in Procs, w \in VAs, m \in 1..4 : A(q, w, m) = y
      BY <1>a, <2>2 DEF Good, NoLeak, A
    <3>2. ~Is(q, w, m)
      BY <3>1, <1>4, TableConstants
    <3> QED
      BY <3>1, <3>2, <1>2
  <2> QED
    BY <2>1, <2>2
<1>10. OnPath(nb, tops)
  <2> SUFFICES ASSUME NEW q \in Procs, NEW w \in VAs, NEW m \in 1..4, NEW j \in Indices,
                      N(q, w, m) # None, nb[N(q, w, m)][j] # None
               PROVE  \E x \in VAs : Same(w, x, m) /\ Index(x, m) = j
    BY DEF OnPath, N
  <2>1. CASE Is(q, w, m)
    <3>1. N(q, w, m) = k
      BY <2>1, <1>2
    <3>2. nb[N(q, w, m)][j] = None
      BY <3>1, <1>1 DEF Zero
    <3> QED
      BY <3>2
  <2>2. CASE ~Is(q, w, m) /\ A(q, w, m) = t /\ j = i
    <3>1. m = l /\ Same(w, v, m)
      BY <1>a, <2>2, <1>0, TableConstants DEF Good, Apart, A, t
    <3> QED
      BY <1>a, <3>1, <2>2 DEF i
  <2>3. CASE ~Is(q, w, m) /\ ~(A(q, w, m) = t /\ j = i)
    <3>1. A(q, w, m) # None /\ A(q, w, m) # k /\ N(q, w, m) = A(q, w, m)
      BY <1>a, <2>3, <1>2, <1>3
    <3>2. nb[A(q, w, m)][j] = tb[A(q, w, m)][j]
      BY <2>3, <3>1, <1>0, <1>1, <1>3
    <3> QED
      BY <1>a, <3>1, <3>2 DEF Good, OnPath, A
  <2> QED
    BY <2>1, <2>2, <2>3
<1>11. ASSUME NEW q \in Procs, NEW w \in VAs, NEW m \in 1..4, N(q, w, m) # None
       PROVE  /\ Is(q, w, m) => nb[N(q, w, m)][Index(w, m)] = None
              /\ ~Is(q, w, m) /\ A(q, w, m) = t /\ Index(w, m) = i
                 => nb[N(q, w, m)][Index(w, m)] = TableEntry(k)
              /\ ~Is(q, w, m) /\ ~(A(q, w, m) = t /\ Index(w, m) = i)
                 => nb[N(q, w, m)][Index(w, m)] = tb[A(q, w, m)][Index(w, m)]
  <2>1. Index(w, m) \in Indices
    BY TableConstants
  <2>2. CASE Is(q, w, m)
    <3>1. N(q, w, m) = k
      BY <2>2, <1>2
    <3> QED
      BY <3>1, <2>1, <2>2, <1>1 DEF Zero
  <2>3. CASE ~Is(q, w, m)
    <3>1. N(q, w, m) = A(q, w, m) /\ A(q, w, m) \in Pages \ fr
      BY <1>11, <2>3, <1>2, <1>3
    <3> QED
      BY <1>a, <2>1, <2>3, <3>1, <1>0, <1>1
  <2> QED
    BY <2>2, <2>3
<1>12. ToTable(nb, tops)
  <2>1. TableEntry(k) \in TableEntries
    BY <1>0 DEF TableEntries
  <2> SUFFICES ASSUME NEW q \in Procs, NEW w \in VAs, NEW m \in 2..4, N(q, w, m) # None
               PROVE  nb[N(q, w, m)][Index(w, m)] \in TableEntries \cup {None}
    BY DEF ToTable, N
  <2>2. m \in 1..4
    OBVIOUS
  <2>3. ~Is(q, w, m) => A(q, w, m) # None
    BY <1>2, <2>2
  <2>4. A(q, w, m) # None => tb[A(q, w, m)][Index(w, m)] \in TableEntries \cup {None}
    BY <1>a DEF Good, ToTable, A
  <2>5. CASE Is(q, w, m)
    BY <1>11, <2>2, <2>5
  <2>6. CASE ~Is(q, w, m) /\ A(q, w, m) = t /\ Index(w, m) = i
    BY <1>11, <2>1, <2>2, <2>6
  <2>7. CASE ~Is(q, w, m) /\ ~(A(q, w, m) = t /\ Index(w, m) = i)
    BY <1>11, <2>2, <2>3, <2>4, <2>7
  <2> QED
    BY <2>5, <2>6, <2>7
<1>13. \A q \in Procs, w \in VAs : A(q, w, 1) # None => A(q, w, 1) # t
  <2> SUFFICES ASSUME NEW q \in Procs, NEW w \in VAs, A(q, w, 1) = t PROVE FALSE
    OBVIOUS
  <2>1. l = 1
    BY <1>a, <1>0, TableConstants, 1 \in 1..4 DEF Good, Apart, A, t
  <2> QED
    BY <1>0, <2>1
<1>14. ToFrame(nb, tops)
  <2> SUFFICES ASSUME NEW q \in Procs, NEW w \in VAs, N(q, w, 1) # None
               PROVE  nb[N(q, w, 1)][Index(w, 1)] \in PageEntries \cup {None}
    BY DEF ToFrame, N
  <2>1. ~Is(q, w, 1) => A(q, w, 1) # None
    BY <1>2, 1 \in 1..4
  <2>2. A(q, w, 1) # None => tb[A(q, w, 1)][Index(w, 1)] \in PageEntries \cup {None}
    BY <1>a DEF Good, ToFrame, A
  <2>3. ~Is(q, w, 1) => nb[N(q, w, 1)][Index(w, 1)] = tb[A(q, w, 1)][Index(w, 1)]
    <3> SUFFICES ASSUME ~Is(q, w, 1)
                 PROVE  nb[N(q, w, 1)][Index(w, 1)] = tb[A(q, w, 1)][Index(w, 1)]
      OBVIOUS
    <3>1. A(q, w, 1) # t
      BY <1>13, <2>1
    <3> QED
      BY <3>1, <1>11, 1 \in 1..4
  <2>4. Is(q, w, 1) => nb[N(q, w, 1)][Index(w, 1)] = None
    BY <1>11, 1 \in 1..4
  <2> QED
    BY <2>1, <2>2, <2>3, <2>4
<1>15. ASSUME NEW q \in Procs, NEW w \in VAs
       PROVE  EntryAt(nb, tops, q, w) = EntryAt(tb, tops, q, w)
  <2>0. /\ N(q, w, 1) = IF Is(q, w, 1) THEN k ELSE A(q, w, 1)
        /\ Is(q, w, 1) => A(q, w, 1) = None
    BY <1>2, <1>4, 1 \in 1..4
  <2>1. CASE Is(q, w, 1)
    <3>1. nb[N(q, w, 1)][Index(w, 1)] = None
      BY <2>0, <2>1, <1>0, <1>11, 1 \in 1..4
    <3> QED
      BY <2>0, <2>1, <3>1 DEF EntryAt, A, N
  <2>2. CASE ~Is(q, w, 1)
    <3>1. ASSUME A(q, w, 1) # None
          PROVE  nb[N(q, w, 1)][Index(w, 1)] = tb[A(q, w, 1)][Index(w, 1)]
      <4>1. A(q, w, 1) # t /\ N(q, w, 1) # None
        BY <1>13, <2>0, <2>2, <3>1
      <4> QED
        BY <4>1, <2>2, <1>11, 1 \in 1..4
    <3> QED
      BY <2>0, <2>2, <3>1 DEF EntryAt, A, N
  <2> QED
    BY <2>1, <2>2
<1>16. Node(nb, tops, p, v, l - 1) = k
  BY <1>b, <1>2, <1>5, <1>a DEF N
<1> QED
  BY <1>6, <1>7, <1>8, <1>9, <1>10, <1>12, <1>14, <1>15, <1>16 DEF Good, Entered

-----------------------------------------------------------------------------
(* The other changes of the tables.                                        *)

\* Who finds the same entries above finds the same tables.
Kept(tb, nb, tops, ntops, p, v) ==
    /\ ntops[p] = tops[p]
    /\ \A l \in 2..4 : Node(tb, tops, p, v, l) # None =>
           nb[Node(tb, tops, p, v, l)][Index(v, l)] = tb[Node(tb, tops, p, v, l)][Index(v, l)]

LEMMA NodeKept ==
    ASSUME NEW tb, NEW nb, NEW tops, NEW ntops, NEW p, NEW v, Kept(tb, nb, tops, ntops, p, v)
    PROVE  \A l \in 1..4 : Node(nb, ntops, p, v, l) = Node(tb, tops, p, v, l)
<1> DEFINE Stay(l) == Node(nb, ntops, p, v, l) = Node(tb, tops, p, v, l)
<1>1. Stay(4)
  BY NodeTop DEF Kept
<1>2. ASSUME NEW l \in 2..4, Stay(l) PROVE Stay(l - 1)
  <2>1. /\ Node(nb, ntops, p, v, l - 1) = Child(nb, Node(nb, ntops, p, v, l), v, l)
        /\ Node(tb, tops, p, v, l - 1) = Child(tb, Node(tb, tops, p, v, l), v, l)
    BY NodeDown
  <2> QED
    BY <1>2, <2>1 DEF Child, Kept
<1>3. Stay(3)
  BY <1>1, <1>2, 4 \in 2..4, 4 - 1 = 3
<1>4. Stay(2)
  BY <1>3, <1>2, 3 \in 2..4, 3 - 1 = 2
<1>5. Stay(1)
  BY <1>4, <1>2, 2 \in 2..4, 2 - 1 = 1
<1>6. \A l \in 1..4 : l = 1 \/ l = 2 \/ l = 3 \/ l = 4
  OBVIOUS
<1> QED
  BY <1>1, <1>3, <1>4, <1>5, <1>6

LEMMA NodeNone ==
    ASSUME NEW tb, NEW tops, NEW p, NEW v, NEW l \in 1..4, Node(tb, tops, p, v, l) = None
    PROVE  \A m \in 1..4 : m <= l => Node(tb, tops, p, v, m) = None
<1> DEFINE Gone(m) == Node(tb, tops, p, v, m) = None
<1>1. ASSUME NEW m \in 2..4, Gone(m) PROVE Gone(m - 1)
  BY <1>1, NodeDown DEF Child
<1>2. Gone(4) => Gone(3)
  BY <1>1, 4 \in 2..4, 4 - 1 = 3
<1>3. Gone(3) => Gone(2)
  BY <1>1, 3 \in 2..4, 3 - 1 = 2
<1>4. Gone(2) => Gone(1)
  BY <1>1, 2 \in 2..4, 2 - 1 = 1
<1>5. \A m \in 1..4 : m = 1 \/ m = 2 \/ m = 3 \/ m = 4
  OBVIOUS
<1>6. Gone(l)
  OBVIOUS
<1> HIDE DEF Gone
<1>7. \A m \in 1..4 : m <= l => Gone(m)
  BY <1>2, <1>3, <1>4, <1>5, <1>6
<1> QED
  BY <1>7 DEF Gone

\* Only the pages in use matter.
LEMMA AgreeGood ==
    ASSUME PageTableAssumption, NEW fr, NEW tb, NEW tops, Good(fr, tb, tops), NEW nb,
           Typed(fr, nb, tops), \A k \in Pages \ fr : nb[k] = tb[k]
    PROVE  /\ Good(fr, nb, tops)
           /\ \A p \in Procs, v \in VAs, l \in 1..4 : Node(nb, tops, p, v, l) = Node(tb, tops, p, v, l)
           /\ \A p \in Procs, v \in VAs : EntryAt(nb, tops, p, v) = EntryAt(tb, tops, p, v)
<1>1. ASSUME NEW p \in Procs, NEW v \in VAs, NEW l \in 1..4, Node(tb, tops, p, v, l) # None
      PROVE  nb[Node(tb, tops, p, v, l)] = tb[Node(tb, tops, p, v, l)]
  BY <1>1 DEF Good, InUse
<1>2. ASSUME NEW p \in Procs, NEW v \in VAs
      PROVE  \A l \in 1..4 : Node(nb, tops, p, v, l) = Node(tb, tops, p, v, l)
  <2>1. \A l \in 2..4 : Node(tb, tops, p, v, l) # None =>
            nb[Node(tb, tops, p, v, l)][Index(v, l)] = tb[Node(tb, tops, p, v, l)][Index(v, l)]
    <3> SUFFICES ASSUME NEW l \in 2..4, Node(tb, tops, p, v, l) # None
                 PROVE  nb[Node(tb, tops, p, v, l)] = tb[Node(tb, tops, p, v, l)]
      OBVIOUS
    <3>1. l \in 1..4
      OBVIOUS
    <3> QED
      BY <1>1, <3>1
  <2>2. Kept(tb, nb, tops, tops, p, v)
    BY <2>1 DEF Kept
  <2> QED
    BY <2>2, NodeKept
<1>3. \A p \in Procs, v \in VAs : EntryAt(nb, tops, p, v) = EntryAt(tb, tops, p, v)
  BY <1>1, <1>2, 1 \in 1..4 DEF EntryAt
<1>4. InUse(fr, nb, tops)
  BY <1>2 DEF Good, InUse
<1>5. Apart(nb, tops)
  BY <1>2 DEF Good, Apart
<1>6. NoLeak(fr, nb, tops)
  BY <1>2 DEF Good, NoLeak
<1>7. OnPath(nb, tops)
  BY <1>1, <1>2 DEF Good, OnPath
<1>8. ToTable(nb, tops)
  <2> SUFFICES ASSUME NEW p \in Procs, NEW v \in VAs, NEW l \in 2..4, Node(nb, tops, p, v, l) # None
               PROVE  nb[Node(nb, tops, p, v, l)][Index(v, l)] \in TableEntries \cup {None}
    BY DEF ToTable
  <2>1. l \in 1..4
    OBVIOUS
  <2> QED
    BY <1>1, <1>2, <2>1 DEF Good, ToTable
<1>9. ToFrame(nb, tops)
  BY <1>1, <1>2, 1 \in 1..4 DEF Good, ToFrame
<1> QED
  BY <1>2, <1>3, <1>4, <1>5, <1>6, <1>7, <1>8, <1>9 DEF Good

\* An entry of a page table changes for one page of one process.
Changing(fr, tb, tops, p, v, e, nb) ==
    /\ Good(fr, tb, tops) /\ p \in Procs /\ v \in VAs /\ Node(tb, tops, p, v, 1) # None
    /\ e \in PageEntries /\ nb = [tb EXCEPT ![Node(tb, tops, p, v, 1)][Index(v, 1)] = e]

LEMMA LeafGood ==
    ASSUME PageTableAssumption, NEW fr, NEW tb, NEW tops, NEW p, NEW v, NEW e, NEW nb,
           Changing(fr, tb, tops, p, v, e, nb)
    PROVE  /\ Good(fr, nb, tops)
           /\ \A q \in Procs, w \in VAs : EntryAt(nb, tops, q, w) =
                  IF q = p /\ w = v THEN e ELSE EntryAt(tb, tops, q, w)
<1> DEFINE t == Node(tb, tops, p, v, 1)
           i == Index(v, 1)
           A(q, w, m) == Node(tb, tops, q, w, m)
<1>a. /\ Good(fr, tb, tops) /\ p \in Procs /\ v \in VAs /\ Node(tb, tops, p, v, 1) # None
      /\ e \in PageEntries /\ nb = [tb EXCEPT ![Node(tb, tops, p, v, 1)][Index(v, 1)] = e]
  BY DEF Changing
<1> USE <1>a
<1>1. /\ t \in Pages \ fr /\ i \in Indices
      /\ tb \in [Pages -> [Indices -> TableEntries \cup PageEntries \cup {None}]]
  BY TableConstants, 1 \in 1..4 DEF Good, Typed, InUse
<1>2. /\ nb[t] = [tb[t] EXCEPT ![i] = e]
      /\ \A x \in Pages : x # t => nb[x] = tb[x]
  BY <1>1
<1>3. ASSUME NEW q \in Procs, NEW w \in VAs, NEW m \in 1..4, A(q, w, m) = t
      PROVE  q = p /\ m = 1 /\ Same(w, v, 1)
  BY <1>3, 1 \in 1..4 DEF Good, Apart
<1>4. ASSUME NEW q \in Procs, NEW w \in VAs, NEW m \in 1..4, A(q, w, m) # None
      PROVE  A(q, w, m) \in Pages \ fr
  BY <1>4 DEF Good, InUse
<1>5. ASSUME NEW q \in Procs, NEW w \in VAs, NEW m \in 1..4
      PROVE  Node(nb, tops, q, w, m) = A(q, w, m)
  <2>1. \A n \in 2..4 : A(q, w, n) # None => nb[A(q, w, n)][Index(w, n)] = tb[A(q, w, n)][Index(w, n)]
    <3> SUFFICES ASSUME NEW n \in 2..4, A(q, w, n) # None PROVE nb[A(q, w, n)] = tb[A(q, w, n)]
      OBVIOUS
    <3>1. n \in 1..4
      OBVIOUS
    <3>2. A(q, w, n) # t
      <4> SUFFICES ASSUME A(q, w, n) = t PROVE FALSE
        OBVIOUS
      <4>1. n = 1
        BY <1>3, <3>1
      <4> QED
        BY <4>1
    <3> QED
      BY <1>2, <1>4, <3>1, <3>2
  <2>2. \A n \in 2..4 : Node(tb, tops, q, w, n) # None =>
            nb[Node(tb, tops, q, w, n)][Index(w, n)] = tb[Node(tb, tops, q, w, n)][Index(w, n)]
    BY <2>1
  <2>3. \A n \in 1..4 : Node(nb, tops, q, w, n) = Node(tb, tops, q, w, n)
    <3>1. Kept(tb, nb, tops, tops, q, w)
      BY <2>2 DEF Kept
    <3> QED
      BY <3>1, NodeKept
  <2> QED
    BY <2>3
<1> HIDE DEF A, t, i
<1>6. Typed(fr, nb, tops)
  <2>1. nb \in [Pages -> [Indices -> TableEntries \cup PageEntries \cup {None}]]
    BY <1>1 DEF t, i
  <2> QED
    BY <2>1 DEF Good, Typed
<1>7. InUse(fr, nb, tops)
  <2> SUFFICES ASSUME NEW q \in Procs, NEW w \in VAs, NEW m \in 1..4, Node(nb, tops, q, w, m) # None
               PROVE  Node(nb, tops, q, w, m) \in Pages \ fr
    BY DEF InUse
  <2> QED
    BY <1>4, <1>5
<1>8. Apart(nb, tops)
  <2> SUFFICES ASSUME NEW q \in Procs, NEW x \in Procs, NEW w \in VAs, NEW y \in VAs,
                      NEW m \in 1..4, NEW n \in 1..4,
                      A(q, w, m) # None, A(q, w, m) = A(x, y, n)
               PROVE  q = x /\ m = n /\ Same(w, y, m)
    <3> HIDE <1>a
    <3> QED
      BY <1>5 DEF Apart
  <2> QED
    BY DEF Good, Apart, A
<1>9. NoLeak(fr, nb, tops)
  <2> SUFFICES ASSUME NEW y \in Pages \ fr
               PROVE  \E q \in Procs, w \in VAs, m \in 1..4 : Node(nb, tops, q, w, m) = y
    BY DEF NoLeak
  <2>1. PICK q \in Procs, w \in VAs, m \in 1..4 : A(q, w, m) = y
    BY DEF Good, NoLeak, A
  <2> QED
    BY <1>5, <2>1
<1>10. OnPath(nb, tops)
  <2> SUFFICES ASSUME NEW q \in Procs, NEW w \in VAs, NEW m \in 1..4, NEW j \in Indices,
                      A(q, w, m) # None, nb[A(q, w, m)][j] # None
               PROVE  \E x \in VAs : Same(w, x, m) /\ Index(x, m) = j
    <3> HIDE <1>a
    <3> QED
      BY <1>5 DEF OnPath
  <2>1. CASE A(q, w, m) = t /\ j = i
    <3>1. m = 1 /\ Same(w, v, m)
      BY <1>3, <2>1
    <3> QED
      BY <3>1, <2>1 DEF i
  <2>2. CASE ~(A(q, w, m) = t /\ j = i)
    <3>1. nb[A(q, w, m)][j] = tb[A(q, w, m)][j]
      BY <1>1, <1>2, <1>4, <2>2
    <3> QED
      BY <3>1 DEF Good, OnPath, A
  <2> QED
    BY <2>1, <2>2
<1>11. ToTable(nb, tops)
  <2> SUFFICES ASSUME NEW q \in Procs, NEW w \in VAs, NEW m \in 2..4, A(q, w, m) # None
               PROVE  nb[A(q, w, m)][Index(w, m)] \in TableEntries \cup {None}
    <3>1. \A m \in 2..4 : m \in 1..4
      OBVIOUS
    <3> QED
      BY <1>5, <3>1 DEF ToTable, A
  <2>1. m \in 1..4
    OBVIOUS
  <2>2. A(q, w, m) # t
    <3> SUFFICES ASSUME A(q, w, m) = t PROVE FALSE
      OBVIOUS
    <3>1. m = 1
      BY <1>3, <2>1
    <3> QED
      BY <3>1
  <2>3. nb[A(q, w, m)] = tb[A(q, w, m)]
    BY <1>2, <1>4, <2>1, <2>2
  <2> QED
    BY <2>3 DEF Good, ToTable, A
<1>12. ASSUME NEW q \in Procs, NEW w \in VAs, A(q, w, 1) # None
       PROVE  nb[A(q, w, 1)][Index(w, 1)] =
                  IF q = p /\ w = v THEN e ELSE tb[A(q, w, 1)][Index(w, 1)]
  <2>1. Index(w, 1) \in Indices /\ A(q, w, 1) \in Pages
    BY <1>4, <1>12, TableConstants, 1 \in 1..4
  <2>2. CASE q = p /\ w = v
    BY <1>1, <1>2, <2>2 DEF A, t, i
  <2>3. CASE ~(q = p /\ w = v)
    <3>1. ~(A(q, w, 1) = t /\ Index(w, 1) = i)
      <4> SUFFICES ASSUME A(q, w, 1) = t, Index(w, 1) = i PROVE FALSE
        OBVIOUS
      <4>1. q = p /\ Same(w, v, 1)
        BY <1>3, 1 \in 1..4
      <4> QED
        BY <4>1, <2>3, SameAll DEF i
    <3> QED
      BY <1>1, <1>2, <2>1, <2>3, <3>1
  <2> QED
    BY <2>2, <2>3
<1>13. ToFrame(nb, tops)
  <2> SUFFICES ASSUME NEW q \in Procs, NEW w \in VAs, A(q, w, 1) # None
               PROVE  nb[A(q, w, 1)][Index(w, 1)] \in PageEntries \cup {None}
    BY <1>5, 1 \in 1..4 DEF ToFrame, A
  <2>1. tb[A(q, w, 1)][Index(w, 1)] \in PageEntries \cup {None}
    BY DEF Good, ToFrame, A
  <2> QED
    BY <1>12, <2>1
<1>14. ASSUME NEW q \in Procs, NEW w \in VAs
       PROVE  EntryAt(nb, tops, q, w) = IF q = p /\ w = v THEN e ELSE EntryAt(tb, tops, q, w)
  <2>1. Node(nb, tops, q, w, 1) = A(q, w, 1)
    BY <1>5, 1 \in 1..4
  <2>2. q = p /\ w = v => A(q, w, 1) # None
    BY DEF A
  <2>3. A(q, w, 1) # None => nb[A(q, w, 1)][Index(w, 1)] =
            IF q = p /\ w = v THEN e ELSE tb[A(q, w, 1)][Index(w, 1)]
    BY <1>12
  <2> QED
    BY <2>1, <2>2, <2>3 DEF EntryAt, A
<1> QED
  BY <1>6, <1>7, <1>8, <1>9, <1>10, <1>11, <1>13, <1>14 DEF Good

\* A process gets a top table, which is empty.
Creating(fr, tb, tops, p, k, nb, ntops) ==
    /\ Good(fr, tb, tops) /\ p \in Procs /\ tops[p] = None /\ k \in fr
    /\ nb = [tb EXCEPT ![k] = Zero] /\ ntops = [tops EXCEPT ![p] = k]

LEMMA CreateGood ==
    ASSUME PageTableAssumption, NEW fr, NEW tb, NEW tops, NEW p, NEW k, NEW nb, NEW ntops,
           Creating(fr, tb, tops, p, k, nb, ntops)
    PROVE  /\ Good(fr \ {k}, nb, ntops)
           /\ \A q \in Procs, w \in VAs : EntryAt(nb, ntops, q, w) = EntryAt(tb, tops, q, w)
<1> DEFINE A(q, w, m) == Node(tb, tops, q, w, m)
           N(q, w, m) == Node(nb, ntops, q, w, m)
<1>a. Good(fr, tb, tops) /\ p \in Procs /\ tops[p] = None /\ k \in fr
  BY DEF Creating
<1>1. /\ k \in Pages /\ k # None
      /\ tb \in [Pages -> [Indices -> TableEntries \cup PageEntries \cup {None}]]
      /\ nb[k] = Zero /\ (\A x \in Pages : x # k => nb[x] = tb[x])
      /\ ntops[p] = k /\ (\A q \in Procs : q # p => ntops[q] = tops[q])
  BY TableConstants DEF Creating, Good, Typed
<1>2. ASSUME NEW q \in Procs, NEW w \in VAs, NEW m \in 1..4, A(q, w, m) # None
      PROVE  A(q, w, m) \in Pages \ fr /\ nb[A(q, w, m)] = tb[A(q, w, m)]
  BY <1>1, <1>2, <1>a DEF Good, InUse
<1>3. ASSUME NEW w \in VAs, NEW m \in 1..4
      PROVE  A(p, w, m) = None
  BY <1>a, NodeTop, NodeNone, 4 \in 1..4
<1>4. ASSUME NEW w \in VAs, NEW m \in 1..4
      PROVE  N(p, w, m) = IF m = 4 THEN k ELSE None
  <2>0. ntops[p] = k
    BY <1>1
  <2>1. Node(nb, ntops, p, w, 4) = k
    BY <2>0, NodeTop
  <2>2. N(p, w, 3) = None
    <3>1. nb[k][Index(w, 4)] = None
      BY <1>1, TableConstants, 4 \in 1..4 DEF Zero
    <3>2. Node(nb, ntops, p, w, 4 - 1) = Child(nb, k, w, 4)
      BY <2>1, NodeDown, 4 \in 2..4
    <3>3. Child(nb, k, w, 4) = None
      BY <3>1 DEF Child, Present
    <3> QED
      BY <3>2, <3>3, 4 - 1 = 3
  <2>3. m <= 3 => N(p, w, m) = None
    BY <2>2, NodeNone, 3 \in 1..4
  <2> QED
    BY <2>1, <2>3
<1>5. ASSUME NEW q \in Procs, q # p, NEW w \in VAs, NEW m \in 1..4
      PROVE  N(q, w, m) = A(q, w, m)
  <2>1. \A n \in 2..4 : A(q, w, n) # None => nb[A(q, w, n)][Index(w, n)] = tb[A(q, w, n)][Index(w, n)]
    <3>1. \A n \in 2..4 : n \in 1..4
      OBVIOUS
    <3> QED
      BY <1>2, <3>1
  <2>2. ntops[q] = tops[q]
    BY <1>1, <1>5
  <2>a. \A n \in 2..4 : Node(tb, tops, q, w, n) # None =>
            nb[Node(tb, tops, q, w, n)][Index(w, n)] = tb[Node(tb, tops, q, w, n)][Index(w, n)]
    BY <2>1
  <2>3. \A n \in 1..4 : Node(nb, ntops, q, w, n) = Node(tb, tops, q, w, n)
    <3>1. Kept(tb, nb, tops, ntops, q, w)
      BY <2>a, <2>2 DEF Kept
    <3> QED
      BY <3>1, NodeKept
  <2> QED
    BY <2>3
<1> HIDE DEF A, N
<1>6. ASSUME NEW q \in Procs, NEW w \in VAs, NEW m \in 1..4, N(q, w, m) # None
      PROVE  \/ q = p /\ m = 4 /\ N(q, w, m) = k
             \/ q # p /\ N(q, w, m) = A(q, w, m) /\ A(q, w, m) \in Pages \ fr
  BY <1>2, <1>4, <1>5, <1>6
<1>7. Typed(fr \ {k}, nb, ntops)
  <2>1. Zero \in [Indices -> TableEntries \cup PageEntries \cup {None}]
    BY DEF Zero
  <2>2. nb \in [Pages -> [Indices -> TableEntries \cup PageEntries \cup {None}]]
    BY <1>1, <2>1 DEF Creating
  <2> QED
    BY <1>1, <1>a, <2>2 DEF Creating, Good, Typed
<1>8. InUse(fr \ {k}, nb, ntops)
  <2> SUFFICES ASSUME NEW q \in Procs, NEW w \in VAs, NEW m \in 1..4, N(q, w, m) # None
               PROVE  N(q, w, m) \in Pages \ (fr \ {k})
    BY DEF InUse, N
  <2> QED
    BY <1>1, <1>6
<1>9. Apart(nb, ntops)
  <2> SUFFICES ASSUME NEW q \in Procs, NEW r \in Procs, NEW w \in VAs, NEW x \in VAs,
                      NEW m \in 1..4, NEW n \in 1..4,
                      N(q, w, m) # None, N(q, w, m) = N(r, x, n)
               PROVE  q = r /\ m = n /\ Same(w, x, m)
    BY DEF Apart, N
  <2>1. CASE q = p /\ r = p
    BY <1>6, <2>1, SameIs
  <2>2. CASE q # p /\ r # p
    <3>1. A(q, w, m) # None /\ A(q, w, m) = A(r, x, n)
      BY <1>5, <2>2
    <3> QED
      BY <1>a, <3>1 DEF Good, Apart, A
  <2>3. CASE (q = p /\ r # p) \/ (q # p /\ r = p)
    BY <1>a, <1>6, <2>3
  <2> QED
    BY <2>1, <2>2, <2>3
<1>10. NoLeak(fr \ {k}, nb, ntops)
  <2> SUFFICES ASSUME NEW y \in Pages \ (fr \ {k})
               PROVE  \E q \in Procs, w \in VAs, m \in 1..4 : N(q, w, m) = y
    BY DEF NoLeak, N
  <2>1. CASE y = k
    <3>1. PICK w \in VAs : TRUE
      BY DEF PageTableAssumption
    <3> QED
      BY <1>a, <1>4, <2>1, <3>1, 4 \in 1..4
  <2>2. CASE y # k
    <3>1. PICK q \in Procs, w \in VAs, m \in 1..4 : A(q, w, m) = y
      BY <1>a, <2>2 DEF Good, NoLeak, A
    <3>2. q # p
      BY <1>3, <3>1, TableConstants
    <3> QED
      BY <1>5, <3>1, <3>2
  <2> QED
    BY <2>1, <2>2
<1>11. OnPath(nb, ntops)
  <2> SUFFICES ASSUME NEW q \in Procs, NEW w \in VAs, NEW m \in 1..4, NEW j \in Indices,
                      N(q, w, m) # None, nb[N(q, w, m)][j] # None
               PROVE  \E x \in VAs : Same(w, x, m) /\ Index(x, m) = j
    BY DEF OnPath, N
  <2>1. N(q, w, m) # k
    BY <1>1 DEF Zero
  <2>2. q # p /\ N(q, w, m) = A(q, w, m)
    BY <1>6, <2>1
  <2> QED
    BY <1>a, <1>2, <2>2 DEF Good, OnPath, A
<1>12. ToTable(nb, ntops)
  <2> SUFFICES ASSUME NEW q \in Procs, NEW w \in VAs, NEW m \in 2..4, N(q, w, m) # None
               PROVE  nb[N(q, w, m)][Index(w, m)] \in TableEntries \cup {None}
    BY DEF ToTable, N
  <2>1. m \in 1..4
    OBVIOUS
  <2>2. CASE q = p
    <3>1. nb[N(q, w, m)][Index(w, m)] = None
      BY <1>1, <1>6, <2>1, <2>2, TableConstants DEF Zero
    <3> QED
      BY <3>1
  <2>3. CASE q # p
    BY <1>a, <1>2, <1>6, <2>1, <2>3 DEF Good, ToTable, A
  <2> QED
    BY <2>2, <2>3
<1>13. ToFrame(nb, ntops)
  <2> SUFFICES ASSUME NEW q \in Procs, NEW w \in VAs, N(q, w, 1) # None
               PROVE  nb[N(q, w, 1)][Index(w, 1)] \in PageEntries \cup {None}
    BY DEF ToFrame, N
  <2>1. q # p /\ N(q, w, 1) = A(q, w, 1)
    BY <1>6, 1 \in 1..4
  <2> QED
    BY <1>a, <1>2, <2>1, 1 \in 1..4 DEF Good, ToFrame, A
<1>14. ASSUME NEW q \in Procs, NEW w \in VAs
       PROVE  EntryAt(nb, ntops, q, w) = EntryAt(tb, tops, q, w)
  <2>1. CASE q = p
    <3>1. A(p, w, 1) = None /\ N(p, w, 1) = None
      BY <1>3, <1>4, 1 \in 1..4
    <3> QED
      BY <2>1, <3>1 DEF EntryAt, A, N
  <2>2. CASE q # p
    <3>1. N(q, w, 1) = A(q, w, 1) /\ (A(q, w, 1) # None => nb[A(q, w, 1)] = tb[A(q, w, 1)])
      BY <1>2, <1>5, <2>2, 1 \in 1..4
    <3> QED
      BY <3>1 DEF EntryAt, A, N
  <2> QED
    BY <2>1, <2>2
<1> QED
  BY <1>7, <1>8, <1>9, <1>10, <1>11, <1>12, <1>13, <1>14 DEF Good

-----------------------------------------------------------------------------
(* The tables that pml4_destroy finds are the ones on the way to the pages *)
(* of the process.                                                         *)
Row(p, l) == {Node(table, pml4, p, v, l) : v \in VAs} \ {None}

LEMMA RowBelow ==
    ASSUME PageTableAssumption, Good(free, table, pml4), NEW p \in Procs, NEW l \in 2..4
    PROVE  Below(Row(p, l)) = Row(p, l - 1)
<1> DEFINE A(v, m) == Node(table, pml4, p, v, m)
<1>0. l \in 1..4 /\ l - 1 \in 1..4
  OBVIOUS
<1>1. ASSUME NEW c \in Below(Row(p, l)) PROVE c \in Row(p, l - 1)
  <2>1. PICK t \in Row(p, l), i \in Indices : Present(table[t][i]) /\ c = table[t][i].to
    BY DEF Below
  <2>2. PICK v \in VAs : t = A(v, l) /\ t # None
    BY <2>1 DEF Row
  <2>3. PICK w \in VAs : Same(v, w, l) /\ Index(w, l) = i
    BY <1>0, <2>1, <2>2 DEF Present, Good, OnPath
  <2>4. A(w, l) = t
    BY <1>0, <2>2, <2>3, SameNode
  <2>5. A(w, l - 1) = c
    BY <2>1, <2>2, <2>3, <2>4, NodeDown DEF Child
  <2>6. c # None
    <3>1. table[t][i] \in TableEntries
      BY <2>1, <2>2, <2>3, <2>4 DEF Good, ToTable, Present
    <3>2. c \in Pages
      BY <2>1, <3>1 DEF TableEntries, TableEntry
    <3> QED
      BY <3>2, TableConstants
  <2> QED
    BY <2>5, <2>6 DEF Row
<1>2. ASSUME NEW c \in Row(p, l - 1) PROVE c \in Below(Row(p, l))
  <2>1. PICK v \in VAs : c = A(v, l - 1) /\ c # None
    BY DEF Row
  <2>2. A(v, l) # None /\ Present(table[A(v, l)][Index(v, l)])
        /\ c = table[A(v, l)][Index(v, l)].to
    BY <2>1, NodeDown DEF Child
  <2>3. A(v, l) \in Row(p, l) /\ Index(v, l) \in Indices
    BY <1>0, <2>2, TableConstants DEF Row
  <2> QED
    BY <2>2, <2>3 DEF Below
<1> QED
  BY <1>1, <1>2

LEMMA TablesAre ==
    ASSUME PageTableAssumption, Good(free, table, pml4), NEW p \in Procs, Live(p)
    PROVE  /\ Upper(pml4[p]) = Row(p, 4) \cup Row(p, 3) \cup Row(p, 2)
           /\ PageTables(pml4[p]) = Row(p, 1)
           /\ \A k : k \in Tables(pml4[p]) <=> \E v \in VAs, l \in 1..4 :
                  k = Node(table, pml4, p, v, l) /\ k # None
<1>1. Row(p, 4) = {pml4[p]}
  <2>1. PICK v \in VAs : TRUE
    BY DEF PageTableAssumption
  <2>2. \A w \in VAs : Node(table, pml4, p, w, 4) = pml4[p]
    BY NodeTop
  <2> QED
    BY <2>1, <2>2 DEF Row, Live
<1>2. Row(p, 3) = Below(Row(p, 4))
  BY RowBelow, 4 \in 2..4, 4 - 1 = 3
<1>3. Row(p, 2) = Below(Row(p, 3))
  BY RowBelow, 3 \in 2..4, 3 - 1 = 2
<1>4. Row(p, 1) = Below(Row(p, 2))
  BY RowBelow, 2 \in 2..4, 2 - 1 = 1
<1>5. Upper(pml4[p]) = Row(p, 4) \cup Row(p, 3) \cup Row(p, 2)
  BY <1>1, <1>2, <1>3 DEF Upper
<1>6. PageTables(pml4[p]) = Row(p, 1)
  BY <1>1, <1>2, <1>3, <1>4 DEF PageTables
<1>7. Tables(pml4[p]) = Row(p, 4) \cup Row(p, 3) \cup Row(p, 2) \cup Row(p, 1)
  BY <1>5, <1>6 DEF Tables
<1>8. ASSUME NEW k
      PROVE  k \in Tables(pml4[p]) <=> \E v \in VAs, l \in 1..4 :
                 k = Node(table, pml4, p, v, l) /\ k # None
  <2>1. \A l \in 1..4 : l = 1 \/ l = 2 \/ l = 3 \/ l = 4
    OBVIOUS
  <2>2. ASSUME k \in Tables(pml4[p])
        PROVE  \E v \in VAs, l \in 1..4 : k = Node(table, pml4, p, v, l) /\ k # None
    <3>1. \E l \in 1..4 : k \in Row(p, l)
      BY <1>7, <2>2
    <3> QED
      BY <3>1 DEF Row
  <2>3. ASSUME NEW v \in VAs, NEW l \in 1..4, k = Node(table, pml4, p, v, l), k # None
        PROVE  k \in Tables(pml4[p])
    <3>1. k \in Row(p, l)
      BY <2>3 DEF Row
    <3> QED
      BY <1>7, <2>1, <3>1
  <2> QED
    BY <2>2, <2>3
<1> QED
  BY <1>5, <1>6, <1>8

LEMMA EntryIs ==
    ASSUME NEW tb, NEW tops, NEW p, NEW v
    PROVE  EntryAt(tb, tops, p, v) = IF tops[p] # None THEN Entry(tb, tops[p], v) ELSE None
<1>1. CASE tops[p] # None
  BY <1>1, NodeTop DEF EntryAt, Entry
<1>2. CASE tops[p] = None
  <2>1. Node(tb, tops, p, v, 4) = None
    BY <1>2, NodeTop
  <2>2. Node(tb, tops, p, v, 1) = None
    BY <2>1, NodeNone, 4 \in 1..4, 1 \in 1..4, 1 <= 4
  <2> QED
    BY <1>2, <2>2 DEF EntryAt
<1> QED
  BY <1>1, <1>2

LEMMA EntryOfIs ==
    ASSUME NEW p, NEW v
    PROVE  EntryOf(p, v) = EntryAt(table, pml4, p, v)
BY EntryIs DEF EntryOf, Live

\* What its page tables map.
LEMMA FramesBelow ==
    ASSUME PageTableAssumption, Good(free, table, pml4), NEW p \in Procs
    PROVE  Below(Row(p, 1)) = {EntryOf(p, v).to : v \in {v \in VAs : Present(EntryOf(p, v))}}
<1> DEFINE A(v) == Node(table, pml4, p, v, 1)
<1>1. \A v \in VAs : EntryOf(p, v) = IF A(v) = None THEN None ELSE table[A(v)][Index(v, 1)]
  BY EntryOfIs DEF EntryAt
<1>2. ASSUME NEW c \in Below(Row(p, 1))
      PROVE  \E w \in VAs : Present(EntryOf(p, w)) /\ c = EntryOf(p, w).to
  <2>1. PICK t \in Row(p, 1), i \in Indices : Present(table[t][i]) /\ c = table[t][i].to
    BY DEF Below
  <2>2. PICK v \in VAs : t = A(v) /\ t # None
    BY <2>1 DEF Row
  <2>3. PICK w \in VAs : Same(v, w, 1) /\ Index(w, 1) = i
    BY <2>1, <2>2, 1 \in 1..4 DEF Present, Good, OnPath
  <2>4. A(w) = t
    BY <2>2, <2>3, SameNode, 1 \in 1..4
  <2> QED
    BY <1>1, <2>1, <2>2, <2>3, <2>4
<1>3. ASSUME NEW v \in VAs, Present(EntryOf(p, v))
      PROVE  EntryOf(p, v).to \in Below(Row(p, 1))
  <2>1. A(v) # None /\ EntryOf(p, v) = table[A(v)][Index(v, 1)]
    BY <1>1, <1>3 DEF Present
  <2>2. A(v) \in Row(p, 1) /\ Index(v, 1) \in Indices
    BY <2>1, TableConstants, 1 \in 1..4 DEF Row
  <2> QED
    BY <1>3, <2>1, <2>2 DEF Below
<1> QED
  BY <1>2, <1>3

Destroying(p, nfr, nb, ntops) ==
    /\ Good(free, table, pml4) /\ p \in Procs /\ Live(p)
    /\ nfr = free \cup Tables(pml4[p]) /\ ntops = [pml4 EXCEPT ![p] = None]
    /\ nb = [k \in Pages |-> IF k \in Tables(pml4[p]) THEN Zero ELSE table[k]]

LEMMA DestroyGood ==
    ASSUME PageTableAssumption, NEW p, NEW nfr, NEW nb, NEW ntops, Destroying(p, nfr, nb, ntops)
    PROVE  /\ Good(nfr, nb, ntops)
           /\ \A q \in Procs, w \in VAs : EntryAt(nb, ntops, q, w) =
                  IF q = p THEN None ELSE EntryAt(table, pml4, q, w)
<1> DEFINE A(q, w, m) == Node(table, pml4, q, w, m)
           N(q, w, m) == Node(nb, ntops, q, w, m)
           T == Tables(pml4[p])
<1>a. /\ Good(free, table, pml4) /\ p \in Procs /\ nfr = free \cup T
      /\ \A k : k \in T <=> \E v \in VAs, l \in 1..4 : k = A(p, v, l) /\ k # None
  BY TablesAre DEF Destroying
<1>b. T \subseteq Pages
  BY <1>a DEF Good, InUse
<1>1. /\ ntops[p] = None /\ (\A q \in Procs : q # p => ntops[q] = pml4[q])
      /\ \A k \in Pages \ T : nb[k] = table[k]
  BY <1>b DEF Destroying, Good, Typed
<1>2. ASSUME NEW q \in Procs, q # p, NEW w \in VAs, NEW m \in 1..4, A(q, w, m) # None
      PROVE  A(q, w, m) \in Pages \ nfr /\ nb[A(q, w, m)] = table[A(q, w, m)]
  <2>1. A(q, w, m) \in Pages \ free
    BY <1>a, <1>2 DEF Good, InUse
  <2>2. A(q, w, m) \notin T
    <3> SUFFICES ASSUME NEW v \in VAs, NEW l \in 1..4, A(q, w, m) = A(p, v, l) PROVE FALSE
      BY <1>a
    <3> QED
      BY <1>a, <1>2 DEF Good, Apart
  <2> QED
    BY <1>1, <1>a, <2>1, <2>2
<1>3. ASSUME NEW w \in VAs, NEW m \in 1..4
      PROVE  N(p, w, m) = None
  BY <1>1, NodeTop, NodeNone, 4 \in 1..4
<1>4. ASSUME NEW q \in Procs, q # p, NEW w \in VAs, NEW m \in 1..4
      PROVE  N(q, w, m) = A(q, w, m)
  <2>1. Kept(table, nb, pml4, ntops, q, w)
    <3>1. \A n \in 2..4 : n \in 1..4
      OBVIOUS
    <3> QED
      BY <1>1, <1>2, <1>4, <3>1 DEF Kept
  <2> QED
    BY <2>1, NodeKept
<1> HIDE DEF A, N, T
<1>5. ASSUME NEW q \in Procs, NEW w \in VAs, NEW m \in 1..4, N(q, w, m) # None
      PROVE  /\ q # p /\ N(q, w, m) = A(q, w, m) /\ A(q, w, m) \in Pages \ nfr
             /\ nb[N(q, w, m)] = table[A(q, w, m)]
  <2>1. q # p
    BY <1>3, <1>5
  <2> QED
    BY <1>2, <1>4, <1>5, <2>1
<1>6. Typed(nfr, nb, ntops)
  <2>1. Zero \in [Indices -> TableEntries \cup PageEntries \cup {None}]
    BY DEF Zero
  <2>2. nb \in [Pages -> [Indices -> TableEntries \cup PageEntries \cup {None}]]
    BY <2>1 DEF Destroying, Good, Typed
  <2>3. nfr \subseteq Pages /\ ntops \in [Procs -> Pages \cup {None}]
    BY <1>a, <1>b DEF Destroying, Good, Typed
  <2> QED
    BY <2>2, <2>3 DEF Typed
<1>7. InUse(nfr, nb, ntops)
  <2> SUFFICES ASSUME NEW q \in Procs, NEW w \in VAs, NEW m \in 1..4, N(q, w, m) # None
               PROVE  N(q, w, m) \in Pages \ nfr
    BY DEF InUse, N
  <2> QED
    BY <1>5
<1>8. Apart(nb, ntops)
  <2> SUFFICES ASSUME NEW q \in Procs, NEW r \in Procs, NEW w \in VAs, NEW x \in VAs,
                      NEW m \in 1..4, NEW n \in 1..4,
                      N(q, w, m) # None, N(q, w, m) = N(r, x, n)
               PROVE  q = r /\ m = n /\ Same(w, x, m)
    BY DEF Apart, N
  <2>1. A(q, w, m) # None /\ A(q, w, m) = A(r, x, n)
    BY <1>5
  <2> QED
    BY <1>a, <2>1 DEF Good, Apart, A
<1>9. NoLeak(nfr, nb, ntops)
  <2> SUFFICES ASSUME NEW y \in Pages \ nfr
               PROVE  \E q \in Procs, w \in VAs, m \in 1..4 : N(q, w, m) = y
    BY DEF NoLeak, N
  <2>1. y \in Pages \ free /\ y \notin T
    BY <1>a
  <2>2. PICK q \in Procs, w \in VAs, m \in 1..4 : A(q, w, m) = y
    BY <1>a, <2>1 DEF Good, NoLeak, A
  <2>3. q # p
    BY <1>a, <2>1, <2>2, TableConstants
  <2> QED
    BY <1>4, <2>2, <2>3
<1>10. OnPath(nb, ntops)
  <2> SUFFICES ASSUME NEW q \in Procs, NEW w \in VAs, NEW m \in 1..4, NEW j \in Indices,
                      N(q, w, m) # None, nb[N(q, w, m)][j] # None
               PROVE  \E x \in VAs : Same(w, x, m) /\ Index(x, m) = j
    BY DEF OnPath, N
  <2>1. A(q, w, m) # None /\ table[A(q, w, m)][j] # None
    BY <1>5
  <2> QED
    BY <1>a, <2>1 DEF Good, OnPath, A
<1>11. ToTable(nb, ntops)
  <2> SUFFICES ASSUME NEW q \in Procs, NEW w \in VAs, NEW m \in 2..4, N(q, w, m) # None
               PROVE  nb[N(q, w, m)][Index(w, m)] \in TableEntries \cup {None}
    BY DEF ToTable, N
  <2>1. m \in 1..4
    OBVIOUS
  <2>2. A(q, w, m) # None /\ nb[N(q, w, m)] = table[A(q, w, m)]
    BY <1>5, <2>1
  <2> QED
    BY <1>a, <2>2 DEF Good, ToTable, A
<1>12. ToFrame(nb, ntops)
  <2> SUFFICES ASSUME NEW q \in Procs, NEW w \in VAs, N(q, w, 1) # None
               PROVE  nb[N(q, w, 1)][Index(w, 1)] \in PageEntries \cup {None}
    BY DEF ToFrame, N
  <2>1. A(q, w, 1) # None /\ nb[N(q, w, 1)] = table[A(q, w, 1)]
    BY <1>5, 1 \in 1..4
  <2> QED
    BY <1>a, <2>1 DEF Good, ToFrame, A
<1>13. ASSUME NEW q \in Procs, NEW w \in VAs
       PROVE  EntryAt(nb, ntops, q, w) = IF q = p THEN None ELSE EntryAt(table, pml4, q, w)
  <2>1. CASE q = p
    <3>1. N(p, w, 1) = None
      BY <1>3, 1 \in 1..4
    <3> QED
      BY <2>1, <3>1 DEF EntryAt, N
  <2>2. CASE q # p
    <3>1. N(q, w, 1) = A(q, w, 1) /\ (A(q, w, 1) # None => nb[A(q, w, 1)] = table[A(q, w, 1)])
      BY <1>2, <1>4, <2>2, 1 \in 1..4
    <3> QED
      BY <2>2, <3>1 DEF EntryAt, A, N
  <2> QED
    BY <2>1, <2>2
<1> QED
  BY <1>6, <1>7, <1>8, <1>9, <1>10, <1>11, <1>12, <1>13 DEF Good

-----------------------------------------------------------------------------
(* The walk that creates the tables it misses: it finds the page table, or *)
(* it leaves what it found; no page changes its entry.                     *)
Restored(fr, tb, tops, nb) == Typed(fr, nb, tops) /\ \A k \in Pages \ fr : nb[k] = tb[k]

Walked(fr, tb, tops, p, v, r) == \E nfr, nb, pt :
    /\ r = [s |-> [free |-> nfr, table |-> nb], pt |-> pt]
    /\ pt = None => nfr = fr /\ Restored(fr, tb, tops, nb)
    /\ pt # None =>
          /\ Good(nfr, nb, tops) /\ pt = Node(nb, tops, p, v, 1)
          /\ \A q \in Procs, w \in VAs : EntryAt(nb, tops, q, w) = EntryAt(tb, tops, q, w)

Walking(fr, tb, tops, p, v, l, t) ==
    /\ Good(fr, tb, tops) /\ p \in Procs /\ v \in VAs /\ l \in 2..4
    /\ t = Node(tb, tops, p, v, l) /\ t # None

LEMMA EnterIs ==
    ASSUME NEW fr, NEW tb, NEW t, NEW i, NEW k
    PROVE  Enter([free |-> fr, table |-> tb], t, i, k) =
               [free |-> fr \ {k},
                table |-> [tb EXCEPT ![k] = Zero, ![t][i] = TableEntry(k)]]
BY DEF Enter

\* A table is missing, and there is a page for it.
LEMMA WalkEnters ==
    ASSUME PageTableAssumption, NEW fr, NEW tb, NEW tops, NEW p, NEW v, NEW l, NEW t,
           Walking(fr, tb, tops, p, v, l, t), ~Present(tb[t][Index(v, l)]), fr # {}, NEW k,
           k = NextFree(fr), NEW nb,
           nb = [tb EXCEPT ![k] = Zero, ![t][Index(v, l)] = TableEntry(k)]
    PROVE  Entering(fr, tb, tops, p, v, l, k, nb)
<1>1. k \in fr
  <2>1. fr \in SUBSET Nat
    BY DEF Walking, Good, Typed, PageTableAssumption
  <2> QED
    BY <2>1, FirstOf
<1> QED
  BY <1>1 DEF Entering, Walking

\* The walk below it failed: everything is as before.
LEMMA TakenBack ==
    ASSUME PageTableAssumption, NEW fr, NEW tb, NEW tops, NEW p, NEW v, NEW l, NEW k, NEW nb,
           Entering(fr, tb, tops, p, v, l, k, nb), NEW mb, Restored(fr \ {k}, nb, tops, mb), NEW rb,
           rb = [mb EXCEPT ![Node(tb, tops, p, v, l)][Index(v, l)] = None]
    PROVE  Restored(fr, tb, tops, rb)
<1> DEFINE t == Node(tb, tops, p, v, l)
           i == Index(v, l)
<1>1. /\ Good(fr, tb, tops) /\ k \in fr /\ k \in Pages /\ t \in Pages \ fr /\ i \in Indices
      /\ ~Present(tb[t][i]) /\ l \in 2..4 /\ p \in Procs /\ v \in VAs /\ t # None
      /\ nb = [tb EXCEPT ![k] = Zero, ![t][i] = TableEntry(k)]
  <2>1. l \in 1..4
    BY DEF Entering
  <2> QED
    BY <2>1, TableConstants DEF Entering, Good, Typed, InUse
<1>2. tb[t][i] = None
  <2>1. tb[t][i] \in TableEntries \cup {None}
    BY <1>1 DEF Good, ToTable
  <2>2. ASSUME tb[t][i] \in TableEntries PROVE FALSE
    BY <1>1, <2>2, TableConstants DEF TableEntries, TableEntry, Present
  <2> QED
    BY <2>1, <2>2
<1>3. /\ tb \in [Pages -> [Indices -> TableEntries \cup PageEntries \cup {None}]]
      /\ mb \in [Pages -> [Indices -> TableEntries \cup PageEntries \cup {None}]]
      /\ fr \subseteq Pages /\ tops \in [Procs -> Pages \cup {None}]
  BY <1>1 DEF Restored, Good, Typed
<1>4. /\ mb[t] = [tb[t] EXCEPT ![i] = TableEntry(k)]
      /\ \A x \in Pages \ fr : x # t => mb[x] = tb[x]
  BY <1>1, <1>3 DEF Restored
<1>5. rb \in [Pages -> [Indices -> TableEntries \cup PageEntries \cup {None}]]
  BY <1>1, <1>3
<1>6. rb[t] = tb[t]
  <2>1. rb[t] = [mb[t] EXCEPT ![i] = None]
    BY <1>1, <1>3
  <2>2. tb[t] \in [Indices -> TableEntries \cup PageEntries \cup {None}]
    BY <1>1, <1>3
  <2> QED
    BY <1>2, <1>4, <2>1, <2>2
<1>7. \A x \in Pages \ fr : rb[x] = tb[x]
  BY <1>1, <1>3, <1>4, <1>6
<1> QED
  BY <1>3, <1>5, <1>7 DEF Restored, Typed

\* What a walk gives back: the page table, or None.
LEMMA WalkFinds ==
    ASSUME NEW fr, NEW tb, NEW tops, NEW p, NEW v, NEW nfr, NEW nb,
           Good(nfr, nb, tops), Node(nb, tops, p, v, 1) # None,
           \A q \in Procs, w \in VAs : EntryAt(nb, tops, q, w) = EntryAt(tb, tops, q, w)
    PROVE  Walked(fr, tb, tops, p, v,
                  [s |-> [free |-> nfr, table |-> nb], pt |-> Node(nb, tops, p, v, 1)])
BY DEF Walked

LEMMA WalkFails ==
    ASSUME NEW fr, NEW tb, NEW tops, NEW p, NEW v, NEW nb, Restored(fr, tb, tops, nb)
    PROVE  Walked(fr, tb, tops, p, v, [s |-> [free |-> fr, table |-> nb], pt |-> None])
BY DEF Walked

LEMMA PgdirWalks ==
    ASSUME PageTableAssumption, NEW fr, NEW tb, NEW tops, NEW p, NEW v, NEW t,
           Walking(fr, tb, tops, p, v, 2, t)
    PROVE  Walked(fr, tb, tops, p, v, PgdirWalk([free |-> fr, table |-> tb], t, v))
<1> DEFINE s == [free |-> fr, table |-> tb]
           i == Index(v, 2)
           k == NextFree(fr)
           nb == [tb EXCEPT ![k] = Zero, ![t][i] = TableEntry(k)]
<1>1. CASE Present(tb[t][i])
  <2>1. PgdirWalk(s, t, v) = [s |-> s, pt |-> tb[t][i].to]
    BY <1>1 DEF PgdirWalk
  <2>2. tb[t][i] \in TableEntries
    BY <1>1 DEF Walking, Good, ToTable, Present
  <2>3. tb[t][i].to = Node(tb, tops, p, v, 1) /\ tb[t][i].to # None
    BY <1>1, <2>2, NodeDown, TableConstants, 2 \in 2..4, 2 - 1 = 1
       DEF Walking, Child, TableEntries, TableEntry
  <2>4. Walked(fr, tb, tops, p, v, [s |-> s, pt |-> Node(tb, tops, p, v, 1)])
    BY <2>3, WalkFinds DEF Walking
  <2> QED
    BY <2>1, <2>3, <2>4
<1>2. CASE ~Present(tb[t][i]) /\ fr = {}
  <2>1. PgdirWalk(s, t, v) = [s |-> s, pt |-> None]
    BY <1>2 DEF PgdirWalk
  <2>2. Restored(fr, tb, tops, tb)
    BY DEF Restored, Walking, Good
  <2> QED
    BY <2>1, <2>2, WalkFails
<1>3. CASE ~Present(tb[t][i]) /\ fr # {}
  <2>1. PgdirWalk(s, t, v) = [s |-> [free |-> fr \ {k}, table |-> nb], pt |-> k]
    BY <1>3, EnterIs DEF PgdirWalk
  <2>2. Entering(fr, tb, tops, p, v, 2, k, nb)
    BY <1>3, WalkEnters
  <2>3. k # None
    BY <2>2, TableConstants DEF Entering, Good, Typed
  <2> HIDE DEF nb, k
  <2>4. Entered(fr, tb, tops, p, v, 2, k, nb)
    BY <2>2, EnterGood
  <2>5. /\ Good(fr \ {k}, nb, tops) /\ Node(nb, tops, p, v, 1) = k
        /\ \A q \in Procs, w \in VAs : EntryAt(nb, tops, q, w) = EntryAt(tb, tops, q, w)
    BY <2>4, 2 - 1 = 1 DEF Entered
  <2>6. Walked(fr, tb, tops, p, v,
               [s |-> [free |-> fr \ {k}, table |-> nb], pt |-> Node(nb, tops, p, v, 1)])
    BY <2>3, <2>5, WalkFinds
  <2> QED
    BY <2>1, <2>5, <2>6
<1> QED
  BY <1>1, <1>2, <1>3

\* The same for a level above, around the walk below it.
LevelAround(fr, tb, tops, p, v, l, t, i, k, nb, below, r) ==
    /\ Walking(fr, tb, tops, p, v, l, t) /\ l > 2
    /\ k = NextFree(fr) /\ i = Index(v, l)
    /\ nb = [tb EXCEPT ![k] = Zero, ![t][i] = TableEntry(k)]
    /\ Present(tb[t][i]) =>
          /\ r = below
          /\ Walking(fr, tb, tops, p, v, l - 1, tb[t][i].to) => Walked(fr, tb, tops, p, v, below)
    /\ ~Present(tb[t][i]) /\ fr = {} => r = [s |-> [free |-> fr, table |-> tb], pt |-> None]
    /\ ~Present(tb[t][i]) /\ fr # {} =>
          /\ r = IF below.pt = None THEN [s |-> TakeBack(below.s, t, i, k), pt |-> None] ELSE below
          /\ Walking(fr \ {k}, nb, tops, p, v, l - 1, k)
             => Walked(fr \ {k}, nb, tops, p, v, below)

LEMMA LevelWalks ==
    ASSUME PageTableAssumption, NEW fr, NEW tb, NEW tops, NEW p, NEW v, NEW l, NEW t, NEW i, NEW k,
           NEW nb, NEW below, NEW r, LevelAround(fr, tb, tops, p, v, l, t, i, k, nb, below, r)
    PROVE  Walked(fr, tb, tops, p, v, r)
<1> USE DEF LevelAround
<1>1. CASE Present(tb[t][i])
  <2>1. tb[t][i] \in TableEntries
    BY <1>1 DEF Walking, Good, ToTable, Present
  <2>2. tb[t][i].to = Node(tb, tops, p, v, l - 1) /\ tb[t][i].to # None
    BY <1>1, <2>1, NodeDown, TableConstants DEF Walking, Child, TableEntries, TableEntry
  <2>3. l - 1 \in 2..4
    BY DEF Walking
  <2>4. Walking(fr, tb, tops, p, v, l - 1, tb[t][i].to)
    BY <2>2, <2>3 DEF Walking
  <2> QED
    BY <1>1, <2>4
<1>2. CASE ~Present(tb[t][i]) /\ fr = {}
  <2>1. Restored(fr, tb, tops, tb)
    BY DEF Restored, Walking, Good
  <2> QED
    BY <1>2, <2>1, WalkFails
<1>3. CASE ~Present(tb[t][i]) /\ fr # {}
  <2>1. Entering(fr, tb, tops, p, v, l, k, nb)
    BY <1>3, WalkEnters
  <2>2. k # None /\ k \in fr
    BY <2>1, TableConstants DEF Entering, Good, Typed
  <2>3. Entered(fr, tb, tops, p, v, l, k, nb)
    BY <2>1, EnterGood
  <2>4. l - 1 \in 2..4 /\ p \in Procs /\ v \in VAs
    BY DEF Walking
  <2>5. Walking(fr \ {k}, nb, tops, p, v, l - 1, k)
    BY <2>2, <2>3, <2>4 DEF Walking, Entered
  <2>6. Walked(fr \ {k}, nb, tops, p, v, below)
    BY <1>3, <2>5
  <2>7. PICK mfr, mb, pt :
          /\ below = [s |-> [free |-> mfr, table |-> mb], pt |-> pt]
          /\ pt = None => mfr = fr \ {k} /\ Restored(fr \ {k}, nb, tops, mb)
          /\ pt # None =>
                /\ Good(mfr, mb, tops) /\ pt = Node(mb, tops, p, v, 1)
                /\ \A q \in Procs, w \in VAs : EntryAt(mb, tops, q, w) = EntryAt(nb, tops, q, w)
    BY <2>6 DEF Walked
  <2>8. CASE pt = None
    <3> DEFINE rb == [mb EXCEPT ![t][i] = None]
    <3>1. r = [s |-> TakeBack(below.s, t, i, k), pt |-> None]
      BY <1>3, <2>7, <2>8
    <3>2. TakeBack(below.s, t, i, k) = [free |-> mfr \cup {k}, table |-> rb]
      <4>1. below.s = [free |-> mfr, table |-> mb]
        BY <2>7
      <4>2. below.s.free = mfr /\ below.s.table = mb
        BY <4>1
      <4> QED
        BY <4>2 DEF TakeBack
    <3>3. mfr \cup {k} = fr
      BY <2>2, <2>7, <2>8
    <3>4. t = Node(tb, tops, p, v, l)
      BY DEF Walking
    <3>5. Restored(fr, tb, tops, rb)
      BY <2>1, <2>7, <2>8, <3>4, TakenBack
    <3> HIDE DEF rb
    <3>6. Walked(fr, tb, tops, p, v, [s |-> [free |-> fr, table |-> rb], pt |-> None])
      BY <3>5, WalkFails
    <3> QED
      BY <3>1, <3>2, <3>3, <3>6
  <2>9. CASE pt # None
    <3>1. r = [s |-> [free |-> mfr, table |-> mb], pt |-> Node(mb, tops, p, v, 1)]
      BY <1>3, <2>7, <2>9
    <3>2. \A q \in Procs, w \in VAs : EntryAt(mb, tops, q, w) = EntryAt(tb, tops, q, w)
      BY <2>3, <2>7, <2>9 DEF Entered
    <3> QED
      BY <2>7, <2>9, <3>1, <3>2, WalkFinds
  <2> QED
    BY <2>8, <2>9
<1> QED
  BY <1>1, <1>2, <1>3

LEMMA PdpeWalks ==
    ASSUME PageTableAssumption, NEW fr, NEW tb, NEW tops, NEW p, NEW v, NEW t,
           Walking(fr, tb, tops, p, v, 3, t)
    PROVE  Walked(fr, tb, tops, p, v, PdpeWalk([free |-> fr, table |-> tb], t, v))
<1> DEFINE s == [free |-> fr, table |-> tb]
           i == Index(v, 3)
           k == NextFree(fr)
           nb == [tb EXCEPT ![k] = Zero, ![t][i] = TableEntry(k)]
           ns == [free |-> fr \ {k}, table |-> nb]
           below == IF Present(tb[t][i]) THEN PgdirWalk(s, tb[t][i].to, v) ELSE PgdirWalk(ns, k, v)
<1>1. Enter(s, t, i, k) = ns
  BY EnterIs
<1>2. PdpeWalk(s, t, v) =
          IF Present(tb[t][i]) THEN below
          ELSE IF fr = {} THEN [s |-> s, pt |-> None]
          ELSE IF below.pt = None THEN [s |-> TakeBack(below.s, t, i, k), pt |-> None]
          ELSE below
  BY <1>1 DEF PdpeWalk, Level
<1>3. ASSUME Present(tb[t][i]), Walking(fr, tb, tops, p, v, 2, tb[t][i].to)
      PROVE  Walked(fr, tb, tops, p, v, below)
  BY <1>3, PgdirWalks
<1>4. ASSUME ~Present(tb[t][i]), Walking(fr \ {k}, nb, tops, p, v, 2, k)
      PROVE  Walked(fr \ {k}, nb, tops, p, v, below)
  <2> HIDE DEF nb, k
  <2>1. Walked(fr \ {k}, nb, tops, p, v, PgdirWalk(ns, k, v))
    BY <1>4, PgdirWalks
  <2> QED
    BY <1>4, <2>1
<1>5. /\ k = NextFree(fr) /\ i = Index(v, 3) /\ nb = [tb EXCEPT ![k] = Zero, ![t][i] = TableEntry(k)]
      /\ s = [free |-> fr, table |-> tb] /\ 3 > 2 /\ 3 - 1 = 2
  OBVIOUS
<1> HIDE DEF s, i, k, nb, ns, below
<1>6. LevelAround(fr, tb, tops, p, v, 3, t, i, k, nb, below, PdpeWalk(s, t, v))
  BY <1>2, <1>3, <1>4, <1>5 DEF LevelAround
<1> QED
  BY <1>5, <1>6, LevelWalks

LEMMA Pml4eWalks ==
    ASSUME PageTableAssumption, NEW fr, NEW tb, NEW tops, NEW p, NEW v, NEW t,
           Walking(fr, tb, tops, p, v, 4, t)
    PROVE  Walked(fr, tb, tops, p, v, Pml4eWalk([free |-> fr, table |-> tb], t, v))
<1> DEFINE s == [free |-> fr, table |-> tb]
           i == Index(v, 4)
           k == NextFree(fr)
           nb == [tb EXCEPT ![k] = Zero, ![t][i] = TableEntry(k)]
           ns == [free |-> fr \ {k}, table |-> nb]
           below == IF Present(tb[t][i]) THEN PdpeWalk(s, tb[t][i].to, v) ELSE PdpeWalk(ns, k, v)
<1>1. Enter(s, t, i, k) = ns
  BY EnterIs
<1>2. Pml4eWalk(s, t, v) =
          IF Present(tb[t][i]) THEN below
          ELSE IF fr = {} THEN [s |-> s, pt |-> None]
          ELSE IF below.pt = None THEN [s |-> TakeBack(below.s, t, i, k), pt |-> None]
          ELSE below
  BY <1>1 DEF Pml4eWalk, Level
<1>3. ASSUME Present(tb[t][i]), Walking(fr, tb, tops, p, v, 3, tb[t][i].to)
      PROVE  Walked(fr, tb, tops, p, v, below)
  BY <1>3, PdpeWalks
<1>4. ASSUME ~Present(tb[t][i]), Walking(fr \ {k}, nb, tops, p, v, 3, k)
      PROVE  Walked(fr \ {k}, nb, tops, p, v, below)
  <2> HIDE DEF nb, k
  <2>1. Walked(fr \ {k}, nb, tops, p, v, PdpeWalk(ns, k, v))
    BY <1>4, PdpeWalks
  <2> QED
    BY <1>4, <2>1
<1>5. /\ k = NextFree(fr) /\ i = Index(v, 4) /\ nb = [tb EXCEPT ![k] = Zero, ![t][i] = TableEntry(k)]
      /\ s = [free |-> fr, table |-> tb] /\ 4 > 2 /\ 4 - 1 = 3
  OBVIOUS
<1> HIDE DEF s, i, k, nb, ns, below
<1>6. LevelAround(fr, tb, tops, p, v, 4, t, i, k, nb, below, Pml4eWalk(s, t, v))
  BY <1>2, <1>3, <1>4, <1>5 DEF LevelAround
<1> QED
  BY <1>5, <1>6, LevelWalks

-----------------------------------------------------------------------------
(* The operations.  Each leaves good tables, and changes the entries its   *)
(* abstract counterpart changes.                                           *)
EntriesStay == \A q \in Procs, w \in VAs : EntryOf(q, w)' = EntryOf(q, w)
EntryBecomes(p, v, e) == \A q \in Procs, w \in VAs :
    EntryOf(q, w)' = IF q = p /\ w = v THEN e ELSE EntryOf(q, w)

LEMMA EntryOfNext ==
    ASSUME NEW p, NEW v
    PROVE  EntryOf(p, v)' = EntryAt(table', pml4', p, v)
BY EntryIs DEF EntryOf, Live

LEMMA CreateStep ==
    ASSUME PageTableAssumption, TablesInv, NEW p \in Procs, Pml4Create(p)
    PROVE  Good(free', table', pml4') /\ EntriesStay /\ pool' = pool
<1>1. NextFree(free) \in free
  BY FirstOf DEF TablesInv, Good, Typed, PageTableAssumption, Pml4Create
<1>2. Creating(free, table, pml4, p, NextFree(free), table', pml4')
  BY <1>1 DEF Creating, TablesInv, Pml4Create, Live
<1>3. /\ Good(free \ {NextFree(free)}, table', pml4')
      /\ \A q \in Procs, w \in VAs : EntryAt(table', pml4', q, w) = EntryAt(table, pml4, q, w)
  BY <1>2, CreateGood
<1> QED
  BY <1>3, EntryOfIs, EntryOfNext DEF Pml4Create, EntriesStay

NewEntry == [to |-> NextFree(pool), flags |-> {"P"}]

LEMMA SetPageStep ==
    ASSUME PageTableAssumption, TablesInv, NEW p \in Procs, NEW v \in VAs, Pml4SetPage(p, v)
    PROVE  /\ Good(free', table', pml4') /\ NextFree(pool) \in pool
           /\ \/ EntriesStay /\ pool' = pool
              \/ EntryBecomes(p, v, NewEntry) /\ pool' = pool \ {NextFree(pool)}
<1> DEFINE r == Pml4eWalk([free |-> free, table |-> table], pml4[p], v)
<1>0. Good(free, table, pml4) /\ pool \subseteq Frames /\ pml4' = pml4
  BY DEF TablesInv, Pml4SetPage
<1>1. Walking(free, table, pml4, p, v, 4, pml4[p])
  BY NodeTop, 4 \in 2..4 DEF Walking, TablesInv, Pml4SetPage, Live
<1>2. Walked(free, table, pml4, p, v, r)
  BY <1>1, Pml4eWalks
<1>3. PICK nfr, nb, pt :
        /\ r = [s |-> [free |-> nfr, table |-> nb], pt |-> pt]
        /\ pt = None => nfr = free /\ Restored(free, table, pml4, nb)
        /\ pt # None =>
              /\ Good(nfr, nb, pml4) /\ pt = Node(nb, pml4, p, v, 1)
              /\ \A q \in Procs, w \in VAs : EntryAt(nb, pml4, q, w) = EntryAt(table, pml4, q, w)
  BY <1>2 DEF Walked
<1>4. NextFree(pool) \in pool
  BY <1>0, FirstOf DEF Pml4SetPage, PageTableAssumption
<1>5. /\ free' = nfr
      /\ \/ pt = None /\ table' = nb /\ UNCHANGED pool
         \/ /\ pt # None
            /\ table' = [nb EXCEPT ![pt][Index(v, 1)] = NewEntry]
            /\ pool' = pool \ {NextFree(pool)}
  BY <1>3 DEF Pml4SetPage, NewEntry
<1>6. CASE pt = None
  <2>1. /\ Good(free, nb, pml4)
        /\ \A q \in Procs, w \in VAs : EntryAt(nb, pml4, q, w) = EntryAt(table, pml4, q, w)
    BY <1>0, <1>3, <1>6, AgreeGood DEF Restored
  <2>2. free' = free /\ table' = nb /\ pool' = pool
    BY <1>3, <1>5, <1>6
  <2>3. EntriesStay
    BY <1>0, <2>1, <2>2, EntryOfIs, EntryOfNext DEF EntriesStay
  <2> QED
    BY <1>0, <1>4, <2>1, <2>2, <2>3
<1>7. CASE pt # None
  <2>1. NewEntry \in PageEntries
    BY <1>0, <1>4 DEF NewEntry, PageEntries, UserFlags
  <2>2. /\ Good(nfr, table', pml4)
        /\ \A q \in Procs, w \in VAs : EntryAt(table', pml4, q, w) =
               IF q = p /\ w = v THEN NewEntry ELSE EntryAt(nb, pml4, q, w)
    <3>1. Changing(nfr, nb, pml4, p, v, NewEntry, table')
      BY <1>3, <1>5, <1>7, <2>1 DEF Changing
    <3> QED
      BY <3>1, LeafGood
  <2>3. EntryBecomes(p, v, NewEntry)
    BY <1>0, <1>3, <1>7, <2>2, EntryOfIs, EntryOfNext DEF EntryBecomes
  <2> QED
    BY <1>0, <1>4, <1>5, <1>7, <2>2, <2>3
<1> QED
  BY <1>6, <1>7

\* An operation on the entry of v, which is not 0.
LEMMA EntryStep ==
    ASSUME PageTableAssumption, Good(free, table, pml4), NEW p \in Procs, NEW v \in VAs,
           EntryOf(p, v) # None, NEW e \in PageEntries, pml4' = pml4, free' = free,
           table' = [table EXCEPT ![Walk(table, pml4[p], v)][Index(v, 1)] = e]
    PROVE  Good(free', table', pml4') /\ EntryBecomes(p, v, e)
<1>1. Node(table, pml4, p, v, 1) # None /\ Node(table, pml4, p, v, 1) = Walk(table, pml4[p], v)
  BY EntryOfIs, NodeTop DEF EntryAt
<1>2. /\ Good(free, table', pml4)
      /\ \A q \in Procs, w \in VAs : EntryAt(table', pml4, q, w) =
             IF q = p /\ w = v THEN e ELSE EntryAt(table, pml4, q, w)
  <2>1. Changing(free, table, pml4, p, v, e, table')
    BY <1>1 DEF Changing
  <2>2. \A nb : Changing(free, table, pml4, p, v, e, nb) =>
            /\ Good(free, nb, pml4)
            /\ \A q \in Procs, w \in VAs : EntryAt(nb, pml4, q, w) =
                   IF q = p /\ w = v THEN e ELSE EntryAt(table, pml4, q, w)
    BY LeafGood
  <2> QED
    BY <2>1, <2>2
<1> QED
  BY <1>2, EntryOfIs, EntryOfNext DEF EntryBecomes

LEMMA EntryTyped ==
    ASSUME PageTableAssumption, Good(free, table, pml4), NEW p \in Procs, NEW v \in VAs,
           EntryOf(p, v) # None
    PROVE  /\ EntryOf(p, v) \in PageEntries
           /\ EntryOf(p, v) = table[Walk(table, pml4[p], v)][Index(v, 1)]
           /\ Walk(table, pml4[p], v) \in Pages /\ Index(v, 1) \in Indices
BY EntryOfIs, NodeTop, TableConstants, 1 \in 1..4 DEF EntryAt, Good, ToFrame, InUse

LEMMA ClearStep ==
    ASSUME PageTableAssumption, TablesInv, NEW p \in Procs, NEW v \in VAs, Pml4ClearPage(p, v)
    PROVE  /\ Good(free', table', pml4')
           /\ EntryBecomes(p, v, [to |-> EntryOf(p, v).to, flags |-> EntryOf(p, v).flags \ {"P"}])
<1> DEFINE e == [to |-> EntryOf(p, v).to, flags |-> EntryOf(p, v).flags \ {"P"}]
           pt == Walk(table, pml4[p], v)
<1>1. Good(free, table, pml4) /\ EntryOf(p, v) # None
  BY DEF TablesInv, Pml4ClearPage, Present
<1>2. EntryOf(p, v) \in PageEntries /\ EntryOf(p, v) = table[pt][Index(v, 1)]
  BY <1>1, EntryTyped
<1>3. e \in PageEntries
  BY <1>2 DEF PageEntries, UserFlags
<1>4. [EntryOf(p, v) EXCEPT !.flags = @ \ {"P"}] = e
  BY <1>2 DEF PageEntries
<1>5. table' = [table EXCEPT ![pt][Index(v, 1)] = e]
  BY <1>2, <1>4 DEF Pml4ClearPage
<1>6. pml4' = pml4 /\ free' = free
  BY DEF Pml4ClearPage
<1>7. Good(free', table', pml4') /\ EntryBecomes(p, v, e)
  <2> HIDE DEF e
  <2> QED
    BY <1>1, <1>3, <1>5, <1>6, EntryStep
<1> QED
  BY <1>1, <1>6, <1>7

LEMMA FlagStep ==
    ASSUME PageTableAssumption, TablesInv, NEW p \in Procs, NEW v \in VAs, NEW f \in Flags,
           NEW on \in BOOLEAN, Pml4SetFlag(p, v, f, on)
    PROVE  /\ Good(free', table', pml4') /\ pool' = pool /\ EntryOf(p, v) # None
           /\ EntryBecomes(p, v, [to |-> EntryOf(p, v).to,
                  flags |-> IF on THEN EntryOf(p, v).flags \cup {f} ELSE EntryOf(p, v).flags \ {f}])
<1> DEFINE e == [to |-> EntryOf(p, v).to,
                 flags |-> IF on THEN EntryOf(p, v).flags \cup {f} ELSE EntryOf(p, v).flags \ {f}]
           pt == Walk(table, pml4[p], v)
<1>1. Good(free, table, pml4) /\ EntryOf(p, v) # None
  BY DEF TablesInv, Pml4SetFlag
<1>2. EntryOf(p, v) \in PageEntries /\ EntryOf(p, v) = table[pt][Index(v, 1)]
  BY <1>1, EntryTyped
<1>3. e \in PageEntries
  BY <1>2 DEF PageEntries, UserFlags
<1>4. [EntryOf(p, v) EXCEPT !.flags = IF on THEN @ \cup {f} ELSE @ \ {f}] = e
  BY <1>2 DEF PageEntries
<1>5. table' = [table EXCEPT ![pt][Index(v, 1)] = e]
  BY <1>2, <1>4 DEF Pml4SetFlag
<1>6. pml4' = pml4 /\ free' = free /\ pool' = pool
  BY DEF Pml4SetFlag
<1>7. Good(free', table', pml4') /\ EntryBecomes(p, v, e)
  <2> HIDE DEF e
  <2> QED
    BY <1>1, <1>3, <1>5, <1>6, EntryStep
<1> QED
  BY <1>1, <1>6, <1>7

LEMMA DestroyStep ==
    ASSUME PageTableAssumption, TablesInv, NEW p \in Procs, Pml4Destroy(p)
    PROVE  /\ Good(free', table', pml4')
           /\ \A q \in Procs, w \in VAs :
                  EntryOf(q, w)' = IF q = p THEN None ELSE EntryOf(q, w)
           /\ pool' = pool \cup {EntryOf(p, v).to : v \in {v \in VAs : Present(EntryOf(p, v))}}
<1>1. Destroying(p, free', table', pml4')
  BY DEF Destroying, TablesInv, Pml4Destroy
<1>2. /\ Good(free', table', pml4')
      /\ \A q \in Procs, w \in VAs : EntryAt(table', pml4', q, w) =
             IF q = p THEN None ELSE EntryAt(table, pml4, q, w)
  BY <1>1, DestroyGood
<1>3. PageTables(pml4[p]) = Row(p, 1)
  BY TablesAre DEF TablesInv, Pml4Destroy
<1>4. Below(Row(p, 1)) = {EntryOf(p, v).to : v \in {v \in VAs : Present(EntryOf(p, v))}}
  BY FramesBelow DEF TablesInv
<1> QED
  BY <1>2, <1>3, <1>4, EntryOfIs, EntryOfNext DEF Pml4Destroy

-----------------------------------------------------------------------------
(* The map per process that the tables are, and who owns the frames.       *)
Map == [p \in Procs |-> [v \in VAs |-> EntryOf(p, v)]]
Owner(m, p, v, k) == Present(m[p][v]) /\ m[p][v].to = k
Owned(m, pl) ==
    /\ \A k \in Frames \ pl : \E p \in Procs, v \in VAs : Owner(m, p, v, k)
    /\ \A p \in Procs, v \in VAs : \A k : Owner(m, p, v, k) => k \in Frames \ pl
    /\ \A p, q \in Procs, v, w \in VAs : \A k :
           Owner(m, p, v, k) /\ Owner(m, q, w, k) => p = q /\ v = w

LEMMA OwnedIs == FramesAreOwned <=> Owned(Map, pool)
<1> DEFINE mapped == {m \in Procs \X VAs : Present(EntryOf(m[1], m[2]))}
<1>1. \A p \in Procs, v \in VAs : Map[p][v] = EntryOf(p, v)
  BY DEF Map
<1>2. /\ \A m \in mapped : /\ m[1] \in Procs /\ m[2] \in VAs /\ m = <<m[1], m[2]>>
                           /\ Owner(Map, m[1], m[2], EntryOf(m[1], m[2]).to)
      /\ \A p \in Procs, v \in VAs : \A k : Owner(Map, p, v, k) =>
             <<p, v>> \in mapped /\ EntryOf(<<p, v>>[1], <<p, v>>[2]).to = k
  BY <1>1 DEF Owner
<1>3. FramesAreOwned <=>
        /\ Frames \ pool = {EntryOf(m[1], m[2]).to : m \in mapped}
        /\ \A m, n \in mapped : EntryOf(m[1], m[2]).to = EntryOf(n[1], n[2]).to => m = n
  BY DEF FramesAreOwned
<1> HIDE DEF mapped
<1>4. ASSUME FramesAreOwned PROVE Owned(Map, pool)
  <2>1. ASSUME NEW k \in Frames \ pool PROVE \E p \in Procs, v \in VAs : Owner(Map, p, v, k)
    BY <1>2, <1>3, <1>4
  <2>2. ASSUME NEW k, NEW p \in Procs, NEW v \in VAs, Owner(Map, p, v, k) PROVE k \in Frames \ pool
    <3> DEFINE m == <<p, v>>
    <3>1. m \in mapped /\ EntryOf(m[1], m[2]).to = k
      BY <1>2, <2>2
    <3> HIDE DEF m
    <3> QED
      BY <1>3, <1>4, <3>1
  <2>3. ASSUME NEW k, NEW p \in Procs, NEW q \in Procs, NEW v \in VAs, NEW w \in VAs,
               Owner(Map, p, v, k), Owner(Map, q, w, k)
        PROVE  p = q /\ v = w
    <3> DEFINE m == <<p, v>>
               n == <<q, w>>
    <3>1. m \in mapped /\ EntryOf(m[1], m[2]).to = k /\ n \in mapped /\ EntryOf(n[1], n[2]).to = k
      BY <1>2, <2>3
    <3>2. m = n
      <4> HIDE DEF m, n
      <4> QED
        BY <1>3, <1>4, <3>1
    <3> QED
      BY <3>2
  <2> QED
    BY <2>1, <2>2, <2>3 DEF Owned
<1>5. ASSUME Owned(Map, pool) PROVE FramesAreOwned
  <2>1. Frames \ pool = {EntryOf(m[1], m[2]).to : m \in mapped}
    <3>1. ASSUME NEW k \in Frames \ pool PROVE \E m \in mapped : EntryOf(m[1], m[2]).to = k
      BY <1>2, <1>5 DEF Owned
    <3>2. ASSUME NEW m \in mapped PROVE EntryOf(m[1], m[2]).to \in Frames \ pool
      BY <1>2, <1>5 DEF Owned
    <3> QED
      BY <3>1, <3>2
  <2>2. ASSUME NEW m \in mapped, NEW n \in mapped, EntryOf(m[1], m[2]).to = EntryOf(n[1], n[2]).to
        PROVE  m = n
    <3>1. m[1] = n[1] /\ m[2] = n[2]
      BY <1>2, <1>5, <2>2 DEF Owned
    <3> QED
      BY <1>2, <3>1
  <2> QED
    BY <1>3, <2>1, <2>2
<1> QED
  BY <1>4, <1>5

\* Nothing is mapped or unmapped.
LEMMA OwnedKept ==
    ASSUME NEW m, NEW n, NEW pl, Owned(m, pl),
           \A p \in Procs, v \in VAs : \A k : Owner(n, p, v, k) <=> Owner(m, p, v, k)
    PROVE  Owned(n, pl)
BY DEF Owned

\* Mapping takes a free frame, by a page that has none.
LEMMA OwnedMore ==
    ASSUME NEW m, NEW n, NEW pl \in SUBSET Frames, NEW p \in Procs, NEW v \in VAs, NEW k \in pl,
           Owned(m, pl), \A j : ~Owner(m, p, v, j),
           \A q \in Procs, w \in VAs : \A j :
               Owner(n, q, w, j) <=> Owner(m, q, w, j) \/ (q = p /\ w = v /\ j = k)
    PROVE  Owned(n, pl \ {k})
<1>1. ASSUME NEW j \in Frames \ (pl \ {k}) PROVE \E q \in Procs, w \in VAs : Owner(n, q, w, j)
  <2>1. CASE j = k
    BY <2>1
  <2>2. CASE j # k
    <3>1. PICK q \in Procs, w \in VAs : Owner(m, q, w, j)
      BY <2>2 DEF Owned
    <3> QED
      BY <3>1
  <2> QED
    BY <2>1, <2>2
<1>2. ASSUME NEW j, NEW q \in Procs, NEW w \in VAs, Owner(n, q, w, j)
      PROVE  j \in Frames \ (pl \ {k})
  BY <1>2 DEF Owned
<1>3. ASSUME NEW j, NEW q \in Procs, NEW x \in Procs, NEW w \in VAs, NEW y \in VAs,
             Owner(n, q, w, j), Owner(n, x, y, j)
      PROVE  q = x /\ w = y
  BY <1>3 DEF Owned
<1> QED
  BY <1>1, <1>2, <1>3 DEF Owned

\* The frames of some pages go back.
Freed(m, G) == {j \in Frames : \E q \in Procs, w \in VAs : <<q, w>> \in G /\ Owner(m, q, w, j)}

LEMMA OwnedLess ==
    ASSUME NEW m, NEW n, NEW pl \in SUBSET Frames, NEW G, Owned(m, pl),
           \A q \in Procs, w \in VAs : \A j :
               Owner(n, q, w, j) <=> Owner(m, q, w, j) /\ <<q, w>> \notin G
    PROVE  Owned(n, pl \cup Freed(m, G))
<1> DEFINE B == Freed(m, G)
<1>1. ASSUME NEW j \in Frames \ (pl \cup B) PROVE \E q \in Procs, w \in VAs : Owner(n, q, w, j)
  <2>1. PICK q \in Procs, w \in VAs : Owner(m, q, w, j)
    BY DEF Owned
  <2> QED
    BY <2>1 DEF Freed
<1>2. ASSUME NEW j, NEW q \in Procs, NEW w \in VAs, Owner(n, q, w, j)
      PROVE  j \in Frames \ (pl \cup B)
  <2>1. Owner(m, q, w, j) /\ <<q, w>> \notin G
    BY <1>2
  <2>2. j \in Frames \ pl
    BY <2>1 DEF Owned
  <2>3. ASSUME j \in B PROVE FALSE
    <3>1. PICK x \in Procs, y \in VAs : <<x, y>> \in G /\ Owner(m, x, y, j)
      BY <2>3 DEF Freed
    <3>2. x = q /\ y = w
      BY <2>1, <3>1 DEF Owned
    <3> QED
      BY <2>1, <3>1, <3>2
  <2> QED
    BY <2>2, <2>3
<1>3. ASSUME NEW j, NEW q \in Procs, NEW x \in Procs, NEW w \in VAs, NEW y \in VAs,
             Owner(n, q, w, j), Owner(n, x, y, j)
      PROVE  q = x /\ w = y
  <2>1. Owner(m, q, w, j) /\ Owner(m, x, y, j)
    BY <1>3
  <2> QED
    BY <2>1 DEF Owned
<1> HIDE DEF B
<1>4. Owned(n, pl \cup B)
  BY <1>1, <1>2, <1>3 DEF Owned
<1> QED
  BY <1>4 DEF B

LEMMA MapIs == \A p \in Procs, v \in VAs : Map[p][v] = EntryOf(p, v)
BY DEF Map

LEMMA MapStays ==
    ASSUME EntriesStay
    PROVE  Map' = Map
BY DEF Map, EntriesStay

LEMMA MapBecomes ==
    ASSUME NEW p \in Procs, NEW v \in VAs, NEW e, EntryBecomes(p, v, e)
    PROVE  Map' = [Map EXCEPT ![p][v] = e]
<1>1. \A q \in Procs, w \in VAs : EntryOf(q, w)' = IF q = p /\ w = v THEN e ELSE EntryOf(q, w)
  BY DEF EntryBecomes
<1>2. Map' = [q \in Procs |-> [w \in VAs |-> IF q = p /\ w = v THEN e ELSE EntryOf(q, w)]]
  BY <1>1 DEF Map
<1>3. Map[p] = [w \in VAs |-> EntryOf(p, w)]
  BY DEF Map
<1>4. [Map EXCEPT ![p][v] = e] =
          [q \in Procs |-> IF q = p THEN [w \in VAs |-> IF w = v THEN e ELSE EntryOf(p, w)] ELSE Map[q]]
  BY <1>3 DEF Map
<1>5. \A q \in Procs : q # p => Map[q] = [w \in VAs |-> EntryOf(q, w)]
  BY DEF Map
<1>6. ASSUME NEW q \in Procs
      PROVE  [w \in VAs |-> IF q = p /\ w = v THEN e ELSE EntryOf(q, w)] =
                 IF q = p THEN [w \in VAs |-> IF w = v THEN e ELSE EntryOf(p, w)] ELSE Map[q]
  BY <1>5
<1> QED
  BY <1>2, <1>4, <1>6

\* What becomes of an owner when an entry does.
LEMMA OwnerBecomes ==
    ASSUME NEW p \in Procs, NEW v \in VAs, NEW e, EntryBecomes(p, v, e),
           NEW q \in Procs, NEW w \in VAs, NEW k
    PROVE  Owner(Map', q, w, k) <=>
               IF q = p /\ w = v THEN Present(e) /\ e.to = k ELSE Owner(Map, q, w, k)
<1>1. Map'[q][w] = IF q = p /\ w = v THEN e ELSE Map[q][w]
  BY DEF Map, EntryBecomes
<1> QED
  BY <1>1 DEF Owner
-----------------------------------------------------------------------------
(* Every step keeps the frames owned, and is a step of the map or none.    *)
Maps == Owned(Map', pool') /\ pool' \subseteq Frames /\ [Spaces!Next]_(Spaces!vars)

LEMMA StayMaps ==
    ASSUME TablesInv, EntriesStay, pool' = pool
    PROVE  Maps
<1>1. Map' = Map
  BY MapStays
<1>2. UNCHANGED Spaces!vars
  BY <1>1 DEF Spaces!vars, Map
<1>3. Owned(Map', pool')
  BY <1>1, OwnedIs DEF TablesInv
<1> QED
  BY <1>2, <1>3 DEF Maps, TablesInv

LEMMA SetPageMaps ==
    ASSUME PageTableAssumption, TablesInv, NEW p \in Procs, NEW v \in VAs, Pml4SetPage(p, v),
           NextFree(pool) \in pool, EntryBecomes(p, v, NewEntry), pool' = pool \ {NextFree(pool)}
    PROVE  Maps
<1> DEFINE k == NextFree(pool)
<1>1. pool \in SUBSET Frames /\ Owned(Map, pool) /\ k \in pool
  BY OwnedIs DEF TablesInv
<1>2. ~Present(EntryOf(p, v)) /\ Map[p][v] = EntryOf(p, v)
  BY MapIs DEF Pml4SetPage
<1>3. Present(NewEntry) /\ NewEntry.to = k
  <2>1. k \in Nat
    BY <1>1 DEF PageTableAssumption
  <2>2. NewEntry \in [to : Nat, flags : SUBSET (Flags \cup {"P"})]
    BY <2>1 DEF NewEntry
  <2> QED
    BY <2>2 DEF PageTableAssumption, Present, NewEntry
<1>4. Owned(Map', pool')
  <2>1. \A j : ~Owner(Map, p, v, j)
    BY <1>2 DEF Owner
  <2>2. \A q \in Procs, w \in VAs : \A j :
            Owner(Map', q, w, j) <=> Owner(Map, q, w, j) \/ (q = p /\ w = v /\ j = k)
    BY <1>3, <2>1, OwnerBecomes
  <2> HIDE DEF k
  <2>3. Owned(Map', pool \ {k})
    BY <1>1, <2>1, <2>2, OwnedMore
  <2> QED
    BY <2>3 DEF k
<1>5. Map' = [Map EXCEPT ![p][v] = [to |-> k, flags |-> {"P"}]]
  BY MapBecomes DEF NewEntry
<1>6. Map[p][v] = None \/ (Map[p][v] # None /\ "P" \notin Map[p][v].flags)
  BY <1>2 DEF Present
<1>7. Spaces!Map(p, v)
  BY <1>1, <1>5, <1>6 DEF Spaces!Map, Spaces!Set, Map
<1>8. Spaces!Next
  BY <1>7 DEF Spaces!Next
<1> QED
  BY <1>1, <1>4, <1>8 DEF Maps

LEMMA ClearMaps ==
    ASSUME PageTableAssumption, TablesInv, NEW p \in Procs, NEW v \in VAs, Pml4ClearPage(p, v),
           EntryBecomes(p, v, [to |-> EntryOf(p, v).to, flags |-> EntryOf(p, v).flags \ {"P"}])
    PROVE  Maps
<1> DEFINE e == [to |-> EntryOf(p, v).to, flags |-> EntryOf(p, v).flags \ {"P"}]
           k == EntryOf(p, v).to
<1>1. pool \in SUBSET Frames /\ Owned(Map, pool) /\ Good(free, table, pml4)
  BY OwnedIs DEF TablesInv
<1>2. Present(EntryOf(p, v)) /\ Map[p][v] = EntryOf(p, v) /\ pool' = pool \cup {k}
  BY MapIs DEF Pml4ClearPage
<1>3. EntryOf(p, v) \in PageEntries /\ k \in Frames
  <2>1. EntryOf(p, v) \in PageEntries
    BY <1>1, <1>2, EntryTyped DEF Present
  <2> QED
    BY <2>1 DEF PageEntries
<1>4. ~Present(e)
  BY DEF Present
<1>5. Owned(Map', pool')
  <2> DEFINE G == {<<p, v>>}
             B == Freed(Map, G)
  <2>1. \A q \in Procs, w \in VAs : <<q, w>> \in G <=> q = p /\ w = v
    OBVIOUS
  <2>2. ASSUME NEW q \in Procs, NEW w \in VAs, NEW j
        PROVE  Owner(Map', q, w, j) <=> Owner(Map, q, w, j) /\ <<q, w>> \notin G
    <3>1. Owner(Map', q, w, j) <=> IF q = p /\ w = v THEN Present(e) /\ e.to = j ELSE Owner(Map, q, w, j)
      <4> HIDE DEF e
      <4> QED
        BY OwnerBecomes DEF e
    <3> QED
      BY <1>4, <2>1, <3>1
  <2>3. \A j : Owner(Map, p, v, j) <=> j = k
    BY <1>2 DEF Owner
  <2>4. B = {k}
    BY <1>3, <2>1, <2>3 DEF Freed
  <2>5. Owned(Map', pool \cup B)
    <3> HIDE DEF G
    <3> QED
      BY <1>1, <2>2, OwnedLess, Zenon
  <2> QED
    BY <1>2, <2>4, <2>5
<1>6. Map' = [Map EXCEPT ![p][v].flags = @ \ {"P"}]
  <2>1. Map' = [Map EXCEPT ![p][v] = e]
    BY MapBecomes
  <2>2. [Map[p][v] EXCEPT !.flags = @ \ {"P"}] = e
    BY <1>2, <1>3 DEF PageEntries
  <2> QED
    BY <2>1, <2>2
<1>7. Spaces!Unmap(p, v)
  BY <1>2, <1>6 DEF Spaces!Unmap, Map, Present
<1>8. Spaces!Next
  BY <1>7 DEF Spaces!Next
<1> QED
  BY <1>1, <1>2, <1>3, <1>5, <1>8 DEF Maps

LEMMA FlagMaps ==
    ASSUME PageTableAssumption, TablesInv, NEW p \in Procs, NEW v \in VAs, NEW f \in Flags,
           NEW on \in BOOLEAN, pool' = pool, EntryOf(p, v) # None,
           EntryBecomes(p, v, [to |-> EntryOf(p, v).to,
                  flags |-> IF on THEN EntryOf(p, v).flags \cup {f} ELSE EntryOf(p, v).flags \ {f}])
    PROVE  Maps
<1> DEFINE e == [to |-> EntryOf(p, v).to,
                 flags |-> IF on THEN EntryOf(p, v).flags \cup {f} ELSE EntryOf(p, v).flags \ {f}]
<1>1. pool \in SUBSET Frames /\ Owned(Map, pool) /\ Good(free, table, pml4)
  BY OwnedIs DEF TablesInv
<1>2. EntryOf(p, v) \in PageEntries /\ Map[p][v] = EntryOf(p, v)
  BY <1>1, EntryTyped, MapIs
<1>3. e # None /\ (Present(e) <=> Present(EntryOf(p, v))) /\ e.to = EntryOf(p, v).to
  <2>1. e \in PageEntries
    BY <1>2 DEF PageEntries, UserFlags
  <2>2. e # None
    BY <2>1, TableConstants
  <2> QED
    BY <2>2 DEF Present, PageTableAssumption
<1>4. Owned(Map', pool')
  <2>1. ASSUME NEW q \in Procs, NEW w \in VAs, NEW j
        PROVE  Owner(Map', q, w, j) <=> Owner(Map, q, w, j)
    <3>1. Owner(Map', q, w, j) <=> IF q = p /\ w = v THEN Present(e) /\ e.to = j ELSE Owner(Map, q, w, j)
      <4> HIDE DEF e
      <4> QED
        BY OwnerBecomes DEF e
    <3> QED
      BY <1>2, <1>3, <3>1 DEF Owner
  <2> QED
    BY <1>1, <2>1, OwnedKept
<1>5. Map' = [Map EXCEPT ![p][v].flags = IF on THEN @ \cup {f} ELSE @ \ {f}]
  <2>1. Map' = [Map EXCEPT ![p][v] = e]
    BY MapBecomes
  <2>2. [Map[p][v] EXCEPT !.flags = IF on THEN @ \cup {f} ELSE @ \ {f}] = e
    BY <1>2 DEF PageEntries
  <2> QED
    BY <2>1, <2>2
<1>6. Spaces!SetFlag(p, v)
  BY <1>2, <1>5 DEF Spaces!SetFlag, Map
<1>7. Spaces!Next
  BY <1>6 DEF Spaces!Next
<1> QED
  BY <1>1, <1>4, <1>7 DEF Maps

LEMMA DestroyMaps ==
    ASSUME PageTableAssumption, TablesInv, NEW p \in Procs,
           \A q \in Procs, w \in VAs : EntryOf(q, w)' = IF q = p THEN None ELSE EntryOf(q, w),
           pool' = pool \cup {EntryOf(p, v).to : v \in {v \in VAs : Present(EntryOf(p, v))}}
    PROVE  Maps
<1> DEFINE F == {EntryOf(p, v).to : v \in {v \in VAs : Present(EntryOf(p, v))}}
<1>1. pool \in SUBSET Frames /\ Owned(Map, pool) /\ Good(free, table, pml4)
  BY OwnedIs DEF TablesInv
<1>2. \A w \in VAs : Map[p][w] = EntryOf(p, w)
  BY MapIs
<1>3. F \subseteq Frames
  <2> SUFFICES ASSUME NEW w \in VAs, Present(EntryOf(p, w)) PROVE EntryOf(p, w).to \in Frames
    OBVIOUS
  <2>1. EntryOf(p, w) \in PageEntries
    BY <1>1, EntryTyped DEF Present
  <2> QED
    BY <2>1 DEF PageEntries
<1>4. Owned(Map', pool')
  <2> DEFINE G == {p} \X VAs
             B == Freed(Map, G)
  <2>1. \A q \in Procs, w \in VAs : <<q, w>> \in G <=> q = p
    OBVIOUS
  <2>2. ASSUME NEW q \in Procs, NEW w \in VAs, NEW j
        PROVE  Owner(Map', q, w, j) <=> Owner(Map, q, w, j) /\ <<q, w>> \notin G
    <3>1. Map'[q][w] = IF q = p THEN None ELSE Map[q][w]
      BY DEF Map
    <3> QED
      BY <2>1, <3>1 DEF Owner, Present
  <2>3. B = F
    <3>1. \A w \in VAs : \A j : Owner(Map, p, w, j) <=> Present(EntryOf(p, w)) /\ EntryOf(p, w).to = j
      BY <1>2 DEF Owner
    <3> HIDE DEF G, F
    <3>2. \A j \in Frames : j \in F <=> \E w \in VAs : Present(EntryOf(p, w)) /\ EntryOf(p, w).to = j
      BY DEF F
    <3>3. \A j \in Frames : j \in B <=> \E w \in VAs : Owner(Map, p, w, j)
      BY <2>1 DEF Freed
    <3> QED
      BY <1>3, <3>1, <3>2, <3>3 DEF Freed
  <2>4. Owned(Map', pool \cup B)
    <3> HIDE DEF G
    <3> QED
      BY <1>1, <2>2, OwnedLess, Zenon
  <2> QED
    BY <2>3, <2>4
<1>5. Map' = [Map EXCEPT ![p] = Spaces!NoMap]
  BY DEF Map, Spaces!NoMap
<1>6. F = {Map[p][v].to : v \in {v \in VAs : Map[p][v] # None /\ "P" \in Map[p][v].flags}}
  BY <1>2 DEF Present
<1>7. Spaces!Destroy(p)
  BY <1>5, <1>6 DEF Spaces!Destroy, Map
<1>8. Spaces!Next
  BY <1>7 DEF Spaces!Next
<1> QED
  BY <1>1, <1>3, <1>4, <1>8 DEF Maps

-----------------------------------------------------------------------------
LEMMA TablesStart ==
    ASSUME PageTableAssumption, TablesInit
    PROVE  TablesInv /\ Spaces!Init
<1>1. \A p \in Procs, v \in VAs, l \in 1..4 : Node(table, pml4, p, v, l) = None
  <2> TAKE p \in Procs, v \in VAs, l \in 1..4
  <2>1. Node(table, pml4, p, v, 4) = None
    BY NodeTop DEF TablesInit
  <2> QED
    BY <2>1, NodeNone, 4 \in 1..4, l <= 4
<1>2. Good(free, table, pml4)
  <2>1. Typed(free, table, pml4)
    BY DEF Typed, TablesInit, Zero
  <2>2. InUse(free, table, pml4) /\ Apart(table, pml4) /\ OnPath(table, pml4)
    BY <1>1 DEF InUse, Apart, OnPath
  <2>3. ToTable(table, pml4) /\ ToFrame(table, pml4)
    BY <1>1, 1 \in 1..4, \A l \in 2..4 : l \in 1..4 DEF ToTable, ToFrame
  <2>4. NoLeak(free, table, pml4)
    BY DEF NoLeak, TablesInit
  <2> QED
    BY <2>1, <2>2, <2>3, <2>4 DEF Good
<1>3. \A p \in Procs, v \in VAs : EntryOf(p, v) = None
  BY <1>1, EntryOfIs, 1 \in 1..4 DEF EntryAt
<1>4. Owned(Map, pool)
  <2>1. \A p \in Procs, v \in VAs : \A k : ~Owner(Map, p, v, k)
    BY <1>3, MapIs DEF Owner, Present
  <2> QED
    BY <2>1 DEF Owned, TablesInit
<1>5. Spaces!Init
  BY <1>3 DEF Spaces!Init, Spaces!NoMap, TablesInit
<1> QED
  BY <1>2, <1>4, <1>5, OwnedIs DEF TablesInv, TablesInit

LEMMA TablesStep ==
    ASSUME PageTableAssumption, TablesInv, [TablesNext]_mmuVars
    PROVE  Good(free', table', pml4') /\ Maps
<1>1. CASE UNCHANGED mmuVars
  <2>1. Good(free', table', pml4') /\ pool' = pool
    BY <1>1 DEF mmuVars, TablesInv
  <2>2. EntriesStay
    BY <1>1, EntryOfIs, EntryOfNext DEF mmuVars, EntriesStay
  <2> QED
    BY <2>1, <2>2, StayMaps
<1>2. ASSUME NEW p \in Procs, Pml4Create(p) PROVE Good(free', table', pml4') /\ Maps
  BY <1>2, CreateStep, StayMaps
<1>3. ASSUME NEW p \in Procs, Pml4Destroy(p) PROVE Good(free', table', pml4') /\ Maps
  BY <1>3, DestroyStep, DestroyMaps
<1>4. ASSUME NEW p \in Procs, NEW v \in VAs, Pml4SetPage(p, v)
      PROVE  Good(free', table', pml4') /\ Maps
  BY <1>4, SetPageStep, StayMaps, SetPageMaps
<1>5. ASSUME NEW p \in Procs, NEW v \in VAs, Pml4ClearPage(p, v)
      PROVE  Good(free', table', pml4') /\ Maps
  BY <1>5, ClearStep, ClearMaps
<1>6. ASSUME NEW p \in Procs, NEW v \in VAs, NEW f \in Flags, NEW on \in BOOLEAN,
             Pml4SetFlag(p, v, f, on)
      PROVE  Good(free', table', pml4') /\ Maps
  <2> DEFINE e == [to |-> EntryOf(p, v).to,
                   flags |-> IF on THEN EntryOf(p, v).flags \cup {f} ELSE EntryOf(p, v).flags \ {f}]
  <2>1. /\ Good(free', table', pml4') /\ pool' = pool /\ EntryOf(p, v) # None
        /\ EntryBecomes(p, v, e)
    BY <1>6, FlagStep
  <2>2. Maps
    BY <2>1, FlagMaps
  <2> QED
    BY <2>1, <2>2
<1> QED
  BY <1>1, <1>2, <1>3, <1>4, <1>5, <1>6 DEF TablesNext

LEMMA TablesInvNext ==
    ASSUME PageTableAssumption, TablesInv, [TablesNext]_mmuVars
    PROVE  TablesInv'
<1>1. Good(free', table', pml4') /\ Maps
  BY TablesStep
<1>2. Owned(Map, pool)' <=> FramesAreOwned'
  BY OwnedIs, PTL
<1>3. Owned(Map, pool)' <=> Owned(Map', pool')
  BY DEF Owned, Owner
<1> QED
  BY <1>1, <1>2, <1>3 DEF Maps, TablesInv

-----------------------------------------------------------------------------
(* The pages in use, counted: the top tables, and the links below them.    *)
LEMMA OneToOne ==
    ASSUME NEW X, NEW Y, IsFiniteSet(Y), NEW f \in [X -> Y],
           \A x, y \in X : f[x] = f[y] => x = y, \A y \in Y : \E x \in X : f[x] = y
    PROVE  Cardinality(X) = Cardinality(Y)
<1>1. f \in Injection(X, Y)
  BY DEF Injection, IsInjective
<1>2. f \in Surjection(X, Y)
  BY DEF Surjection
<1> QED
  BY <1>1, <1>2, FS_Injection

Alive == {p \in Procs : Live(p)}
UpperTables == UNION {Upper(pml4[p]) : p \in Alive}
Links == {l \in UpperTables \X Indices : Present(table[l[1]][l[2]])}
Tops == {pml4[p] : p \in Alive}

\* Where a link is: its table and index are those of a page at a level
\* above the last, and it leads to the table of the next.
Linked(l, p, v, m) ==
    /\ Node(table, pml4, p, v, m) # None /\ l = <<Node(table, pml4, p, v, m), Index(v, m)>>
    /\ Node(table, pml4, p, v, m - 1) # None
    /\ table[l[1]][l[2]].to = Node(table, pml4, p, v, m - 1)

LEMMA LinkIs ==
    ASSUME PageTableAssumption, Good(free, table, pml4), NEW l
    PROVE  l \in Links <=> \E p \in Procs, v \in VAs, m \in 2..4 : Linked(l, p, v, m)
<1> DEFINE A(p, v, m) == Node(table, pml4, p, v, m)
<1>0. 2 \in 2..4 /\ 3 \in 2..4 /\ 4 \in 2..4 /\ \A m \in 2..4 : m \in 1..4 /\ m - 1 \in 1..4
  OBVIOUS
<1>1. ASSUME l \in Links PROVE \E p \in Procs, v \in VAs, m \in 2..4 : Linked(l, p, v, m)
  <2>1. PICK p \in Alive : /\ l[1] \in Upper(pml4[p]) /\ l[2] \in Indices
                           /\ Present(table[l[1]][l[2]]) /\ l = <<l[1], l[2]>>
    <3>1. l \in UpperTables \X Indices /\ Present(table[l[1]][l[2]])
      BY <1>1 DEF Links
    <3>2. l[1] \in UpperTables /\ l[2] \in Indices /\ l = <<l[1], l[2]>>
      BY <3>1
    <3> QED
      BY <3>1, <3>2 DEF UpperTables
  <2>2. p \in Procs /\ l[1] \in Row(p, 4) \cup Row(p, 3) \cup Row(p, 2)
    BY <2>1, TablesAre DEF Alive
  <2>3. PICK m \in 2..4 : l[1] \in Row(p, m)
    BY <1>0, <2>2
  <2>4. PICK v \in VAs : l[1] = A(p, v, m) /\ l[1] # None
    BY <2>3 DEF Row
  <2>5. PICK w \in VAs : Same(v, w, m) /\ Index(w, m) = l[2]
    BY <1>0, <2>1, <2>2, <2>4 DEF Present, Good, OnPath
  <2>6. A(p, w, m) = l[1]
    BY <1>0, <2>4, <2>5, SameNode
  <2>7. A(p, w, m - 1) = table[l[1]][l[2]].to
    BY <2>1, <2>4, <2>5, <2>6, NodeDown DEF Child
  <2>8. A(p, w, m - 1) # None
    <3>1. table[l[1]][l[2]] \in TableEntries
      BY <2>1, <2>2, <2>4, <2>5, <2>6 DEF Good, ToTable, Present
    <3>2. table[l[1]][l[2]].to \in Pages
      <4> DEFINE e == table[l[1]][l[2]]
      <4> HIDE DEF e
      <4>1. e \in TableEntries
        BY <3>1 DEF e
      <4>2. e.to \in Pages
        BY <4>1 DEF TableEntries, TableEntry
      <4> QED
        BY <4>2 DEF e
    <3> QED
      BY <2>7, <3>2, TableConstants
  <2>9. Linked(l, p, w, m)
    BY <2>1, <2>4, <2>5, <2>6, <2>7, <2>8 DEF Linked
  <2> QED
    BY <2>2, <2>9
<1>2. ASSUME NEW p \in Procs, NEW v \in VAs, NEW m \in 2..4, Linked(l, p, v, m)
      PROVE  l \in Links
  <2>1. l[1] = A(p, v, m) /\ l[2] = Index(v, m) /\ A(p, v, m) # None /\ A(p, v, m - 1) # None
        /\ l = <<l[1], l[2]>>
    BY <1>2 DEF Linked
  <2>2. A(p, v, m - 1) = Child(table, A(p, v, m), v, m)
    BY NodeDown
  <2>3. Present(table[l[1]][l[2]])
    BY <2>1, <2>2 DEF Child
  <2>4. pml4[p] # None
    <3>1. Node(table, pml4, p, v, 4) = None => A(p, v, m) = None
      BY <1>0, NodeNone, m <= 4
    <3> QED
      BY <2>1, <3>1, NodeTop
  <2>5. l[1] \in Row(p, m)
    BY <2>1 DEF Row
  <2>6. m = 2 \/ m = 3 \/ m = 4
    OBVIOUS
  <2>7. l[1] \in Upper(pml4[p])
    BY <2>4, <2>5, <2>6, TablesAre DEF Live
  <2>8. l[2] \in Indices
    BY <1>0, <2>1, TableConstants
  <2>9. p \in Alive
    BY <2>4 DEF Alive, Live
  <2> QED
    <3>1. l[1] \in UpperTables
      BY <2>7, <2>9 DEF UpperTables
    <3>2. l \in UpperTables \X Indices
      BY <2>1, <2>8, <3>1
    <3> QED
      BY <2>3, <3>2 DEF Links
<1> QED
  BY <1>1, <1>2

LEMMA TablesCounted ==
    ASSUME PageTableAssumption, Good(free, table, pml4)
    PROVE  TablesAreOwned
<1> DEFINE A(p, v, m) == Node(table, pml4, p, v, m)
           T == Pages \ free
           D == T \ Tops
           f == [p \in Alive |-> pml4[p]]
           g == [l \in Links |-> table[l[1]][l[2]].to]
<1>0. /\ 1 \in 1..4 /\ 4 \in 1..4
      /\ \A m \in 2..4 : m \in 1..4 /\ m - 1 \in 1..4 /\ m - 1 # 4
      /\ \A m, n \in 2..4 : m - 1 = n - 1 => m = n
      /\ \A m \in 1..4 : m # 4 => m + 1 \in 2..4 /\ (m + 1) - 1 = m
  OBVIOUS
<1>1. PICK u \in VAs : TRUE
  BY DEF PageTableAssumption
<1>2. \A p \in Procs : A(p, u, 4) = pml4[p]
  BY NodeTop
<1>3. IsFiniteSet(T) /\ None \notin Pages
  BY FS_Difference, TableConstants DEF PageTableAssumption
<1>4. T = UNION {Tables(pml4[p]) : p \in Alive}
  <2>1. ASSUME NEW k \in T PROVE \E p \in Alive : k \in Tables(pml4[p])
    <3>1. PICK p \in Procs, v \in VAs, m \in 1..4 : A(p, v, m) = k
      BY DEF Good, NoLeak
    <3>2. k # None
      BY <1>3
    <3>3. pml4[p] # None
      <4>1. Node(table, pml4, p, v, 4) = None => A(p, v, m) = None
        BY <1>0, NodeNone, m <= 4
      <4> QED
        BY <3>1, <3>2, <4>1, NodeTop
    <3>4. k \in Tables(pml4[p])
      BY <3>1, <3>2, <3>3, TablesAre DEF Live
    <3> QED
      BY <3>3, <3>4 DEF Alive, Live
  <2>2. ASSUME NEW p \in Alive, NEW k \in Tables(pml4[p]) PROVE k \in T
    <3>1. p \in Procs /\ Live(p)
      BY DEF Alive
    <3>2. PICK v \in VAs, m \in 1..4 : k = A(p, v, m) /\ k # None
      BY <3>1, TablesAre
    <3> QED
      BY <3>1, <3>2 DEF Good, InUse
  <2> QED
    BY <2>1, <2>2
<1>5. Tops \subseteq T
  <2> SUFFICES ASSUME NEW p \in Alive PROVE pml4[p] \in T
    BY DEF Tops
  <2>1. p \in Procs /\ A(p, u, 4) # None
    BY <1>2 DEF Alive, Live
  <2> QED
    BY <1>0, <1>2, <2>1 DEF Good, InUse
<1>6. IsFiniteSet(Tops) /\ IsFiniteSet(D)
  BY <1>3, <1>5, FS_Subset, FS_Difference
<1>7. Cardinality(Alive) = Cardinality(Tops)
  <2>1. f \in [Alive -> Tops] /\ \A y \in Tops : \E p \in Alive : f[p] = y
    BY DEF Tops
  <2>2. ASSUME NEW p \in Alive, NEW q \in Alive, f[p] = f[q] PROVE p = q
    <3>1. p \in Procs /\ q \in Procs /\ A(p, u, 4) # None /\ A(p, u, 4) = A(q, u, 4)
      BY <1>2, <2>2 DEF Alive, Live
    <3> QED
      BY <1>0, <3>1 DEF Good, Apart
  <2> HIDE DEF f
  <2> QED
    BY <1>6, <2>1, <2>2, OneToOne
<1>8. Cardinality(Links) = Cardinality(D)
  <2>1. ASSUME NEW l \in Links PROVE g[l] \in D
    <3>1. PICK p \in Procs, v \in VAs, m \in 2..4 : Linked(l, p, v, m)
      BY LinkIs
    <3>2. g[l] = A(p, v, m - 1) /\ A(p, v, m - 1) # None
      BY <3>1 DEF Linked
    <3>3. g[l] \in T
      BY <1>0, <3>2 DEF Good, InUse
    <3>4. ASSUME NEW q \in Alive, g[l] = pml4[q] PROVE FALSE
      <4>1. q \in Procs /\ A(p, v, m - 1) = A(q, u, 4)
        BY <1>2, <3>2, <3>4 DEF Alive
      <4>2. m - 1 = 4
        BY <1>0, <3>2, <4>1 DEF Good, Apart
      <4> QED
        BY <1>0, <4>2
    <3> QED
      BY <3>3, <3>4 DEF Tops
  <2>2. ASSUME NEW l \in Links, NEW n \in Links, g[l] = g[n] PROVE l = n
    <3>1. PICK p \in Procs, v \in VAs, m \in 2..4 : Linked(l, p, v, m)
      BY LinkIs
    <3>2. PICK q \in Procs, w \in VAs, j \in 2..4 : Linked(n, q, w, j)
      BY LinkIs
    <3>3. A(p, v, m - 1) = A(q, w, j - 1) /\ A(p, v, m - 1) # None
      BY <2>2, <3>1, <3>2 DEF Linked
    <3>4. p = q /\ m - 1 = j - 1 /\ Same(v, w, m - 1)
      BY <1>0, <3>3 DEF Good, Apart
    <3>5. m = j /\ Same(v, w, m) /\ Index(v, m) = Index(w, m)
      BY <1>0, <3>4, SameIs
    <3>6. A(p, v, m) = A(q, w, j)
      BY <1>0, <3>4, <3>5, SameNode
    <3> QED
      BY <3>1, <3>2, <3>5, <3>6 DEF Linked
  <2>3. ASSUME NEW k \in D PROVE \E l \in Links : g[l] = k
    <3>1. PICK p \in Procs, v \in VAs, m \in 1..4 : A(p, v, m) = k
      BY DEF Good, NoLeak
    <3>2. k # None
      BY <1>3
    <3>3. m # 4
      <4> SUFFICES ASSUME m = 4 PROVE FALSE
        OBVIOUS
      <4>1. k = pml4[p]
        BY <3>1, NodeTop
      <4>2. k \in Tops
        BY <3>2, <4>1 DEF Tops, Alive, Live
      <4> QED
        BY <4>2
    <3> DEFINE n == m + 1
               l == <<A(p, v, n), Index(v, n)>>
    <3>4. n \in 2..4 /\ n - 1 = m
      BY <1>0, <3>3
    <3> HIDE DEF n
    <3>5. A(p, v, n - 1) = Child(table, A(p, v, n), v, n) /\ A(p, v, n - 1) = k
      BY <3>1, <3>4, NodeDown
    <3>6. Linked(l, p, v, n)
      BY <3>2, <3>5 DEF Linked, Child
    <3> HIDE DEF l
    <3>7. l \in Links
      BY <3>4, <3>6, LinkIs
    <3>8. g[l] = k
      BY <3>5, <3>6, <3>7 DEF Linked
    <3> QED
      BY <3>7, <3>8
  <2>4. g \in [Links -> D]
    <3>1. g = [l \in Links |-> g[l]]
      OBVIOUS
    <3> HIDE DEF g
    <3> QED
      BY <2>1, <3>1
  <2> HIDE DEF g, D
  <2> QED
    BY <1>6, <2>2, <2>3, <2>4, OneToOne
<1>9. Cardinality(T) = Cardinality(Tops) + Cardinality(D)
  <2>1. Tops \cup D = T /\ Tops \cap D = {}
    BY <1>5
  <2>2. Cardinality(Tops \cup D) = Cardinality(Tops) + Cardinality(D) - Cardinality(Tops \cap D)
    BY <1>6, FS_Union
  <2>3. Cardinality(Tops) \in Nat /\ Cardinality(D) \in Nat /\ Cardinality({}) = 0
    BY <1>6, FS_CardinalityType, FS_EmptySet
  <2> HIDE DEF T, D
  <2>4. Cardinality(T) = Cardinality(Tops) + Cardinality(D) - Cardinality({})
    BY <2>1, <2>2
  <2> QED
    BY <2>3, <2>4
<1> QED
  BY <1>4, <1>7, <1>8, <1>9 DEF TablesAreOwned, Alive, Links, UpperTables
-----------------------------------------------------------------------------
(* pml4e_walk and its callers keep the tables good and the frames owned:   *)
(* the invariant of the page tables.                                       *)
THEOREM TablesInvariance == ASSUME PageTableAssumption PROVE TablesSpec => []TablesInv
<1>1. TablesInit => TablesInv
  BY TablesStart
<1>2. TablesInv /\ [TablesNext]_mmuVars => TablesInv'
  BY TablesInvNext
<1> QED
  BY <1>1, <1>2, PTL DEF TablesSpec

(* A page of the kernel pool is free or one table in one place of one      *)
(* process's tree, and a frame free or mapped by one page of one process,  *)
(* also after pml4e_walk failed half way or pml4_destroy freed a tree.     *)
THEOREM TablesHaveOwners ==
    ASSUME PageTableAssumption PROVE TablesSpec => [](TablesAreOwned /\ FramesAreOwned)
<1>1. TablesInv => TablesAreOwned /\ FramesAreOwned
  BY TablesCounted DEF TablesInv
<1> QED
  BY <1>1, TablesInvariance, PTL

(* The four-level tables, with what their walks create and take back, are  *)
(* a map per process: an operation changes the entry it names, of the      *)
(* process it names, and no other.                                         *)
THEOREM TablesAreAMap == ASSUME PageTableAssumption PROVE TablesSpec => ImplementsAddrSpace
<1>1. TablesInit => Spaces!Init
  BY TablesStart
<1>2. TablesInv /\ [TablesNext]_mmuVars => [Spaces!Next]_(Spaces!vars)
  BY TablesStep DEF Maps
<1> QED
  BY <1>1, <1>2, TablesInvariance, PTL DEF TablesSpec, ImplementsAddrSpace, Spaces!Spec

=============================================================================
