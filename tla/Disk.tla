-------------------------------- MODULE Disk --------------------------------
(***************************************************************************)
(* One ATA channel of src/devices/disk.c with its two devices, the threads *)
(* that read and write sectors, and the completion interrupt.  The two     *)
(* devices share one set of registers, one data port and one interrupt;    *)
(* the channel's lock and the semaphore completion_wait keep the commands  *)
(* apart.  A step of a thread ends where the device, the interrupt handler *)
(* or another thread can change what it sees next.  lock and               *)
(* completion_wait are what Locks and Scheduler show them to be.           *)
(*                                                                         *)
(* External: the devices (Transfer, Finish, Spurious), as the driver uses  *)
(* them: a command runs on the device selected; a read and an IDENTIFY     *)
(* interrupt when the data is ready, a write when it is done; up to        *)
(* MaxSpurious interrupts come for no command; a device that is busy may   *)
(* ignore what is written to its registers, or drop what it was at.  A     *)
(* device may be busy longer than wait_until_idle polls (10 ms), not       *)
(* longer than wait_while_busy does (30 s).                                *)
(***************************************************************************)
EXTENDS Naturals, Sequences

CONSTANTS Threads, Nobody, Sectors, Values, NoCall,
          MaxSpurious   \* bound: interrupts for no command

Devices == {0, 1}
NoDevice == 2   \* no device

ASSUME DiskAssumption ==
    /\ Threads # {} /\ Sectors # {} /\ Values # {} /\ Nobody \notin Threads
    /\ NoCall \notin [op : {"read", "write", "identify"}, dev : Devices \cup {NoDevice},
                      sec : Sectors, val : Values]
    /\ NoCall \notin [op : {"read", "write"}, dev : Devices, sec : Sectors, val : Values,
                      done : BOOLEAN]

(* What a device shows in its registers after the reset: an ATA disk, an   *)
(* ATA disk that found no slave, an ATAPI drive, or nothing.               *)
Signatures == [error : {1, 129}, drdy : {TRUE}, lba : {"ata", "atapi"}]
              \cup {[error |-> 0, drdy |-> FALSE, lba |-> "ata"]}

VARIABLES
  lock,         \* the thread in c->lock
  expecting,    \* c->expecting_interrupt
  completion,   \* the value of c->completion_wait
  is_ata,       \* device -> d->is_ata
  known,        \* the devices whose capacity identify_ata_device has read
  pc, job,      \* thread -> where it is, and its arguments
  regs,         \* the task file: [dev, sec]
  hw,           \* the device: [state, op, dev, sec, val]
  irq,          \* an interrupt of the channel is pending
  media,        \* device -> sector -> contents
  spurious,     \* spurious interrupts so far
  late          \* wait_until_idle has run out of polls at least once

drvVars == <<lock, expecting, completion, is_ata, known>>
devVars == <<regs, hw, irq, media, spurious, late>>
vars == <<lock, expecting, completion, is_ata, known, pc, job,
          regs, hw, irq, media, spurious, late>>

AnyVal == CHOOSE v \in Values : TRUE
AnySec == CHOOSE s \in Sectors : TRUE
Ready == [state |-> "idle", op |-> "none", dev |-> NoDevice, sec |-> AnySec, val |-> AnyVal]
Boot == CHOOSE t \in Threads : TRUE   \* the thread that runs disk_init

(* disk_init up to reset_channel, which leaves device 0 selected and idle. *)
Init ==
    /\ lock = Nobody /\ expecting = FALSE /\ completion = 0
    /\ is_ata = [d \in Devices |-> FALSE] /\ known = {}
    /\ pc = [t \in Threads |-> IF t = Boot THEN "check" ELSE "boot"]
    /\ job = [t \in Threads |-> IF t = Boot
                                THEN [op |-> "identify", dev |-> 0, sec |-> AnySec, val |-> AnyVal]
                                ELSE NoCall]
    /\ regs = [dev |-> 0, sec |-> AnySec] /\ hw = Ready /\ irq = FALSE
    /\ media = [d \in Devices |-> [s \in Sectors |-> AnyVal]]
    /\ spurious = 0 /\ late = FALSE

At(t, l) == pc[t] = l
Go(t, l) == pc' = [pc EXCEPT ![t] = l]
Idle == hw.state = "idle"                          \* BSY and DRQ clear
Busy == hw.state \in {"command", "writing"}        \* BSY
HasData == hw.state \in {"data in", "data out"}    \* DRQ

(* Reading the status register acknowledges the interrupt; the interrupt   *)
(* controller may already have taken note of it.                           *)
StatusRead == irq' \in {irq, FALSE}
-----------------------------------------------------------------------------
(* check_device_type of device 0, and of device 1 if there may be one.     *)
LooksAta(d, sig) == sig.drdy /\ (sig.error = 1 \/ (sig.error = 129 /\ d = 0))
SlavePossible(sig) == LooksAta(0, sig) \/ sig.error # 129

CheckDevices(t) ==
    /\ At(t, "check")
    /\ \E sig \in [Devices -> Signatures] :
          LET two == SlavePossible(sig[0]) IN
          /\ is_ata' = [d \in Devices |-> LooksAta(d, sig[d]) /\ sig[d].lba = "ata"
                                         /\ (d = 1 => two)]
          /\ regs' = [regs EXCEPT !.dev = IF two THEN 1 ELSE 0]
    /\ Go(t, "next")
    /\ UNCHANGED <<lock, expecting, completion, known, job, hw, irq, media, spurious, late>>

(* disk_init: the next device to identify, or the end of the start-up.     *)
NextDevice(t) ==
    LET d == job[t].dev IN
    /\ At(t, "next")
    /\ IF d \in Devices /\ is_ata[d] THEN Go(t, "select") /\ UNCHANGED job
       ELSE IF d \in Devices
       THEN job' = [job EXCEPT ![t].dev = d + 1] /\ UNCHANGED pc
       ELSE /\ job' = [job EXCEPT ![t] = NoCall]
            /\ pc' = [u \in Threads |-> "idle"]
    /\ UNCHANGED <<drvVars, devVars>>

(* identify_ata_device after its answer; a device that gave none is no     *)
(* disk after all.                                                         *)
Identified(t) ==
    LET d == job[t].dev IN
    /\ At(t, "poll") /\ job[t].op = "identify" /\ ~Busy
    /\ is_ata' = [is_ata EXCEPT ![d] = HasData]
    /\ known' = IF HasData THEN known \cup {d} ELSE known
    /\ hw' = Ready
    /\ job' = [job EXCEPT ![t].dev = d + 1] /\ Go(t, "next")
    /\ UNCHANGED <<lock, expecting, completion, regs, irq, media, spurious, late>>
-----------------------------------------------------------------------------
(* disk_read and disk_write of a disk that disk_get returns.               *)
Call(t) ==
    /\ At(t, "idle") /\ \E d \in Devices : is_ata[d]
    /\ Go(t, "lock")
    /\ UNCHANGED <<drvVars, job, devVars>>

\* lock_acquire of the channel; the mutant goes on without it.
NoLock == TRUE
LockIsFree == lock = Nobody

(* The arguments of the call are named here: nobody looks at them before.  *)
Acquire(t) ==
    /\ At(t, "lock") /\ LockIsFree
    /\ \E op \in {"read", "write"}, d \in {d \in Devices : is_ata[d]}, s \in Sectors, v \in Values :
          /\ op = "read" => v = AnyVal
          /\ job' = [job EXCEPT ![t] = [op |-> op, dev |-> d, sec |-> s, val |-> v]]
    /\ lock' = t /\ Go(t, "select")
    /\ UNCHANGED <<expecting, completion, is_ata, known, devVars>>

\* Mutant: the wait is left out.
NoWait == UNCHANGED late

(* wait_until_idle: 1000 polls, 10 us apart; when they run out it prints   *)
(* "idle timeout" and its caller goes on all the same.                     *)
WaitUntilIdle ==
    \/ Idle /\ UNCHANGED late
    \/ ~Idle /\ late' = TRUE

(* select_device_wait: idle, select, idle again.  The status is that of    *)
(* the device selected, and there is one data port for both.  A busy       *)
(* device may ignore the write (External).                                 *)
Select(t) ==
    /\ At(t, "select") /\ WaitUntilIdle
    /\ \/ regs' = [regs EXCEPT !.dev = job[t].dev]
       \/ ~Idle /\ UNCHANGED regs
    /\ StatusRead /\ Go(t, "selected")
    /\ UNCHANGED <<drvVars, job, hw, media, spurious>>

(* select_sector after the second wait: the sector registers, the device.  *)
(* A busy device takes some of their bytes and ignores others (External).  *)
SelectSector(t) ==
    /\ At(t, "selected") /\ WaitUntilIdle
    /\ \/ regs' = [dev |-> job[t].dev, sec |-> job[t].sec]
       \/ ~Idle /\ regs' \in [dev : {regs.dev, job[t].dev}, sec : Sectors]
    /\ StatusRead /\ Go(t, "issue")
    /\ UNCHANGED <<drvVars, job, hw, media, spurious>>

\* A write does not wait before the data; the mutant does.
DownFirst(op) == "down"
AfterIssue(op) == IF op = "write" THEN "poll" ELSE "down"

(* issue_pio_command: from here on an interrupt is expected, for good.  A  *)
(* device that is still busy ignores the command, or drops what it was at  *)
(* (External).                                                             *)
Issue(t) ==
    /\ At(t, "issue")
    /\ expecting' = TRUE
    /\ \/ hw' = [state |-> "command", op |-> job[t].op, dev |-> regs.dev, sec |-> regs.sec, val |-> AnyVal]
       \/ ~Idle /\ UNCHANGED hw
    /\ Go(t, AfterIssue(job[t].op))
    /\ UNCHANGED <<lock, completion, is_ata, known, job, regs, irq, media, spurious, late>>

(* sema_down (&c->completion_wait): before the data of a read, after that  *)
(* of a write.                                                             *)
Down(t) ==
    /\ At(t, "down") /\ completion > 0
    /\ completion' = completion - 1
    /\ Go(t, IF job[t].op = "write" THEN "unlock" ELSE "poll")
    /\ UNCHANGED <<lock, expecting, is_ata, known, job, devVars>>

(* wait_while_busy, and input_sector or output_sector.                     *)
InputSector(t) ==
    /\ At(t, "poll") /\ job[t].op = "read" /\ hw.state = "data in"
    /\ job' = [job EXCEPT ![t].val = hw.val]
    /\ hw' = Ready /\ Go(t, "unlock")
    /\ UNCHANGED <<drvVars, regs, irq, media, spurious, late>>

OutputSector(t) ==
    /\ At(t, "poll") /\ job[t].op = "write" /\ hw.state = "data out"
    /\ hw' = [hw EXCEPT !.state = "writing", !.val = job[t].val]
    /\ Go(t, "down")
    /\ UNCHANGED <<drvVars, job, regs, irq, media, spurious, late>>

(* wait_while_busy finds the device neither busy nor with data: disk_read  *)
(* and disk_write PANIC.  The lock stays taken, so that nobody comes to    *)
(* the channel any more.                                                   *)
Fails(t) ==
    /\ At(t, "poll") /\ job[t].op # "identify" /\ Idle
    /\ Go(t, "panic")
    /\ UNCHANGED <<drvVars, job, devVars>>

Release(t) ==
    /\ At(t, "unlock")
    /\ lock' = Nobody /\ Go(t, "idle") /\ job' = [job EXCEPT ![t] = NoCall]
    /\ UNCHANGED <<expecting, completion, is_ata, known, devVars>>
-----------------------------------------------------------------------------
(* interrupt_handler.                                                      *)
Interrupt ==
    /\ irq
    /\ irq' = FALSE
    /\ completion' = IF expecting THEN completion + 1 ELSE completion
    /\ UNCHANGED <<lock, expecting, is_ata, known, pc, job, regs, hw, media, spurious, late>>

(* The device has the data of a read, or room for that of a write; a       *)
(* device that cannot answer IDENTIFY aborts it.                           *)
Transfer ==
    /\ hw.state = "command"
    /\ IF hw.op = "write" THEN /\ hw' = [hw EXCEPT !.state = "data out"] /\ UNCHANGED irq
       ELSE /\ irq' = TRUE
            /\ \/ hw' = [hw EXCEPT !.state = "data in", !.val = media[hw.dev][hw.sec]]
               \/ hw.op = "identify" /\ hw' = Ready
    /\ UNCHANGED <<drvVars, pc, job, regs, media, spurious, late>>

(* The device has written the sector.                                      *)
Finish ==
    /\ hw.state = "writing"
    /\ media' = [media EXCEPT ![hw.dev][hw.sec] = hw.val]
    /\ hw' = Ready /\ irq' = TRUE
    /\ UNCHANGED <<drvVars, pc, job, regs, spurious, late>>

Spurious ==
    /\ spurious < MaxSpurious /\ ~irq
    /\ spurious' = spurious + 1 /\ irq' = TRUE
    /\ UNCHANGED <<drvVars, pc, job, regs, hw, media, late>>

Step(t) ==
    \/ CheckDevices(t) \/ NextDevice(t) \/ Identified(t)
    \/ Select(t) \/ SelectSector(t) \/ Issue(t) \/ Down(t)
    \/ InputSector(t) \/ OutputSector(t) \/ Fails(t) \/ Release(t)

Hardware == Transfer \/ Finish \/ Interrupt

Next == (\E t \in Threads : Call(t) \/ Acquire(t) \/ Step(t)) \/ Hardware \/ Spurious

(* A thread past the lock goes on, the lock's waiters are served in turn   *)
(* (first come, first served among equals), and the device answers.        *)
Fairness ==
    /\ \A t \in Threads : WF_vars(Step(t)) /\ SF_vars(Acquire(t))
    /\ WF_vars(Transfer) /\ WF_vars(Finish) /\ WF_vars(Interrupt)

Spec == Init /\ [][Next]_vars /\ Fairness
-----------------------------------------------------------------------------
(* Until a wait for an idle device runs out, the command the device is at  *)
(* is that of the thread inside disk_read or disk_write: on the device and *)
(* sector it named, and started on an idle device, although an interrupt   *)
(* for nothing lets a write return while the device is still at it.  And   *)
(* no wait runs out, however slow the device, unless such an interrupt     *)
(* came: otherwise the driver leaves no device busy.                       *)
Undisturbed ==
    \A t \in Threads :
        /\ At(t, "issue") => Idle /\ regs = [dev |-> job[t].dev, sec |-> job[t].sec]
        /\ pc[t] \in {"down", "poll"} /\ ~Idle =>
              hw.op = job[t].op /\ hw.dev = job[t].dev
              /\ (job[t].op # "identify" => hw.sec = job[t].sec)
        /\ At(t, "poll") /\ job[t].op # "identify" => ~Idle
CommandIsOwn == IF late THEN spurious > 0 ELSE Undisturbed

(* Until a wait runs out every read and write takes effect once, as a      *)
(* whole, on the sector it names: the channel implements Store.  A write   *)
(* has taken effect when the device has accepted its data.                 *)
Accepted == [d \in Devices |-> [s \in Sectors |->
    IF hw.state = "writing" /\ hw.dev = d /\ hw.sec = s THEN hw.val ELSE media[d][s]]]
Called(t) ==
    IF job[t] = NoCall \/ job[t].op = "identify" THEN NoCall
    ELSE LET j == job[t] IN
         [op |-> j.op, dev |-> j.dev, sec |-> j.sec, val |-> j.val,
          done |-> At(t, "unlock") \/ (At(t, "down") /\ j.op = "write")]
S == INSTANCE Store WITH sector <- Accepted, call <- [t \in Threads |-> Called(t)]
ImplementsStore == S!Init /\ [][late' \/ [S!Next]_(S!vars)]_vars

(* disk_read and disk_write return, whatever order the interrupts come in  *)
(* and whether or not a wait runs out; or one of them panics.              *)
DiskAnswers ==
    \A t \in Threads : At(t, "lock") ~> (At(t, "idle") \/ \E u \in Threads : At(u, "panic"))
-----------------------------------------------------------------------------
(* A claim no run makes, which TLC refutes (README, section 6).  disk.c:449 *)
(* has it that wait_until_idle waits "up to 10 seconds for the controller  *)
(* to become idle"; it does for 10 ms, and a command meets a device that   *)
(* is still at a write.                                                    *)
StartsOnIdle == \A t \in Threads : At(t, "issue") => Idle
=============================================================================
