------------------------------- MODULE AtaPio -------------------------------
(***************************************************************************)
(* The ATA PIO driver, drivers/block/ata.c, under the checks of              *)
(* drivers/block/blkdev.c, for one drive that ata_probe has registered.      *)
(*                                                                         *)
(* A drive (external, as the driver uses it) works on its own: after a      *)
(* command it is BSY, then it raises DRQ to move the 256 words of a sector, *)
(* or ERR, or never answers again.  The driver moves the words right after  *)
(* the command, without a look at DRQ: the drive may or may not be there.   *)
(***************************************************************************)
EXTENDS Integers

CONSTANTS
  Capacity,     \* sectors of the disk
  LbaMod,       \* number of values of a u64
  Lba48,        \* number of values of the LBA registers
  Values,       \* contents of a sector
  MaxCount      \* bound: sectors per call

Sectors == 0 .. Capacity - 1

ASSUME DriveAssumption ==
  /\ Capacity \in Nat \ {0} /\ MaxCount \in Nat \ {0}
  /\ Capacity + MaxCount <= Lba48
  /\ Lba48 \in Nat /\ LbaMod \in Nat /\ LbaMod % Lba48 = 0
  /\ "junk" \notin Values

VARIABLES
  pc,           \* where the running call stands
  req,          \* the arguments of blk_read or blk_write
  s,            \* the loop counter of drv_read and drv_write
  staging,      \* the sector buffer
  out,          \* the buffer of a read
  ret,          \* what the last call returned
  status, err,  \* the drive: BSY, DRQ or ready; ERR or DF
  cmd, lba,     \* its command and LBA registers
  data,         \* the sector in its buffer
  disk,         \* the medium
  late,         \* history: the write that failed last, until the next command
  early         \* history: were words of this call moved while the drive was BSY?

driver == <<pc, req, s, staging, out, ret>>
drive == <<status, err, cmd, lba, data, disk>>
history == <<late, early>>
vars == <<driver, drive, history>>

Abstract == INSTANCE BlockDevice

NoData == Abstract!NoData
NoReq == Abstract!NoReq
Failed == Abstract!Failed

Init ==
  /\ pc = "idle" /\ req = NoReq /\ s = 0 /\ staging = "junk"
  /\ out = NoData /\ ret = Failed
  /\ status = "ready" /\ err = FALSE
  /\ cmd = "none" /\ lba = 0 /\ data = "junk"
  /\ disk \in [Sectors -> Values] /\ late = NoReq /\ early = FALSE

\* blk_read and blk_write; the sum of a u64 and a u32 wraps.
InRange(a, count) == (a + count) % LbaMod <= Capacity

Call(kind, a, count, d) ==
  /\ pc = "idle"
  /\ ret' = Failed
  /\ IF InRange(a, count)
     THEN /\ req' = [kind |-> kind, lba |-> a, count |-> count, data |-> d]
          /\ pc' = "issue"
     ELSE UNCHANGED <<req, pc>>
  /\ UNCHANGED <<s, staging, out, drive, history>>

blk_read(a, count) == Call("read", a, count, NoData)

blk_write(a, count) ==
  \E v \in [0 .. count - 1 -> Values] :
    Call("write", a, count, [i \in DOMAIN NoData |-> IF i < count THEN v[i] ELSE "none"])

Return(outcome) ==
  /\ ret' = outcome
  /\ late' = IF pc = "check" /\ outcome = Failed /\ req.kind = "write" THEN req ELSE late
  /\ pc' = "idle" /\ req' = NoReq /\ s' = 0 /\ out' = NoData /\ early' = FALSE

\* Mutant: wait_not_busy never gives up.
WaitsForever == FALSE

\* wait_not_busy gives up: possible whenever the drive is BSY.
Timeout ==
  /\ pc \in {"issue", "check"}
  /\ status = "busy"
  /\ Return(Failed)
  /\ UNCHANGED <<staging, drive>>

\* Mutant: every sector of the request is addressed as the first.
AddressFixed == req.lba % Lba48

\* The LBA registers hold 48 bits.
Address == (req.lba + s) % Lba48

\* wait_not_busy succeeds.
NotBusy == status # "busy"

\* issue_lba48; a write has its sector staged before.
issue_lba48 ==
  /\ pc = "issue"
  /\ NotBusy
  /\ staging' = IF req.kind = "write" THEN req.data[s] ELSE staging
  /\ cmd' = req.kind /\ lba' = Address
  /\ status' = "busy" /\ err' = FALSE /\ data' = "junk"
  /\ late' = NoReq
  /\ pc' = "data"
  /\ UNCHANGED <<req, s, out, ret, disk, early>>

\* The word loop of transfer_sector, at whatever the drive has come to.  Without DRQ
\* a read finds nothing in the data port and a write is ignored by the drive, which
\* asks for the words later.  (A drive that raises DRQ in the middle of the loop is
\* one that raises it right after: part of the sector is junk, the rest unmoved.)
MoveData ==
  /\ pc = "data"
  /\ IF req.kind = "read"
     THEN /\ staging' = IF status = "drq" THEN data ELSE "junk"
          /\ status' = IF status = "drq" THEN "ready" ELSE status
          /\ UNCHANGED data
     ELSE /\ status' = IF status = "drq" THEN "busy" ELSE status
          /\ data' = IF status = "drq" THEN staging ELSE data
          /\ UNCHANGED staging
  /\ early' = (early \/ status = "busy")
  /\ pc' = "check"
  /\ UNCHANGED <<req, s, out, ret, err, cmd, lba, disk, late>>

\* status_of(d) & (AST_ERR | AST_DF).
Refused == err

\* The end of transfer_sector and of the loop around it: a write is followed by
\* a FLUSH whose outcome nobody asks for.
check ==
  /\ pc = "check"
  /\ NotBusy
  /\ IF Refused
     THEN Return(Failed) /\ UNCHANGED <<staging, drive>>
     ELSE LET got == IF req.kind = "read" THEN [out EXCEPT ![s] = staging] ELSE out IN
          /\ IF s + 1 = req.count THEN Return([code |-> 0, data |-> got])
             ELSE /\ s' = s + 1 /\ out' = got /\ pc' = "issue"
                  /\ UNCHANGED <<req, ret, history>>
          /\ IF req.kind = "write"
             THEN cmd' = "flush" /\ status' = "busy" /\ err' = FALSE
             ELSE UNCHANGED <<cmd, status, err>>
          /\ UNCHANGED <<staging, lba, data, disk>>

----------------------------------------------------------------------------
(* The drive *)

\* A command is accepted, or a sector written: DRQ for the data of a read or
\* of a write, ready once a write or a flush is done.
DriveDone ==
  /\ status = "busy"
  /\ lba \in Sectors
  /\ CASE cmd = "read" -> status' = "drq" /\ data' = disk[lba] /\ UNCHANGED disk
       [] cmd = "write" /\ data = "junk" -> status' = "drq" /\ UNCHANGED <<data, disk>>
       [] cmd = "write" /\ data # "junk" ->
            /\ status' = "ready" /\ data' = "junk"
            /\ disk' = [disk EXCEPT ![lba] = data]
       [] cmd = "flush" -> status' = "ready" /\ UNCHANGED <<data, disk>>
  /\ UNCHANGED <<driver, err, cmd, lba, history>>

\* The command fails.
DriveError ==
  /\ status = "busy"
  /\ status' = "ready" /\ err' = TRUE /\ data' = "junk"
  /\ UNCHANGED <<driver, cmd, lba, disk, history>>

----------------------------------------------------------------------------
Driver == Timeout \/ issue_lba48 \/ MoveData \/ check
Drive == DriveDone \/ DriveError

Next ==
  \/ \E a \in 0 .. LbaMod - 1, n \in 1 .. MaxCount : blk_read(a, n) \/ blk_write(a, n)
  \/ Driver \/ Drive

Spec == Init /\ [][Next]_vars

\* The processor runs.  Nothing is assumed of the drive.
FairSpec == Spec /\ WF_vars(Driver)

----------------------------------------------------------------------------
(* Properties *)

TypeOK ==
  /\ pc \in {"idle", "issue", "data", "check"}
  /\ req.kind \in {"none", "read", "write"} /\ s \in 0 .. MaxCount - 1
  /\ staging \in Values \cup {"junk"} /\ data \in Values \cup {"junk"}
  /\ out \in [0 .. MaxCount - 1 -> Values \cup {"junk", "none"}]
  /\ ret.code \in {0, -1}
  /\ status \in {"busy", "drq", "ready"} /\ err \in BOOLEAN
  /\ cmd \in {"none", "read", "write", "flush"} /\ lba \in 0 .. Lba48 - 1
  /\ disk \in [Sectors -> Values] /\ early \in BOOLEAN

\* The one step that the promise of blkdev.h does not have ("All return 0 on success",
\* blkdev.h:25): a call returns 0 and has moved words that the drive had not asked for,
\* since the word loop does not wait for DRQ.  It leaves the medium alone.
SucceedEarly ==
  /\ early /\ req # NoReq /\ req' = NoReq
  /\ ret'.code = 0
  /\ UNCHANGED <<disk, late>>

\* The early words are all that is wrong: a call that returns 0 has transferred every
\* sector or moved words early, and whatever happened to the words, the medium only
\* ever changes in sectors of the running write or of the one that failed last, to
\* what was to be written there, also when time-outs leave a command in the drive
\* and a request wraps at the end of a u64 (transfer_sector, drv_read, drv_write).
OnlyEarlyWordsAreLost ==
  Abstract!Init /\ [][Abstract!Next \/ SucceedEarly]_<<disk, req, late, ret>>

\* Every call returns, also when the drive never answers again, before a command or
\* after it: all waits of ata.c are bounded.
CallReturns == (pc # "idle") ~> (pc = "idle")
=============================================================================
