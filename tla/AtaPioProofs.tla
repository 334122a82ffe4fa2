---------------------------- MODULE AtaPioProofs ----------------------------
(***************************************************************************)
(* Proofs about drivers/block/ata.c (module AtaPio): the driver is the block *)
(* device that blkdev.h promises but for the words it moves before the drive *)
(* asks for them, for disks, buffers and requests of any size.              *)
(*                                                                         *)
(* Plan: the sector that the LBA registers name is the one that was asked    *)
(* for; then the inductive invariant, which says at each place of           *)
(* transfer_sector what the drive holds; then the refinement.               *)
(***************************************************************************)
EXTENDS AtaPio, TLAPS

Contents == Values \cup {"junk"}

\* The arguments that blk_read and blk_write pass on to the driver.
Requests ==
  { r \in [kind : {"read", "write"}, lba : 0 .. LbaMod - 1, count : 1 .. MaxCount,
           data : [0 .. MaxCount - 1 -> Values \cup {"none"}]] :
      /\ InRange(r.lba, r.count)
      /\ r.kind = "write" => \A i \in 0 .. r.count - 1 : r.data[i] \in Values }

----------------------------------------------------------------------------
(* The LBA registers *)

\* A position behind a multiple of the number of LBA values.
LEMMA Remainder ==
  ASSUME NEW n \in Nat, NEW q \in Nat, NEW x \in 0 .. n - 1
  PROVE  (q * n + x) % n = x
  BY SMT

\* A number short of a multiple.
LEMMA ShortOf ==
  ASSUME NEW n \in Nat, NEW m \in Nat, m % n = 0, NEW c \in 1 .. n, c <= m
  PROVE  (m - c) % n = n - c
<1>1. n \in Nat /\ n > 0 /\ m \div n \in Nat /\ m = (m \div n) * n
  BY SMT
<1>2. PICK q \in Nat : m = q * n
  BY <1>1
<1>3. q > 0
  BY <1>1, <1>2
<1>4. m - c = (q - 1) * n + (n - c)
  BY <1>1, <1>2
<1>5. q - 1 \in Nat /\ n - c \in 0 .. n - 1
  BY <1>1, <1>3
<1>6. ((q - 1) * n + (n - c)) % n = n - c
  BY <1>5, Remainder
<1> QED
  BY <1>4, <1>6

\* A request that passed the test of blkdev.c and whose first sector is found on
\* the disk starts there: one whose end wraps at the end of a u64 is addressed
\* behind the disk.
LEMMA FirstSector ==
  ASSUME NEW r \in Requests, r.lba % Lba48 \in Sectors
  PROVE  r.lba % Lba48 = r.lba
<1> DEFINE a == r.lba
           n == r.count
<1>1. /\ a \in Nat /\ a < LbaMod /\ n \in Nat /\ 1 <= n /\ n <= MaxCount
      /\ (a + n) % LbaMod <= Capacity
  BY DriveAssumption DEF Requests, InRange
<1>2. /\ Capacity \in Nat /\ Lba48 \in Nat /\ LbaMod \in Nat /\ MaxCount \in Nat
      /\ MaxCount > 0 /\ Capacity > 0 /\ Capacity + MaxCount <= Lba48
      /\ LbaMod % Lba48 = 0 /\ a % Lba48 < Capacity
  BY DriveAssumption DEF Sectors
<1> HIDE DEF a, n
<1>3. Lba48 <= LbaMod
  BY <1>1, <1>2
<1>4. CASE a + n < LbaMod
  <2>1. a + n \in Nat /\ (a + n) % LbaMod = a + n
    BY <1>1, <1>2, <1>4
  <2>2. a < Lba48
    BY <1>1, <1>2, <2>1
  <2>3. a % Lba48 = a
    BY <1>1, <1>2, <2>2
  <2> QED
    BY <2>3 DEF a
<1>5. CASE a + n >= LbaMod
  <2> DEFINE c == LbaMod - a
  <2>1. c \in 1 .. Lba48 /\ c <= MaxCount /\ c <= LbaMod
    BY <1>1, <1>2, <1>5
  <2>2. (LbaMod - c) % Lba48 = Lba48 - c
    <3> HIDE DEF c
    <3> QED
      BY <1>2, <2>1, ShortOf
  <2>3. LbaMod - c = a
    BY <1>1, <1>2
  <2> QED
    BY <1>2, <2>1, <2>2, <2>3
<1> QED
  BY <1>1, <1>2, <1>4, <1>5

\* The same for each sector of a request, once the ones before it were found.
LEMMA AddressExact ==
  ASSUME NEW r \in Requests, NEW j \in 0 .. r.count - 1,
         \A i \in 0 .. j - 1 : r.lba + i \in Sectors,
         (r.lba + j) % Lba48 \in Sectors
  PROVE  (r.lba + j) % Lba48 = r.lba + j
<1>1. /\ r.lba \in Nat /\ r.count \in 1 .. MaxCount /\ j \in Nat /\ j < MaxCount
  BY DriveAssumption DEF Requests
<1>2. CASE j = 0
  BY <1>1, <1>2, FirstSector
<1>3. CASE j > 0
  <2>1. r.lba + 0 \in Sectors
    BY <1>1, <1>3
  <2>2. r.lba + j < Lba48 /\ r.lba + j \in Nat
    BY <1>1, <2>1, DriveAssumption DEF Sectors
  <2> QED
    BY <2>2, DriveAssumption
<1> QED
  BY <1>1, <1>2, <1>3
----------------------------------------------------------------------------
(* The inductive invariant *)

RegistersOK ==
  /\ status \in {"busy", "drq", "ready"} /\ err \in BOOLEAN
  /\ cmd \in {"none", "read", "write", "flush"} /\ (status = "busy" => cmd # "none")
  /\ staging \in Contents /\ data \in Contents
  /\ out \in [0 .. MaxCount - 1 -> Contents \cup {"none"}]
  /\ disk \in [Sectors -> Values] /\ early \in BOOLEAN

\* Between calls there is no request; in a call the sectors before s are done,
\* unless words were moved early.
RequestOK ==
  /\ pc \in {"idle", "issue", "data", "check"}
  /\ pc = "idle" => req = NoReq /\ s = 0
  /\ pc # "idle" =>
       /\ req \in Requests /\ s \in 0 .. req.count - 1
       /\ \A i \in 0 .. s - 1 :
            /\ req.lba + i \in Sectors
            /\ ~early => disk[req.lba + i] = IF req.kind = "write" THEN req.data[i] ELSE out[i]
       /\ s > 0 => late = NoReq

\* When the next command is to be given, a drive that is BSY with the words of a
\* sector to write has them from the write that has timed out.
BetweenOK ==
  pc \in {"idle", "issue"} =>
    /\ late = NoReq \/ (late \in Requests /\ late.kind = "write")
    /\ status = "busy" /\ cmd = "write" /\ data # "junk" =>
         /\ data \in Values /\ late # NoReq
         /\ lba \in Sectors => /\ lba - late.lba \in 0 .. late.count - 1
                               /\ data = late.data[lba - late.lba]

\* The command has been given.
CommandOK ==
  pc \in {"data", "check"} => late = NoReq /\ cmd = req.kind /\ lba = Address

DataOK ==
  pc = "data" =>
    /\ req.kind = "write" => staging = req.data[s]
    /\ status = "busy" => ~err /\ data = "junk"
    /\ status = "drq" =>
         /\ ~err /\ lba \in Sectors
         /\ data = IF req.kind = "read" THEN disk[lba] ELSE "junk"
    /\ status = "ready" => err

\* The data have been moved.
CheckOK ==
  pc = "check" =>
    /\ status = "drq" => early /\ ~err /\ lba \in Sectors
    /\ status = "busy" =>
         /\ ~err
         /\ \/ early /\ data = "junk"
            \/ req.kind = "write" /\ lba \in Sectors /\ data = req.data[s]
    /\ status = "ready" /\ ~err =>
         /\ lba \in Sectors
         /\ disk[lba] = IF req.kind = "read" THEN staging ELSE req.data[s]

IInv == RegistersOK /\ RequestOK /\ BetweenOK /\ CommandOK /\ DataOK /\ CheckOK

----------------------------------------------------------------------------
(* Every step keeps it *)

\* Having no request is not a request.
LEMMA NoRequest == NoReq.kind = "none" /\ NoReq \notin Requests
  BY DEF NoReq, Abstract!NoReq, Requests

\* Once the command is given, a sector of the disk in the LBA registers is the
\* one that the loop has come to.
LEMMA WhereLba ==
  ASSUME IInv, pc \in {"data", "check"}, lba \in Sectors
  PROVE  lba = req.lba + s
<1>1. /\ req \in Requests /\ s \in 0 .. req.count - 1 /\ lba = (req.lba + s) % Lba48
      /\ \A i \in 0 .. s - 1 : req.lba + i \in Sectors
  BY DEF IInv, RequestOK, CommandOK, Address
<1> QED
  BY <1>1, AddressExact

LEMMA InitInv == Init => IInv
  BY NoRequest, DriveAssumption
     DEF Init, IInv, RegistersOK, RequestOK, BetweenOK, CommandOK, DataOK, CheckOK, Contents,
         NoData, Abstract!NoData

LEMMA CallStep ==
  ASSUME IInv, NEW a \in 0 .. LbaMod - 1, NEW n \in 1 .. MaxCount, blk_read(a, n) \/ blk_write(a, n)
  PROVE  IInv'
<1>1. PICK kind \in {"read", "write"}, d \in [0 .. MaxCount - 1 -> Values \cup {"none"}] :
        /\ Call(kind, a, n, d)
        /\ kind = "write" => \A i \in 0 .. n - 1 : d[i] \in Values
  <2>1. NoData \in [0 .. MaxCount - 1 -> Values \cup {"none"}] /\ DOMAIN NoData = 0 .. MaxCount - 1
    BY DEF NoData, Abstract!NoData
  <2>2. CASE blk_read(a, n)
    BY <2>1, <2>2 DEF blk_read
  <2>3. CASE blk_write(a, n)
    <3>1. PICK v \in [0 .. n - 1 -> Values] :
            Call("write", a, n, [i \in DOMAIN NoData |-> IF i < n THEN v[i] ELSE "none"])
      BY <2>3 DEF blk_write
    <3> DEFINE d == [i \in DOMAIN NoData |-> IF i < n THEN v[i] ELSE "none"]
    <3>2. d \in [0 .. MaxCount - 1 -> Values \cup {"none"}]
      BY <2>1, DriveAssumption
    <3>3. \A i \in 0 .. n - 1 : d[i] \in Values
      BY <2>1, DriveAssumption
    <3> HIDE DEF d
    <3> QED
      BY <3>1, <3>2, <3>3 DEF d
  <2> QED
    BY <2>2, <2>3
<1>2. CASE ~InRange(a, n)
  BY <1>1, <1>2 DEF Call, drive, history, IInv, RegistersOK, RequestOK, BetweenOK, CommandOK, DataOK, CheckOK
<1>3. CASE InRange(a, n)
  <2> DEFINE r == [kind |-> kind, lba |-> a, count |-> n, data |-> d]
  <2>1. req' \in Requests /\ req'.count \in 1 .. MaxCount
    <3>1. req' = r
      BY <1>1, <1>3 DEF Call
    <3>2. r \in [kind : {"read", "write"}, lba : 0 .. LbaMod - 1, count : 1 .. MaxCount,
                 data : [0 .. MaxCount - 1 -> Values \cup {"none"}]]
      BY <1>1
    <3>3. InRange(r.lba, r.count) /\ r.kind = kind /\ r.count = n /\ r.data = d
      BY <1>3
    <3> HIDE DEF r
    <3> QED
      BY <1>1, <3>1, <3>2, <3>3 DEF Requests
  <2> QED
    BY <1>1, <1>3, <2>1, DriveAssumption
       DEF Call, drive, history, IInv, RegistersOK, RequestOK, BetweenOK, CommandOK, DataOK, CheckOK
<1> QED
  BY <1>2, <1>3

LEMMA TimeoutStep == ASSUME IInv, Timeout PROVE IInv'
<1> USE DEF Timeout, Return, drive, IInv
<1>1. RegistersOK' /\ RequestOK' /\ CommandOK' /\ DataOK' /\ CheckOK'
  BY DriveAssumption DEF RegistersOK, RequestOK, CommandOK, DataOK, CheckOK, NoData, Abstract!NoData
<1>2. CASE pc = "issue"
  BY <1>1, <1>2 DEF RequestOK, BetweenOK
<1>3. CASE pc = "check"
  <2>1. lba \in Sectors => lba = req.lba + s
    BY <1>3, WhereLba
  <2>2. /\ req \in Requests /\ s \in 0 .. req.count - 1 /\ req.lba \in Nat
        /\ \A i \in 0 .. req.count - 1 : req.kind = "write" => req.data[i] \in Values
    BY <1>3, DriveAssumption DEF RequestOK, Requests
  <2> QED
    BY <1>1, <1>3, <2>1, <2>2, NoRequest DEF BetweenOK, CheckOK, CommandOK
<1> QED
  BY <1>2, <1>3

LEMMA IssueStep == ASSUME IInv, issue_lba48 PROVE IInv'
<1>1. req \in Requests /\ s \in 0 .. req.count - 1 /\ req' = req /\ s' = s
  BY DEF issue_lba48, IInv, RequestOK
<1>2. req.kind = "write" => req.data[s] \in Contents
  BY <1>1 DEF Requests, Contents
<1>3. RegistersOK'
  <2>1. staging' \in Contents /\ data' \in Contents
    BY <1>2 DEF issue_lba48, IInv, RegistersOK, Contents
  <2>2. err' \in BOOLEAN /\ status' = "busy" /\ UNCHANGED <<out, disk, early>>
    BY Zenon DEF issue_lba48
  <2>3. cmd' \in {"read", "write"}
    BY <1>1 DEF issue_lba48, Requests
  <2> QED
    BY <2>1, <2>2, <2>3 DEF IInv, RegistersOK
<1>4. RequestOK' /\ BetweenOK'
  BY <1>1 DEF issue_lba48, IInv, RequestOK, BetweenOK
<1>5. CommandOK' /\ CheckOK'
  BY <1>1 DEF issue_lba48, CommandOK, CheckOK, Address
<1>6. DataOK'
  BY <1>1 DEF issue_lba48, DataOK
<1> QED
  BY <1>3, <1>4, <1>5, <1>6 DEF IInv

LEMMA MoveStep == ASSUME IInv, MoveData PROVE IInv'
<1>1. req \in Requests /\ req' = req /\ s' = s /\ (req.kind = "read" \/ req.kind = "write")
  BY DEF MoveData, IInv, RequestOK, Requests
<1> QED
  BY <1>1 DEF MoveData, IInv, RegistersOK, RequestOK, BetweenOK, CommandOK, DataOK, CheckOK,
              Contents, Address

LEMMA CheckStep == ASSUME IInv, check PROVE IInv'
<1>1. /\ req \in Requests /\ s \in 0 .. req.count - 1 /\ req.count \in 1 .. MaxCount
      /\ req.lba \in Nat /\ s \in Nat /\ req.count \in Nat /\ pc = "check" /\ status # "busy"
      /\ req.kind = "read" \/ req.kind = "write"
  BY DriveAssumption DEF check, NotBusy, IInv, RegistersOK, RequestOK, Requests, CheckOK
<1>2. CASE err
  BY <1>1, <1>2, NoRequest
     DEF check, Refused, Return, drive, IInv, RegistersOK, RequestOK, BetweenOK, CommandOK, DataOK,
         CheckOK, NoData, Abstract!NoData
<1>3. CASE ~err
  <2> DEFINE got == IF req.kind = "read" THEN [out EXCEPT ![s] = staging] ELSE out
  <2>1. lba \in Sectors /\ lba = req.lba + s /\ late = NoReq
    BY <1>1, <1>3, WhereLba DEF IInv, CheckOK, CommandOK, RegistersOK
  <2>2. ~early => disk[lba] = IF req.kind = "read" THEN staging ELSE req.data[s]
    BY <1>1, <1>3 DEF IInv, CheckOK, RegistersOK
  <2>3. got \in [0 .. MaxCount - 1 -> Contents \cup {"none"}]
    BY <1>1 DEF IInv, RegistersOK
  <2>4. \A i \in 0 .. s :
          /\ req.lba + i \in Sectors
          /\ ~early => disk[req.lba + i] = IF req.kind = "write" THEN req.data[i] ELSE got[i]
    <3> SUFFICES ASSUME NEW i \in 0 .. s
        PROVE  /\ req.lba + i \in Sectors
               /\ ~early => disk[req.lba + i] = IF req.kind = "write" THEN req.data[i] ELSE got[i]
      OBVIOUS
    <3>1. CASE i = s
      <4>1. s \in 0 .. MaxCount - 1 /\ out \in [0 .. MaxCount - 1 -> Contents \cup {"none"}]
        BY <1>1, DriveAssumption DEF IInv, RegistersOK
      <4> QED
        BY <1>1, <2>1, <2>2, <3>1, <4>1
    <3>2. CASE i < s
      BY <1>1, <3>2 DEF IInv, RegistersOK, RequestOK
    <3> QED
      BY <1>1, <3>1, <3>2
  <2> HIDE DEF got
  <2>5. RegistersOK' /\ DataOK' /\ CheckOK' /\ CommandOK'
    <3>1. out' \in [0 .. MaxCount - 1 -> Contents \cup {"none"}]
      BY <1>1, <1>3, <2>3 DEF check, Refused, Return, got, NoData, Abstract!NoData
    <3> QED
      BY <1>1, <1>3, <3>1 DEF check, Refused, Return, history, IInv, RegistersOK, CommandOK, DataOK, CheckOK
  <2>6. BetweenOK'
    BY <1>1, <1>3, <2>1 DEF check, Refused, Return, history, IInv, BetweenOK
  <2>7. RequestOK'
    <3>1. CASE s + 1 = req.count
      BY <1>1, <1>3, <3>1 DEF check, Refused, Return, RequestOK
    <3>2. CASE s + 1 # req.count
      <4>1. /\ req' = req /\ s' = s + 1 /\ out' = got /\ pc' = "issue" /\ late' = NoReq
            /\ disk' = disk /\ early' = early
        BY <1>1, <1>3, <2>1, <3>2 DEF check, Refused, history, got
      <4>2. s' \in 0 .. req.count - 1
        BY <1>1, <3>2, <4>1
      <4> QED
        BY <1>1, <2>4, <4>1, <4>2 DEF RequestOK
    <3> QED
      BY <3>1, <3>2
  <2> QED
    BY <2>5, <2>6, <2>7 DEF IInv
<1> QED
  BY <1>2, <1>3

LEMMA DriveErrorStep == ASSUME IInv, DriveError PROVE IInv'
<1>1. CASE pc = "check"
  BY <1>1 DEF DriveError, driver, history, IInv, RegistersOK, RequestOK, BetweenOK, CommandOK, DataOK, CheckOK,
              Contents, Address
<1>2. CASE pc # "check"
  BY <1>2 DEF DriveError, driver, history, IInv, RegistersOK, RequestOK, BetweenOK, CommandOK, DataOK, CheckOK,
              Contents, Address
<1> QED
  BY <1>1, <1>2

\* A sector is written only for the command that is being checked, or for the
\* write that timed out last.
LEMMA DriveDoneStep == ASSUME IInv, DriveDone PROVE IInv'
<1>1. /\ status = "busy" /\ lba \in Sectors /\ UNCHANGED <<driver, err, cmd, lba, history>>
      /\ disk \in [Sectors -> Values] /\ early \in BOOLEAN /\ early' = early
  BY DEF DriveDone, history, IInv, RegistersOK
<1>2. CASE cmd = "write" /\ data # "junk"
  <2>1. status' = "ready" /\ data' = "junk" /\ disk' = [disk EXCEPT ![lba] = data]
    BY <1>2 DEF DriveDone
  <2>2. CASE pc \in {"idle", "issue"}
    <3>1. data \in Values /\ late # NoReq
      BY <1>1, <1>2, <2>2 DEF IInv, BetweenOK
    <3>2. disk' \in [Sectors -> Values]
      BY <1>1, <2>1, <3>1
    <3>3. s = 0
      BY <2>2, <3>1 DEF IInv, RequestOK
    <3> QED
      BY <1>1, <2>1, <2>2, <3>2, <3>3
         DEF driver, history, IInv, RegistersOK, RequestOK, BetweenOK, CommandOK, DataOK, CheckOK,
             Contents, Address
  <2>3. CASE pc \in {"data", "check"}
    <3>1. pc = "check" /\ req.kind = "write" /\ data = req.data[s]
      BY <1>1, <1>2, <2>3 DEF IInv, DataOK, CheckOK
    <3>2. req \in Requests /\ s \in 0 .. req.count - 1 /\ lba = req.lba + s
      BY <1>1, <2>3, WhereLba DEF IInv, RequestOK
    <3>3. data \in Values /\ s \in Nat /\ req.lba \in Nat
      BY <3>1, <3>2, DriveAssumption DEF Requests
    <3>4. disk' \in [Sectors -> Values] /\ disk'[lba] = data
      BY <1>1, <2>1, <3>3
    <3>5. \A i \in 0 .. s - 1 : req.lba + i # lba
      BY <3>2, <3>3
    <3>6. \A i \in 0 .. s - 1 : req.lba + i \in Sectors => disk'[req.lba + i] = disk[req.lba + i]
      BY <1>1, <2>1, <3>5
    <3>7. RequestOK'
      BY <1>1, <3>1, <3>6 DEF driver, history, IInv, RequestOK
    <3> QED
      BY <1>1, <2>1, <3>1, <3>4, <3>7
         DEF driver, history, IInv, RegistersOK, BetweenOK, CommandOK, DataOK, CheckOK, Contents, Address
  <2> QED
    BY <2>2, <2>3 DEF IInv, RequestOK
<1>3. CASE ~(cmd = "write" /\ data # "junk")
  <2>1. /\ disk' = disk /\ data' \in Contents
        /\ status' = IF cmd = "flush" THEN "ready" ELSE "drq"
        /\ data' = IF cmd = "read" THEN disk[lba] ELSE data
    <3>1. cmd \in {"read", "write", "flush"}
      BY <1>1 DEF IInv, RegistersOK
    <3> QED
      BY <1>1, <1>3, <3>1 DEF DriveDone, IInv, RegistersOK, Contents
  <2>2. pc \in {"data", "check"} => req \in Requests /\ cmd = req.kind /\ cmd \in {"read", "write"}
    BY DEF IInv, RequestOK, CommandOK, Requests
  <2>3. pc = "check" => early
    BY <1>1, <1>3, <2>2, DriveAssumption DEF IInv, RequestOK, CheckOK, Requests
  <2>4. RegistersOK' /\ RequestOK' /\ CommandOK'
    BY <1>1, <2>1 DEF driver, history, IInv, RegistersOK, RequestOK, CommandOK, Address
  <2>5. BetweenOK'
    BY <1>1, <2>1 DEF driver, history, IInv, BetweenOK
  <2>6. DataOK' /\ CheckOK'
    BY <1>1, <2>1, <2>2, <2>3 DEF driver, history, IInv, DataOK, CheckOK
  <2> QED
    BY <2>4, <2>5, <2>6 DEF IInv
<1> QED
  BY <1>2, <1>3

LEMMA InvStep == ASSUME IInv, [Next]_vars PROVE IInv'
<1>1. CASE UNCHANGED vars
  BY <1>1 DEF vars, driver, drive, history, IInv, RegistersOK, RequestOK, BetweenOK, CommandOK, DataOK,
              CheckOK, Address
<1> QED
  BY <1>1, CallStep, TimeoutStep, IssueStep, MoveStep, CheckStep, DriveDoneStep, DriveErrorStep
     DEF Next, Driver, Drive

\* The request, the drive and the failed write are always
\* what transfer_sector takes them for.
THEOREM DriveInvariant == Spec => []IInv
<1>1. IInv /\ [Next]_vars => IInv'
  BY InvStep
<1> QED
  BY <1>1, InitInv, PTL DEF Spec

----------------------------------------------------------------------------
(* The block device *)

abstract == <<disk, req, late, ret>>

\* The sector that the drive writes is the one of request r with its number.
LEMMA SectorWritten ==
  ASSUME NEW r \in Requests, lba \in Sectors, lba - r.lba \in 0 .. r.count - 1,
         disk \in [Sectors -> Values], data = r.data[lba - r.lba],
         disk' = [disk EXCEPT ![lba] = data]
  PROVE  Abstract!Carried(r)
<1> DEFINE S == {lba - r.lba}
<1>1. S \subseteq 0 .. r.count - 1
  OBVIOUS
<1>2. r.lba \in Int /\ lba \in Int /\ \A x \in Sectors : x \in Int
  BY DriveAssumption DEF Requests, Sectors
<1>3. disk' = [x \in Sectors |-> IF x - r.lba \in S THEN r.data[x - r.lba] ELSE disk[x]]
  <2>1. \A x \in Sectors : x - r.lba \in S <=> x = lba
    BY <1>2
  <2> HIDE DEF S
  <2>2. \A x \in Sectors :
          disk'[x] = IF x - r.lba \in S THEN r.data[x - r.lba] ELSE disk[x]
    BY <2>1
  <2> QED
    BY <2>2
<1> HIDE DEF S
<1> QED
  BY <1>1, <1>3 DEF Abstract!Carried

\* blk_read and blk_write begin a request, or fail at once.
LEMMA CallRefines ==
  ASSUME IInv, NEW a \in 0 .. LbaMod - 1, NEW n \in 1 .. MaxCount, blk_read(a, n) \/ blk_write(a, n)
  PROVE  Abstract!Next
<1>1. pc = "idle" /\ req = NoReq /\ ret' = Failed /\ disk' = disk /\ late' = late
  BY DEF blk_read, blk_write, Call, drive, history, IInv, RequestOK
<1>2. IInv'
  BY CallStep
<1>3. CASE pc' = "issue"
  <2>1. req' \in Requests
    BY <1>2, <1>3 DEF IInv, RequestOK
  <2>2. Abstract!Begin
    BY <1>1, <2>1 DEF Abstract!Begin, Requests, NoReq, Failed
  <2> QED
    BY <2>2 DEF Abstract!Next
<1>4. CASE pc' # "issue"
  <2>1. req' = req
    BY <1>4 DEF blk_read, blk_write, Call
  <2>2. Abstract!Fail
    BY <1>1, <2>1 DEF Abstract!Fail, NoReq, Failed
  <2> QED
    BY <2>2 DEF Abstract!Next
<1> QED
  BY <1>3, <1>4

LEMMA TimeoutRefines == ASSUME Timeout PROVE Abstract!Next
<1>1. Abstract!Fail
  BY DEF Timeout, Return, drive, Abstract!Fail, NoReq, Failed
<1> QED
  BY <1>1 DEF Abstract!Next

\* A new command ends what was left of a failed write.
LEMMA IssueRefines == ASSUME issue_lba48 PROVE [Abstract!Next]_abstract
<1>1. CASE late = NoReq
  BY <1>1 DEF issue_lba48, abstract
<1>2. CASE late # NoReq
  <2>1. Abstract!Settle
    BY <1>2 DEF issue_lba48, Abstract!Settle, NoReq
  <2> QED
    BY <2>1 DEF Abstract!Next
<1> QED
  BY <1>1, <1>2

\* The end of transfer_sector: the request fails, goes on, or has been carried out
\* in full.
LEMMA CheckRefines == ASSUME IInv, check PROVE [Abstract!Next \/ SucceedEarly]_abstract
<1>1. /\ req \in Requests /\ s \in 0 .. req.count - 1 /\ req.count \in 1 .. MaxCount
      /\ req.lba \in Nat /\ s \in Nat /\ req.count \in Nat /\ pc = "check" /\ status # "busy"
      /\ req.kind = "read" \/ req.kind = "write"
      /\ s \in 0 .. MaxCount - 1 /\ out \in [0 .. MaxCount - 1 -> Contents \cup {"none"}]
  BY DriveAssumption DEF check, NotBusy, IInv, RegistersOK, RequestOK, Requests, CheckOK
<1>2. CASE err
  <2>1. Abstract!Fail
    BY <1>2 DEF check, Refused, Return, drive, Abstract!Fail, NoReq, Failed
  <2> QED
    BY <2>1 DEF Abstract!Next
<1>3. CASE ~err /\ s + 1 # req.count
  BY <1>3 DEF check, Refused, history, abstract
<1>4. CASE ~err /\ s + 1 = req.count
  <2> DEFINE got == IF req.kind = "read" THEN [out EXCEPT ![s] = staging] ELSE out
  <2>1. lba \in Sectors /\ lba = req.lba + s /\ late = NoReq
    BY <1>1, <1>4, WhereLba DEF IInv, CheckOK, CommandOK, RegistersOK
  <2>2. ~early => disk[lba] = IF req.kind = "read" THEN staging ELSE req.data[s]
    BY <1>1, <1>4 DEF IInv, CheckOK, RegistersOK
  <2>3. ASSUME NEW i \in 0 .. req.count - 1
        PROVE  /\ req.lba + i \in Sectors
               /\ ~early => disk[req.lba + i] = IF req.kind = "write" THEN req.data[i] ELSE got[i]
    <3>1. CASE i = s
      BY <1>1, <2>1, <2>2, <3>1
    <3>2. CASE i < s
      BY <1>1, <3>2 DEF IInv, RequestOK
    <3> QED
      BY <1>1, <1>4, <3>1, <3>2
  <2> HIDE DEF got
  <2>4. /\ ret' = [code |-> 0, data |-> got] /\ req' = NoReq /\ disk' = disk
        /\ late' = IF [code |-> 0, data |-> got] = Failed /\ req.kind = "write" THEN req ELSE late
    BY <1>1, <1>4 DEF check, Refused, Return, got
  <2>5. late' = late
    BY <2>4 DEF Failed, Abstract!Failed
  <2>6. ret'.code = 0 /\ ret'.data = got
    BY <2>4
  <2>7. req # NoReq
    BY <1>1, NoRequest
  <2>8. ~early => Abstract!Succeed
    BY <2>1, <2>3, <2>4, <2>5, <2>6, <2>7 DEF Abstract!Succeed, NoReq
  <2>9. early => SucceedEarly
    BY <2>4, <2>5, <2>6, <2>7 DEF SucceedEarly
  <2> QED
    BY <2>8, <2>9 DEF Abstract!Next, IInv, RegistersOK
<1> QED
  BY <1>2, <1>3, <1>4

\* The drive writes a sector of the request it was given, in time or late.
LEMMA DriveRefines == ASSUME IInv, DriveDone PROVE [Abstract!Next]_abstract
<1>1. /\ status = "busy" /\ lba \in Sectors /\ UNCHANGED <<driver, err, cmd, lba, history>>
      /\ disk \in [Sectors -> Values] /\ lba \in Int
  BY DriveAssumption DEF DriveDone, IInv, RegistersOK, Sectors
<1>2. CASE disk' = disk
  BY <1>1, <1>2 DEF driver, history, abstract
<1>3. CASE disk' # disk
  <2>1. cmd = "write" /\ data # "junk" /\ disk' = [disk EXCEPT ![lba] = data]
    <3>1. cmd \in {"read", "write", "flush"}
      BY <1>1 DEF IInv, RegistersOK
    <3> QED
      BY <1>3, <3>1 DEF DriveDone
  <2>2. CASE pc \in {"data", "check"}
    <3>1. pc = "check"
      BY <1>1, <2>1, <2>2 DEF IInv, DataOK
    <3>2. /\ req \in Requests /\ req.kind = "write" /\ data = req.data[s] /\ late = NoReq
          /\ s \in 0 .. req.count - 1 /\ lba = req.lba + s
      BY <1>1, <2>1, <2>2, <3>1, WhereLba DEF IInv, RequestOK, CommandOK, CheckOK
    <3>3. lba - req.lba = s
      BY <1>1, <3>2, DriveAssumption DEF Requests
    <3>4. Abstract!Carried(req)
      BY <1>1, <2>1, <3>2, <3>3, SectorWritten
    <3>5. Abstract!Write
      BY <1>1, <3>2, <3>4 DEF Abstract!Write, driver, history, NoReq
    <3> QED
      BY <3>5 DEF Abstract!Next
  <2>3. CASE pc \in {"idle", "issue"}
    <3>1. /\ late \in Requests /\ late.kind = "write"
          /\ lba - late.lba \in 0 .. late.count - 1 /\ data = late.data[lba - late.lba]
      BY <1>1, <2>1, <2>3 DEF IInv, BetweenOK
    <3>2. Abstract!Carried(late)
      BY <1>1, <2>1, <3>1, SectorWritten
    <3>3. Abstract!WriteLate
      BY <1>1, <3>1, <3>2 DEF Abstract!WriteLate, driver, history
    <3> QED
      BY <3>3 DEF Abstract!Next
  <2> QED
    BY <2>2, <2>3 DEF IInv, RequestOK
<1> QED
  BY <1>2, <1>3

LEMMA RefinementStep == ASSUME IInv, [Next]_vars PROVE [Abstract!Next \/ SucceedEarly]_abstract
<1>1. CASE MoveData \/ DriveError \/ UNCHANGED vars
  BY <1>1 DEF MoveData, DriveError, vars, driver, drive, history, abstract
<1> QED
  BY <1>1, CallRefines, TimeoutRefines, IssueRefines, CheckRefines, DriveRefines
     DEF Next, Driver, Drive

\* ata.c is the block device of blkdev.h but for the words moved early: 0 means that
\* every sector was transferred or words were moved before the drive asked for them,
\* and nothing outside a request is ever written, however errors and time-outs fall
\* and also when a request wraps at the end of a u64.
THEOREM OnlyEarlyIsWrong == Spec => OnlyEarlyWordsAreLost
<1>1. Init => Abstract!Init
  BY DEF Init, Abstract!Init, NoReq, Failed
<1>2. IInv /\ [Next]_vars => [Abstract!Next \/ SucceedEarly]_<<disk, req, late, ret>>
  BY RefinementStep DEF abstract
<1> QED
  BY <1>1, <1>2, DriveInvariant, PTL DEF Spec, OnlyEarlyWordsAreLost

=============================================================================
