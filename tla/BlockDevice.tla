---------------------------- MODULE BlockDevice ----------------------------
(***************************************************************************)
(* What drivers/block/blkdev.h promises of a block device: sectors addressed *)
(* by number, a read or a write of several at a time, 0 on success and -1 on *)
(* error.  A request that returned 0 was carried out in full; one that       *)
(* failed may have been carried out in part, or be carried out late, but     *)
(* before anything the next request does; nothing outside it changes.       *)
(***************************************************************************)
EXTENDS Integers

CONSTANTS
  Sectors,    \* the sectors of the medium
  Values,     \* what a sector may hold
  MaxCount    \* the longest request

VARIABLES
  disk,       \* the medium
  req,        \* the request being served
  late,       \* a failed write the medium may still carry out
  ret         \* the outcome of the last one, with the data of a read

NoData == [i \in 0 .. MaxCount - 1 |-> "none"]
NoReq == [kind |-> "none", lba |-> 0, count |-> 0, data |-> NoData]
Failed == [code |-> -1, data |-> NoData]

Init ==
  /\ disk \in [Sectors -> Values]
  /\ req = NoReq /\ late = NoReq
  /\ ret = Failed

Begin ==
  /\ req = NoReq
  /\ req'.kind \in {"read", "write"} /\ req'.count \in 1 .. MaxCount
  /\ req'.kind = "write" => \A i \in 0 .. req'.count - 1 : req'.data[i] \in Values
  /\ ret' = Failed          \* nothing has been returned yet
  /\ UNCHANGED <<disk, late>>

Carried(r) ==
  \E S \in SUBSET (0 .. r.count - 1) :
    disk' = [s \in Sectors |-> IF s - r.lba \in S THEN r.data[s - r.lba] ELSE disk[s]]

\* Some sectors of a write reach the medium.
Write ==
  /\ req.kind = "write" /\ late = NoReq
  /\ Carried(req)
  /\ UNCHANGED <<req, late, ret>>

WriteLate ==
  /\ late.kind = "write"
  /\ Carried(late)
  /\ UNCHANGED <<req, late, ret>>

\* A failed write is over.
Settle ==
  /\ late # NoReq /\ late' = NoReq
  /\ UNCHANGED <<disk, req, ret>>

\* The request, carried out in full, returns 0.
Succeed ==
  /\ req # NoReq /\ late = NoReq
  /\ req' = NoReq
  /\ ret'.code = 0
  /\ \A i \in 0 .. req.count - 1 :
       /\ req.lba + i \in Sectors
       /\ disk[req.lba + i] = IF req.kind = "write" THEN req.data[i] ELSE ret'.data[i]
  /\ UNCHANGED <<disk, late>>

\* The request returns -1, perhaps before anything was tried.
Fail ==
  /\ req' = NoReq
  /\ ret' = Failed
  /\ late' \in {late, req, NoReq}
  /\ UNCHANGED disk

Next == Begin \/ Write \/ WriteLate \/ Settle \/ Succeed \/ Fail

Spec == Init /\ [][Next]_<<disk, req, late, ret>>
=============================================================================
