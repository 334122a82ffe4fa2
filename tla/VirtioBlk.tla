----------------------------- MODULE VirtioBlk -----------------------------
(***************************************************************************)
(* The virtio block driver of the arm64 kernel, drivers/block/virtio_blk.c, *)
(* under the checks of drivers/block/blkdev.c, with the device it drives.   *)
(*                                                                         *)
(* Each request is a chain of three descriptors: header, data, status.  The *)
(* driver links the descriptor table once, when it sets the queue up, and   *)
(* then takes three consecutive entries per request, modulo QUEUE_ENTS.     *)
(* The device (external, as the driver uses it) follows the links; a chain  *)
(* that leads out of the queue makes it stop serving, as QEMU's does.       *)
(***************************************************************************)
EXTENDS Integers

CONSTANTS
  QUEUE_ENTS, BOUNCE_SECS,  \* 64 and 32 in the code
  QNumMax,                  \* the queue size the device offers
  Capacity,                 \* sectors of the disk
  LbaMod,                   \* number of values of a u64
  Values,                   \* contents of a sector
  MaxCount,                 \* bound: sectors per call
  MaxSubmits,               \* bound: requests put on the ring by all calls
  Reloads                   \* does the compiled wait loop load used->idx again?

IDX == 65536                \* number of values of a u16

ASSUME QueueAssumption ==
  /\ QUEUE_ENTS \in Nat \ {0} /\ QNumMax \in Nat \ {0}
  /\ BOUNCE_SECS \in Nat \ {0} /\ Capacity \in Nat \ {0}
  /\ LbaMod \in Nat /\ Capacity < LbaMod /\ MaxCount \in Nat
  /\ MaxSubmits < IDX /\ Reloads \in BOOLEAN

Sectors == 0 .. Capacity - 1
Ents == 0 .. QUEUE_ENTS - 1
qn == IF QNumMax < QUEUE_ENTS THEN QNumMax ELSE QUEUE_ENTS

VARIABLES
  desc_tab,                 \* next, flags, and what addr points at
  avail, avail_idx,         \* the ring of heads offered to the device
  used_idx,                 \* requests the device has answered
  free_head, last_used,     \* statics of the driver
  req_hdr, dev_status,      \* the request header and the status byte
  bounce,                   \* the data buffer shared with the device
  pc,                       \* where the running call stands
  req,                      \* the arguments of blk_read or blk_write
  done, chunk,              \* sectors finished, sectors in flight
  out,                      \* the buffer of a read
  ret,                      \* what the last call returned
  disk, last_avail, broken  \* the device

ring == <<desc_tab, avail, avail_idx>>
device == <<used_idx, dev_status, bounce, disk, last_avail, broken>>
vars == <<ring, device, free_head, last_used, req_hdr, pc, req, done, chunk, out, ret>>

Abstract == INSTANCE BlockDevice WITH late <- [kind |-> "none", lba |-> 0, count |-> 0,
                                               data |-> [i \in 0 .. MaxCount - 1 |-> "none"]]

NoData == Abstract!NoData
NoReq == Abstract!NoReq
Failed == Abstract!Failed

Init ==
  /\ desc_tab = [e \in Ents |-> [next |-> 0, flags |-> {}, addr |-> "none"]]
  /\ avail = [e \in Ents |-> 0] /\ avail_idx = 0 /\ used_idx = 0
  /\ free_head = 0 /\ last_used = 0
  /\ req_hdr = [type |-> "read", sector |-> 0] /\ dev_status = 0
  /\ bounce = [i \in 0 .. BOUNCE_SECS - 1 |-> "none"]
  /\ pc = "boot" /\ req = NoReq /\ done = 0 /\ chunk = 0
  /\ out = NoData /\ ret = Failed
  /\ disk \in [Sectors -> Values] /\ last_avail = 0 /\ broken = FALSE

\* desc_tab[i].next, set once.
Link(e) == e + 1

\* virtio_blk_probe finds a disk, sets its queue up and registers it.
virtio_blk_probe ==
  /\ pc = "boot"
  /\ desc_tab' = [e \in Ents |->
       IF e < qn
       THEN [next |-> Link(e), flags |-> IF e = qn - 1 THEN {} ELSE {"NEXT"}, addr |-> "none"]
       ELSE desc_tab[e]]
  /\ pc' = "idle"
  /\ UNCHANGED <<avail, avail_idx, device, free_head, last_used, req_hdr, req, done,
                 chunk, out, ret>>

----------------------------------------------------------------------------
\* The test of blk_read and blk_write; the sum of a u64 and a u32 wraps.
InRange(lba, count) == (lba + count) % LbaMod <= Capacity

\* blk_read and blk_write: check the range, enter the driver.
Call(kind, lba, count, data) ==
  /\ pc = "idle"
  /\ avail_idx + (count + BOUNCE_SECS - 1) \div BOUNCE_SECS <= MaxSubmits
  /\ IF InRange(lba, count)
     THEN /\ req' = [kind |-> kind, lba |-> lba, count |-> count, data |-> data]
          /\ pc' = "chunk" /\ done' = 0 /\ out' = NoData
          /\ ret' = Failed
     ELSE /\ ret' = Failed
          /\ UNCHANGED <<req, pc, done, out>>
  /\ UNCHANGED <<ring, device, free_head, last_used, req_hdr, chunk>>

blk_read(lba, count) == Call("read", lba, count, NoData)

blk_write(lba, count) ==
  \E v \in [0 .. count - 1 -> Values] :
    Call("write", lba, count, [i \in DOMAIN NoData |-> IF i < count THEN v[i] ELSE "none"])

Return(outcome) ==
  /\ pc' = "idle" /\ req' = NoReq /\ done' = 0 /\ chunk' = 0 /\ out' = NoData
  /\ ret' = outcome

ChunkSize ==
  IF req.count - done < BOUNCE_SECS THEN req.count - done ELSE BOUNCE_SECS

\* Mutant: lba is not advanced from one chunk to the next.
SectorFixed == req.lba

Sector == (req.lba + done) % LbaMod

\* The three descriptors of a request, headed by h.
d_data(h) == (h + 1) % QUEUE_ENTS
d_stat(h) == (h + 2) % QUEUE_ENTS

\* Mutant: the new head is never announced.
PublishNothing(i) == i

\* avail->idx, which tells the device that the ring has a new head.
Publish(i) == (i + 1) % IDX

\* One turn of vblk_read or vblk_write up to the wait in submit: fill the bounce
\* buffer, the header and the chain, offer its head, notify.
submit ==
  /\ pc = "chunk"
  /\ chunk' = ChunkSize
  /\ bounce' = [i \in DOMAIN bounce |->
       IF req.kind = "write" /\ i < chunk' THEN req.data[done + i] ELSE bounce[i]]
  /\ req_hdr' = [type |-> req.kind, sector |-> Sector]
  /\ dev_status' = 238
  /\ LET h == free_head
         set(e, flags, addr) == [next |-> desc_tab[e].next, flags |-> flags, addr |-> addr]
     IN /\ desc_tab' =
             [desc_tab EXCEPT
                ![h] = set(h, {"NEXT"}, "hdr"),
                ![d_data(h)] = set(d_data(h),
                                   {"NEXT"} \cup (IF req.kind = "read" THEN {"WRITE"} ELSE {}),
                                   "data"),
                ![d_stat(h)] = set(d_stat(h), {"WRITE"}, "status")]
        /\ avail' = [avail EXCEPT ![avail_idx % QUEUE_ENTS] = h]
  /\ avail_idx' = Publish(avail_idx)
  /\ pc' = "wait"
  /\ UNCHANGED <<used_idx, disk, last_avail, broken, free_head, last_used, req, done,
                 out, ret>>

\* The first descriptor behind the chain.
After(h) == (d_stat(h) + 1) % QUEUE_ENTS

\* The wait sees an answer: free the chain, hand over what was read, and go on
\* or return.
Answered ==
  /\ pc = "wait"
  /\ used_idx # last_used
  /\ last_used' = (last_used + 1) % IDX
  /\ free_head' = After(free_head)
  /\ LET got == [i \in DOMAIN out |->
                  IF req.kind = "read" /\ done <= i /\ i < done + chunk
                  THEN bounce[i - done] ELSE out[i]]
     IN CASE dev_status # 0 -> Return(Failed)
          [] dev_status = 0 /\ done + chunk = req.count -> Return([code |-> 0, data |-> got])
          [] OTHER -> /\ pc' = "chunk" /\ done' = done + chunk /\ chunk' = 0
                      /\ out' = got
                      /\ UNCHANGED <<req, ret>>
  /\ UNCHANGED <<ring, device, req_hdr>>

\* The wait sees none.  The loop has nothing in it that makes the compiler load
\* used->idx again: it may test the first value for ever.
NotAnswered ==
  /\ pc = "wait"
  /\ used_idx = last_used
  /\ pc' = IF Reloads THEN "wait" ELSE "stuck"
  /\ UNCHANGED <<ring, device, free_head, last_used, req_hdr, req, done, chunk, out, ret>>

----------------------------------------------------------------------------
(* The device *)

Next1(h) == desc_tab[h].next
Next2(h) == desc_tab[desc_tab[h].next].next

\* The chain from h stays in the queue and is a header, data and a status.
Chain(h) ==
  /\ h < qn /\ Next1(h) < qn
  /\ Next2(h) < qn
  /\ "NEXT" \in desc_tab[h].flags /\ desc_tab[h].addr = "hdr"
  /\ "NEXT" \in desc_tab[Next1(h)].flags /\ desc_tab[Next1(h)].addr = "data"
  /\ desc_tab[Next2(h)].flags = {"WRITE"} /\ desc_tab[Next2(h)].addr = "status"

Offered == ~broken /\ last_avail # avail_idx
Head == avail[last_avail % qn]

Answer(status) ==
  /\ dev_status' = status
  /\ used_idx' = (used_idx + 1) % IDX
  /\ last_avail' = (last_avail + 1) % IDX
  /\ UNCHANGED <<ring, broken, free_head, last_used, req_hdr, pc, req, done, chunk, out, ret>>

Serve ==
  /\ Offered /\ Chain(Head)
  /\ req_hdr.sector + chunk <= Capacity
  /\ LET s0 == req_hdr.sector IN
     IF req_hdr.type = "write"
     THEN /\ disk' = [s \in Sectors |-> IF s >= s0 /\ s < s0 + chunk THEN bounce[s - s0] ELSE disk[s]]
          /\ UNCHANGED bounce
     ELSE /\ bounce' = [i \in DOMAIN bounce |-> IF i < chunk THEN disk[s0 + i] ELSE bounce[i]]
          /\ UNCHANGED disk
  /\ Answer(0)

\* An I/O error, or a sector behind the last: some of a write may be done.
ServeError ==
  /\ Offered /\ Chain(Head)
  /\ LET s0 == req_hdr.sector IN
     \E S \in SUBSET { s \in Sectors : s >= s0 /\ s < s0 + chunk } :
       disk' = IF req_hdr.type = "write"
               THEN [s \in Sectors |-> IF s \in S THEN bounce[s - s0] ELSE disk[s]]
               ELSE disk
  /\ UNCHANGED bounce
  /\ Answer(1)

Break ==
  /\ Offered /\ ~Chain(Head)
  /\ broken' = TRUE
  /\ UNCHANGED <<ring, used_idx, dev_status, bounce, disk, last_avail, free_head, last_used,
                 req_hdr, pc, req, done, chunk, out, ret>>

----------------------------------------------------------------------------
Driver == submit \/ Answered \/ NotAnswered
Device == Serve \/ ServeError \/ Break

Next ==
  \/ virtio_blk_probe
  \/ \E lba \in 0 .. LbaMod - 1, n \in 1 .. MaxCount : blk_read(lba, n) \/ blk_write(lba, n)
  \/ Driver \/ Device

Spec == Init /\ [][Next]_vars

FairSpec == Spec /\ WF_vars(Driver) /\ WF_vars(Device)

----------------------------------------------------------------------------
(* Properties *)

TypeOK ==
  /\ desc_tab \in [Ents -> [next : 0 .. QUEUE_ENTS, flags : SUBSET {"NEXT", "WRITE"},
                            addr : {"none", "hdr", "data", "status"}]]
  /\ avail \in [Ents -> Ents]
  /\ {avail_idx, used_idx, last_used, last_avail} \subseteq 0 .. IDX - 1
  /\ free_head \in Ents
  /\ req_hdr \in [type : {"read", "write"}, sector : 0 .. LbaMod - 1]
  /\ dev_status \in {0, 1, 238}
  /\ bounce \in [0 .. BOUNCE_SECS - 1 -> Values \cup {"none"}]
  /\ pc \in {"boot", "idle", "chunk", "wait", "stuck"}
  /\ req.kind \in {"none", "read", "write"} /\ req.lba \in 0 .. LbaMod - 1
  /\ done \in 0 .. MaxCount /\ chunk \in 0 .. BOUNCE_SECS
  /\ out \in [0 .. MaxCount - 1 -> Values \cup {"none"}]
  /\ ret.code \in {0, -1}
  /\ disk \in [Sectors -> Values] /\ broken \in BOOLEAN

\* The driver keeps what blkdev.h:25 promises: 0 means that every sector was
\* transferred, whatever chunks and errors there were on the way.
ImplementsBlockDevice == Abstract!Spec

\* Every call returns: the device answers every chain the driver offers, and
\* submit (virtio_blk.c:266) sees the answer.
CallReturns == (req # NoReq) ~> (req = NoReq)

\* Every call returns unless the device has met a chain that leads out of the
\* table, whatever chunks and errors came before.
AnsweredOrBroken == (req # NoReq) ~> (req = NoReq \/ broken)
=============================================================================
