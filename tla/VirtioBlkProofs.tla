-------------------------- MODULE VirtioBlkProofs --------------------------
(***************************************************************************)
(* Proofs about drivers/block/virtio_blk.c (module VirtioBlk): whatever the  *)
(* queue, the bounce buffer and the requests are, a call that returns 0 was  *)
(* carried out in full.  Whether a call returns is another question (the     *)
(* chains that leave the table, the wait that loads used->idx once): the     *)
(* proof holds also for these.                                              *)
(*                                                                         *)
(* Plan: the inductive invariant, which says that the device has answered    *)
(* the chunk in flight at most once and what the answer means; then the     *)
(* refinement.                                                              *)
(***************************************************************************)
EXTENDS VirtioBlk, TLAPS

\* The arguments that blk_read and blk_write pass on to the driver.
Requests ==
  { r \in [kind : {"read", "write"}, lba : 0 .. LbaMod - 1, count : 1 .. MaxCount,
           data : [0 .. MaxCount - 1 -> Values \cup {"none"}]] :
      r.kind = "write" => \A i \in 0 .. r.count - 1 : r.data[i] \in Values }

BuffersOK ==
  /\ bounce \in [0 .. BOUNCE_SECS - 1 -> Values \cup {"none"}]
  /\ out \in [0 .. MaxCount - 1 -> Values \cup {"none"}]
  /\ disk \in [Sectors -> Values]

Waiting == pc \in {"wait", "stuck"}

\* The chunk in flight has been answered.
Served == last_avail = avail_idx /\ used_idx = (last_used + 1) % IDX

\* What the driver offered and what the device answered differ by the chunk in
\* flight, whenever the 16-bit indices wrap.
IndicesOK ==
  /\ {avail_idx, used_idx, last_used, last_avail} \subseteq 0 .. IDX - 1
  /\ IF Waiting
     THEN Served \/ ((last_avail + 1) % IDX = avail_idx /\ used_idx = last_used)
     ELSE last_avail = avail_idx /\ used_idx = last_used

\* Sector k of the request is on the disk, and it is the one in v.
Holds(k, v) == req.lba + k \in Sectors /\ disk[req.lba + k] = v

\* Between calls there is no request; in a call the sectors before done are done.
RequestOK ==
  /\ pc \in {"boot", "idle", "chunk", "wait", "stuck"}
  /\ pc \in {"boot", "idle"} => req = NoReq
  /\ pc \notin {"boot", "idle"} =>
       /\ req \in Requests /\ done \in 0 .. req.count - 1
       /\ \A i \in 0 .. done - 1 : Holds(i, IF req.kind = "write" THEN req.data[i] ELSE out[i])

\* The header and the bounce buffer are those of the chunk in flight; when it was
\* answered with status 0, the disk and the buffers agree on it.
ChunkOK ==
  Waiting =>
    /\ chunk \in 1 .. BOUNCE_SECS /\ done + chunk <= req.count
    /\ req_hdr = [type |-> req.kind, sector |-> req.lba + done]
    /\ req.kind = "write" => \A i \in 0 .. chunk - 1 : bounce[i] = req.data[done + i]
    /\ Served /\ dev_status = 0 =>
         \A i \in 0 .. chunk - 1 :
           Holds(done + i, IF req.kind = "write" THEN req.data[done + i] ELSE bounce[i])

IInv == BuffersOK /\ IndicesOK /\ RequestOK /\ ChunkOK

----------------------------------------------------------------------------
(* Every step keeps it *)

\* Having no request is not a request.
LEMMA NoRequest == NoReq.kind = "none" /\ NoReq \notin Requests
  BY DEF NoReq, Abstract!NoReq, Requests

\* The next index is another index.
LEMMA NextIndex ==
  ASSUME NEW i \in 0 .. IDX - 1
  PROVE  (i + 1) % IDX \in 0 .. IDX - 1 /\ (i + 1) % IDX # i
<1>1. IDX \in Nat /\ IDX > 1
  BY DEF IDX
<1>2. CASE i + 1 < IDX
  BY <1>1, <1>2
<1>3. CASE i + 1 = IDX
  <2>1. IDX % IDX = 0
    BY <1>1
  <2> QED
    BY <1>1, <1>3, <2>1
<1> QED
  BY <1>1, <1>2, <1>3

LEMMA InitInv == Init => IInv
<1> SUFFICES ASSUME Init PROVE IInv
  OBVIOUS
<1>1. BuffersOK
  BY DEF Init, BuffersOK, NoData, Abstract!NoData
<1>2. IndicesOK /\ RequestOK /\ ChunkOK
  BY DEF Init, IndicesOK, RequestOK, ChunkOK, Waiting, IDX
<1> QED
  BY <1>1, <1>2 DEF IInv

LEMMA CallStep ==
  ASSUME IInv, NEW a \in 0 .. LbaMod - 1, NEW n \in 1 .. MaxCount, blk_read(a, n) \/ blk_write(a, n)
  PROVE  IInv'
<1>1. PICK kind \in {"read", "write"}, d \in [0 .. MaxCount - 1 -> Values \cup {"none"}] :
        /\ Call(kind, a, n, d)
        /\ kind = "write" => \A i \in 0 .. n - 1 : d[i] \in Values
  <2>1. NoData \in [0 .. MaxCount - 1 -> Values \cup {"none"}] /\ DOMAIN NoData = 0 .. MaxCount - 1
    BY DEF NoData, Abstract!NoData
  <2>2. CASE blk_read(a, n)
    BY <2>1, <2>2 DEF blk_read
  <2>3. CASE blk_write(a, n)
    <3>1. PICK v \in [0 .. n - 1 -> Values] :
            Call("write", a, n, [i \in DOMAIN NoData |-> IF i < n THEN v[i] ELSE "none"])
      BY <2>3 DEF blk_write
    <3> DEFINE d == [i \in DOMAIN NoData |-> IF i < n THEN v[i] ELSE "none"]
    <3>2. d \in [0 .. MaxCount - 1 -> Values \cup {"none"}]
      BY <2>1, QueueAssumption
    <3>3. \A i \in 0 .. n - 1 : d[i] \in Values
      BY <2>1, QueueAssumption
    <3> HIDE DEF d
    <3> QED
      BY <3>1, <3>2, <3>3 DEF d
  <2> QED
    BY <2>2, <2>3
<1>2. CASE ~InRange(a, n)
  BY <1>1, <1>2 DEF Call, ring, device, IInv, BuffersOK, IndicesOK, RequestOK, ChunkOK, Waiting, Served,
                    Holds
<1>3. CASE InRange(a, n)
  <2> DEFINE r == [kind |-> kind, lba |-> a, count |-> n, data |-> d]
  <2>1. req' \in Requests /\ req'.count \in 1 .. MaxCount
    <3>1. req' = r
      BY <1>1, <1>3 DEF Call
    <3>2. r \in [kind : {"read", "write"}, lba : 0 .. LbaMod - 1, count : 1 .. MaxCount,
                 data : [0 .. MaxCount - 1 -> Values \cup {"none"}]]
      BY <1>1
    <3>3. r.kind = kind /\ r.count = n /\ r.data = d
      OBVIOUS
    <3> HIDE DEF r
    <3> QED
      BY <1>1, <3>1, <3>2, <3>3 DEF Requests
  <2>2. BuffersOK'
    BY <1>1, <1>3 DEF Call, device, IInv, BuffersOK, NoData, Abstract!NoData
  <2> QED
    BY <1>1, <1>3, <2>1, <2>2, QueueAssumption
       DEF Call, ring, device, IInv, IndicesOK, RequestOK, ChunkOK, Waiting
<1> QED
  BY <1>2, <1>3

\* The next sector of a request whose sectors so far were on the disk does not
\* wrap at the end of a u64.
LEMMA SectorExact ==
  ASSUME IInv, pc = "chunk"
  PROVE  Sector = req.lba + done
<1>1. req \in Requests /\ done \in 0 .. req.count - 1
  BY DEF IInv, RequestOK
<1>2. req.lba \in Nat /\ req.lba < LbaMod /\ done \in Nat /\ LbaMod \in Nat
  BY <1>1, QueueAssumption DEF Requests
<1>3. req.lba + done < LbaMod
  <2>1. CASE done = 0
    BY <1>2, <2>1
  <2>2. CASE done > 0
    <3>1. done - 1 \in 0 .. done - 1
      BY <1>2, <2>2
    <3>2. req.lba + (done - 1) \in Sectors
      BY <3>1 DEF IInv, RequestOK, Holds
    <3> QED
      BY <1>2, <3>2, QueueAssumption DEF Sectors
  <2> QED
    BY <1>2, <2>1, <2>2
<1> DEFINE x == req.lba + done
<1>4. x \in Nat /\ x < LbaMod
  BY <1>2, <1>3
<1>5. x % LbaMod = x
  <2> HIDE DEF x
  <2> QED
    BY <1>2, <1>4
<1> QED
  BY <1>5 DEF Sector

LEMMA SubmitStep == ASSUME IInv, submit PROVE IInv'
<1>1. /\ pc = "chunk" /\ req \in Requests /\ done \in 0 .. req.count - 1
      /\ req.count \in 1 .. MaxCount /\ MaxCount \in Nat
  BY QueueAssumption DEF submit, IInv, RequestOK, Requests
<1>2. chunk' \in 1 .. BOUNCE_SECS /\ done + chunk' <= req.count
  BY <1>1, QueueAssumption DEF submit, ChunkSize
<1>3. UNCHANGED <<used_idx, disk, last_avail, last_used, req, done, out>> /\ pc' = "wait"
  BY DEF submit
<1>4. \A i \in 0 .. BOUNCE_SECS - 1 :
        bounce'[i] = IF req.kind = "write" /\ i < chunk' THEN req.data[done + i] ELSE bounce[i]
  BY DEF submit, IInv, BuffersOK
<1>5. BuffersOK'
  <2>1. \A i \in 0 .. BOUNCE_SECS - 1 : i < chunk' => req.data[done + i] \in Values \cup {"none"}
    BY <1>1, <1>2, QueueAssumption DEF Requests
  <2>2. bounce' \in [0 .. BOUNCE_SECS - 1 -> Values \cup {"none"}]
    BY <1>4, <2>1 DEF submit, IInv, BuffersOK
  <2> QED
    BY <1>3, <2>2 DEF IInv, BuffersOK
<1>6. IndicesOK' /\ ~Served'
  <2>1. avail_idx' = (avail_idx + 1) % IDX /\ last_avail = avail_idx /\ used_idx = last_used
    BY <1>1 DEF submit, Publish, IInv, IndicesOK, Waiting
  <2>2. avail_idx' \in 0 .. IDX - 1 /\ avail_idx' # last_avail
    BY <2>1, NextIndex DEF IInv, IndicesOK
  <2> QED
    BY <1>3, <2>1, <2>2 DEF IInv, IndicesOK, Waiting, Served
<1>7. RequestOK'
  BY <1>1, <1>3 DEF IInv, RequestOK, Holds
<1>8. ChunkOK'
  <2>1. req_hdr' = [type |-> req.kind, sector |-> req.lba + done]
    BY <1>1, SectorExact DEF submit
  <2>2. PICK c \in 1 .. BOUNCE_SECS : chunk' = c
    BY <1>2
  <2>3. req.kind = "write" => \A i \in 0 .. c - 1 : bounce'[i] = req.data[done + i]
    BY <1>4, <2>2, QueueAssumption
  <2> QED
    BY <1>2, <1>3, <1>6, <2>1, <2>2, <2>3 DEF ChunkOK
<1> QED
  BY <1>5, <1>6, <1>7, <1>8 DEF IInv

\* What the disk and the buffers hold of the sectors up to the end of the chunk,
\* once it was answered with status 0.
Got ==
  [i \in DOMAIN out |-> IF req.kind = "read" /\ done <= i /\ i < done + chunk
                        THEN bounce[i - done] ELSE out[i]]

LEMMA ChunkDone ==
  ASSUME IInv, Waiting, Served, dev_status = 0
  PROVE  /\ Got \in [0 .. MaxCount - 1 -> Values \cup {"none"}]
         /\ \A i \in 0 .. done + chunk - 1 :
              Holds(i, IF req.kind = "write" THEN req.data[i] ELSE Got[i])
<1>1. /\ req \in Requests /\ done \in 0 .. req.count - 1 /\ done \in Nat
      /\ req.count \in 1 .. MaxCount /\ MaxCount \in Nat /\ req.kind \in {"read", "write"}
      /\ chunk \in 1 .. BOUNCE_SECS /\ chunk \in Nat /\ done + chunk <= MaxCount
  BY QueueAssumption DEF IInv, RequestOK, ChunkOK, Requests, Waiting
<1>2. ASSUME NEW i \in 0 .. MaxCount - 1
      PROVE  Got[i] = IF req.kind = "read" /\ done <= i /\ i < done + chunk
                      THEN bounce[i - done] ELSE out[i]
  BY DEF Got, IInv, BuffersOK
<1>3. \A i \in 0 .. MaxCount - 1 : done <= i /\ i < done + chunk => i - done \in 0 .. BOUNCE_SECS - 1
  BY <1>1, QueueAssumption
<1>4. Got \in [0 .. MaxCount - 1 -> Values \cup {"none"}]
  BY <1>2, <1>3 DEF Got, IInv, BuffersOK
<1>5. ASSUME NEW i \in 0 .. done + chunk - 1
      PROVE  Holds(i, IF req.kind = "write" THEN req.data[i] ELSE Got[i])
  <2>1. i \in 0 .. MaxCount - 1 /\ i \in Nat
    BY <1>1
  <2>2. CASE i < done
    BY <1>1, <1>2, <2>1, <2>2 DEF IInv, RequestOK, Waiting
  <2>3. CASE done <= i
    <3>1. i - done \in 0 .. chunk - 1 /\ done + (i - done) = i
      BY <1>1, <2>1, <2>3
    <3>2. Holds(done + (i - done), IF req.kind = "write" THEN req.data[done + (i - done)]
                                   ELSE bounce[i - done])
      BY <3>1 DEF IInv, ChunkOK
    <3> QED
      BY <1>1, <1>2, <2>1, <2>3, <3>1, <3>2
  <2> QED
    BY <1>1, <2>1, <2>2, <2>3
<1> QED
  BY <1>4, <1>5

LEMMA AnsweredStep == ASSUME IInv, Answered PROVE IInv'
<1>1. /\ pc = "wait" /\ Served /\ Waiting /\ last_used' = used_idx
      /\ UNCHANGED <<avail_idx, used_idx, last_avail, disk, bounce>>
  BY DEF Answered, IInv, IndicesOK, Waiting, Served, ring, device
<1>2. /\ req \in Requests /\ done \in Nat /\ chunk \in Nat /\ chunk > 0
      /\ done + chunk <= req.count /\ req.count \in Nat
  BY <1>1, QueueAssumption DEF IInv, RequestOK, ChunkOK, Requests
<1>3. CASE pc' = "idle" /\ req' = NoReq /\ out' = NoData
  BY <1>1, <1>3 DEF IInv, BuffersOK, IndicesOK, RequestOK, ChunkOK, Waiting, Served,
                    NoData, Abstract!NoData
<1>4. CASE /\ dev_status = 0 /\ done + chunk # req.count /\ req' = req /\ pc' = "chunk"
           /\ done' = done + chunk /\ out' = Got
  <2>1. BuffersOK'
    BY <1>1, <1>4, ChunkDone DEF IInv, BuffersOK
  <2>2. IndicesOK' /\ ChunkOK'
    BY <1>1, <1>4 DEF IInv, IndicesOK, ChunkOK, Waiting, Served
  <2>3. \A i \in 0 .. done + chunk - 1 : Holds(i, IF req.kind = "write" THEN req.data[i] ELSE out[i])'
    <3>1. \A i \in 0 .. done + chunk - 1 :
            Holds(i, IF req.kind = "write" THEN req.data[i] ELSE Got[i])
      BY <1>1, <1>4, ChunkDone
    <3> SUFFICES ASSUME NEW i \in 0 .. done + chunk - 1
        PROVE  Holds(i, IF req.kind = "write" THEN req.data[i] ELSE out[i])'
      OBVIOUS
    <3>2. Holds(i, IF req.kind = "write" THEN req.data[i] ELSE Got[i])
      BY <3>1
    <3> QED
      BY <1>1, <1>4, <3>2 DEF Holds
  <2>4. done' \in 0 .. req'.count - 1
    BY <1>2, <1>4
  <2> QED
    BY <1>2, <1>4, <2>1, <2>2, <2>3, <2>4 DEF IInv, RequestOK
<1> QED
  BY <1>3, <1>4 DEF Answered, Return, Got

LEMMA QuietStep ==
  ASSUME IInv, virtio_blk_probe \/ NotAnswered \/ Break \/ UNCHANGED vars
  PROVE  IInv'
<1> USE DEF IInv, BuffersOK, IndicesOK, RequestOK, ChunkOK, Waiting, Served, Holds
<1>1. CASE virtio_blk_probe
  BY <1>1 DEF virtio_blk_probe, device
<1>2. CASE NotAnswered
  BY <1>2 DEF NotAnswered, ring, device
<1>3. CASE Break
  BY <1>3 DEF Break, ring
<1>4. CASE UNCHANGED vars
  BY <1>4 DEF vars, ring, device
<1> QED
  BY <1>1, <1>2, <1>3, <1>4

\* What the device does to the disk and to the bounce buffer for the chunk in
\* flight, seen from the request.
LEMMA ServeFacts ==
  ASSUME IInv, Offered
  PROVE  /\ Waiting /\ ~Served /\ used_idx = last_used /\ (last_avail + 1) % IDX = avail_idx
         /\ req \in Requests /\ done \in Nat /\ chunk \in 1 .. BOUNCE_SECS /\ chunk \in Nat
         /\ done + chunk <= req.count /\ req.count \in Nat /\ req.lba \in Nat
         /\ req_hdr.type = req.kind /\ req_hdr.sector = req.lba + done
         /\ req.kind = "write" => \A i \in 0 .. chunk - 1 : /\ bounce[i] = req.data[done + i]
                                                           /\ bounce[i] \in Values
<1>1. /\ Waiting /\ ~Served /\ used_idx = last_used /\ (last_avail + 1) % IDX = avail_idx
  BY DEF Offered, IInv, IndicesOK, Served
<1>2. /\ req \in Requests /\ done \in Nat /\ chunk \in 1 .. BOUNCE_SECS /\ chunk \in Nat
      /\ done + chunk <= req.count /\ req.count \in Nat /\ req.lba \in Nat
      /\ req_hdr.type = req.kind /\ req_hdr.sector = req.lba + done
  BY <1>1, QueueAssumption DEF Waiting, IInv, RequestOK, ChunkOK, Requests
<1>3. ASSUME req.kind = "write", NEW i \in 0 .. chunk - 1
      PROVE  bounce[i] = req.data[done + i] /\ bounce[i] \in Values
  <2>1. done + i \in 0 .. req.count - 1
    BY <1>2
  <2> QED
    BY <1>1, <1>2, <1>3, <2>1 DEF IInv, ChunkOK, Requests
<1> QED
  BY <1>1, <1>2, <1>3

\* The indices after an answer.
LEMMA AnswerStep ==
  ASSUME IInv, Offered, NEW st, Answer(st)
  PROVE  /\ IndicesOK' /\ Served' /\ dev_status' = st
         /\ UNCHANGED <<pc, req, done, chunk, out, req_hdr, last_used, ret>>
<1>1. Waiting /\ used_idx = last_used /\ (last_avail + 1) % IDX = avail_idx
  BY ServeFacts
<1>2. UNCHANGED <<pc, req, done, chunk, out, req_hdr, last_used, ret, avail_idx>> /\ dev_status' = st
  BY DEF Answer, ring
<1>3. used_idx' = (last_used + 1) % IDX /\ last_avail' = avail_idx
  BY <1>1 DEF Answer
<1>4. used_idx' \in 0 .. IDX - 1
  BY <1>3, NextIndex DEF IInv, IndicesOK
<1> QED
  BY <1>1, <1>2, <1>3, <1>4 DEF IInv, IndicesOK, Waiting, Served

LEMMA ServeStep == ASSUME IInv, Serve PROVE IInv'
<1> DEFINE s0 == req.lba + done
<1>1. /\ Waiting /\ req \in Requests /\ done \in Nat /\ chunk \in 1 .. BOUNCE_SECS /\ chunk \in Nat
      /\ done + chunk <= req.count /\ req.count \in Nat /\ req.lba \in Nat
      /\ req_hdr.type = req.kind /\ req_hdr.sector = s0
      /\ req.kind = "write" => \A i \in 0 .. chunk - 1 : /\ bounce[i] = req.data[done + i]
                                                        /\ bounce[i] \in Values
  BY ServeFacts DEF Serve
<1>2. /\ IndicesOK' /\ Served' /\ dev_status' = 0
      /\ UNCHANGED <<pc, req, done, chunk, out, req_hdr, last_used, ret>>
  BY AnswerStep DEF Serve
<1>3. \A k \in 0 .. done + chunk - 1 : req.lba + k \in Sectors
  <2>1. Capacity \in Nat /\ s0 + chunk <= Capacity
    BY <1>1, QueueAssumption DEF Serve
  <2>2. \A k \in 0 .. done + chunk - 1 : req.lba + k \in Nat /\ req.lba + k < Capacity
    BY <1>1, <2>1
  <2> QED
    BY <2>1, <2>2 DEF Sectors
<1>4. BuffersOK /\ \A x \in Sectors : x \in Nat
  BY QueueAssumption DEF IInv, Sectors
<1>5. CASE req.kind = "write"
  <2>1. /\ bounce' = bounce
        /\ disk' = [x \in Sectors |-> IF x >= s0 /\ x < s0 + chunk THEN bounce[x - s0] ELSE disk[x]]
    BY <1>1, <1>5 DEF Serve
  <2>2. \A x \in Sectors : x >= s0 /\ x < s0 + chunk => x - s0 \in 0 .. chunk - 1
    BY <1>1, <1>4
  <2>3. disk' \in [Sectors -> Values]
    BY <1>1, <1>4, <1>5, <2>1, <2>2 DEF BuffersOK
  <2>4. BuffersOK'
    BY <1>2, <1>4, <2>1, <2>3 DEF BuffersOK
  <2>5. ASSUME NEW i \in 0 .. chunk - 1
        PROVE  disk'[req.lba + (done + i)] = req.data[done + i]
    <3>1. done + i \in 0 .. done + chunk - 1
      BY <1>1
    <3>2. req.lba + (done + i) \in Sectors
      BY <1>3, <3>1
    <3>3. (req.lba + (done + i)) - s0 = i
      BY <1>1
    <3>4. req.lba + (done + i) >= s0 /\ req.lba + (done + i) < s0 + chunk
      BY <1>1
    <3> HIDE DEF s0
    <3> QED
      BY <1>1, <1>5, <2>1, <3>2, <3>3, <3>4
  <2>6. ASSUME NEW i \in 0 .. done - 1
        PROVE  disk'[req.lba + i] = disk[req.lba + i]
    <3>1. i \in 0 .. done + chunk - 1
      BY <1>1
    <3>2. req.lba + i \in Sectors /\ ~(req.lba + i >= s0)
      BY <1>1, <1>3, <3>1
    <3> HIDE DEF s0
    <3> QED
      BY <2>1, <3>2
  <2>7. RequestOK'
    BY <1>1, <1>2, <2>6 DEF IInv, RequestOK, Holds
  <2>8. ChunkOK'
    <3>1. \A i \in 0 .. chunk - 1 : Holds(done + i, req.data[done + i])'
      BY <1>1, <1>2, <1>3, <2>5 DEF Holds
    <3> QED
      BY <1>1, <1>2, <1>5, <2>1, <3>1 DEF IInv, ChunkOK
  <2> QED
    BY <1>2, <2>4, <2>7, <2>8 DEF IInv
<1>6. CASE req.kind # "write"
  <2>1. /\ disk' = disk
        /\ bounce' = [i \in DOMAIN bounce |-> IF i < chunk THEN disk[s0 + i] ELSE bounce[i]]
    BY <1>1, <1>6 DEF Serve
  <2>2. ASSUME NEW i \in 0 .. chunk - 1
        PROVE  /\ i \in 0 .. BOUNCE_SECS - 1 /\ s0 + i = req.lba + (done + i) /\ s0 + i \in Sectors
               /\ bounce'[i] = disk[s0 + i]
    <3>1. i \in 0 .. BOUNCE_SECS - 1 /\ i < chunk
      BY <1>1, QueueAssumption
    <3>2. s0 + i = req.lba + (done + i) /\ done + i \in 0 .. done + chunk - 1
      BY <1>1
    <3>3. s0 + i \in Sectors
      BY <1>3, <3>2
    <3> HIDE DEF s0
    <3> QED
      BY <1>4, <2>1, <3>1, <3>2, <3>3 DEF BuffersOK
  <2>3. bounce' \in [0 .. BOUNCE_SECS - 1 -> Values \cup {"none"}]
    <3>1. \A i \in 0 .. BOUNCE_SECS - 1 : i < chunk => s0 + i \in Sectors
      BY <1>1, <2>2, QueueAssumption
    <3> HIDE DEF s0
    <3> QED
      BY <1>4, <2>1, <3>1 DEF BuffersOK
  <2>4. BuffersOK'
    BY <1>2, <1>4, <2>1, <2>3 DEF BuffersOK
  <2>5. RequestOK'
    BY <1>1, <1>2, <2>1 DEF IInv, RequestOK, Holds
  <2>6. ChunkOK'
    <3>1. \A i \in 0 .. chunk - 1 : Holds(done + i, bounce[i])'
      BY <1>1, <1>2, <2>1, <2>2 DEF Holds
    <3> QED
      BY <1>1, <1>2, <1>6, <3>1 DEF IInv, ChunkOK
  <2> QED
    BY <1>2, <2>4, <2>5, <2>6 DEF IInv
<1> QED
  BY <1>5, <1>6

LEMMA ServeErrorStep == ASSUME IInv, ServeError PROVE IInv'
<1> DEFINE s0 == req.lba + done
<1>1. /\ Waiting /\ req \in Requests /\ done \in Nat /\ chunk \in 1 .. BOUNCE_SECS /\ chunk \in Nat
      /\ req.lba \in Nat /\ req_hdr.type = req.kind /\ req_hdr.sector = s0
      /\ req.kind = "write" => \A i \in 0 .. chunk - 1 : bounce[i] \in Values
  BY ServeFacts DEF ServeError
<1>2. /\ IndicesOK' /\ Served' /\ dev_status' = 1 /\ bounce' = bounce
      /\ UNCHANGED <<pc, req, done, chunk, out, req_hdr, last_used, ret>>
  BY AnswerStep DEF ServeError
<1>3. BuffersOK /\ \A x \in Sectors : x \in Nat
  BY QueueAssumption DEF IInv, Sectors
<1>4. PICK S \in SUBSET { x \in Sectors : x >= s0 /\ x < s0 + chunk } :
        disk' = IF req.kind = "write"
                THEN [x \in Sectors |-> IF x \in S THEN bounce[x - s0] ELSE disk[x]] ELSE disk
  BY <1>1 DEF ServeError
<1>5. \A x \in S : x - s0 \in 0 .. chunk - 1
  BY <1>1, <1>3
<1>6. BuffersOK'
  <2>1. disk' \in [Sectors -> Values]
    <3> HIDE DEF s0
    <3> QED
      BY <1>1, <1>3, <1>4, <1>5 DEF BuffersOK
  <2> QED
    BY <1>2, <1>3, <2>1 DEF BuffersOK
<1>7. ASSUME NEW i \in 0 .. done - 1, req.lba + i \in Sectors
      PROVE  disk'[req.lba + i] = disk[req.lba + i]
  <2>1. ~(req.lba + i >= s0)
    BY <1>1
  <2> HIDE DEF s0
  <2> QED
    BY <1>4, <1>7, <2>1
<1>8. RequestOK'
  BY <1>1, <1>2, <1>7 DEF IInv, RequestOK, Holds
<1>9. ChunkOK'
  BY <1>1, <1>2 DEF IInv, ChunkOK
<1> QED
  BY <1>2, <1>6, <1>8, <1>9 DEF IInv

LEMMA InvStep == IInv /\ [Next]_vars => IInv'
  BY QuietStep, CallStep, SubmitStep, AnsweredStep, ServeStep, ServeErrorStep DEF Next, Driver, Device

\* The device answers every chunk at most once and for the request it belongs to,
\* also when the indices of the rings wrap.
THEOREM QueueInvariant == Spec => []IInv
  BY InitInv, InvStep, PTL DEF Spec

----------------------------------------------------------------------------
(* The block device *)

abstract == <<disk, req, ret>>

\* Parts of the chunk in flight reach the disk.
LEMMA ChunkCarried ==
  ASSUME IInv, Offered, req.kind = "write",
         NEW S \in SUBSET { x \in Sectors : x >= req.lba + done /\ x < req.lba + done + chunk },
         disk' = [x \in Sectors |-> IF x \in S THEN bounce[x - (req.lba + done)] ELSE disk[x]]
  PROVE  Abstract!Carried(req)
<1>1. /\ done \in Nat /\ chunk \in Nat /\ req.lba \in Nat /\ req.count \in Nat
      /\ done + chunk <= req.count
      /\ \A i \in 0 .. chunk - 1 : bounce[i] = req.data[done + i]
  BY ServeFacts
<1>2. \A x \in Sectors : x \in Nat
  BY QueueAssumption DEF Sectors
<1> DEFINE T == { k \in 0 .. req.count - 1 : req.lba + k \in S }
<1>3. ASSUME NEW x \in Sectors
      PROVE  /\ x \in S <=> x - req.lba \in T
             /\ x \in S => bounce[x - (req.lba + done)] = req.data[x - req.lba]
  <2>1. x \in Nat /\ req.lba + (x - req.lba) = x
    BY <1>1, <1>2
  <2>2. ASSUME x \in S
        PROVE  /\ x - req.lba \in 0 .. req.count - 1 /\ x - (req.lba + done) \in 0 .. chunk - 1
               /\ done + (x - (req.lba + done)) = x - req.lba
    BY <1>1, <2>1, <2>2
  <2>3. x \in S => bounce[x - (req.lba + done)] = req.data[x - req.lba]
    BY <1>1, <2>2
  <2> QED
    BY <2>1, <2>2, <2>3
<1> HIDE DEF T
<1>4. disk' = [x \in Sectors |-> IF x - req.lba \in T THEN req.data[x - req.lba] ELSE disk[x]]
  BY <1>3
<1>5. T \subseteq 0 .. req.count - 1
  BY DEF T
<1> QED
  BY <1>4, <1>5 DEF Abstract!Carried

\* The device carries out a write, in full or in part.
LEMMA DeviceRefines ==
  ASSUME IInv, Serve \/ ServeError
  PROVE  [Abstract!Next]_abstract
<1>1. /\ Offered /\ UNCHANGED <<req, ret>> /\ req_hdr.type = req.kind
      /\ req_hdr.sector = req.lba + done
  BY ServeFacts DEF Serve, ServeError, Answer
<1>2. CASE disk' = disk
  BY <1>1, <1>2 DEF abstract
<1>3. CASE disk' # disk
  <2>1. PICK S \in SUBSET { x \in Sectors : x >= req.lba + done /\ x < req.lba + done + chunk } :
          /\ req.kind = "write"
          /\ disk' = [x \in Sectors |-> IF x \in S THEN bounce[x - (req.lba + done)] ELSE disk[x]]
    <3>1. CASE ServeError
      BY <1>1, <1>3, <3>1 DEF ServeError
    <3>2. CASE Serve
      <4> DEFINE S == { x \in Sectors : x >= req.lba + done /\ x < req.lba + done + chunk }
      <4>1. /\ req.kind = "write"
            /\ disk' = [x \in Sectors |-> IF x >= req.lba + done /\ x < req.lba + done + chunk
                                          THEN bounce[x - (req.lba + done)] ELSE disk[x]]
        BY <1>1, <1>3, <3>2 DEF Serve
      <4>2. disk' = [x \in Sectors |-> IF x \in S THEN bounce[x - (req.lba + done)] ELSE disk[x]]
        BY <4>1
      <4> QED
        BY <4>1, <4>2
    <3> QED
      BY <3>1, <3>2
  <2>2. Abstract!Carried(req)
    BY <1>1, <2>1, ChunkCarried
  <2>3. Abstract!Write
    BY <1>1, <2>1, <2>2 DEF Abstract!Write, Abstract!NoReq, Abstract!NoData
  <2> QED
    BY <2>3 DEF Abstract!Next
<1> QED
  BY <1>2, <1>3

\* blk_read and blk_write begin a request, or fail at once.
LEMMA CallRefines ==
  ASSUME IInv, NEW a \in 0 .. LbaMod - 1, NEW n \in 1 .. MaxCount, blk_read(a, n) \/ blk_write(a, n)
  PROVE  Abstract!Next
<1>1. pc = "idle" /\ req = NoReq /\ ret' = Failed /\ disk' = disk
  BY DEF blk_read, blk_write, Call, device, IInv, RequestOK
<1>2. IInv'
  BY CallStep
<1>3. CASE pc' = "chunk"
  <2>1. req' \in Requests
    BY <1>2, <1>3 DEF IInv, RequestOK
  <2>2. Abstract!Begin
    BY <1>1, <2>1 DEF Abstract!Begin, Requests, NoReq, Failed
  <2> QED
    BY <2>2 DEF Abstract!Next
<1>4. CASE pc' # "chunk"
  <2>1. req' = req
    BY <1>4 DEF blk_read, blk_write, Call
  <2>2. Abstract!Fail
    BY <1>1, <2>1 DEF Abstract!Fail, NoReq, Failed
  <2> QED
    BY <2>2 DEF Abstract!Next
<1> QED
  BY <1>3, <1>4

\* The answer to the last chunk ends the request, an error ends it early.
LEMMA AnsweredRefines == ASSUME IInv, Answered PROVE [Abstract!Next]_abstract
<1>1. disk' = disk /\ Waiting /\ Served
  BY DEF Answered, IInv, IndicesOK, Waiting, Served, device
<1>2. CASE dev_status # 0
  <2>1. req' = NoReq /\ ret' = Failed
    BY <1>2 DEF Answered, Return
  <2>2. Abstract!Fail
    BY <1>1, <2>1 DEF Abstract!Fail, NoReq, Failed
  <2> QED
    BY <2>2 DEF Abstract!Next
<1>3. CASE dev_status = 0 /\ done + chunk = req.count
  <2>1. req' = NoReq /\ ret' = [code |-> 0, data |-> Got]
    BY <1>3 DEF Answered, Return, Got
  <2>2. ret'.code = 0 /\ ret'.data = Got
    BY <2>1
  <2>3. \A i \in 0 .. req.count - 1 : Holds(i, IF req.kind = "write" THEN req.data[i] ELSE Got[i])
    <3>1. \A i \in 0 .. done + chunk - 1 :
            Holds(i, IF req.kind = "write" THEN req.data[i] ELSE Got[i])
      BY <1>1, <1>3, ChunkDone
    <3> SUFFICES ASSUME NEW i \in 0 .. req.count - 1
        PROVE  Holds(i, IF req.kind = "write" THEN req.data[i] ELSE Got[i])
      OBVIOUS
    <3>2. done \in Int /\ chunk \in Int /\ req.count \in Int
      BY <1>1, QueueAssumption DEF IInv, RequestOK, ChunkOK, Waiting, Requests
    <3>3. i \in 0 .. done + chunk - 1
      BY <1>3, <3>2
    <3> QED
      BY <3>1, <3>3
  <2>4. req # NoReq
    BY <1>1, NoRequest DEF IInv, RequestOK, Waiting
  <2>5. Abstract!Succeed
    BY <1>1, <2>1, <2>2, <2>3, <2>4 DEF Abstract!Succeed, Holds, NoReq, Abstract!NoReq, Abstract!NoData
  <2> QED
    BY <2>5 DEF Abstract!Next
<1>4. CASE dev_status = 0 /\ done + chunk # req.count
  BY <1>1, <1>4 DEF Answered, abstract
<1> QED
  BY <1>2, <1>3, <1>4

LEMMA RefinementStep == ASSUME IInv, [Next]_vars PROVE [Abstract!Next]_abstract
<1>1. CASE virtio_blk_probe \/ submit \/ NotAnswered \/ Break \/ UNCHANGED vars
  BY <1>1 DEF virtio_blk_probe, submit, NotAnswered, Break, vars, device, abstract
<1> QED
  BY <1>1, CallRefines, AnsweredRefines, DeviceRefines DEF Next, Driver, Device

\* virtio_blk.c is the block device of blkdev.h: 0 means that every sector of every
\* chunk was transferred, and nothing outside a request is ever written, also when
\* the ring indices wrap, chains break or a request wraps at the end of a u64.
THEOREM DriverImplements == Spec => ImplementsBlockDevice
<1>1. Init => Abstract!Init
  BY DEF Init, Abstract!Init, NoReq, Failed, Abstract!NoReq, Abstract!NoData
<1>2. IInv /\ [Next]_vars => [Abstract!Next]_abstract
  BY RefinementStep
<1>3. UNCHANGED abstract => UNCHANGED
        <<disk, req, [kind |-> "none", lba |-> 0, count |-> 0,
                      data |-> [i \in 0 .. MaxCount - 1 |-> "none"]], ret>>
  BY DEF abstract
<1> QED
  BY <1>1, <1>2, <1>3, QueueInvariant, PTL DEF Spec, ImplementsBlockDevice, Abstract!Spec

=============================================================================
