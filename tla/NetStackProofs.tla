--------------------------- MODULE NetStackProofs ---------------------------
(***************************************************************************)
(* Proofs about net/stack.c over drivers/net/e1000.c (modules NetStack and   *)
(* E1000), for rings of any size, any frames and any number of calls.       *)
(*                                                                         *)
(* Plan: positions in a ring; the receive ring; the transmit ring; then the  *)
(* call stack and the ARP slot.                                             *)
(***************************************************************************)
EXTENDS NetStack, SequenceTheorems, TLAPS

\* A position less than twice around a ring of n entries.
LEMMA Around ==
  ASSUME NEW n \in Nat, NEW x \in Nat, x < n + n
  PROVE  x % n = IF x < n THEN x ELSE x - n
  BY SMT

(***************************************************************************)
(* The receive ring.  Frame number k is found k - taken entries behind       *)
(* rx_tail.                                                                 *)
(***************************************************************************)
RxInv ==
  /\ rx_tail \in Rx /\ rdh \in Rx
  /\ arrived \in 0 .. MaxArrivals /\ taken \in 0 .. arrived
  /\ rx_ring \in [Rx -> [n : Nat, frame : Lan \cup {[type |-> "none"]}]]
  /\ \A d \in Rx : rx_ring[d].n # 0 => rx_ring[d].frame \in Lan
  /\ RxRingExact

\* The entry i behind t.
Behind(t, i) == IF t + i < RX_DESCS THEN t + i ELSE t + i - RX_DESCS

\* What the modulo of the driver computes.
LEMMA BehindModulo ==
  ASSUME NEW t \in Rx, NEW i \in 1 .. RX_DESCS
  PROVE  (t + i) % RX_DESCS = Behind(t, i) /\ Behind(t, i) \in Rx
<1>1. RX_DESCS \in Nat /\ t + i \in Nat /\ t + i < RX_DESCS + RX_DESCS
  BY RingAssumption DEF Rx
<1>2. (t + i) % RX_DESCS = IF t + i < RX_DESCS THEN t + i ELSE t + i - RX_DESCS
  <2>1. t \in Int /\ i \in Int /\ RX_DESCS \in Int
    BY RingAssumption DEF Rx
  <2> DEFINE x == t + i
  <2>2. x \in Nat /\ x < RX_DESCS + RX_DESCS
    BY <1>1
  <2>3. x % RX_DESCS = IF x < RX_DESCS THEN x ELSE x - RX_DESCS
    <3> HIDE DEF x
    <3> QED
      BY <1>1, <2>2, Around
  <2> QED
    BY <2>1, <2>3
<1> QED
  BY <1>1, <1>2 DEF Behind, Rx

\* RxRingExact without the modulo.
RingExact ==
  /\ arrived - taken < RX_DESCS
  /\ rdh = Behind(rx_tail, 1 + arrived - taken)
  /\ \A i \in 1 .. RX_DESCS :
       rx_ring[Behind(rx_tail, i)].n = IF i <= arrived - taken THEN taken + i ELSE 0

\* The same for the controller's position.
LEMMA HeadModulo ==
  ASSUME NEW t \in Rx, NEW a \in Nat, NEW k \in 0 .. a, a - k < RX_DESCS
  PROVE  (t + 1 + a - k) % RX_DESCS = Behind(t, 1 + a - k)
<1>1. 1 + a - k \in 1 .. RX_DESCS
  BY RingAssumption
<1>2. t + 1 + a - k = t + (1 + a - k)
  BY RingAssumption DEF Rx
<1> QED
  BY <1>1, <1>2, BehindModulo

\* The two say the same.
LEMMA RingForm ==
  ASSUME rx_tail \in Rx, arrived \in Nat, taken \in 0 .. arrived
  PROVE  RxRingExact <=> RingExact
<1>1. \A i \in 1 .. RX_DESCS : (rx_tail + i) % RX_DESCS = Behind(rx_tail, i)
  BY BehindModulo
<1> QED
  BY <1>1, HeadModulo DEF RxRingExact, RingExact

\* And in the next state.
LEMMA RingFormNext ==
  ASSUME rx_tail' \in Rx, arrived' \in Nat, taken' \in 0 .. arrived'
  PROVE  RxRingExact' <=> RingExact'
<1>1. \A i \in 1 .. RX_DESCS : (rx_tail' + i) % RX_DESCS = Behind(rx_tail', i)
  BY BehindModulo
<1> QED
  BY <1>1, HeadModulo DEF RxRingExact, RingExact, Behind

\* e1000_poll takes the oldest frame.
LEMMA PollStep == ASSUME RxInv, e1000_poll PROVE RxInv' /\ Received \in Lan
<1>1. RingExact /\ RX_DESCS \in Nat /\ RX_DESCS > 1
  BY RingForm, RingAssumption DEF RxInv
<1>2. NextRx = Behind(rx_tail, 1) /\ NextRx \in Rx
  BY <1>1, BehindModulo DEF RxInv, NextRx
<1>3. arrived - taken >= 1
  BY <1>1, <1>2 DEF RingExact, e1000_poll, Ready, RxInv
<1>4. Received \in Lan
  BY <1>2 DEF RxInv, Received, e1000_poll, Ready
<1>5. /\ rx_tail' \in Rx /\ rdh' \in Rx
      /\ arrived' \in 0 .. MaxArrivals /\ taken' \in 0 .. arrived'
  BY <1>2, <1>3 DEF RxInv, e1000_poll
<1>6. Empty \in [n : Nat, frame : Lan \cup {[type |-> "none"]}] /\ Empty.n = 0
  BY DEF Empty
<1>7. /\ rx_ring' \in [Rx -> [n : Nat, frame : Lan \cup {[type |-> "none"]}]]
      /\ \A d \in Rx : rx_ring'[d].n # 0 => rx_ring'[d].frame \in Lan
  BY <1>2, <1>6 DEF RxInv, e1000_poll
<1>8. RingExact'
  <2>1. (arrived - taken < RX_DESCS)' /\ (rdh = Behind(rx_tail, 1 + arrived - taken))'
    BY <1>1, <1>2, <1>3 DEF RingExact, e1000_poll, RxInv, Behind, Rx
  <2>2. ASSUME NEW i \in 1 .. RX_DESCS
        PROVE  rx_ring'[Behind(rx_tail', i)].n = IF i <= arrived' - taken' THEN taken' + i ELSE 0
    <3>1. CASE i < RX_DESCS
      <4>1. i + 1 \in 1 .. RX_DESCS
        BY <3>1, <1>1
      <4>2. Behind(rx_tail', i) = Behind(rx_tail, i + 1) /\ Behind(rx_tail, i + 1) # NextRx
        BY <3>1, <1>1, <1>2 DEF Behind, e1000_poll, RxInv, Rx
      <4>3. Behind(rx_tail, i + 1) \in Rx
        BY <4>1, BehindModulo DEF RxInv
      <4>4. rx_ring'[Behind(rx_tail', i)].n = rx_ring[Behind(rx_tail, i + 1)].n
        BY <4>2, <4>3 DEF e1000_poll, RxInv
      <4>5. rx_ring[Behind(rx_tail, i + 1)].n = IF i + 1 <= arrived - taken THEN taken + (i + 1) ELSE 0
        BY <4>1, <1>1 DEF RingExact
      <4> QED
        BY <4>4, <4>5, <1>3 DEF e1000_poll, RxInv
    <3>2. CASE i = RX_DESCS
      <4>1. Behind(rx_tail', i) = NextRx
        BY <3>2, <1>1, <1>2 DEF Behind, e1000_poll, RxInv, Rx
      <4>2. rx_ring'[NextRx].n = 0
        BY <1>2, <1>6 DEF e1000_poll, RxInv
      <4> QED
        BY <4>1, <4>2, <3>2, <1>1 DEF e1000_poll, RingExact, RxInv
    <3> QED
      BY <3>1, <3>2, <1>1
  <2> QED
    BY <2>1, <2>2 DEF RingExact, e1000_poll
<1>9. RxRingExact'
  BY <1>5, <1>8, RingFormNext
<1> QED
  BY <1>4, <1>5, <1>7, <1>9 DEF RxInv

\* The controller stores a frame behind the youngest one.
LEMMA ArriveStep == ASSUME RxInv, NEW f \in Lan, Arrive(f) PROVE RxInv'
<1>1. RingExact /\ RX_DESCS \in Nat /\ RX_DESCS > 1
  BY RingForm, RingAssumption DEF RxInv
<1> DEFINE k == arrived - taken
<1>2. /\ rdh = Behind(rx_tail, 1 + arrived - taken) /\ rdh # rx_tail
      /\ k \in Nat /\ k < RX_DESCS /\ rdh \in Rx /\ rx_tail \in Rx
  BY <1>1 DEF RingExact, RxInv, Arrive
<1>3. k + 1 < RX_DESCS
  BY <1>1, <1>2 DEF Behind, Rx, RxInv
<1>4. rdh' = Behind(rdh, 1) /\ rdh' \in Rx
  BY <1>1, <1>2, BehindModulo DEF Arrive
<1>5. /\ rx_tail' \in Rx /\ rdh' \in Rx
      /\ arrived' \in 0 .. MaxArrivals /\ taken' \in 0 .. arrived'
  BY <1>4, RingAssumption DEF RxInv, Arrive
<1>6. /\ rx_ring' \in [Rx -> [n : Nat, frame : Lan \cup {[type |-> "none"]}]]
      /\ \A d \in Rx : rx_ring'[d].n # 0 => rx_ring'[d].frame \in Lan
  BY DEF RxInv, Arrive
<1>7. RingExact'
  <2>1. (arrived - taken < RX_DESCS)' /\ (rdh = Behind(rx_tail, 1 + arrived - taken))'
    BY <1>1, <1>2, <1>3, <1>4 DEF Arrive, RxInv, Behind, Rx
  <2>2. ASSUME NEW i \in 1 .. RX_DESCS
        PROVE  rx_ring'[Behind(rx_tail', i)].n = IF i <= arrived' - taken' THEN taken' + i ELSE 0
    <3>1. Behind(rx_tail', i) = Behind(rx_tail, i) /\ Behind(rx_tail, i) \in Rx
      BY <1>2, BehindModulo DEF Arrive
    <3>2. Behind(rx_tail, i) = rdh <=> i = k + 1
      BY <1>1, <1>2, <1>3 DEF Behind, Rx, RxInv
    <3>3. CASE i = k + 1
      BY <3>1, <3>2, <3>3, <1>2 DEF Arrive, RxInv
    <3>4. CASE i # k + 1
      <4>1. rx_ring'[Behind(rx_tail', i)].n = rx_ring[Behind(rx_tail, i)].n
        BY <3>1, <3>2, <3>4 DEF Arrive, RxInv
      <4>2. rx_ring[Behind(rx_tail, i)].n = IF i <= arrived - taken THEN taken + i ELSE 0
        BY <1>1 DEF RingExact
      <4> QED
        BY <4>1, <4>2, <3>4 DEF Arrive, RxInv
    <3> QED
      BY <3>3, <3>4
  <2> QED
    BY <2>1, <2>2 DEF RingExact, Arrive
<1>8. RxRingExact'
  BY <1>5, <1>7, RingFormNext
<1> QED
  BY <1>5, <1>6, <1>8 DEF RxInv

\* Nothing else touches the ring.
LEMMA RxKept == ASSUME RxInv, UNCHANGED rx PROVE RxInv'
  BY DEF RxInv, rx, RxRingExact

(***************************************************************************)
(* The transmit ring.                                                       *)
(***************************************************************************)
TxInv ==
  /\ tx_tail \in Tx /\ tdh \in Tx
  /\ tx_status \in [Tx -> BOOLEAN]
  /\ tx_status[Waited] => on_wire

\* The entry behind d, and the one before that.
LEMMA TxNext ==
  ASSUME NEW d \in Tx
  PROVE  /\ (d + 1) % TX_DESCS \in Tx
         /\ (d + TX_DESCS - 1) % TX_DESCS \in Tx
         /\ (((d + 1) % TX_DESCS) + TX_DESCS - 1) % TX_DESCS = d
<1>1. TX_DESCS \in Nat /\ TX_DESCS > 1 /\ d \in Nat /\ d < TX_DESCS
  BY RingAssumption DEF Tx
<1> DEFINE next == (d + 1) % TX_DESCS
<1>2. \A x \in Nat : x < TX_DESCS + TX_DESCS =>
        x % TX_DESCS = IF x < TX_DESCS THEN x ELSE x - TX_DESCS
  BY <1>1, Around
<1>3. next = IF d + 1 < TX_DESCS THEN d + 1 ELSE 0
  <2> DEFINE x == d + 1
  <2>1. x \in Nat /\ x < TX_DESCS + TX_DESCS
    BY <1>1
  <2>2. x % TX_DESCS = IF x < TX_DESCS THEN x ELSE x - TX_DESCS
    <3> HIDE DEF x
    <3> QED
      BY <2>1, <1>2
  <2> QED
    BY <2>2, <1>1
<1>4. ASSUME NEW e \in Tx
      PROVE  (e + TX_DESCS - 1) % TX_DESCS = IF e = 0 THEN TX_DESCS - 1 ELSE e - 1
  <2>1. e \in Nat /\ e < TX_DESCS
    BY <1>1 DEF Tx
  <2> DEFINE x == e + TX_DESCS - 1
  <2>2. x \in Nat /\ x < TX_DESCS + TX_DESCS
    BY <1>1, <2>1
  <2>3. x % TX_DESCS = IF x < TX_DESCS THEN x ELSE x - TX_DESCS
    <3> HIDE DEF x
    <3> QED
      BY <2>2, <1>2
  <2> QED
    BY <2>1, <2>3, <1>1
<1>5. next \in Tx
  BY <1>1, <1>3 DEF Tx
<1>6. (next + TX_DESCS - 1) % TX_DESCS = d
  <2> HIDE DEF next
  <2>1. (next + TX_DESCS - 1) % TX_DESCS = IF next = 0 THEN TX_DESCS - 1 ELSE next - 1
    BY <1>4, <1>5
  <2>2. (IF next = 0 THEN TX_DESCS - 1 ELSE next - 1) = d
    BY <1>1, <1>3
  <2> QED
    BY <2>1, <2>2
<1>7. (d + TX_DESCS - 1) % TX_DESCS \in Tx
  <2>1. (IF d = 0 THEN TX_DESCS - 1 ELSE d - 1) \in Tx
    BY <1>1 DEF Tx
  <2> QED
    BY <2>1, <1>4
<1> QED
  BY <1>5, <1>6, <1>7

\* e1000_send hands over the next descriptor, whose DD it has cleared.
LEMMA SendStep == ASSUME TxInv, NEW f, e1000_send(f) PROVE TxInv'
<1>1. CASE ~link_up
  BY <1>1 DEF e1000_send, tx, TxInv, Waited
<1>2. CASE link_up
  <2>1. /\ tx_tail' \in Tx /\ tdh' \in Tx /\ Waited' = tx_tail
    BY <1>2, TxNext DEF e1000_send, TxInv, NextTx, Waited
  <2>2. tx_status' = [tx_status EXCEPT ![tx_tail] = FALSE]
    BY <1>2 DEF e1000_send, StatusCleared
  <2>3. tx_status' \in [Tx -> BOOLEAN]
    BY <2>2, Zenon DEF TxInv
  <2>4. ~tx_status'[tx_tail]
    BY <2>2, Zenon DEF TxInv
  <2> QED
    BY <2>1, <2>3, <2>4, Zenon DEF TxInv
<1> QED
  BY <1>1, <1>2

\* The controller sends the next descriptor.
LEMMA TransmitStep == ASSUME TxInv, Transmit PROVE TxInv'
<1>1. tx_tail' \in Tx /\ tdh' \in Tx /\ Waited' = Waited /\ Waited \in Tx
  BY TxNext DEF Transmit, TxInv, Waited
<1>2. tx_status' \in [Tx -> BOOLEAN]
  BY Zenon DEF Transmit, TxInv
<1>3. tx_status'[Waited] => on_wire'
  BY <1>1, Zenon DEF Transmit, TxInv
<1> QED
  BY <1>1, <1>2, <1>3, Zenon DEF TxInv

\* Nothing else touches the ring.
LEMMA TxKept == ASSUME TxInv, UNCHANGED tx PROVE TxInv'
  BY DEF TxInv, tx, Waited

(***************************************************************************)
(* The call stack and the ARP slot.  Only what is sent over IPv4 asks for    *)
(* an address, and it asks for that of a host or of the gateway; what the    *)
(* slot says of one of these is what that one announced last.                *)
(***************************************************************************)
Known == Addresses \cup {Gateway}

CallSet ==
  {c \in [kind : Kinds, hop : Hops, at : Places] :
     /\ c.kind = "reply" => c.at \in {"entry", "send"}
     /\ c.kind # "reply" => c.hop \in Known}

StackInv ==
  /\ calls \in Seq(CallSet)
  /\ st \in {"CLOSED", "SYN_SENT", "ESTABLISHED"}
  /\ issued \in 0 .. MaxCalls

Macs == {f.sha : f \in Arps} \cup {"none"}

ArpInv ==
  /\ arp_spa \in {f.spa : f \in Arps} \cup {"none"}
  /\ announced \in [Known -> Macs]
  /\ arp_spa \in Known => arp_tha = announced[arp_spa]

\* A call on top of the stack.
LEMMA TopOfStack ==
  ASSUME calls \in Seq(CallSet), calls # <<>>
  PROVE  Top \in CallSet /\ Front(calls) \in Seq(CallSet)
  BY DEF Top, Last, Front

\* The call on top moves on.
LEMMA AtStep ==
  ASSUME calls \in Seq(CallSet), calls # <<>>, NEW p \in Places, At(p),
         Top.kind = "reply" => p \in {"entry", "send"}
  PROVE  calls' \in Seq(CallSet)
<1>1. Top \in CallSet /\ Front(calls) \in Seq(CallSet)
  BY TopOfStack
<1>2. [Top EXCEPT !.at = p] \in CallSet
  BY <1>1 DEF CallSet
<1> QED
  BY <1>1, <1>2 DEF At

\* A call is entered.
LEMMA PushStep ==
  ASSUME calls \in Seq(CallSet), NEW k \in Kinds, NEW h \in Hops, Push(k, h),
         k # "reply" => h \in Known
  PROVE  calls' \in Seq(CallSet)
<1>1. [kind |-> k, hop |-> h, at |-> "entry"] \in CallSet
  BY DEF CallSet, Places
<1> QED
  BY <1>1 DEF Push

\* A next hop is a host or the gateway.
LEMMA NextHopKnown == ASSUME NEW d PROVE NextHop(d) \in Known /\ NextHop(d) \in Hops
  BY LanAssumption DEF NextHop, Known, Hops

\* What the callers of ipv4_send do with its result.
LEMMA FinishStep ==
  ASSUME StackInv, calls # <<>>, NEW ok \in BOOLEAN, Finish(ok)
  PROVE  calls' \in Seq(CallSet) /\ st' \in {"CLOSED", "SYN_SENT", "ESTABLISHED"}
<1>1. calls' \in Seq(CallSet)
  BY TopOfStack, AtStep DEF StackInv, Finish, Places
<1>2. st' \in {"CLOSED", "SYN_SENT", "ESTABLISHED"}
  BY DEF StackInv, Finish
<1> QED
  BY <1>1, <1>2

(***************************************************************************)
(* The inductive invariant.                                                 *)
(***************************************************************************)
IInv == RxInv /\ TxInv /\ StackInv /\ ArpInv /\ on_wire \in BOOLEAN /\ link_up \in BOOLEAN

\* The drivers are initialised and nothing is known.
LEMMA InitInv == Init => IInv
<1> SUFFICES ASSUME Init PROVE IInv
  OBVIOUS
<1>1. RxInv
  <2>1. /\ rx_ring = [d \in Rx |-> Empty] /\ rx_tail = RX_DESCS - 1 /\ rdh = 0
        /\ arrived = 0 /\ taken = 0 /\ RX_DESCS \in Nat /\ RX_DESCS > 1
    BY RingAssumption DEF Init, e1000_init
  <2>2. Empty \in [n : Nat, frame : Lan \cup {[type |-> "none"]}] /\ Empty.n = 0
    BY DEF Empty
  <2>3. rx_tail \in Rx /\ rdh \in Rx
    BY <2>1 DEF Rx
  <2>4. \A i \in 1 .. RX_DESCS : Behind(rx_tail, i) \in Rx
    BY <2>3, BehindModulo
  <2>5. RingExact
    BY <2>1, <2>2, <2>4 DEF RingExact, Behind
  <2>6. RxRingExact
    BY <2>1, <2>3, <2>5, RingForm
  <2> QED
    BY <2>1, <2>2, <2>3, <2>6, RingAssumption DEF RxInv
<1>2. TxInv
  <2>1. tx_tail = 0 /\ tdh = 0 /\ 0 \in Tx
    BY RingAssumption DEF Init, e1000_init, Tx
  <2>2. tx_status = [d \in Tx |-> FALSE]
    BY DEF Init, e1000_init
  <2>3. tx_status \in [Tx -> BOOLEAN]
    BY <2>2, Zenon
  <2>4. Waited \in Tx
    BY <2>1, TxNext DEF Waited
  <2>5. ~tx_status[Waited]
    BY <2>2, <2>4, Zenon
  <2> QED
    BY <2>1, <2>3, <2>5 DEF TxInv
<1>3. StackInv
  BY LanAssumption DEF Init, StackInv
<1>4. ArpInv
  BY LanAssumption DEF Init, ArpInv, Known, Macs
<1>5. on_wire \in BOOLEAN /\ link_up \in BOOLEAN
  BY Zenon DEF Init, e1000_init
<1> QED
  BY <1>1, <1>2, <1>3, <1>4, <1>5 DEF IInv

\* The flags of the driver stay Booleans.
LEMMA FlagStep ==
  ASSUME IInv, Next \/ UNCHANGED vars PROVE on_wire' \in BOOLEAN /\ link_up' \in BOOLEAN
<1>1. link_up' = link_up
  BY DEF Next, Api, Stack, Controller, udp_send, tcp_connect, tcp_send, tcp_close, Call,
         ipv4_send, SendReply, arp_resolve, net_poll, ConnectReturns, Sent, Arrive,
         Transmit, nic, vars
<1>2. UNCHANGED on_wire \/ on_wire' = FALSE \/ Transmit
  BY DEF Next, Api, Stack, Controller, udp_send, tcp_connect, tcp_send, tcp_close, Call,
         ipv4_send, SendReply, arp_resolve, net_poll, ConnectReturns, Sent, Arrive,
         SendPacket, e1000_send, tx, nic, vars
<1>3. on_wire' \in BOOLEAN
  BY <1>2, Zenon DEF IInv, Transmit
<1> QED
  BY <1>1, <1>3 DEF IInv

\* ipv4_send: the packet, or the request of arp_resolve.
LEMMA Ipv4SendStep ==
  ASSUME IInv, ipv4_send PROVE RxInv' /\ TxInv' /\ StackInv' /\ ArpInv'
<1>1. RxInv' /\ TxInv'
  BY RxKept, SendStep DEF IInv, ipv4_send, SendPacket
<1>2. StackInv'
  BY AtStep DEF IInv, StackInv, ipv4_send, Places
<1>3. ArpInv'
  BY LanAssumption DEF IInv, ArpInv, ipv4_send, Known
<1> QED
  BY <1>1, <1>2, <1>3

\* The answer to an ARP request.
LEMMA SendReplyStep ==
  ASSUME IInv, SendReply PROVE RxInv' /\ TxInv' /\ StackInv' /\ ArpInv'
<1>1. RxInv' /\ TxInv'
  BY RxKept, SendStep DEF IInv, SendReply
<1>2. StackInv'
  BY AtStep DEF IInv, StackInv, SendReply, Places
<1>3. ArpInv'
  BY DEF IInv, ArpInv, SendReply, arp
<1> QED
  BY <1>1, <1>2, <1>3

\* e1000_send returns.
LEMMA SentStep ==
  ASSUME IInv, NEW ok \in BOOLEAN, Sent(ok) PROVE RxInv' /\ TxInv' /\ StackInv' /\ ArpInv'
<1>1. RxInv' /\ TxInv'
  BY RxKept, TxKept DEF IInv, Sent, nic
<1>2. StackInv'
  <2>1. CASE Top.at = "ask"
    <3>1. Top \in CallSet
      BY TopOfStack DEF IInv, StackInv, Sent
    <3>2. Top.kind # "reply"
      BY <2>1, <3>1 DEF CallSet
    <3> QED
      BY <2>1, <3>2, AtStep DEF IInv, StackInv, Sent, Places
  <2>2. CASE Top.at # "ask"
    BY <2>2, FinishStep DEF IInv, StackInv, Sent
  <2> QED
    BY <2>1, <2>2
<1>3. ArpInv'
  BY DEF IInv, ArpInv, Sent, arp
<1> QED
  BY <1>1, <1>2, <1>3

\* arp_resolve gives up or has its answer.
LEMMA ArpResolveStep ==
  ASSUME IInv, arp_resolve PROVE RxInv' /\ TxInv' /\ StackInv' /\ ArpInv'
<1>1. RxInv' /\ TxInv'
  BY RxKept, TxKept, SendStep DEF IInv, arp_resolve, SendPacket
<1>2. StackInv'
  <2>1. FALSE \in BOOLEAN
    OBVIOUS
  <2>2. CASE Resolved(Top.hop)
    BY <2>2, AtStep DEF IInv, StackInv, arp_resolve, Places
  <2>3. CASE ~Resolved(Top.hop)
    BY <2>1, <2>3, FinishStep DEF IInv, StackInv, arp_resolve
  <2> QED
    BY <2>2, <2>3
<1>3. ArpInv'
  BY DEF IInv, ArpInv, arp_resolve, arp
<1> QED
  BY <1>1, <1>2, <1>3

\* A frame is handled.
LEMMA NetPollStep ==
  ASSUME IInv, net_poll PROVE RxInv' /\ TxInv' /\ StackInv' /\ ArpInv'
<1>1. RxInv' /\ Received \in Lan
  BY PollStep DEF IInv, net_poll
<1>2. TxInv'
  BY TxKept DEF IInv, net_poll
<1> DEFINE f == Received
<1>3. CASE arp_rx(Received)
  <2>1. f \in Arps
    BY <1>1, <1>3 DEF arp_rx, Arps
  <2>2. f.sha \in Hops /\ f.sha \in Macs
    BY <2>1 DEF Hops, Macs
  <2>3. CASE f.op = 1
    <3>1. Push("reply", f.sha) /\ UNCHANGED arp /\ UNCHANGED st
      BY <1>3, <2>3 DEF arp_rx
    <3>2. calls' \in Seq(CallSet)
      BY <2>2, <3>1, PushStep DEF IInv, StackInv, Kinds
    <3> QED
      BY <1>1, <1>2, <3>1, <3>2 DEF IInv, StackInv, ArpInv, arp, net_poll
  <2>4. CASE f.op = 2
    <3>1. /\ arp_spa' = f.spa /\ arp_tha' = f.sha
          /\ announced' = [announced EXCEPT ![f.spa] = f.sha] /\ UNCHANGED <<calls, st>>
      BY <1>3, <2>4 DEF arp_rx
    <3>2. ArpInv'
      BY <2>1, <2>2, <3>1 DEF IInv, ArpInv
    <3> QED
      BY <1>1, <1>2, <3>1, <3>2 DEF IInv, StackInv, net_poll
  <2>5. CASE f.op \notin {1, 2}
    BY <1>1, <1>2, <1>3, <2>5 DEF arp_rx, IInv, StackInv, ArpInv, arp, net_poll
  <2> QED
    BY <2>3, <2>4, <2>5
<1>4. CASE icmp_rx(Received)
  <2>1. calls' \in Seq(CallSet)
    BY <1>4, NextHopKnown, PushStep DEF icmp_rx, ReplyHop, IInv, StackInv, Kinds
  <2> QED
    BY <1>1, <1>2, <1>4, <2>1 DEF icmp_rx, IInv, StackInv, ArpInv, arp, net_poll
<1>5. CASE tcp_rx(Received)
  <2>1. calls' \in Seq(CallSet)
    BY <1>5, NextHopKnown, PushStep DEF tcp_rx, ReplyHop, IInv, StackInv, Kinds
  <2>2. st' \in {"CLOSED", "SYN_SENT", "ESTABLISHED"}
    BY <1>5 DEF tcp_rx, IInv, StackInv
  <2> QED
    BY <1>1, <1>2, <1>5, <2>1, <2>2 DEF tcp_rx, IInv, StackInv, ArpInv, arp, net_poll
<1>6. CASE udp_rx(Received)
  BY <1>1, <1>2, <1>6 DEF udp_rx, IInv, StackInv, ArpInv, arp, net_poll
<1> QED
  BY <1>3, <1>4, <1>5, <1>6 DEF net_poll

\* A function of the API is called.
LEMMA ApiStep ==
  ASSUME IInv, Api PROVE RxInv' /\ TxInv' /\ StackInv' /\ ArpInv'
<1>1. PICK kind \in {"udp", "syn", "data", "fin"}, dst \in Hosts : Call(kind, dst)
  BY DEF Api, udp_send, tcp_connect, tcp_send, tcp_close
<1>2. st' \in {"CLOSED", "SYN_SENT", "ESTABLISHED"}
  BY DEF Api, udp_send, tcp_connect, tcp_send, tcp_close, IInv, StackInv
<1>3. calls' \in Seq(CallSet)
  BY <1>1, NextHopKnown, PushStep DEF Call, IInv, StackInv, Kinds
<1>4. StackInv'
  BY <1>1, <1>2, <1>3, LanAssumption DEF Call, IInv, StackInv
<1>5. RxInv' /\ TxInv'
  BY <1>1, RxKept, TxKept DEF Call, IInv, nic
<1>6. ArpInv'
  BY <1>1 DEF Call, IInv, ArpInv, arp
<1> QED
  BY <1>4, <1>5, <1>6

\* Every step keeps the invariant.
LEMMA InvStep == ASSUME IInv, Next \/ UNCHANGED vars PROVE IInv'
<1>1. on_wire' \in BOOLEAN /\ link_up' \in BOOLEAN
  BY FlagStep
<1>2. CASE Api
  BY <1>1, <1>2, ApiStep DEF IInv
<1>3. CASE ipv4_send \/ SendReply \/ arp_resolve \/ net_poll
  BY <1>1, <1>3, Ipv4SendStep, SendReplyStep, ArpResolveStep, NetPollStep DEF IInv
<1>4. CASE ConnectReturns
  <2>1. RxInv' /\ TxInv'
    BY <1>4, RxKept, TxKept DEF ConnectReturns, IInv, nic
  <2>2. StackInv' /\ ArpInv'
    BY <1>4, TopOfStack DEF ConnectReturns, IInv, StackInv, ArpInv, arp
  <2> QED
    BY <1>1, <2>1, <2>2 DEF IInv
<1>5. CASE \E ok \in BOOLEAN : Sent(ok)
  BY <1>1, <1>5, SentStep DEF IInv
<1>6. CASE Controller
  <2>1. RxInv' /\ TxInv'
    BY <1>6, ArriveStep, TransmitStep, RxKept, TxKept DEF Controller, IInv, Arrive, Transmit
  <2>2. StackInv' /\ ArpInv'
    BY <1>6 DEF Controller, IInv, StackInv, ArpInv, arp
  <2> QED
    BY <1>1, <2>1, <2>2 DEF IInv
<1>7. CASE UNCHANGED vars
  <2>1. RxInv' /\ TxInv'
    BY <1>7, RxKept, TxKept DEF vars, IInv, nic
  <2>2. StackInv' /\ ArpInv'
    BY <1>7 DEF vars, IInv, StackInv, ArpInv, arp
  <2> QED
    BY <1>1, <2>1, <2>2 DEF IInv
<1> QED
  BY <1>2, <1>3, <1>4, <1>5, <1>6, <1>7 DEF Next, Stack

\* The inductive invariant holds of every reachable state of the stack, its driver
\* and the controller.
THEOREM StackInvariant == Spec => []IInv
<1>1. IInv /\ [Next]_vars => IInv'
  BY InvStep
<1> QED
  BY <1>1, InitInv, PTL DEF Spec

\* Type correctness of the stack and of both rings.
THEOREM TypeCorrect == Spec => []TypeOK
<1>1. IInv => TypeOK
  <2> SUFFICES ASSUME IInv PROVE TypeOK
    OBVIOUS
  <2>1. calls \in Seq([kind : Kinds, hop : Hops, at : Places])
    <3> DEFINE R == [kind : Kinds, hop : Hops, at : Places]
    <3>1. CallSet \subseteq R
      BY DEF CallSet
    <3>2. calls \in Seq(CallSet)
      BY DEF IInv, StackInv
    <3>3. calls \in Seq(R)
      <4> HIDE DEF R
      <4> QED
        BY <3>1, <3>2, SeqMonotonic
    <3> QED
      BY <3>3
  <2>2. {arrived, taken} \subseteq 0 .. MaxArrivals
    BY RingAssumption DEF IInv, RxInv
  <2>3. tx_status \in [Tx -> BOOLEAN] /\ on_wire \in BOOLEAN /\ link_up \in BOOLEAN
    BY DEF IInv, TxInv
  <2>4. rx_tail \in Rx /\ rdh \in Rx /\ tx_tail \in Tx /\ tdh \in Tx
    BY DEF IInv, RxInv, TxInv
  <2> QED
    BY <2>1, <2>2, <2>3, <2>4, Zenon DEF IInv, StackInv, ArpInv, TypeOK
<1> QED
  BY <1>1, StackInvariant, PTL

\* The controller fills the receive descriptors exactly where e1000_poll looks for
\* them, none lost and in order, for a ring of any size.
THEOREM ReceiveRingExact == Spec => []RxRingExact
<1>1. IInv => RxRingExact
  BY DEF IInv, RxInv
<1> QED
  BY <1>1, StackInvariant, PTL

\* When e1000_send reports success its frame has gone out, however many sends have
\* timed out before and however often the ring has wrapped.
THEOREM ReportedIsSent == Spec => SentWhenReported
<1>1. IInv /\ [Next]_vars => [Sent(TRUE) => on_wire]_vars
  BY DEF IInv, TxInv, Sent, SendDone
<1> QED
  BY <1>1, StackInvariant, PTL DEF Spec, SentWhenReported

\* Only ipv4_send and arp_resolve put an IPv4 packet into the transmit buffer, and
\* they do it with the slot resolved for its next hop.
LEMMA PacketStep ==
  ASSUME IInv, Next, tx_buffer' # tx_buffer, tx_buffer'.type = "ip"
  PROVE  tx_buffer'.mac = announced[tx_buffer'.hop]
<1>1. SendPacket /\ Resolved(Top.hop) /\ calls # <<>> /\ Top.kind # "reply"
  <2>1. CASE ipv4_send
    BY <2>1 DEF ipv4_send, e1000_send, tx
  <2>2. CASE arp_resolve
    <3>1. Top \in CallSet
      BY <2>2, TopOfStack DEF IInv, StackInv, arp_resolve
    <3> QED
      BY <2>2, <3>1 DEF arp_resolve, CallSet, tx
  <2>3. CASE SendReply
    BY <2>3 DEF SendReply, e1000_send, tx
  <2>4. CASE Api \/ net_poll \/ ConnectReturns \/ (\E ok \in BOOLEAN : Sent(ok)) \/ Controller
    BY <2>4 DEF Api, udp_send, tcp_connect, tcp_send, tcp_close, Call, net_poll,
                ConnectReturns, Sent, Controller, Arrive, Transmit, nic, tx
  <2> QED
    BY <2>1, <2>2, <2>3, <2>4 DEF Next, Stack
<1>2. tx_buffer'.mac = arp_tha /\ tx_buffer'.hop = Top.hop
  BY <1>1 DEF SendPacket, e1000_send, tx
<1>3. Top.hop \in Known
  BY <1>1, TopOfStack DEF IInv, StackInv, CallSet
<1> QED
  BY <1>1, <1>2, <1>3 DEF IInv, ArpInv, Resolved

\* However ARP waits nest and whatever answers come for others, an IPv4 packet goes
\* to the MAC its next hop announced last.
THEOREM PacketsReachNextHop == Spec => SentToNextHop
<1>1. IInv /\ [Next]_vars =>
        [tx_buffer' # tx_buffer /\ tx_buffer'.type = "ip"
           => tx_buffer'.mac = announced[tx_buffer'.hop]]_vars
  BY PacketStep
<1> QED
  BY <1>1, StackInvariant, PTL DEF Spec, SentToNextHop
=============================================================================
