------------------------------- MODULE E1000 -------------------------------
(***************************************************************************)
(* The descriptor rings of drivers/net/e1000.c and the controller behind     *)
(* them.  The registers RDT and TDT always hold rx_tail and tx_tail, so they *)
(* are not variables of their own; REG_RDH is rdh, REG_TDH is tdh.           *)
(*                                                                         *)
(* The driver is initialised (e1000_init) and link_up is what it read then.  *)
(* net/stack.c, which calls the driver, is module NetStack.                 *)
(***************************************************************************)
EXTENDS Naturals

CONSTANTS
  RX_DESCS, TX_DESCS,   \* 32 and 8 in the code
  MaxArrivals           \* bound: frames that come in

ASSUME RingAssumption ==
  /\ RX_DESCS \in Nat \ {0, 1} /\ TX_DESCS \in Nat \ {0, 1}
  /\ MaxArrivals \in Nat

VARIABLES
  rx_ring,      \* per descriptor the frame received, numbered; 0 is DD clear
  rx_tail, rdh,
  arrived,      \* history: frames the controller has accepted
  taken,        \* history: frames e1000_poll has returned
  tx_buffer,    \* the one buffer all transmit descriptors point at
  tx_status,    \* DD of each transmit descriptor
  tx_tail, tdh,
  on_wire,      \* history: has the frame of the last e1000_send gone out?
  link_up

rx == <<rx_ring, rx_tail, rdh, arrived, taken>>
tx == <<tx_buffer, tx_status, tx_tail, tdh, on_wire>>
nic == <<rx, tx, link_up>>

Rx == 0 .. RX_DESCS - 1
Tx == 0 .. TX_DESCS - 1
Empty == [n |-> 0, frame |-> [type |-> "none"]]
NoFrame == [type |-> "none", mac |-> "none", hop |-> "none"]

e1000_init ==
  /\ rx_ring = [d \in Rx |-> Empty] /\ rx_tail = RX_DESCS - 1 /\ rdh = 0
  /\ arrived = 0 /\ taken = 0
  /\ tx_buffer = NoFrame /\ tx_status = [d \in Tx |-> FALSE]
  /\ tx_tail = 0 /\ tdh = 0 /\ on_wire = FALSE
  /\ link_up \in BOOLEAN

----------------------------------------------------------------------------
(* The driver *)

\* Mutant: off by one.
NextRxSkips == (rx_tail + 2) % RX_DESCS

NextRx == (rx_tail + 1) % RX_DESCS
Ready == rx_ring[NextRx].n # 0
Received == rx_ring[NextRx].frame

\* e1000_poll with a frame ready.
e1000_poll ==
  /\ Ready
  /\ rx_ring' = [rx_ring EXCEPT ![NextRx] = Empty]
  /\ rx_tail' = NextRx
  /\ taken' = taken + 1
  /\ UNCHANGED <<rdh, arrived>>

\* Mutant: d->status is not cleared.
StatusKept == tx_status

StatusCleared == [tx_status EXCEPT ![tx_tail] = FALSE]

\* Mutant: the tail is not wrapped.
NextTxUnwrapped == tx_tail + 1

NextTx == (tx_tail + 1) % TX_DESCS

\* e1000_send up to its wait.
e1000_send(frame) ==
  IF link_up
  THEN /\ tx_buffer' = frame
       /\ tx_status' = StatusCleared
       /\ tx_tail' = NextTx
       /\ on_wire' = FALSE
       /\ UNCHANGED tdh
  ELSE UNCHANGED tx

\* The descriptor e1000_send waits for.
Waited == (tx_tail + TX_DESCS - 1) % TX_DESCS

\* e1000_send returns 0; it returns -1 after 200000 looks, or at once without a link.
SendDone == link_up /\ tx_status[Waited]
SendFailed == link_up => ~tx_status[Waited]

----------------------------------------------------------------------------
(* The controller *)

\* A frame is stored in the next descriptor the controller owns, if it owns one.
Arrive(frame) ==
  /\ arrived < MaxArrivals
  /\ rdh # rx_tail
  /\ rx_ring' = [rx_ring EXCEPT ![rdh] = [n |-> arrived + 1, frame |-> frame]]
  /\ rdh' = (rdh + 1) % RX_DESCS
  /\ arrived' = arrived + 1
  /\ UNCHANGED <<rx_tail, taken, tx, link_up>>

\* The next descriptor is sent with what the buffer holds then.
Transmit ==
  /\ tdh # tx_tail
  /\ tx_status' = [tx_status EXCEPT ![tdh] = TRUE]
  /\ on_wire' = (on_wire \/ tdh = Waited)
  /\ tdh' = (tdh + 1) % TX_DESCS
  /\ UNCHANGED <<rx, tx_buffer, tx_tail, link_up>>

----------------------------------------------------------------------------
\* The controller fills descriptors exactly where the driver looks for them: from
\* rx_tail on they hold the frames not yet taken, none lost and in order.
RxRingExact ==
  /\ arrived - taken < RX_DESCS
  /\ rdh = (rx_tail + 1 + arrived - taken) % RX_DESCS
  /\ \A i \in 1 .. RX_DESCS :
       rx_ring[(rx_tail + i) % RX_DESCS].n = IF i <= arrived - taken THEN taken + i ELSE 0
=============================================================================
