------------------------------ MODULE NetStack ------------------------------
(***************************************************************************)
(* net/stack.c over the e1000 driver: ARP, ICMP echo, UDP and one TCP        *)
(* connection.                                                             *)
(*                                                                         *)
(* ipv4_send may have to ask for a MAC address, and arp_resolve then calls   *)
(* net_poll until an answer comes: frames are handled inside the handling of *)
(* other frames.  calls is the stack of the functions that are waiting; the  *)
(* last one runs.  With no call on it the idle loop polls.                   *)
(*                                                                         *)
(* Sequence numbers, ports and payloads decide nothing in the code and are   *)
(* left out.  Byte order is not: arp_rx compares the op field as the         *)
(* processor loads it, and never swaps it; ipv4_rx swaps the source address, *)
(* although local_ip and the addresses of ARP stay as they are loaded.       *)
(***************************************************************************)
EXTENDS E1000, Sequences, SequencesExt

CONSTANTS
  Lan,          \* the frames that may come in
  Addresses,    \* the addresses that occur, as the processor loads them
  Swap,         \* the same with their bytes in reverse
  Hosts,        \* addresses the callers send to
  OnLink,       \* those that share the prefix of local_ip
  Gateway,
  MaxCalls      \* bound: calls of tcp_connect, tcp_send, tcp_close and udp_send

\* Nobody sends to 0.0.0.0, which is no address of a host or of the gateway.
ASSUME LanAssumption ==
  /\ Hosts \subseteq Addresses /\ OnLink \subseteq Addresses /\ MaxCalls \in Nat
  /\ Swap \in [Addresses -> Addresses] /\ \A a \in Addresses : Swap[Swap[a]] = a
  /\ "none" \notin Addresses \cup {Gateway}
  /\ \A f \in Lan : f.type \in {"arp", "icmp", "tcp", "udp"}

VARIABLES
  arp_spa, arp_tha,     \* the one slot of the ARP cache; "none" is 0
  st,                   \* enum tcp_state
  calls,                \* the call stack: what is sent, to which next hop, and
                        \* where the call waits
  announced,            \* history: the MAC each host announced last
  issued                \* calls of the API so far

arp == <<arp_spa, arp_tha, announced>>
vars == <<nic, arp, st, calls, issued>>

Init ==
  /\ e1000_init
  /\ arp_spa = "none" /\ arp_tha = "none"
  /\ st = "CLOSED" /\ calls = <<>>
  /\ announced = [h \in Addresses \cup {Gateway} |-> "none"]
  /\ issued = 0

Top == Last(calls)
NextHop(dst) == IF dst \in OnLink THEN dst ELSE Gateway

\* The call on top goes on at another place.
At(place) == calls' = Append(Front(calls), [Top EXCEPT !.at = place])

Push(kind, hop) == calls' = Append(calls, [kind |-> kind, hop |-> hop, at |-> "entry"])

----------------------------------------------------------------------------
(* Sending *)

\* What each caller of ipv4_send does with the result.
Finish(ok) ==
  /\ IF Top.kind = "syn" /\ ok THEN At("connect") ELSE calls' = Front(calls)
  /\ st' = CASE Top.kind = "ack" -> "ESTABLISHED"
             [] Top.kind = "fin" -> "CLOSED"
             [] OTHER -> st

\* Mutant: any answer will do.
ResolvedByAny(hop) == arp_spa # "none"

\* The test arp_resolve makes before it asks and after it has waited.
Resolved(hop) == arp_spa = hop

SendPacket ==
  e1000_send([type |-> "ip", mac |-> arp_tha, hop |-> Top.hop])

\* ipv4_send with the address at hand, or the request of arp_resolve.
ipv4_send ==
  /\ calls # <<>> /\ Top.at = "entry" /\ Top.kind # "reply"
  /\ IF Resolved(Top.hop)
     THEN SendPacket /\ At("send") /\ UNCHANGED arp_spa
     ELSE /\ e1000_send([type |-> "request", mac |-> "ff", hop |-> Top.hop])
          /\ arp_spa' = "none" /\ At("ask")
  /\ UNCHANGED <<rx, link_up, arp_tha, announced, st, issued>>

\* The answer arp_rx sends.
SendReply ==
  /\ calls # <<>> /\ Top.at = "entry" /\ Top.kind = "reply"
  /\ e1000_send([type |-> "reply", mac |-> Top.hop, hop |-> "none"])
  /\ At("send")
  /\ UNCHANGED <<rx, link_up, arp, st, issued>>

\* e1000_send has returned.  arp_resolve does not look at what it returned.
Sent(ok) ==
  /\ calls # <<>> /\ Top.at \in {"send", "ask"}
  /\ IF ok THEN SendDone ELSE SendFailed
  /\ IF Top.at = "ask" THEN At("arp") /\ UNCHANGED st ELSE Finish(ok)
  /\ UNCHANGED <<nic, arp, issued>>

\* Mutant: the wait has no bound.
SpinsForever == FALSE

\* The spin counters of arp_resolve and tcp_connect may run out at any time.
SpunOut == TRUE

\* The loop of arp_resolve ends once net_poll has found the ring empty.
arp_resolve ==
  /\ calls # <<>> /\ Top.at = "arp" /\ ~Ready
  /\ arp_spa = "none" => SpunOut
  /\ IF Resolved(Top.hop)
     THEN SendPacket /\ At("send") /\ UNCHANGED st
     ELSE UNCHANGED tx /\ Finish(FALSE)
  /\ UNCHANGED <<rx, link_up, arp, issued>>

----------------------------------------------------------------------------
(* The API *)

Call(kind, dst) ==
  /\ calls = <<>> /\ issued < MaxCalls
  /\ Push(kind, NextHop(dst))
  /\ issued' = issued + 1
  /\ UNCHANGED <<nic, arp>>

udp_send(dst) == Call("udp", dst) /\ UNCHANGED st
tcp_connect(dst) == st = "CLOSED" /\ Call("syn", dst) /\ st' = "SYN_SENT"
tcp_send(dst) == st = "ESTABLISHED" /\ Call("data", dst) /\ UNCHANGED st
tcp_close(dst) == st = "ESTABLISHED" /\ Call("fin", dst) /\ UNCHANGED st

\* The loop at the end of tcp_connect ends; st stays as it is.
ConnectReturns ==
  /\ calls # <<>> /\ Top.at = "connect" /\ ~Ready
  /\ st = "SYN_SENT" => SpunOut
  /\ calls' = Front(calls)
  /\ UNCHANGED <<nic, arp, st, issued>>

----------------------------------------------------------------------------
(* Receiving *)

\* net_poll runs in the idle loop and in the two wait loops.
Polling == calls # <<>> => Top.at \in {"arp", "connect"}

arp_rx(f) ==
  /\ f.type = "arp"
  /\ CASE f.op = 1 -> Push("reply", f.sha) /\ UNCHANGED arp
       [] f.op = 2 -> /\ arp_spa' = f.spa /\ arp_tha' = f.sha
                      /\ announced' = [announced EXCEPT ![f.spa] = f.sha]
                      /\ UNCHANGED calls
       [] OTHER -> UNCHANGED <<arp, calls>>
  /\ UNCHANGED st

\* ipv4_rx gives the handlers the source with its bytes swapped: a host on the link
\* is answered over the gateway.
ReplyHop(f) == NextHop(Swap[f.src])

icmp_rx(f) == f.type = "icmp" /\ Push("echo", ReplyHop(f)) /\ UNCHANGED <<arp, st>>

tcp_rx(f) ==
  /\ f.type = "tcp"
  /\ CASE st = "SYN_SENT" /\ "SYN" \in f.flags -> Push("ack", ReplyHop(f)) /\ UNCHANGED st
       [] ~(st = "SYN_SENT" /\ "SYN" \in f.flags) /\ "RST" \in f.flags ->
            st' = "CLOSED" /\ UNCHANGED calls
       [] st = "ESTABLISHED" /\ "FIN" \in f.flags /\ "RST" \notin f.flags ->
            Push("fin", ReplyHop(f)) /\ UNCHANGED st
       [] OTHER -> UNCHANGED <<calls, st>>
  /\ UNCHANGED arp

udp_rx(f) == f.type = "udp" /\ UNCHANGED <<arp, st, calls>>

net_poll ==
  /\ Polling
  /\ e1000_poll
  /\ arp_rx(Received) \/ icmp_rx(Received) \/ tcp_rx(Received) \/ udp_rx(Received)
  /\ UNCHANGED <<tx, link_up, issued>>

----------------------------------------------------------------------------
Api ==
  \E dst \in Hosts : udp_send(dst) \/ tcp_connect(dst) \/ tcp_send(dst) \/ tcp_close(dst)

Stack ==
  \/ ipv4_send \/ SendReply \/ arp_resolve \/ net_poll \/ ConnectReturns
  \/ \E ok \in BOOLEAN : Sent(ok)

Controller ==
  /\ \/ \E f \in Lan : Arrive(f)
     \/ Transmit
  /\ UNCHANGED <<arp, st, calls, issued>>

Next == Api \/ Stack \/ Controller

Spec == Init /\ [][Next]_vars

\* The processor runs; the controller and the network owe nothing.
FairSpec == Spec /\ WF_vars(Stack)

----------------------------------------------------------------------------
(* Properties *)

\* The functions that call ipv4_send or e1000_send, and where they wait.
Kinds == {"syn", "ack", "fin", "data", "udp", "echo", "reply"}
Places == {"entry", "ask", "arp", "send", "connect"}
Arps == {f \in Lan : f.type = "arp"}
Hops == Addresses \cup {Gateway} \cup {f.sha : f \in Arps}

TypeOK ==
  /\ rx_tail \in Rx /\ rdh \in Rx /\ tx_tail \in Tx /\ tdh \in Tx
  /\ {arrived, taken} \subseteq 0 .. MaxArrivals
  /\ tx_status \in [Tx -> BOOLEAN] /\ on_wire \in BOOLEAN /\ link_up \in BOOLEAN
  /\ st \in {"CLOSED", "SYN_SENT", "ESTABLISHED"}
  /\ arp_spa \in {f.spa : f \in Arps} \cup {"none"}
  /\ issued \in 0 .. MaxCalls
  /\ calls \in Seq([kind : Kinds, hop : Hops, at : Places])

\* However ARP waits nest and whatever answers come for others, an IPv4 packet goes
\* to the MAC its next hop announced last (stack.c:191).
SentToNextHop ==
  [][tx_buffer' # tx_buffer /\ tx_buffer'.type = "ip"
       => tx_buffer'.mac = announced[tx_buffer'.hop]]_vars

\* When e1000_send reports success its frame has gone out, also after earlier
\* sends have timed out and the ring has wrapped (e1000.c:196).
SentWhenReported == [][Sent(TRUE) => on_wire]_vars

\* Every call returns to its caller and the idle loop goes on, however deep frames
\* were handled inside each other, once frames stop coming.
CallReturns == (calls # <<>>) ~> (calls = <<>>)

\* The connection is opened actively (stack.c:12): it becomes established only
\* while an open is under way.
ActiveOpenOnly == [][st' = "ESTABLISHED" => st \in {"SYN_SENT", "ESTABLISHED"}]_vars
=============================================================================
