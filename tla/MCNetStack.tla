----------------------------- MODULE MCNetStack -----------------------------
EXTENDS NetStack

\* op as a little-endian processor loads it: 1 and 2 come from a peer that writes
\* the field as this stack does, 512 from one that keeps to the protocol.
ArpFrames ==
  { [type |-> "arp", op |-> 1, spa |-> "h", sha |-> "mh"],
    [type |-> "arp", op |-> 2, spa |-> "gw", sha |-> "mg"],
    [type |-> "arp", op |-> 2, spa |-> "h", sha |-> "mh"],
    [type |-> "arp", op |-> 512, spa |-> "gw", sha |-> "mg"] }

Segments == { [type |-> "tcp", src |-> "far", flags |-> fl] : fl \in {{"SYN", "ACK"}, {"RST"}, {"FIN", "ACK"}} }

\* "h" is on the link, "hs" is the address that reads as "h" in the other byte order.
Addrs == {"far", "h", "hs"}
Reversed == [far |-> "far", h |-> "hs", hs |-> "h"]

AllFrames ==
  ArpFrames \cup Segments \cup
  { [type |-> "icmp", src |-> "h"], [type |-> "icmp", src |-> "hs"], [type |-> "udp", src |-> "far"] }

FewFrames == ArpFrames \cup Segments
=============================================================================
