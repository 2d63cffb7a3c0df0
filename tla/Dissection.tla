------------------------------ MODULE Dissection ------------------------------
(***************************************************************************)
(* Link-layer stripping and IP/TCP dissection (ingestion/dissect.py): what *)
(* the engine makes of one captured frame.                                 *)
(*                                                                         *)
(* A frame, the record f, is described by what its sender put into it:     *)
(*   link, tags      its link type and, on Ethernet, its VLAN tags,        *)
(*   family          "IPv4", "IPv6" or "other",                            *)
(*   ext             IPv4 options or IPv6 extension headers,               *)
(*   fragment, tcp   whether it is an IP fragment, whether it carries TCP, *)
(*   payload         length of the TCP payload,                            *)
(*   stated          whether the IP header states the length (a network    *)
(*                   card that segments by itself leaves it zero),         *)
(*   trailer         bytes after the IP packet: padding, a checksum,       *)
(*   stored          how much of the frame the capture holds.              *)
(* Lengths count words: a header, a tag and a byte of payload are one word *)
(* each, so that a header is stored whole or not at all.                   *)
(***************************************************************************)
EXTENDS Integers, FiniteSetsExt

CONSTANT MaxTags    \* _MAX_VLAN_TAGS

ASSUME TagAssumption == MaxTags \in Nat

LinkTypes == {"ETHERNET", "RAW_IP", "LOOP", "LINUX_SLL", "UNSUPPORTED"}
Atmost(a, b) == Min({a, b})

(* RAW_IP has no header; of the others only Ethernet carries tags.          *)
LinkLength(f) == IF f.link = "RAW_IP" THEN 0 ELSE 1 + f.tags
IpLength(f) == 1 + f.ext + 1 + f.payload
FrameLength(f) == LinkLength(f) + IpLength(f) + f.trailer

(* Bytes of the network layer that are stored.                              *)
IpStored(f) == f.stored - LinkLength(f)

Verdict(outcome) == [outcome |-> outcome, declared |-> 0, available |-> 0]

(* _build: a segment whose stored payload is shorter than declared was cut. *)
Segment(declared, tcpStored) ==
    IF declared < 0 THEN Verdict("MALFORMED")
    ELSE [outcome |-> "TCP", declared |-> declared,
          available |-> Atmost(declared, tcpStored - 1)]

(* Defect: the payload is whatever bytes are left.                          *)
Ipv4TakesRest(f) ==
    LET header == 1 + f.ext
        tcpStored == IpStored(f) - header
    IN  CASE header > IpStored(f) -> Verdict("MALFORMED")
          [] header <= IpStored(f) /\ f.fragment -> Verdict("IP_FRAGMENT")
          [] header <= IpStored(f) /\ ~f.fragment /\ ~f.tcp -> Verdict("NOT_TCP")
          [] header <= IpStored(f) /\ ~f.fragment /\ f.tcp ->
                IF tcpStored < 1 THEN Verdict("MALFORMED")
                ELSE Segment(tcpStored - 1, tcpStored)

(* _dissect_ipv4: the length of the payload comes from the IP header.       *)
Ipv4(f) ==
    LET header == 1 + f.ext
        total == IF f.stated THEN IpLength(f) ELSE 0
        tcpStored == IpStored(f) - header
    IN  CASE header > IpStored(f) -> Verdict("MALFORMED")
          [] header <= IpStored(f) /\ f.fragment -> Verdict("IP_FRAGMENT")
          [] header <= IpStored(f) /\ ~f.fragment /\ ~f.tcp -> Verdict("NOT_TCP")
          [] header <= IpStored(f) /\ ~f.fragment /\ f.tcp ->
                IF tcpStored < 1 THEN Verdict("MALFORMED")
                ELSE Segment(total - header - 1, tcpStored)

(* _dissect_ipv6: what lies between the fixed header and TCP is worked out  *)
(* from all the bytes there are, those after the packet included.  A header *)
(* that is not stored is not seen.                                          *)
Ipv6(f) ==
    LET length == IF f.stated THEN IpLength(f) - 1 ELSE 0
        packet == Atmost(IpStored(f) - 1, length)
        tcpStored == packet - f.ext
        between == IpStored(f) - tcpStored - 1
        fragment == f.fragment /\ packet >= 1
        tcp == ~fragment /\ f.tcp /\ tcpStored >= 1
    IN  CASE fragment -> Verdict("IP_FRAGMENT")
          [] ~fragment /\ ~tcp -> Verdict("NOT_TCP")
          [] tcp -> Segment(length - between - 1, tcpStored)

(* _strip_link_layer, and the choice of the family by the type the link     *)
(* layer states or by the version the first byte states.                    *)
Walked(f) == IF f.link = "RAW_IP" THEN 0 ELSE 1 + Atmost(f.tags, MaxTags)

NetworkLayer(f) ==
    CASE f.stored <= Walked(f) -> Verdict("MALFORMED")
      [] f.stored > Walked(f) /\ (f.tags > MaxTags \/ f.family = "other") -> Verdict("NOT_IP")
      [] f.stored > Walked(f) /\ f.tags <= MaxTags /\ f.family = "IPv4" -> Ipv4(f)
      [] f.stored > Walked(f) /\ f.tags <= MaxTags /\ f.family = "IPv6" -> Ipv6(f)

(* dissect(), with the link type the container says the frame has.  Under   *)
(* another link type than its own, a frame does not come out as IP.         *)
Dissect(f, link) ==
    CASE link = "UNSUPPORTED" -> Verdict("UNSUPPORTED_LINK_TYPE")
      [] link # "UNSUPPORTED" /\ link # f.link -> Verdict("NOT_IP")
      [] link # "UNSUPPORTED" /\ link = f.link -> NetworkLayer(f)
=============================================================================
