------------------------------ MODULE Containers ------------------------------
(***************************************************************************)
(* The capture containers (ingestion/pcap_reader.py, pcapng_reader.py):    *)
(* what the reader makes of the next record of a file.                     *)
(*                                                                         *)
(* A record is [kind, iface, link, damage].  Of a pcap file all records    *)
(* are packets; the blocks of a pcapng file are section headers,           *)
(* interface descriptions, enhanced and simple packets, and others.        *)
(* damage says how the record departs from a whole one:                    *)
(*   "ends"     the file ends within it                                    *)
(*   "length"   its length fields or its byte-order magic are invalid      *)
(*   "short"    its body is too short to be decoded                        *)
(*   "big"      the packet exceeds max_packet_bytes                        *)
(*   "overrun"  it claims more packet bytes than the block holds           *)
(*                                                                         *)
(* The reader is the record r: its format, the link types of the           *)
(* interfaces of the current section, whether it stopped, and whether it   *)
(* stopped before the end of the file.                                     *)
(***************************************************************************)
EXTENDS Integers, Sequences

Silent == "none"
NoLink == "none"

(* What reading a record results in: the reader, the link type of the       *)
(* packet it holds if it is yielded, and the warning raised.                *)
Outcome(r, link, warning) == [reader |-> r, link |-> link, warning |-> warning]
Yield(r, link, warning) == Outcome(r, link, warning)
Skip(r, warning) == Outcome(r, NoLink, warning)
Stop(r, warning) == Skip([r EXCEPT !.stopped = TRUE, !.truncated = TRUE], warning)

(* read_header(): a pcap file has one interface, a pcapng file begins with  *)
(* a section that has none yet.                                             *)
NewReader(format, link) ==
    [format |-> format, section |-> IF format = "PCAP" THEN << link >> ELSE << >>,
     stopped |-> FALSE, truncated |-> FALSE]

(* PcapReader.frames(): nothing in the file says where the next packet      *)
(* begins but the length of this one, so a bad length ends the reading.     *)
PcapRecord(r, b) ==
    CASE b.damage = "ends" -> Stop(r, "TRUNCATED_CAPTURE_FILE")
      [] b.damage = "big" -> Stop(r, "LIMIT_PACKET_BYTES")
      [] b.damage = "none" -> Yield(r, r.section[1], Silent)

-----------------------------------------------------------------------------
(* PcapngReader.                                                            *)

NewSection(r) == Skip([r EXCEPT !.section = << >>], Silent)

(* _add_interface: one that cannot be decoded takes no number.              *)
AddInterface(r, b) ==
    IF b.damage = "short" THEN Skip(r, "MALFORMED_BLOCK")
    ELSE Skip([r EXCEPT !.section = Append(@, b.link)],
              IF b.link = "UNSUPPORTED" THEN "UNSUPPORTED_LINK_TYPE" ELSE Silent)

Known(r, iface) == iface \in DOMAIN r.section

(* Defect: a packet that does not fit its block is passed over in silence.  *)
EnhancedPacketQuiet(r, b) ==
    CASE b.damage = "short" -> Skip(r, "MALFORMED_BLOCK")
      [] b.damage # "short" /\ ~Known(r, b.iface) -> Skip(r, "MISSING_INTERFACE_DESCRIPTION")
      [] b.damage = "big" /\ Known(r, b.iface) -> Skip(r, "LIMIT_PACKET_BYTES")
      [] b.damage = "overrun" /\ Known(r, b.iface) -> Skip(r, Silent)
      [] b.damage = "none" /\ Known(r, b.iface) -> Yield(r, r.section[b.iface], Silent)

(* _parse_epb: a packet of an interface nobody described is not guessed at. *)
EnhancedPacket(r, b) ==
    CASE b.damage = "short" -> Skip(r, "MALFORMED_BLOCK")
      [] b.damage # "short" /\ ~Known(r, b.iface) -> Skip(r, "MISSING_INTERFACE_DESCRIPTION")
      [] b.damage = "big" /\ Known(r, b.iface) -> Skip(r, "LIMIT_PACKET_BYTES")
      [] b.damage = "overrun" /\ Known(r, b.iface) -> Skip(r, "MALFORMED_BLOCK")
      [] b.damage = "none" /\ Known(r, b.iface) -> Yield(r, r.section[b.iface], Silent)

(* _parse_spb: of the first interface of the section, without a timestamp.  *)
SimplePacket(r, b) ==
    CASE b.damage = "short" -> Skip(r, Silent)
      [] b.damage # "short" /\ ~Known(r, 1) -> Skip(r, "MISSING_INTERFACE_DESCRIPTION")
      [] b.damage = "big" /\ Known(r, 1) -> Skip(r, "LIMIT_PACKET_BYTES")
      [] b.damage = "none" /\ Known(r, 1) -> Yield(r, r.section[1], "UNSUPPORTED_BLOCK_TYPE")

(* _read_block: the framing of a block is checked before its content.       *)
Framed(b) == b.damage \notin {"ends", "length"}

PcapngBlock(r, b) ==
    CASE b.damage = "ends" -> Stop(r, "TRUNCATED_CAPTURE_FILE")
      [] b.damage = "length" -> Stop(r, "MALFORMED_BLOCK")
      [] Framed(b) /\ b.kind = "section" -> NewSection(r)
      [] Framed(b) /\ b.kind = "interface" -> AddInterface(r, b)
      [] Framed(b) /\ b.kind = "packet" -> EnhancedPacket(r, b)
      [] Framed(b) /\ b.kind = "simple" -> SimplePacket(r, b)
      [] Framed(b) /\ b.kind = "other" -> Skip(r, "UNSUPPORTED_BLOCK_TYPE")

ReadRecord(r, b) == IF r.format = "PCAP" THEN PcapRecord(r, b) ELSE PcapngBlock(r, b)

(* The damage a record of a kind can have.                                  *)
DamageOf(format, kind) ==
    {"none", "ends"}
      \cup (IF format = "PCAPNG" THEN {"length"} ELSE {})
      \cup (IF kind \in {"packet", "simple"} THEN {"big"} ELSE {})
      \cup (IF format = "PCAPNG" /\ kind = "packet" THEN {"overrun"} ELSE {})
      \cup (IF format = "PCAPNG" /\ kind \in {"interface", "packet", "simple"}
            THEN {"short"} ELSE {})

KindsOf(format) ==
    IF format = "PCAP" THEN {"packet"}
    ELSE {"section", "interface", "packet", "simple", "other"}

Records(links, interfaces) ==
    [kind : {"section", "interface", "packet", "simple", "other"},
     iface : interfaces, link : links,
     damage : {"none", "ends", "length", "big", "overrun", "short"}]
=============================================================================
