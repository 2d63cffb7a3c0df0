------------------------------ MODULE Ingestion ------------------------------
(***************************************************************************)
(* Reading a capture (pipeline.py, ingestion/reader.py): the container is  *)
(* read record by record, every frame is dissected, and a TCP packet goes  *)
(* to the session engine, module Sessions.  What becomes of a record is    *)
(* counted or warned about.                                                *)
(*                                                                         *)
(* The environment is the file.  Its records may be damaged, its           *)
(* interfaces are described anew in every section, its frames are cut at a *)
(* snapshot length, and the TCP packets in it are those of the traffic of  *)
(* module Sessions.                                                        *)
(***************************************************************************)
EXTENDS Sessions, Dissection, Containers

CONSTANTS
    Links,          \* link types of the interfaces of the file
    MaxRecords,     \* bound: records in a file, by its format
    MaxOdd,         \* bound: records that are damaged or hold no TCP packet
    PacketLimit     \* max_packets

ASSUME FileAssumption ==
    /\ Links \subseteq LinkTypes
    /\ MaxRecords \in [{"PCAP", "PCAPNG"} -> Nat] /\ MaxOdd \in Nat
    /\ PacketLimit \in Nat

VARIABLES
    reader,      \* the container's reader
    packetsRead, \* packets_read
    counts,      \* packets that are not TCP, by reason
    warnings,    \* warnings that a record was passed over, by code
    described,   \* file: the interfaces of its current section
    records,     \* file: records so far
    odd,         \* file: records so far that are damaged or hold no TCP packet
    owed,        \* file: records so far that hold a packet or are damaged
    misread,     \* in which ways a packet was taken for another, of which oddities
    unnoticed    \* a segment that was stored in part was taken as complete

file == <<described, records, odd, owed>>
progress == <<reader, packetsRead, counts, warnings>>
ingestion == <<progress, file, misread, unnoticed>>
allVars == <<vars, ingestion>>

-----------------------------------------------------------------------------
(* Frames.                                                                  *)

FrameFields ==
    [link : Links, tags : {0, 1, MaxTags + 1}, family : {"IPv4", "IPv6", "other"},
     ext : 0..1, fragment : BOOLEAN, tcp : BOOLEAN, payload : 0..2, stated : BOOLEAN,
     trailer : 0..1, stored : 0..9]

(* An IPv6 fragment says so in an extension header.                         *)
Frames ==
    {f \in FrameFields :
        /\ f.link # "ETHERNET" => f.tags = 0
        /\ f.fragment /\ f.family = "IPv6" => f.ext = 1
        /\ f.stored <= FrameLength(f)}

(* What a segment with this payload does to the streams: if nothing of it   *)
(* is stored it is one without payload, if a part is stored it leaves a     *)
(* hole, and a whole one may still leave one or meet a limit.               *)
PayloadOf(d) ==
    CASE d.available = 0 -> {"none"}
      [] d.available > 0 /\ d.available < d.declared -> {"hole", "limit"}
      [] d.available > 0 /\ d.available = d.declared -> {"clean", "hole", "limit"}

Right(f) ==
    CASE f.link = "UNSUPPORTED" -> "UNSUPPORTED_LINK_TYPE"
      [] f.link # "UNSUPPORTED" /\ f.family = "other" -> "NOT_IP"
      [] f.link # "UNSUPPORTED" /\ f.family # "other" ->
            IF f.fragment THEN "IP_FRAGMENT" ELSE IF f.tcp THEN "TCP" ELSE "NOT_TCP"

(* How the packet handed on differs from the one that was sent: it is       *)
(* another kind of packet, has bytes the sender did not put into its        *)
(* payload, or lacks some without showing that it does.                     *)
Differs(f, d) ==
    (IF d.outcome \notin {Right(f), "MALFORMED"} THEN {"kind"} ELSE {})
      \cup (IF d.available > f.payload THEN {"padding"} ELSE {})
      \cup (IF d.outcome = "TCP" /\ d.declared < f.payload THEN {"shortened"} ELSE {})

(* What is out of the ordinary about a frame: more tags than are walked,    *)
(* and of an IPv6 packet, that it does not state its length, that a header  *)
(* is not stored, or that bytes after the packet are.                       *)
Oddities(f) ==
    (IF f.tags > MaxTags THEN {"tags"} ELSE {})
      \cup (IF f.family = "IPv6" /\ ~f.stated THEN {"no length"} ELSE {})
      \cup (IF f.family = "IPv6" /\ IpStored(f) < 1 + f.ext + 1 THEN {"cut header"} ELSE {})
      \cup (IF f.family = "IPv6" /\ IpStored(f) > IpLength(f) THEN {"trailer"} ELSE {})

(* What may come of a frame of one link type that is read under another.    *)
Takings ==
    [sent \in Links |-> [read \in Links |->
        UNION {LET d == Dissect(f, read)
               IN  {[outcome |-> d.outcome, payload |-> p, empty |-> f.payload = 0,
                     misread |-> [what : Differs(f, d), of : {Oddities(f)}],
                     unnoticed |-> /\ d.outcome = "TCP" /\ d.available < f.payload
                                   /\ p \in {"none", "clean"}] : p \in PayloadOf(d)} :
                  f \in {f \in Frames : f.link = sent}}]]

-----------------------------------------------------------------------------
(* The capture loop.                                                        *)

(* Warnings that announce a record; the others are left out.                *)
PassedOver == {"TRUNCATED_CAPTURE_FILE", "LIMIT_PACKET_BYTES", "LIMIT_PACKET_COUNT",
               "MALFORMED_BLOCK", "MISSING_INTERFACE_DESCRIPTION"}

Raise(code) ==
    warnings' = [c \in PassedOver |-> warnings[c] + (IF c = code THEN 1 ELSE 0)]

(* What the file holds.  A simple packet too short for its length field     *)
(* counts for nothing.                                                      *)
NextRecord(b) ==
    /\ ~reader.stopped
    /\ records < MaxRecords[reader.format]
    /\ records' = records + 1
    /\ owed' = IF \/ b.kind = "packet"
                  \/ b.kind = "simple" /\ b.damage # "short"
                  \/ b.kind \notin {"packet", "simple"} /\ b.damage # "none"
               THEN owed + 1 ELSE owed
    /\ described' = CASE b.kind = "section" /\ Framed(b) -> << >>
                      [] b.kind = "interface" /\ Framed(b) ->
                            Append(described, [link |-> b.link, whole |-> b.damage = "none"])
                      [] OTHER -> described

(* The interface a packet record refers to, and the link type it has.       *)
InterfaceOf(b) == IF b.kind = "simple" THEN 1 ELSE b.iface
TrueLink(b) ==
    IF InterfaceOf(b) \in DOMAIN described THEN described[InterfaceOf(b)].link ELSE NoLink

(* An interface that could not be decoded takes no number, so that those    *)
(* after it are taken for one another.                                      *)
Misnumbered(b) == \E i \in DOMAIN described : i <= InterfaceOf(b) /\ ~described[i].whole
Oddly(b, m) == [m EXCEPT !.of = IF Misnumbered(b) THEN @ \cup {"numbering"} ELSE @]

PassOver(b) ==
    /\ NextRecord(b)
    /\ LET result == ReadRecord(reader, b)
       IN  /\ result.link = NoLink
           /\ reader' = result.reader
           /\ Raise(result.warning)
    /\ odd' = IF b.damage = "none" THEN odd ELSE odd + 1
    /\ UNCHANGED <<vars, packetsRead, counts, misread, unnoticed>>

(* frames() of the source: the packet after the last one allowed is read,   *)
(* not yielded, and the capture is reported as truncated.                   *)
LimitReached(b) ==
    /\ NextRecord(b)
    /\ ReadRecord(reader, b).link # NoLink
    /\ packetsRead >= PacketLimit
    /\ reader' = [reader EXCEPT !.stopped = TRUE, !.truncated = TRUE]
    /\ Raise("LIMIT_PACKET_COUNT")
    /\ UNCHANGED <<vars, odd, packetsRead, counts, misread, unnoticed>>

(* The counter a frame that is no TCP packet goes to.                       *)
Counter(outcome) ==
    CASE outcome = "NOT_IP" -> "non_ip"
      [] outcome \in {"NOT_TCP", "IP_FRAGMENT"} -> "non_tcp"
      [] outcome = "UNSUPPORTED_LINK_TYPE" -> "unsupported"
      [] outcome = "MALFORMED" -> "malformed"

TakeFrame(b, taken) ==
    /\ NextRecord(b)
    /\ packetsRead < PacketLimit
    /\ packetsRead' = packetsRead + 1
    /\ LET result == ReadRecord(reader, b)
       IN  reader' = result.reader /\ Raise(result.warning)
    /\ misread' = misread \cup {Oddly(b, m) : m \in taken.misread}
    /\ unnoticed' = (unnoticed \/ taken.unnoticed)

NotTcp(b, taken) ==
    /\ taken.outcome # "TCP"
    /\ odd < MaxOdd
    /\ odd' = odd + 1
    /\ TakeFrame(b, taken)
    /\ counts' = [counts EXCEPT ![Counter(taken.outcome)] = @ + 1]
    /\ UNCHANGED vars

Tcp(b, taken) ==
    /\ taken.outcome = "TCP"
    /\ TakeFrame(b, taken)
    /\ UNCHANGED <<counts, odd>>
    /\ \E k \in Keys :
          \/ taken.empty /\ CaptureSyn(k)
          \/ \E from \in {"a", "b"}, flags \in LaterFlags :
                /\ "SYN" \in flags => taken.empty
                /\ CaptureLater(k, from, flags, taken.payload)

FileRecords ==
    {b \in Records(Links, 1..2) :
        /\ b.kind # "interface" => b.link = CHOOSE l \in Links : TRUE
        /\ b.kind # "packet" => b.iface = 1}

MayFollow(b) ==
    /\ b.kind \in KindsOf(reader.format)
    /\ b.damage \in (IF odd < MaxOdd THEN DamageOf(reader.format, b.kind) ELSE {"none"})
    /\ b.kind = "packet" => b.iface \in DOMAIN described
    /\ b.kind = "interface" => Len(described) < 2

-----------------------------------------------------------------------------
IngestionInit ==
    /\ Init
    /\ \E format \in {"PCAP", "PCAPNG"}, l \in Links :
          /\ reader = NewReader(format, l)
          /\ described = [i \in DOMAIN reader.section |-> [link |-> l, whole |-> TRUE]]
    /\ packetsRead = 0
    /\ counts = [c \in {"non_ip", "non_tcp", "unsupported", "malformed"} |-> 0]
    /\ warnings = [c \in PassedOver |-> 0]
    /\ records = 0 /\ odd = 0 /\ owed = 0
    /\ misread = {} /\ unnoticed = FALSE

IngestionNext ==
    \/ \E b \in FileRecords :
          /\ MayFollow(b)
          /\ \/ PassOver(b)
             \/ LimitReached(b)
             \/ LET link == ReadRecord(reader, b).link
                IN  /\ link # NoLink
                    /\ \E taken \in Takings[TrueLink(b)][link] :
                          NotTcp(b, taken) \/ Tcp(b, taken)
    \/ (\E k \in Keys : NextConnection(k)) /\ UNCHANGED ingestion

IngestionSpec == IngestionInit /\ [][IngestionNext]_allVars

-----------------------------------------------------------------------------
(* Properties. *)

(* docs/architecture.md "Nothing is silently discarded": every packet the   *)
(* file holds and every damaged record, up to where reading stopped, is in  *)
(* exactly one place: in a session, counted as refused, counted as no TCP   *)
(* packet, or announced by a warning of its own.                            *)
NothingSilentlyDiscarded ==
    LET inSessions == FoldFunction(+, 0, PacketCounts) + refusedCount
        counted == FoldFunction(+, 0, counts)
        announced == FoldFunction(+, 0, warnings)
    IN  /\ inSessions + counted = packetsRead
        /\ packetsRead + announced = owed

(* Five oddities explain a difference.  A packet is taken for another kind  *)
(* if its interface follows one that could not be decoded, if it has more   *)
(* tags than are walked, or if it is IPv6 and states no length or has a     *)
(* header that is not stored; and a segment in IPv6 is shortened by stored  *)
(* bytes after the packet.                                                  *)
Explained(m) ==
    \/ m.what = "kind" /\ m.of \cap {"numbering", "tags", "no length", "cut header"} # {}
    \/ m.what = "shortened" /\ "trailer" \in m.of

(* dissect.py and pcapng_reader.py: but for those five, every frame is read *)
(* under the link type of its own interface, also after a new section       *)
(* renumbered them, and what is handed on as the payload of a segment is    *)
(* what its sender put there, never padding and never less than it          *)
(* declared, however much of the frame is stored.                           *)
PacketsAreTakenAsSent == \A m \in misread : Explained(m)

(* dissect.py:9-10: "Payload length comes from the IP header, not from      *)
(* 'whatever bytes are left'": no segment is handed on as shorter than its  *)
(* IP header says.                                                          *)
LengthIsTheHeaders == \A m \in misread : m.what # "shortened"

(* docs/limitations.md, snapshot length: the engine "reports the shortfall  *)
(* as a NOT_CAPTURED gap.  It never treats a truncated segment as a         *)
(* complete one".                                                           *)
TruncationIsNoticed == ~unnoticed
=============================================================================
