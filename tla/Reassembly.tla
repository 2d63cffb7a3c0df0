----------------------------- MODULE Reassembly -----------------------------
(***************************************************************************)
(* Reconstruction of one direction of a TCP connection from the segments a *)
(* capture holds (network/reassembly.py, with network/seqspace.py and      *)
(* network/budget.py).                                                     *)
(*                                                                         *)
(* A segment's 32-bit sequence number is projected into an unbounded       *)
(* space; bytes are kept against that extended number, the first packet    *)
(* that brings a byte keeps it, and two byte budgets and a segment limit   *)
(* bound what is kept.  Everything a reader of the report is told about a  *)
(* missing byte is derived from what is stored here.                       *)
(*                                                                         *)
(* The environment is a sender whose stream positions are 0 (its SYN), 1,  *)
(* 2, ... and a capture that holds its segments in any order, repeated,    *)
(* overlapping with other bytes, cut short by the snapshot length, or not  *)
(* at all.  A stored interval names the packet its bytes came from rather  *)
(* than copying them.  Ranges are [lo, hi], both ends included.            *)
(***************************************************************************)
EXTENDS Integers, Sequences, FiniteSets

CONSTANTS
    Modulus,        \* SEQ_MODULUS, 2^32 in the code
    Isn,            \* the sender's initial sequence number
    Positions,      \* stream positions a captured segment may start at
    AckPositions,   \* stream positions the peer may acknowledge
    Payloads,       \* byte sequences, not empty, a captured segment may carry
    CutTails,       \* how many declared bytes a snapshot length may cut off
    OtherTakes,     \* amounts other streams take from the shared budgets
    MaxPackets,     \* bound: segments with payload in the capture
    MaxSegments,    \* max_segments_per_direction
    MaxGaps,        \* max_gaps_per_direction
    SessionLimit,   \* max_session_payload_bytes
    GlobalLimit,    \* max_total_payload_bytes
    None            \* Python's None

ASSUME SpaceAssumption == Modulus \in Nat \ {0} /\ Isn \in 0..(Modulus - 1)
ASSUME CaptureAssumption ==
    /\ Positions \subseteq Nat /\ AckPositions \subseteq Nat
    /\ \A d \in Payloads : d \in Seq(Nat) /\ d # <<>>
    /\ CutTails \subseteq Nat /\ OtherTakes \subseteq Nat
    /\ MaxPackets \in Nat
ASSUME LimitAssumption ==
    /\ MaxSegments \in Nat /\ MaxGaps \in Nat
    /\ SessionLimit \in Nat /\ GlobalLimit \in Nat
ASSUME NoneAssumption == None \notin Int /\ None \notin [seq : Int, ext : Int]

VARIABLES
    space,        \* SequenceSpace: the high-water mark as [seq, ext], or None
    syn,          \* _syn_ext
    intervals,    \* _intervals: [lo, hi, packet]
    conflicts,    \* _conflicts: [lo, hi, accepted, conflicting]
    dropped,      \* the bytes of _limit_dropped
    notCaptured,  \* the bytes of _not_captured
    truncated,    \* truncated_by_limit
    peerAck,      \* _peer_ack_ext
    sessionUsed,  \* _session_budget.used, shared with the other direction
    globalUsed,   \* _global_budget.used, shared with every session
    log,          \* observed: the segments with payload, in capture order
    origin,       \* stream position of the first packet seen
    mark,         \* stream position of the high-water mark
    acked         \* highest stream position the peer acknowledged

store == <<intervals, conflicts, dropped, truncated, sessionUsed, globalUsed>>
vars == <<space, syn, intervals, conflicts, dropped, notCaptured,
          truncated, peerAck, sessionUsed, globalUsed,
          log, origin, mark, acked>>

-----------------------------------------------------------------------------
(* Sequence numbers *)

Forward(s, seq) == (seq - s.seq) % Modulus
Backward(s, seq) == (s.seq - seq) % Modulus

(* Defect: raw sequence numbers are compared.                               *)
ProjectRaw(s, seq) == s.ext + (seq - s.seq)

Project(s, seq) ==
    IF Forward(s, seq) <= Backward(s, seq)
    THEN s.ext + Forward(s, seq)
    ELSE s.ext - Backward(s, seq)

(* extend(): the mark follows only a number that is ahead of it. *)
Extend(s, seq) ==
    IF Forward(s, seq) <= Backward(s, seq)
    THEN [seq |-> seq, ext |-> Project(s, seq)]
    ELSE s

SeqOf(pos) == (Isn + pos) % Modulus

(* TCP's window: what the sender emits is nearer to the mark than half the  *)
(* number space.                                                            *)
InWindow(pos) ==
    space # None => 2 * (pos - mark) \in (1 - Modulus)..Modulus

-----------------------------------------------------------------------------
(* Ranges and what is stored *)

Bytes(r) == r.lo..r.hi
BytesOf(ranges) == UNION {Bytes(r) : r \in ranges}
Held == BytesOf(intervals)

(* The maximal runs of consecutive numbers in S. *)
Runs(S) ==
    {r \in [lo : S, hi : S] : /\ Bytes(r) # {}
                              /\ Bytes(r) \subseteq S
                              /\ r.lo - 1 \notin S
                              /\ r.hi + 1 \notin S}

Segment(start, data) == start..(start + Len(data) - 1)
ByteAt(p, n) == p.data[n - p.start + 1]

Least(a, b) == IF a <= b THEN a ELSE b
Greatest(a, b) == IF a <= b THEN b ELSE a

(* Defect: the stored interval that begins before the segment is missed.    *)
DisputedLater(p) ==
    {i \in intervals : /\ i.lo >= p.start
                       /\ \E b \in Bytes(i) \cap Segment(p.start, p.data) :
                            ByteAt(log[i.packet], b) # ByteAt(p, b)}

(* The stored intervals a segment disagrees with, and the record of one.    *)
Disputed(p) ==
    {i \in intervals : \E b \in Bytes(i) \cap Segment(p.start, p.data) :
                         ByteAt(log[i.packet], b) # ByteAt(p, b)}
Conflict(i, p, n) ==
    [lo |-> Greatest(i.lo, p.start),
     hi |-> Least(i.hi, p.start + Len(p.data) - 1),
     accepted |-> i.packet, conflicting |-> n]

(* Defect: bytes that are already stored are stored again.                  *)
NewBytesAll(p) == Segment(p.start, p.data)

NewBytes(p) == Segment(p.start, p.data) \ Held

(* Defect: only the budget of the session is asked.                         *)
GrantedBySession(amount) == Least(SessionLimit - sessionUsed, amount)

(* _grant(): what both budgets still allow. *)
Granted(amount) ==
    Least(Least(SessionLimit - sessionUsed, GlobalLimit - globalUsed), amount)

(* The first n elements of S, in order. *)
IsPrefix(P, S, n) ==
    /\ Cardinality(P) = n
    /\ \A a \in P, b \in S \ P : a < b

(* The segment limit refuses all a packet adds, or nothing of it. *)
NoRoom(kept) == Cardinality(intervals) + Cardinality(Runs(kept)) > MaxSegments

(* Defect: what the segment limit refuses is forgotten.                     *)
RefusedByBudget(new, kept) == new \ kept

Refused(new, kept) == IF NoRoom(kept) THEN new ELSE new \ kept

-----------------------------------------------------------------------------
Init ==
    /\ space = None /\ syn = None
    /\ intervals = {} /\ conflicts = {} /\ dropped = {} /\ notCaptured = {}
    /\ truncated = FALSE
    /\ peerAck = None
    /\ sessionUsed = 0 /\ globalUsed = 0
    /\ log = <<>> /\ origin = None /\ mark = None /\ acked = None

(* The part of observe() every packet reaches: its sequence number moves    *)
(* the mark, its flags are recorded.  The sender's SYN is position 0.       *)
Header(pos, ext) ==
    /\ space' = IF space = None THEN [seq |-> SeqOf(pos), ext |-> 0]
                ELSE Extend(space, SeqOf(pos))
    /\ syn' = IF pos = 0 /\ syn = None THEN ext ELSE syn
    /\ origin' = IF space = None THEN pos ELSE origin
    /\ mark' = IF space = None \/ pos > mark THEN pos ELSE mark

ExtOf(pos) == IF space = None THEN 0 ELSE Project(space, SeqOf(pos))

(* observe() of a packet without payload. *)
ObserveEmpty(pos) ==
    /\ InWindow(pos)
    /\ Header(pos, ExtOf(pos))
    /\ UNCHANGED <<store, notCaptured, peerAck, log, acked>>

(* _insert(): compare with what is stored, take from the budgets, keep the  *)
(* granted prefix of the new bytes unless the segment limit forbids it.     *)
Insert(p) ==
    LET n == Len(log) + 1
        new == NewBytes(p)
        granted == Granted(Cardinality(new))
    IN \E kept \in SUBSET new :
         /\ IsPrefix(kept, new, granted)
         /\ intervals' = IF NoRoom(kept) THEN intervals
                         ELSE intervals \cup
                              {[lo |-> r.lo, hi |-> r.hi, packet |-> n] : r \in Runs(kept)}
         /\ dropped' = dropped \cup Refused(new, kept)
         /\ truncated' = (truncated \/ Refused(new, kept) # {})
         /\ conflicts' = conflicts \cup {Conflict(i, p, n) : i \in Disputed(p)}
         /\ sessionUsed' = sessionUsed + granted
         /\ globalUsed' = globalUsed + granted

(* observe() of a packet that carries data, after the SYN if it has one;    *)
(* cut bytes of it were declared but not captured.                          *)
ObservePayload(pos, data, cut) ==
    LET start == ExtOf(pos) + (IF pos = 0 THEN 1 ELSE 0)
        at == pos + (IF pos = 0 THEN 1 ELSE 0)
        tail == start + Len(data)
        p == [start |-> start, at |-> at, data |-> data, cut |-> cut]
    IN /\ Len(log) < MaxPackets
       /\ InWindow(pos)
       /\ Header(pos, ExtOf(pos))
       /\ notCaptured' = notCaptured \cup (tail..(tail + cut - 1))
       /\ Insert(p)
       /\ log' = Append(log, p)
       /\ UNCHANGED <<peerAck, acked>>

(* note_peer_ack(): the other side acknowledges everything before pos. *)
NotePeerAck(pos) ==
    /\ space # None
    /\ InWindow(pos)
    /\ LET ext == Project(space, SeqOf(pos))
       IN peerAck' = IF peerAck = None \/ ext > peerAck THEN ext ELSE peerAck
    /\ acked' = IF acked = None \/ pos > acked THEN pos ELSE acked
    /\ UNCHANGED <<space, syn, store, notCaptured, log, origin, mark>>

(* The other direction of the session takes n bytes of both budgets, or     *)
(* another session takes them of the global one.                            *)
OtherStreamTakes(n, sameSession) ==
    /\ globalUsed + n <= GlobalLimit
    /\ sameSession => sessionUsed + n <= SessionLimit
    /\ globalUsed' = globalUsed + n
    /\ sessionUsed' = IF sameSession THEN sessionUsed + n ELSE sessionUsed
    /\ UNCHANGED <<space, syn, intervals, conflicts, dropped, notCaptured,
                   truncated, peerAck, log, origin, mark, acked>>

Next ==
    \/ \E pos \in Positions : ObserveEmpty(pos)
    \/ \E pos \in Positions, data \in Payloads, cut \in CutTails :
         ObservePayload(pos, data, cut)
    \/ \E pos \in AckPositions : NotePeerAck(pos)
    \/ \E n \in OtherTakes, sameSession \in BOOLEAN : OtherStreamTakes(n, sameSession)

Spec == Init /\ [][Next]_vars

-----------------------------------------------------------------------------
(* What finalize() reports *)

First == CHOOSE b \in Held : \A c \in Held : b <= c

(* Defect: what no packet stored is not claimed.                            *)
ClaimedHeld == Held

Claimed == Held \cup dropped \cup notCaptured

(* The walk of _build_gaps(): from the first stored byte to the last byte   *)
(* claimed, at most MaxGaps of them.                                        *)
Holes ==
    Runs({b \in First..(CHOOSE b \in Claimed : \A c \in Claimed : b >= c) : b \notin Held})
Gaps ==
    IF intervals = {} THEN {}
    ELSE {g \in Holes : Cardinality({h \in Holes : h.lo < g.lo}) < MaxGaps}

(* Defect: the limit is blamed first.                                       *)
ReasonLimitFirst(g) ==
    IF Bytes(g) \cap dropped # {} THEN "LIMIT_EXCEEDED"
    ELSE IF Bytes(g) \cap notCaptured # {} THEN "NOT_CAPTURED"
    ELSE "MISSING_SEGMENT"

Reason(g) ==
    IF Bytes(g) \cap notCaptured # {} THEN "NOT_CAPTURED"
    ELSE IF Bytes(g) \cap dropped # {} THEN "LIMIT_EXCEEDED"
    ELSE "MISSING_SEGMENT"

-----------------------------------------------------------------------------
(* Properties *)

(* Every variable has its type, and a stored interval is never empty. *)
ReassemblyTypeOK ==
    /\ space \in {None} \cup [seq : 0..(Modulus - 1), ext : Int]
    /\ syn \in {None} \cup Int
    /\ peerAck \in {None} \cup Int
    /\ \A i \in intervals : /\ i \in [lo : Int, hi : Int, packet : 1..Len(log)]
                            /\ i.lo <= i.hi
    /\ dropped \subseteq Int /\ notCaptured \subseteq Int
    /\ \A c \in conflicts :
         c \in [lo : Int, hi : Int, accepted : 1..Len(log), conflicting : 1..Len(log)]
    /\ truncated \in BOOLEAN
    /\ sessionUsed \in Nat /\ globalUsed \in Nat

(* network/seqspace.py:9-12.  However segments are reordered, repeated and  *)
(* wrapped around, every one of them, the SYN and the highest               *)
(* acknowledgement stand where the sender put them.                         *)
InPlace ==
    /\ \A k \in 1..Len(log) : log[k].start + origin = log[k].at
    /\ syn # None => syn + origin = 0
    /\ peerAck # None => peerAck + origin = acked

(* reassembly.py:13-18.  A byte of the stream is attributed to one packet,  *)
(* and that packet carried it.                                              *)
OneHolder ==
    /\ \A i, j \in intervals : i # j => Bytes(i) \cap Bytes(j) = {}
    /\ \A i \in intervals : Bytes(i) \subseteq Segment(log[i.packet].start, log[i.packet].data)

(* reassembly.py:20-25, FIRST_OBSERVED_WINS.  A packet that disagrees with  *)
(* an earlier holder of a byte is on record, and a holder that was not the  *)
(* first to carry the byte owes it to a limit that dropped the first.       *)
FirstObservedWins ==
    \A i \in intervals, k \in 1..Len(log) :
      \A b \in Bytes(i) \cap Segment(log[k].start, log[k].data) :
        /\ k < i.packet => b \in dropped
        /\ k > i.packet /\ ByteAt(log[k], b) # ByteAt(log[i.packet], b) =>
             \E c \in conflicts : /\ b \in Bytes(c)
                                  /\ c.accepted = i.packet
                                  /\ c.conflicting = k

(* Every byte the capture holds is in the stream or was dropped by a limit, *)
(* and then the stream is marked truncated.                                 *)
NothingLost ==
    /\ \A k \in 1..Len(log) :
         Segment(log[k].start, log[k].data) \subseteq Held \cup dropped
    /\ dropped # {} => truncated

(* budget.py, config.py.  What is stored was granted by both budgets, and   *)
(* neither they nor the segment limit is ever exceeded.                     *)
WithinLimits ==
    /\ Cardinality(Held) <= sessionUsed
    /\ sessionUsed <= globalUsed
    /\ sessionUsed <= SessionLimit
    /\ globalUsed <= GlobalLimit
    /\ Cardinality(intervals) <= MaxSegments

(* docs/evidence-model.md, GapReason.  A gap blamed on a missing segment    *)
(* holds no byte a captured packet carried or declared; one blamed on a     *)
(* limit holds a byte that was captured, one blamed on the snapshot length  *)
(* a byte that was declared and cut off.                                    *)
GapReasonsAreTrue ==
    LET Carried(k) == Segment(log[k].start, log[k].data)
        End(k) == log[k].start + Len(log[k].data)
        Cut(k) == End(k)..(End(k) + log[k].cut - 1)
        Some(Part(_), g) == \E k \in 1..Len(log) : Part(k) \cap Bytes(g) # {}
    IN \A g \in Gaps :
         /\ Reason(g) = "MISSING_SEGMENT" => ~Some(Carried, g) /\ ~Some(Cut, g)
         /\ Reason(g) = "LIMIT_EXCEEDED" => Some(Carried, g) /\ ~Some(Cut, g)
         /\ Reason(g) = "NOT_CAPTURED" => Some(Cut, g)

(* A byte after the first stored one that a captured packet carried or      *)
(* declared is in the stream or in a gap, unless the gap limit is reached.  *)
LaterBytesReported ==
    Cardinality(Gaps) < MaxGaps /\ intervals # {} =>
      \A k \in 1..Len(log) :
        LET p == log[k]
        IN {b \in p.start..(p.start + Len(p.data) + p.cut - 1) : b > First}
             \subseteq Held \cup BytesOf(Gaps)
=============================================================================
