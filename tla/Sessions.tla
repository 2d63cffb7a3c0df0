------------------------------ MODULE Sessions ------------------------------
(***************************************************************************)
(* The TCP session engine (network/sessions.py): which session of the      *)
(* report a captured packet belongs to.                                    *)
(*                                                                         *)
(* Packets are grouped by their normalised address pair.  A SYN on a pair  *)
(* that is in use may open a second session, a limit may refuse a          *)
(* connection, and a refused pair stays refused.  What the bytes of a      *)
(* session reconstruct to is module Reassembly's; here a packet with       *)
(* payload either leaves the streams whole, leaves a hole or a conflict in *)
(* them, or meets a limit.                                                 *)
(*                                                                         *)
(* The environment is the traffic: on each pair, connections follow each   *)
(* other, and the capture holds some of their packets.  Those of different *)
(* connections are in the order they were sent; within a connection a SYN  *)
(* may come again, and after packets that answer it: the first one may be  *)
(* missing from the capture, or the packets in another order.              *)
(***************************************************************************)
EXTENDS Integers, Sequences, FiniteSets, Functions

CONSTANTS
    Keys,           \* FlowKey: normalised address pairs
    MaxConnections, \* bound: connections that use one pair
    MaxPackets,     \* bound: packets in the capture
    MaxConcurrent,  \* max_concurrent_sessions
    MaxTotal        \* max_total_sessions

ASSUME TrafficAssumption == MaxConnections \in Nat /\ MaxPackets \in Nat
ASSUME SessionLimitAssumption == MaxConcurrent \in Nat /\ MaxTotal \in Nat

VARIABLES
    order,       \* _order: every session, in the order of creation
    active,      \* _active: index in order of the session of a pair, 0 if none
    refused,     \* _refused_keys
    refusedCount,\* refused_packet_count
    conn,        \* traffic: the connection a pair carries now, counted from 1
    stage,       \* traffic: how much of the present connection is in the capture
    captured,    \* traffic: the <<pair, connection>> that begin with their SYN
    late,        \* traffic: those with a SYN after something the engine acted on
    carried,     \* for each session, the connections its packets belong to
    seen         \* traffic: packets captured so far

engine == <<order, active, refused, refusedCount>>
traffic == <<conn, stage, captured, late, seen>>
vars == <<order, active, refused, refusedCount, conn, stage, captured, late, carried, seen>>

-----------------------------------------------------------------------------
(* A packet: sender "a" or "b", flags, and what its payload did. *)

Payload == {"none", "clean", "hole", "limit"}

IsSyn(p) == "SYN" \in p.flags /\ "ACK" \notin p.flags
IsSynAck(p) == "SYN" \in p.flags /\ "ACK" \in p.flags

Other(side) == IF side = "a" THEN "b" ELSE "a"

(* _termination() and closed. *)
Closed(s) == s.rst \/ s.fins = {"a", "b"}

(* What a packet starts as the first of a session.  Its sender is the       *)
(* client unless it answers; without a SYN either side may be taken for it. *)
NewSession(p, client) ==
    [key |-> p.key, client |-> client, syn |-> FALSE, synAck |-> FALSE, isn |-> 0,
     fins |-> {}, rst |-> FALSE, payload |-> FALSE, hole |-> FALSE, limited |-> FALSE,
     packets |-> 0]

RolesOf(p) ==
    IF IsSyn(p) THEN {p.from}
    ELSE IF IsSynAck(p) THEN {Other(p.from)}
    ELSE {"a", "b"}

(* _SessionState.observe(). *)
Observed(s, p) ==
    [s EXCEPT !.packets = @ + 1,
              !.isn = IF IsSyn(p) /\ ~s.syn THEN p.isn ELSE @,
              !.syn = @ \/ IsSyn(p),
              !.synAck = @ \/ IsSynAck(p),
              !.fins = IF "FIN" \in p.flags THEN @ \cup {p.from} ELSE @,
              !.rst = @ \/ "RST" \in p.flags,
              !.payload = @ \/ p.payload # "none",
              !.hole = @ \/ p.payload = "hole",
              !.limited = @ \/ p.payload = "limit"]

(* Defects: any SYN opens a session; only a midstream session makes way.    *)
AnySynStarts(s, p) == IsSyn(p)
OnlyMidstreamEnds(s, p) == IsSyn(p) /\ ~s.syn

(* _starts_new_connection(). *)
StartsNewConnection(s, p) ==
    /\ IsSyn(p)
    /\ \/ ~s.syn
       \/ p.isn # s.isn
       \/ s.payload \/ Closed(s) \/ s.fins # {}

(* open_session_count: the sessions still in the table that have not ended. *)
OpenCount(table) ==
    Cardinality({k \in Keys : table[k] # 0 /\ ~Closed(order[table[k]])})

HasCapacity(table) == OpenCount(table) < MaxConcurrent /\ Len(order) < MaxTotal

-----------------------------------------------------------------------------
(* TCPSessionEngine.observe() *)

(* Defect: a refusal is not remembered.                                     *)
NeverRefused(p) == FALSE

IsRefused(p) == p.key \in refused
NextSession == Len(order) + 1

Refuse(p) ==
    /\ IsRefused(p)
    /\ refusedCount' = refusedCount + 1
    /\ UNCHANGED <<order, active, refused, carried>>

(* The packet belongs to the session its pair has. *)
Continue(p) ==
    /\ ~IsRefused(p)
    /\ active[p.key] # 0
    /\ ~StartsNewConnection(order[active[p.key]], p)
    /\ order' = [order EXCEPT ![active[p.key]] = Observed(@, p)]
    /\ carried' = [carried EXCEPT ![active[p.key]] = @ \cup {conn[p.key]}]
    /\ UNCHANGED <<active, refused, refusedCount>>

(* The pair has no session, or the packet opens another connection on it:   *)
(* the old session is set aside whether or not the new one is admitted.     *)
Open(p) ==
    /\ ~IsRefused(p)
    /\ active[p.key] # 0 => StartsNewConnection(order[active[p.key]], p)
    /\ LET table == [active EXCEPT ![p.key] = 0]
       IN IF HasCapacity(table)
          THEN /\ \E client \in RolesOf(p) :
                    order' = Append(order, Observed(NewSession(p, client), p))
               /\ active' = [table EXCEPT ![p.key] = NextSession]
               /\ carried' = Append(carried, {conn[p.key]})
               /\ UNCHANGED <<refused, refusedCount>>
          ELSE /\ active' = table
               /\ refused' = refused \cup {p.key}
               /\ refusedCount' = refusedCount + 1
               /\ UNCHANGED <<order, carried>>

Observe(p) == Refuse(p) \/ Continue(p) \/ Open(p)

-----------------------------------------------------------------------------
Init ==
    /\ order = <<>> /\ carried = <<>>
    /\ active = [k \in Keys |-> 0]
    /\ refused = {} /\ refusedCount = 0
    /\ conn = [k \in Keys |-> 1]
    /\ stage = [k \in Keys |-> "new"]
    /\ captured = {} /\ late = {} /\ seen = 0

(* The present connection of a pair is "new" while the capture holds        *)
(* nothing of it, at its "syn" while it holds no data and no end after the  *)
(* last SYN, and otherwise "open", or "headless" if no SYN was captured.    *)
Stages == {"new", "syn", "open", "headless"}

(* The connections of a pair have different initial sequence numbers, and   *)
(* "a" opens them.                                                          *)
CaptureSyn(k) ==
    /\ seen < MaxPackets /\ seen' = seen + 1
    /\ stage' = [stage EXCEPT ![k] = "syn"]
    /\ captured' = IF stage[k] = "new" THEN captured \cup {<<k, conn[k]>>} ELSE captured
    /\ late' = IF stage[k] \in {"open", "headless"} THEN late \cup {<<k, conn[k]>>} ELSE late
    /\ Observe([key |-> k, from |-> "a", flags |-> {"SYN"}, isn |-> conn[k],
                payload |-> "none"])
    /\ UNCHANGED conn

CaptureLater(k, from, flags, payload) ==
    /\ seen < MaxPackets /\ seen' = seen + 1
    /\ "SYN" \in flags => from = "b" /\ payload = "none"
    /\ stage' = [stage EXCEPT ![k] =
                   CASE @ \in {"new", "headless"} -> "headless"
                     [] @ = "syn" /\ flags \subseteq {"SYN", "ACK"} /\ payload = "none" -> "syn"
                     [] OTHER -> "open"]
    /\ Observe([key |-> k, from |-> from, flags |-> flags, isn |-> 0, payload |-> payload])
    /\ UNCHANGED <<conn, captured, late>>

(* The pair is used again; the capture may hold any part of what follows.   *)
NextConnection(k) ==
    /\ conn[k] < MaxConnections
    /\ conn' = [conn EXCEPT ![k] = @ + 1]
    /\ stage' = [stage EXCEPT ![k] = "new"]
    /\ UNCHANGED <<engine, carried, captured, late, seen>>

LaterFlags == {{"SYN", "ACK"}, {"ACK"}, {"ACK", "FIN"}, {"RST"}}

Next ==
    \E k \in Keys :
      \/ CaptureSyn(k)
      \/ \E from \in {"a", "b"}, flags \in LaterFlags, payload \in Payload :
           CaptureLater(k, from, flags, payload)
      \/ NextConnection(k)

Spec == Init /\ [][Next]_vars

-----------------------------------------------------------------------------
(* finalize(): how a session is labelled. *)

Noted(s) == ~s.synAck \/ s.hole \/ ~Closed(s)

Completeness(s) ==
    IF s.limited THEN "TRUNCATED"
    ELSE IF ~s.syn THEN "MIDSTREAM"
    ELSE IF Noted(s) THEN "PARTIAL" ELSE "COMPLETE"

Sessions == 1..Len(order)
PacketCounts == [n \in Sessions |-> order[n].packets]

-----------------------------------------------------------------------------
(* Properties *)

(* Every variable has its type, and the session a pair has in the table is  *)
(* the newest of that pair.                                                 *)
SessionsTypeOK ==
    /\ \A n \in Sessions :
         /\ order[n].key \in Keys /\ order[n].client \in {"a", "b"}
         /\ order[n].isn \in 0..MaxConnections /\ order[n].fins \subseteq {"a", "b"}
         /\ order[n].packets \in 1..MaxPackets
    /\ \A k \in Keys :
         active[k] # 0 =>
           /\ active[k] \in Sessions /\ order[active[k]].key = k
           /\ \A n \in Sessions : order[n].key = k => n <= active[k]
    /\ refused \subseteq Keys /\ refusedCount \in 0..MaxPackets
    /\ Len(carried) = Len(order)

(* "Do not merge connections reusing a tuple" (requirements-matrix F3.2):   *)
(* a connection the capture holds from its SYN on is never added to the     *)
(* session of an earlier one.                                               *)
NeverMerged ==
    \A n \in Sessions : \A c, d \in carried[n] :
      c < d => <<order[n].key, d>> \notin captured

(* sessions.py:333-343.  A connection is not reported as two: a SYN sent    *)
(* again does not open another session.  Only one captured after data, an   *)
(* end, or a part of the connection without its SYN may.                    *)
NeverSplit ==
    \A m, n \in Sessions :
      m # n /\ order[m].key = order[n].key =>
        \A c \in carried[m] \cap carried[n] : <<order[m].key, c>> \in late

(* sessions.py:284-288.  A session that looks midstream is so because of    *)
(* the capture, not because a limit turned its SYN away.                    *)
MidstreamIsReal ==
    \A n \in Sessions :
      Completeness(order[n]) = "MIDSTREAM" =>
        \A c \in carried[n] : <<order[n].key, c>> \notin captured

(* sessions.py:335-336: "We joined midstream and now see a SYN: this must   *)
(* be a new connection on the same tuple."                                  *)
MidstreamSynIsNew ==
    \A m, n \in Sessions :
      m < n /\ order[m].key = order[n].key /\ ~order[m].syn => carried[m] \cap carried[n] = {}
=============================================================================
