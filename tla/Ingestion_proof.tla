--------------------------- MODULE Ingestion_proof ---------------------------
(***************************************************************************)
(* Proofs about the session engine and about reading a capture, for any    *)
(* file, any interfaces, any number of pairs, packets and connections and  *)
(* under any limits.  A connection captured from its SYN on is not merged  *)
(* into an earlier session, only one with a late SYN is split over two,    *)
(* and a session that looks midstream is so because of the capture.  What  *)
(* ingestion does to the sessions is what the session engine does, no      *)
(* frame is taken for another unless an oddity explains it, and what the   *)
(* file holds is accounted for to the packet.                              *)
(***************************************************************************)
EXTENDS Ingestion, Recursion, FiniteSetTheorems

-----------------------------------------------------------------------------
(* The inductive invariant.                                                 *)

Session ==
    [key : Keys, client : {"a", "b"}, syn : BOOLEAN, synAck : BOOLEAN, isn : Int,
     fins : SUBSET {"a", "b"}, rst : BOOLEAN, payload : BOOLEAN, hole : BOOLEAN,
     limited : BOOLEAN, packets : Int]

Typed ==
    /\ order \in Seq(Session)
    /\ carried \in Seq(SUBSET Nat) /\ Len(carried) = Len(order)
    /\ active \in [Keys -> Nat]
    /\ refused \subseteq Keys
    /\ conn \in [Keys -> Nat]
    /\ stage \in [Keys -> Stages]
    /\ captured \subseteq Keys \X Nat /\ late \subseteq Keys \X Nat
    /\ seen \in Nat /\ refusedCount \in Nat

(* The table names the newest session of a pair, and forgets one only when  *)
(* the pair is refused.                                                     *)
TableInv ==
    /\ \A k \in Keys : active[k] # 0 => active[k] \in Sessions /\ order[active[k]].key = k
    /\ \A n \in Sessions :
         /\ n <= active[order[n].key] \/ order[n].key \in refused
         /\ active[order[n].key] # 0 => n <= active[order[n].key]

(* The sessions of a pair carry its connections in order; two share one     *)
(* only if a SYN of it came late.                                           *)
CarriedInv ==
    /\ \A n \in Sessions :
         carried[n] # {} /\ \A c \in carried[n] : c <= conn[order[n].key]
    /\ \A m, n \in Sessions :
         m < n /\ order[m].key = order[n].key =>
           \A c \in carried[m], d \in carried[n] :
             c < d \/ (c = d /\ <<order[n].key, c>> \in late)

(* A session with a SYN began with that of its initial sequence number.     *)
SynInv ==
    \A n \in Sessions : order[n].syn => \A c \in carried[n] : order[n].isn <= c

(* While a connection is at its SYN, the session of the pair began with     *)
(* that SYN and holds neither data nor an end.                              *)
Fresh(s, c) ==
    s.syn /\ s.isn = c /\ ~s.payload /\ s.fins = {} /\ ~s.rst

FreshInv ==
    \A k \in Keys :
      stage[k] = "syn" /\ k \notin refused =>
        active[k] # 0 /\ Fresh(order[active[k]], conn[k])

(* No session carries a connection of which nothing is captured.            *)
NewInv ==
    \A n \in Sessions : stage[order[n].key] = "new" => conn[order[n].key] \notin carried[n]

(* What is captured has been sent, and the session of a pair begins with    *)
(* the SYN of the present connection if that is captured.                   *)
CapturedInv ==
    /\ \A k \in Keys, c \in Nat : <<k, c>> \in captured => c <= conn[k]
    /\ \A k \in Keys :
         <<k, conn[k]>> \in captured /\ k \notin refused =>
           active[k] # 0 /\ order[active[k]].syn /\ order[active[k]].isn = conn[k]

(* A session without a SYN carries no connection whose SYN is captured.     *)
UnstartedInv ==
    \A n \in Sessions :
      ~order[n].syn => \A c \in carried[n] : <<order[n].key, c>> \notin captured

SessionIInv ==
    /\ Typed /\ TableInv /\ CarriedInv /\ SynInv /\ FreshInv /\ NewInv
    /\ CapturedInv /\ UnstartedInv /\ NeverMerged

-----------------------------------------------------------------------------
(* What a packet does to a session and to the table.                        *)

Packet ==
    [key : Keys, from : {"a", "b"}, flags : SUBSET {"SYN", "ACK", "FIN", "RST"},
     isn : Nat, payload : Payload]

LEMMA ObservedSession ==
    ASSUME NEW s \in Session, NEW p \in Packet
    PROVE  LET t == Observed(s, p)
           IN  /\ t \in Session /\ t.key = s.key
               /\ t.syn <=> s.syn \/ IsSyn(p)
               /\ t.isn = IF IsSyn(p) /\ ~s.syn THEN p.isn ELSE s.isn
               /\ t.fins = IF "FIN" \in p.flags THEN s.fins \cup {p.from} ELSE s.fins
               /\ t.rst <=> s.rst \/ "RST" \in p.flags
               /\ t.payload <=> s.payload \/ p.payload # "none"
<1> DEFINE t == Observed(s, p)
<1>1. /\ p.isn \in Nat /\ p.from \in {"a", "b"} /\ s.fins \in SUBSET {"a", "b"}
      /\ s.isn \in Int /\ s.packets \in Int
  BY DEF Session, Packet
<1>2. t \in Session
  <2> DEFINE packets == s.packets + 1
             isn == IF IsSyn(p) /\ ~s.syn THEN p.isn ELSE s.isn
             syn == s.syn \/ IsSyn(p)
             synAck == s.synAck \/ IsSynAck(p)
             fins == IF "FIN" \in p.flags THEN s.fins \cup {p.from} ELSE s.fins
             rst == s.rst \/ "RST" \in p.flags
             payload == s.payload \/ p.payload # "none"
             hole == s.hole \/ p.payload = "hole"
             limited == s.limited \/ p.payload = "limit"
  <2>1. /\ packets \in Int /\ isn \in Int /\ fins \in SUBSET {"a", "b"}
        /\ syn \in BOOLEAN /\ synAck \in BOOLEAN /\ rst \in BOOLEAN
        /\ payload \in BOOLEAN /\ hole \in BOOLEAN /\ limited \in BOOLEAN
    BY <1>1
  <2>2. t = [s EXCEPT !.packets = packets, !.isn = isn, !.syn = syn, !.synAck = synAck,
                      !.fins = fins, !.rst = rst, !.payload = payload, !.hole = hole,
                      !.limited = limited]
    BY DEF Observed
  <2> DEFINE r == [key |-> s.key, client |-> s.client, syn |-> syn, synAck |-> synAck,
                   isn |-> isn, fins |-> fins, rst |-> rst, payload |-> payload,
                   hole |-> hole, limited |-> limited, packets |-> packets]
  <2> HIDE DEF t, packets, isn, syn, synAck, fins, rst, payload, hole, limited
  <2>3. t = r
    BY <2>1, <2>2 DEF Session
  <2>4. r \in Session
    BY <2>1 DEF Session
  <2> QED
    BY <2>3, <2>4
<1>3. t.key = s.key
  BY DEF Observed, Session
<1>4. t.syn <=> s.syn \/ IsSyn(p)
  BY DEF Observed, Session
<1>5. t.isn = IF IsSyn(p) /\ ~s.syn THEN p.isn ELSE s.isn
  BY DEF Observed, Session
<1>6. t.fins = IF "FIN" \in p.flags THEN s.fins \cup {p.from} ELSE s.fins
  BY DEF Observed, Session
<1>7. t.rst <=> s.rst \/ "RST" \in p.flags
  BY DEF Observed, Session
<1>8. t.payload <=> s.payload \/ p.payload # "none"
  BY DEF Observed, Session
<1> QED
  BY <1>2, <1>3, <1>4, <1>5, <1>6, <1>7, <1>8

LEMMA NewSessionTyped ==
    ASSUME NEW p \in Packet, NEW client \in RolesOf(p)
    PROVE  LET s == NewSession(p, client)
           IN  /\ s \in Session /\ s.key = p.key /\ s.isn = 0
               /\ ~s.syn /\ ~s.rst /\ ~s.payload /\ s.fins = {}
  BY DEF NewSession, RolesOf, Other, Session, Packet

(* A packet of an open session changes that session only.                   *)
LEMMA ContinueEffect ==
    ASSUME SessionIInv, NEW p \in Packet, Continue(p)
    PROVE  LET a == active[p.key]
           IN  /\ a \in Sessions /\ order[a] \in Session /\ order[a].key = p.key
               /\ p.key \notin refused /\ ~StartsNewConnection(order[a], p)
               /\ order' \in Seq(Session) /\ Len(order') = Len(order)
               /\ carried' \in Seq(SUBSET Nat) /\ Len(carried') = Len(carried)
               /\ order'[a] = Observed(order[a], p)
               /\ carried'[a] = carried[a] \cup {conn[p.key]}
               /\ \A n \in Sessions :
                    n # a => order'[n] = order[n] /\ carried'[n] = carried[n]
               /\ \A n \in Sessions : order'[n].key = order[n].key
               /\ UNCHANGED <<active, refused, refusedCount>>
<1> DEFINE a == active[p.key]
<1>1. p.key \in Keys
  BY DEF Packet
<1>2. a \in Sessions /\ order[a].key = p.key
  BY <1>1 DEF Continue, SessionIInv, TableInv
<1>3. order[a] \in Session /\ Sessions = 1..Len(order) /\ Len(order) \in Nat
  BY <1>2 DEF Sessions, SessionIInv, Typed
<1>4. Observed(order[a], p) \in Session /\ Observed(order[a], p).key = p.key
  BY <1>2, <1>3, ObservedSession
<1>5. /\ order' = [order EXCEPT ![a] = Observed(order[a], p)]
      /\ carried' = [carried EXCEPT ![a] = carried[a] \cup {conn[p.key]}]
  BY DEF Continue
<1>6. order' \in Seq(Session) /\ Len(order') = Len(order)
  BY <1>2, <1>3, <1>4, <1>5 DEF SessionIInv, Typed
<1>7. carried' \in Seq(SUBSET Nat) /\ Len(carried') = Len(carried)
  BY <1>1, <1>2, <1>3, <1>5 DEF SessionIInv, Typed
<1>8. order'[a] = Observed(order[a], p) /\ carried'[a] = carried[a] \cup {conn[p.key]}
  BY <1>2, <1>3, <1>5 DEF SessionIInv, Typed
<1>9. \A n \in Sessions : n # a => order'[n] = order[n] /\ carried'[n] = carried[n]
  BY <1>2, <1>3, <1>5 DEF SessionIInv, Typed
<1> QED
  BY <1>2, <1>3, <1>4, <1>6, <1>7, <1>8, <1>9 DEF Continue, IsRefused

(* A packet that opens a session either gets it, at the end of the list and *)
(* in the table, or turns the pair into a refused one.                      *)
Admitted(p) ==
    /\ order' \in Seq(Session) /\ Len(order') = Len(order) + 1
    /\ carried' \in Seq(SUBSET Nat) /\ Len(carried') = Len(carried) + 1
    /\ \A n \in Sessions : order'[n] = order[n] /\ carried'[n] = carried[n]
    /\ LET s == order'[Len(order) + 1]
       IN  /\ s \in Session /\ s.key = p.key /\ (s.syn <=> IsSyn(p))
           /\ s.isn = IF IsSyn(p) THEN p.isn ELSE 0
           /\ s.fins = IF "FIN" \in p.flags THEN {p.from} ELSE {}
           /\ (s.rst <=> "RST" \in p.flags) /\ (s.payload <=> p.payload # "none")
    /\ carried'[Len(order) + 1] = {conn[p.key]}
    /\ active' = [active EXCEPT ![p.key] = Len(order) + 1]
    /\ UNCHANGED <<refused, refusedCount>>

TurnedAway(p) ==
    /\ active' = [active EXCEPT ![p.key] = 0]
    /\ refused' = refused \cup {p.key}
    /\ refusedCount' = refusedCount + 1
    /\ UNCHANGED <<order, carried>>

LEMMA OpenEffect ==
    ASSUME SessionIInv, NEW p \in Packet, Open(p)
    PROVE  /\ p.key \notin refused
           /\ active[p.key] # 0 => StartsNewConnection(order[active[p.key]], p)
           /\ Admitted(p) \/ TurnedAway(p)
<1>1. p.key \in Keys
  BY DEF Packet
<1>2. ASSUME NEW client \in RolesOf(p),
             order' = Append(order, Observed(NewSession(p, client), p)),
             active' = [[active EXCEPT ![p.key] = 0] EXCEPT ![p.key] = NextSession],
             carried' = Append(carried, {conn[p.key]}),
             UNCHANGED <<refused, refusedCount>>
      PROVE  Admitted(p)
  <2> DEFINE s == Observed(NewSession(p, client), p)
  <2>1. /\ s \in Session /\ s.key = p.key /\ (s.syn <=> IsSyn(p))
        /\ s.isn = IF IsSyn(p) THEN p.isn ELSE 0
        /\ s.fins = IF "FIN" \in p.flags THEN {p.from} ELSE {}
        /\ (s.rst <=> "RST" \in p.flags) /\ (s.payload <=> p.payload # "none")
    <3> DEFINE new == NewSession(p, client)
    <3>1. /\ new \in Session /\ new.key = p.key /\ new.isn = 0
          /\ ~new.syn /\ ~new.rst /\ ~new.payload /\ new.fins = {}
      BY NewSessionTyped
    <3>2. s = Observed(new, p)
      OBVIOUS
    <3> HIDE DEF new, s
    <3> QED
      BY <3>1, <3>2, ObservedSession
  <2> HIDE DEF s
  <2>2. order' = Append(order, s)
    BY <1>2 DEF s
  <2>3. order \in Seq(Session) /\ carried \in Seq(SUBSET Nat) /\ Len(carried) = Len(order)
        /\ {conn[p.key]} \in SUBSET Nat /\ active \in [Keys -> Nat]
    BY <1>1 DEF SessionIInv, Typed
  <2>4. /\ order' \in Seq(Session) /\ Len(order') = Len(order) + 1
        /\ order'[Len(order) + 1] = s
        /\ \A n \in Sessions : order'[n] = order[n]
    BY <2>1, <2>2, <2>3 DEF Sessions
  <2>5. /\ carried' \in Seq(SUBSET Nat) /\ Len(carried') = Len(carried) + 1
        /\ carried'[Len(order) + 1] = {conn[p.key]}
        /\ \A n \in Sessions : carried'[n] = carried[n]
    BY <1>2, <2>3 DEF Sessions
  <2>6. active' = [active EXCEPT ![p.key] = Len(order) + 1]
    BY <1>1, <1>2, <2>3 DEF NextSession
  <2> QED
    BY <1>2, <2>1, <2>4, <2>5, <2>6 DEF Admitted
<1>3. CASE HasCapacity([active EXCEPT ![p.key] = 0])
  BY <1>2, <1>3 DEF Open, IsRefused
<1>4. CASE ~HasCapacity([active EXCEPT ![p.key] = 0])
  BY <1>4 DEF Open, IsRefused, TurnedAway
<1> QED
  BY <1>3, <1>4

-----------------------------------------------------------------------------
(* The three kinds of step.                                                 *)

LEMMA SessionFacts ==
    ASSUME SessionIInv
    PROVE  /\ Len(order) \in Nat /\ Sessions = 1..Len(order) /\ Sessions \subseteq Nat
           /\ conn \in [Keys -> Nat]
           /\ \A n \in Sessions : /\ order[n] \in Session /\ order[n].key \in Keys
                                  /\ order[n].isn \in Int /\ order[n].syn \in BOOLEAN
                                  /\ carried[n] \subseteq Nat
                                  /\ conn[order[n].key] \in Nat
<1>1. Len(order) \in Nat /\ Sessions = 1..Len(order) /\ conn \in [Keys -> Nat]
  BY DEF SessionIInv, Typed, Sessions
<1>2. \A n \in Sessions : order[n] \in Session /\ carried[n] \in SUBSET Nat
  BY DEF SessionIInv, Typed, Sessions
<1>3. \A s \in Session : s.key \in Keys /\ s.isn \in Int /\ s.syn \in BOOLEAN
  BY DEF Session
<1> QED
  BY <1>1, <1>2, <1>3

SynPacket(k) ==
    [key |-> k, from |-> "a", flags |-> {"SYN"}, isn |-> conn[k], payload |-> "none"]

LEMMA SynPacketTyped ==
    ASSUME Typed, NEW k \in Keys
    PROVE  /\ SynPacket(k) \in Packet /\ SynPacket(k).key = k
           /\ SynPacket(k).isn = conn[k] /\ SynPacket(k).payload = "none"
           /\ IsSyn(SynPacket(k))
           /\ "FIN" \notin SynPacket(k).flags /\ "RST" \notin SynPacket(k).flags
<1>1. conn[k] \in Nat
  BY DEF Typed
<1> QED
  BY <1>1 DEF SynPacket, Packet, IsSyn, Payload

(* A SYN: the first packet of the connection the pair carries, or one sent  *)
(* again.                                                                   *)
LEMMA SynStep ==
    ASSUME SessionIInv, NEW k \in Keys, CaptureSyn(k)
    PROVE  SessionIInv'
<1> DEFINE p == SynPacket(k)
           a == active[k]
           new == Len(order) + 1
<1>1. /\ p \in Packet /\ p.key = k /\ p.isn = conn[k] /\ IsSyn(p)
      /\ p.payload = "none" /\ "FIN" \notin p.flags /\ "RST" \notin p.flags
  BY SynPacketTyped DEF SessionIInv
<1>2. /\ stage' = [stage EXCEPT ![k] = "syn"] /\ seen' \in Nat /\ UNCHANGED conn
      /\ captured' = IF stage[k] = "new" THEN captured \cup {<<k, conn[k]>>} ELSE captured
      /\ late' = IF stage[k] \in {"open", "headless"} THEN late \cup {<<k, conn[k]>>} ELSE late
      /\ Observe(p)
  BY DEF CaptureSyn, SynPacket, SessionIInv, Typed
<1> HIDE DEF p
<1>3. /\ Len(order) \in Nat /\ Sessions = 1..Len(order) /\ Sessions \subseteq Nat
      /\ conn \in [Keys -> Nat] /\ conn[k] \in Nat
      /\ \A n \in Sessions : /\ order[n] \in Session /\ order[n].key \in Keys
                             /\ order[n].isn \in Int /\ order[n].syn \in BOOLEAN
                             /\ carried[n] \subseteq Nat
                             /\ conn[order[n].key] \in Nat
  BY SessionFacts
<1>a. /\ stage' \in [Keys -> Stages] /\ stage[k] \in Stages /\ stage'[k] = "syn"
      /\ \A l \in Keys : l # k => stage'[l] = stage[l]
  BY <1>2 DEF SessionIInv, Typed, Stages
<1>b. /\ captured' \subseteq Keys \X Nat /\ late' \subseteq Keys \X Nat
      /\ captured \subseteq captured' /\ late \subseteq late'
      /\ captured' \subseteq captured \cup {<<k, conn[k]>>}
  BY <1>2, <1>3 DEF SessionIInv, Typed
<1>c. captured' # captured =>
        \A n \in Sessions : order[n].key = k => conn[k] \notin carried[n]
  BY <1>2 DEF SessionIInv, NewInv
<1>4. CASE Refuse(p)
  <2>1. /\ k \in refused /\ UNCHANGED <<order, active, refused, carried>>
        /\ refusedCount' = refusedCount + 1 /\ Sessions' = Sessions
    BY <1>1, <1>4 DEF Refuse, IsRefused, Sessions
  <2>2. Typed'
    BY <1>2, <1>a, <1>b, <2>1 DEF SessionIInv, Typed
  <2>3. TableInv' /\ SynInv'
    BY <1>2, <2>1 DEF SessionIInv, TableInv, SynInv
  <2>4. CarriedInv'
    BY <1>2, <1>b, <2>1 DEF SessionIInv, CarriedInv
  <2>5. FreshInv'
    BY <1>2, <1>a, <2>1 DEF SessionIInv, FreshInv, Fresh
  <2>6. NewInv'
    BY <1>2, <1>3, <1>a, <2>1 DEF SessionIInv, NewInv
  <2>7. CapturedInv'
    BY <1>2, <1>3, <1>b, <2>1 DEF SessionIInv, CapturedInv
  <2>8. UnstartedInv' /\ NeverMerged'
    <3> SUFFICES ASSUME NEW n \in Sessions
                 PROVE  /\ ~order[n].syn => \A c \in carried[n] : <<order[n].key, c>> \notin captured'
                        /\ \A c, d \in carried[n] : c < d => <<order[n].key, d>> \notin captured'
      BY <2>1 DEF UnstartedInv, NeverMerged
    <3>1. \A c \in carried[n] : <<order[n].key, c>> \in captured' => <<order[n].key, c>> \in captured
      BY <1>b, <1>c
    <3> QED
      BY <3>1 DEF SessionIInv, UnstartedInv, NeverMerged
  <2> QED
    BY <2>2, <2>3, <2>4, <2>5, <2>6, <2>7, <2>8 DEF SessionIInv
<1>5. CASE Continue(p)
  <2>1. /\ a \in Sessions /\ order[a] \in Session /\ order[a].key = k
        /\ k \notin refused /\ ~StartsNewConnection(order[a], p)
        /\ order' \in Seq(Session) /\ Len(order') = Len(order)
        /\ carried' \in Seq(SUBSET Nat) /\ Len(carried') = Len(carried)
        /\ order'[a] = Observed(order[a], p) /\ carried'[a] = carried[a] \cup {conn[k]}
        /\ \A n \in Sessions : n # a => order'[n] = order[n] /\ carried'[n] = carried[n]
        /\ \A n \in Sessions : order'[n].key = order[n].key
        /\ UNCHANGED <<active, refused, refusedCount>>
    BY <1>1, <1>5, ContinueEffect
  <2>2. /\ order[a].syn /\ order[a].isn = conn[k] /\ ~order[a].payload
        /\ order[a].fins = {} /\ ~order[a].rst
    BY <1>1, <2>1 DEF StartsNewConnection, Closed
  <2>3. /\ order'[a].syn /\ order'[a].isn = conn[k] /\ ~order'[a].payload
        /\ order'[a].fins = {} /\ ~order'[a].rst
    <3> DEFINE s == order[a]
               t == Observed(s, p)
    <3>1. /\ t.syn <=> s.syn \/ IsSyn(p)
          /\ t.isn = IF IsSyn(p) /\ ~s.syn THEN p.isn ELSE s.isn
          /\ t.fins = IF "FIN" \in p.flags THEN s.fins \cup {p.from} ELSE s.fins
          /\ t.rst <=> s.rst \/ "RST" \in p.flags
          /\ t.payload <=> s.payload \/ p.payload # "none"
      BY <1>1, <2>1, ObservedSession
    <3>2. order'[a] = t
      BY <2>1
    <3> HIDE DEF t
    <3> QED
      BY <1>1, <2>2, <3>1, <3>2
  <2>4. Sessions' = Sessions
    BY <2>1 DEF Sessions
  <2>5. carried[a] = {conn[k]} /\ carried'[a] = {conn[k]}
    BY <1>3, <2>1, <2>2 DEF SessionIInv, SynInv, CarriedInv
  <2>5a. captured' = captured
    BY <1>c, <2>1, <2>5
  <2>6. Typed'
    BY <1>2, <1>a, <1>b, <2>1 DEF SessionIInv, Typed
  <2>7. TableInv'
    BY <2>1, <2>4 DEF SessionIInv, TableInv
  <2>8. CarriedInv'
    <3>1. \A n \in Sessions : carried'[n] = carried[n] /\ order'[n].key = order[n].key
      BY <2>1, <2>5
    <3> QED
      BY <1>2, <1>b, <2>4, <3>1 DEF SessionIInv, CarriedInv
  <2>9. SynInv'
    <3> SUFFICES ASSUME NEW n \in Sessions
                 PROVE  order'[n].syn => \A c \in carried'[n] : order'[n].isn <= c
      BY <2>4 DEF SynInv
    <3>1. CASE n = a
      <4>1. order'[n].isn = conn[k] /\ carried'[n] = {conn[k]} /\ conn[k] <= conn[k]
        BY <1>3, <2>3, <2>5, <3>1
      <4> QED
        BY <4>1
    <3>2. CASE n # a
      BY <2>1, <3>2 DEF SessionIInv, SynInv
    <3> QED
      BY <3>1, <3>2
  <2>9a. FreshInv'
    <3> SUFFICES ASSUME NEW l \in Keys, stage'[l] = "syn", l \notin refused
                 PROVE  active[l] # 0 /\ Fresh(order'[active[l]], conn[l])
      BY <1>2, <2>1 DEF FreshInv
    <3>1. CASE l = k
      BY <1>3, <2>1, <2>3, <3>1 DEF Fresh
    <3>2. CASE l # k
      <4>1. active[l] # 0 /\ Fresh(order[active[l]], conn[l])
        BY <1>a, <3>2 DEF SessionIInv, FreshInv
      <4>2. active[l] \in Sessions /\ order[active[l]].key = l
        BY <4>1 DEF SessionIInv, TableInv
      <4> QED
        BY <2>1, <3>2, <4>1, <4>2
    <3> QED
      BY <3>1, <3>2
  <2>9b. NewInv'
    <3> SUFFICES ASSUME NEW n \in Sessions, stage'[order[n].key] = "new"
                 PROVE  conn[order[n].key] \notin carried'[n]
      BY <1>2, <2>1, <2>4 DEF NewInv
    <3>1. order[n].key # k /\ n # a
      BY <1>a, <2>1
    <3> QED
      BY <1>3, <1>a, <2>1, <3>1 DEF SessionIInv, NewInv
  <2>10. CapturedInv'
    <3>1. \A l \in Keys, c \in Nat : <<l, c>> \in captured' => c <= conn[l]
      BY <1>2, <1>3 DEF SessionIInv, CapturedInv
    <3>2. ASSUME NEW l \in Keys, <<l, conn[l]>> \in captured', l \notin refused
          PROVE  active[l] # 0 /\ order'[active[l]].syn /\ order'[active[l]].isn = conn[l]
      <4>1. CASE l = k
        BY <1>3, <2>1, <2>3, <4>1
      <4>2. CASE l # k
        <5>1. <<l, conn[l]>> \in captured
          BY <1>2, <3>2, <4>2
        <5>2. active[l] # 0 /\ order[active[l]].syn /\ order[active[l]].isn = conn[l]
          BY <3>2, <5>1 DEF SessionIInv, CapturedInv
        <5>3. active[l] \in Sessions /\ order[active[l]].key = l
          BY <5>2 DEF SessionIInv, TableInv
        <5>4. order'[active[l]] = order[active[l]]
          BY <2>1, <4>2, <5>3
        <5> QED
          BY <5>2, <5>4
      <4> QED
        BY <4>1, <4>2
    <3> QED
      BY <1>2, <2>1, <3>1, <3>2 DEF CapturedInv
  <2>12. UnstartedInv'
    BY <1>3, <2>1, <2>3, <2>4, <2>5a DEF SessionIInv, UnstartedInv
  <2>13. NeverMerged'
    BY <1>3, <2>1, <2>4, <2>5, <2>5a DEF SessionIInv, NeverMerged
  <2> QED
    BY <2>6, <2>7, <2>8, <2>9, <2>9a, <2>9b, <2>10, <2>12, <2>13 DEF SessionIInv
<1>6. CASE Open(p)
  <2>1. /\ k \notin refused
        /\ a # 0 => StartsNewConnection(order[a], p)
        /\ Admitted(p) \/ TurnedAway(p)
    BY <1>1, <1>6, OpenEffect
  <2>2. \A n \in Sessions : order[n].key = k => a # 0 /\ n <= a /\ a \in Sessions /\ order[a].key = k
    BY <1>3, <2>1 DEF SessionIInv, TableInv, Typed
  <2>3. a # 0 /\ conn[k] \in carried[a] => <<k, conn[k]>> \in late'
    <3> SUFFICES ASSUME a # 0, conn[k] \in carried[a] PROVE <<k, conn[k]>> \in late'
      OBVIOUS
    <3>1. a \in Sessions /\ order[a].key = k
      BY DEF SessionIInv, TableInv
    <3>2. stage[k] # "new"
      BY <3>1 DEF SessionIInv, NewInv
    <3>3. stage[k] # "syn"
      <4>1. ASSUME stage[k] = "syn" PROVE FALSE
        <5>1. Fresh(order[a], conn[k])
          BY <2>1, <4>1 DEF SessionIInv, FreshInv
        <5> QED
          BY <1>1, <2>1, <5>1 DEF Fresh, StartsNewConnection, Closed
      <4> QED
        BY <4>1
    <3> QED
      BY <1>2, <1>a, <3>2, <3>3 DEF Stages
  <2>4. \A n \in Sessions : order[n].key = k =>
          \A c \in carried[n] : c < conn[k] \/ (c = conn[k] /\ <<k, c>> \in late')
    <3> SUFFICES ASSUME NEW n \in Sessions, order[n].key = k, NEW c \in carried[n]
                 PROVE  c < conn[k] \/ (c = conn[k] /\ <<k, c>> \in late')
      OBVIOUS
    <3>1. a # 0 /\ n <= a /\ a \in Sessions /\ order[a].key = k
      BY <2>2
    <3>2. c <= conn[k] /\ c \in Nat /\ conn[k] \in Nat
      BY <1>3 DEF SessionIInv, CarriedInv
    <3>3. CASE n = a
      BY <2>3, <3>1, <3>2, <3>3
    <3>4. CASE n # a
      <4>1. PICK d \in carried[a] : TRUE
        BY <3>1 DEF SessionIInv, CarriedInv
      <4>2. n < a
        BY <1>3, <3>1, <3>4
      <4>3. c < d \/ (c = d /\ <<k, c>> \in late)
        BY <3>1, <4>2 DEF SessionIInv, CarriedInv
      <4>4. d <= conn[k] /\ d \in Nat
        BY <1>3, <3>1, <4>1 DEF SessionIInv, CarriedInv
      <4> QED
        BY <1>b, <3>2, <4>3, <4>4
    <3> QED
      BY <3>3, <3>4
  <2>5. CASE TurnedAway(p)
    <3>1. /\ active' = [active EXCEPT ![k] = 0] /\ refused' = refused \cup {k}
          /\ refusedCount' = refusedCount + 1 /\ UNCHANGED <<order, carried>>
          /\ Sessions' = Sessions
      BY <1>1, <2>5 DEF TurnedAway, Sessions
    <3>2. Typed'
      BY <1>2, <1>a, <1>b, <3>1 DEF SessionIInv, Typed
    <3>3. TableInv'
      BY <1>3, <3>1 DEF SessionIInv, TableInv, Typed
    <3>4. CarriedInv' /\ SynInv'
      BY <1>2, <1>b, <3>1 DEF SessionIInv, CarriedInv, SynInv
    <3>4a. FreshInv'
      BY <1>2, <1>a, <3>1 DEF SessionIInv, FreshInv, Fresh, Typed
    <3>4b. NewInv'
      BY <1>2, <1>3, <1>a, <3>1 DEF SessionIInv, NewInv
    <3>5. CapturedInv'
      BY <1>2, <1>3, <1>b, <3>1 DEF SessionIInv, CapturedInv, Typed
    <3>6. UnstartedInv' /\ NeverMerged'
      <4> SUFFICES ASSUME NEW n \in Sessions
                   PROVE  /\ ~order[n].syn =>
                                \A c \in carried[n] : <<order[n].key, c>> \notin captured'
                          /\ \A c, d \in carried[n] :
                                c < d => <<order[n].key, d>> \notin captured'
        BY <3>1 DEF UnstartedInv, NeverMerged
      <4>1. \A c \in carried[n] :
              <<order[n].key, c>> \in captured' => <<order[n].key, c>> \in captured
        BY <1>b, <1>c
      <4> QED
        BY <4>1 DEF SessionIInv, UnstartedInv, NeverMerged
    <3> QED
      BY <3>2, <3>3, <3>4, <3>4a, <3>4b, <3>5, <3>6 DEF SessionIInv
  <2>6. CASE Admitted(p)
    <3>1. /\ order' \in Seq(Session) /\ Len(order') = new
          /\ carried' \in Seq(SUBSET Nat) /\ Len(carried') = new
          /\ \A n \in Sessions : order'[n] = order[n] /\ carried'[n] = carried[n]
          /\ order'[new] \in Session /\ order'[new].key = k /\ order'[new].syn
          /\ order'[new].isn = conn[k] /\ order'[new].fins = {}
          /\ ~order'[new].rst /\ ~order'[new].payload
          /\ carried'[new] = {conn[k]}
          /\ active' = [active EXCEPT ![k] = new]
          /\ UNCHANGED <<refused, refusedCount>>
      BY <1>1, <2>6 DEF Admitted, SessionIInv, Typed
    <3>2. Sessions' = Sessions \cup {new} /\ new \notin Sessions
          /\ \A n \in Sessions : n < new
      BY <1>3, <3>1 DEF Sessions
    <3>3. Typed'
      BY <1>2, <1>3, <1>a, <1>b, <3>1 DEF SessionIInv, Typed
    <3>4. TableInv'
      <4>1. active'[k] = new /\ \A l \in Keys : l # k => active'[l] = active[l]
        BY <3>1 DEF SessionIInv, Typed
      <4>2. \A l \in Keys : active'[l] # 0 =>
               active'[l] \in Sessions' /\ order'[active'[l]].key = l
        BY <3>1, <3>2, <4>1 DEF SessionIInv, TableInv
      <4>3. \A n \in Sessions' :
              /\ n <= active'[order'[n].key] \/ order'[n].key \in refused'
              /\ active'[order'[n].key] # 0 => n <= active'[order'[n].key]
        <5> SUFFICES ASSUME NEW n \in Sessions'
                     PROVE  /\ n <= active'[order'[n].key] \/ order'[n].key \in refused
                            /\ active'[order'[n].key] # 0 => n <= active'[order'[n].key]
          BY <3>1
        <5>1. CASE n = new
          BY <1>3, <3>1, <4>1, <5>1
        <5>2. CASE n # new /\ order[n].key = k
          BY <1>3, <3>1, <3>2, <4>1, <5>2
        <5>3. CASE n # new /\ order[n].key # k
          BY <1>3, <3>1, <3>2, <4>1, <5>3 DEF SessionIInv, TableInv
        <5> QED
          BY <5>1, <5>2, <5>3
      <4> QED
        BY <4>2, <4>3 DEF TableInv
    <3>5. CarriedInv'
      <4>1. \A n \in Sessions' :
              carried'[n] # {} /\ \A c \in carried'[n] : c <= conn'[order'[n].key]
        <5> SUFFICES ASSUME NEW n \in Sessions'
                     PROVE  carried'[n] # {} /\ \A c \in carried'[n] : c <= conn[order'[n].key]
          BY <1>2
        <5>1. CASE n = new
          <6>1. carried'[n] = {conn[k]} /\ order'[n].key = k /\ conn[k] <= conn[k]
            BY <1>3, <3>1, <5>1
          <6> QED
            BY <6>1
        <5>2. CASE n # new
          BY <3>1, <3>2, <5>2 DEF SessionIInv, CarriedInv
        <5> QED
          BY <5>1, <5>2
      <4>2. \A m, n \in Sessions' :
              m < n /\ order'[m].key = order'[n].key =>
                \A c \in carried'[m], d \in carried'[n] :
                  c < d \/ (c = d /\ <<order'[n].key, c>> \in late')
        <5> SUFFICES ASSUME NEW m \in Sessions', NEW n \in Sessions', m < n,
                            order'[m].key = order'[n].key,
                            NEW c \in carried'[m], NEW d \in carried'[n]
                     PROVE  c < d \/ (c = d /\ <<order'[n].key, c>> \in late')
          OBVIOUS
        <5>1. m \in Sessions
          BY <1>3, <3>1, <3>2
        <5>2. CASE n = new
          BY <2>4, <3>1, <5>1, <5>2
        <5>3. CASE n # new
          BY <1>b, <3>1, <3>2, <5>1, <5>3 DEF SessionIInv, CarriedInv
        <5> QED
          BY <5>2, <5>3
      <4> QED
        BY <4>1, <4>2 DEF CarriedInv
    <3>5a. active'[k] = new /\ \A l \in Keys : l # k => active'[l] = active[l]
      BY <3>1 DEF SessionIInv, Typed
    <3>6. SynInv' /\ NewInv'
      <4> SUFFICES ASSUME NEW n \in Sessions'
                   PROVE  /\ order'[n].syn => \A c \in carried'[n] : order'[n].isn <= c
                          /\ stage'[order'[n].key] = "new" => conn[order'[n].key] \notin carried'[n]
        BY <1>2 DEF SynInv, NewInv
      <4>1. CASE n = new
        <5>1. /\ order'[n].isn = conn[k] /\ carried'[n] = {conn[k]} /\ conn[k] <= conn[k]
              /\ stage'[order'[n].key] # "new"
          BY <1>3, <1>a, <3>1, <4>1
        <5> QED
          BY <5>1
      <4>2. CASE n # new
        <5>1. /\ n \in Sessions /\ order'[n] = order[n] /\ carried'[n] = carried[n]
              /\ order[n].key \in Keys
          BY <1>3, <3>1, <3>2, <4>2
        <5>2. stage'[order[n].key] = "new" => order[n].key # k /\ stage[order[n].key] = "new"
          BY <1>a, <5>1
        <5> QED
          BY <5>1, <5>2 DEF SessionIInv, SynInv, NewInv
      <4> QED
        BY <4>1, <4>2
    <3>6a. FreshInv'
      <4> SUFFICES ASSUME NEW l \in Keys, stage'[l] = "syn", l \notin refused
                   PROVE  active'[l] # 0 /\ Fresh(order'[active'[l]], conn[l])
        BY <1>2, <3>1 DEF FreshInv
      <4>1. CASE l = k
        BY <1>3, <3>1, <3>5a, <4>1 DEF Fresh
      <4>2. CASE l # k
        <5>1. active[l] # 0 /\ Fresh(order[active[l]], conn[l])
          BY <1>a, <4>2 DEF SessionIInv, FreshInv
        <5>2. active[l] \in Sessions
          BY <5>1 DEF SessionIInv, TableInv
        <5> QED
          BY <3>1, <3>5a, <4>2, <5>1, <5>2
      <4> QED
        BY <4>1, <4>2
    <3>7. CapturedInv'
      <4>1. \A l \in Keys, c \in Nat : <<l, c>> \in captured' => c <= conn[l]
        BY <1>3, <1>b DEF SessionIInv, CapturedInv
      <4>2. ASSUME NEW l \in Keys, <<l, conn[l]>> \in captured', l \notin refused
            PROVE  active'[l] # 0 /\ order'[active'[l]].syn /\ order'[active'[l]].isn = conn[l]
        <5>1. CASE l = k
          BY <1>3, <3>1, <3>5a, <5>1
        <5>2. CASE l # k
          <6>1. <<l, conn[l]>> \in captured
            BY <1>b, <4>2, <5>2
          <6>2. active[l] # 0 /\ order[active[l]].syn /\ order[active[l]].isn = conn[l]
            BY <4>2, <6>1 DEF SessionIInv, CapturedInv
          <6>3. active[l] \in Sessions /\ active'[l] = active[l]
            BY <3>5a, <5>2, <6>2 DEF SessionIInv, TableInv
          <6> QED
            BY <3>1, <6>2, <6>3
        <5> QED
          BY <5>1, <5>2
      <4> QED
        BY <1>2, <3>1, <4>1, <4>2 DEF CapturedInv
    <3>8. UnstartedInv' /\ NeverMerged'
      <4> SUFFICES ASSUME NEW n \in Sessions'
                   PROVE  /\ ~order'[n].syn =>
                                \A c \in carried'[n] : <<order'[n].key, c>> \notin captured'
                          /\ \A c, d \in carried'[n] :
                                c < d => <<order'[n].key, d>> \notin captured'
        BY DEF UnstartedInv, NeverMerged
      <4>1. CASE n = new
        BY <1>3, <3>1, <4>1
      <4>2. CASE n # new
        <5>1. n \in Sessions /\ order'[n] = order[n] /\ carried'[n] = carried[n]
          BY <3>1, <3>2, <4>2
        <5>2. \A c \in carried[n] :
                <<order[n].key, c>> \in captured' => <<order[n].key, c>> \in captured
          BY <1>b, <1>c, <5>1
        <5> QED
          BY <5>1, <5>2 DEF SessionIInv, UnstartedInv, NeverMerged
      <4> QED
        BY <4>1, <4>2
    <3> QED
      BY <3>3, <3>4, <3>5, <3>6, <3>6a, <3>7, <3>8 DEF SessionIInv
  <2> QED
    BY <2>1, <2>5, <2>6
<1> QED
  BY <1>2, <1>4, <1>5, <1>6 DEF Observe

LaterPacket(k, from, flags, payload) ==
    [key |-> k, from |-> from, flags |-> flags, isn |-> 0, payload |-> payload]

(* Any other packet: it opens a session only if the pair has none.          *)
LEMMA LaterStep ==
    ASSUME SessionIInv, NEW k \in Keys, NEW from \in {"a", "b"}, NEW flags \in LaterFlags,
           NEW payload \in Payload, CaptureLater(k, from, flags, payload)
    PROVE  SessionIInv'
<1> DEFINE p == LaterPacket(k, from, flags, payload)
           a == active[k]
           new == Len(order) + 1
<1>1. p \in Packet /\ p.key = k /\ ~IsSyn(p)
  BY DEF LaterPacket, Packet, IsSyn, LaterFlags
<1> DEFINE next == CASE stage[k] \in {"new", "headless"} -> "headless"
                     [] stage[k] = "syn" /\ flags \subseteq {"SYN", "ACK"} /\ payload = "none" -> "syn"
                     [] OTHER -> "open"
<1>2. /\ stage' = [stage EXCEPT ![k] = next] /\ seen' \in Nat
      /\ UNCHANGED <<conn, captured, late>>
      /\ Observe(p)
  BY DEF CaptureLater, LaterPacket, SessionIInv, Typed
<1>p. p.payload = payload /\ p.flags = flags
  BY DEF LaterPacket
<1>n. /\ next \in Stages /\ next # "new"
      /\ next = "syn" => /\ stage[k] = "syn" /\ p.payload = "none"
                         /\ "FIN" \notin p.flags /\ "RST" \notin p.flags
  <2>1. stage[k] \in Stages /\ payload \in Payload
    BY DEF SessionIInv, Typed
  <2>2. CASE stage[k] \in {"new", "headless"}
    BY <2>2 DEF Stages
  <2>3. CASE stage[k] = "syn" /\ flags \subseteq {"SYN", "ACK"} /\ payload = "none"
    <3>1. next = "syn" /\ "FIN" \notin flags /\ "RST" \notin flags
      BY <2>3
    <3> QED
      BY <1>p, <2>3, <3>1 DEF Stages
  <2>4. CASE stage[k] = "syn" /\ ~(flags \subseteq {"SYN", "ACK"} /\ payload = "none")
    <3>1. next = "open"
      BY <2>4
    <3> QED
      BY <3>1 DEF Stages
  <2>5. CASE stage[k] = "open"
    <3>1. next = "open"
      BY <2>5
    <3> QED
      BY <3>1 DEF Stages
  <2> QED
    BY <2>1, <2>2, <2>3, <2>4, <2>5 DEF Stages
<1> HIDE DEF p, next
<1>3. /\ Len(order) \in Nat /\ Sessions = 1..Len(order) /\ Sessions \subseteq Nat
      /\ conn \in [Keys -> Nat] /\ conn[k] \in Nat
      /\ \A n \in Sessions : /\ order[n] \in Session /\ order[n].key \in Keys
                             /\ order[n].isn \in Int /\ order[n].syn \in BOOLEAN
                             /\ carried[n] \subseteq Nat
                             /\ conn[order[n].key] \in Nat
  BY SessionFacts
<1>4. /\ stage' \in [Keys -> Stages] /\ stage'[k] # "new"
      /\ stage'[k] = "syn" => /\ stage[k] = "syn" /\ p.payload = "none"
                              /\ "FIN" \notin p.flags /\ "RST" \notin p.flags
      /\ \A l \in Keys : l # k => stage'[l] = stage[l]
  BY <1>2, <1>n DEF SessionIInv, Typed
<1>5. CASE Refuse(p)
  <2>1. /\ UNCHANGED <<order, active, refused, carried>> /\ refusedCount' = refusedCount + 1
        /\ Sessions' = Sessions
    BY <1>5 DEF Refuse, Sessions
  <2>2. FreshInv' /\ NewInv'
    BY <1>2, <1>3, <1>4, <2>1 DEF SessionIInv, FreshInv, NewInv, Fresh
  <2>3. Typed'
    BY <1>2, <1>4, <2>1 DEF SessionIInv, Typed
  <2>4. TableInv' /\ CarriedInv' /\ SynInv'
    BY <1>2, <2>1 DEF SessionIInv, TableInv, CarriedInv, SynInv
  <2>5. CapturedInv' /\ UnstartedInv' /\ NeverMerged'
    BY <1>2, <2>1 DEF SessionIInv, CapturedInv, UnstartedInv, NeverMerged
  <2> QED
    BY <2>2, <2>3, <2>4, <2>5 DEF SessionIInv
<1>6. CASE Continue(p)
  <2>1. /\ a \in Sessions /\ order[a] \in Session /\ order[a].key = k
        /\ k \notin refused
        /\ order' \in Seq(Session) /\ Len(order') = Len(order)
        /\ carried' \in Seq(SUBSET Nat) /\ Len(carried') = Len(carried)
        /\ order'[a] = Observed(order[a], p) /\ carried'[a] = carried[a] \cup {conn[k]}
        /\ \A n \in Sessions : n # a => order'[n] = order[n] /\ carried'[n] = carried[n]
        /\ \A n \in Sessions : order'[n].key = order[n].key
        /\ UNCHANGED <<active, refused, refusedCount>>
    BY <1>1, <1>6, ContinueEffect
  <2>2. (order'[a].syn <=> order[a].syn) /\ order'[a].isn = order[a].isn
    <3> DEFINE s == order[a]
               t == Observed(s, p)
    <3>1. /\ t.syn <=> s.syn \/ IsSyn(p)
          /\ t.isn = IF IsSyn(p) /\ ~s.syn THEN p.isn ELSE s.isn
      BY <1>1, <2>1, ObservedSession
    <3>2. order'[a] = t
      BY <2>1
    <3> HIDE DEF t
    <3> QED
      BY <1>1, <3>1, <3>2
  <2>3. Sessions' = Sessions
    BY <2>1 DEF Sessions
  <2>4. Typed'
    BY <1>2, <1>4, <2>1 DEF SessionIInv, Typed
  <2>5. TableInv'
    BY <2>1, <2>3 DEF SessionIInv, TableInv
  <2>6. \A c \in carried[a] : c <= conn[k]
    BY <2>1 DEF SessionIInv, CarriedInv
  <2>7. PICK e \in carried[a] : TRUE
    BY <2>1 DEF SessionIInv, CarriedInv
  <2>8. CarriedInv'
    <3>1. \A n \in Sessions :
            carried'[n] # {} /\ \A c \in carried'[n] : c <= conn'[order'[n].key]
      <4> SUFFICES ASSUME NEW n \in Sessions
                   PROVE  carried'[n] # {} /\ \A c \in carried'[n] : c <= conn[order[n].key]
        BY <1>2, <2>1
      <4>1. CASE n = a
        <5>1. carried'[n] = carried[a] \cup {conn[k]} /\ order[n].key = k /\ conn[k] <= conn[k]
          BY <1>3, <2>1, <4>1
        <5> QED
          BY <2>6, <5>1
      <4>2. CASE n # a
        BY <2>1, <4>2 DEF SessionIInv, CarriedInv
      <4> QED
        BY <4>1, <4>2
    <3>2. ASSUME NEW m \in Sessions, NEW n \in Sessions, m < n, order[m].key = order[n].key,
                 NEW c \in carried'[m], NEW d \in carried'[n]
          PROVE  c < d \/ (c = d /\ <<order[n].key, c>> \in late)
      <4>1. m # a
        <5>1. order[a].key = k /\ a # 0 /\ m \in Nat /\ n \in Nat
          BY <1>3, <2>1, <3>2
        <5>2. order[n].key = k => n <= a
          BY <5>1, <3>2 DEF SessionIInv, TableInv
        <5> QED
          BY <3>2, <5>1, <5>2
      <4>2. c \in carried[m] /\ c \in Nat
        BY <1>3, <2>1, <4>1
      <4>3. CASE n = a /\ d = conn[k]
        <5>1. /\ c < e \/ (c = e /\ <<k, c>> \in late)
              /\ e <= conn[k] /\ e \in Nat
          BY <1>3, <2>1, <2>6, <2>7, <3>2, <4>2, <4>3 DEF SessionIInv, CarriedInv
        <5>2. c < conn[k] \/ (c = conn[k] /\ <<k, c>> \in late)
          BY <1>3, <4>2, <5>1
        <5> QED
          BY <2>1, <4>3, <5>2
      <4>4. CASE ~(n = a /\ d = conn[k])
        <5>1. d \in carried[n]
          BY <2>1, <4>4
        <5> QED
          BY <3>2, <4>2, <5>1 DEF SessionIInv, CarriedInv
      <4> QED
        BY <4>3, <4>4
    <3>3. late' = late /\ \A n \in Sessions : order'[n].key = order[n].key
      BY <1>2, <2>1
    <3> QED
      BY <2>3, <3>1, <3>2, <3>3 DEF CarriedInv
  <2>9. SynInv'
    <3> SUFFICES ASSUME NEW n \in Sessions, order'[n].syn, NEW c \in carried'[n]
                 PROVE  order'[n].isn <= c
      BY <2>3 DEF SynInv
    <3>1. CASE n = a
      <4>1. order[a].syn /\ order[a].isn <= e /\ e <= conn[k] /\ e \in Nat
        BY <1>3, <2>1, <2>2, <2>6, <2>7, <3>1 DEF SessionIInv, SynInv
      <4>2. CASE c \in carried[a]
        BY <2>1, <2>2, <3>1, <4>1, <4>2 DEF SessionIInv, SynInv
      <4>3. CASE c = conn[k]
        BY <1>3, <2>1, <2>2, <3>1, <4>1, <4>3
      <4> QED
        BY <2>1, <3>1, <4>2, <4>3
    <3>2. CASE n # a
      BY <2>1, <3>2 DEF SessionIInv, SynInv
    <3> QED
      BY <3>1, <3>2
  <2>10. FreshInv' /\ NewInv'
    <3>1. ASSUME NEW l \in Keys, stage'[l] = "syn", l \notin refused
          PROVE  active[l] # 0 /\ Fresh(order'[active[l]], conn[l])
      <4>1. active[l] # 0 /\ Fresh(order[active[l]], conn[l])
        BY <1>4, <3>1 DEF SessionIInv, FreshInv
      <4>2. active[l] \in Sessions /\ order[active[l]].key = l
        BY <4>1 DEF SessionIInv, TableInv
      <4>3. CASE l = k
        <5> DEFINE s == order[a]
                   t == Observed(s, p)
        <5>1. /\ t.syn <=> s.syn \/ IsSyn(p)
              /\ t.isn = IF IsSyn(p) /\ ~s.syn THEN p.isn ELSE s.isn
              /\ t.fins = IF "FIN" \in p.flags THEN s.fins \cup {p.from} ELSE s.fins
              /\ t.rst <=> s.rst \/ "RST" \in p.flags
              /\ t.payload <=> s.payload \/ p.payload # "none"
          BY <1>1, <2>1, ObservedSession
        <5>2. order'[a] = t
          BY <2>1
        <5> HIDE DEF t
        <5> QED
          BY <1>1, <1>4, <3>1, <4>1, <4>3, <5>1, <5>2 DEF Fresh
      <4>4. CASE l # k
        BY <2>1, <4>1, <4>2, <4>4
      <4> QED
        BY <4>3, <4>4
    <3>2. NewInv'
      <4> SUFFICES ASSUME NEW n \in Sessions, stage'[order[n].key] = "new"
                   PROVE  conn[order[n].key] \notin carried'[n]
        BY <1>2, <2>1, <2>3 DEF NewInv
      <4>1. order[n].key # k /\ n # a
        BY <1>4, <2>1
      <4> QED
        BY <1>3, <1>4, <2>1, <4>1 DEF SessionIInv, NewInv
    <3> QED
      BY <1>2, <2>1, <3>1, <3>2 DEF FreshInv
  <2>11. CapturedInv'
    <3>1. ASSUME NEW l \in Keys, <<l, conn[l]>> \in captured, l \notin refused
          PROVE  active[l] # 0 /\ order'[active[l]].syn /\ order'[active[l]].isn = conn[l]
      <4>1. active[l] # 0 /\ order[active[l]].syn /\ order[active[l]].isn = conn[l]
        BY <3>1 DEF SessionIInv, CapturedInv
      <4>2. active[l] \in Sessions /\ order[active[l]].key = l
        BY <4>1 DEF SessionIInv, TableInv
      <4>3. CASE active[l] = a
        BY <2>2, <4>1, <4>3
      <4>4. CASE active[l] # a
        BY <2>1, <4>1, <4>2, <4>4
      <4> QED
        BY <4>3, <4>4
    <3> QED
      BY <1>2, <2>1, <3>1 DEF SessionIInv, CapturedInv
  <2>12. UnstartedInv'
    <3> SUFFICES ASSUME NEW n \in Sessions, ~order'[n].syn, NEW c \in carried'[n]
                 PROVE  <<order[n].key, c>> \notin captured
      BY <1>2, <2>1, <2>3 DEF UnstartedInv
    <3>1. CASE n = a /\ c = conn[k]
      BY <2>1, <2>2, <3>1 DEF SessionIInv, CapturedInv
    <3>2. CASE ~(n = a /\ c = conn[k])
      <4>1. c \in carried[n] /\ ~order[n].syn
        BY <2>1, <2>2, <3>2
      <4> QED
        BY <4>1 DEF SessionIInv, UnstartedInv
    <3> QED
      BY <3>1, <3>2
  <2>13. NeverMerged'
    <3> SUFFICES ASSUME NEW n \in Sessions, NEW c \in carried'[n], NEW d \in carried'[n], c < d,
                        <<order[n].key, d>> \in captured
                 PROVE  FALSE
      BY <1>2, <2>1, <2>3 DEF NeverMerged
    <3>1. c < d
      OBVIOUS
    <3>2. CASE n = a
      <4>1. /\ c \in Nat /\ d \in Nat /\ c <= conn[k] /\ d <= conn[k]
            /\ c \in carried[a] \/ c = conn[k]
            /\ d \in carried[a] \/ d = conn[k]
        <5>1. /\ c \in carried[a] \cup {conn[k]} /\ d \in carried[a] \cup {conn[k]}
              /\ carried[a] \subseteq Nat /\ conn[k] \in Nat
          BY <1>3, <2>1, <3>2
        <5> QED
          BY <2>6, <5>1
      <4>2. CASE d = conn[k]
        <5>1. order[a].syn /\ order[a].isn = conn[k]
          BY <2>1, <3>2, <4>2 DEF SessionIInv, CapturedInv
        <5>2. c \in carried[a]
          BY <3>1, <4>1, <4>2
        <5> QED
          BY <1>3, <2>1, <3>1, <4>1, <4>2, <5>1, <5>2 DEF SessionIInv, SynInv
      <4>3. CASE d # conn[k]
        <5>1. c \in carried[a] /\ d \in carried[a]
          BY <1>3, <3>1, <4>1, <4>3
        <5> QED
          BY <2>1, <3>1, <3>2, <5>1 DEF SessionIInv, NeverMerged
      <4> QED
        BY <4>2, <4>3
    <3>3. CASE n # a
      BY <2>1, <3>1, <3>3 DEF SessionIInv, NeverMerged
    <3> QED
      BY <3>2, <3>3
  <2> QED
    BY <2>4, <2>5, <2>8, <2>9, <2>10, <2>11, <2>12, <2>13 DEF SessionIInv
<1>7. CASE Open(p)
  <2>1. k \notin refused /\ a = 0 /\ (Admitted(p) \/ TurnedAway(p))
    <3>1. /\ k \notin refused
          /\ a # 0 => StartsNewConnection(order[a], p)
          /\ Admitted(p) \/ TurnedAway(p)
      BY <1>1, <1>7, OpenEffect
    <3> QED
      BY <1>1, <3>1 DEF StartsNewConnection
  <2>2. \A n \in Sessions : order[n].key # k
    BY <1>3, <2>1 DEF SessionIInv, TableInv
  <2>3. <<k, conn[k]>> \notin captured
    BY <2>1 DEF SessionIInv, CapturedInv
  <2>3a. stage'[k] # "syn"
    BY <1>4, <2>1 DEF SessionIInv, FreshInv
  <2>4. CASE TurnedAway(p)
    <3>1. /\ active' = [active EXCEPT ![k] = 0] /\ refused' = refused \cup {k}
          /\ refusedCount' = refusedCount + 1 /\ UNCHANGED <<order, carried>>
          /\ Sessions' = Sessions
      BY <1>1, <2>4 DEF TurnedAway, Sessions
    <3>2. Typed' /\ TableInv' /\ active' = active
      <4>1. active' = active
        BY <2>1, <3>1 DEF SessionIInv, Typed
      <4>2. Typed'
        BY <1>2, <1>4, <3>1, <4>1 DEF SessionIInv, Typed
      <4>3. TableInv'
        BY <1>3, <3>1, <4>1 DEF SessionIInv, TableInv
      <4> QED
        BY <4>1, <4>2, <4>3
    <3>3. FreshInv' /\ NewInv'
      <4>1. ASSUME NEW l \in Keys, stage'[l] = "syn", l \notin refused'
            PROVE  active'[l] # 0 /\ Fresh(order'[active'[l]], conn'[l])
        <5>1. l # k /\ stage[l] = "syn" /\ l \notin refused
          BY <1>4, <2>3a, <3>1, <4>1
        <5> QED
          BY <1>2, <3>1, <3>2, <5>1 DEF SessionIInv, FreshInv
      <4>2. NewInv'
        BY <1>2, <1>3, <1>4, <3>1 DEF SessionIInv, NewInv
      <4> QED
        BY <4>1, <4>2 DEF FreshInv
    <3>4. CapturedInv'
      BY <1>2, <3>1, <3>2 DEF SessionIInv, CapturedInv
    <3> QED
      BY <1>2, <3>1, <3>2, <3>3, <3>4
         DEF SessionIInv, CarriedInv, SynInv, UnstartedInv, NeverMerged
  <2>5. CASE Admitted(p)
    <3>1. /\ order' \in Seq(Session) /\ Len(order') = new
          /\ carried' \in Seq(SUBSET Nat) /\ Len(carried') = new
          /\ \A n \in Sessions : order'[n] = order[n] /\ carried'[n] = carried[n]
          /\ order'[new].key = k /\ ~order'[new].syn /\ carried'[new] = {conn[k]}
          /\ active' = [active EXCEPT ![k] = new]
          /\ UNCHANGED <<refused, refusedCount>>
      BY <1>1, <2>5 DEF Admitted, SessionIInv, Typed
    <3>2. /\ Sessions' = Sessions \cup {new} /\ new \notin Sessions /\ new # 0
          /\ active'[k] = new /\ \A l \in Keys : l # k => active'[l] = active[l]
      <4>1. Sessions' = Sessions \cup {new} /\ new \notin Sessions /\ new # 0
        BY <1>3, <3>1 DEF Sessions
      <4> QED
        BY <3>1, <4>1 DEF SessionIInv, Typed
    <3>3. Typed'
      BY <1>2, <1>3, <1>4, <3>1 DEF SessionIInv, Typed
    <3>4. TableInv'
      <4>1. \A l \in Keys : active'[l] # 0 =>
               active'[l] \in Sessions' /\ order'[active'[l]].key = l
        BY <3>1, <3>2 DEF SessionIInv, TableInv
      <4>2. ASSUME NEW n \in Sessions'
            PROVE  /\ n <= active'[order'[n].key] \/ order'[n].key \in refused
                   /\ active'[order'[n].key] # 0 => n <= active'[order'[n].key]
        <5>1. CASE n = new
          BY <1>3, <3>1, <3>2, <5>1
        <5>2. CASE n # new
          BY <1>3, <2>2, <3>1, <3>2, <5>2 DEF SessionIInv, TableInv
        <5> QED
          BY <5>1, <5>2
      <4> QED
        BY <3>1, <4>1, <4>2 DEF TableInv
    <3>5. CarriedInv'
      <4>1. ASSUME NEW n \in Sessions'
            PROVE  carried'[n] # {} /\ \A c \in carried'[n] : c <= conn[order'[n].key]
        <5>1. CASE n = new
          <6>1. carried'[n] = {conn[k]} /\ order'[n].key = k /\ conn[k] <= conn[k]
            BY <1>3, <3>1, <5>1
          <6> QED
            BY <6>1
        <5>2. CASE n # new
          BY <3>1, <3>2, <5>2 DEF SessionIInv, CarriedInv
        <5> QED
          BY <5>1, <5>2
      <4>2. ASSUME NEW m \in Sessions', NEW n \in Sessions', m < n,
                   order'[m].key = order'[n].key,
                   NEW c \in carried'[m], NEW d \in carried'[n]
            PROVE  c < d \/ (c = d /\ <<order'[n].key, c>> \in late)
        <5>1. m \in Sessions
          BY <1>3, <3>1, <3>2, <4>2
        <5>2. n # new
          BY <2>2, <3>1, <4>2, <5>1
        <5> QED
          BY <3>1, <3>2, <4>2, <5>1, <5>2 DEF SessionIInv, CarriedInv
      <4> QED
        BY <1>2, <4>1, <4>2 DEF CarriedInv
    <3>6. SynInv' /\ NewInv'
      <4> SUFFICES ASSUME NEW n \in Sessions'
                   PROVE  /\ order'[n].syn => \A c \in carried'[n] : order'[n].isn <= c
                          /\ stage'[order'[n].key] = "new" => conn[order'[n].key] \notin carried'[n]
        BY <1>2 DEF SynInv, NewInv
      <4>1. CASE n = new
        BY <1>4, <3>1, <4>1
      <4>2. CASE n # new
        <5>1. /\ n \in Sessions /\ order'[n] = order[n] /\ carried'[n] = carried[n]
              /\ order[n].key # k /\ order[n].key \in Keys
          BY <1>3, <2>2, <3>1, <3>2, <4>2
        <5> QED
          BY <1>4, <5>1 DEF SessionIInv, SynInv, NewInv
      <4> QED
        BY <4>1, <4>2
    <3>6a. FreshInv'
      <4> SUFFICES ASSUME NEW l \in Keys, stage'[l] = "syn", l \notin refused
                   PROVE  active'[l] # 0 /\ Fresh(order'[active'[l]], conn[l])
        BY <1>2, <3>1 DEF FreshInv
      <4>1. l # k
        BY <2>3a
      <4>2. active[l] # 0 /\ Fresh(order[active[l]], conn[l])
        BY <1>4, <4>1 DEF SessionIInv, FreshInv
      <4>3. active[l] \in Sessions
        BY <4>2 DEF SessionIInv, TableInv
      <4> QED
        BY <3>1, <3>2, <4>1, <4>2, <4>3
    <3>7. CapturedInv'
      <4>1. ASSUME NEW l \in Keys, <<l, conn[l]>> \in captured, l \notin refused
            PROVE  active'[l] # 0 /\ order'[active'[l]].syn /\ order'[active'[l]].isn = conn[l]
        <5>1. l # k
          BY <2>3, <4>1
        <5>2. active[l] # 0 /\ order[active[l]].syn /\ order[active[l]].isn = conn[l]
          BY <4>1 DEF SessionIInv, CapturedInv
        <5>3. active[l] \in Sessions /\ active'[l] = active[l]
          BY <3>2, <5>1, <5>2 DEF SessionIInv, TableInv
        <5> QED
          BY <3>1, <5>2, <5>3
      <4> QED
        BY <1>2, <3>1, <4>1 DEF SessionIInv, CapturedInv
    <3>8. UnstartedInv' /\ NeverMerged'
      <4> SUFFICES ASSUME NEW n \in Sessions'
                   PROVE  /\ ~order'[n].syn =>
                                \A c \in carried'[n] : <<order'[n].key, c>> \notin captured
                          /\ \A c, d \in carried'[n] :
                                c < d => <<order'[n].key, d>> \notin captured
        BY <1>2 DEF UnstartedInv, NeverMerged
      <4>1. CASE n = new
        BY <1>3, <2>3, <3>1, <4>1
      <4>2. CASE n # new
        BY <3>1, <3>2, <4>2 DEF SessionIInv, UnstartedInv, NeverMerged
      <4> QED
        BY <4>1, <4>2
    <3> QED
      BY <3>3, <3>4, <3>5, <3>6, <3>6a, <3>7, <3>8 DEF SessionIInv
  <2> QED
    BY <2>1, <2>4, <2>5
<1> QED
  BY <1>2, <1>5, <1>6, <1>7 DEF Observe

(* The pair is used again: none of its sessions carries what is to come.    *)
LEMMA NextConnectionStep ==
    ASSUME SessionIInv, NEW k \in Keys, NextConnection(k)
    PROVE  SessionIInv'
<1>1. /\ conn' = [conn EXCEPT ![k] = conn[k] + 1]
      /\ stage' = [stage EXCEPT ![k] = "new"]
      /\ UNCHANGED <<order, active, refused, refusedCount, carried, captured, late, seen>>
      /\ Sessions' = Sessions
  BY DEF NextConnection, engine, Sessions
<1>2. /\ Len(order) \in Nat /\ Sessions = 1..Len(order) /\ Sessions \subseteq Nat
      /\ conn \in [Keys -> Nat] /\ conn[k] \in Nat
      /\ \A n \in Sessions : /\ order[n] \in Session /\ order[n].key \in Keys
                             /\ order[n].isn \in Int /\ order[n].syn \in BOOLEAN
                             /\ carried[n] \subseteq Nat
                             /\ conn[order[n].key] \in Nat
  BY SessionFacts
<1>3. \A l \in Keys : conn'[l] = IF l = k THEN conn[l] + 1 ELSE conn[l]
  BY <1>1, <1>2
<1>4. Typed'
  BY <1>1, <1>2 DEF SessionIInv, Typed, Stages
<1>4a. TableInv' /\ SynInv' /\ UnstartedInv' /\ NeverMerged'
  BY <1>1 DEF SessionIInv, TableInv, SynInv, UnstartedInv, NeverMerged
<1>5. CarriedInv'
  <2>1. \A n \in Sessions : \A c \in carried[n] : c <= conn'[order[n].key]
    BY <1>2, <1>3 DEF SessionIInv, CarriedInv
  <2> QED
    BY <1>1, <2>1 DEF SessionIInv, CarriedInv
<1>6. FreshInv'
  BY <1>1, <1>3 DEF SessionIInv, FreshInv, Typed, Fresh
<1>6a. NewInv'
  <2> SUFFICES ASSUME NEW n \in Sessions, stage'[order[n].key] = "new"
               PROVE  conn'[order[n].key] \notin carried[n]
    BY <1>1 DEF NewInv
  <2>1. CASE order[n].key = k
    BY <1>2, <1>3, <2>1 DEF SessionIInv, CarriedInv
  <2>2. CASE order[n].key # k
    BY <1>1, <1>2, <1>3, <2>2 DEF SessionIInv, NewInv, Typed
  <2> QED
    BY <2>1, <2>2
<1>7. CapturedInv'
  <2>1. \A l \in Keys, c \in Nat : <<l, c>> \in captured => c <= conn'[l]
    BY <1>2, <1>3 DEF SessionIInv, CapturedInv
  <2>2. <<k, conn'[k]>> \notin captured
    BY <1>2, <1>3 DEF SessionIInv, CapturedInv
  <2> QED
    BY <1>1, <1>3, <2>1, <2>2 DEF SessionIInv, CapturedInv
<1> QED
  BY <1>4, <1>4a, <1>5, <1>6, <1>6a, <1>7 DEF SessionIInv

-----------------------------------------------------------------------------
(* The theorems.                                                            *)

LEMMA SessionStep == SessionIInv /\ [Next]_vars => SessionIInv'
<1> SUFFICES ASSUME SessionIInv, [Next]_vars PROVE SessionIInv'
  OBVIOUS
<1>1. ASSUME NEW k \in Keys, CaptureSyn(k) PROVE SessionIInv'
  BY <1>1, SynStep
<1>2. ASSUME NEW k \in Keys, NEW from \in {"a", "b"}, NEW flags \in LaterFlags,
             NEW payload \in Payload, CaptureLater(k, from, flags, payload)
      PROVE  SessionIInv'
  BY <1>2, LaterStep
<1>3. ASSUME NEW k \in Keys, NextConnection(k) PROVE SessionIInv'
  BY <1>3, NextConnectionStep
<1>4. CASE UNCHANGED vars
  BY <1>4 DEF vars, SessionIInv, Typed, TableInv, CarriedInv, SynInv, FreshInv, NewInv,
              CapturedInv, UnstartedInv, NeverMerged, Sessions
<1> QED
  BY <1>1, <1>2, <1>3, <1>4 DEF Next

(* The engine keeps the invariant on any traffic and under any limits.      *)
THEOREM SessionsInductive == Spec => []SessionIInv
<1>1. Init => SessionIInv
  <2> SUFFICES ASSUME Init PROVE SessionIInv
    OBVIOUS
  <2>1. /\ order = <<>> /\ carried = <<>> /\ active = [k \in Keys |-> 0] /\ captured = {}
        /\ Len(order) = 0 /\ Sessions = {}
    BY DEF Init, Sessions
  <2>2. Typed
    BY <2>1 DEF Init, Typed, Stages
  <2>3. TableInv /\ CarriedInv /\ SynInv /\ FreshInv /\ NewInv
    BY <2>1 DEF Init, TableInv, CarriedInv, SynInv, FreshInv, NewInv
  <2>4. CapturedInv /\ UnstartedInv /\ NeverMerged
    BY <2>1 DEF CapturedInv, UnstartedInv, NeverMerged
  <2> QED
    BY <2>2, <2>3, <2>4 DEF SessionIInv
<1> QED
  BY <1>1, SessionStep, PTL DEF Spec

(* requirements-matrix F3.2: a connection captured from its SYN on is never *)
(* added to the session of an earlier one (_starts_new_connection()).       *)
THEOREM ConnectionsNeverMerged == Spec => []NeverMerged
  BY SessionsInductive, PTL DEF SessionIInv

(* sessions.py:333-343.  The sessions of a pair carry its connections in    *)
(* order, and a connection is spread over two of them only if a SYN of it   *)
(* was captured after data, an end, or a part of it without its SYN.        *)
THEOREM ConnectionsNeverSplit == Spec => []NeverSplit
<1>1. SessionIInv => NeverSplit
  <2> SUFFICES ASSUME SessionIInv, NEW m \in Sessions, NEW n \in Sessions, m # n,
                      order[m].key = order[n].key,
                      NEW c, c \in carried[m], c \in carried[n]
               PROVE  <<order[m].key, c>> \in late
    BY DEF NeverSplit
  <2>1. c \in Nat /\ (m < n \/ n < m)
    BY SessionFacts
  <2> QED
    BY <2>1 DEF SessionIInv, CarriedInv
<1> QED
  BY <1>1, SessionsInductive, PTL

(* sessions.py:284-288.  A session labelled MIDSTREAM carries no connection *)
(* the capture holds from its SYN on: no limit took the SYN from it.        *)
THEOREM MidstreamIsOfTheCapture == Spec => []MidstreamIsReal
<1>1. SessionIInv => MidstreamIsReal
  <2> SUFFICES ASSUME SessionIInv, NEW n \in Sessions,
                      Completeness(order[n]) = "MIDSTREAM", NEW c \in carried[n]
               PROVE  <<order[n].key, c>> \notin captured
    BY DEF MidstreamIsReal
  <2>1. ~order[n].syn
    BY DEF Completeness
  <2> QED
    BY <2>1 DEF SessionIInv, UnstartedInv
<1> QED
  BY <1>1, SessionsInductive, PTL

-----------------------------------------------------------------------------
(* Dissection of one frame.                                                 *)

LEMMA AtmostValue ==
    ASSUME NEW a \in Int, NEW b \in Int
    PROVE  Atmost(a, b) = IF a <= b THEN a ELSE b
<1>1. CASE a <= b
  <2>1. a \in {a, b} /\ \A y \in {a, b} : a <= y
    BY <1>1
  <2>2. \A x \in {a, b} : (\A y \in {a, b} : x <= y) => x = a
    BY <1>1
  <2> QED
    BY <1>1, <2>1, <2>2 DEF Atmost, Min
<1>2. CASE ~(a <= b)
  <2>1. b \in {a, b} /\ \A y \in {a, b} : b <= y
    BY <1>2
  <2>2. \A x \in {a, b} : (\A y \in {a, b} : x <= y) => x = b
    BY <1>2
  <2> QED
    BY <1>2, <2>1, <2>2 DEF Atmost, Min
<1> QED
  BY <1>1, <1>2

(* What dissect() may make of a frame: its own kind of packet or MALFORMED, *)
(* no byte that its sender did not put into the payload, and of a segment   *)
(* at least the length its sender declared.                                 *)
Faithful(f, d) ==
    /\ d.available \in Int /\ d.declared \in Int
    /\ d.outcome \in {Right(f), "MALFORMED"}
    /\ d.available <= f.payload
    /\ d.outcome = "TCP" => d.declared >= f.payload

(* The same of a frame that is out of the ordinary.                         *)
Misleading == {"numbering", "tags", "no length", "cut header"}
Taken(f, d) ==
    /\ d.available \in Int /\ d.declared \in Int
    /\ d.outcome \in {Right(f), "MALFORMED"} \/ Oddities(f) \cap Misleading # {}
    /\ d.available <= f.payload
    /\ d.outcome = "TCP" => d.declared >= f.payload \/ "trailer" \in Oddities(f)

LEMMA FaithfulIsTaken ==
    ASSUME NEW f, NEW d, Faithful(f, d)
    PROVE  Taken(f, d)
  BY DEF Faithful, Taken

LEMMA FrameTypes ==
    ASSUME NEW f \in Frames
    PROVE  /\ f.link \in Links /\ f.link \in LinkTypes
           /\ f.tags \in Nat /\ f.family \in {"IPv4", "IPv6", "other"}
           /\ f.ext \in Nat /\ f.payload \in Nat /\ f.trailer \in Nat /\ f.stored \in Nat
           /\ f.fragment \in BOOLEAN /\ f.tcp \in BOOLEAN /\ f.stated \in BOOLEAN
           /\ f.link # "ETHERNET" => f.tags = 0
           /\ f.fragment /\ f.family = "IPv6" => f.ext = 1
           /\ f.stored <= FrameLength(f)
  BY TagAssumption, FileAssumption DEF Frames, FrameFields

LEMMA SegmentFaithful ==
    ASSUME NEW n \in Int, NEW stored \in Int
    PROVE  LET d == Segment(n, stored)
           IN  /\ d.available \in Int /\ d.declared \in Int
               /\ n < 0 => d.outcome = "MALFORMED" /\ d.available = 0
               /\ n >= 0 => /\ d.outcome = "TCP" /\ d.declared = n
                            /\ d.available <= n /\ d.available <= stored - 1
  BY AtmostValue DEF Segment, Verdict

Outcomes ==
    {"TCP", "NOT_IP", "NOT_TCP", "IP_FRAGMENT", "UNSUPPORTED_LINK_TYPE", "MALFORMED"}

(* The payload handed on is no longer than the segment declares.            *)
InRange(d) ==
    /\ d.outcome \in Outcomes
    /\ d.available \in Nat /\ d.declared \in Nat /\ d.available <= d.declared

LEMMA SegmentInRange ==
    ASSUME NEW n \in Int, NEW stored \in Int, stored >= 1
    PROVE  InRange(Segment(n, stored))
  BY AtmostValue DEF Segment, Verdict, InRange, Outcomes

LEMMA DissectInRange ==
    ASSUME NEW f \in Frames, NEW link \in Links
    PROVE  InRange(Dissect(f, link))
<1>1. /\ f.ext \in Nat /\ f.payload \in Nat /\ f.tags \in Nat /\ f.stored \in Nat
      /\ f.fragment \in BOOLEAN /\ f.tcp \in BOOLEAN /\ f.stated \in BOOLEAN
      /\ f.family \in {"IPv4", "IPv6", "other"}
  BY FrameTypes
<1>2. IpStored(f) \in Int /\ IpLength(f) \in Int /\ Walked(f) \in Int
  BY <1>1, AtmostValue, TagAssumption DEF IpStored, LinkLength, IpLength, Walked
<1>3. /\ InRange(Verdict("MALFORMED")) /\ InRange(Verdict("IP_FRAGMENT"))
      /\ InRange(Verdict("NOT_TCP")) /\ InRange(Verdict("NOT_IP"))
      /\ InRange(Verdict("UNSUPPORTED_LINK_TYPE"))
  BY DEF Verdict, InRange, Outcomes
<1>4. InRange(Ipv4(f))
  <2> DEFINE header == 1 + f.ext
             n == (IF f.stated THEN IpLength(f) ELSE 0) - header - 1
             tcpStored == IpStored(f) - header
  <2>1. n \in Int /\ tcpStored \in Int /\ header \in Int
    BY <1>1, <1>2
  <2>2. CASE header > IpStored(f)
    BY <1>2, <1>3, <2>1, <2>2 DEF Ipv4
  <2>3. CASE header <= IpStored(f) /\ (f.fragment \/ ~f.tcp \/ tcpStored < 1)
    BY <1>1, <1>2, <1>3, <2>1, <2>3 DEF Ipv4
  <2>4. CASE header <= IpStored(f) /\ ~f.fragment /\ f.tcp /\ ~(tcpStored < 1)
    <3>1. Ipv4(f) = Segment(n, tcpStored)
      BY <1>1, <1>2, <2>1, <2>4 DEF Ipv4
    <3>2. tcpStored >= 1
      BY <2>1, <2>4
    <3> HIDE DEF n, tcpStored
    <3> QED
      BY <2>1, <3>1, <3>2, SegmentInRange
  <2> QED
    BY <1>1, <1>2, <2>1, <2>2, <2>3, <2>4
<1>5. InRange(Ipv6(f))
  <2> DEFINE length == IF f.stated THEN IpLength(f) - 1 ELSE 0
             packet == Atmost(IpStored(f) - 1, length)
             tcpStored == packet - f.ext
             n == length - (IpStored(f) - tcpStored - 1) - 1
             fragment == f.fragment /\ packet >= 1
             tcp == ~fragment /\ f.tcp /\ tcpStored >= 1
  <2>1. length \in Int /\ packet \in Int
    BY <1>2, AtmostValue
  <2>2. tcpStored \in Int /\ n \in Int
    BY <1>1, <1>2, <2>1
  <2>3. CASE fragment
    BY <1>3, <2>3 DEF Ipv6
  <2>4. CASE ~fragment /\ ~tcp
    BY <1>3, <2>4 DEF Ipv6
  <2>5. CASE tcp
    <3>1. Ipv6(f) = Segment(n, tcpStored) /\ tcpStored >= 1
      BY <2>5 DEF Ipv6
    <3> HIDE DEF n, tcpStored
    <3> QED
      BY <2>2, <3>1, SegmentInRange
  <2> QED
    BY <2>3, <2>4, <2>5
<1>6. InRange(NetworkLayer(f))
  BY <1>1, <1>2, <1>3, <1>4, <1>5, TagAssumption DEF NetworkLayer
<1> QED
  BY <1>3, <1>6 DEF Dissect

LEMMA Ipv4Faithful ==
    ASSUME NEW f \in Frames, f.link # "UNSUPPORTED", f.family = "IPv4"
    PROVE  Faithful(f, Ipv4(f))
<1> DEFINE header == 1 + f.ext
           total == IF f.stated THEN IpLength(f) ELSE 0
           tcpStored == IpStored(f) - header
<1>1. /\ f.ext \in Nat /\ f.payload \in Nat /\ f.tags \in Nat /\ f.stored \in Nat
      /\ f.fragment \in BOOLEAN /\ f.tcp \in BOOLEAN /\ f.stated \in BOOLEAN
  BY FrameTypes
<1>2. IpStored(f) \in Int /\ IpLength(f) = 2 + f.ext + f.payload
  BY <1>1 DEF IpStored, LinkLength, IpLength
<1>3. Right(f) = IF f.fragment THEN "IP_FRAGMENT" ELSE IF f.tcp THEN "TCP" ELSE "NOT_TCP"
  BY DEF Right
<1>4. CASE header > IpStored(f)
  BY <1>1, <1>2, <1>4 DEF Ipv4, Verdict, Faithful
<1>5. CASE header <= IpStored(f) /\ f.fragment
  BY <1>1, <1>2, <1>3, <1>5 DEF Ipv4, Verdict, Faithful
<1>6. CASE header <= IpStored(f) /\ ~f.fragment /\ ~f.tcp
  BY <1>1, <1>2, <1>3, <1>6 DEF Ipv4, Verdict, Faithful
<1>7. CASE header <= IpStored(f) /\ ~f.fragment /\ f.tcp
  <2>1. Ipv4(f) = IF tcpStored < 1 THEN Verdict("MALFORMED")
                  ELSE Segment(total - header - 1, tcpStored)
    BY <1>1, <1>2, <1>7 DEF Ipv4
  <2>2. CASE tcpStored < 1
    BY <1>1, <2>1, <2>2 DEF Verdict, Faithful
  <2>3. CASE ~(tcpStored < 1)
    <3>1. /\ total - header - 1 \in Int /\ tcpStored \in Int
          /\ total - header - 1 = (IF f.stated THEN f.payload ELSE 0 - 2 - f.ext)
      BY <1>1, <1>2
    <3> DEFINE n == total - header - 1
               d == Segment(n, tcpStored)
    <3>2. /\ d.available \in Int /\ d.declared \in Int
          /\ n < 0 => d.outcome = "MALFORMED" /\ d.available = 0
          /\ n >= 0 => d.outcome = "TCP" /\ d.declared = n /\ d.available <= n
      BY <3>1, SegmentFaithful
    <3>3. Ipv4(f) = d
      BY <2>1, <2>3
    <3> HIDE DEF d, n
    <3>4. n = IF f.stated THEN f.payload ELSE 0 - 2 - f.ext
      BY <3>1 DEF n
    <3> QED
      BY <1>1, <1>3, <1>7, <3>2, <3>3, <3>4 DEF Faithful
  <2> QED
    BY <2>2, <2>3
<1> QED
  BY <1>1, <1>2, <1>4, <1>5, <1>6, <1>7

(* IPv6: a frame that is cut within the payload is no exception.            *)
LEMMA Ipv6Taken ==
    ASSUME NEW f \in Frames, f.link # "UNSUPPORTED", f.family = "IPv6"
    PROVE  Taken(f, Ipv6(f))
<1> DEFINE length == IF f.stated THEN IpLength(f) - 1 ELSE 0
           packet == Atmost(IpStored(f) - 1, length)
           tcpStored == packet - f.ext
           n == length - (IpStored(f) - tcpStored - 1) - 1
           fragment == f.fragment /\ packet >= 1
           tcp == ~fragment /\ f.tcp /\ tcpStored >= 1
<1>1. /\ f.ext \in Nat /\ f.payload \in Nat /\ f.tags \in Nat /\ f.stored \in Nat
      /\ f.fragment \in BOOLEAN /\ f.tcp \in BOOLEAN /\ f.stated \in BOOLEAN
  BY FrameTypes
<1>2. IpStored(f) \in Int /\ IpLength(f) = 2 + f.ext + f.payload
  BY <1>1 DEF IpStored, LinkLength, IpLength
<1>3. Right(f) = IF f.fragment THEN "IP_FRAGMENT" ELSE IF f.tcp THEN "TCP" ELSE "NOT_TCP"
  BY DEF Right
<1>4. /\ length \in Int /\ packet \in Int
      /\ packet = IF IpStored(f) - 1 <= length THEN IpStored(f) - 1 ELSE length
  BY <1>1, <1>2, AtmostValue
<1>5. /\ Ipv6(f) = CASE fragment -> Verdict("IP_FRAGMENT")
                     [] ~fragment /\ ~tcp -> Verdict("NOT_TCP")
                     [] tcp -> Segment(n, tcpStored)
      /\ tcpStored = packet - f.ext
      /\ n = length - (IpStored(f) - tcpStored - 1) - 1
      /\ fragment <=> f.fragment /\ packet >= 1
      /\ tcp <=> ~fragment /\ f.tcp /\ tcpStored >= 1
  BY DEF Ipv6
<1>6. length = IF f.stated THEN 1 + f.ext + f.payload ELSE 0
  BY <1>1, <1>2
<1> HIDE DEF length, packet, tcpStored, n, fragment, tcp
<1>7. CASE ~f.stated \/ IpStored(f) < 1 + f.ext + 1
  <2>1. Oddities(f) \cap Misleading # {}
    <3>1. "no length" \in Oddities(f) \/ "cut header" \in Oddities(f)
      BY <1>7 DEF Oddities
    <3> QED
      BY <3>1 DEF Misleading
  <2>2. ~(tcpStored >= 1)
    BY <1>1, <1>2, <1>4, <1>5, <1>6, <1>7
  <2>3. Ipv6(f) \in {Verdict("IP_FRAGMENT"), Verdict("NOT_TCP")}
    BY <1>5, <2>2
  <2>4. /\ Ipv6(f).available = 0 /\ Ipv6(f).declared = 0
        /\ Ipv6(f).outcome \in {"IP_FRAGMENT", "NOT_TCP"}
    BY <2>3 DEF Verdict
  <2>5. 0 \in Int /\ 0 <= f.payload
    BY <1>1
  <2> QED
    BY <2>1, <2>4, <2>5 DEF Taken
<1>8. CASE f.stated /\ ~(IpStored(f) < 1 + f.ext + 1)
  <2>1. packet >= 1 /\ tcpStored >= 1
    BY <1>1, <1>2, <1>4, <1>5, <1>6, <1>8
  <2>2. CASE f.fragment
    <3>1. Ipv6(f) = Verdict("IP_FRAGMENT")
      BY <1>5, <2>1, <2>2
    <3>2. Faithful(f, Ipv6(f))
      BY <1>1, <1>3, <2>2, <3>1 DEF Verdict, Faithful
    <3> QED
      BY <3>2, FaithfulIsTaken
  <2>3. CASE ~f.fragment /\ ~f.tcp
    <3>1. Ipv6(f) = Verdict("NOT_TCP")
      BY <1>5, <2>3
    <3>2. Faithful(f, Ipv6(f))
      BY <1>1, <1>3, <2>3, <3>1 DEF Verdict, Faithful
    <3> QED
      BY <3>2, FaithfulIsTaken
  <2>4. CASE ~f.fragment /\ f.tcp
    <3> DEFINE d == Segment(n, tcpStored)
    <3>1. Ipv6(f) = d
      BY <1>5, <2>1, <2>4
    <3>2. n \in Int /\ tcpStored \in Int
      BY <1>1, <1>2, <1>4, <1>5
    <3>3. /\ d.available \in Int /\ d.declared \in Int
          /\ n < 0 => d.outcome = "MALFORMED" /\ d.available = 0
          /\ n >= 0 => d.outcome = "TCP" /\ d.declared = n /\ d.available <= n
      BY <3>2, SegmentFaithful
    <3>4. n <= f.payload
      BY <1>1, <1>2, <1>4, <1>5, <1>6, <1>8
    <3>5. n = f.payload \/ "trailer" \in Oddities(f)
      <4>1. CASE IpStored(f) > IpLength(f)
        BY <4>1 DEF Oddities
      <4>2. CASE ~(IpStored(f) > IpLength(f))
        BY <1>1, <1>2, <1>4, <1>5, <1>6, <1>8, <4>2
      <4> QED
        BY <4>1, <4>2
    <3> HIDE DEF d
    <3>6. d.outcome \in {Right(f), "MALFORMED"} /\ d.available <= f.payload
      BY <1>1, <1>3, <2>4, <3>2, <3>3, <3>4
    <3>7. d.outcome = "TCP" => d.declared >= f.payload \/ "trailer" \in Oddities(f)
      BY <1>1, <3>2, <3>3, <3>5
    <3> QED
      BY <3>1, <3>3, <3>6, <3>7 DEF Taken
  <2> QED
    BY <1>1, <2>2, <2>3, <2>4
<1> QED
  BY <1>1, <1>7, <1>8

(* dissect.py: a frame read under its own link type is taken as it was sent *)
(* or rejected, whatever its options, padding and snapshot length, unless   *)
(* an oddity of its own explains the difference.                            *)
THEOREM DissectionIsFaithful ==
    ASSUME NEW f \in Frames
    PROVE  \A what \in Differs(f, Dissect(f, f.link)) :
             Explained([what |-> what, of |-> Oddities(f)])
<1>1. /\ f.tags \in Nat /\ f.stored \in Nat /\ f.payload \in Nat
      /\ f.family \in {"IPv4", "IPv6", "other"}
  BY FrameTypes, TagAssumption
<1>2. Taken(f, Dissect(f, f.link))
  <2>1. CASE f.link = "UNSUPPORTED"
    <3>1. Faithful(f, Dissect(f, f.link))
      BY <1>1, <2>1 DEF Dissect, Verdict, Faithful, Right
    <3> QED
      BY <3>1, FaithfulIsTaken
  <2>2. CASE f.link # "UNSUPPORTED"
    <3>1. Dissect(f, f.link) = NetworkLayer(f) /\ Walked(f) \in Int
      BY <1>1, <2>2, AtmostValue, TagAssumption DEF Dissect, Walked
    <3>2. CASE f.stored <= Walked(f)
      <4>1. Faithful(f, NetworkLayer(f))
        BY <1>1, <3>1, <3>2 DEF NetworkLayer, Verdict, Faithful
      <4> QED
        BY <3>1, <4>1, FaithfulIsTaken
    <3>3. CASE f.stored > Walked(f) /\ f.family = "other"
      <4>1. Faithful(f, NetworkLayer(f))
        BY <1>1, <2>2, <3>1, <3>3 DEF NetworkLayer, Verdict, Faithful, Right
      <4> QED
        BY <3>1, <4>1, FaithfulIsTaken
    <3>4. CASE f.stored > Walked(f) /\ f.family # "other" /\ f.tags > MaxTags
      <4>1. NetworkLayer(f) = Verdict("NOT_IP")
        BY <1>1, <3>1, <3>4, TagAssumption DEF NetworkLayer
      <4>2. Oddities(f) \cap Misleading # {}
        <5>1. "tags" \in Oddities(f)
          BY <3>4 DEF Oddities
        <5> QED
          BY <5>1 DEF Misleading
      <4> QED
        BY <1>1, <3>1, <4>1, <4>2 DEF Taken, Verdict
    <3>5. CASE f.stored > Walked(f) /\ f.family = "IPv4" /\ ~(f.tags > MaxTags)
      <4>1. NetworkLayer(f) = Ipv4(f)
        BY <1>1, <3>1, <3>5, TagAssumption DEF NetworkLayer
      <4> QED
        BY <2>2, <3>1, <3>5, <4>1, Ipv4Faithful, FaithfulIsTaken
    <3>6. CASE f.stored > Walked(f) /\ f.family = "IPv6" /\ ~(f.tags > MaxTags)
      <4>1. NetworkLayer(f) = Ipv6(f)
        BY <1>1, <3>1, <3>6, TagAssumption DEF NetworkLayer
      <4> QED
        BY <2>2, <3>1, <3>6, <4>1, Ipv6Taken
    <3> QED
      BY <1>1, <3>1, <3>2, <3>3, <3>4, <3>5, <3>6
  <2> QED
    BY <2>1, <2>2
<1> DEFINE d == Dissect(f, f.link)
<1> HIDE DEF d
<1>3. Taken(f, d)
  BY <1>2 DEF d
<1>4. ASSUME NEW what \in Differs(f, d) PROVE Explained([what |-> what, of |-> Oddities(f)])
  <2>1. CASE what = "kind"
    <3>1. Oddities(f) \cap Misleading # {}
      BY <1>3, <1>4, <2>1 DEF Differs, Taken
    <3> QED
      BY <2>1, <3>1 DEF Explained, Misleading
  <2>2. CASE what = "shortened"
    <3>1. "trailer" \in Oddities(f)
      BY <1>1, <1>3, <1>4, <2>2 DEF Differs, Taken
    <3> QED
      BY <2>2, <3>1 DEF Explained
  <2>3. what \in {"kind", "shortened"}
    BY <1>1, <1>3, <1>4 DEF Differs, Taken
  <2> QED
    BY <2>1, <2>2, <2>3
<1> QED
  BY <1>4 DEF d

-----------------------------------------------------------------------------
(* The interfaces the reader knows and those the file describes.            *)

Interface == [link : Links, whole : BOOLEAN]

Reader ==
    [format : {"PCAP", "PCAPNG"}, section : Seq(Links), stopped : BOOLEAN,
     truncated : BOOLEAN]

(* Up to the first interface that could not be decoded, they have the same  *)
(* numbers.                                                                 *)
NumberedInv ==
    /\ reader \in Reader /\ described \in Seq(Interface)
    /\ Len(reader.section) <= Len(described)
    /\ reader.format = "PCAP" => Len(reader.section) = 1 /\ Len(described) = 1
    /\ \A j \in 1..Len(described) :
         (\A i \in 1..j : described[i].whole) =>
           j <= Len(reader.section) /\ reader.section[j] = described[j].link

IngestionIInv == NumberedInv /\ \A m \in misread : Explained(m)

(* A damage that a record of the kind can have.                             *)
LEMMA RecordCases ==
    ASSUME NEW b \in FileRecords, MayFollow(b), reader.format \in {"PCAP", "PCAPNG"}
    PROVE  /\ b.link \in Links /\ b.iface \in 1..2
           /\ b.kind \in {"section", "interface", "packet", "simple", "other"}
           /\ b.damage \in {"none", "ends", "length", "big", "overrun", "short"}
           /\ reader.format = "PCAP" =>
                b.kind = "packet" /\ b.damage \in {"none", "ends", "big"}
           /\ b.kind = "packet" => b.iface \in DOMAIN described
           /\ b.kind = "simple" => b.damage # "overrun"
           /\ b.kind \in {"section", "other"} => b.damage \in {"none", "ends", "length"}
           /\ b.kind = "interface" => b.damage \in {"none", "ends", "length", "short"}
<1>1. /\ b.link \in Links /\ b.iface \in 1..2
      /\ b.kind \in {"section", "interface", "packet", "simple", "other"}
      /\ b.damage \in {"none", "ends", "length", "big", "overrun", "short"}
  BY DEF FileRecords, Records
<1>2. b.damage \in DamageOf(reader.format, b.kind)
  BY DEF MayFollow, DamageOf
<1> QED
  BY <1>1, <1>2 DEF MayFollow, DamageOf, KindsOf

(* Reading a record yields a packet only of an interface the reader knows.  *)
LEMMA ReadYields ==
    ASSUME NumberedInv, NEW b \in FileRecords, MayFollow(b),
           ReadRecord(reader, b).link # NoLink
    PROVE  /\ b.kind \in {"packet", "simple"} /\ InterfaceOf(b) \in DOMAIN reader.section
           /\ ReadRecord(reader, b).link = reader.section[InterfaceOf(b)]
           /\ ReadRecord(reader, b).reader = reader
<1> DEFINE kind == b.kind
           damage == b.damage
<1>1. /\ b.iface \in 1..2
      /\ kind \in {"section", "interface", "packet", "simple", "other"}
      /\ damage \in {"none", "ends", "length", "big", "overrun", "short"}
      /\ reader.format = "PCAP" => kind = "packet" /\ damage \in {"none", "ends", "big"}
      /\ kind = "packet" => b.iface \in DOMAIN described
      /\ kind = "simple" => damage # "overrun"
      /\ kind \in {"section", "other"} => damage \in {"none", "ends", "length"}
      /\ kind = "interface" => damage \in {"none", "ends", "length", "short"}
  BY RecordCases DEF NumberedInv, Reader
<1>2. /\ reader.format \in {"PCAP", "PCAPNG"} /\ reader.section \in Seq(Links)
      /\ described \in Seq(Interface)
      /\ DOMAIN reader.section = 1..Len(reader.section) /\ DOMAIN described = 1..Len(described)
      /\ reader.format = "PCAP" => Len(reader.section) = 1 /\ Len(described) = 1
  BY DEF NumberedInv, Reader
<1> USE DEF Outcome, Yield, Skip, Stop
<1>3. CASE reader.format = "PCAP"
  <2>1. kind = "packet" /\ b.iface = 1 /\ InterfaceOf(b) = 1
    BY <1>1, <1>2, <1>3 DEF InterfaceOf
  <2>2. ReadRecord(reader, b) = PcapRecord(reader, b)
    BY <1>3 DEF ReadRecord
  <2>3. damage = "none"
    BY <1>1, <1>3, <2>2 DEF PcapRecord
  <2>4. PcapRecord(reader, b) = Outcome(reader, reader.section[1], Silent)
    BY <2>3 DEF PcapRecord
  <2> QED
    BY <1>2, <1>3, <2>1, <2>2, <2>4
<1>4. CASE reader.format = "PCAPNG"
  <2>1. ReadRecord(reader, b) = PcapngBlock(reader, b)
    BY <1>4 DEF ReadRecord
  <2>2. CASE damage \in {"ends", "length"}
    BY <2>1, <2>2 DEF PcapngBlock, Framed
  <2>3. CASE damage \notin {"ends", "length"} /\ kind = "section"
    BY <2>1, <2>3 DEF PcapngBlock, Framed, NewSection
  <2>4. CASE damage \notin {"ends", "length"} /\ kind = "interface"
    BY <2>1, <2>4 DEF PcapngBlock, Framed, AddInterface
  <2>5. CASE damage \notin {"ends", "length"} /\ kind = "other"
    BY <2>1, <2>5 DEF PcapngBlock, Framed
  <2>6. CASE damage \notin {"ends", "length"} /\ kind = "packet"
    <3>1. ReadRecord(reader, b) = EnhancedPacket(reader, b)
      BY <2>1, <2>6 DEF PcapngBlock, Framed
    <3>2. damage = "none" /\ Known(reader, b.iface)
      BY <1>1, <2>6, <3>1 DEF EnhancedPacket
    <3>3. EnhancedPacket(reader, b) = Outcome(reader, reader.section[b.iface], Silent)
      BY <3>2 DEF EnhancedPacket
    <3> QED
      BY <2>6, <3>1, <3>2, <3>3 DEF Known, InterfaceOf
  <2>7. CASE damage \notin {"ends", "length"} /\ kind = "simple"
    <3>1. ReadRecord(reader, b) = SimplePacket(reader, b)
      BY <2>1, <2>7 DEF PcapngBlock, Framed
    <3>2. damage = "none" /\ Known(reader, 1)
      BY <1>1, <2>7, <3>1 DEF SimplePacket
    <3>3. SimplePacket(reader, b) = Outcome(reader, reader.section[1], "UNSUPPORTED_BLOCK_TYPE")
      BY <3>2 DEF SimplePacket
    <3> QED
      BY <2>7, <3>1, <3>2, <3>3 DEF Known, InterfaceOf
  <2> QED
    BY <1>1, <2>2, <2>3, <2>4, <2>5, <2>6, <2>7
<1> QED
  BY <1>2, <1>3, <1>4

(* A record of the file leaves the interfaces numbered alike.               *)
LEMMA NumberedPreserved ==
    ASSUME NumberedInv, NEW b \in FileRecords, MayFollow(b), NextRecord(b),
           reader' = ReadRecord(reader, b).reader
    PROVE  NumberedInv'
<1> DEFINE kind == b.kind
           damage == b.damage
<1>1. /\ b.link \in Links /\ kind \in {"section", "interface", "packet", "simple", "other"}
      /\ damage \in {"none", "ends", "length", "big", "overrun", "short"}
      /\ reader.format = "PCAP" => kind = "packet" /\ damage \in {"none", "ends", "big"}
      /\ kind = "simple" => damage # "overrun"
      /\ kind \in {"section", "other"} => damage \in {"none", "ends", "length"}
      /\ kind = "interface" => damage \in {"none", "ends", "length", "short"}
  BY RecordCases DEF NumberedInv, Reader
<1>2. /\ reader \in Reader /\ reader.format \in {"PCAP", "PCAPNG"}
      /\ reader.section \in Seq(Links) /\ described \in Seq(Interface)
  BY DEF NumberedInv, Reader
<1>3. ASSUME reader' \in Reader, reader'.section = reader.section,
             reader'.format = reader.format, described' = described
      PROVE  NumberedInv'
  BY <1>3 DEF NumberedInv
<1> USE DEF Outcome, Yield, Skip, Stop
<1>4. CASE damage \in {"ends", "length"}
  <2>1. described' = described
    BY <1>4 DEF NextRecord, Framed
  <2>2. reader' = [reader EXCEPT !.stopped = TRUE, !.truncated = TRUE]
    BY <1>1, <1>2, <1>4 DEF ReadRecord, PcapRecord, PcapngBlock, Framed
  <2> QED
    BY <1>2, <1>3, <2>1, <2>2 DEF Reader
<1>5. CASE damage \notin {"ends", "length"} /\ reader.format = "PCAP"
  <2>1. described' = described
    BY <1>1, <1>5 DEF NextRecord
  <2>2. reader' = reader \/ reader' = [reader EXCEPT !.stopped = TRUE, !.truncated = TRUE]
    BY <1>1, <1>5 DEF ReadRecord, PcapRecord
  <2> QED
    BY <1>2, <1>3, <2>1, <2>2 DEF Reader
<1>6. CASE damage \notin {"ends", "length"} /\ reader.format = "PCAPNG"
  <2>1. reader' = PcapngBlock(reader, b).reader
    BY <1>6 DEF ReadRecord
  <2>2. CASE kind = "section"
    <3>1. described' = << >> /\ reader' = [reader EXCEPT !.section = << >>]
      BY <1>6, <2>1, <2>2 DEF NextRecord, PcapngBlock, Framed, NewSection
    <3>2. << >> \in Seq(Links) /\ << >> \in Seq(Interface)
      OBVIOUS
    <3>3. reader' \in Reader /\ reader'.section = << >> /\ reader'.format = "PCAPNG"
      BY <1>2, <1>6, <3>1, <3>2 DEF Reader
    <3> QED
      BY <3>1, <3>2, <3>3 DEF NumberedInv
  <2>3. CASE kind = "interface"
    <3> DEFINE i == [link |-> b.link, whole |-> damage = "none"]
    <3>1. /\ described' = Append(described, i) /\ i \in Interface
          /\ reader' = AddInterface(reader, b).reader
      BY <1>1, <1>6, <2>1, <2>3 DEF NextRecord, PcapngBlock, Framed, Interface
    <3>2. i.link = b.link /\ (i.whole <=> damage = "none")
      OBVIOUS
    <3> HIDE DEF i
    <3>3. /\ described' \in Seq(Interface) /\ Len(described') = Len(described) + 1
          /\ described'[Len(described) + 1] = i
          /\ \A j \in 1..Len(described) : described'[j] = described[j]
          /\ Len(described) \in Nat /\ Len(reader.section) \in Nat
          /\ Len(reader.section) <= Len(described)
      BY <1>2, <3>1 DEF NumberedInv
    <3>4. \A j \in 1..Len(described) :
            (\A l \in 1..j : described'[l].whole) =>
              j <= Len(reader.section) /\ reader.section[j] = described'[j].link
      <4> SUFFICES ASSUME NEW j \in 1..Len(described), \A l \in 1..j : described'[l].whole
                   PROVE  j <= Len(reader.section) /\ reader.section[j] = described'[j].link
        OBVIOUS
      <4>1. \A l \in 1..j : described[l].whole
        BY <3>3
      <4>2. j <= Len(reader.section) /\ reader.section[j] = described[j].link
        BY <4>1 DEF NumberedInv
      <4> QED
        BY <3>3, <4>2
    <3>5. CASE damage = "short"
      <4>1. reader' = reader
        BY <3>1, <3>5 DEF AddInterface
      <4>2. ~described'[Len(described) + 1].whole
        BY <3>2, <3>3, <3>5
      <4>3. ASSUME NEW j \in 1..Len(described'), \A l \in 1..j : described'[l].whole
            PROVE  j \in 1..Len(described)
        <5>1. j # Len(described) + 1
          BY <3>3, <4>2, <4>3
        <5> QED
          BY <3>3, <5>1
      <4> QED
        BY <1>2, <1>6, <3>3, <3>4, <4>1, <4>3 DEF NumberedInv
    <3>6. CASE damage = "none"
      <4>1. reader' = [reader EXCEPT !.section = Append(reader.section, b.link)]
        BY <3>1, <3>6 DEF AddInterface
      <4>2. /\ reader' \in Reader /\ reader'.format = "PCAPNG"
            /\ reader'.section = Append(reader.section, b.link)
        <5>1. Append(reader.section, b.link) \in Seq(Links)
          BY <1>1, <1>2
        <5> QED
          BY <1>2, <1>6, <4>1, <5>1 DEF Reader
      <4> DEFINE s == reader.section
                 t == reader'.section
                 L == Len(described)
      <4>3. /\ Len(t) = Len(s) + 1 /\ t[Len(s) + 1] = b.link
            /\ \A j \in 1..Len(s) : t[j] = s[j]
        BY <1>1, <1>2, <4>2
      <4>4. /\ Len(s) \in Nat /\ L \in Nat /\ Len(s) <= L /\ Len(described') = L + 1
            /\ described'[L + 1].link = b.link
            /\ \A j \in 1..L :
                 (\A l \in 1..j : described'[l].whole) => j <= Len(s) /\ s[j] = described'[j].link
        BY <3>2, <3>3, <3>4
      <4>5. ASSUME NEW j \in 1..(L + 1), \A l \in 1..j : described'[l].whole
            PROVE  j <= Len(t) /\ t[j] = described'[j].link
        <5> HIDE DEF s, t, L
        <5>1. CASE j \in 1..L
          <6>1. j <= Len(s) /\ s[j] = described'[j].link
            BY <4>4, <4>5, <5>1
          <6> QED
            BY <4>3, <4>4, <5>1, <6>1
        <5>2. CASE j = L + 1
          <6>1. L <= Len(s)
            <7>1. CASE L = 0
              BY <4>4, <7>1
            <7>2. CASE L # 0
              <8>1. L \in 1..L /\ \A l \in 1..L : described'[l].whole
                BY <4>4, <4>5, <5>2, <7>2
              <8> QED
                BY <4>4, <8>1
            <7> QED
              BY <7>1, <7>2
          <6>2. Len(s) = L
            BY <4>4, <6>1
          <6> QED
            BY <4>3, <4>4, <5>2, <6>2
        <5> QED
          BY <4>4, <5>1, <5>2
      <4> QED
        BY <3>3, <4>2, <4>3, <4>4, <4>5 DEF NumberedInv
    <3> QED
      BY <1>1, <1>6, <2>3, <3>5, <3>6
  <2>4. CASE kind \in {"packet", "simple", "other"}
    <3>1. described' = described
      BY <2>4 DEF NextRecord
    <3>2. reader' = reader
      BY <1>1, <1>6, <2>1, <2>4
         DEF PcapngBlock, Framed, EnhancedPacket, SimplePacket, Known
    <3> QED
      BY <1>2, <1>3, <3>1, <3>2
  <2> QED
    BY <1>1, <2>2, <2>3, <2>4
<1> QED
  BY <1>2, <1>4, <1>5, <1>6

(* An allowed taking of a frame.                                            *)
LEMMA TakingsTyped ==
    ASSUME NEW sent \in Links, NEW read \in Links, NEW taken \in Takings[sent][read]
    PROVE  /\ taken.payload \in Payload /\ taken.outcome \in Outcomes
           /\ \A m \in taken.misread : m = [what |-> m.what, of |-> m.of]
           /\ sent = read => \A m \in taken.misread : Explained(m)
           /\ sent # read => \A m \in taken.misread : m.what = "kind"
<1> DEFINE T(f, p) ==
             LET d == Dissect(f, read)
             IN  [outcome |-> d.outcome, payload |-> p, empty |-> f.payload = 0,
                  misread |-> [what : Differs(f, d), of : {Oddities(f)}],
                  unnoticed |-> /\ d.outcome = "TCP" /\ d.available < f.payload
                                /\ p \in {"none", "clean"}]
<1>1. PICK f \in Frames : /\ f.link = sent
                          /\ \E p \in PayloadOf(Dissect(f, read)) : taken = T(f, p)
  BY DEF Takings
<1>2. PICK p \in PayloadOf(Dissect(f, read)) : taken = T(f, p)
  BY <1>1
<1>3. /\ taken.payload = p /\ taken.outcome = Dissect(f, read).outcome
      /\ taken.misread = [what : Differs(f, Dissect(f, read)), of : {Oddities(f)}]
  BY <1>2
<1>4. ASSUME NEW m \in taken.misread
      PROVE  /\ m = [what |-> m.what, of |-> m.of]
             /\ m.what \in Differs(f, Dissect(f, read)) /\ m.of = Oddities(f)
  BY <1>3
<1>6. ASSUME sent = read, NEW m \in taken.misread PROVE Explained(m)
  <2>1. Explained([what |-> m.what, of |-> Oddities(f)])
    BY <1>1, <1>4, <1>6, DissectionIsFaithful
  <2> QED
    BY <1>4, <1>6, <2>1
<1>7. ASSUME sent # read, NEW m \in taken.misread PROVE m.what = "kind"
  <2> DEFINE d == Dissect(f, read)
  <2>1. d \in {Verdict("UNSUPPORTED_LINK_TYPE"), Verdict("NOT_IP")} /\ f.payload \in Nat
    BY <1>1, <1>7, FrameTypes DEF Dissect
  <2>2. d.outcome # "TCP" /\ d.available = 0
    BY <2>1 DEF Verdict
  <2> HIDE DEF d
  <2>3. Differs(f, d) \subseteq {"kind"}
    BY <2>1, <2>2 DEF Differs
  <2> QED
    BY <1>4, <2>3 DEF d
<1>5. p \in Payload /\ Dissect(f, read).outcome \in Outcomes
  <2> DEFINE d == Dissect(f, read)
  <2>1. /\ d.available \in Nat /\ d.declared \in Nat /\ d.available <= d.declared
        /\ d.outcome \in Outcomes
    BY <1>1, DissectInRange DEF InRange
  <2> HIDE DEF d
  <2>2. PayloadOf(d) \subseteq Payload
    <3>1. CASE d.available = 0
      BY <2>1, <3>1 DEF PayloadOf, Payload
    <3>2. CASE d.available > 0 /\ d.available < d.declared
      BY <2>1, <3>2 DEF PayloadOf, Payload
    <3>3. CASE d.available > 0 /\ d.available = d.declared
      BY <2>1, <3>3 DEF PayloadOf, Payload
    <3> QED
      BY <2>1, <3>1, <3>2, <3>3
  <2> QED
    BY <1>2, <2>1, <2>2 DEF d
<1> QED
  BY <1>3, <1>4, <1>5, <1>6, <1>7

-----------------------------------------------------------------------------
(* The steps of ingestion.                                                  *)

(* The link type a yielded packet is read under is the one of the interface *)
(* the file means, if all interfaces up to it could be decoded.             *)
LEMMA LinkIsTrue ==
    ASSUME NumberedInv, NEW b \in FileRecords, MayFollow(b),
           ReadRecord(reader, b).link # NoLink
    PROVE  /\ TrueLink(b) \in Links /\ ReadRecord(reader, b).link \in Links
           /\ ~Misnumbered(b) => TrueLink(b) = ReadRecord(reader, b).link
<1> DEFINE i == InterfaceOf(b)
<1>1. i \in DOMAIN reader.section /\ ReadRecord(reader, b).link = reader.section[i]
  BY ReadYields
<1>2. /\ reader.section \in Seq(Links) /\ described \in Seq(Interface)
      /\ Len(reader.section) <= Len(described)
  BY DEF NumberedInv, Reader
<1>3. i \in 1..Len(described) /\ i \in DOMAIN described /\ described[i] \in Interface
  BY <1>1, <1>2
<1>4. TrueLink(b) = described[i].link /\ described[i].link \in Links
  BY <1>3 DEF TrueLink, Interface
<1>5. ASSUME ~Misnumbered(b) PROVE reader.section[i] = described[i].link
  <2>1. \A l \in 1..i : described[l].whole
    BY <1>2, <1>3, <1>5 DEF Misnumbered
  <2> QED
    BY <1>3, <2>1 DEF NumberedInv
<1> QED
  BY <1>1, <1>2, <1>4, <1>5

LEMMA IngestionStep ==
    ASSUME IngestionIInv, [IngestionNext]_allVars
    PROVE  IngestionIInv' /\ [Next]_vars
<1> DEFINE Goal == IngestionIInv' /\ [Next]_vars
<1>1. ASSUME NEW b \in FileRecords, MayFollow(b), PassOver(b) PROVE Goal
  <2>1. NextRecord(b) /\ reader' = ReadRecord(reader, b).reader /\ UNCHANGED <<vars, misread>>
    BY <1>1 DEF PassOver
  <2>2. NumberedInv'
    BY <1>1, <2>1, NumberedPreserved DEF IngestionIInv
  <2> QED
    BY <2>1, <2>2 DEF IngestionIInv
<1>2. ASSUME NEW b \in FileRecords, MayFollow(b), LimitReached(b) PROVE Goal
  <2>1. /\ NextRecord(b) /\ ReadRecord(reader, b).link # NoLink /\ UNCHANGED <<vars, misread>>
        /\ reader' = [reader EXCEPT !.stopped = TRUE, !.truncated = TRUE]
    BY <1>2 DEF LimitReached
  <2>2. b.kind \in {"packet", "simple"}
    BY <1>2, <2>1, ReadYields DEF IngestionIInv
  <2>3. described' = described
    BY <2>1, <2>2 DEF NextRecord
  <2>4. reader \in Reader
    BY DEF IngestionIInv, NumberedInv
  <2>5. reader' \in Reader /\ reader'.section = reader.section /\ reader'.format = reader.format
    BY <2>1, <2>4 DEF Reader
  <2>6. NumberedInv'
    BY <2>3, <2>5 DEF IngestionIInv, NumberedInv
  <2> QED
    BY <2>1, <2>6 DEF IngestionIInv
<1>3. ASSUME NEW b \in FileRecords, MayFollow(b), ReadRecord(reader, b).link # NoLink,
             NEW taken \in Takings[TrueLink(b)][ReadRecord(reader, b).link],
             NotTcp(b, taken) \/ Tcp(b, taken)
      PROVE  Goal
  <2>1. /\ TrueLink(b) \in Links /\ ReadRecord(reader, b).link \in Links
        /\ ~Misnumbered(b) => TrueLink(b) = ReadRecord(reader, b).link
    BY <1>3, LinkIsTrue DEF IngestionIInv
  <2>2. /\ taken.payload \in Payload
        /\ \A m \in taken.misread : m = [what |-> m.what, of |-> m.of]
        /\ \A m \in taken.misread : Explained(m) \/ (Misnumbered(b) /\ m.what = "kind")
    BY <1>3, <2>1, TakingsTyped
  <2>3. TakeFrame(b, taken)
    BY <1>3 DEF NotTcp, Tcp
  <2>4. NumberedInv'
    BY <1>3, <2>3, NumberedPreserved DEF IngestionIInv, TakeFrame
  <2>5. \A m \in misread' : Explained(m)
    <3>1. ASSUME NEW m \in taken.misread PROVE Explained(Oddly(b, m))
      <4>1. CASE Misnumbered(b)
        <5>1. Oddly(b, m) = [what |-> m.what, of |-> m.of \cup {"numbering"}]
          BY <2>2, <4>1 DEF Oddly
        <5>2. m.what = "kind" \/ (m.what = "shortened" /\ "trailer" \in m.of)
          BY <2>2 DEF Explained
        <5> DEFINE o == Oddly(b, m)
        <5>3. o.what = m.what /\ o.of = m.of \cup {"numbering"}
          BY <5>1
        <5> HIDE DEF o
        <5>4. "numbering" \in o.of \cap {"numbering", "tags", "no length", "cut header"}
          BY <5>3
        <5>5. Explained(o)
          BY <5>2, <5>3, <5>4 DEF Explained
        <5> QED
          BY <5>5 DEF o
      <4>2. CASE ~Misnumbered(b)
        <5>1. Oddly(b, m) = m
          BY <2>2, <4>2 DEF Oddly
        <5> QED
          BY <2>2, <4>2, <5>1
      <4> QED
        BY <4>1, <4>2
    <3>2. misread' = misread \cup {Oddly(b, m) : m \in taken.misread}
      BY <2>3 DEF TakeFrame
    <3> QED
      BY <3>1, <3>2 DEF IngestionIInv
  <2>6. [Next]_vars
    <3>1. CASE NotTcp(b, taken)
      BY <3>1 DEF NotTcp
    <3>2. CASE Tcp(b, taken)
      <4>1. \E k \in Keys :
               \/ CaptureSyn(k)
               \/ \E from \in {"a", "b"}, flags \in LaterFlags :
                    CaptureLater(k, from, flags, taken.payload)
        BY <3>2 DEF Tcp
      <4> QED
        BY <2>2, <4>1 DEF Next
    <3> QED
      BY <1>3, <3>1, <3>2
  <2> QED
    BY <2>4, <2>5, <2>6 DEF IngestionIInv
<1>4. ASSUME NEW k \in Keys, NextConnection(k), UNCHANGED ingestion PROVE Goal
  <2>1. UNCHANGED <<reader, described, misread>>
    BY <1>4 DEF ingestion, progress, file
  <2> QED
    BY <1>4, <2>1 DEF IngestionIInv, NumberedInv, Next
<1>5. CASE UNCHANGED allVars
  <2>1. UNCHANGED <<reader, described, misread, vars>>
    BY <1>5 DEF allVars, ingestion, progress, file
  <2> QED
    BY <2>1 DEF IngestionIInv, NumberedInv
<1> QED
  BY <1>1, <1>2, <1>3, <1>4, <1>5 DEF IngestionNext

LEMMA IngestionInitial == IngestionInit => IngestionIInv /\ Init
<1> SUFFICES ASSUME IngestionInit PROVE IngestionIInv /\ Init
  OBVIOUS
<1>1. PICK format \in {"PCAP", "PCAPNG"}, l \in Links :
         /\ reader = NewReader(format, l)
         /\ described = [i \in DOMAIN reader.section |-> [link |-> l, whole |-> TRUE]]
  BY DEF IngestionInit
<1> DEFINE section == IF format = "PCAP" THEN << l >> ELSE << >>
<1>2. section \in Seq(Links) /\ Len(section) = IF format = "PCAP" THEN 1 ELSE 0
  OBVIOUS
<1>3. reader \in Reader /\ reader.format = format /\ reader.section = section
  BY <1>1, <1>2 DEF NewReader, Reader
<1>4. /\ described \in Seq(Interface) /\ Len(described) = Len(section)
      /\ \A i \in 1..Len(section) : described[i].link = section[i]
  <2>1. CASE format = "PCAP"
    <3>1. described = [i \in 1..1 |-> [link |-> l, whole |-> TRUE]]
      BY <1>1, <1>2, <1>3, <2>1
    <3>2. described \in Seq(Interface) /\ Len(described) = 1 /\ described[1].link = l
      BY <3>1 DEF Interface
    <3> QED
      BY <1>2, <2>1, <3>2
  <2>2. CASE format = "PCAPNG"
    <3>1. described = [i \in 1..0 |-> [link |-> l, whole |-> TRUE]]
      BY <1>1, <1>2, <1>3, <2>2
    <3>2. described \in Seq(Interface) /\ Len(described) = 0
      BY <3>1
    <3> QED
      BY <1>2, <2>2, <3>2
  <2> QED
    BY <2>1, <2>2
<1> HIDE DEF section
<1>5. NumberedInv
  <2>1. Len(reader.section) = Len(described) /\ Len(described) \in Nat
    BY <1>2, <1>3, <1>4
  <2>2. \A i \in 1..Len(described) : reader.section[i] = described[i].link
    BY <1>3, <1>4, <2>1
  <2>3. reader.format = "PCAP" => Len(described) = 1
    BY <1>2, <1>3, <1>4
  <2> QED
    BY <1>3, <1>4, <2>1, <2>2, <2>3 DEF NumberedInv
<1> QED
  BY <1>5 DEF IngestionIInv, IngestionInit

(* dissect.py, pcapng_reader.py: every frame of any file is read under the  *)
(* link type of its own interface, in whichever section, and what is handed *)
(* on is what its sender put there, unless one of the five oddities the     *)
(* property names explains the difference.                                  *)
THEOREM PacketsTakenAsSent == IngestionSpec => []PacketsAreTakenAsSent
<1>1. IngestionInit => IngestionIInv
  BY IngestionInitial
<1>2. IngestionIInv /\ [IngestionNext]_allVars => IngestionIInv'
  BY IngestionStep
<1>3. IngestionIInv => PacketsAreTakenAsSent
  BY DEF IngestionIInv, PacketsAreTakenAsSent
<1> QED
  BY <1>1, <1>2, <1>3, PTL DEF IngestionSpec

(* pipeline.py: a capture read from a file, whatever is wrong with it, does *)
(* to the sessions only what the session engine does with some traffic.     *)
THEOREM IngestionUsesTheEngine == IngestionSpec => Spec
<1>1. IngestionInit => IngestionIInv /\ Init
  BY IngestionInitial
<1>2. IngestionIInv /\ [IngestionNext]_allVars => IngestionIInv' /\ [Next]_vars
  BY IngestionStep
<1> QED
  BY <1>1, <1>2, PTL DEF IngestionSpec, Spec

(* So the sessions of a file's report have the properties of the engine's:  *)
(* no connection merged into an earlier session, none split over two but by *)
(* a late SYN, and none labelled MIDSTREAM that begins with its SYN.        *)
THEOREM SessionsOfAFile ==
    IngestionSpec => [](NeverMerged /\ NeverSplit /\ MidstreamIsReal)
  BY IngestionUsesTheEngine, ConnectionsNeverMerged, ConnectionsNeverSplit,
     MidstreamIsOfTheCapture, PTL

-----------------------------------------------------------------------------
(* Sums over tables.                                                        *)

Total(F) == FoldFunction(+, 0, F)

(* The equation behind a sum over the subsets of S, and its solution.       *)
Chosen(s) == CHOOSE x \in s : TRUE
Adds(F, S, t) ==
    t = [s \in SUBSET S |-> IF s = {} THEN 0 ELSE F[Chosen(s)] + t[s \ {Chosen(s)}]]
Tally(F, S) == CHOOSE t : Adds(F, S, t)

LEMMA TallyIsSum == ASSUME NEW F PROVE Total(F) = Tally(F, DOMAIN F)[DOMAIN F]
  BY DEF Total, FoldFunction, FoldFunctionOnSet, MapThenFoldSet, Tally, Adds, Chosen

LEMMA ChosenIsIn == ASSUME NEW s, s # {} PROVE Chosen(s) \in s
  BY DEF Chosen

LEMMA TallyExists == ASSUME NEW F, NEW S, IsFiniteSet(S) PROVE Adds(F, S, Tally(F, S))
<1> DEFINE next(g) == [s \in SUBSET S |-> IF s = {} THEN 0 ELSE F[Chosen(s)] + g[s \ {Chosen(s)}]]
           upTo(n, g) == \A s \in SUBSET S : Cardinality(s) <= n => g[s] = next(g)[s]
           good == {n \in Nat : \E g : upTo(n, g)}
<1>1. 0 \in good
  <2>1. upTo(0, [s \in SUBSET S |-> 0])
    <3> DEFINE g == [s \in SUBSET S |-> 0]
    <3>1. SUFFICES ASSUME NEW s \in SUBSET S, Cardinality(s) <= 0 PROVE g[s] = next(g)[s]
      OBVIOUS
    <3>2. IsFiniteSet(s) /\ Cardinality(s) \in Nat
      BY FS_Subset, FS_CardinalityType
    <3>3. s = {}
      BY <3>1, <3>2, FS_EmptySet
    <3> QED
      BY <3>3
  <2> QED
    BY <2>1
<1>2. ASSUME NEW n \in good PROVE n + 1 \in good
  <2>1. PICK g : upTo(n, g)
    OBVIOUS
  <2> DEFINE h == next(g)
  <2>2. ASSUME NEW s \in SUBSET S, Cardinality(s) <= n + 1 PROVE h[s] = next(h)[s]
    <3>1. CASE s = {}
      BY <3>1
    <3>2. CASE s # {}
      <4> DEFINE r == s \ {Chosen(s)}
      <4>1. Chosen(s) \in s
        BY <3>2 DEF Chosen
      <4>2. IsFiniteSet(s) /\ Cardinality(s) \in Nat /\ Cardinality(r) = Cardinality(s) - 1
        BY <4>1, FS_Subset, FS_CardinalityType, FS_RemoveElement
      <4>3. r \in SUBSET S /\ Cardinality(r) <= n
        BY <2>2, <4>2
      <4>4. g[r] = next(g)[r]
        BY <2>1, <4>3
      <4>5. h[s] = F[Chosen(s)] + g[r]
        BY <3>2
      <4>6. next(h)[s] = F[Chosen(s)] + h[r]
        BY <3>2
      <4> QED
        BY <4>4, <4>5, <4>6
    <3> QED
      BY <3>1, <3>2
  <2>3. upTo(n + 1, h)
    BY <2>2
  <2>4. \E f : upTo(n + 1, f)
    <3> HIDE DEF upTo, next
    <3> QED
      BY <2>3
  <2> HIDE DEF upTo, next
  <2> QED
    BY <2>4
<1>3. good = Nat
  <2> HIDE DEF good
  <2> QED
    BY <1>1, <1>2, Upwards DEF good
<1>4. Cardinality(S) \in good
  BY <1>3, FS_CardinalityType
<1>5. PICK g : upTo(Cardinality(S), g)
  BY <1>4
<1> DEFINE t == next(g)
<1>6. \A s \in SUBSET S : g[s] = t[s]
  BY <1>5, FS_Subset
<1>7. ASSUME NEW s \in SUBSET S, s # {} PROVE s \ {Chosen(s)} \in SUBSET S
  OBVIOUS
<1>8. t = next(t)
  <2>1. \A s \in SUBSET S : next(g)[s] = next(t)[s]
    BY <1>6
  <2> QED
    BY <2>1
<1>9. Adds(F, S, t)
  BY <1>8 DEF Adds
<1> QED
  BY <1>9 DEF Tally

LEMMA AddsValue ==
    ASSUME NEW F, NEW S, NEW t, Adds(F, S, t), NEW s \in SUBSET S
    PROVE  t[s] = IF s = {} THEN 0 ELSE F[Chosen(s)] + t[s \ {Chosen(s)}]
<1>1. t = [r \in SUBSET S |-> IF r = {} THEN 0 ELSE F[Chosen(r)] + t[r \ {Chosen(r)}]]
  BY DEF Adds
<1> QED
  BY <1>1

LEMMA TallyValue ==
    ASSUME NEW F, NEW S, IsFiniteSet(S), NEW s \in SUBSET S
    PROVE  Tally(F, S)[s] = IF s = {} THEN 0
                            ELSE F[Chosen(s)] + Tally(F, S)[s \ {Chosen(s)}]
  BY TallyExists, AddsValue

LEMMA TallyTakes ==
    ASSUME NEW F, NEW S, IsFiniteSet(S), NEW s \in SUBSET S, s # {}
    PROVE  /\ Chosen(s) \in s
           /\ Tally(F, S)[s] = F[Chosen(s)] + Tally(F, S)[s \ {Chosen(s)}]
  BY TallyValue, ChosenIsIn

(* Two sums over the same entries are equal.                                *)
LEMMA TallyAgrees ==
    ASSUME NEW F, NEW G, NEW S, NEW T, IsFiniteSet(S), IsFiniteSet(T)
    PROVE  \A s \in SUBSET (S \cap T) :
              (\A x \in s : F[x] = G[x]) => Tally(F, S)[s] = Tally(G, T)[s]
<1> DEFINE same(s) == (\A x \in s : F[x] = G[x]) => Tally(F, S)[s] = Tally(G, T)[s]
           good == {n \in Nat : \A s \in SUBSET (S \cap T) : Cardinality(s) = n => same(s)}
<1>1. ASSUME NEW s \in SUBSET (S \cap T)
      PROVE  IsFiniteSet(s) /\ Cardinality(s) \in Nat /\ s \in SUBSET S /\ s \in SUBSET T
  BY FS_Subset, FS_CardinalityType
<1>2. 0 \in good
  <2>1. ASSUME NEW s \in SUBSET (S \cap T), Cardinality(s) = 0 PROVE same(s)
    <3>1. s = {}
      BY <1>1, <2>1, FS_EmptySet
    <3> QED
      BY <1>1, <3>1, TallyValue
  <2> QED
    BY <2>1
<1>3. ASSUME NEW n \in good PROVE n + 1 \in good
  <2>1. ASSUME NEW s \in SUBSET (S \cap T), Cardinality(s) = n + 1,
               \A x \in s : F[x] = G[x]
        PROVE  Tally(F, S)[s] = Tally(G, T)[s]
    <3> DEFINE r == s \ {Chosen(s)}
    <3>1. IsFiniteSet(s) /\ s # {} /\ s \in SUBSET S /\ s \in SUBSET T
      BY <1>1, <2>1, FS_EmptySet
    <3>2. Chosen(s) \in s
      BY <3>1 DEF Chosen
    <3>3. Cardinality(r) = n /\ r \in SUBSET (S \cap T)
      <4> HIDE DEF good
      <4>1. Cardinality(r) = Cardinality(s) - 1
        BY <3>1, <3>2, FS_RemoveElement
      <4> QED
        BY <1>1, <2>1, <4>1 DEF good
    <3>4. Tally(F, S)[r] = Tally(G, T)[r]
      BY <2>1, <3>3
    <3>5. /\ Tally(F, S)[s] = F[Chosen(s)] + Tally(F, S)[r]
          /\ Tally(G, T)[s] = G[Chosen(s)] + Tally(G, T)[r]
      BY <3>1, TallyValue
    <3>6. F[Chosen(s)] = G[Chosen(s)]
      BY <2>1, <3>2
    <3> QED
      BY <3>4, <3>5, <3>6
  <2> QED
    BY <2>1
<1>4. good = Nat
  <2> HIDE DEF good
  <2> QED
    BY <1>2, <1>3, Upwards DEF good
<1>5. TAKE s \in SUBSET (S \cap T)
<1>6. Cardinality(s) \in good
  BY <1>1, <1>4
<1> QED
  BY <1>6

(* A sum does not depend on the order in which its entries are taken.       *)
LEMMA TallySplits ==
    ASSUME NEW S, IsFiniteSet(S), NEW F, \A x \in S : F[x] \in Int
    PROVE  \A s \in SUBSET S :
              /\ Tally(F, S)[s] \in Int
              /\ \A x \in s : Tally(F, S)[s] = F[x] + Tally(F, S)[s \ {x}]
<1> DEFINE t == Tally(F, S)
           splits(s) == t[s] \in Int /\ \A x \in s : t[s] = F[x] + t[s \ {x}]
           good == {n \in Nat : \A s \in SUBSET S : Cardinality(s) <= n => splits(s)}
<1>1. ASSUME NEW s \in SUBSET S
      PROVE  IsFiniteSet(s) /\ Cardinality(s) \in Nat
  BY FS_Subset, FS_CardinalityType
<1>2. ASSUME NEW s \in SUBSET S, s # {}
      PROVE  Chosen(s) \in s /\ t[s] = F[Chosen(s)] + t[s \ {Chosen(s)}]
  <2> HIDE DEF splits, good
  <2> QED
    BY <1>2, TallyTakes
<1>3. t[{}] = 0
  BY TallyValue
<1> HIDE DEF t
<1>4. 0 \in good
  <2>1. ASSUME NEW s \in SUBSET S, Cardinality(s) <= 0 PROVE splits(s)
    <3>1. s = {}
      BY <1>1, <2>1, FS_EmptySet
    <3> QED
      BY <1>3, <3>1
  <2> QED
    BY <2>1
<1>5. ASSUME NEW n \in good PROVE n + 1 \in good
  <2>0. \A s \in SUBSET S : Cardinality(s) <= n => splits(s)
    OBVIOUS
  <2>1. ASSUME NEW s \in SUBSET S, Cardinality(s) <= n + 1 PROVE splits(s)
    <3>1. CASE s = {}
      BY <1>3, <3>1
    <3>2. CASE s # {}
      <4> DEFINE c == Chosen(s)
      <4>1. c \in s /\ t[s] = F[c] + t[s \ {c}]
        BY <1>2, <3>2
      <4>2. ASSUME NEW x \in s PROVE s \ {x} \in SUBSET S /\ splits(s \ {x})
        <5>1. Cardinality(s \ {x}) = Cardinality(s) - 1
          BY <1>1, FS_RemoveElement
        <5>2. Cardinality(s \ {x}) <= n
          BY <1>1, <2>1, <5>1
        <5> QED
          BY <2>0, <5>2
      <4> HIDE DEF c
      <4>3. t[s \ {c}] \in Int /\ F[c] \in Int
        BY <4>1, <4>2
      <4>4. t[s] \in Int
        BY <4>1, <4>3
      <4>5. ASSUME NEW x \in s, x # c PROVE t[s] = F[x] + t[s \ {x}]
        <5>1. x \in s \ {c} /\ c \in s \ {x}
          BY <4>1, <4>5
        <5>2. t[s \ {c}] = F[x] + t[(s \ {c}) \ {x}]
          BY <4>1, <4>2, <5>1
        <5>3. t[s \ {x}] = F[c] + t[(s \ {x}) \ {c}]
          BY <4>2, <5>1
        <5>4. (s \ {c}) \ {x} = (s \ {x}) \ {c}
          OBVIOUS
        <5>5. /\ F[x] \in Int /\ F[c] \in Int
              /\ (s \ {c}) \ {x} \in SUBSET S
          BY <4>3
        <5>6. t[(s \ {c}) \ {x}] \in Int
          <6>1. Cardinality((s \ {c}) \ {x}) <= n
            <7>1. Cardinality(s \ {c}) = Cardinality(s) - 1 /\ IsFiniteSet(s \ {c})
              BY <1>1, <4>1, FS_RemoveElement
            <7>2. Cardinality((s \ {c}) \ {x}) = Cardinality(s \ {c}) - 1
              <8> DEFINE u == s \ {c}
              <8>1. x \in u /\ IsFiniteSet(u)
                BY <5>1, <7>1
              <8> HIDE DEF u
              <8>2. Cardinality(u \ {x}) = Cardinality(u) - 1
                BY <8>1, FS_RemoveElement
              <8> QED
                BY <8>2 DEF u
            <7> QED
              BY <1>1, <2>1, <7>1, <7>2
          <6> QED
            BY <2>0, <5>5, <6>1
        <5> DEFINE u == t[(s \ {c}) \ {x}]
        <5>7. /\ u \in Int /\ t[s \ {c}] = F[x] + u /\ t[s \ {x}] = F[c] + u
              /\ t[s] = F[c] + t[s \ {c}]
          BY <4>1, <5>2, <5>3, <5>4, <5>6
        <5> HIDE DEF u
        <5> QED
          BY <5>5, <5>7
      <4> QED
        BY <4>1, <4>4, <4>5
    <3> QED
      BY <3>1, <3>2
  <2> QED
    BY <2>1
<1>6. good = Nat
  <2> HIDE DEF good
  <2> QED
    BY <1>4, <1>5, Upwards DEF good
<1>7. Cardinality(S) \in good
  BY <1>1, <1>6
<1>8. \A s \in SUBSET S : Cardinality(s) <= Cardinality(S)
  BY FS_Subset
<1> QED
  BY <1>7, <1>8 DEF t

LEMMA TotalIsInt ==
    ASSUME NEW S, IsFiniteSet(S), NEW F \in [S -> Int]
    PROVE  Total(F) \in Int
<1>1. Total(F) = Tally(F, S)[S]
  BY TallyIsSum
<1>2. \A x \in S : F[x] \in Int
  OBVIOUS
<1>3. \A s \in SUBSET S : Tally(F, S)[s] \in Int
  BY <1>2, TallySplits
<1> QED
  BY <1>1, <1>3

(* What the steps do to the tables: an entry grows, and one is added.       *)
Grows(S, F, G, x) ==
    /\ IsFiniteSet(S) /\ x \in S
    /\ F \in [S -> Int] /\ G \in [S -> Int]
    /\ G[x] = F[x] + 1 /\ \A y \in S \ {x} : G[y] = F[y]

Extends(S, F, G, x) ==
    /\ IsFiniteSet(S) /\ x \notin S
    /\ F \in [S -> Int] /\ G \in [S \cup {x} -> Int]
    /\ \A y \in S : G[y] = F[y]

LEMMA SumGrows ==
    ASSUME NEW S, NEW F, NEW G, NEW x, Grows(S, F, G, x)
    PROVE  Total(F) \in Int /\ Total(G) = Total(F) + 1
<1> USE DEF Grows
<1>1. /\ Total(F) = Tally(F, S)[S]
      /\ Total(G) = Tally(G, S)[S]
  BY TallyIsSum
<1>2. /\ Tally(F, S)[S] \in Int /\ Tally(F, S)[S] = F[x] + Tally(F, S)[S \ {x}]
      /\ Tally(G, S)[S] = G[x] + Tally(G, S)[S \ {x}]
      /\ Tally(F, S)[S \ {x}] \in Int
  <2>1. S \in SUBSET S /\ S \ {x} \in SUBSET S
    OBVIOUS
  <2>2. (\A y \in S : F[y] \in Int) /\ (\A y \in S : G[y] \in Int)
    OBVIOUS
  <2>3. ASSUME NEW H, \A y \in S : H[y] \in Int
        PROVE  /\ \A s \in SUBSET S : Tally(H, S)[s] \in Int
               /\ Tally(H, S)[S] = H[x] + Tally(H, S)[S \ {x}]
    BY <2>1, <2>3, TallySplits
  <2> QED
    BY <2>1, <2>2, <2>3
<1>3. Tally(F, S)[S \ {x}] = Tally(G, S)[S \ {x}]
  BY TallyAgrees
<1>4. F[x] \in Int /\ G[x] = F[x] + 1
  OBVIOUS
<1> QED
  BY <1>1, <1>2, <1>3, <1>4

LEMMA SumExtends ==
    ASSUME NEW S, NEW F, NEW G, NEW x, Extends(S, F, G, x)
    PROVE  Total(G) = Total(F) + G[x]
<1> USE DEF Extends
<1> DEFINE T == S \cup {x}
<1>1. IsFiniteSet(T)
  BY FS_AddElement
<1>2. /\ Total(F) = Tally(F, S)[S]
      /\ Total(G) = Tally(G, T)[T]
  BY TallyIsSum
<1>3. T \ {x} = S /\ x \in T /\ G[x] \in Int
  OBVIOUS
<1>4. /\ Tally(G, T)[T] = G[x] + Tally(G, T)[S]
      /\ Tally(G, T)[S] \in Int
  <2> HIDE DEF T
  <2>1. \A y \in T : G[y] \in Int
    BY DEF T
  <2>2. S \in SUBSET T /\ T \in SUBSET T
    BY DEF T
  <2> QED
    BY <1>1, <1>3, <2>1, <2>2, TallySplits
<1>5. Tally(G, T)[S] = Tally(F, S)[S]
  <2>1. S \in SUBSET (T \cap S)
    OBVIOUS
  <2> HIDE DEF T
  <2> QED
    BY <1>1, <2>1, TallyAgrees
<1> QED
  BY <1>2, <1>3, <1>4, <1>5

LEMMA SumOfNothing ==
    ASSUME NEW S, IsFiniteSet(S), NEW F, F = [y \in S |-> 0]
    PROVE  Total(F) = 0
<1> DEFINE good == {n \in Nat : \A s \in SUBSET S : Cardinality(s) = n => Tally(F, S)[s] = 0}
<1>1. ASSUME NEW s \in SUBSET S
      PROVE  IsFiniteSet(s) /\ Cardinality(s) \in Nat
  BY FS_Subset, FS_CardinalityType
<1>2. 0 \in good
  <2>1. ASSUME NEW s \in SUBSET S, Cardinality(s) = 0 PROVE Tally(F, S)[s] = 0
    <3>1. s = {}
      BY <1>1, <2>1, FS_EmptySet
    <3> QED
      BY <3>1, TallyValue
  <2> QED
    BY <2>1
<1>3. ASSUME NEW n \in good PROVE n + 1 \in good
  <2>1. ASSUME NEW s \in SUBSET S, Cardinality(s) = n + 1 PROVE Tally(F, S)[s] = 0
    <3>1. IsFiniteSet(s) /\ s # {}
      BY <1>1, <2>1, FS_EmptySet
    <3>2. Chosen(s) \in s
      BY <3>1 DEF Chosen
    <3>3. Cardinality(s \ {Chosen(s)}) = n
      BY <2>1, <3>1, <3>2, FS_RemoveElement
    <3>4. s \ {Chosen(s)} \in SUBSET S
      OBVIOUS
    <3>5. Tally(F, S)[s \ {Chosen(s)}] = 0
      BY <3>3, <3>4
    <3>6. Tally(F, S)[s] = F[Chosen(s)] + Tally(F, S)[s \ {Chosen(s)}]
      <4> HIDE DEF good
      <4> QED
        BY <3>1, TallyValue
    <3> QED
      BY <3>2, <3>5, <3>6
  <2> QED
    BY <2>1
<1>4. good = Nat
  <2> HIDE DEF good
  <2> QED
    BY <1>2, <1>3, Upwards DEF good
<1>5. Cardinality(S) \in good
  BY <1>1, <1>4
<1>6. Tally(F, S)[S] = 0
  BY <1>5
<1> QED
  BY <1>6, TallyIsSum

-----------------------------------------------------------------------------
(* Where everything a file holds ends up.                                   *)

Counters == {"non_ip", "non_tcp", "unsupported", "malformed"}

Accounted ==
    /\ Total(PacketCounts) + refusedCount + Total(counts) = packetsRead
    /\ packetsRead + Total(warnings) = owed

CountedInv ==
    /\ counts \in [Counters -> Nat] /\ warnings \in [PassedOver -> Nat]
    /\ packetsRead \in Nat /\ owed \in Nat
    /\ Accounted

LEMMA PacketsOfObserved ==
    ASSUME NEW s \in Session, NEW p \in Packet
    PROVE  s.packets \in Int /\ Observed(s, p).packets = s.packets + 1
  BY DEF Observed, Session

LEMMA PacketsOfNew ==
    ASSUME NEW p \in Packet, NEW client \in RolesOf(p)
    PROVE  NewSession(p, client).packets = 0
  BY DEF NewSession

Packets(o) == [n \in 1..Len(o) |-> o[n].packets]

LEMMA PacketsTyped ==
    ASSUME NEW o \in Seq(Session)
    PROVE  /\ Len(o) \in Nat /\ IsFiniteSet(1..Len(o))
           /\ Packets(o) \in [1..Len(o) -> Int]
           /\ \A n \in 1..Len(o) : o[n] \in Session /\ Packets(o)[n] = o[n].packets
<1>1. Len(o) \in Nat /\ \A n \in 1..Len(o) : o[n] \in Session
  OBVIOUS
<1>2. \A n \in 1..Len(o) : o[n].packets \in Int
  BY <1>1 DEF Session
<1>3. IsFiniteSet(1..Len(o))
  BY <1>1, FS_Interval
<1> QED
  BY <1>1, <1>2, <1>3 DEF Packets

LEMMA PacketsGrow ==
    ASSUME NEW o \in Seq(Session), NEW q \in Seq(Session), Len(q) = Len(o),
           NEW a \in 1..Len(o), q[a].packets = o[a].packets + 1,
           \A n \in 1..Len(o) : n # a => q[n] = o[n]
    PROVE  Total(Packets(q)) = Total(Packets(o)) + 1
<1> DEFINE S == 1..Len(o)
           F == Packets(o)
           G == Packets(q)
<1>1. IsFiniteSet(S) /\ F \in [S -> Int] /\ G \in [S -> Int]
  BY PacketsTyped
<1>2. G[a] = F[a] + 1 /\ \A n \in S \ {a} : G[n] = F[n]
  BY PacketsTyped
<1>3. a \in S
  OBVIOUS
<1> HIDE DEF S, F, G
<1>4. Grows(S, F, G, a)
  BY <1>1, <1>2, <1>3 DEF Grows
<1>5. Total(G) = Total(F) + 1
  BY <1>4, SumGrows
<1> QED
  BY <1>5 DEF F, G

LEMMA PacketsExtend ==
    ASSUME NEW o \in Seq(Session), NEW q \in Seq(Session), Len(q) = Len(o) + 1,
           q[Len(o) + 1].packets = 1, \A n \in 1..Len(o) : q[n] = o[n]
    PROVE  Total(Packets(q)) = Total(Packets(o)) + 1
<1> DEFINE S == 1..Len(o)
           F == Packets(o)
           G == Packets(q)
           x == Len(o) + 1
<1>1. IsFiniteSet(S) /\ F \in [S -> Int]
  BY PacketsTyped
<1>2. x \notin S /\ 1..Len(q) = S \cup {x}
  BY PacketsTyped
<1>3. G \in [S \cup {x} -> Int]
  BY <1>2, PacketsTyped
<1>4. \A n \in S : G[n] = F[n]
  BY <1>2, PacketsTyped
<1>5. G[x] = 1
  BY <1>2, PacketsTyped
<1> HIDE DEF S, F, G, x
<1>6. Extends(S, F, G, x)
  BY <1>1, <1>2, <1>3, <1>4 DEF Extends
<1>7. Total(G) = Total(F) + G[x]
  BY <1>6, SumExtends
<1> QED
  BY <1>5, <1>7 DEF F, G

(* observe() counts a packet in one place: the session it belongs to, or    *)
(* the counter of the packets refused.                                      *)
LEMMA ObserveCounts ==
    ASSUME SessionIInv, SessionIInv', NEW p \in Packet, Observe(p)
    PROVE  Total(PacketCounts)' + refusedCount' = Total(PacketCounts) + refusedCount + 1
<1>1. Typed /\ Typed' /\ refusedCount \in Nat
  BY DEF SessionIInv, Typed
<1>2. order \in Seq(Session) /\ order' \in Seq(Session) /\ Len(order) \in Nat /\ Sessions = 1..Len(order)
  BY <1>1 DEF Typed, Sessions
<1>3. Total(PacketCounts) = Total(Packets(order)) /\ Total(PacketCounts)' = Total(Packets(order'))
  <2>1. PacketCounts = Packets(order) /\ PacketCounts' = Packets(order')
    BY DEF PacketCounts, Packets, Sessions
  <2>2. Total(PacketCounts)' = Total(PacketCounts')
    OBVIOUS
  <2> QED
    BY <2>1, <2>2
<1>4. Total(Packets(order)) \in Int
  BY <1>2, PacketsTyped, TotalIsInt
<1>5. CASE Refuse(p)
  <2>1. order' = order /\ refusedCount' = refusedCount + 1
    BY <1>5 DEF Refuse
  <2> QED
    BY <1>1, <1>3, <1>4, <2>1
<1>6. CASE Continue(p)
  <2> DEFINE a == active[p.key]
  <2>1. /\ a \in Sessions /\ order[a] \in Session
        /\ Len(order') = Len(order) /\ order'[a] = Observed(order[a], p)
        /\ \A n \in Sessions : n # a => order'[n] = order[n]
        /\ refusedCount' = refusedCount
    BY <1>6, ContinueEffect
  <2> HIDE DEF a
  <2>2. order'[a].packets = order[a].packets + 1
    BY <2>1, PacketsOfObserved
  <2>3. Total(Packets(order')) = Total(Packets(order)) + 1
    BY <1>2, <2>1, <2>2, PacketsGrow
  <2> QED
    BY <1>1, <1>3, <1>4, <2>1, <2>3
<1>7. CASE Open(p)
  <2>1. CASE TurnedAway(p)
    <3>1. order' = order /\ refusedCount' = refusedCount + 1
      BY <2>1 DEF TurnedAway
    <3> QED
      BY <1>1, <1>3, <1>4, <3>1
  <2>2. CASE ~TurnedAway(p)
    <3>1. /\ Len(order') = Len(order) + 1 /\ \A m \in Sessions : order'[m] = order[m]
          /\ refusedCount' = refusedCount
      BY <1>7, <2>2, OpenEffect DEF Admitted
    <3>2. PICK client \in RolesOf(p) : order' = Append(order, Observed(NewSession(p, client), p))
      BY <1>7, <2>2 DEF Open, TurnedAway, IsRefused
    <3>3. NewSession(p, client) \in Session /\ NewSession(p, client).packets = 0
      BY NewSessionTyped, PacketsOfNew
    <3> DEFINE s == Observed(NewSession(p, client), p)
    <3>4. s.packets = 1
      BY <3>3, PacketsOfObserved
    <3>5. order' = Append(order, s)
      BY <3>2
    <3> HIDE DEF s
    <3>6. order'[Len(order) + 1] = s
      BY <1>2, <3>5
    <3>7. Total(Packets(order')) = Total(Packets(order)) + 1
      BY <1>2, <3>1, <3>4, <3>6, PacketsExtend
    <3> QED
      BY <1>1, <1>3, <1>4, <3>1, <3>7
  <2> QED
    BY <2>1, <2>2
<1> QED
  BY <1>5, <1>6, <1>7 DEF Observe

(* What the file is owed for a record: nothing, a place or a warning.       *)
Owes(b) ==
    \/ b.kind = "packet"
    \/ b.kind = "simple" /\ b.damage # "short"
    \/ b.kind \notin {"packet", "simple"} /\ b.damage # "none"

LEMMA RecordAnnounced ==
    ASSUME NumberedInv, NEW b \in FileRecords, MayFollow(b)
    PROVE  LET result == ReadRecord(reader, b)
           IN  IF result.link = NoLink
               THEN result.warning \in PassedOver <=> Owes(b)
               ELSE Owes(b) /\ result.warning \notin PassedOver
<1> DEFINE kind == b.kind
           damage == b.damage
           result == ReadRecord(reader, b)
<1>1. /\ b.link \in Links /\ b.iface \in 1..2
      /\ kind \in {"section", "interface", "packet", "simple", "other"}
      /\ damage \in {"none", "ends", "length", "big", "overrun", "short"}
      /\ reader.format = "PCAP" => kind = "packet" /\ damage \in {"none", "ends", "big"}
      /\ kind = "simple" => damage # "overrun"
      /\ kind \in {"section", "other"} => damage \in {"none", "ends", "length"}
      /\ kind = "interface" => damage \in {"none", "ends", "length", "short"}
  BY RecordCases DEF NumberedInv, Reader
<1>2. /\ reader.format \in {"PCAP", "PCAPNG"} /\ reader.section \in Seq(Links)
      /\ DOMAIN reader.section = 1..Len(reader.section)
      /\ reader.format = "PCAP" => Len(reader.section) = 1
  BY DEF NumberedInv, Reader
<1>3. \A l \in Links : l # NoLink
  BY FileAssumption DEF LinkTypes, NoLink
<1>4. \A i \in DOMAIN reader.section : reader.section[i] # NoLink
  BY <1>2, <1>3
<1> USE DEF Outcome, Yield, Skip, Stop, PassedOver, Silent
<1>5. CASE reader.format = "PCAP"
  <2>1. result = PcapRecord(reader, b) /\ kind = "packet"
    BY <1>1, <1>5 DEF ReadRecord
  <2>2. 1 \in DOMAIN reader.section
    BY <1>2, <1>5
  <2>3. CASE damage = "none"
    BY <1>4, <2>1, <2>2, <2>3 DEF PcapRecord, Owes
  <2>4. CASE damage = "ends"
    BY <2>1, <2>4 DEF PcapRecord, Owes
  <2>5. CASE damage = "big"
    BY <2>1, <2>5 DEF PcapRecord, Owes
  <2> QED
    BY <1>1, <1>5, <2>3, <2>4, <2>5
<1>6. CASE reader.format = "PCAPNG"
  <2>1. result = PcapngBlock(reader, b)
    BY <1>6 DEF ReadRecord
  <2>2. CASE damage \in {"ends", "length"}
    BY <1>1, <2>1, <2>2 DEF PcapngBlock, Framed, Owes
  <2>3. CASE damage \notin {"ends", "length"} /\ kind = "section"
    BY <1>1, <2>1, <2>3 DEF PcapngBlock, Framed, NewSection, Owes
  <2>4. CASE damage \notin {"ends", "length"} /\ kind = "interface"
    BY <1>1, <2>1, <2>4 DEF PcapngBlock, Framed, AddInterface, Owes
  <2>5. CASE damage \notin {"ends", "length"} /\ kind = "other"
    BY <1>1, <2>1, <2>5 DEF PcapngBlock, Framed, Owes
  <2>6. CASE damage \notin {"ends", "length"} /\ kind = "packet"
    <3>1. result = EnhancedPacket(reader, b) /\ Owes(b)
      BY <2>1, <2>6 DEF PcapngBlock, Framed, Owes
    <3>2. CASE damage = "short" \/ ~Known(reader, b.iface)
      BY <3>1, <3>2 DEF EnhancedPacket
    <3>3. CASE damage \in {"big", "overrun"} /\ Known(reader, b.iface)
      BY <3>1, <3>3 DEF EnhancedPacket
    <3>4. CASE damage = "none" /\ Known(reader, b.iface)
      <4>1. reader.section[b.iface] # NoLink
        BY <1>4, <3>4 DEF Known
      <4> QED
        BY <3>1, <3>4, <4>1 DEF EnhancedPacket
    <3> QED
      BY <1>1, <2>6, <3>2, <3>3, <3>4
  <2>7. CASE damage \notin {"ends", "length"} /\ kind = "simple"
    <3>1. result = SimplePacket(reader, b) /\ (Owes(b) <=> damage # "short")
      BY <2>1, <2>7 DEF PcapngBlock, Framed, Owes
    <3>2. CASE damage = "short" \/ ~Known(reader, 1)
      BY <3>1, <3>2 DEF SimplePacket
    <3>3. CASE damage = "big" /\ Known(reader, 1)
      BY <3>1, <3>3 DEF SimplePacket
    <3>4. CASE damage = "none" /\ Known(reader, 1)
      <4>1. reader.section[1] # NoLink
        BY <1>4, <3>4 DEF Known
      <4> QED
        BY <3>1, <3>4, <4>1 DEF SimplePacket
    <3> QED
      BY <1>1, <2>7, <3>2, <3>3, <3>4
  <2> QED
    BY <1>1, <2>2, <2>3, <2>4, <2>5, <2>6, <2>7
<1> QED
  BY <1>2, <1>5, <1>6

LEMMA TablesFinite == IsFiniteSet(PassedOver) /\ IsFiniteSet(Counters)
<1>1. /\ IsFiniteSet({"TRUNCATED_CAPTURE_FILE"}) /\ IsFiniteSet({"LIMIT_PACKET_BYTES"})
      /\ IsFiniteSet({"LIMIT_PACKET_COUNT"}) /\ IsFiniteSet({"MALFORMED_BLOCK"})
      /\ IsFiniteSet({"MISSING_INTERFACE_DESCRIPTION"})
      /\ IsFiniteSet({"non_ip"}) /\ IsFiniteSet({"non_tcp"}) /\ IsFiniteSet({"unsupported"})
      /\ IsFiniteSet({"malformed"})
  BY FS_Singleton
<1> DEFINE w2 == {"TRUNCATED_CAPTURE_FILE"} \cup {"LIMIT_PACKET_BYTES"}
           w3 == w2 \cup {"LIMIT_PACKET_COUNT"}
           w4 == w3 \cup {"MALFORMED_BLOCK"}
           c2 == {"non_ip"} \cup {"non_tcp"}
           c3 == c2 \cup {"unsupported"}
<1>2. IsFiniteSet(w2) /\ IsFiniteSet(c2)
  BY <1>1, FS_Union
<1>3. IsFiniteSet(w3) /\ IsFiniteSet(c3)
  BY <1>1, <1>2, FS_Union
<1>4. IsFiniteSet(w4)
  BY <1>1, <1>3, FS_Union
<1>5. /\ PassedOver = w4 \cup {"MISSING_INTERFACE_DESCRIPTION"}
      /\ Counters = c3 \cup {"malformed"}
  BY DEF PassedOver, Counters
<1> HIDE DEF w4, c3
<1> QED
  BY <1>1, <1>3, <1>4, <1>5, FS_Union

LEMMA RaiseCounts ==
    ASSUME warnings \in [PassedOver -> Nat], NEW code, Raise(code)
    PROVE  /\ warnings' \in [PassedOver -> Nat]
           /\ Total(warnings) \in Int
           /\ Total(warnings') = Total(warnings) + (IF code \in PassedOver THEN 1 ELSE 0)
<1> DEFINE F == warnings
           G == warnings'
<1>1. G = [c \in PassedOver |-> F[c] + (IF c = code THEN 1 ELSE 0)]
  BY DEF Raise
<1>2. IsFiniteSet(PassedOver)
  BY TablesFinite
<1>3. F \in [PassedOver -> Int] /\ F \in [PassedOver -> Nat]
  OBVIOUS
<1> HIDE DEF F, G
<1>4. G \in [PassedOver -> Int] /\ G \in [PassedOver -> Nat]
  BY <1>1, <1>3
<1>5. Total(F) \in Int
  BY <1>2, <1>3, TotalIsInt
<1>6. CASE code \in PassedOver
  <2>1. Grows(PassedOver, F, G, code)
    BY <1>1, <1>2, <1>3, <1>4, <1>6 DEF Grows
  <2>2. Total(G) = Total(F) + 1
    BY <2>1, SumGrows
  <2> QED
    BY <1>4, <1>5, <1>6, <2>2 DEF F, G
<1>7. CASE code \notin PassedOver
  <2>1. \A c \in PassedOver : G[c] = F[c]
    BY <1>1, <1>3, <1>7
  <2>2. G = F
    BY <1>3, <1>4, <2>1
  <2> QED
    BY <1>4, <1>5, <1>7, <2>2 DEF F, G
<1> QED
  BY <1>6, <1>7

LEMMA CounterGrows ==
    ASSUME counts \in [Counters -> Nat], NEW c \in Counters,
           counts' = [counts EXCEPT ![c] = @ + 1]
    PROVE  /\ counts' \in [Counters -> Nat]
           /\ Total(counts) \in Int /\ Total(counts') = Total(counts) + 1
<1> DEFINE F == counts
           G == counts'
<1>1. G = [F EXCEPT ![c] = F[c] + 1]
  OBVIOUS
<1>2. F \in [Counters -> Int] /\ F \in [Counters -> Nat]
  OBVIOUS
<1> HIDE DEF F, G
<1>3. G \in [Counters -> Int] /\ G \in [Counters -> Nat]
  BY <1>1, <1>2
<1>4. Grows(Counters, F, G, c)
  BY <1>1, <1>2, <1>3, TablesFinite DEF Grows
<1>5. Total(F) \in Int /\ Total(G) = Total(F) + 1
  BY <1>4, SumGrows
<1> QED
  BY <1>3, <1>5 DEF F, G

LEMMA CounterOfOutcome ==
    ASSUME NEW outcome \in Outcomes, outcome # "TCP"
    PROVE  Counter(outcome) \in Counters
  BY DEF Outcomes, Counter, Counters

(* What a record read does to what the file is owed and to the warnings.    *)
LEMMA OwedStep ==
    ASSUME owed \in Nat, NEW b, NextRecord(b)
    PROVE  owed' \in Nat /\ owed' = owed + (IF Owes(b) THEN 1 ELSE 0)
  BY DEF NextRecord, Owes

LEMMA CountedStep ==
    ASSUME CountedInv, IngestionIInv, SessionIInv, SessionIInv', [IngestionNext]_allVars
    PROVE  CountedInv'
<1>1. /\ counts \in [Counters -> Nat] /\ warnings \in [PassedOver -> Nat]
      /\ packetsRead \in Nat /\ owed \in Nat
      /\ Total(PacketCounts) + refusedCount + Total(counts) = packetsRead
      /\ packetsRead + Total(warnings) = owed
  BY DEF CountedInv, Accounted
<1>2. Total(counts) \in Int /\ Total(warnings) \in Int
  <2>1. counts \in [Counters -> Int] /\ warnings \in [PassedOver -> Int]
    BY <1>1
  <2> QED
    BY <2>1, TablesFinite, TotalIsInt
<1>3. refusedCount \in Nat /\ refusedCount' \in Nat /\ order \in Seq(Session)
  BY DEF SessionIInv, Typed
<1>4. Total(PacketCounts) \in Int
  <2>1. PacketCounts = Packets(order)
    BY DEF PacketCounts, Packets, Sessions
  <2> QED
    BY <1>3, <2>1, PacketsTyped, TotalIsInt
<1>5. ASSUME UNCHANGED vars
      PROVE  Total(PacketCounts)' = Total(PacketCounts) /\ refusedCount' = refusedCount
  BY <1>5 DEF vars, engine, PacketCounts, Sessions
<1>6. Total(counts)' = Total(counts') /\ Total(warnings)' = Total(warnings')
  OBVIOUS
<1>7. ASSUME NEW b \in FileRecords, MayFollow(b), PassOver(b) PROVE CountedInv'
  <2> DEFINE result == ReadRecord(reader, b)
  <2>1. /\ NextRecord(b) /\ result.link = NoLink /\ Raise(result.warning)
        /\ UNCHANGED vars /\ packetsRead' = packetsRead /\ counts' = counts
    BY <1>7 DEF PassOver
  <2>2. result.warning \in PassedOver <=> Owes(b)
    BY <1>7, <2>1, RecordAnnounced DEF IngestionIInv
  <2> HIDE DEF result
  <2>3. owed' \in Nat /\ owed' = owed + (IF Owes(b) THEN 1 ELSE 0)
    BY <1>1, <2>1, OwedStep
  <2>4. /\ warnings' \in [PassedOver -> Nat]
        /\ Total(warnings') = Total(warnings) + (IF result.warning \in PassedOver THEN 1 ELSE 0)
    BY <1>1, <2>1, RaiseCounts
  <2>5. Total(warnings') - Total(warnings) = owed' - owed
    BY <1>1, <1>2, <2>2, <2>3, <2>4
  <2> QED
    BY <1>1, <1>2, <1>3, <1>4, <1>5, <1>6, <2>1, <2>3, <2>4, <2>5 DEF CountedInv, Accounted
<1>8. ASSUME NEW b \in FileRecords, MayFollow(b), LimitReached(b) PROVE CountedInv'
  <2>1. /\ NextRecord(b) /\ ReadRecord(reader, b).link # NoLink /\ Raise("LIMIT_PACKET_COUNT")
        /\ UNCHANGED vars /\ packetsRead' = packetsRead /\ counts' = counts
    BY <1>8 DEF LimitReached
  <2>2. Owes(b)
    BY <1>8, <2>1, RecordAnnounced DEF IngestionIInv
  <2>3. owed' \in Nat /\ owed' = owed + 1
    BY <1>1, <2>1, <2>2, OwedStep
  <2>4. /\ warnings' \in [PassedOver -> Nat]
        /\ Total(warnings') = Total(warnings) + 1
    BY <1>1, <2>1, RaiseCounts DEF PassedOver
  <2> QED
    BY <1>1, <1>2, <1>3, <1>4, <1>5, <1>6, <2>1, <2>3, <2>4 DEF CountedInv, Accounted
<1>9. ASSUME NEW b \in FileRecords, MayFollow(b), ReadRecord(reader, b).link # NoLink,
             NEW taken \in Takings[TrueLink(b)][ReadRecord(reader, b).link],
             NotTcp(b, taken) \/ Tcp(b, taken)
      PROVE  CountedInv'
  <2> DEFINE result == ReadRecord(reader, b)
  <2>1. TrueLink(b) \in Links /\ result.link \in Links
    BY <1>9, LinkIsTrue DEF IngestionIInv
  <2>2. taken.payload \in Payload /\ taken.outcome \in Outcomes
    BY <1>9, <2>1, TakingsTyped
  <2>3. NextRecord(b) /\ packetsRead' = packetsRead + 1 /\ Raise(result.warning)
    BY <1>9 DEF NotTcp, Tcp, TakeFrame
  <2>4. Owes(b) /\ result.warning \notin PassedOver
    BY <1>9, RecordAnnounced DEF IngestionIInv
  <2> HIDE DEF result
  <2>5. owed' \in Nat /\ owed' = owed + 1
    BY <1>1, <2>3, <2>4, OwedStep
  <2>6. warnings' \in [PassedOver -> Nat] /\ Total(warnings') = Total(warnings)
    BY <1>1, <1>2, <2>3, <2>4, RaiseCounts
  <2>7. CASE NotTcp(b, taken)
    <3>1. /\ counts' = [counts EXCEPT ![Counter(taken.outcome)] = @ + 1]
          /\ UNCHANGED vars /\ Counter(taken.outcome) \in Counters
      BY <2>2, <2>7, CounterOfOutcome DEF NotTcp
    <3>2. counts' \in [Counters -> Nat] /\ Total(counts') = Total(counts) + 1
      BY <1>1, <3>1, CounterGrows
    <3>3. Total(PacketCounts)' = Total(PacketCounts) /\ refusedCount' = refusedCount
      BY <1>5, <3>1
    <3>4. Total(PacketCounts)' + refusedCount' + Total(counts)' = packetsRead'
      <4>1. Total(counts)' = Total(counts) + 1 /\ packetsRead' = packetsRead + 1
        BY <1>6, <2>3, <3>2
      <4> QED
        BY <1>1, <1>2, <1>3, <1>4, <3>3, <4>1
    <3>5. packetsRead' \in Nat /\ packetsRead' + Total(warnings)' = owed'
      BY <1>1, <1>2, <1>6, <2>3, <2>5, <2>6
    <3> QED
      BY <2>5, <2>6, <3>2, <3>4, <3>5 DEF CountedInv, Accounted
  <2>8. CASE Tcp(b, taken)
    <3>1. PICK p \in Packet : Observe(p)
      <4>1. PICK k \in Keys :
               \/ CaptureSyn(k)
               \/ \E from \in {"a", "b"}, flags \in LaterFlags :
                    CaptureLater(k, from, flags, taken.payload)
        BY <2>8 DEF Tcp
      <4>2. CASE CaptureSyn(k)
        <5>1. SynPacket(k) \in Packet
          BY SynPacketTyped DEF SessionIInv
        <5> QED
          BY <4>2, <5>1 DEF CaptureSyn, SynPacket
      <4>3. CASE \E from \in {"a", "b"}, flags \in LaterFlags :
                   CaptureLater(k, from, flags, taken.payload)
        <5>1. PICK from \in {"a", "b"}, flags \in LaterFlags :
                 CaptureLater(k, from, flags, taken.payload)
          BY <4>3
        <5>2. LaterPacket(k, from, flags, taken.payload) \in Packet
          BY <2>2 DEF LaterPacket, Packet, LaterFlags
        <5> QED
          BY <5>1, <5>2 DEF CaptureLater, LaterPacket
      <4> QED
        BY <4>1, <4>2, <4>3
    <3>2. Total(PacketCounts)' + refusedCount' = Total(PacketCounts) + refusedCount + 1
      BY <3>1, ObserveCounts
    <3>3. counts' = counts
      BY <2>8 DEF Tcp
    <3>4. Total(PacketCounts)' + refusedCount' + Total(counts)' = packetsRead'
      BY <1>1, <1>2, <1>3, <1>4, <1>6, <2>3, <3>2, <3>3
    <3> QED
      BY <1>1, <1>2, <1>6, <2>3, <2>5, <2>6, <3>3, <3>4 DEF CountedInv, Accounted
  <2> QED
    BY <1>9, <2>7, <2>8
<1>10. ASSUME NEW k \in Keys, NextConnection(k), UNCHANGED ingestion PROVE CountedInv'
  <2>1. UNCHANGED <<packetsRead, counts, warnings, owed, order, refusedCount>>
    BY <1>10 DEF ingestion, progress, file, NextConnection, engine
  <2>2. Total(PacketCounts)' = Total(PacketCounts)
    BY <2>1 DEF PacketCounts, Sessions
  <2> QED
    BY <1>1, <1>6, <2>1, <2>2 DEF CountedInv, Accounted
<1>11. CASE UNCHANGED allVars
  <2>1. UNCHANGED <<packetsRead, counts, warnings, owed>> /\ UNCHANGED vars
    BY <1>11 DEF allVars, ingestion, progress, file
  <2> QED
    BY <1>1, <1>5, <1>6, <2>1 DEF CountedInv, Accounted
<1> QED
  BY <1>7, <1>8, <1>9, <1>10, <1>11 DEF IngestionNext

LEMMA CountedInitial == IngestionInit => CountedInv
<1> SUFFICES ASSUME IngestionInit PROVE CountedInv
  OBVIOUS
<1>1. /\ counts = [c \in Counters |-> 0] /\ warnings = [c \in PassedOver |-> 0]
      /\ packetsRead = 0 /\ owed = 0 /\ order = << >> /\ refusedCount = 0
  BY DEF IngestionInit, Init, Counters
<1>2. Total(counts) = 0 /\ Total(warnings) = 0
  BY <1>1, TablesFinite, SumOfNothing
<1>3. Total(PacketCounts) = 0
  <2>1. PacketCounts = [n \in {} |-> 0]
    BY <1>1 DEF PacketCounts, Sessions
  <2> QED
    BY <2>1, FS_EmptySet, SumOfNothing
<1> QED
  BY <1>1, <1>2, <1>3 DEF CountedInv, Accounted

(* docs/architecture.md "Nothing is silently discarded": every packet and   *)
(* every damaged record of any file is in exactly one place, a session, a   *)
(* counter or a warning of its own.                                         *)
THEOREM EverythingAccounted == IngestionSpec => []NothingSilentlyDiscarded
<1>1. IngestionInit => CountedInv /\ IngestionIInv
  BY CountedInitial, IngestionInitial
<1>2. CountedInv /\ IngestionIInv /\ SessionIInv /\ SessionIInv' /\ [IngestionNext]_allVars
        => CountedInv' /\ IngestionIInv'
  BY CountedStep, IngestionStep
<1>3. CountedInv => NothingSilentlyDiscarded
  BY DEF CountedInv, Accounted, NothingSilentlyDiscarded, Total
<1>4. IngestionSpec => []SessionIInv
  BY IngestionUsesTheEngine, SessionsInductive, PTL
<1> QED
  BY <1>1, <1>2, <1>3, <1>4, PTL DEF IngestionSpec
=============================================================================
