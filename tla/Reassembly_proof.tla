-------------------------- MODULE Reassembly_proof --------------------------
(***************************************************************************)
(* Proofs about Reassembly, for every modulus, limit and capture.          *)
(*                                                                         *)
(* First the projection of sequence numbers is shown exact inside TCP's    *)
(* window, which gives Spec => []InPlace.  Then StoreInv, an inductive     *)
(* strengthening of what the store promises, gives the other safety        *)
(* properties; it rests on a lemma about maximal runs of numbers, proved   *)
(* from the well-foundedness of Nat.  GapInv adds where the dropped and    *)
(* the cut bytes came from, for the gaps of the report.                    *)
(***************************************************************************)
EXTENDS Reassembly, FiniteSetTheorems, WellFoundedInduction, TLAPS

-----------------------------------------------------------------------------
(* Numbers *)

(* Every non-empty set of naturals has a least element. *)
LEMMA LeastNat ==
    ASSUME NEW X \in SUBSET Nat, X # {}
    PROVE  \E x \in X : \A y \in X : x <= y
<1> DEFINE R == OpToRel(<, Nat)
<1>1. \A a, b \in Nat : a < b => <<a, b>> \in R
  BY DEF OpToRel
<1>2. IsWellFoundedOn(R, Nat)
  BY NatLessThanWellFounded
<1> HIDE DEF R
<1>3. PICK x \in X : \A y \in X : ~(<<y, x>> \in R)
  BY <1>2, WFMin, Zenon
<1>4. \A y \in X : x <= y
  <2> SUFFICES ASSUME NEW y \in X, ~(x <= y) PROVE FALSE
    OBVIOUS
  <2>1. x \in Nat /\ y \in Nat /\ y < x
    OBVIOUS
  <2> QED
    BY <2>1, <1>1, <1>3
<1> QED
  BY <1>4

(* The remainder of a division is unique. *)
LEMMA ModUnique ==
    ASSUME NEW M \in Nat \ {0}, NEW q \in Int, NEW r \in 0..(M - 1)
    PROVE  ((M * q) + r) % M = r
  OBVIOUS

LEMMA DivMod ==
    ASSUME NEW M \in Nat \ {0}, NEW a \in Int
    PROVE  /\ a \div M \in Int
           /\ a % M \in 0..(M - 1)
           /\ a = (M * (a \div M)) + (a % M)
  OBVIOUS

(* Differences of residues are residues of differences. *)
LEMMA ModDifference ==
    ASSUME NEW M \in Nat \ {0}, NEW a \in Int, NEW b \in Int
    PROVE  ((a % M) - (b % M)) % M = (a - b) % M
<1> DEFINE d == (a % M) - (b % M)
           q == ((a \div M) - (b \div M)) + (d \div M)
<1>1. d \in Int
  BY DivMod
<1>2. d \div M \in Int /\ d % M \in 0..(M - 1) /\ d = (M * (d \div M)) + (d % M)
  BY <1>1, DivMod
<1>3. q \in Int
  BY <1>2, DivMod
<1>4. a - b = (M * q) + (d % M)
  <2>1. a - b = ((M * (a \div M)) + (a % M)) - ((M * (b \div M)) + (b % M))
    BY DivMod
  <2>2. a - b = ((M * (a \div M)) - (M * (b \div M))) + d
    BY <2>1, DivMod
  <2>3. M * q = ((M * (a \div M)) - (M * (b \div M))) + (M * (d \div M))
    BY <1>2, DivMod
  <2> HIDE DEF d, q
  <2>4. M * (a \div M) \in Int /\ M * (b \div M) \in Int /\ M * (d \div M) \in Int
    BY <1>2, DivMod
  <2> QED
    BY <1>1, <1>2, <1>3, <2>2, <2>3, <2>4
<1> HIDE DEF d, q
<1>5. (a - b) % M = d % M
  BY <1>2, <1>3, <1>4, ModUnique
<1> QED
  BY <1>5 DEF d

(* Half the number space on either side of the mark is projected exactly.   *)
LEMMA ProjectExact ==
    ASSUME NEW mark_ \in Int, NEW pos \in Int, NEW s, NEW origin_ \in Int,
           s = [seq |-> SeqOf(mark_), ext |-> mark_ - origin_],
           2 * (pos - mark_) \in (1 - Modulus)..Modulus
    PROVE  /\ Project(s, SeqOf(pos)) = pos - origin_
           /\ Forward(s, SeqOf(pos)) <= Backward(s, SeqOf(pos)) <=> pos >= mark_
<1> DEFINE d == pos - mark_
<1>1. Modulus \in Nat \ {0} /\ Isn \in Int
  BY SpaceAssumption
<1>2. d \in Int /\ 0 - d \in Int
  OBVIOUS
<1>3. Forward(s, SeqOf(pos)) = d % Modulus
  <2>1. (Isn + pos) - (Isn + mark_) = d
    BY <1>1
  <2>2. Forward(s, SeqOf(pos)) = (((Isn + pos) % Modulus) - ((Isn + mark_) % Modulus)) % Modulus
    BY DEF Forward, SeqOf
  <2>3. Isn + pos \in Int /\ Isn + mark_ \in Int
    BY <1>1
  <2> HIDE DEF d
  <2>4. Forward(s, SeqOf(pos)) = ((Isn + pos) - (Isn + mark_)) % Modulus
    BY <1>1, <2>2, <2>3, ModDifference
  <2> QED
    BY <2>1, <2>4
<1>4. Backward(s, SeqOf(pos)) = (0 - d) % Modulus
  <2>1. (Isn + mark_) - (Isn + pos) = 0 - d
    BY <1>1
  <2>2. Backward(s, SeqOf(pos)) = (((Isn + mark_) % Modulus) - ((Isn + pos) % Modulus)) % Modulus
    BY DEF Backward, SeqOf
  <2>3. Isn + pos \in Int /\ Isn + mark_ \in Int
    BY <1>1
  <2> HIDE DEF d
  <2>4. Backward(s, SeqOf(pos)) = ((Isn + mark_) - (Isn + pos)) % Modulus
    BY <1>1, <2>2, <2>3, ModDifference
  <2> QED
    BY <2>1, <2>4
<1>5. CASE d >= 0
  <2>1. d % Modulus = d
    BY <1>1, <1>2, <1>5
  <2>2. d <= (0 - d) % Modulus
    <3>1. CASE d = 0
      BY <1>1, <3>1, DivMod
    <3>2. CASE d > 0
      <4>1. (0 - d) % Modulus = Modulus - d
        <5>1. 0 - d = (Modulus * (0 - 1)) + (Modulus - d)
          BY <1>1
        <5> QED
          BY <1>1, <3>2, <5>1, ModUnique
      <4> QED
        BY <1>1, <4>1
    <3> QED
      BY <1>5, <3>1, <3>2
  <2> QED
    BY <1>3, <1>4, <1>5, <2>1, <2>2 DEF Project
<1>6. CASE d < 0
  <2>1. (0 - d) % Modulus = 0 - d
    BY <1>1, <1>2, <1>6
  <2>2. d % Modulus = Modulus + d
    <3>1. d = (Modulus * (0 - 1)) + (Modulus + d)
      BY <1>1
    <3> QED
      BY <1>1, <1>6, <3>1, ModUnique
  <2> QED
    BY <1>1, <1>3, <1>4, <1>6, <2>1, <2>2 DEF Project
<1> QED
  BY <1>2, <1>5, <1>6

-----------------------------------------------------------------------------
(* Everything stands where the sender put it *)

Packet == [start : Int, at : Nat, data : Seq(Nat), cut : Nat]

PlaceInv ==
    /\ log \in Seq(Packet)
    /\ IF space = None
       THEN syn = None /\ peerAck = None /\ acked = None /\ log = <<>>
       ELSE /\ origin \in Nat /\ mark \in Nat
            /\ space = [seq |-> SeqOf(mark), ext |-> mark - origin]
    /\ syn # None => syn \in Int /\ syn + origin = 0
    /\ peerAck = None <=> acked = None
    /\ peerAck # None => peerAck \in Int /\ acked \in Nat /\ peerAck + origin = acked
    /\ \A k \in 1..Len(log) : log[k].start + origin = log[k].at

NewOrigin(pos) == IF space = None THEN pos ELSE origin

LEMMA ExtPlaced ==
    ASSUME PlaceInv, NEW pos \in Nat, InWindow(pos)
    PROVE  /\ ExtOf(pos) = pos - NewOrigin(pos)
           /\ NewOrigin(pos) \in Nat
           /\ ExtOf(pos) \in Int
<1>1. CASE space = None
  BY <1>1 DEF ExtOf, NewOrigin
<1>2. CASE space # None
  <2>1. Project(space, SeqOf(pos)) = pos - origin
    BY <1>2, ProjectExact DEF PlaceInv, InWindow
  <2> QED
    BY <1>2, <2>1 DEF ExtOf, NewOrigin, PlaceInv
<1> QED
  BY <1>1, <1>2

LEMMA HeaderPlaced ==
    ASSUME PlaceInv, NEW pos \in Nat, InWindow(pos), Header(pos, ExtOf(pos))
    PROVE  /\ space' # None
           /\ origin' = NewOrigin(pos) /\ origin' \in Nat /\ mark' \in Nat
           /\ space' = [seq |-> SeqOf(mark'), ext |-> mark' - origin']
           /\ syn' # None => syn' \in Int /\ syn' + origin' = 0
           /\ space # None => origin' = origin
<1>1. ExtOf(pos) = pos - NewOrigin(pos) /\ NewOrigin(pos) \in Nat /\ ExtOf(pos) \in Int
  BY ExtPlaced
<1>2. SeqOf(pos) \in Int
  BY SpaceAssumption DEF SeqOf
<1>3. syn' # None => syn' \in Int /\ syn' + origin' = 0
  BY <1>1 DEF Header, PlaceInv, NewOrigin
<1>4. CASE space = None
  <2>1. space' = [seq |-> SeqOf(pos), ext |-> 0] /\ origin' = pos /\ mark' = pos
    BY <1>4 DEF Header
  <2>2. space' \in [seq : Int, ext : Int]
    BY <1>2, <2>1
  <2> QED
    BY <1>3, <1>4, <2>1, <2>2, NoneAssumption DEF NewOrigin
<1>5. CASE space # None
  <2>1. origin \in Nat /\ mark \in Nat /\ space = [seq |-> SeqOf(mark), ext |-> mark - origin]
    BY <1>5 DEF PlaceInv
  <2>2. /\ Project(space, SeqOf(pos)) = pos - origin
        /\ Forward(space, SeqOf(pos)) <= Backward(space, SeqOf(pos)) <=> pos >= mark
    BY <1>5, <2>1, ProjectExact DEF InWindow
  <2>3. /\ space' = Extend(space, SeqOf(pos)) /\ origin' = origin
        /\ mark' = IF pos > mark THEN pos ELSE mark
    BY <1>5 DEF Header
  <2>4. space' = [seq |-> SeqOf(mark'), ext |-> mark' - origin'] /\ mark' \in Nat
    <3>1. CASE pos > mark
      BY <2>1, <2>2, <2>3, <3>1 DEF Extend
    <3>2. CASE pos = mark
      BY <2>1, <2>2, <2>3, <3>2 DEF Extend
    <3>3. CASE pos < mark
      BY <2>1, <2>2, <2>3, <3>3 DEF Extend
    <3> QED
      BY <2>1, <3>1, <3>2, <3>3
  <2>5. SeqOf(mark') \in Int /\ mark' - origin' \in Int
    BY <2>1, <2>3, <2>4, SpaceAssumption DEF SeqOf
  <2>6. space' \in [seq : Int, ext : Int]
    BY <2>4, <2>5
  <2> QED
    BY <1>3, <1>5, <2>1, <2>3, <2>4, <2>6, NoneAssumption DEF NewOrigin
<1> QED
  BY <1>4, <1>5

LEMMA PlaceStep ==
    ASSUME PlaceInv, [Next]_vars
    PROVE  PlaceInv'
<1>1. ASSUME NEW pos \in Positions, ObserveEmpty(pos) PROVE PlaceInv'
  <2>1. pos \in Nat /\ InWindow(pos) /\ Header(pos, ExtOf(pos))
    BY <1>1, CaptureAssumption DEF ObserveEmpty
  <2>2. UNCHANGED <<log, peerAck, acked>>
    BY <1>1 DEF ObserveEmpty
  <2> QED
    BY <2>1, <2>2, HeaderPlaced DEF PlaceInv
<1>2. ASSUME NEW pos \in Positions, NEW data \in Payloads, NEW cut \in CutTails,
             ObservePayload(pos, data, cut)
      PROVE  PlaceInv'
  <2> DEFINE one == IF pos = 0 THEN 1 ELSE 0
             p == [start |-> ExtOf(pos) + one, at |-> pos + one, data |-> data, cut |-> cut]
  <2>1. /\ pos \in Nat /\ InWindow(pos) /\ Header(pos, ExtOf(pos))
        /\ data \in Seq(Nat) /\ cut \in Nat
    BY <1>2, CaptureAssumption DEF ObservePayload
  <2>2. log' = Append(log, p) /\ UNCHANGED <<peerAck, acked>>
    BY <1>2 DEF ObservePayload
  <2>3. ExtOf(pos) = pos - origin' /\ ExtOf(pos) \in Int /\ origin' \in Nat
    BY <2>1, ExtPlaced, HeaderPlaced
  <2>4. p \in Packet /\ p.start + origin' = p.at
    <3>1. one \in 0..1
      OBVIOUS
    <3> HIDE DEF one
    <3>2. ExtOf(pos) + one \in Int /\ pos + one \in Nat
      BY <2>1, <2>3, <3>1
    <3>3. p \in Packet
      BY <2>1, <3>2 DEF Packet
    <3>4. (ExtOf(pos) + one) + origin' = pos + one
      <4>1. \A e, o, u \in Int : e = pos - o => (e + u) + o = pos + u
        BY <2>1
      <4> QED
        BY <2>3, <3>1, <4>1
    <3> QED
      BY <3>3, <3>4
  <2> HIDE DEF p
  <2>5. log \in Seq(Packet) /\ log' \in Seq(Packet) /\ Len(log') = Len(log) + 1
    BY <2>2, <2>4 DEF PlaceInv
  <2>6. ASSUME NEW k \in 1..Len(log') PROVE log'[k].start + origin' = log'[k].at
    <3>1. CASE k = Len(log) + 1
      BY <2>2, <2>4, <2>5, <3>1
    <3>2. CASE k # Len(log) + 1
      <4>1. k \in 1..Len(log) /\ log'[k] = log[k]
        BY <2>2, <2>4, <2>5, <3>2
      <4>2. space # None
        BY <4>1 DEF PlaceInv
      <4> QED
        BY <2>1, <4>1, <4>2, HeaderPlaced DEF PlaceInv
    <3> QED
      BY <3>1, <3>2
  <2>7. peerAck # None => origin' = origin
    BY <2>1, HeaderPlaced DEF PlaceInv
  <2> QED
    BY <2>1, <2>2, <2>5, <2>6, <2>7, HeaderPlaced DEF PlaceInv
<1>3. ASSUME NEW pos \in AckPositions, NotePeerAck(pos) PROVE PlaceInv'
  <2>1. pos \in Nat /\ InWindow(pos) /\ space # None
    BY <1>3, CaptureAssumption DEF NotePeerAck
  <2>2. Project(space, SeqOf(pos)) = pos - origin /\ origin \in Nat
    BY <2>1, ProjectExact DEF PlaceInv, InWindow
  <2>3. /\ peerAck' = IF peerAck = None \/ pos - origin > peerAck THEN pos - origin ELSE peerAck
        /\ acked' = IF acked = None \/ pos > acked THEN pos ELSE acked
        /\ UNCHANGED <<space, syn, log, origin, mark>>
    BY <1>3, <2>2 DEF NotePeerAck
  <2>4. pos - origin \in Int /\ pos - origin # None /\ pos # None
    BY <2>1, <2>2, NoneAssumption
  <2>5. /\ peerAck' = None <=> acked' = None
        /\ peerAck' # None => peerAck' \in Int /\ acked' \in Nat /\ peerAck' + origin = acked'
    <3>1. CASE peerAck = None
      BY <2>1, <2>2, <2>3, <2>4, <3>1 DEF PlaceInv
    <3>2. CASE peerAck # None
      BY <2>1, <2>2, <2>3, <2>4, <3>2 DEF PlaceInv
    <3> QED
      BY <3>1, <3>2
  <2> QED
    BY <2>1, <2>3, <2>5 DEF PlaceInv
<1>4. ASSUME NEW n \in OtherTakes, NEW same \in BOOLEAN, OtherStreamTakes(n, same)
      PROVE  PlaceInv'
  BY <1>4 DEF OtherStreamTakes, PlaceInv
<1>5. CASE UNCHANGED vars
  BY <1>5 DEF vars, PlaceInv
<1> QED
  BY <1>1, <1>2, <1>3, <1>4, <1>5 DEF Next

(* network/seqspace.py:9-12: for every modulus, segments, SYN and           *)
(* acknowledgements stand where the sender put them, whatever the order in  *)
(* which the capture holds them and however often the numbers wrap.         *)
THEOREM EverythingInPlace == Spec => []InPlace
<1>1. Init => PlaceInv
  BY DEF Init, PlaceInv
<1>2. PlaceInv /\ [Next]_vars => PlaceInv'
  BY PlaceStep
<1>3. PlaceInv => InPlace
  BY DEF PlaceInv, InPlace
<1> QED
  BY <1>1, <1>2, <1>3, PTL DEF Spec

-----------------------------------------------------------------------------
(* Maximal runs *)

LEMMA RunsWithin ==
    ASSUME NEW S PROVE BytesOf(Runs(S)) \subseteq S
  BY DEF BytesOf, Runs

(* Every element of a bounded set of numbers is in one of its runs: walk    *)
(* down and up from it to the first number that is missing.                 *)
LEMMA RunsCover ==
    ASSUME NEW lo \in Int, NEW hi \in Int, NEW S \in SUBSET (lo..hi), NEW b \in S
    PROVE  \E r \in Runs(S) : b \in Bytes(r)
<1> DEFINE Below == {n \in Nat : b - n \notin S}
           Above == {n \in Nat : b + n \notin S}
<1>1. b \in Int /\ lo <= b /\ b <= hi
  OBVIOUS
<1>2. (b - lo) + 1 \in Below /\ (hi - b) + 1 \in Above
  <2>1. b - ((b - lo) + 1) = lo - 1 /\ b + ((hi - b) + 1) = hi + 1
    BY <1>1
  <2>2. lo - 1 \notin S /\ hi + 1 \notin S
    OBVIOUS
  <2> QED
    BY <1>1, <2>1, <2>2
<1>3. PICK d \in Below : \A n \in Below : d <= n
  BY <1>2, LeastNat
<1>4. PICK u \in Above : \A n \in Above : u <= n
  BY <1>2, LeastNat
<1>5. d \in Nat /\ u \in Nat /\ b - d \notin S /\ b + u \notin S
  BY <1>3, <1>4
<1>6. d # 0 /\ u # 0
  BY <1>1, <1>5
<1>7. ASSUME NEW c \in (b - d + 1)..(b + u - 1) PROVE c \in S
  <2>1. CASE c <= b
    <3>1. b - c \in Nat /\ b - c < d /\ b - (b - c) = c
      BY <1>1, <1>5, <1>7, <2>1
    <3> HIDE DEF Below
    <3>2. \A n \in Nat : n < d => n \notin Below
      BY <1>3, <1>5
    <3> USE DEF Below
    <3>3. b - (b - c) \in S
      BY <3>1, <3>2
    <3> QED
      BY <3>1, <3>3
  <2>2. CASE c > b
    <3>1. c - b \in Nat /\ c - b < u /\ b + (c - b) = c
      BY <1>1, <1>5, <1>7, <2>2
    <3> HIDE DEF Above
    <3>2. \A n \in Nat : n < u => n \notin Above
      BY <1>4, <1>5
    <3> USE DEF Above
    <3>3. b + (c - b) \in S
      BY <3>1, <3>2
    <3> QED
      BY <3>1, <3>3
  <2> QED
    BY <1>1, <1>5, <2>1, <2>2
<1> DEFINE r == [lo |-> b - d + 1, hi |-> b + u - 1]
<1>8. b \in Bytes(r) /\ Bytes(r) \subseteq S
  BY <1>1, <1>5, <1>6, <1>7 DEF Bytes
<1>9. r.lo \in S /\ r.hi \in S
  BY <1>1, <1>5, <1>6, <1>7
<1>10. r.lo - 1 = b - d /\ r.hi + 1 = b + u
  BY <1>1, <1>5
<1>11. r \in Runs(S)
  BY <1>5, <1>8, <1>9, <1>10 DEF Runs
<1> QED
  BY <1>8, <1>11

(* Two runs of the same set do not meet, so a run is known by where it      *)
(* starts.                                                                  *)
LEMMA RunsDisjoint ==
    ASSUME NEW S \in SUBSET Int, NEW r \in Runs(S), NEW q \in Runs(S),
           Bytes(r) \cap Bytes(q) # {}
    PROVE  r = q
<1>1. /\ r \in [lo : S, hi : S] /\ r.lo \in Int /\ r.hi \in Int
      /\ q \in [lo : S, hi : S] /\ q.lo \in Int /\ q.hi \in Int
  BY DEF Runs
<1>2. PICK b : b \in r.lo..r.hi /\ b \in q.lo..q.hi
  BY DEF Bytes
<1>3. \A c \in r.lo..r.hi : c \in S
  BY DEF Runs, Bytes
<1>4. \A c \in q.lo..q.hi : c \in S
  BY DEF Runs, Bytes
<1>5. r.lo - 1 \notin S /\ r.hi + 1 \notin S /\ q.lo - 1 \notin S /\ q.hi + 1 \notin S
  BY DEF Runs
<1>6. r.lo = q.lo
  <2>1. ~(r.lo < q.lo)
    BY <1>1, <1>2, <1>3, <1>5
  <2>2. ~(q.lo < r.lo)
    BY <1>1, <1>2, <1>4, <1>5
  <2> QED
    BY <1>1, <2>1, <2>2
<1>7. r.hi = q.hi
  <2>1. ~(r.hi < q.hi)
    BY <1>1, <1>2, <1>4, <1>5
  <2>2. ~(q.hi < r.hi)
    BY <1>1, <1>2, <1>3, <1>5
  <2> QED
    BY <1>1, <2>1, <2>2
<1> QED
  BY <1>1, <1>6, <1>7

LEMMA RunsFinite ==
    ASSUME NEW S \in SUBSET Int, IsFiniteSet(S)
    PROVE  IsFiniteSet(Runs(S)) /\ Cardinality(Runs(S)) \in Nat
<1> DEFINE f == [r \in Runs(S) |-> r.lo]
<1>1. \A r, q \in Runs(S) : r.lo = q.lo => r = q
  <2> SUFFICES ASSUME NEW r \in Runs(S), NEW q \in Runs(S), r.lo = q.lo PROVE r = q
    OBVIOUS
  <2>1. /\ r \in [lo : S, hi : S] /\ q \in [lo : S, hi : S]
        /\ Bytes(r) # {} /\ Bytes(q) # {}
    BY DEF Runs
  <2>2. r.lo \in Int /\ r.hi \in Int /\ q.hi \in Int /\ q.lo \in Int
    BY <2>1
  <2>3. r.lo <= r.hi /\ q.lo <= q.hi
    BY <2>1, <2>2 DEF Bytes
  <2>4. r.lo \in Bytes(r) \cap Bytes(q)
    BY <2>2, <2>3 DEF Bytes
  <2> QED
    BY <2>4, RunsDisjoint
<1>2. f \in Injection(Runs(S), S)
  <2>1. f \in [Runs(S) -> S]
    BY DEF Runs
  <2>2. \A r, q \in Runs(S) : f[r] = f[q] => r = q
    BY <1>1
  <2> HIDE DEF f
  <2> QED
    BY <2>1, <2>2 DEF Injection, IsInjective
<1>3. IsFiniteSet(Runs(S))
  BY <1>2, FS_Injection
<1> QED
  BY <1>3, FS_CardinalityType

-----------------------------------------------------------------------------
(* The store *)

Interval == [lo : Int, hi : Int, packet : Nat]

StoreInv ==
    /\ log \in Seq(Packet)
    /\ intervals \subseteq Interval
    /\ \A i \in intervals : i.packet \in 1..Len(log) /\ i.lo <= i.hi
    /\ IsFiniteSet(intervals) /\ IsFiniteSet(Held)
    /\ sessionUsed \in Nat /\ globalUsed \in Nat
    /\ OneHolder /\ FirstObservedWins /\ NothingLost /\ WithinLimits

LEMMA SegmentFinite ==
    ASSUME NEW p \in Packet
    PROVE  /\ Segment(p.start, p.data) \subseteq Int
           /\ IsFiniteSet(Segment(p.start, p.data))
           /\ Segment(p.start, p.data) \in SUBSET (p.start..(p.start + Len(p.data) - 1))
<1>1. p.start \in Int /\ Len(p.data) \in Nat
  BY DEF Packet
<1>2. p.start + Len(p.data) - 1 \in Int
  BY <1>1
<1> QED
  BY <1>1, <1>2, FS_Interval DEF Segment

LEMMA GrantedBounds ==
    ASSUME StoreInv, NEW a \in Nat
    PROVE  /\ Granted(a) \in Nat
           /\ Granted(a) <= a
           /\ sessionUsed + Granted(a) <= SessionLimit
           /\ globalUsed + Granted(a) <= GlobalLimit
  BY LimitAssumption DEF StoreInv, WithinLimits, Granted, Least

(* What a step that stores a segment does to the store. *)
LEMMA InsertKeeps ==
    ASSUME StoreInv, NEW p \in Packet, Insert(p), log' = Append(log, p)
    PROVE  StoreInv'
<1> DEFINE n == Len(log) + 1
           new == NewBytes(p)
           S == Segment(p.start, p.data)
           granted == Granted(Cardinality(new))
<1>1. PICK kept \in SUBSET new :
        /\ IsPrefix(kept, new, granted)
        /\ intervals' = IF NoRoom(kept) THEN intervals
                        ELSE intervals \cup
                             {[lo |-> r.lo, hi |-> r.hi, packet |-> n] : r \in Runs(kept)}
        /\ dropped' = dropped \cup Refused(new, kept)
        /\ truncated' = (truncated \/ Refused(new, kept) # {})
        /\ conflicts' = conflicts \cup {Conflict(i, p, n) : i \in Disputed(p)}
        /\ sessionUsed' = sessionUsed + granted
        /\ globalUsed' = globalUsed + granted
  BY DEF Insert
<1> DEFINE added == IF NoRoom(kept) THEN {}
                    ELSE {[lo |-> r.lo, hi |-> r.hi, packet |-> n] : r \in Runs(kept)}
<1>2. intervals' = intervals \cup added
  BY <1>1
<1>3. /\ S \subseteq Int /\ IsFiniteSet(S) /\ new \subseteq S /\ kept \subseteq new
      /\ new = S \ Held /\ kept \subseteq Int
  BY SegmentFinite DEF NewBytes
<1>4. IsFiniteSet(new) /\ IsFiniteSet(kept) /\ Cardinality(new) \in Nat
  BY <1>3, FS_Subset, FS_CardinalityType
<1>5. /\ granted \in Nat /\ Cardinality(kept) = granted
      /\ sessionUsed + granted <= SessionLimit /\ globalUsed + granted <= GlobalLimit
  BY <1>1, <1>4, GrantedBounds DEF IsPrefix
<1>6. /\ log \in Seq(Packet) /\ log' \in Seq(Packet) /\ n \in Nat /\ Len(log') = n
      /\ log'[n] = p
      /\ \A k \in 1..Len(log) : log'[k] = log[k]
  BY DEF StoreInv
<1>7. ASSUME NEW i \in added
      PROVE  /\ i \in Interval /\ i.packet = n /\ i.lo <= i.hi
             /\ Bytes(i) \subseteq kept
             /\ \E r \in Runs(kept) : i.lo = r.lo /\ i.hi = r.hi
  <2>1. PICK r \in Runs(kept) : i = [lo |-> r.lo, hi |-> r.hi, packet |-> n]
    BY <1>7
  <2>2. r.lo \in Int /\ r.hi \in Int /\ Bytes(r) # {} /\ Bytes(r) \subseteq kept
    BY <1>3 DEF Runs
  <2>3. r.lo <= r.hi
    BY <2>2 DEF Bytes
  <2> QED
    BY <1>6, <2>1, <2>2, <2>3 DEF Bytes, Interval
<1>8. BytesOf(added) \subseteq kept /\ (~NoRoom(kept) => BytesOf(added) = kept)
  <2>1. BytesOf(added) \subseteq kept
    BY <1>7 DEF BytesOf
  <2>2. ASSUME ~NoRoom(kept), NEW b \in kept PROVE b \in BytesOf(added)
    <3>1. kept \in SUBSET (p.start..(p.start + Len(p.data) - 1))
      BY <1>3, SegmentFinite
    <3>2. p.start \in Int /\ p.start + Len(p.data) - 1 \in Int
      BY DEF Packet
    <3>3. PICK r \in Runs(kept) : b \in Bytes(r)
      BY <3>1, <3>2, RunsCover
    <3>4. [lo |-> r.lo, hi |-> r.hi, packet |-> n] \in added
      BY <2>2
    <3>5. b \in Bytes([lo |-> r.lo, hi |-> r.hi, packet |-> n])
      BY <3>3 DEF Bytes
    <3> HIDE DEF added
    <3> QED
      BY <3>4, <3>5 DEF BytesOf
  <2> HIDE DEF added
  <2> QED
    BY <2>1, <2>2
<1>9. IsFiniteSet(added) /\ Cardinality(intervals') <= MaxSegments /\ IsFiniteSet(intervals')
  <2>1. IsFiniteSet(Runs(kept)) /\ Cardinality(Runs(kept)) \in Nat
    BY <1>3, <1>4, RunsFinite
  <2>2. IsFiniteSet(intervals) /\ Cardinality(intervals) \in Nat
        /\ Cardinality(intervals) <= MaxSegments
    BY FS_CardinalityType DEF StoreInv, WithinLimits
  <2>3. CASE NoRoom(kept)
    BY <1>2, <2>2, <2>3, FS_EmptySet
  <2>4. CASE ~NoRoom(kept)
    <3> DEFINE Named(r) == [lo |-> r.lo, hi |-> r.hi, packet |-> n]
               f == [r \in Runs(kept) |-> Named(r)]
    <3>1. added = {Named(r) : r \in Runs(kept)}
      BY <2>4
    <3>2. f \in Surjection(Runs(kept), added)
      <4>1. f \in [Runs(kept) -> added]
        BY <3>1
      <4>2. \A a \in added : \E r \in Runs(kept) : f[r] = a
        BY <3>1
      <4> HIDE DEF f, added
      <4> QED
        BY <4>1, <4>2 DEF Surjection
    <3> HIDE DEF f, added
    <3>3. IsFiniteSet(added) /\ Cardinality(added) <= Cardinality(Runs(kept))
          /\ Cardinality(added) \in Nat
      BY <2>1, <3>2, FS_Surjection, FS_CardinalityType
    <3>4. /\ IsFiniteSet(intervals \cup added)
          /\ Cardinality(intervals \cup added) <= Cardinality(intervals) + Cardinality(added)
      <4>1. /\ IsFiniteSet(intervals \cup added) /\ IsFiniteSet(intervals \cap added)
            /\ Cardinality(intervals \cup added) =
                 Cardinality(intervals) + Cardinality(added) - Cardinality(intervals \cap added)
        BY <2>2, <3>3, FS_Union, FS_Intersection
      <4>2. Cardinality(intervals \cap added) \in Nat
        BY <4>1, FS_CardinalityType
      <4> QED
        BY <2>2, <3>3, <4>1, <4>2
    <3>5. Cardinality(intervals \cup added) \in Nat
      BY <3>4, FS_CardinalityType
    <3>6. Cardinality(intervals) + Cardinality(Runs(kept)) <= MaxSegments
      BY <2>1, <2>2, <2>4, LimitAssumption DEF NoRoom
    <3> QED
      BY <1>2, <2>1, <2>2, <3>3, <3>4, <3>5, <3>6, LimitAssumption
  <2> QED
    BY <2>3, <2>4
<1> HIDE DEF added, granted, new, S
<1>10. Held' = Held \cup BytesOf(added)
  BY <1>2 DEF Held, BytesOf
<1>11. OneHolder'
  <2>1. ASSUME NEW i \in intervals', NEW j \in intervals', i # j
        PROVE  Bytes(i) \cap Bytes(j) = {}
    <3>1. CASE i \in intervals /\ j \in intervals
      BY <2>1, <3>1 DEF StoreInv, OneHolder
    <3>2. CASE i \in intervals /\ j \in added
      <4>1. Bytes(i) \subseteq Held
        BY <3>2 DEF Held, BytesOf
      <4>2. Bytes(j) \subseteq kept
        BY <1>7, <3>2
      <4> QED
        BY <1>3, <4>1, <4>2
    <3>3. CASE i \in added /\ j \in intervals
      <4>1. Bytes(j) \subseteq Held
        BY <3>3 DEF Held, BytesOf
      <4>2. Bytes(i) \subseteq kept
        BY <1>7, <3>3
      <4> QED
        BY <1>3, <4>1, <4>2
    <3>4. CASE i \in added /\ j \in added
      <4>1. PICK r \in Runs(kept) : i.lo = r.lo /\ i.hi = r.hi
        BY <1>7, <3>4
      <4>2. PICK q \in Runs(kept) : j.lo = q.lo /\ j.hi = q.hi
        BY <1>7, <3>4
      <4>3. r # q
        <5>1. i \in Interval /\ j \in Interval /\ i.packet = j.packet
          BY <1>7, <3>4
        <5> QED
          BY <2>1, <4>1, <4>2, <5>1 DEF Interval
      <4>4. Bytes(r) \cap Bytes(q) = {}
        BY <1>3, <4>3, RunsDisjoint
      <4> QED
        BY <4>1, <4>2, <4>4 DEF Bytes
    <3> QED
      BY <1>2, <3>1, <3>2, <3>3, <3>4
  <2>2. ASSUME NEW i \in intervals'
        PROVE  Bytes(i) \subseteq Segment(log'[i.packet].start, log'[i.packet].data)
    <3>1. CASE i \in intervals
      BY <1>6, <3>1 DEF StoreInv, OneHolder
    <3>2. CASE i \in added
      BY <1>3, <1>6, <1>7, <3>2 DEF S
    <3> QED
      BY <1>2, <3>1, <3>2
  <2> QED
    BY <2>1, <2>2 DEF OneHolder
<1>12. /\ intervals' \subseteq Interval
       /\ \A i \in intervals' : i.packet \in 1..Len(log') /\ i.lo <= i.hi
  <2>1. \A i \in intervals : i \in Interval /\ i.packet \in 1..Len(log') /\ i.lo <= i.hi
    BY <1>6 DEF StoreInv
  <2>2. \A i \in added : i \in Interval /\ i.packet \in 1..Len(log') /\ i.lo <= i.hi
    BY <1>6, <1>7
  <2> QED
    BY <1>2, <2>1, <2>2
<1>13. /\ IsFiniteSet(Held') /\ sessionUsed' \in Nat /\ globalUsed' \in Nat
       /\ WithinLimits'
  <2>1. /\ IsFiniteSet(Held) /\ Cardinality(Held) \in Nat /\ Cardinality(Held) <= sessionUsed
        /\ sessionUsed \in Nat /\ globalUsed \in Nat /\ sessionUsed <= globalUsed
    BY FS_CardinalityType DEF StoreInv, WithinLimits
  <2>2. Held \cap kept = {}
    BY <1>3
  <2>3. IsFiniteSet(Held \cup kept) /\ Cardinality(Held \cup kept) = Cardinality(Held) + granted
    <3>1. /\ IsFiniteSet(Held \cup kept)
          /\ Cardinality(Held \cup kept) =
               Cardinality(Held) + Cardinality(kept) - Cardinality(Held \cap kept)
      BY <1>4, <2>1, FS_Union
    <3>2. Cardinality(Held \cap kept) = 0
      BY <2>2, FS_EmptySet
    <3> QED
      BY <1>5, <2>1, <3>1, <3>2
  <2>4. Held' \subseteq Held \cup kept
    BY <1>8, <1>10
  <2>5. IsFiniteSet(Held') /\ Cardinality(Held') <= Cardinality(Held) + granted
        /\ Cardinality(Held') \in Nat
    BY <2>3, <2>4, FS_Subset, FS_CardinalityType
  <2> QED
    BY <1>1, <1>5, <1>9, <2>1, <2>5 DEF WithinLimits, granted, new
<1>14. NothingLost'
  <2>1. ASSUME NEW k \in 1..Len(log')
        PROVE  Segment(log'[k].start, log'[k].data) \subseteq Held' \cup dropped'
    <3>1. CASE k = n
      <4>1. Segment(log'[k].start, log'[k].data) = S
        BY <1>6, <3>1 DEF S
      <4>2. S \subseteq Held \cup kept \cup (new \ kept)
        BY <1>3
      <4>3. CASE NoRoom(kept)
        BY <1>1, <1>3, <1>10, <4>1, <4>2, <4>3 DEF Refused, new
      <4>4. CASE ~NoRoom(kept)
        BY <1>1, <1>3, <1>8, <1>10, <4>1, <4>2, <4>4 DEF Refused, new
      <4> QED
        BY <4>3, <4>4
    <3>2. CASE k # n
      <4>1. k \in 1..Len(log) /\ log'[k] = log[k]
        BY <1>6, <3>2
      <4> QED
        BY <1>1, <1>10, <4>1 DEF StoreInv, NothingLost
    <3> QED
      BY <3>1, <3>2
  <2>2. dropped' # {} => truncated'
    BY <1>1 DEF StoreInv, NothingLost
  <2> QED
    BY <2>1, <2>2 DEF NothingLost
<1>15. FirstObservedWins'
  <2> SUFFICES ASSUME NEW i \in intervals', NEW k \in 1..Len(log'),
                      NEW b \in Bytes(i) \cap Segment(log'[k].start, log'[k].data)
               PROVE  /\ k < i.packet => b \in dropped'
                      /\ k > i.packet /\ ByteAt(log'[k], b) # ByteAt(log'[i.packet], b) =>
                           \E c \in conflicts' : /\ b \in Bytes(c)
                                                 /\ c.accepted = i.packet
                                                 /\ c.conflicting = k
    BY DEF FirstObservedWins
  <2>1. CASE i \in intervals /\ k # n
    <3>1. k \in 1..Len(log) /\ log'[k] = log[k] /\ log'[i.packet] = log[i.packet]
      BY <1>6, <2>1 DEF StoreInv
    <3>2. b \in Bytes(i) \cap Segment(log[k].start, log[k].data)
      BY <3>1
    <3> QED
      BY <1>1, <2>1, <3>1, <3>2 DEF StoreInv, FirstObservedWins
  <2>2. CASE i \in intervals /\ k = n
    <3>1. i \in Interval /\ i.packet \in 1..Len(log) /\ log'[i.packet] = log[i.packet] /\ log'[k] = p
      BY <1>6, <2>2 DEF StoreInv
    <3>2. i.packet < k
      BY <1>6, <2>2, <3>1
    <3>3. ASSUME ByteAt(p, b) # ByteAt(log[i.packet], b)
          PROVE  Conflict(i, p, n) \in conflicts' /\ b \in Bytes(Conflict(i, p, n))
      <4>1. b \in Bytes(i) \cap Segment(p.start, p.data)
        BY <3>1
      <4>2. i \in Disputed(p)
        BY <2>2, <3>3, <4>1 DEF Disputed
      <4>3. /\ b \in Int /\ i.lo <= b /\ b <= i.hi
            /\ p.start <= b /\ b <= p.start + Len(p.data) - 1
            /\ i.lo \in Int /\ i.hi \in Int /\ p.start \in Int /\ Len(p.data) \in Nat
        BY <3>1, <4>1 DEF Bytes, Segment, Interval, Packet
      <4>4. b \in Bytes(Conflict(i, p, n))
        BY <4>3 DEF Bytes, Conflict, Least, Greatest
      <4> QED
        BY <1>1, <4>2, <4>4
    <3>4. Conflict(i, p, n).accepted = i.packet /\ Conflict(i, p, n).conflicting = n
      BY DEF Conflict
    <3>5. ~(k < i.packet)
      BY <3>1, <3>2
    <3> QED
      BY <2>2, <3>1, <3>3, <3>4, <3>5
  <2>3. CASE i \in added
    <3>1. i.packet = n /\ b \in kept
      BY <1>7, <2>3
    <3>2. b \notin Held
      BY <1>3, <3>1
    <3>3. ~(k > i.packet)
      BY <1>6, <3>1
    <3>4. ASSUME k < i.packet PROVE b \in dropped'
      <4>1. k \in 1..Len(log) /\ log'[k] = log[k]
        BY <1>6, <3>1, <3>4
      <4>2. b \in Held \cup dropped
        BY <4>1 DEF StoreInv, NothingLost
      <4> QED
        BY <1>1, <3>2, <4>2
    <3> QED
      BY <3>3, <3>4
  <2> QED
    BY <1>2, <2>1, <2>2, <2>3
<1> QED
  BY <1>6, <1>9, <1>11, <1>12, <1>13, <1>14, <1>15 DEF StoreInv

LEMMA StoreStep ==
    ASSUME PlaceInv, StoreInv, [Next]_vars
    PROVE  StoreInv'
<1>1. ASSUME UNCHANGED <<store, log>> PROVE StoreInv'
  BY <1>1 DEF store, StoreInv, Held, OneHolder, FirstObservedWins, NothingLost, WithinLimits
<1>2. ASSUME NEW pos \in Positions, ObserveEmpty(pos) PROVE StoreInv'
  BY <1>1, <1>2 DEF ObserveEmpty
<1>3. ASSUME NEW pos \in Positions, NEW data \in Payloads, NEW cut \in CutTails,
             ObservePayload(pos, data, cut)
      PROVE  StoreInv'
  <2> DEFINE one == IF pos = 0 THEN 1 ELSE 0
             p == [start |-> ExtOf(pos) + one, at |-> pos + one, data |-> data, cut |-> cut]
  <2>1. /\ pos \in Nat /\ InWindow(pos) /\ data \in Seq(Nat) /\ cut \in Nat
        /\ Insert(p) /\ log' = Append(log, p)
    BY <1>3, CaptureAssumption DEF ObservePayload
  <2>2. ExtOf(pos) \in Int
    BY <2>1, ExtPlaced
  <2>3. p \in Packet
    BY <2>1, <2>2 DEF Packet
  <2> HIDE DEF p
  <2> QED
    BY <2>1, <2>3, InsertKeeps
<1>4. ASSUME NEW pos \in AckPositions, NotePeerAck(pos) PROVE StoreInv'
  BY <1>1, <1>4 DEF NotePeerAck
<1>5. ASSUME NEW n \in OtherTakes, NEW same \in BOOLEAN, OtherStreamTakes(n, same)
      PROVE  StoreInv'
  <2>1. UNCHANGED <<intervals, conflicts, dropped, truncated, log>>
    BY <1>5 DEF OtherStreamTakes
  <2>2. n \in Nat /\ sessionUsed \in Nat /\ globalUsed \in Nat
    BY CaptureAssumption DEF StoreInv
  <2>3. IsFiniteSet(Held) /\ Cardinality(Held) \in Nat
    BY FS_CardinalityType DEF StoreInv
  <2>4. Held' = Held
    BY <2>1 DEF Held
  <2>5. WithinLimits' /\ sessionUsed' \in Nat /\ globalUsed' \in Nat
    BY <1>5, <2>1, <2>2, <2>3, <2>4, LimitAssumption DEF OtherStreamTakes, StoreInv, WithinLimits
  <2>6. OneHolder' /\ FirstObservedWins' /\ NothingLost'
    BY <2>1, <2>4 DEF StoreInv, OneHolder, FirstObservedWins, NothingLost
  <2> QED
    BY <2>1, <2>4, <2>5, <2>6 DEF StoreInv
<1>6. CASE UNCHANGED vars
  BY <1>1, <1>6 DEF vars, store
<1> QED
  BY <1>2, <1>3, <1>4, <1>5, <1>6 DEF Next

LEMMA StoreInit ==
    ASSUME Init PROVE StoreInv
<1>1. Held = {}
  BY DEF Init, Held, BytesOf
<1>2. IsFiniteSet({}) /\ Cardinality({}) = 0
  BY FS_EmptySet
<1> QED
  BY <1>1, <1>2, LimitAssumption
     DEF Init, StoreInv, OneHolder, FirstObservedWins, NothingLost, WithinLimits

LEMMA StoreAlways == Spec => []StoreInv
<1>1. Init => PlaceInv /\ StoreInv
  <2>1. Init => PlaceInv
    BY DEF Init, PlaceInv
  <2> QED
    BY <2>1, StoreInit
<1>2. (PlaceInv /\ StoreInv) /\ [Next]_vars => (PlaceInv /\ StoreInv)'
  BY PlaceStep, StoreStep
<1> QED
  BY <1>1, <1>2, PTL DEF Spec

(* reassembly.py:13-18: for every capture, no byte of the stream is         *)
(* attributed to two packets, and the packet it is attributed to carried it.*)
THEOREM BytesHaveOneHolder == Spec => []OneHolder
<1>1. StoreInv => OneHolder
  BY DEF StoreInv
<1> QED
  BY <1>1, StoreAlways, PTL

(* reassembly.py:20-25: for every capture, FIRST_OBSERVED_WINS is what the  *)
(* store does, and each disagreement is recorded.                           *)
THEOREM FirstWins == Spec => []FirstObservedWins
<1>1. StoreInv => FirstObservedWins
  BY DEF StoreInv
<1> QED
  BY <1>1, StoreAlways, PTL

(* For every capture and all limits, a captured byte is in the stream or    *)
(* was dropped by a limit, and then the stream says it is truncated.        *)
THEOREM NoSilentLoss == Spec => []NothingLost
<1>1. StoreInv => NothingLost
  BY DEF StoreInv
<1> QED
  BY <1>1, StoreAlways, PTL

(* budget.py: for all limits, what is stored never exceeds the session's    *)
(* and the capture's budgets, nor the number of segments.                   *)
THEOREM LimitsHold == Spec => []WithinLimits
<1>1. StoreInv => WithinLimits
  BY DEF StoreInv
<1> QED
  BY <1>1, StoreAlways, PTL

-----------------------------------------------------------------------------
(* What a gap is blamed on *)

Carried(k) == Segment(log[k].start, log[k].data)
CutOff(k) ==
    (log[k].start + Len(log[k].data))..(log[k].start + Len(log[k].data) + log[k].cut - 1)

(* Every dropped byte was carried, and the bytes noted as not captured are  *)
(* those the segments of the capture declared without carrying them.        *)
SourceInv ==
    /\ \A b \in dropped : \E k \in 1..Len(log) : b \in Carried(k)
    /\ notCaptured = UNION {CutOff(k) : k \in 1..Len(log)}

(* What finalize() walks over lies between two numbers. *)
Bounded == \E lo, hi \in Int : Claimed \subseteq lo..hi

GapInv == StoreInv /\ SourceInv /\ Bounded

LEMMA SourceStep ==
    ASSUME PlaceInv, GapInv, [Next]_vars
    PROVE  SourceInv' /\ Bounded'
<1>1. ASSUME UNCHANGED <<intervals, dropped, notCaptured, log>> PROVE SourceInv' /\ Bounded'
  BY <1>1 DEF GapInv, SourceInv, Bounded, Carried, CutOff, Claimed, Held
<1>2. ASSUME NEW pos \in Positions, ObserveEmpty(pos) PROVE SourceInv' /\ Bounded'
  BY <1>1, <1>2 DEF ObserveEmpty, store
<1>3. ASSUME NEW pos \in Positions, NEW data \in Payloads, NEW cut \in CutTails,
             ObservePayload(pos, data, cut)
      PROVE  SourceInv' /\ Bounded'
  <2> DEFINE one == IF pos = 0 THEN 1 ELSE 0
             p == [start |-> ExtOf(pos) + one, at |-> pos + one, data |-> data, cut |-> cut]
             tail == p.start + Len(data)
             S == Segment(p.start, p.data)
             cutNow == tail..(tail + cut - 1)
             n == Len(log) + 1
  <2>1. /\ pos \in Nat /\ InWindow(pos) /\ data \in Seq(Nat) /\ cut \in Nat
        /\ Insert(p) /\ log' = Append(log, p)
        /\ notCaptured' = notCaptured \cup cutNow
    BY <1>3, CaptureAssumption DEF ObservePayload
  <2>2. ExtOf(pos) \in Int
    BY <2>1, ExtPlaced
  <2>3. p \in Packet /\ p.data = data /\ p.cut = cut /\ p.start \in Int /\ tail = p.start + Len(p.data)
    BY <2>1, <2>2 DEF Packet
  <2>4. Len(data) \in Nat /\ tail \in Int /\ p.start <= tail
    BY <2>1, <2>3
  <2> HIDE DEF p, tail
  <2>5. /\ n \in 1..n /\ Len(log') = n /\ log'[n] = p
        /\ \A k \in 1..Len(log) : k \in 1..n /\ log'[k] = log[k]
        /\ \A k \in 1..n : k = n \/ k \in 1..Len(log)
    BY <2>1, <2>3 DEF GapInv, StoreInv
  <2>6. PICK kept \in SUBSET NewBytes(p) :
          /\ dropped' = dropped \cup Refused(NewBytes(p), kept)
          /\ intervals' = IF NoRoom(kept) THEN intervals
                          ELSE intervals \cup
                               {[lo |-> r.lo, hi |-> r.hi, packet |-> n] : r \in Runs(kept)}
    BY <2>1 DEF Insert
  <2>7. Refused(NewBytes(p), kept) \subseteq S /\ kept \subseteq S
    BY <2>6 DEF Refused, NewBytes
  <2>8. S \subseteq Int /\ S = p.start..(tail - 1)
    BY <2>3, SegmentFinite DEF Segment
  <2>9. Held' \subseteq Held \cup S
    <3> DEFINE fresh == {[lo |-> r.lo, hi |-> r.hi, packet |-> n] : r \in Runs(kept)}
    <3>1. \A i \in fresh : Bytes(i) \subseteq kept
      BY DEF Runs, Bytes
    <3>2. intervals' \subseteq intervals \cup fresh
      BY <2>6
    <3> HIDE DEF fresh
    <3> QED
      BY <2>7, <3>1, <3>2 DEF Held, BytesOf
  <2>10. SourceInv'
    <3>1. ASSUME NEW b \in dropped'
          PROVE  \E k \in 1..Len(log') : b \in Segment(log'[k].start, log'[k].data)
      <4>1. CASE b \in dropped
        <5>1. PICK k \in 1..Len(log) : b \in Segment(log[k].start, log[k].data)
          BY <4>1 DEF GapInv, SourceInv, Carried
        <5> QED
          BY <2>5, <5>1
      <4>2. CASE b \in S
        BY <2>5, <4>2
      <4> QED
        BY <2>6, <2>7, <3>1, <4>1, <4>2
    <3>2. notCaptured' =
            UNION {(log'[k].start + Len(log'[k].data))..
                   (log'[k].start + Len(log'[k].data) + log'[k].cut - 1) : k \in 1..Len(log')}
      <4> DEFINE CutOf(q) == (q.start + Len(q.data))..(q.start + Len(q.data) + q.cut - 1)
      <4>1. notCaptured = UNION {CutOf(log[k]) : k \in 1..Len(log)}
        BY DEF GapInv, SourceInv, CutOff
      <4>2. CutOf(p) = cutNow
        BY <2>3
      <4> HIDE DEF CutOf, cutNow, n
      <4>3. UNION {CutOf(log'[k]) : k \in 1..n} =
              (UNION {CutOf(log[k]) : k \in 1..Len(log)}) \cup cutNow
        <5>1. CutOf(log'[n]) = cutNow
          BY <2>5, <4>2
        <5>2. \A k \in 1..Len(log) : k \in 1..n /\ CutOf(log[k]) = CutOf(log'[k])
          BY <2>5
        <5>3. \A k \in 1..n : k = n \/ k \in 1..Len(log)
          BY <2>5
        <5>4. n \in 1..n
          BY <2>5
        <5> HIDE DEF CutOf
        <5> QED
          BY <5>1, <5>2, <5>3, <5>4
      <4>4. notCaptured' = UNION {CutOf(log'[k]) : k \in 1..Len(log')}
        <5>1. Len(log') = n
          BY <2>5
        <5> QED
          BY <2>1, <4>1, <4>3, <5>1
      <4> QED
        BY <4>4 DEF CutOf
    <3> QED
      BY <3>1, <3>2 DEF SourceInv, Carried, CutOff
  <2>11. Bounded'
    <3>1. PICK lo \in Int, hi \in Int : Claimed \subseteq lo..hi
      BY DEF GapInv, Bounded
    <3> DEFINE newLo == IF lo <= p.start THEN lo ELSE p.start
               newHi == IF tail + cut <= hi THEN hi ELSE tail + cut
    <3>2. newLo \in Int /\ newHi \in Int /\ newLo <= lo /\ hi <= newHi
          /\ newLo <= p.start /\ tail + cut <= newHi
      BY <2>1, <2>3, <2>4, <3>1
    <3> HIDE DEF newLo, newHi
    <3>3. lo..hi \subseteq newLo..newHi /\ S \subseteq newLo..newHi /\ cutNow \subseteq newLo..newHi
      <4>1. lo..hi \subseteq newLo..newHi
        BY <3>1, <3>2
      <4>2. p.start \in Int /\ tail - 1 \in Int /\ tail + cut - 1 \in Int /\ tail \in Int
            /\ newLo <= tail /\ tail - 1 <= newHi /\ tail + cut - 1 <= newHi
        <5>1. cut \in Nat /\ tail \in Int /\ p.start \in Int /\ p.start <= tail
          BY <2>1, <2>3, <2>4
        <5> QED
          BY <3>2, <5>1
      <4>3. p.start..(tail - 1) \subseteq newLo..newHi
        BY <3>2, <4>2
      <4>4. tail..(tail + cut - 1) \subseteq newLo..newHi
        BY <3>2, <4>2
      <4> QED
        BY <2>8, <4>1, <4>3, <4>4
    <3>4. Claimed' \subseteq newLo..newHi
      <4>1. Held \cup dropped \cup notCaptured \subseteq newLo..newHi
        BY <3>1, <3>3 DEF Claimed
      <4> HIDE DEF S, cutNow
      <4> QED
        BY <2>1, <2>6, <2>7, <2>9, <3>3, <4>1 DEF Claimed
    <3> QED
      BY <3>2, <3>4 DEF Bounded
  <2> QED
    BY <2>10, <2>11
<1>4. ASSUME NEW pos \in AckPositions, NotePeerAck(pos) PROVE SourceInv' /\ Bounded'
  BY <1>1, <1>4 DEF NotePeerAck, store
<1>5. ASSUME NEW n \in OtherTakes, NEW same \in BOOLEAN, OtherStreamTakes(n, same)
      PROVE  SourceInv' /\ Bounded'
  BY <1>1, <1>5 DEF OtherStreamTakes
<1>6. CASE UNCHANGED vars
  BY <1>1, <1>6 DEF vars
<1> QED
  BY <1>2, <1>3, <1>4, <1>5, <1>6 DEF Next

LEMMA GapInit ==
    ASSUME Init PROVE PlaceInv /\ GapInv
<1>1. PlaceInv
  BY DEF Init, PlaceInv
<1>2. SourceInv
  BY DEF Init, SourceInv
<1>3. Claimed = {}
  BY DEF Init, Claimed, Held, BytesOf
<1>4. Bounded
  <2>1. Claimed \subseteq 0..0
    BY <1>3
  <2> QED
    BY <2>1 DEF Bounded
<1> QED
  BY <1>1, <1>2, <1>4, StoreInit DEF GapInv

LEMMA GapAlways == Spec => []GapInv
<1>1. Init => PlaceInv /\ GapInv
  BY GapInit
<1>2. (PlaceInv /\ GapInv) /\ [Next]_vars => (PlaceInv /\ GapInv)'
  BY PlaceStep, StoreStep, SourceStep DEF GapInv
<1> QED
  BY <1>1, <1>2, PTL DEF Spec

(* A gap is a run of bytes that are not in the stream. *)
LEMMA GapNotHeld ==
    ASSUME NEW g \in Gaps
    PROVE  Bytes(g) \cap Held = {}
<1>1. g \in Holes
  BY DEF Gaps
<1>2. Bytes(g) \subseteq {b \in First..(CHOOSE b \in Claimed : \A c \in Claimed : b >= c) :
                           b \notin Held}
  BY <1>1 DEF Holes, Runs
<1> QED
  BY <1>2

(* docs/evidence-model.md, GapReason: for every capture and all limits, the *)
(* reason a gap is given is true of the segments the capture holds.         *)
THEOREM GapsAreExplained == Spec => []GapReasonsAreTrue
<1>1. GapInv => GapReasonsAreTrue
  <2> SUFFICES ASSUME GapInv, NEW g \in Gaps
               PROVE  LET Some(Part(_)) == \E k \in 1..Len(log) : Part(k) \cap Bytes(g) # {}
                      IN /\ Reason(g) = "MISSING_SEGMENT" => ~Some(Carried) /\ ~Some(CutOff)
                         /\ Reason(g) = "LIMIT_EXCEEDED" => Some(Carried) /\ ~Some(CutOff)
                         /\ Reason(g) = "NOT_CAPTURED" => Some(CutOff)
    BY DEF GapReasonsAreTrue, Carried, CutOff
  <2>1. Bytes(g) \cap Held = {}
    BY GapNotHeld
  <2>2. \A k \in 1..Len(log) : Carried(k) \subseteq Held \cup dropped
    BY DEF GapInv, StoreInv, NothingLost, Carried
  <2>3. \A b \in dropped : \E k \in 1..Len(log) : b \in Carried(k)
    BY DEF GapInv, SourceInv
  <2>4. notCaptured = UNION {CutOff(k) : k \in 1..Len(log)}
    BY DEF GapInv, SourceInv
  <2>5. Bytes(g) \cap notCaptured # {} <=> \E k \in 1..Len(log) : CutOff(k) \cap Bytes(g) # {}
    BY <2>4
  <2>6. Bytes(g) \cap dropped # {} <=> \E k \in 1..Len(log) : Carried(k) \cap Bytes(g) # {}
    BY <2>1, <2>2, <2>3
  <2> QED
    BY <2>5, <2>6 DEF Reason
<1> QED
  BY <1>1, GapAlways, PTL

(* A non-empty set of numbers between two others has a least and a greatest *)
(* element.                                                                 *)
LEMMA Extremes ==
    ASSUME NEW lo \in Int, NEW hi \in Int, NEW X \in SUBSET (lo..hi), X # {}
    PROVE  /\ \E x \in X : \A y \in X : x <= y
           /\ \E x \in X : \A y \in X : x >= y
<1> DEFINE Up == {n \in Nat : lo + n \in X}
           Down == {n \in Nat : hi - n \in X}
<1>1. ASSUME NEW x \in X
      PROVE  /\ x - lo \in Up /\ hi - x \in Down
             /\ x \in Int /\ lo + (x - lo) = x /\ hi - (hi - x) = x
  <2>1. x \in Int /\ lo <= x /\ x <= hi
    OBVIOUS
  <2>2. x - lo \in Nat /\ hi - x \in Nat /\ lo + (x - lo) = x /\ hi - (hi - x) = x
    BY <2>1
  <2> QED
    BY <2>1, <2>2
<1>2. Up \in SUBSET Nat /\ Up # {} /\ Down \in SUBSET Nat /\ Down # {}
  BY <1>1
<1>3. PICK u \in Up : \A v \in Up : u <= v
  BY <1>2, LeastNat
<1>4. PICK d \in Down : \A v \in Down : d <= v
  BY <1>2, LeastNat
<1>5. u \in Nat /\ lo + u \in X /\ d \in Nat /\ hi - d \in X
  BY <1>3, <1>4
<1> HIDE DEF Up, Down
<1>6. \A y \in X : lo + u <= y
  BY <1>1, <1>3, <1>5
<1>7. \A y \in X : hi - d >= y
  BY <1>1, <1>4, <1>5
<1> QED
  BY <1>5, <1>6, <1>7

(* Runs are counted from the first: when fewer than a limit are listed, all *)
(* of them are.                                                             *)
LEMMA AllRunsListed ==
    ASSUME NEW lo \in Int, NEW hi \in Int, NEW S \in SUBSET (lo..hi), NEW limit \in Nat,
           NEW listed,
           listed = {g \in Runs(S) : Cardinality({h \in Runs(S) : h.lo < g.lo}) < limit},
           Cardinality(listed) < limit
    PROVE  listed = Runs(S)
<1> DEFINE Before(g) == {h \in Runs(S) : h.lo < g.lo}
           late == Runs(S) \ listed
           starts == {g.lo : g \in late}
<1>1. IsFiniteSet(S) /\ S \in SUBSET Int
  <2>1. IsFiniteSet(lo..hi) /\ S \subseteq lo..hi
    BY FS_Interval
  <2>2. IsFiniteSet(S)
    BY <2>1, FS_Subset
  <2> QED
    BY <2>2
<1>2. IsFiniteSet(Runs(S))
  BY <1>1, RunsFinite
<1> SUFFICES ASSUME late # {} PROVE FALSE
  OBVIOUS
<1>3. starts \subseteq lo..hi /\ starts # {}
  <2>1. \A g \in Runs(S) : g.lo \in S
    BY DEF Runs
  <2>2. \A g \in late : g.lo \in lo..hi
    BY <2>1
  <2> QED
    BY <2>2
<1>4. PICK s \in starts : \A t \in starts : s <= t
  <2> HIDE DEF starts
  <2> QED
    BY <1>3, Extremes
<1>5. PICK g \in late : g.lo = s
  BY <1>4
<1>6. Before(g) \subseteq listed
  <2> SUFFICES ASSUME NEW h \in Before(g), h \notin listed PROVE FALSE
    OBVIOUS
  <2>1. h.lo \in starts /\ h.lo < s
    BY <1>5
  <2> HIDE DEF starts
  <2>2. h.lo \in Int /\ s \in Int
    <3>1. \A t \in starts : t \in lo..hi
      BY <1>3
    <3>2. \A t \in lo..hi : t \in Int
      OBVIOUS
    <3> QED
      BY <1>4, <2>1, <3>1, <3>2
  <2> QED
    BY <1>4, <2>1, <2>2
<1>7. listed \subseteq Runs(S) /\ Before(g) \subseteq Runs(S)
  OBVIOUS
<1>8. /\ IsFiniteSet(listed) /\ Cardinality(listed) \in Nat /\ Cardinality(Before(g)) \in Nat
      /\ Cardinality(Before(g)) <= Cardinality(listed)
  BY <1>2, <1>6, <1>7, FS_Subset, FS_CardinalityType
<1>9. ~(Cardinality(Before(g)) < limit)
  BY <1>5
<1> QED
  BY <1>8, <1>9

(* For every capture and all limits, a byte after the first stored one that *)
(* a captured packet carried or declared is in the stream or in a reported  *)
(* gap, unless the gap limit is reached.                                    *)
THEOREM LaterBytesAccounted == Spec => []LaterBytesReported
<1>1. GapInv => LaterBytesReported
  <2> DEFINE Last == CHOOSE b \in Claimed : \A c \in Claimed : b >= c
             X == {b \in First..Last : b \notin Held}
  <2> SUFFICES ASSUME GapInv, Cardinality(Gaps) < MaxGaps, intervals # {},
                      NEW k \in 1..Len(log),
                      NEW b \in log[k].start..(log[k].start + Len(log[k].data) + log[k].cut - 1),
                      b > First
               PROVE  b \in Held \cup BytesOf(Gaps)
    BY DEF LaterBytesReported
  <2>1. PICK lo \in Int, hi \in Int : Claimed \subseteq lo..hi
    BY DEF GapInv, Bounded
  <2>2. Held \subseteq Claimed /\ Held # {}
    <3>1. PICK i \in intervals : TRUE
      OBVIOUS
    <3>2. i.lo \in Int /\ i.hi \in Int /\ i.lo <= i.hi
      BY DEF GapInv, StoreInv, Interval
    <3>3. i.lo \in Bytes(i)
      BY <3>2 DEF Bytes
    <3> QED
      BY <3>3 DEF Held, BytesOf, Claimed
  <2>3. First \in Held /\ First \in Int
    <3>1. Held \in SUBSET (lo..hi)
      BY <2>1, <2>2
    <3>2. \E x \in Held : \A y \in Held : x <= y
      BY <2>2, <3>1, Extremes
    <3>3. First \in Held
      BY <3>2 DEF First
    <3> QED
      BY <3>1, <3>3
  <2>4. Last \in Claimed /\ Last \in Int /\ \A c \in Claimed : Last >= c
    <3>1. Claimed \in SUBSET (lo..hi) /\ Claimed # {}
      BY <2>1, <2>2
    <3>2. \E x \in Claimed : \A y \in Claimed : x >= y
      BY <3>1, Extremes
    <3>3. Last \in Claimed /\ \A c \in Claimed : Last >= c
      BY <3>2
    <3> HIDE DEF Last
    <3>4. Last \in Int
      BY <3>1, <3>3
    <3> QED
      BY <3>3, <3>4
  <2>5. b \in Claimed
    <3>1. /\ log[k] \in Packet
          /\ Carried(k) \subseteq Held \cup dropped
          /\ CutOff(k) \subseteq notCaptured
      BY DEF GapInv, StoreInv, NothingLost, SourceInv, Carried
    <3>2. log[k].start \in Int /\ Len(log[k].data) \in Nat /\ log[k].cut \in Nat
      BY <3>1 DEF Packet
    <3>3. b \in Carried(k) \/ b \in CutOff(k)
      BY <3>2 DEF Carried, CutOff, Segment
    <3> QED
      BY <3>1, <3>3 DEF Claimed
  <2> SUFFICES ASSUME b \notin Held PROVE b \in BytesOf(Gaps)
    OBVIOUS
  <2>6. b \in Int /\ Last >= b
    BY <2>1, <2>4, <2>5
  <2> HIDE DEF Last
  <2>7. b \in X /\ X \in SUBSET (First..Last)
    BY <2>3, <2>4, <2>6
  <2>8. Holes = Runs(X)
    BY DEF Holes, Last
  <2> HIDE DEF X
  <2>9. PICK r \in Runs(X) : b \in Bytes(r)
    BY <2>3, <2>4, <2>7, RunsCover
  <2>10. Gaps = {g \in Runs(X) : Cardinality({h \in Runs(X) : h.lo < g.lo}) < MaxGaps}
    BY <2>8 DEF Gaps
  <2>11. Gaps = Runs(X)
    BY <2>3, <2>4, <2>7, <2>10, AllRunsListed, LimitAssumption
  <2> QED
    BY <2>9, <2>11 DEF BytesOf
<1> QED
  BY <1>1, GapAlways, PTL

-----------------------------------------------------------------------------
(* Types *)

RecordInv ==
    /\ \A c \in conflicts :
         c \in [lo : Int, hi : Int, accepted : 1..Len(log), conflicting : 1..Len(log)]
    /\ truncated \in BOOLEAN

LEMMA RecordStep ==
    ASSUME PlaceInv, StoreInv, RecordInv, [Next]_vars
    PROVE  RecordInv'
<1>1. ASSUME UNCHANGED <<conflicts, truncated, log>> PROVE RecordInv'
  BY <1>1 DEF RecordInv
<1>2. ASSUME NEW pos \in Positions, ObserveEmpty(pos) PROVE RecordInv'
  BY <1>1, <1>2 DEF ObserveEmpty, store
<1>3. ASSUME NEW pos \in Positions, NEW data \in Payloads, NEW cut \in CutTails,
             ObservePayload(pos, data, cut)
      PROVE  RecordInv'
  <2> DEFINE one == IF pos = 0 THEN 1 ELSE 0
             p == [start |-> ExtOf(pos) + one, at |-> pos + one, data |-> data, cut |-> cut]
             n == Len(log) + 1
  <2>1. /\ pos \in Nat /\ InWindow(pos) /\ data \in Seq(Nat) /\ cut \in Nat
        /\ Insert(p) /\ log' = Append(log, p)
    BY <1>3, CaptureAssumption DEF ObservePayload
  <2>2. ExtOf(pos) \in Int
    BY <2>1, ExtPlaced
  <2>3. p \in Packet
    BY <2>1, <2>2 DEF Packet
  <2> HIDE DEF p
  <2>4. log \in Seq(Packet) /\ Len(log) \in Nat /\ Len(log') = n
    BY <2>1, <2>3 DEF StoreInv
  <2>5. /\ conflicts' = conflicts \cup {Conflict(i, p, n) : i \in Disputed(p)}
        /\ truncated' \in BOOLEAN
    BY <2>1 DEF Insert, RecordInv
  <2>6. ASSUME NEW i \in Disputed(p)
        PROVE  Conflict(i, p, n) \in [lo : Int, hi : Int, accepted : 1..n, conflicting : 1..n]
    <3>1. /\ i.lo \in Int /\ i.hi \in Int /\ i.packet \in 1..Len(log)
          /\ p.start \in Int /\ Len(p.data) \in Nat
      BY <2>3 DEF Disputed, StoreInv, Interval, Packet
    <3>2. i.packet \in 1..n /\ n \in 1..n
      BY <2>4, <3>1
    <3>3. Greatest(i.lo, p.start) \in Int /\ Least(i.hi, p.start + Len(p.data) - 1) \in Int
      BY <3>1 DEF Greatest, Least
    <3> QED
      BY <3>2, <3>3 DEF Conflict
  <2>7. \A c \in conflicts : c \in [lo : Int, hi : Int, accepted : 1..n, conflicting : 1..n]
    <3>1. 1..Len(log) \subseteq 1..n
      BY <2>4
    <3> QED
      BY <3>1 DEF RecordInv
  <2> HIDE DEF n
  <2> QED
    BY <2>4, <2>5, <2>6, <2>7 DEF RecordInv
<1>4. ASSUME NEW pos \in AckPositions, NotePeerAck(pos) PROVE RecordInv'
  BY <1>1, <1>4 DEF NotePeerAck, store
<1>5. ASSUME NEW n \in OtherTakes, NEW same \in BOOLEAN, OtherStreamTakes(n, same)
      PROVE  RecordInv'
  BY <1>1, <1>5 DEF OtherStreamTakes
<1>6. CASE UNCHANGED vars
  BY <1>1, <1>6 DEF vars
<1> QED
  BY <1>2, <1>3, <1>4, <1>5, <1>6 DEF Next

(* The types of the variables of Reassembly, for every capture and limit.   *)
THEOREM ReassemblyTyped == Spec => []ReassemblyTypeOK
<1>1. Init => PlaceInv /\ GapInv /\ RecordInv
  BY GapInit DEF Init, RecordInv
<1>2. (PlaceInv /\ GapInv /\ RecordInv) /\ [Next]_vars => (PlaceInv /\ GapInv /\ RecordInv)'
  BY PlaceStep, StoreStep, SourceStep, RecordStep DEF GapInv
<1>3. PlaceInv /\ GapInv /\ RecordInv => ReassemblyTypeOK
  <2> SUFFICES ASSUME PlaceInv, GapInv, RecordInv PROVE ReassemblyTypeOK
    OBVIOUS
  <2>1. space \in {None} \cup [seq : 0..(Modulus - 1), ext : Int]
    <3>1. CASE space = None
      BY <3>1
    <3>2. CASE space # None
      <4>1. /\ origin \in Nat /\ mark \in Nat
            /\ space = [seq |-> SeqOf(mark), ext |-> mark - origin]
        BY <3>2 DEF PlaceInv
      <4>2. SeqOf(mark) \in 0..(Modulus - 1)
        <5>1. Isn + mark \in Int /\ Modulus \in Nat \ {0}
          BY <4>1, SpaceAssumption
        <5> QED
          BY <5>1, DivMod DEF SeqOf
      <4> QED
        BY <4>1, <4>2
    <3> QED
      BY <3>1, <3>2
  <2>2. syn \in {None} \cup Int /\ peerAck \in {None} \cup Int
    BY DEF PlaceInv
  <2>3. \A i \in intervals : i \in [lo : Int, hi : Int, packet : 1..Len(log)] /\ i.lo <= i.hi
    BY DEF GapInv, StoreInv, Interval
  <2>4. dropped \subseteq Int /\ notCaptured \subseteq Int
    <3>1. PICK lo \in Int, hi \in Int : Claimed \subseteq lo..hi
      BY DEF GapInv, Bounded
    <3> QED
      BY <3>1 DEF Claimed
  <2>5. sessionUsed \in Nat /\ globalUsed \in Nat
    BY DEF GapInv, StoreInv
  <2> QED
    BY <2>1, <2>2, <2>3, <2>4, <2>5 DEF RecordInv, ReassemblyTypeOK
<1> QED
  BY <1>1, <1>2, <1>3, PTL DEF Spec
=============================================================================
