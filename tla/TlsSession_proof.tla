-------------------------- MODULE TlsSession_proof --------------------------
(***************************************************************************)
(* Proofs about TlsSession: for every number of records, bytes and         *)
(* messages the limits allow, every scenario, every loss, gap and cut of   *)
(* the capture, what the handshake walk collects is what was sent in the   *)
(* clear, and what the analyzer concludes from it is true.  All theorems   *)
(* are about captures in order, Reorder = FALSE, as the run is.            *)
(*                                                                         *)
(* The argument: the scenarios are Proper (part one: what the records may  *)
(* carry and in which order); the walk reads each direction's records in   *)
(* order (Reading, from the order of the wire); and a record read keeps    *)
(*   - Basic: the walk knows nothing its streams do not say,               *)
(*   - Shielded: no ciphertext is in the streams,                          *)
(*   - Faithful: a stream is a beginning of what was sent, and handled,    *)
(*   - Negotiated: boundary and ChangeCipherSpec come after the hello.     *)
(* Together they are Going, and WalkInv is Going of the state.             *)
(***************************************************************************)
EXTENDS TlsSession, Recursion, FiniteSetTheorems

-----------------------------------------------------------------------------
(* Lists of units.                                                          *)

(* What a unit may be a part of; "secret" stands for ciphertext.            *)
Msgs == {"CH", "CKE", "HRR", "SH12", "SH13", "CERT", "SKE", "SHD", "NST", "secret", "fatal", "noise"}

Units == [msg : Msgs, part : Nat \ {0}, of : Nat \ {0}]

(* s is the beginning of A.                                                 *)
Begins(s, A) == Len(s) <= Len(A) /\ \A i \in 1..Len(s) : s[i] = A[i]

(* The message that starts at i lies in A, part by part.                    *)
LiesAt(A, i) ==
    /\ i + A[i].of - 1 <= Len(A)
    /\ \A j \in i..(i + A[i].of - 1) : A[j] = [A[i] EXCEPT !.part = j - i + 1]

(* A is one message after the other.                                        *)
WellFormed(A) ==
    /\ A \in Seq(Units)
    /\ Len(A) >= 1 => A[1].part = 1
    /\ \A i \in 1..Len(A) :
          A[i].part = 1 => /\ LiesAt(A, i)
                           /\ i + A[i].of <= Len(A) => A[i + A[i].of].part = 1

(* The names of the messages that start in the first i units.               *)
NamesIn(A, F) ==
    /\ F \in [0..Len(A) -> Seq(Msgs)]
    /\ F[0] = << >>
    /\ \A i \in 1..Len(A) : F[i] = IF A[i].part = 1 THEN Append(F[i - 1], A[i].msg) ELSE F[i - 1]

(* Names are there.                                                         *)
LEMMA NamesExist ==
    ASSUME NEW A \in Seq(Units)
    PROVE  \E F : NamesIn(A, F)
<1> DEFINE N == Len(A)
           step == [p \in (1..N) \X Seq(Msgs) |->
                       IF A[p[1]].part = 1 THEN Append(p[2], A[p[1]].msg) ELSE p[2]]
<1>1. N \in Nat /\ \A i \in 1..N : A[i] \in Units
  OBVIOUS
<1>2. step \in [(1..N) \X Seq(Msgs) -> Seq(Msgs)]
  <2>1. ASSUME NEW i \in 1..N, NEW b \in Seq(Msgs)
        PROVE  (IF A[i].part = 1 THEN Append(b, A[i].msg) ELSE b) \in Seq(Msgs)
    <3>1. A[i].msg \in Msgs
      BY <1>1 DEF Units
    <3> QED
      BY <3>1
  <2> QED
    BY <2>1
<1>3. \A i \in 1..N, b \in Seq(Msgs) :
         step[<<i, b>>] = IF A[i].part = 1 THEN Append(b, A[i].msg) ELSE b
  <2> SUFFICES ASSUME NEW i \in 1..N, NEW b \in Seq(Msgs)
               PROVE  step[<<i, b>>] = IF A[i].part = 1 THEN Append(b, A[i].msg) ELSE b
    OBVIOUS
  <2>1. <<i, b>> \in (1..N) \X Seq(Msgs) /\ <<i, b>>[1] = i /\ <<i, b>>[2] = b
    OBVIOUS
  <2> QED
    BY <2>1
<1> HIDE DEF step, N
<1>4. << >> \in Seq(Msgs)
  OBVIOUS
<1>5. PICK F : Iterates(F, N, Seq(Msgs), << >>, step)
  BY <1>1, <1>2, <1>4, Iteration
<1>6. F \in [0..N -> Seq(Msgs)] /\ F[0] = << >>
  BY <1>5 DEF Iterates
<1>7. ASSUME NEW i \in 1..N
      PROVE  F[i] = IF A[i].part = 1 THEN Append(F[i - 1], A[i].msg) ELSE F[i - 1]
  <2>1. i - 1 \in 0..N /\ F[i] = step[<<i, F[i - 1]>>]
    BY <1>1, <1>5 DEF Iterates
  <2>2. F[i - 1] \in Seq(Msgs)
    BY <1>6, <2>1
  <2> QED
    BY <1>3, <2>1, <2>2
<1> QED
  BY <1>6, <1>7 DEF NamesIn, N

(* Further names come after the ones before.                                *)
LEMMA NamesGrow ==
    ASSUME NEW A \in Seq(Units), NEW F, NamesIn(A, F),
           NEW i \in 0..Len(A), NEW j \in 0..Len(A), i <= j
    PROVE  Begins(F[i], F[j])
<1> DEFINE N == Len(A)
           T == {k \in 0..(N - i) : Begins(F[i], F[i + k])}
<1>1. N \in Nat /\ F \in [0..N -> Seq(Msgs)] /\ i \in 0..N
  BY DEF NamesIn
<1>2. 0 \in T
  <2>1. F[i] \in Seq(Msgs) /\ i + 0 = i /\ 0 \in 0..(N - i)
    BY <1>1
  <2> QED
    BY <2>1 DEF Begins
<1>3. ASSUME NEW k \in 0..(N - i - 1), k \in T PROVE k + 1 \in T
  <2> DEFINE n == i + k + 1
  <2>1. n \in 1..N /\ n - 1 = i + k /\ i + (k + 1) = n /\ k + 1 \in 0..(N - i) /\ n - 1 \in 0..N
    BY <1>1
  <2>2. Begins(F[i], F[n - 1])
    BY <1>3, <2>1
  <2> HIDE DEF n
  <2>3. F[i] \in Seq(Msgs) /\ F[n - 1] \in Seq(Msgs) /\ F[n] \in Seq(Msgs)
    <3>1. n \in 0..N /\ n - 1 \in 0..N /\ i \in 0..N
      BY ONLY <1>1, <2>1
    <3>2. \A k2 \in 0..N : F[k2] \in Seq(Msgs)
      BY ONLY <1>1
    <3> QED
      BY ONLY <3>1, <3>2
  <2>4. F[n] = F[n - 1] \/ (A[n].msg \in Msgs /\ F[n] = Append(F[n - 1], A[n].msg))
    <3>1. A[n] \in Units
      BY <2>1
    <3> QED
      BY <2>1, <3>1 DEF NamesIn, Units
  <2>5. Begins(F[i], F[n])
    <3>1. CASE F[n] = F[n - 1]
      BY <2>2, <3>1
    <3>2. CASE A[n].msg \in Msgs /\ F[n] = Append(F[n - 1], A[n].msg)
      <4>1. Len(F[n]) = Len(F[n - 1]) + 1 /\ \A m \in 1..Len(F[n - 1]) : F[n][m] = F[n - 1][m]
        BY <2>3, <3>2
      <4> QED
        BY <2>2, <2>3, <4>1 DEF Begins
    <3> QED
      BY <2>4, <3>1, <3>2
  <2> QED
    BY <2>1, <2>5
<1>4. N - i \in Nat
  BY <1>1
<1> HIDE DEF T
<1>5. 0..(N - i) \subseteq T
  <2>1. \A k \in 0..((N - i) - 1) : k \in T => k + 1 \in T
    BY <1>3
  <2> QED
    BY <1>2, <1>4, <2>1, UpTo
<1>6. j - i \in 0..(N - i) /\ i + (j - i) = j
  BY <1>1
<1> QED
  BY <1>5, <1>6 DEF T

-----------------------------------------------------------------------------
(* Parsing.                                                                 *)

(* What parse_messages yields, and where it stands.                         *)
Messages == [msg : Msgs, complete : BOOLEAN, whole : BOOLEAN]
Positions == [at : Nat \ {0}, messages : Seq(Messages)]

Header(u) == u.part = 1 /\ u.msg # "secret"

(* One turn of the loop.                                                    *)
Turned(s, p) ==
    LET u == s[p.at]
        last == p.at + u.of - 1
    IN  IF p.at > Len(s) \/ Len(p.messages) >= MaxMessages THEN p
        ELSE IF ~Header(u) \/ last > Len(s)
        THEN [at |-> Len(s) + 1,
              messages |-> Append(p.messages, [msg |-> IF Header(u) THEN u.msg ELSE "noise",
                                               complete |-> FALSE, whole |-> FALSE])]
        ELSE [at |-> last + 1,
              messages |-> Append(p.messages, [msg |-> u.msg, complete |-> TRUE,
                                               whole |-> \A j \in p.at..last :
                                                   s[j] = [u EXCEPT !.part = j - p.at + 1]])]

(* The table of its turns.                                                  *)
Parses(s, t) ==
    /\ t \in [0..Len(s) -> Positions]
    /\ t[0] = [at |-> 1, messages |-> << >>]
    /\ \A i \in 1..Len(s) : t[i] = Turned(s, t[i - 1])
    /\ ParseMessages(s) = t[Len(s)].messages

(* A turn leaves a position and a list of messages.                         *)
LEMMA TurnedType ==
    ASSUME NEW s \in Seq(Units), NEW p \in Positions
    PROVE  Turned(s, p) \in Positions
<1> DEFINE u == s[p.at]
           last == p.at + u.of - 1
           cut == [msg |-> IF Header(u) THEN u.msg ELSE "noise", complete |-> FALSE, whole |-> FALSE]
           all == [msg |-> u.msg, complete |-> TRUE,
                   whole |-> \A j \in p.at..last : s[j] = [u EXCEPT !.part = j - p.at + 1]]
<1>1. p.at \in Nat \ {0} /\ p.messages \in Seq(Messages) /\ Len(s) \in Nat
  BY DEF Positions
<1>2. Turned(s, p) =
        IF p.at > Len(s) \/ Len(p.messages) >= MaxMessages THEN p
        ELSE IF ~Header(u) \/ last > Len(s)
        THEN [at |-> Len(s) + 1, messages |-> Append(p.messages, cut)]
        ELSE [at |-> last + 1, messages |-> Append(p.messages, all)]
  BY DEF Turned
<1>3. ASSUME ~(p.at > Len(s)) PROVE u \in Units
  <2>1. p.at \in 1..Len(s)
    BY <1>1, <1>3
  <2> QED
    BY <2>1
<1>4. ASSUME u \in Units PROVE cut \in Messages /\ all \in Messages /\ last + 1 \in Nat \ {0}
  <2>1. u.msg \in Msgs /\ u.of \in Nat \ {0} /\ "noise" \in Msgs
    BY <1>4 DEF Units, Msgs
  <2>2. last + 1 \in Nat \ {0}
    <3> DEFINE a == p.at
               o == u.of
    <3>1. a \in Nat \ {0} /\ o \in Nat \ {0}
      BY ONLY <1>1, <2>1
    <3> HIDE DEF a, o
    <3>2. (a + o - 1) + 1 \in Nat \ {0}
      BY ONLY <3>1
    <3> QED
      BY ONLY <3>2 DEF a, o
  <2> DEFINE whole == \A j \in p.at..last : s[j] = [u EXCEPT !.part = j - p.at + 1]
             name == IF Header(u) THEN u.msg ELSE "noise"
  <2>3. name \in Msgs /\ whole \in BOOLEAN
    BY <2>1
  <2> HIDE DEF whole, name
  <2>4. [msg |-> u.msg, complete |-> TRUE, whole |-> whole] \in Messages
        /\ [msg |-> name, complete |-> FALSE, whole |-> FALSE] \in Messages
    BY <2>1, <2>3 DEF Messages
  <2> QED
    BY <2>2, <2>4 DEF whole, name
<1> HIDE DEF u, last, cut, all
<1>5. CASE p.at > Len(s) \/ Len(p.messages) >= MaxMessages
  BY <1>2, <1>5
<1>6. CASE ~(p.at > Len(s) \/ Len(p.messages) >= MaxMessages)
  <2>1. cut \in Messages /\ all \in Messages /\ last + 1 \in Nat \ {0}
    BY <1>3, <1>4, <1>6
  <2>2. Append(p.messages, cut) \in Seq(Messages) /\ Append(p.messages, all) \in Seq(Messages)
    BY <1>1, <2>1
  <2>3. /\ [at |-> Len(s) + 1, messages |-> Append(p.messages, cut)] \in Positions
        /\ [at |-> last + 1, messages |-> Append(p.messages, all)] \in Positions
    BY <1>1, <2>1, <2>2 DEF Positions
  <2> QED
    BY <1>2, <1>6, <2>3
<1> QED
  BY <1>5, <1>6

(* The loop, unrolled.                                                      *)
LEMMA ParseTurns ==
    ASSUME NEW s \in Seq(Units)
    PROVE  \E t : Parses(s, t)
<1> DEFINE N == Len(s)
           step == [q \in (1..N) \X Positions |-> Turned(s, q[2])]
           first == [at |-> 1, messages |-> << >>]
<1>1. N \in Nat /\ first \in Positions
  <2>1. << >> \in Seq(Messages)
    OBVIOUS
  <2> QED
    BY <2>1 DEF Positions
<1>2. step \in [(1..N) \X Positions -> Positions]
  BY TurnedType
<1>3. \A i \in 1..N, p \in Positions : step[<<i, p>>] = Turned(s, p)
  <2> SUFFICES ASSUME NEW i \in 1..N, NEW p \in Positions PROVE step[<<i, p>>] = Turned(s, p)
    OBVIOUS
  <2>1. <<i, p>> \in (1..N) \X Positions /\ <<i, p>>[2] = p
    OBVIOUS
  <2> QED
    BY <2>1
<1> DEFINE turns[n \in 0..Len(s)] == IF n = 0 THEN first ELSE Turned(s, turns[n - 1])
<1>4. ParseMessages(s) = turns[Len(s)].messages
  BY DEF ParseMessages, Turned, Header
<1> HIDE DEF step, first, N
<1>5. PICK f : Iterates(f, N, Positions, first, step)
  BY <1>1, <1>2, Iteration
<1>6. f \in [0..N -> Positions] /\ f[0] = first /\ \A i \in 1..N : f[i] = Turned(s, f[i - 1])
  <2>1. f \in [0..N -> Positions] /\ f[0] = first /\ \A i \in 1..N : f[i] = step[<<i, f[i - 1]>>]
    BY <1>5 DEF Iterates
  <2>2. \A i \in 1..N : i - 1 \in 0..N
    BY <1>1
  <2> QED
    BY <1>3, <2>1, <2>2
<1>7. f = [n \in 0..N |-> IF n = 0 THEN first ELSE Turned(s, f[n - 1])]
  <2>1. \A n \in 0..N : n = 0 \/ n \in 1..N
    BY <1>1
  <2> QED
    BY <1>6, <2>1
<1>8. turns = [n \in 0..N |-> IF n = 0 THEN first ELSE Turned(s, turns[n - 1])]
  BY <1>7 DEF N
<1> HIDE DEF turns
<1>9. turns[0] = first /\ \A i \in 1..N : turns[i] = Turned(s, turns[i - 1])
  <2>1. 0 \in 0..N /\ \A i \in 1..N : i \in 0..N /\ i # 0
    BY <1>1
  <2> QED
    BY <1>8, <2>1
<1>10. \A n \in 0..N : turns[n] = f[n] /\ turns[n] \in Positions
  BY <1>1, <1>3, <1>5, <1>9, SameIteration
<1>11. turns \in [0..N -> Positions]
  BY <1>8, <1>10
<1> QED
  BY <1>4, <1>9, <1>11 DEF Parses, N, first

(* Of a message that has become complete: what it is called, and that one   *)
(* of a single unit is whole.                                               *)
ReadFrom(s, m) ==
    m.complete => \E k \in 1..Len(s) : /\ s[k].msg = m.msg /\ s[k].part = 1 /\ s[k].msg # "secret"
                                       /\ s[k].of = 1 => m.whole

AnyTurn(s, p) ==
    /\ \A i \in DOMAIN p.messages : ReadFrom(s, p.messages[i])
    /\ \A i \in DOMAIN p.messages : ~p.messages[i].complete =>
          i = Len(p.messages) /\ p.at = Len(s) + 1

(* A turn of parse_messages keeps AnyTurn.                                  *)
LEMMA AnyTurnKept ==
    ASSUME NEW s \in Seq(Units), NEW p \in Positions, AnyTurn(s, p)
    PROVE  AnyTurn(s, Turned(s, p))
<1> DEFINE u == s[p.at]
           last == p.at + u.of - 1
           whole == \A j \in p.at..last : s[j] = [u EXCEPT !.part = j - p.at + 1]
           cut == [msg |-> IF Header(u) THEN u.msg ELSE "noise", complete |-> FALSE, whole |-> FALSE]
           all == [msg |-> u.msg, complete |-> TRUE, whole |-> whole]
           list == p.messages
<1>1. p.at \in Nat \ {0} /\ list \in Seq(Messages) /\ Len(s) \in Nat /\ Len(list) \in Nat
      /\ DOMAIN list = 1..Len(list)
  BY DEF Positions
<1>2. Turned(s, p) =
        IF p.at > Len(s) \/ Len(list) >= MaxMessages THEN p
        ELSE IF ~Header(u) \/ last > Len(s)
        THEN [at |-> Len(s) + 1, messages |-> Append(list, cut)]
        ELSE [at |-> last + 1, messages |-> Append(list, all)]
  BY DEF Turned
<1>3. CASE p.at > Len(s) \/ Len(list) >= MaxMessages
  BY <1>2, <1>3
<1>4. CASE ~(p.at > Len(s) \/ Len(list) >= MaxMessages)
  <2>1. p.at \in 1..Len(s) /\ u \in Units /\ p.at # Len(s) + 1
    BY <1>1, <1>4
  <2>2. \A i \in DOMAIN list : list[i].complete /\ ReadFrom(s, list[i])
    BY <2>1 DEF AnyTurn
  <2>3. ASSUME NEW m, NEW q, q = Append(list, m)
        PROVE  /\ DOMAIN q = 1..(Len(list) + 1) /\ Len(q) = Len(list) + 1
               /\ \A i \in DOMAIN q : \/ i \in DOMAIN list /\ q[i] = list[i]
                                      \/ i = Len(list) + 1 /\ q[i] = m
    <3> HIDE DEF list
    <3> QED
      BY <1>1, <2>3
  <2>4. CASE ~Header(u) \/ last > Len(s)
    <3> DEFINE r == [at |-> Len(s) + 1, messages |-> Append(list, cut)]
    <3>1. Turned(s, p) = r /\ r.at = Len(s) + 1 /\ r.messages = Append(list, cut)
      BY <1>2, <1>4, <2>4
    <3>2. ~cut.complete /\ ReadFrom(s, cut)
      BY DEF ReadFrom
    <3> HIDE DEF r, cut, list
    <3>3. /\ DOMAIN r.messages = 1..(Len(list) + 1) /\ Len(r.messages) = Len(list) + 1
          /\ \A i \in DOMAIN r.messages : \/ i \in DOMAIN list /\ r.messages[i] = list[i]
                                          \/ i = Len(list) + 1 /\ r.messages[i] = cut
      BY <2>3, <3>1
    <3> QED
      BY <2>2, <3>1, <3>2, <3>3 DEF AnyTurn
  <2>5. CASE ~(~Header(u) \/ last > Len(s))
    <3> DEFINE r == [at |-> last + 1, messages |-> Append(list, all)]
    <3>1. Turned(s, p) = r /\ r.at = last + 1 /\ r.messages = Append(list, all)
      BY <1>2, <1>4, <2>5
    <3>2. u.of = 1 => whole
      <4>1. u.part = 1
        BY <2>5 DEF Header
      <4>2. ASSUME u.of = 1, NEW j \in p.at..last PROVE s[j] = [u EXCEPT !.part = j - p.at + 1]
        <5>1. j = p.at
          BY <1>1, <4>2
        <5>2. j - p.at + 1 = 1
          BY <1>1, <5>1
        <5>3. [u EXCEPT !.part = 1] = u
          BY <2>1, <4>1 DEF Units
        <5> QED
          BY <5>1, <5>2, <5>3
      <4> QED
        BY <4>2
    <3>3. all.complete /\ all.msg = u.msg /\ (all.whole <=> whole)
      OBVIOUS
    <3>4. ReadFrom(s, all)
      <4> HIDE DEF all, whole
      <4> QED
        BY <2>1, <2>5, <3>2, <3>3 DEF ReadFrom, Header
    <3> HIDE DEF r, all, list
    <3>5. /\ DOMAIN r.messages = 1..(Len(list) + 1) /\ Len(r.messages) = Len(list) + 1
          /\ \A i \in DOMAIN r.messages : \/ i \in DOMAIN list /\ r.messages[i] = list[i]
                                          \/ i = Len(list) + 1 /\ r.messages[i] = all
      BY <2>3, <3>1
    <3> QED
      BY <2>2, <3>1, <3>3, <3>4, <3>5 DEF AnyTurn
  <2> QED
    BY <2>4, <2>5
<1> QED
  BY <1>3, <1>4

(* A part of a list.                                                        *)
LEMMA PartOf ==
    ASSUME NEW S, NEW l \in Seq(S), NEW i \in 1..(Len(l) + 1), NEW j \in Nat,
           j >= i - 1, j <= Len(l)
    PROVE  /\ SubSeq(l, i, j) \in Seq(S) /\ Len(SubSeq(l, i, j)) = j - i + 1
           /\ DOMAIN SubSeq(l, i, j) = 1..(j - i + 1)
           /\ \A k \in 1..(j - i + 1) : SubSeq(l, i, j)[k] = l[i + k - 1]
<1>1. Len(l) \in Nat /\ DOMAIN l = 1..Len(l) /\ i \in Nat
  OBVIOUS
<1>2. \A k \in i..j : l[k] \in S
  BY <1>1
<1>3. SubSeq(l, i, j) \in Seq(S)
  BY <1>1, <1>2
<1>4. Len(SubSeq(l, i, j)) = j - i + 1
  BY <1>1
<1>5. \A k \in 1..(j - i + 1) : SubSeq(l, i, j)[k] = l[i + k - 1]
  BY <1>1
<1>6. DOMAIN SubSeq(l, i, j) = 1..(j - i + 1)
  BY <1>3, <1>4
<1> QED
  BY <1>3, <1>4, <1>5, <1>6

(* What is complete of a list.                                              *)
LEMMA CompletePart ==
    ASSUME NEW list \in Seq(Messages),
           \A i \in DOMAIN list : ~list[i].complete => i = Len(list)
    PROVE  /\ Complete(list) \in Seq(Messages)
           /\ \A i \in DOMAIN Complete(list) : /\ i \in DOMAIN list /\ Complete(list)[i] = list[i]
                                               /\ list[i].complete
<1>1. Len(list) \in Nat /\ DOMAIN list = 1..Len(list)
  OBVIOUS
<1>2. CASE list # << >> /\ ~Last(list).complete
  <2>1. Complete(list) = SubSeq(list, 1, Len(list) - 1) /\ Len(list) - 1 \in Nat
    BY <1>1, <1>2 DEF Complete, Front
  <2>2. /\ SubSeq(list, 1, Len(list) - 1) \in Seq(Messages)
        /\ DOMAIN SubSeq(list, 1, Len(list) - 1) = 1..(Len(list) - 1)
        /\ \A i \in 1..(Len(list) - 1) : SubSeq(list, 1, Len(list) - 1)[i] = list[i]
    <3>1. 1 \in 1..(Len(list) + 1) /\ Len(list) - 1 >= 1 - 1 /\ Len(list) - 1 <= Len(list)
      BY <1>1, <2>1
    <3> DEFINE front == SubSeq(list, 1, Len(list) - 1)
    <3>2. /\ front \in Seq(Messages)
          /\ DOMAIN front = 1..((Len(list) - 1) - 1 + 1)
          /\ \A k \in 1..((Len(list) - 1) - 1 + 1) : front[k] = list[1 + k - 1]
      BY <2>1, <3>1, PartOf
    <3> HIDE DEF front
    <3>3. (Len(list) - 1) - 1 + 1 = Len(list) - 1 /\ \A k \in 1..(Len(list) - 1) : 1 + k - 1 = k
      BY <1>1
    <3>4. front \in Seq(Messages) /\ DOMAIN front = 1..(Len(list) - 1)
          /\ \A k \in 1..(Len(list) - 1) : front[k] = list[k]
      BY <3>2, <3>3
    <3> QED
      BY <3>4 DEF front
  <2>3. \A i \in 1..(Len(list) - 1) : i \in DOMAIN list /\ i # Len(list)
    <3>1. \A n \in Nat : \A i \in 1..(n - 1) : i \in 1..n /\ i # n
      BY ONLY TRUE
    <3> QED
      BY ONLY <1>1, <3>1, Zenon
  <2> QED
    BY <2>1, <2>2, <2>3
<1>3. CASE ~(list # << >> /\ ~Last(list).complete)
  <2>1. Complete(list) = list
    BY <1>3 DEF Complete
  <2>2. Len(list) \in DOMAIN list => list[Len(list)].complete
    BY <1>1, <1>3 DEF Last
  <2> QED
    BY <2>1, <2>2
<1> QED
  BY <1>2, <1>3

(* Whatever a buffer holds.                                                 *)
LEMMA AnyParse ==
    ASSUME NEW s \in Seq(Units)
    PROVE  /\ Complete(ParseMessages(s)) \in Seq(Messages)
           /\ \A i \in DOMAIN Complete(ParseMessages(s)) :
                 /\ Complete(ParseMessages(s))[i].complete
                 /\ ReadFrom(s, Complete(ParseMessages(s))[i])
<1> DEFINE N == Len(s)
<1>1. PICK t : Parses(s, t)
  BY ParseTurns
<1>2. /\ N \in Nat /\ t \in [0..N -> Positions] /\ ParseMessages(s) = t[N].messages
      /\ t[0] = [at |-> 1, messages |-> << >>]
      /\ \A i \in 1..N : t[i] = Turned(s, t[i - 1])
  BY <1>1 DEF Parses
<1> DEFINE T == {n \in 0..N : AnyTurn(s, t[n])}
<1>3. 0 \in T
  <2>1. t[0].messages = << >>
    BY <1>2
  <2>2. DOMAIN t[0].messages = {}
    BY <2>1
  <2> QED
    BY <1>2, <2>2 DEF AnyTurn
<1>4. ASSUME NEW n \in 0..(N - 1), n \in T PROVE n + 1 \in T
  <2>1. n + 1 \in 1..N /\ (n + 1) - 1 = n /\ n \in 0..N /\ n + 1 \in 0..N
    BY <1>2
  <2>2. t[n] \in Positions /\ t[n + 1] = Turned(s, t[n]) /\ AnyTurn(s, t[n])
    BY <1>2, <1>4, <2>1
  <2>3. AnyTurn(s, t[n + 1])
    BY <2>2, AnyTurnKept
  <2> QED
    BY <2>1, <2>3
<1> HIDE DEF T
<1>5. 0..N \subseteq T
  BY <1>2, <1>3, <1>4, UpTo
<1>6. N \in 0..N
  BY <1>2
<1>7. AnyTurn(s, t[N]) /\ t[N] \in Positions
  BY <1>2, <1>5, <1>6 DEF T
<1> DEFINE list == t[N].messages
<1>8. list \in Seq(Messages) /\ (\A i \in DOMAIN list : ~list[i].complete => i = Len(list))
      /\ \A i \in DOMAIN list : ReadFrom(s, list[i])
  BY <1>7 DEF AnyTurn, Positions
<1>9. ParseMessages(s) = list
  BY <1>2
<1> HIDE DEF list
<1> QED
  BY <1>8, <1>9, CompletePart

-----------------------------------------------------------------------------
(* The walk.                                                                *)

Reasons == {None, "TLS13_AFTER_SERVER_HELLO", "TLS12_CHANGE_CIPHER_SPEC",
            "APPLICATION_DATA_OBSERVED"}
Boundaries == [at : Int, reason : Reasons]
Alerts == [dir : Directions, encrypted : BOOLEAN, fatal : BOOLEAN]

(* The state of _HandshakeWalk.                                             *)
Walks ==
    [stream : [Directions -> Seq(Units)], end : [Directions -> Nat],
     handled : [Directions -> Seq(Msgs)], boundary : [Directions -> Boundaries],
     overflow : SUBSET Directions, ccs : SUBSET Directions,
     compatible : BOOLEAN, tls13 : BOOLEAN,
     clientHello : BOOLEAN, serverHello : {None} \cup ServerHellos, retry : BOOLEAN,
     keyExchange : BOOLEAN, certificate : {None, "whole", "corrupt"}, helloDone : BOOLEAN,
     ticket : BOOLEAN, alerts : SUBSET Alerts, malformed : BOOLEAN]

(* What messages do not change.                                             *)
SameRead(w, v) ==
    /\ v.stream = w.stream /\ v.end = w.end /\ v.handled = w.handled
    /\ v.overflow = w.overflow /\ v.ccs = w.ccs /\ v.alerts = w.alerts

(* What only messages change.                                               *)
SameTold(w, v) ==
    /\ v.tls13 = w.tls13 /\ v.clientHello = w.clientHello /\ v.serverHello = w.serverHello
    /\ v.retry = w.retry /\ v.certificate = w.certificate /\ v.helloDone = w.helloDone
    /\ v.malformed = w.malformed

(* The walk before the first record is a walk.                              *)
LEMMA NewWalkType == NewWalk \in Walks
<1>1. /\ [d \in Directions |-> << >>] \in [Directions -> Seq(Units)]
      /\ [d \in Directions |-> << >>] \in [Directions -> Seq(Msgs)]
      /\ [d \in Directions |-> 0] \in [Directions -> Nat]
      /\ NoBoundary \in Boundaries
  BY DEF NoBoundary, Boundaries, Reasons
<1> QED
  BY <1>1 DEF NewWalk, Walks

(* mark_encrypted sets the boundary of one direction, and only once.        *)
LEMMA MarkedBoundary ==
    ASSUME NEW w \in Walks, NEW d \in Directions, NEW at \in Int, NEW reason \in Reasons,
           NEW v, v = MarkEncrypted(w, d, at, reason)
    PROVE  /\ v \in Walks /\ SameRead(w, v) /\ SameTold(w, v)
           /\ \A e \in Directions : v.boundary[e] =
                 IF e = d /\ w.boundary[e] = NoBoundary THEN [at |-> at, reason |-> reason]
                 ELSE w.boundary[e]
<1>1. CASE w.boundary[d] # NoBoundary
  BY <1>1 DEF MarkEncrypted, SameRead, SameTold
<1>2. CASE w.boundary[d] = NoBoundary
  <2> DEFINE b == [at |-> at, reason |-> reason]
  <2>1. v = [w EXCEPT !.boundary = [w.boundary EXCEPT ![d] = b]]
    BY <1>2 DEF MarkEncrypted, Walks
  <2>2. b \in Boundaries
    BY DEF Boundaries
  <2> HIDE DEF b
  <2>3. w.boundary \in [Directions -> Boundaries]
    BY DEF Walks
  <2>4. [w.boundary EXCEPT ![d] = b] \in [Directions -> Boundaries]
    BY <2>2, <2>3
  <2>5. v \in Walks /\ v.boundary = [w.boundary EXCEPT ![d] = b]
    BY <2>1, <2>4 DEF Walks
  <2>6. SameRead(w, v) /\ SameTold(w, v)
    BY <2>1 DEF Walks, SameRead, SameTold
  <2>7. \A e \in Directions : v.boundary[e] =
           IF e = d /\ w.boundary[e] = NoBoundary THEN b ELSE w.boundary[e]
    BY <1>2, <2>3, <2>5
  <2> QED
    BY <2>5, <2>6, <2>7 DEF b
<1> QED
  BY <1>1, <1>2

(* The boundaries a message sets.                                           *)
BoundariesSet(w, v, at) ==
    \A d \in Directions :
       \/ v.boundary[d] = w.boundary[d]
       \/ /\ w.boundary[d] = NoBoundary /\ v.serverHello = "SH13"
          /\ v.boundary[d].at = IF d = "server" THEN at + 1 ELSE w.end["client"]

IsHello(name) == name = "CH" \/ name = "HRR" \/ name \in ServerHellos
(* A hello that settles on TLS 1.3.                                         *)
First13(w, m) == m.whole /\ w.serverHello = None /\ (m.msg = "HRR" \/ m.msg = "SH13")

(* What a message tells.                                                    *)
Tells(w, v, m) ==
    /\ v.serverHello = IF m.msg \in ServerHellos /\ m.whole /\ w.serverHello = None
                       THEN m.msg ELSE w.serverHello
    /\ v.malformed <=> w.malformed \/ (IsHello(m.msg) /\ ~m.whole)
    /\ v.clientHello <=> w.clientHello \/ (m.msg = "CH" /\ m.whole)
    /\ v.tls13 <=> w.tls13 \/ First13(w, m)
    /\ v.retry <=> w.retry \/ (m.msg = "HRR" /\ m.whole /\ w.serverHello = None)
    /\ v.certificate = IF m.msg = "CERT" /\ w.certificate = None
                       THEN (IF m.whole THEN "whole" ELSE "corrupt") ELSE w.certificate
    /\ v.helloDone <=> w.helloDone \/ m.msg = "SHD"

(* What Handle learns from a message, and what it leaves alone.             *)
LEMMA HandleTells ==
    ASSUME NEW w \in Walks, NEW m \in Messages, NEW at \in Nat, NEW v, v = Handle(w, m, at)
    PROVE  v \in Walks /\ SameRead(w, v) /\ BoundariesSet(w, v, at) /\ Tells(w, v, m)
<1> DEFINE hello == m.msg = "CH" \/ m.msg = "HRR" \/ m.msg \in ServerHellos
<1>0. m.msg \in Msgs /\ m.whole \in BOOLEAN /\ w.tls13 \in BOOLEAN /\ w.clientHello \in BOOLEAN
      /\ w.retry \in BOOLEAN /\ w.helloDone \in BOOLEAN /\ w.malformed \in BOOLEAN
      /\ w.serverHello \in {None} \cup ServerHellos /\ w.certificate \in {None, "whole", "corrupt"}
      /\ w.end["client"] \in Nat
  BY DEF Messages, Walks, Directions
<1>1. CASE hello /\ ~m.whole
  <2>1. v = [w EXCEPT !.malformed = TRUE]
    BY <1>1 DEF Handle, ServerHellos
  <2>2. v \in Walks
    BY <1>0, <1>1, <2>1 DEF Walks
  <2>3. SameRead(w, v) /\ BoundariesSet(w, v, at)
    BY <2>1 DEF Walks, SameRead, BoundariesSet
  <2>4. Tells(w, v, m)
    BY <1>0, <1>1, <2>1 DEF Walks, Tells, First13, IsHello, ServerHellos
  <2> QED
    BY <2>2, <2>3, <2>4
<1>2. CASE m.msg = "CH" /\ m.whole
  <2>1. v = [w EXCEPT !.clientHello = TRUE]
    BY <1>2 DEF Handle, ServerHellos
  <2>2. v \in Walks
    BY <1>0, <1>2, <2>1 DEF Walks
  <2>3. SameRead(w, v) /\ BoundariesSet(w, v, at)
    BY <2>1 DEF Walks, SameRead, BoundariesSet
  <2>4. Tells(w, v, m)
    BY <1>0, <1>2, <2>1 DEF Walks, Tells, First13, IsHello, ServerHellos
  <2> QED
    BY <2>2, <2>3, <2>4
<1>3. CASE m.msg = "HRR" /\ m.whole /\ w.serverHello = None
  <2>1. v = [w EXCEPT !.retry = TRUE, !.tls13 = TRUE]
    BY <1>3 DEF Handle, ServerHellos
  <2>2. v \in Walks
    BY <1>0, <1>3, <2>1 DEF Walks
  <2>3. SameRead(w, v) /\ BoundariesSet(w, v, at)
    BY <2>1 DEF Walks, SameRead, BoundariesSet
  <2>4. Tells(w, v, m)
    BY <1>0, <1>3, <2>1 DEF Walks, Tells, First13, IsHello, ServerHellos
  <2> QED
    BY <2>2, <2>3, <2>4
<1>4. CASE m.msg = "SH12" /\ m.whole /\ w.serverHello = None
  <2>1. v = [w EXCEPT !.serverHello = m.msg]
    BY <1>4 DEF Handle, ServerHellos
  <2>2. v \in Walks
    BY <1>0, <1>4, <2>1 DEF Walks, ServerHellos
  <2>3. SameRead(w, v) /\ BoundariesSet(w, v, at)
    BY <2>1 DEF Walks, SameRead, BoundariesSet
  <2>4. Tells(w, v, m)
    BY <1>0, <1>4, <2>1 DEF Walks, Tells, First13, IsHello, ServerHellos
  <2> QED
    BY <2>2, <2>3, <2>4
<1>5. CASE m.msg = "SH13" /\ m.whole /\ w.serverHello = None
  <2> DEFINE known == [w EXCEPT !.serverHello = m.msg, !.tls13 = TRUE]
             first == MarkEncrypted(known, "server", at + 1, "TLS13_AFTER_SERVER_HELLO")
  <2>1. [[w EXCEPT !.serverHello = m.msg] EXCEPT !.tls13 = TRUE] = known
    BY DEF Walks
  <2>2. v = Tls13Boundary(known, at)
    BY <1>5, <2>1 DEF Handle, ServerHellos
  <2>3. known \in Walks
    BY <1>5 DEF Walks, ServerHellos
  <2>20. "server" \in Directions /\ "client" \in Directions /\ at + 1 \in Int
         /\ "TLS13_AFTER_SERVER_HELLO" \in Reasons /\ w.end["client"] \in Int
    BY <1>0 DEF Directions, Reasons
  <2>4. v = MarkEncrypted(first, "client", first.end["client"], "TLS13_AFTER_SERVER_HELLO")
    <3>1. SameRead(known, first)
      BY <2>3, <2>20, MarkedBoundary
    <3> HIDE DEF known, first
    <3>2. first.end = known.end
      BY <3>1 DEF SameRead
    <3> QED
      BY <2>2, <3>2 DEF Tls13Boundary, first
  <2>5. known.end = w.end /\ known.boundary = w.boundary /\ known.serverHello = "SH13"
        /\ SameRead(w, known) /\ Tells(w, known, m)
    BY <1>0, <1>5 DEF Walks, SameRead, Tells, First13, IsHello, ServerHellos
  <2> HIDE DEF known
  <2>6. /\ first \in Walks /\ SameRead(known, first) /\ SameTold(known, first)
        /\ \A e \in Directions : first.boundary[e] =
              IF e = "server" /\ known.boundary[e] = NoBoundary
              THEN [at |-> at + 1, reason |-> "TLS13_AFTER_SERVER_HELLO"] ELSE known.boundary[e]
    BY <2>3, <2>20, MarkedBoundary
  <2> HIDE DEF first
  <2>7. first.end["client"] = w.end["client"]
    BY <2>5, <2>6 DEF SameRead
  <2>8. /\ v \in Walks /\ SameRead(first, v) /\ SameTold(first, v)
        /\ \A e \in Directions : v.boundary[e] =
              IF e = "client" /\ first.boundary[e] = NoBoundary
              THEN [at |-> w.end["client"], reason |-> "TLS13_AFTER_SERVER_HELLO"]
              ELSE first.boundary[e]
    BY <2>4, <2>6, <2>7, <2>20, MarkedBoundary
  <2>9. SameRead(w, v) /\ Tells(w, v, m)
    BY <2>5, <2>6, <2>8 DEF SameRead, SameTold, Tells, First13, IsHello
  <2>10. v.serverHello = "SH13"
    BY <2>5, <2>6, <2>8 DEF SameTold
  <2>11. BoundariesSet(w, v, at)
    <3> SUFFICES ASSUME NEW d \in Directions
                 PROVE  \/ v.boundary[d] = w.boundary[d]
                        \/ /\ w.boundary[d] = NoBoundary /\ v.serverHello = "SH13"
                           /\ v.boundary[d].at = IF d = "server" THEN at + 1 ELSE w.end["client"]
      BY DEF BoundariesSet
    <3>1. known.boundary[d] = w.boundary[d]
      BY <2>5
    <3>2. CASE d = "server"
      BY <2>6, <2>8, <2>10, <3>1, <3>2
    <3>3. CASE d = "client"
      BY <2>6, <2>8, <2>10, <3>1, <3>3
    <3> QED
      BY <3>2, <3>3 DEF Directions
  <2> QED
    BY <2>8, <2>9, <2>11
<1>6. CASE m.msg = "SKE"
  <2>1. v = [w EXCEPT !.keyExchange = m.whole /\ w.serverHello # None]
    BY <1>6 DEF Handle, ServerHellos
  <2>2. v \in Walks
    BY <1>0, <1>6, <2>1 DEF Walks
  <2>3. SameRead(w, v) /\ BoundariesSet(w, v, at)
    BY <2>1 DEF Walks, SameRead, BoundariesSet
  <2>4. Tells(w, v, m)
    BY <1>0, <1>6, <2>1 DEF Walks, Tells, First13, IsHello, ServerHellos
  <2> QED
    BY <2>2, <2>3, <2>4
<1>7. CASE m.msg = "CERT" /\ w.certificate = None
  <2>1. v = [w EXCEPT !.certificate = IF m.whole THEN "whole" ELSE "corrupt"]
    BY <1>7 DEF Handle, ServerHellos
  <2>2. v \in Walks
    BY <1>0, <1>7, <2>1 DEF Walks
  <2>3. SameRead(w, v) /\ BoundariesSet(w, v, at)
    BY <2>1 DEF Walks, SameRead, BoundariesSet
  <2>4. Tells(w, v, m)
    BY <1>0, <1>7, <2>1 DEF Walks, Tells, First13, IsHello, ServerHellos
  <2> QED
    BY <2>2, <2>3, <2>4
<1>8. CASE m.msg = "SHD"
  <2>1. v = [w EXCEPT !.helloDone = TRUE]
    BY <1>8 DEF Handle, ServerHellos
  <2>2. v \in Walks
    BY <1>0, <1>8, <2>1 DEF Walks
  <2>3. SameRead(w, v) /\ BoundariesSet(w, v, at)
    BY <2>1 DEF Walks, SameRead, BoundariesSet
  <2>4. Tells(w, v, m)
    BY <1>0, <1>8, <2>1 DEF Walks, Tells, First13, IsHello, ServerHellos
  <2> QED
    BY <2>2, <2>3, <2>4
<1>9. CASE m.msg = "NST"
  <2>1. v = [w EXCEPT !.ticket = TRUE]
    BY <1>9 DEF Handle, ServerHellos
  <2>2. v \in Walks
    BY <1>0, <1>9, <2>1 DEF Walks
  <2>3. SameRead(w, v) /\ BoundariesSet(w, v, at)
    BY <2>1 DEF Walks, SameRead, BoundariesSet
  <2>4. Tells(w, v, m)
    BY <1>0, <1>9, <2>1 DEF Walks, Tells, First13, IsHello, ServerHellos
  <2> QED
    BY <2>2, <2>3, <2>4
<1>10. CASE /\ ~(hello /\ ~m.whole) /\ ~(m.msg = "CH" /\ m.whole)
            /\ ~(m.msg = "HRR" /\ m.whole /\ w.serverHello = None)
            /\ ~(m.msg \in ServerHellos /\ m.whole /\ w.serverHello = None)
            /\ m.msg # "SKE" /\ ~(m.msg = "CERT" /\ w.certificate = None)
            /\ m.msg # "SHD" /\ m.msg # "NST"
  <2>1. v = w
    BY <1>10 DEF Handle
  <2> QED
    BY <1>0, <1>10, <2>1 DEF SameRead, BoundariesSet, Tells, First13, IsHello, ServerHellos
<1> QED
  BY <1>1, <1>2, <1>3, <1>4, <1>5, <1>6, <1>7, <1>8, <1>9, <1>10 DEF ServerHellos

(* What a walk may have concluded in a session of this version.             *)
Sound(version, resumed, w) ==
    /\ w.serverHello \in {None, version}
    /\ w.tls13 => version = "SH13"
    /\ w.retry => version = "SH13"
    /\ w.helloDone => version = "SH12" /\ ~resumed
    /\ ~w.malformed

(* What its messages may be.                                                *)
Good(version, resumed, m) ==
    /\ IsHello(m.msg) => m.whole
    /\ m.msg \in ServerHellos => m.msg = version
    /\ m.msg = "HRR" => version = "SH13"
    /\ m.msg = "SHD" => version = "SH12" /\ ~resumed

(* What a message of this name leaves known.                                *)
Told(w, name) ==
    /\ name \in ServerHellos => w.serverHello # None
    /\ name = "HRR" => w.tls13 \/ w.serverHello # None
    /\ name = "CERT" => w.certificate # None

(* Known things stay known.                                                 *)
Grown(w, v) ==
    /\ w.serverHello # None => v.serverHello = w.serverHello
    /\ w.tls13 => v.tls13
    /\ w.certificate # None => v.certificate = w.certificate

(* What a message told is not forgotten.                                    *)
LEMMA ToldStays ==
    ASSUME NEW w, NEW v, Grown(w, v), NEW name, Told(w, name)
    PROVE  Told(v, name)
BY DEF Grown, Told

(* What messages "ms", brought by record "at", do to a walk.                *)
Advanced(version, resumed, w, v, at) ==
    v \in Walks /\ SameRead(w, v) /\ BoundariesSet(w, v, at) /\ Grown(w, v)
    /\ Sound(version, resumed, v)

(* Only the ServerHello of TLS 1.3 sets boundaries.                         *)
LEMMA HandleKeeps ==
    ASSUME NEW w \in Walks, NEW m \in Messages, m.msg # "SH13", NEW at,
           NEW v, v = Handle(w, m, at)
    PROVE  v.boundary = w.boundary
BY DEF Handle, ServerHellos, Walks, Messages

(* A good message that is handled keeps a sound walk sound, and is told.    *)
LEMMA HandleAdvances ==
    ASSUME NEW w \in Walks, NEW m \in Messages, NEW at \in Nat, NEW v, v = Handle(w, m, at),
           NEW version, NEW resumed, Sound(version, resumed, w), Good(version, resumed, m)
    PROVE  /\ Advanced(version, resumed, w, v, at) /\ Told(v, m.msg)
           /\ m.whole /\ w.certificate # "corrupt" => v.certificate # "corrupt"
           /\ m.msg # "SH13" => v.boundary = w.boundary
<1>1. v \in Walks /\ SameRead(w, v) /\ BoundariesSet(w, v, at) /\ Tells(w, v, m)
  BY HandleTells
<1>2. Sound(version, resumed, v)
  BY <1>1 DEF Sound, Good, Tells, First13, ServerHellos
<1>3. Grown(w, v)
  BY <1>1 DEF Grown, Tells
<1>4. Told(v, m.msg)
  BY <1>1 DEF Told, Tells, Good, First13, IsHello, None, ServerHellos
<1>5. m.whole /\ w.certificate # "corrupt" => v.certificate # "corrupt"
  BY <1>1 DEF Tells
<1>6. m.msg # "SH13" => v.boundary = w.boundary
  BY HandleKeeps
<1> QED
  BY <1>1, <1>2, <1>3, <1>4, <1>5, <1>6 DEF Advanced

(* Two advances are one.                                                    *)
LEMMA AdvancesAdd ==
    ASSUME NEW w \in Walks, NEW u \in Walks, NEW v \in Walks, NEW at \in Nat,
           NEW version, NEW resumed,
           Advanced(version, resumed, w, u, at), Advanced(version, resumed, u, v, at)
    PROVE  Advanced(version, resumed, w, v, at)
<1>1. SameRead(w, v) /\ Grown(w, v)
  BY DEF Advanced, SameRead, Grown
<1>2. u.end = w.end /\ w.end["client"] \in Nat
  BY DEF Advanced, SameRead, Walks, Directions
<1>3. BoundariesSet(w, v, at)
  <2> SUFFICES ASSUME NEW d \in Directions
               PROVE  \/ v.boundary[d] = w.boundary[d]
                      \/ /\ w.boundary[d] = NoBoundary /\ v.serverHello = "SH13"
                         /\ v.boundary[d].at = IF d = "server" THEN at + 1 ELSE w.end["client"]
    BY DEF BoundariesSet
  <2>1. CASE u.boundary[d] = w.boundary[d]
    BY <1>2, <2>1 DEF Advanced, BoundariesSet
  <2>2. CASE u.boundary[d] # w.boundary[d]
    <3>1. /\ w.boundary[d] = NoBoundary /\ u.serverHello = "SH13"
          /\ u.boundary[d].at = IF d = "server" THEN at + 1 ELSE w.end["client"]
      BY <2>2 DEF Advanced, BoundariesSet
    <3>2. u.boundary[d] # NoBoundary
      BY <1>2, <3>1 DEF NoBoundary
    <3>3. v.boundary[d] = u.boundary[d]
      BY <3>2 DEF Advanced, BoundariesSet
    <3>4. v.serverHello = "SH13"
      BY <3>1 DEF Advanced, Grown, None
    <3> QED
      BY <3>1, <3>3, <3>4
  <2> QED
    BY <2>1, <2>2
<1> QED
  BY <1>1, <1>3 DEF Advanced

(* v is w after Handle of all fresh messages, u the same without the note   *)
(* that they were handled.                                                  *)
AllHandled(version, resumed, w, v, d, at, fresh, u) ==
    /\ u \in Walks /\ Advanced(version, resumed, w, u, at)
    /\ v = [u EXCEPT !.handled = [u.handled EXCEPT ![d] =
                                     @ \o [i \in DOMAIN fresh |-> fresh[i].msg]]]
    /\ \A i \in DOMAIN fresh : Told(u, fresh[i].msg)
    /\ (\A i \in DOMAIN fresh : fresh[i].whole) /\ w.certificate # "corrupt"
       => u.certificate # "corrupt"
    /\ (\A i \in DOMAIN fresh : fresh[i].msg # "SH13") => u.boundary = w.boundary

(* A drain handles its fresh messages in turn: the walk stays sound and     *)
(* every one of them is told.                                               *)
LEMMA HandleAllAdvances ==
    ASSUME NEW w \in Walks, NEW d \in Directions, NEW at \in Nat, NEW fresh \in Seq(Messages),
           NEW version, NEW resumed, Sound(version, resumed, w),
           \A i \in DOMAIN fresh : Good(version, resumed, fresh[i]),
           NEW v, v = HandleAll(w, d, at, fresh)
    PROVE  \E u : AllHandled(version, resumed, w, v, d, at, fresh, u)
<1> DEFINE N == Len(fresh)
           step == [p \in (1..N) \X Walks |-> Handle(p[2], fresh[p[1]], at)]
<1>1. N \in Nat /\ DOMAIN fresh = 1..N /\ \A i \in 1..N : fresh[i] \in Messages
  OBVIOUS
<1>2. ASSUME NEW i \in 1..N, NEW u \in Walks PROVE Handle(u, fresh[i], at) \in Walks
  BY <1>1, HandleTells
<1>3. step \in [(1..N) \X Walks -> Walks]
  BY <1>2
<1>4. \A i \in 1..N, u \in Walks : step[<<i, u>>] = Handle(u, fresh[i], at)
  <2> SUFFICES ASSUME NEW i \in 1..N, NEW u \in Walks
               PROVE  step[<<i, u>>] = Handle(u, fresh[i], at)
    OBVIOUS
  <2>1. <<i, u>> \in (1..N) \X Walks /\ <<i, u>>[1] = i /\ <<i, u>>[2] = u
    OBVIOUS
  <2> QED
    BY <2>1
<1> DEFINE after[n \in 0..Len(fresh)] ==
               IF n = 0 THEN w ELSE Handle(after[n - 1], fresh[n], at)
<1>5. v = [after[Len(fresh)] EXCEPT !.handled[d] = @ \o [i \in DOMAIN fresh |-> fresh[i].msg]]
  BY DEF HandleAll
<1> HIDE DEF step, N
<1>6. PICK f : Iterates(f, N, Walks, w, step)
  BY <1>1, <1>3, Iteration
<1>7. f \in [0..N -> Walks] /\ f[0] = w /\ \A i \in 1..N : f[i] = Handle(f[i - 1], fresh[i], at)
  <2>1. f \in [0..N -> Walks] /\ f[0] = w /\ \A i \in 1..N : f[i] = step[<<i, f[i - 1]>>]
    BY <1>6 DEF Iterates
  <2>2. \A i \in 1..N : i - 1 \in 0..N
    BY <1>1
  <2> QED
    BY <1>4, <2>1, <2>2
<1>8. f = [n \in 0..N |-> IF n = 0 THEN w ELSE Handle(f[n - 1], fresh[n], at)]
  <2>1. \A n \in 0..N : n = 0 \/ n \in 1..N
    BY <1>1
  <2> QED
    BY <1>7, <2>1
<1>9. after = [n \in 0..N |-> IF n = 0 THEN w ELSE Handle(after[n - 1], fresh[n], at)]
  BY <1>8 DEF N
<1> HIDE DEF after
<1>10. after[0] = w /\ \A i \in 1..N : after[i] = Handle(after[i - 1], fresh[i], at)
  <2>1. 0 \in 0..N /\ \A i \in 1..N : i \in 0..N /\ i # 0
    BY <1>1
  <2> QED
    BY <1>9, <2>1
<1>11. \A n \in 0..N : after[n] = f[n] /\ after[n] \in Walks
  <2>1. after[0] = w /\ \A i \in 1..N : after[i - 1] \in Walks => after[i] = step[<<i, after[i - 1]>>]
    BY ONLY <1>4, <1>10, Zenon
  <2> QED
    BY ONLY <1>1, <1>6, <2>1, SameIteration
<1> DEFINE Inv(n) ==
               /\ Advanced(version, resumed, w, after[n], at)
               /\ \A i \in 1..n : Told(after[n], fresh[i].msg)
               /\ (\A i \in 1..n : fresh[i].whole) /\ w.certificate # "corrupt"
                  => after[n].certificate # "corrupt"
               /\ (\A i \in 1..n : fresh[i].msg # "SH13") => after[n].boundary = w.boundary
           T == {n \in 0..N : Inv(n)}
<1>12. Inv(0)
  <2>1. after[0] = w
    BY <1>10
  <2>2. Advanced(version, resumed, w, w, at)
    BY DEF Advanced, SameRead, BoundariesSet, Grown
  <2> QED
    BY <2>1, <2>2
<1>13. ASSUME NEW n \in 0..(N - 1), n \in T PROVE n + 1 \in T
  <2>1. n \in 0..N /\ n + 1 \in 1..N /\ (n + 1) - 1 = n /\ n + 1 \in 0..N
    BY <1>1
  <2>2. Inv(n) /\ after[n] \in Walks /\ after[n + 1] \in Walks
    BY <1>11, <1>13, <2>1
  <2>3. after[n + 1] = Handle(after[n], fresh[n + 1], at)
    BY <1>10, <2>1
  <2>4. Good(version, resumed, fresh[n + 1]) /\ fresh[n + 1] \in Messages
    BY <1>1, <2>1
  <2>5. Sound(version, resumed, after[n])
    BY <2>2 DEF Advanced
  <2> DEFINE u == after[n]
             x == after[n + 1]
             m == fresh[n + 1]
  <2>6. /\ Advanced(version, resumed, u, x, at) /\ Told(x, m.msg)
        /\ m.whole /\ u.certificate # "corrupt" => x.certificate # "corrupt"
        /\ m.msg # "SH13" => x.boundary = u.boundary
    BY <2>2, <2>3, <2>4, <2>5, HandleAdvances
  <2>7. Advanced(version, resumed, w, x, at)
    BY <2>2, <2>6, AdvancesAdd
  <2>8. \A i \in 1..(n + 1) : i \in 1..n \/ i = n + 1
    BY <2>1
  <2>9. n + 1 \in 1..(n + 1) /\ \A i \in 1..n : i \in 1..(n + 1)
    BY <2>1
  <2> HIDE DEF x
  <2>10. \A i \in 1..(n + 1) : Told(x, fresh[i].msg)
    <3>1. Grown(u, x)
      BY <2>6 DEF Advanced
    <3>2. \A i \in 1..n : Told(x, fresh[i].msg)
      BY <2>2, <3>1, ToldStays
    <3> QED
      BY <2>6, <2>8, <3>2
  <2>11. (\A i \in 1..(n + 1) : fresh[i].whole) /\ w.certificate # "corrupt" => x.certificate # "corrupt"
    BY <2>2, <2>6, <2>9
  <2>13. (\A i \in 1..(n + 1) : fresh[i].msg # "SH13") => x.boundary = w.boundary
    BY <2>2, <2>6, <2>9
  <2>12. Inv(n + 1)
    BY <2>7, <2>10, <2>11, <2>13 DEF x
  <2> QED
    BY <2>1, <2>12
<1>14. 0 \in T
  BY <1>1, <1>12
<1> HIDE DEF T
<1>15. 0..N \subseteq T
  BY <1>1, <1>13, <1>14, UpTo
<1>16. N \in 0..N
  BY <1>1
<1>17. Inv(N) /\ after[N] \in Walks
  BY <1>11, <1>15, <1>16 DEF T
<1>18. v = [after[N] EXCEPT !.handled = [after[N].handled EXCEPT ![d] =
                                            @ \o [i \in DOMAIN fresh |-> fresh[i].msg]]]
  BY <1>5, <1>17 DEF N, Walks
<1>19. AllHandled(version, resumed, w, v, d, at, fresh, after[N])
  BY <1>1, <1>17, <1>18 DEF AllHandled
<1> QED
  BY <1>19

-----------------------------------------------------------------------------
(* Records.                                                                 *)

Types == {"handshake", "ccs", "appdata", "alert"}
(* Records and their fragments as captured.                                 *)
Records == [type : Types, body : Seq(Units), secret : BOOLEAN]
Fragments == [dir : Directions, at : Nat, type : Types, secret : BOOLEAN, body : Seq(Units),
              complete : BOOLEAN, ambiguous : BOOLEAN]

IsPlain(r) == r.type = "handshake" /\ ~r.secret

(* A frame holds the record, or the beginning of it.                        *)
LEMMA FrameHolds ==
    ASSUME NEW d \in Directions, NEW at \in Nat, NEW r \in Records, NEW h \in Nat, NEW st,
           NEW f, f = Frame(d, at, r, h, st)
    PROVE  /\ f \in Fragments /\ f.dir = d /\ f.at = at /\ f.type = r.type
           /\ f.secret = r.secret
           /\ Begins(f.body, r.body)
           /\ at < h => f.body = r.body /\ ~f.ambiguous
<1> DEFINE complete == at < h \/ st = "ambiguous"
           ambiguous == at = h /\ st = "ambiguous"
           body == IF complete THEN r.body ELSE SubSeq(r.body, 1, Len(r.body) - 1)
<1>1. f = [dir |-> d, at |-> at, type |-> r.type, secret |-> r.secret, body |-> body,
           complete |-> complete, ambiguous |-> ambiguous]
  BY DEF Frame, Fragment
<1>2. r.body \in Seq(Units) /\ r.type \in Types /\ r.secret \in BOOLEAN /\ Len(r.body) \in Nat
  BY DEF Records
<1>3. body \in Seq(Units) /\ Begins(body, r.body)
  <2>1. CASE complete
    <3>1. body = r.body
      BY <2>1
    <3> QED
      BY <1>2, <3>1 DEF Begins
  <2>2. CASE ~complete /\ Len(r.body) = 0
    <3>1. body = SubSeq(r.body, 1, Len(r.body) - 1)
      BY <2>2
    <3>2. SubSeq(r.body, 1, Len(r.body) - 1) = << >>
      BY <1>2, <2>2
    <3>3. body = << >>
      BY <3>1, <3>2
    <3> HIDE DEF body
    <3> QED
      BY <1>2, <3>3 DEF Begins
  <2>3. CASE ~complete /\ Len(r.body) # 0
    <3> DEFINE n == Len(r.body) - 1
    <3>1. n \in Nat /\ 1 \in 1..(Len(r.body) + 1) /\ n >= 1 - 1 /\ n <= Len(r.body)
      BY <1>2, <2>3
    <3>2. body = SubSeq(r.body, 1, n)
      BY <2>3
    <3> HIDE DEF n, body
    <3>3. /\ body \in Seq(Units) /\ Len(body) = n - 1 + 1
          /\ \A k \in 1..(n - 1 + 1) : body[k] = r.body[1 + k - 1]
      BY <1>2, <3>1, <3>2, PartOf
    <3>4. n - 1 + 1 = n /\ \A k \in 1..n : 1 + k - 1 = k
      BY <3>1
    <3> QED
      BY <3>1, <3>3, <3>4 DEF Begins
  <2> QED
    BY <2>1, <2>2, <2>3
<1>4. at < h => body = r.body /\ ~ambiguous
  BY DEF Directions
<1>5. complete \in BOOLEAN /\ ambiguous \in BOOLEAN
  OBVIOUS
<1> HIDE DEF body, complete, ambiguous
<1> QED
  BY <1>1, <1>2, <1>3, <1>4, <1>5 DEF Fragments

(* What only handshake records change.                                      *)
SameBuffers(w, v) ==
    v.stream = w.stream /\ v.end = w.end /\ v.handled = w.handled

(* A record that is not read, and an alert.                                 *)
LEMMA QuietRead ==
    ASSUME NEW w \in Walks, NEW f \in Fragments, NEW v, v = WalkRecord(w, f),
           IsEncrypted(w, f) \/ f.ambiguous \/ f.type = "alert"
    PROVE  /\ v \in Walks /\ SameBuffers(w, v) /\ SameTold(w, v) /\ v.boundary = w.boundary
           /\ v.overflow = w.overflow /\ v.ccs = w.ccs
           /\ \A a \in v.alerts : a \in w.alerts \/ ~a.fatal
                 \/ (f.type = "alert" /\ f.body # << >> /\ f.body[1].msg = "fatal")
<1>1. ASSUME NEW e \in BOOLEAN
      PROVE  /\ AlertOf(f, e) \in Alerts
             /\ AlertOf(f, e).fatal => f.body # << >> /\ f.body[1].msg = "fatal"
  BY DEF AlertOf, Alerts, Fragments
<1>2. v = w \/ (f.type = "alert" /\ \E e \in BOOLEAN :
                   v = [w EXCEPT !.alerts = @ \cup {AlertOf(f, e)}])
  <2>1. CASE IsEncrypted(w, f)
    BY <2>1 DEF WalkRecord
  <2>2. CASE ~IsEncrypted(w, f) /\ f.ambiguous
    BY <2>2 DEF WalkRecord
  <2>3. CASE ~IsEncrypted(w, f) /\ ~f.ambiguous
    <3>1. f.type = "alert"
      BY <2>3
    <3>2. v = [w EXCEPT !.alerts = @ \cup {AlertOf(f, FALSE)}]
      BY <2>3, <3>1 DEF WalkRecord
    <3> QED
      BY <3>1, <3>2
  <2> QED
    BY <2>1, <2>2, <2>3
<1>3. CASE v = w
  BY <1>3 DEF SameBuffers, SameTold
<1>4. CASE f.type = "alert" /\ \E e \in BOOLEAN : v = [w EXCEPT !.alerts = @ \cup {AlertOf(f, e)}]
  <2>1. PICK e \in BOOLEAN : v = [w EXCEPT !.alerts = @ \cup {AlertOf(f, e)}]
    BY <1>4
  <2> DEFINE a == AlertOf(f, e)
  <2>2. a \in Alerts /\ (a.fatal => f.body # << >> /\ f.body[1].msg = "fatal")
    BY <1>1
  <2>3. v = [w EXCEPT !.alerts = w.alerts \cup {a}]
    BY <2>1
  <2> HIDE DEF a
  <2>8. w.alerts \cup {a} \in SUBSET Alerts
    <3>1. w.alerts \in SUBSET Alerts
      BY DEF Walks
    <3> QED
      BY <2>2, <3>1
  <2> DEFINE b == w.alerts \cup {a}
  <2> HIDE DEF b
  <2>9. v = [w EXCEPT !.alerts = b] /\ b \in SUBSET Alerts
    BY <2>3, <2>8 DEF b
  <2>10. v \in Walks /\ v.alerts = b
    BY <2>9 DEF Walks
  <2>4. v \in Walks /\ v.alerts = w.alerts \cup {a}
    BY <2>10 DEF b
  <2>5. SameBuffers(w, v) /\ SameTold(w, v) /\ v.boundary = w.boundary
        /\ v.overflow = w.overflow /\ v.ccs = w.ccs
    BY <2>3 DEF Walks, SameBuffers, SameTold
  <2>6. ASSUME NEW c \in v.alerts, c \notin w.alerts PROVE c = a
    BY <2>4, <2>6
  <2>7. \A c \in v.alerts : c \in w.alerts \/ ~c.fatal
           \/ (f.type = "alert" /\ f.body # << >> /\ f.body[1].msg = "fatal")
    BY <1>4, <2>2, <2>6
  <2> QED
    BY <2>4, <2>5, <2>7
<1> QED
  BY <1>2, <1>3, <1>4

(* A ChangeCipherSpec.                                                      *)
LEMMA CcsRead ==
    ASSUME NEW w \in Walks, NEW f \in Fragments, NEW v, v = WalkRecord(w, f),
           ~IsEncrypted(w, f), ~f.ambiguous, f.type = "ccs"
    PROVE  /\ v \in Walks /\ SameBuffers(w, v) /\ SameTold(w, v)
           /\ v.overflow = w.overflow /\ v.ccs = w.ccs \cup {f.dir} /\ v.alerts = w.alerts
           /\ \A e \in Directions : v.boundary[e] =
                 IF e = f.dir /\ w.boundary[e] = NoBoundary /\ ~w.tls13 /\ w.serverHello # "SH13"
                 THEN [at |-> f.at + 1, reason |-> "TLS12_CHANGE_CIPHER_SPEC"]
                 ELSE w.boundary[e]
<1> DEFINE seen == [w EXCEPT !.ccs = w.ccs \cup {f.dir}]
<1>1. v = IF w.tls13 \/ w.serverHello = "SH13" THEN [seen EXCEPT !.compatible = TRUE]
          ELSE MarkEncrypted(seen, f.dir, f.at + 1, "TLS12_CHANGE_CIPHER_SPEC")
  BY DEF WalkRecord, ChangeCipherSpec
<1>2. f.dir \in Directions /\ f.at + 1 \in Int /\ "TLS12_CHANGE_CIPHER_SPEC" \in Reasons
  BY DEF Fragments, Reasons
<1>3. seen \in Walks
  BY <1>2 DEF Walks
<1>4. /\ SameBuffers(w, seen) /\ SameTold(w, seen) /\ seen.overflow = w.overflow
      /\ seen.ccs = w.ccs \cup {f.dir} /\ seen.alerts = w.alerts /\ seen.boundary = w.boundary
  BY DEF Walks, SameBuffers, SameTold
<1> HIDE DEF seen
<1>5. CASE w.tls13 \/ w.serverHello = "SH13"
  <2>1. v = [seen EXCEPT !.compatible = TRUE]
    BY <1>1, <1>5
  <2>2. v \in Walks
    BY <1>3, <2>1 DEF Walks
  <2>3. /\ SameBuffers(seen, v) /\ SameTold(seen, v) /\ v.overflow = seen.overflow
        /\ v.ccs = seen.ccs /\ v.alerts = seen.alerts /\ v.boundary = seen.boundary
    BY <1>3, <2>1 DEF Walks, SameBuffers, SameTold
  <2>4. SameBuffers(w, v) /\ SameTold(w, v)
    BY <1>4, <2>3 DEF SameBuffers, SameTold
  <2> QED
    BY <1>4, <1>5, <2>2, <2>3, <2>4
<1>6. CASE ~(w.tls13 \/ w.serverHello = "SH13")
  <2>1. v = MarkEncrypted(seen, f.dir, f.at + 1, "TLS12_CHANGE_CIPHER_SPEC")
    BY <1>1, <1>6
  <2>2. /\ v \in Walks /\ SameRead(seen, v) /\ SameTold(seen, v)
        /\ \A e \in Directions : v.boundary[e] =
              IF e = f.dir /\ seen.boundary[e] = NoBoundary
              THEN [at |-> f.at + 1, reason |-> "TLS12_CHANGE_CIPHER_SPEC"]
              ELSE seen.boundary[e]
    BY <1>2, <1>3, <2>1, MarkedBoundary
  <2>3. SameBuffers(w, v) /\ SameTold(w, v)
    BY <1>4, <2>2 DEF SameBuffers, SameTold, SameRead
  <2>4. v.overflow = w.overflow /\ v.ccs = w.ccs \cup {f.dir} /\ v.alerts = w.alerts
    BY <1>4, <2>2 DEF SameRead
  <2> QED
    BY <1>4, <1>6, <2>2, <2>3, <2>4
<1> QED
  BY <1>5, <1>6

(* Application data.                                                        *)
LEMMA AppDataRead ==
    ASSUME NEW w \in Walks, NEW f \in Fragments, NEW v, v = WalkRecord(w, f),
           ~IsEncrypted(w, f), ~f.ambiguous, f.type = "appdata"
    PROVE  /\ v \in Walks /\ SameBuffers(w, v) /\ SameTold(w, v)
           /\ v.overflow = w.overflow /\ v.ccs = w.ccs /\ v.alerts = w.alerts
           /\ \A e \in Directions : v.boundary[e] =
                 IF e = f.dir /\ w.boundary[e] = NoBoundary
                 THEN [at |-> f.at, reason |-> "APPLICATION_DATA_OBSERVED"]
                 ELSE w.boundary[e]
<1>1. v = MarkEncrypted(w, f.dir, f.at, "APPLICATION_DATA_OBSERVED")
  BY DEF WalkRecord
<1>2. f.dir \in Directions /\ f.at \in Int /\ "APPLICATION_DATA_OBSERVED" \in Reasons
  BY DEF Fragments, Reasons
<1>3. /\ v \in Walks /\ SameRead(w, v) /\ SameTold(w, v)
      /\ \A e \in Directions : v.boundary[e] =
            IF e = f.dir /\ w.boundary[e] = NoBoundary
            THEN [at |-> f.at, reason |-> "APPLICATION_DATA_OBSERVED"]
            ELSE w.boundary[e]
  BY <1>1, <1>2, MarkedBoundary
<1> QED
  BY <1>3 DEF SameRead, SameBuffers

(* A handshake record that the buffer has no room for.                      *)
LEMMA OverflowRead ==
    ASSUME NEW w \in Walks, NEW f \in Fragments, NEW v, v = WalkRecord(w, f),
           ~IsEncrypted(w, f), ~f.ambiguous, f.type = "handshake",
           Len(w.stream[f.dir]) + Len(f.body) > MaxHandshake
    PROVE  /\ v \in Walks /\ SameBuffers(w, v) /\ SameTold(w, v) /\ v.boundary = w.boundary
           /\ v.overflow = w.overflow \cup {f.dir} /\ v.ccs = w.ccs /\ v.alerts = w.alerts
<1>1. v = [w EXCEPT !.overflow = w.overflow \cup {f.dir}]
  BY DEF WalkRecord, AppendHandshake
<1>2. f.dir \in Directions
  BY DEF Fragments
<1>3. v \in Walks
  <2> DEFINE o == w.overflow \cup {f.dir}
  <2>1. o \in SUBSET Directions
    BY <1>2 DEF Walks
  <2> HIDE DEF o
  <2>2. v = [w EXCEPT !.overflow = o]
    BY <1>1 DEF o
  <2> QED
    BY <2>1, <2>2 DEF Walks
<1>4. SameBuffers(w, v) /\ SameTold(w, v)
  BY <1>1 DEF Walks, SameBuffers, SameTold
<1>5. v.boundary = w.boundary /\ v.overflow = w.overflow \cup {f.dir} /\ v.ccs = w.ccs
      /\ v.alerts = w.alerts
  BY <1>1 DEF Walks
<1> QED
  BY <1>3, <1>4, <1>5

(* What a joined sequence is.                                               *)
LEMMA Joined ==
    ASSUME NEW S, NEW a \in Seq(S), NEW b \in Seq(S)
    PROVE  /\ a \o b \in Seq(S) /\ Len(a \o b) = Len(a) + Len(b)
           /\ DOMAIN (a \o b) = 1..(Len(a) + Len(b))
           /\ \A i \in 1..(Len(a) + Len(b)) :
                 (a \o b)[i] = IF i <= Len(a) THEN a[i] ELSE b[i - Len(a)]
OBVIOUS

(* The names of a list of messages.                                         *)
LEMMA NamesOfList ==
    ASSUME NEW list \in Seq(Messages), NEW names, names = [i \in DOMAIN list |-> list[i].msg]
    PROVE  /\ names \in Seq(Msgs) /\ Len(names) = Len(list)
           /\ \A i \in 1..Len(list) : names[i] = list[i].msg
<1> DEFINE n == Len(list)
<1>1. n \in Nat /\ DOMAIN list = 1..n /\ \A i \in 1..n : list[i] \in Messages
  OBVIOUS
<1> HIDE DEF n
<1>2. \A i \in 1..n : list[i].msg \in Msgs
  BY <1>1 DEF Messages
<1>3. names = [i \in 1..n |-> list[i].msg]
  BY <1>1
<1>4. names \in Seq(Msgs) /\ Len(names) = n /\ \A i \in 1..n : names[i] = list[i].msg
  BY ONLY <1>1, <1>2, <1>3
<1> QED
  BY <1>4 DEF n

(* Joining nothing changes nothing.                                         *)
LEMMA NothingJoined ==
    ASSUME NEW S, NEW a \in Seq(S)
    PROVE  a \o << >> = a /\ << >> \o a = a
OBVIOUS

(* The messages handled so far and those a drain adds.                      *)
Extends(hd, vd, C) ==
    /\ Len(C) <= Len(vd)
    /\ \A i \in DOMAIN hd : i \in DOMAIN vd /\ vd[i] = hd[i]
    /\ \A i \in DOMAIN vd : i \in DOMAIN hd \/ (i \in DOMAIN C /\ vd[i] = C[i].msg)

(* What a drain adds to the messages handled.                               *)
Drained(hd, vd, C, fresh) ==
    /\ fresh \in Seq(Messages) /\ vd \in Seq(Msgs) /\ Extends(hd, vd, C)
    /\ \A i \in DOMAIN fresh : \E j \in DOMAIN C : fresh[i] = C[j]
    /\ \A i \in DOMAIN vd : i \in DOMAIN hd \/ \E j \in DOMAIN fresh : vd[i] = fresh[j].msg

(* Messages handled plus the fresh ones are an extension of those handled,  *)
(* and at least all complete ones.                                          *)
LEMMA FreshExtends ==
    ASSUME NEW hd \in Seq(Msgs), NEW C \in Seq(Messages),
           NEW fresh, fresh = SubSeq(C, Len(hd) + 1, Len(C)),
           NEW vd, vd = hd \o [i \in DOMAIN fresh |-> fresh[i].msg]
    PROVE  Drained(hd, vd, C, fresh)
<1> DEFINE n == Len(hd)
           m == Len(C)
           names == [i \in DOMAIN fresh |-> fresh[i].msg]
<1>1. n \in Nat /\ m \in Nat /\ n = Len(hd) /\ m = Len(C) /\ DOMAIN hd = 1..n /\ DOMAIN C = 1..m
  OBVIOUS
<1>2. fresh = SubSeq(C, n + 1, m) /\ vd = hd \o names
  OBVIOUS
<1>3. CASE n >= m
  <2>1. SubSeq(C, n + 1, m) = << >>
    BY <1>1, <1>3
  <2>2. fresh = << >>
    BY <1>2, <2>1
  <2>3. DOMAIN fresh = {} /\ fresh \in Seq(Messages)
    BY <2>2
  <2>4. names = << >>
    BY <2>2
  <2> HIDE DEF n, m, names
  <2>5. vd = hd
    BY ONLY hd \in Seq(Msgs), <1>2, <2>4, NothingJoined
  <2>6. Extends(hd, vd, C)
    BY ONLY <1>1, <1>3, <2>5 DEF Extends
  <2> QED
    BY <2>3, <2>5, <2>6 DEF Drained
<1>4. CASE n < m
  <2> HIDE DEF n, m
  <2> DEFINE a == n + 1
  <2>1. a \in 1..(Len(C) + 1) /\ m >= a - 1 /\ m <= Len(C) /\ m \in Nat /\ m - a + 1 = m - n
        /\ \A k \in 1..(m - n) : a + k - 1 = n + k
    BY <1>1, <1>4
  <2>2. fresh = SubSeq(C, a, m)
    BY <1>2
  <2> HIDE DEF a
  <2>3. /\ fresh \in Seq(Messages) /\ Len(fresh) = m - a + 1
        /\ DOMAIN fresh = 1..(m - a + 1)
        /\ \A k \in 1..(m - a + 1) : fresh[k] = C[a + k - 1]
    BY ONLY C \in Seq(Messages), <2>1, <2>2, PartOf
  <2>4. /\ DOMAIN fresh = 1..(m - n) /\ Len(fresh) = m - n
        /\ \A k \in 1..(m - n) : fresh[k] = C[n + k]
    BY <2>1, <2>3
  <2>5. \A k \in 1..(m - n) : fresh[k].msg \in Msgs
    BY <2>3, <2>4 DEF Messages
  <2>6. names \in Seq(Msgs) /\ Len(names) = m - n
        /\ \A k \in 1..(m - n) : names[k] = fresh[k].msg
    <3>1. /\ names \in Seq(Msgs) /\ Len(names) = Len(fresh)
          /\ \A k \in 1..Len(fresh) : names[k] = fresh[k].msg
      BY ONLY <2>3, NamesOfList, Zenon
    <3> HIDE DEF names
    <3> QED
      BY <2>4, <3>1
  <2> HIDE DEF names
  <2>7. \A k \in 1..(m - n) : n + k \in 1..m
    BY <1>1, <1>4
  <2>8. /\ vd \in Seq(Msgs) /\ Len(vd) = n + (m - n) /\ DOMAIN vd = 1..(n + (m - n))
        /\ \A i \in 1..(n + (m - n)) : vd[i] = IF i <= n THEN hd[i] ELSE names[i - n]
    <3>1. /\ vd \in Seq(Msgs) /\ Len(vd) = Len(hd) + Len(names)
          /\ DOMAIN vd = 1..(Len(hd) + Len(names))
          /\ \A i \in 1..(Len(hd) + Len(names)) :
                vd[i] = IF i <= Len(hd) THEN hd[i] ELSE names[i - Len(hd)]
      BY ONLY hd \in Seq(Msgs), <2>6, <1>2, Joined
    <3>2. Len(hd) = n /\ Len(names) = m - n
      BY <1>1, <2>6
    <3> QED
      BY ONLY <3>1, <3>2
  <2>9. n + (m - n) = m
        /\ \A i \in 1..m : i <= n \/ (i - n \in 1..(m - n) /\ n + (i - n) = i)
    BY <1>1
  <2>10. /\ DOMAIN vd = 1..m /\ Len(vd) = m
         /\ \A i \in 1..m : i <= n => vd[i] = hd[i]
         /\ \A i \in 1..m : ~(i <= n) =>
               i - n \in DOMAIN fresh /\ vd[i] = fresh[i - n].msg /\ vd[i] = C[i].msg
    <3>1. DOMAIN vd = 1..m /\ Len(vd) = m
          /\ \A i \in 1..m : vd[i] = IF i <= n THEN hd[i] ELSE names[i - n]
      BY ONLY <2>8, <2>9
    <3>2. ASSUME NEW i \in 1..m, ~(i <= n)
          PROVE  i - n \in DOMAIN fresh /\ vd[i] = fresh[i - n].msg /\ vd[i] = C[i].msg
      <4>1. i - n \in 1..(m - n) /\ n + (i - n) = i
        BY <2>9, <3>2
      <4>2. names[i - n] = fresh[i - n].msg /\ fresh[i - n] = C[i]
        BY <2>4, <2>6, <4>1
      <4> QED
        BY <2>4, <3>1, <3>2, <4>1, <4>2
    <3> QED
      BY <3>1, <3>2
  <2>11. \A i \in 1..n : i \in 1..m /\ i <= n
    BY <1>1, <1>4
  <2>12. \A i \in 1..m : i <= n => i \in 1..n
    BY <1>1
  <2>13. Extends(hd, vd, C)
    BY ONLY <1>1, <2>10, <2>11, <2>12 DEF Extends
  <2>14. \A i \in DOMAIN fresh : \E j \in DOMAIN C : fresh[i] = C[j]
    BY <1>1, <2>4, <2>7
  <2>15. \A i \in DOMAIN vd : i \in DOMAIN hd \/ \E j \in DOMAIN fresh : vd[i] = fresh[j].msg
    BY ONLY <1>1, <2>10, <2>12
  <2> QED
    BY <2>3, <2>8, <2>13, <2>14, <2>15 DEF Drained
<1>5. n >= m \/ n < m
  BY <1>1
<1> HIDE DEF n, m, names
<1> QED
  BY <1>3, <1>4, <1>5

(* A handshake record that is appended.                                     *)
Taken(version, resumed, w, f, v, s, C) ==
    /\ ~IsEncrypted(w, f) /\ ~f.ambiguous /\ f.type = "handshake"
    /\ s = w.stream[f.dir] \o f.body /\ C = Complete(ParseMessages(s)) /\ C \in Seq(Messages)
    /\ v \in Walks
    /\ v.stream = [w.stream EXCEPT ![f.dir] = s]
    /\ v.end = [w.end EXCEPT ![f.dir] = f.at + 1]
    /\ v.overflow = w.overflow /\ v.ccs = w.ccs /\ v.alerts = w.alerts
    /\ \A d \in Directions : d # f.dir => v.handled[d] = w.handled[d]
    /\ Extends(w.handled[f.dir], v.handled[f.dir], C)
    /\ \A d \in Directions :
          \/ v.boundary[d] = w.boundary[d]
          \/ /\ w.boundary[d] = NoBoundary /\ v.serverHello = "SH13"
             /\ v.boundary[d].at = IF d = "server" THEN f.at + 1 ELSE v.end["client"]
    /\ Sound(version, resumed, v) /\ Grown(w, v)
    /\ \A i \in DOMAIN v.handled[f.dir] :
          i \in DOMAIN w.handled[f.dir] \/ Told(v, v.handled[f.dir][i])
    /\ (\A i \in DOMAIN C : C[i].whole) /\ w.certificate # "corrupt"
       => v.certificate # "corrupt"
    /\ (\A i \in DOMAIN C : C[i].msg # "SH13") => v.boundary = w.boundary

(* A readable handshake record is taken: its bytes join the stream and the  *)
(* fresh complete messages are handled.                                     *)
LEMMA HandshakeRead ==
    ASSUME NEW w \in Walks, NEW f \in Fragments, NEW v, v = WalkRecord(w, f),
           ~IsEncrypted(w, f), ~f.ambiguous, f.type = "handshake",
           ~(Len(w.stream[f.dir]) + Len(f.body) > MaxHandshake),
           NEW s, s = w.stream[f.dir] \o f.body,
           NEW C, C = Complete(ParseMessages(s)),
           NEW version, NEW resumed, Sound(version, resumed, w),
           \A i \in DOMAIN C : Good(version, resumed, C[i])
    PROVE  Taken(version, resumed, w, f, v, s, C)
<1> DEFINE d == f.dir
           x == [w EXCEPT !.stream = [w.stream EXCEPT ![d] = s],
                          !.end = [w.end EXCEPT ![d] = f.at + 1]]
           hd == w.handled[d]
           fresh == SubSeq(C, Len(hd) + 1, Len(C))
<1>1. d \in Directions /\ f.dir \in Directions /\ f.at \in Nat /\ f.at + 1 \in Nat
      /\ f.body \in Seq(Units)
      /\ w.stream \in [Directions -> Seq(Units)] /\ w.end \in [Directions -> Nat]
      /\ w.handled \in [Directions -> Seq(Msgs)]
  BY DEF Fragments, Walks
<1>2. s \in Seq(Units)
  BY <1>1
<1>3. C \in Seq(Messages)
  BY <1>2, AnyParse
<1>4. [w EXCEPT !.stream[d] = @ \o f.body, !.end[d] = f.at + 1] = x
  BY DEF Walks
<1>5. v = Drain(x, d, f.at)
  BY <1>4 DEF WalkRecord, AppendHandshake
<1>6. [w.stream EXCEPT ![d] = s] \in [Directions -> Seq(Units)]
      /\ [w.end EXCEPT ![d] = f.at + 1] \in [Directions -> Nat]
      /\ [w.stream EXCEPT ![d] = s][d] = s
  BY <1>1, <1>2
<1>7. x \in Walks
  BY <1>6 DEF Walks
<1>8. /\ x.stream = [w.stream EXCEPT ![d] = s] /\ x.end = [w.end EXCEPT ![d] = f.at + 1]
      /\ x.handled = w.handled /\ x.boundary = w.boundary /\ x.overflow = w.overflow
      /\ x.ccs = w.ccs /\ x.alerts = w.alerts /\ SameTold(w, x)
  BY DEF Walks, SameTold
<1>9. x.stream[d] = s /\ x.handled[d] = hd
  BY <1>6, <1>8
<1> HIDE DEF x, fresh, hd, d
<1>10. v = HandleAll(x, d, f.at, fresh)
  BY <1>5, <1>9 DEF Drain, fresh
<1>11. Sound(version, resumed, x)
  BY <1>8 DEF Sound, SameTold
<1>12. hd \in Seq(Msgs)
  BY <1>1 DEF hd
<1> DEFINE vd == hd \o [i \in DOMAIN fresh |-> fresh[i].msg]
<1> HIDE DEF vd
<1>13. /\ fresh \in Seq(Messages) /\ vd \in Seq(Msgs) /\ Extends(hd, vd, C)
       /\ \A i \in DOMAIN fresh : \E j \in DOMAIN C : fresh[i] = C[j]
       /\ \A i \in DOMAIN vd : i \in DOMAIN hd \/ \E j \in DOMAIN fresh : vd[i] = fresh[j].msg
  <2>1. fresh = SubSeq(C, Len(hd) + 1, Len(C)) /\ vd = hd \o [i \in DOMAIN fresh |-> fresh[i].msg]
    BY DEF fresh, vd
  <2>2. Drained(hd, vd, C, fresh)
    BY ONLY <1>3, <1>12, <2>1, FreshExtends
  <2> QED
    BY <2>2 DEF Drained
<1>14. \A i \in DOMAIN fresh : Good(version, resumed, fresh[i])
  BY <1>13
<1>29. PICK u : AllHandled(version, resumed, x, v, d, f.at, fresh, u)
  <2>1. fresh \in Seq(Messages) /\ d \in Directions /\ f.at \in Nat
    BY <1>1, <1>13
  <2> QED
    BY ONLY <1>7, <1>10, <1>11, <1>14, <2>1, HandleAllAdvances
<1>15. /\ u \in Walks
       /\ Advanced(version, resumed, x, u, f.at)
       /\ v = [u EXCEPT !.handled = [u.handled EXCEPT ![d] =
                                        @ \o [i \in DOMAIN fresh |-> fresh[i].msg]]]
       /\ \A i \in DOMAIN fresh : Told(u, fresh[i].msg)
       /\ (\A i \in DOMAIN fresh : fresh[i].whole) /\ x.certificate # "corrupt"
          => u.certificate # "corrupt"
       /\ (\A i \in DOMAIN fresh : fresh[i].msg # "SH13") => u.boundary = x.boundary
  BY <1>29 DEF AllHandled
<1>16. /\ u.stream = x.stream /\ u.end = x.end /\ u.handled = w.handled /\ u.overflow = x.overflow
       /\ u.ccs = x.ccs /\ u.alerts = x.alerts /\ BoundariesSet(x, u, f.at) /\ Grown(x, u)
       /\ Sound(version, resumed, u)
  BY <1>8, <1>15 DEF Advanced, SameRead
<1>17. v = [u EXCEPT !.handled = [w.handled EXCEPT ![d] = vd]]
  <2>1. u.handled[d] = hd
    BY <1>16 DEF hd
  <2>2. [u.handled EXCEPT ![d] = @ \o [i \in DOMAIN fresh |-> fresh[i].msg]] = [w.handled EXCEPT ![d] = vd]
    BY <1>1, <1>16, <2>1 DEF vd
  <2> QED
    BY <1>15, <2>2
<1>18. [w.handled EXCEPT ![d] = vd] \in [Directions -> Seq(Msgs)]
       /\ [w.handled EXCEPT ![d] = vd][d] = vd
       /\ \A e \in Directions : e # d => [w.handled EXCEPT ![d] = vd][e] = w.handled[e]
  BY <1>1, <1>13
<1>19. v \in Walks
  <2> DEFINE hs == [w.handled EXCEPT ![d] = vd]
  <2>1. u \in Walks /\ v = [u EXCEPT !.handled = hs] /\ hs \in [Directions -> Seq(Msgs)]
    BY <1>15, <1>17, <1>18
  <2> HIDE DEF hs
  <2> QED
    BY ONLY <2>1 DEF Walks
<1>20. /\ v.stream = u.stream /\ v.end = u.end /\ v.overflow = u.overflow
       /\ v.ccs = u.ccs /\ v.alerts = u.alerts /\ v.boundary = u.boundary /\ SameTold(u, v)
       /\ v.handled = [w.handled EXCEPT ![d] = vd]
  BY <1>15, <1>17 DEF Walks, SameTold
<1>21. v.handled[d] = vd /\ \A e \in Directions : e # d => v.handled[e] = w.handled[e]
  BY <1>18, <1>20
<1>22. \A e \in Directions :
          \/ v.boundary[e] = w.boundary[e]
          \/ /\ w.boundary[e] = NoBoundary /\ v.serverHello = "SH13"
             /\ v.boundary[e].at = IF e = "server" THEN f.at + 1 ELSE v.end["client"]
  BY <1>8, <1>16, <1>20 DEF BoundariesSet, SameTold
<1>23. Sound(version, resumed, v)
  BY <1>16, <1>20 DEF Sound, SameTold
<1>24. Grown(w, v)
  BY <1>8, <1>16, <1>20 DEF Grown, SameTold
<1>25. \A i \in DOMAIN fresh : Told(v, fresh[i].msg)
  BY <1>15, <1>20 DEF Told, SameTold
<1>26. \A i \in DOMAIN vd : i \in DOMAIN hd \/ Told(v, vd[i])
  BY <1>13, <1>25
<1>27. (\A i \in DOMAIN C : C[i].whole) /\ w.certificate # "corrupt" => v.certificate # "corrupt"
  <2>1. (\A i \in DOMAIN C : C[i].whole) => \A i \in DOMAIN fresh : fresh[i].whole
    BY <1>13
  <2>2. x.certificate = w.certificate /\ v.certificate = u.certificate
    BY <1>8, <1>20 DEF SameTold
  <2> QED
    BY <1>15, <2>1, <2>2
<1>28. v.stream = [w.stream EXCEPT ![d] = s] /\ v.end = [w.end EXCEPT ![d] = f.at + 1]
       /\ v.overflow = w.overflow /\ v.ccs = w.ccs /\ v.alerts = w.alerts
  BY <1>8, <1>16, <1>20
<1>30. (\A i \in DOMAIN C : C[i].msg # "SH13") => v.boundary = w.boundary
  <2>1. (\A i \in DOMAIN C : C[i].msg # "SH13") => \A i \in DOMAIN fresh : fresh[i].msg # "SH13"
    BY <1>13
  <2> QED
    BY <1>8, <1>15, <1>20, <2>1
<1> QED
  <2>1. C \in Seq(Messages)
    BY ONLY <1>3
  <2>2. /\ v \in Walks
        /\ v.stream = [w.stream EXCEPT ![f.dir] = s]
        /\ v.end = [w.end EXCEPT ![f.dir] = f.at + 1]
        /\ v.overflow = w.overflow /\ v.ccs = w.ccs /\ v.alerts = w.alerts
        /\ \A e \in Directions : e # f.dir => v.handled[e] = w.handled[e]
        /\ Extends(w.handled[f.dir], v.handled[f.dir], C)
        /\ \A e \in Directions :
              \/ v.boundary[e] = w.boundary[e]
              \/ /\ w.boundary[e] = NoBoundary /\ v.serverHello = "SH13"
                 /\ v.boundary[e].at = IF e = "server" THEN f.at + 1 ELSE v.end["client"]
        /\ Sound(version, resumed, v) /\ Grown(w, v)
        /\ \A i \in DOMAIN v.handled[f.dir] :
              i \in DOMAIN w.handled[f.dir] \/ Told(v, v.handled[f.dir][i])
        /\ (\A i \in DOMAIN C : C[i].whole) /\ w.certificate # "corrupt"
           => v.certificate # "corrupt"
    BY <1>13, <1>19, <1>21, <1>22, <1>23, <1>24, <1>26, <1>27, <1>28 DEF d, hd
  <2>3. ~IsEncrypted(w, f) /\ ~f.ambiguous /\ f.type = "handshake"
        /\ s = w.stream[f.dir] \o f.body /\ C = Complete(ParseMessages(s))
    OBVIOUS
  <2> QED
    BY ONLY <1>30, <2>1, <2>2, <2>3 DEF Taken

-----------------------------------------------------------------------------
(* Parsing the beginning of what was sent.                                  *)

(* A message adds one name.                                                 *)
LEMMA OneName ==
    ASSUME NEW A, WellFormed(A), NEW F, NamesIn(A, F),
           NEW k \in Nat, k + 1 <= Len(A), A[k + 1].part = 1
    PROVE  /\ k + A[k + 1].of \in 0..Len(A)
           /\ F[k + A[k + 1].of] = Append(F[k], A[k + 1].msg)
<1> DEFINE N == Len(A)
           u == A[k + 1]
           T == {e \in 0..(u.of - 1) : F[k + 1 + e] = Append(F[k], u.msg)}
<1>1. A \in Seq(Units) /\ N \in Nat /\ k + 1 \in 1..N
  BY DEF WellFormed
<1>2. u \in Units
  BY <1>1
<1>3. u.of \in Nat \ {0}
  BY <1>2 DEF Units
<1>4. LiesAt(A, k + 1)
  BY <1>1 DEF WellFormed
<1>5. /\ (k + 1) + u.of - 1 <= N
      /\ \A j \in (k + 1)..((k + 1) + u.of - 1) : A[j] = [u EXCEPT !.part = j - (k + 1) + 1]
  BY <1>4 DEF LiesAt
<1>6. F[k + 1] = Append(F[k], u.msg)
  <2>1. (k + 1) - 1 = k
    OBVIOUS
  <2>2. \A i \in 1..N : A[i].part = 1 => F[i] = Append(F[i - 1], A[i].msg)
    BY DEF NamesIn
  <2> QED
    BY ONLY <1>1, <2>1, <2>2, A[k + 1].part = 1
<1>7. 0 \in T
  <2>1. 0 \in 0..(u.of - 1) /\ k + 1 + 0 = k + 1
    BY <1>1, <1>3
  <2> QED
    BY <1>6, <2>1
<1>8. ASSUME NEW e \in 0..((u.of - 1) - 1), e \in T PROVE e + 1 \in T
  <2> DEFINE j == k + 1 + (e + 1)
  <2>1. /\ j \in (k + 1)..((k + 1) + u.of - 1) /\ j \in 1..N /\ j - 1 = k + 1 + e
        /\ j - (k + 1) + 1 = e + 2 /\ e + 2 # 1 /\ e + 1 \in 0..(u.of - 1)
    <3> DEFINE b == u.of
    <3>1. b \in Nat \ {0} /\ (k + 1) + b - 1 <= N
      BY <1>3, <1>5
    <3> HIDE DEF b
    <3>2. e \in 0..((b - 1) - 1)
      BY DEF b
    <3>3. /\ j \in (k + 1)..((k + 1) + b - 1) /\ j \in 1..N /\ j - 1 = k + 1 + e
          /\ j - (k + 1) + 1 = e + 2 /\ e + 2 # 1 /\ e + 1 \in 0..(b - 1)
      BY ONLY k \in Nat, N \in Nat, <1>1, <3>1, <3>2
    <3> QED
      BY <3>3 DEF b
  <2> HIDE DEF j, u
  <2>2. A[j] = [u EXCEPT !.part = e + 2]
    BY <1>5, <2>1
  <2>3. A[j].part = e + 2
    BY <1>2, <2>2 DEF Units
  <2>4. F[j] = F[j - 1]
    BY <2>1, <2>3 DEF NamesIn
  <2>5. F[j - 1] = Append(F[k], u.msg)
    BY <1>8, <2>1
  <2> QED
    BY <2>1, <2>4, <2>5 DEF j
<1> HIDE DEF u
<1>9. u.of - 1 \in Nat
  BY <1>3
<1> HIDE DEF T
<1>10. 0..(u.of - 1) \subseteq T
  BY <1>7, <1>8, <1>9, UpTo
<1>11. u.of - 1 \in 0..(u.of - 1) /\ k + 1 + (u.of - 1) = k + u.of /\ k + u.of \in 0..N
  BY <1>1, <1>3, <1>5
<1>12. F[k + 1 + (u.of - 1)] = Append(F[k], u.msg)
  BY <1>10, <1>11 DEF T
<1> QED
  BY <1>11, <1>12 DEF u

(* The messages of q are the first ones of A, those of its first k units.   *)
First(A, F, q, k) ==
    /\ q \in Seq(Messages) /\ k \in 0..Len(A)
    /\ Len(q) = Len(F[k])
    /\ \A i \in 1..Len(q) : q[i].complete /\ q[i].whole /\ q[i].msg = F[k][i]

(* The message that starts after k units does not end in s.                 *)
CutIn(A, s, k) == k + 1 <= Len(s) /\ A[k + 1].part = 1 /\ k + A[k + 1].of > Len(s)

(* Where a parse of the beginning of A stands: the first messages are read, *)
(* and perhaps the last one was cut.                                        *)
Regular(A, F, s, p) ==
    \E k \in 0..Len(s), q \in Seq(Messages) :
       /\ First(A, F, q, k)
       /\ \/ p.messages = q /\ p.at = k + 1 /\ (k + 1 <= Len(A) => A[k + 1].part = 1)
          \/ /\ CutIn(A, s, k) /\ p.at = Len(s) + 1
             /\ \E m \in Messages : ~m.complete /\ p.messages = Append(q, m)

(* A turn over the beginning of a well-formed list keeps Regular.           *)
LEMMA RegularTurn ==
    ASSUME NEW A, WellFormed(A), NEW F, NamesIn(A, F), \A i \in 1..Len(A) : A[i].msg # "secret",
           NEW s \in Seq(Units), Begins(s, A), NEW p \in Positions, Regular(A, F, s, p)
    PROVE  Regular(A, F, s, Turned(s, p))
<1>1. CASE p.at > Len(s) \/ Len(p.messages) >= MaxMessages
  BY <1>1 DEF Turned
<1>2. CASE ~(p.at > Len(s) \/ Len(p.messages) >= MaxMessages)
  <2>1. /\ A \in Seq(Units) /\ Len(A) \in Nat /\ Len(s) \in Nat /\ Len(s) <= Len(A)
        /\ p.at \in Nat \ {0} /\ \A i \in 1..Len(s) : s[i] = A[i]
    BY DEF WellFormed, Begins, Positions
  <2>2. PICK k \in 0..Len(s), q \in Seq(Messages) :
           /\ First(A, F, q, k)
           /\ p.messages = q /\ p.at = k + 1 /\ (k + 1 <= Len(A) => A[k + 1].part = 1)
    <3>1. p.at # Len(s) + 1
      BY <1>2, <2>1
    <3> QED
      BY <3>1 DEF Regular
  <2> DEFINE u == s[k + 1]
             last == (k + 1) + u.of - 1
             whole == \A j \in (k + 1)..last : s[j] = [u EXCEPT !.part = j - (k + 1) + 1]
             cut == [msg |-> IF Header(u) THEN u.msg ELSE "noise", complete |-> FALSE, whole |-> FALSE]
             all == [msg |-> u.msg, complete |-> TRUE, whole |-> whole]
  <2>3. /\ k \in Nat /\ k + 1 \in 1..Len(s) /\ k + 1 <= Len(A) /\ k + 1 \in 1..Len(A)
        /\ u = A[k + 1] /\ u \in Units
    BY <1>2, <2>1, <2>2
  <2>4. u.part = 1 /\ u.msg # "secret" /\ u.of \in Nat \ {0} /\ u.msg \in Msgs /\ last = k + u.of
    <3>1. u.part = 1 /\ u.msg # "secret"
      BY <2>2, <2>3
    <3> HIDE DEF u
    <3>2. u.of \in Nat \ {0} /\ u.msg \in Msgs
      BY <2>3 DEF Units
    <3>3. last = k + u.of
      BY ONLY <2>3, <3>2
    <3> QED
      BY <3>1, <3>2, <3>3
  <2>5. Turned(s, p) =
          IF ~Header(u) \/ last > Len(s)
          THEN [at |-> Len(s) + 1, messages |-> Append(q, cut)]
          ELSE [at |-> last + 1, messages |-> Append(q, all)]
    BY <1>2, <2>2 DEF Turned
  <2>6. Header(u)
    BY <2>4 DEF Header
  <2>7. CASE last > Len(s)
    <3> DEFINE r == [at |-> Len(s) + 1, messages |-> Append(q, cut)]
    <3>1. Turned(s, p) = r
      BY <2>5, <2>7
    <3>2. cut \in Messages /\ ~cut.complete
      BY <2>4, <2>6 DEF Messages
    <3>3. r.at = Len(s) + 1 /\ r.messages = Append(q, cut)
      OBVIOUS
    <3>4. CutIn(A, s, k)
      <4> HIDE DEF u, last
      <4>1. A[k + 1].of = u.of /\ A[k + 1].part = 1
        BY <2>2, <2>3
      <4>2. k + u.of > Len(s)
        BY <2>4, <2>7
      <4>3. k + 1 <= Len(s)
        BY <2>1, <2>3
      <4> QED
        BY <4>1, <4>2, <4>3 DEF CutIn
    <3> HIDE DEF r, cut, u, last
    <3> QED
      BY <2>2, <3>1, <3>2, <3>3, <3>4 DEF Regular
  <2>8. CASE ~(last > Len(s))
    <3> DEFINE r == [at |-> last + 1, messages |-> Append(q, all)]
    <3>1. Turned(s, p) = r
      BY <2>5, <2>6, <2>8
    <3>2. whole
      <4>1. \A j \in (k + 1)..((k + 1) + A[k + 1].of - 1) :
               A[j] = [A[k + 1] EXCEPT !.part = j - (k + 1) + 1]
        BY <2>2, <2>3 DEF WellFormed, LiesAt
      <4>2. \A j \in (k + 1)..last : j \in 1..Len(s)
        <5> HIDE DEF u, last
        <5> QED
          BY <2>1, <2>3, <2>4, <2>8
      <4> SUFFICES ASSUME NEW j \in (k + 1)..last
                   PROVE  s[j] = [u EXCEPT !.part = j - (k + 1) + 1]
        OBVIOUS
      <4>3. s[j] = A[j]
        BY <2>1, <4>2
      <4>4. A[j] = [A[k + 1] EXCEPT !.part = j - (k + 1) + 1]
        BY <2>3, <4>1
      <4> QED
        BY <2>3, <4>3, <4>4
    <3>3. all \in Messages /\ all.complete /\ all.whole /\ all.msg = u.msg
      <4> HIDE DEF whole
      <4> QED
        BY <2>4, <3>2 DEF Messages
    <3>4. r.at = last + 1 /\ r.messages = Append(q, all)
      OBVIOUS
    <3> HIDE DEF r, all, whole
    <3>5. last \in 0..Len(A) /\ F[last] = Append(F[k], u.msg)
      <4>1. k \in Nat /\ k + 1 <= Len(A) /\ A[k + 1].part = 1
        BY <2>2, <2>3
      <4>2. k + A[k + 1].of \in 0..Len(A) /\ F[k + A[k + 1].of] = Append(F[k], A[k + 1].msg)
        BY <4>1, OneName
      <4>3. u = A[k + 1] /\ last = k + u.of
        BY <2>3, <2>4
      <4> HIDE DEF u, last
      <4> QED
        BY ONLY <4>2, <4>3
    <3>6. last \in 0..Len(s)
      <4> HIDE DEF u, last
      <4> QED
        BY <2>1, <2>3, <2>4, <2>8
    <3>7. F[k] \in Seq(Msgs)
      <4>1. k \in 0..Len(A)
        BY <2>1, <2>3
      <4> QED
        BY <4>1 DEF NamesIn
    <3>8. last + 1 <= Len(A) => A[last + 1].part = 1
      <4>1. (k + 1) + A[k + 1].of <= Len(A) => A[(k + 1) + A[k + 1].of].part = 1
        BY <2>2, <2>3 DEF WellFormed
      <4>2. (k + 1) + A[k + 1].of = last + 1
        <5>1. A[k + 1].of = u.of
          BY <2>3
        <5> HIDE DEF u, last
        <5> QED
          BY <2>3, <2>4, <5>1
      <4> HIDE DEF last
      <4> QED
        BY <4>1, <4>2
    <3> DEFINE Q == Append(q, all)
    <3>9. First(A, F, Q, last)
      <4> HIDE DEF last, u
      <4>1. q \in Seq(Messages) /\ Len(q) = Len(F[k])
            /\ \A i \in 1..Len(q) : q[i].complete /\ q[i].whole /\ q[i].msg = F[k][i]
        BY <2>2 DEF First
      <4>2. /\ Q \in Seq(Messages) /\ Len(Q) = Len(q) + 1 /\ Q[Len(q) + 1] = all
            /\ \A i \in 1..Len(q) : Q[i] = q[i]
        BY <3>3, <4>1
      <4>3. /\ Len(F[last]) = Len(F[k]) + 1 /\ F[last][Len(F[k]) + 1] = u.msg
            /\ \A i \in 1..Len(F[k]) : F[last][i] = F[k][i]
        BY <2>4, <3>5, <3>7
      <4>4. Len(q) \in Nat /\ \A i \in 1..(Len(q) + 1) : i \in 1..Len(q) \/ i = Len(q) + 1
        BY <4>1
      <4> HIDE DEF Q
      <4>5. \A i \in 1..Len(Q) : Q[i].complete /\ Q[i].whole /\ Q[i].msg = F[last][i]
        <5> SUFFICES ASSUME NEW i \in 1..Len(Q)
                     PROVE  Q[i].complete /\ Q[i].whole /\ Q[i].msg = F[last][i]
          OBVIOUS
        <5>1. CASE i \in 1..Len(q)
          BY <4>1, <4>2, <4>3, <5>1
        <5>2. CASE i = Len(q) + 1
          BY <3>3, <4>1, <4>2, <4>3, <5>2
        <5> QED
          BY <4>2, <4>4, <5>1, <5>2
      <4>6. Len(Q) = Len(F[last])
        BY <4>1, <4>2, <4>3
      <4> QED
        BY <3>5, <4>2, <4>5, <4>6 DEF First
    <3>10. Q \in Seq(Messages) /\ r.messages = Q
      BY <3>4, <3>9 DEF First
    <3> HIDE DEF Q, u, last
    <3> QED
      BY <3>1, <3>4, <3>6, <3>8, <3>9, <3>10 DEF Regular
  <2> QED
    BY <2>7, <2>8
<1> QED
  BY <1>1, <1>2

(* A turn that leaves room goes on.                                         *)
Progress(s, p, n) == Len(p.messages) >= MaxMessages \/ p.at >= n + 1

(* Every turn of parse_messages ends the parse or moves forward.            *)
LEMMA ProgressTurn ==
    ASSUME NEW s \in Seq(Units), NEW p \in Positions, NEW n \in Nat, n + 1 <= Len(s),
           Progress(s, p, n)
    PROVE  Progress(s, Turned(s, p), n + 1)
<1>1. Len(s) \in Nat /\ p.at \in Nat \ {0} /\ p.messages \in Seq(Messages)
  BY DEF Positions
<1>2. CASE p.at > Len(s) \/ Len(p.messages) >= MaxMessages
  <2>1. Turned(s, p) = p
    BY <1>2 DEF Turned
  <2> QED
    BY <1>1, <1>2, <2>1 DEF Progress
<1>3. CASE ~(p.at > Len(s) \/ Len(p.messages) >= MaxMessages)
  <2> DEFINE u == s[p.at]
             last == p.at + u.of - 1
  <2>1. p.at >= n + 1 /\ p.at \in 1..Len(s)
    BY <1>1, <1>3 DEF Progress
  <2>2. u \in Units
    BY <2>1
  <2>3. u.of \in Nat \ {0}
    BY <2>2 DEF Units
  <2>4. Turned(s, p).at = Len(s) + 1 \/ Turned(s, p).at = last + 1
    BY <1>3 DEF Turned
  <2>5. Len(s) + 1 >= (n + 1) + 1 /\ last + 1 >= (n + 1) + 1
    <3> HIDE DEF u
    <3> QED
      BY <1>1, <2>1, <2>3
  <2> HIDE DEF last
  <2> QED
    BY <2>4, <2>5 DEF Progress
<1> QED
  BY <1>2, <1>3

(* The complete messages of a buffer that holds the beginning of A.         *)
Parsed(A, F, s, C) ==
    \E k \in 0..Len(s) :
       /\ First(A, F, C, k)
       /\ Len(C) < MaxMessages => k = Len(s) \/ CutIn(A, s, k)

(* A message cut short is not a complete one.                               *)
LEMMA LastIsCut ==
    ASSUME NEW q \in Seq(Messages), NEW m \in Messages, ~m.complete
    PROVE  Complete(Append(q, m)) = q
<1> DEFINE list == Append(q, m)
           n == Len(q)
<1>1. n \in Nat /\ n = Len(q) /\ DOMAIN q = 1..n /\ q = [i \in 1..n |-> q[i]]
  OBVIOUS
<1>2. list \in Seq(Messages) /\ Len(list) = n + 1 /\ list[n + 1] = m
      /\ \A i \in 1..n : list[i] = q[i]
  OBVIOUS
<1>3. list # << >> /\ Last(list) = m
  <2> HIDE DEF list, n
  <2>1. Len(list) # 0
    BY <1>1, <1>2
  <2> QED
    BY <1>2, <2>1 DEF Last
<1>4. Complete(list) = SubSeq(list, 1, n)
  <2> HIDE DEF list, n
  <2>1. (n + 1) - 1 = n
    BY <1>1
  <2> QED
    BY <1>2, <1>3, <2>1 DEF Complete, Front
<1>5. SubSeq(list, 1, n) = q
  <2> HIDE DEF list, n
  <2>1. 1 \in 1..(Len(list) + 1) /\ n \in Nat /\ n >= 1 - 1 /\ n <= Len(list) /\ n - 1 + 1 = n
        /\ \A k \in 1..n : 1 + k - 1 = k
    BY <1>1, <1>2
  <2> DEFINE p == SubSeq(list, 1, n)
  <2>2. /\ p \in Seq(Messages) /\ Len(p) = n - 1 + 1
        /\ \A k \in 1..(n - 1 + 1) : p[k] = list[1 + k - 1]
    BY ONLY <1>2, <2>1, PartOf
  <2> HIDE DEF p
  <2>3. /\ p \in Seq(Messages) /\ Len(p) = n /\ \A k \in 1..n : p[k] = q[k]
    <3>1. Len(p) = n /\ p \in Seq(Messages)
      BY ONLY <2>1, <2>2
    <3>2. ASSUME NEW k \in 1..n PROVE p[k] = q[k]
      <4>1. k \in 1..(n - 1 + 1) /\ 1 + k - 1 = k
        BY ONLY <2>1, <3>2
      <4>2. p[k] = list[1 + k - 1]
        BY ONLY <2>2, <4>1
      <4> QED
        BY ONLY <1>2, <3>2, <4>1, <4>2
    <3> QED
      BY ONLY <3>1, <3>2
  <2>4. p = q
    <3>1. DOMAIN p = 1..Len(p) /\ p = [i \in 1..Len(p) |-> p[i]]
      BY ONLY <2>3
    <3> QED
      BY ONLY <1>1, <2>3, <3>1
  <2> QED
    BY <2>4 DEF p
<1> QED
  BY <1>4, <1>5

(* The beginning of a well-formed list, parsed: its first messages, whole   *)
(* and in order, none missing unless the limit is reached or the last one   *)
(* is cut.                                                                  *)
LEMMA ParsedAsSent ==
    ASSUME NEW A, WellFormed(A), NEW F, NamesIn(A, F), \A i \in 1..Len(A) : A[i].msg # "secret",
           NEW s \in Seq(Units), Begins(s, A)
    PROVE  Parsed(A, F, s, Complete(ParseMessages(s)))
<1> DEFINE N == Len(s)
<1>1. PICK t : Parses(s, t)
  BY ParseTurns
<1>2. /\ N \in Nat /\ t \in [0..N -> Positions] /\ ParseMessages(s) = t[N].messages
      /\ t[0] = [at |-> 1, messages |-> << >>]
      /\ \A i \in 1..N : t[i] = Turned(s, t[i - 1])
  BY <1>1 DEF Parses
<1> DEFINE T == {n \in 0..N : Regular(A, F, s, t[n]) /\ Progress(s, t[n], n)}
<1>3. 0 \in T
  <2>1. 0 \in 0..N /\ 0 \in 0..Len(A) /\ << >> \in Seq(Messages) /\ Len(F[0]) = 0
    BY <1>2 DEF WellFormed, NamesIn
  <2>2. First(A, F, << >>, 0)
    BY <2>1 DEF First
  <2>3. t[0].messages = << >> /\ t[0].at = 0 + 1
    BY <1>2
  <2>4. 0 + 1 <= Len(A) => A[0 + 1].part = 1
    BY DEF WellFormed
  <2>5. Regular(A, F, s, t[0])
    BY <2>1, <2>2, <2>3, <2>4 DEF Regular
  <2> QED
    BY <2>1, <2>3, <2>5 DEF Progress
<1>4. ASSUME NEW n \in 0..(N - 1), n \in T PROVE n + 1 \in T
  <2>1. n + 1 \in 1..N /\ (n + 1) - 1 = n /\ n \in 0..N /\ n + 1 \in 0..N /\ n \in Nat /\ n + 1 <= N
    BY <1>2
  <2>2. t[n] \in Positions /\ t[n + 1] = Turned(s, t[n]) /\ Regular(A, F, s, t[n])
        /\ Progress(s, t[n], n)
    BY <1>2, <1>4, <2>1
  <2>3. Regular(A, F, s, t[n + 1])
    BY <2>2, RegularTurn
  <2>4. Progress(s, t[n + 1], n + 1)
    BY <2>1, <2>2, ProgressTurn
  <2> QED
    BY <2>1, <2>3, <2>4
<1> HIDE DEF T
<1>5. 0..N \subseteq T
  BY <1>2, <1>3, <1>4, UpTo
<1>6. N \in 0..N
  BY <1>2
<1>7. Regular(A, F, s, t[N]) /\ Progress(s, t[N], N) /\ t[N] \in Positions
  BY <1>2, <1>5, <1>6 DEF T
<1> DEFINE p == t[N]
<1>8. PICK k \in 0..N, q \in Seq(Messages) :
         /\ First(A, F, q, k)
         /\ \/ p.messages = q /\ p.at = k + 1 /\ (k + 1 <= Len(A) => A[k + 1].part = 1)
            \/ /\ CutIn(A, s, k) /\ p.at = N + 1
               /\ \E m \in Messages : ~m.complete /\ p.messages = Append(q, m)
  BY <1>7 DEF Regular
<1>9. ParseMessages(s) = p.messages
  BY <1>2
<1> HIDE DEF p, N
<1>10. CASE p.messages = q /\ p.at = k + 1
  <2>1. Complete(q) = q
    <3>1. CASE q = << >>
      BY <3>1 DEF Complete
    <3>2. CASE q # << >>
      <4>1. Len(q) \in 1..Len(q)
        BY <3>2
      <4>2. Last(q).complete
        BY <1>8, <4>1 DEF First, Last
      <4> QED
        BY <4>2 DEF Complete
    <3> QED
      BY <3>1, <3>2
  <2>2. Len(q) < MaxMessages => k = N
    <3>1. Len(q) >= MaxMessages \/ k + 1 >= N + 1
      BY <1>7, <1>10 DEF Progress, p
    <3> QED
      BY <1>2, <3>1, TlsLimitsAssumption
  <2> QED
    BY <1>8, <1>9, <1>10, <2>1, <2>2 DEF Parsed, N
<1>11. CASE /\ CutIn(A, s, k) /\ p.at = N + 1
            /\ \E m \in Messages : ~m.complete /\ p.messages = Append(q, m)
  <2>1. PICK m \in Messages : ~m.complete /\ p.messages = Append(q, m)
    BY <1>11
  <2>2. Complete(p.messages) = q
    BY <2>1, LastIsCut
  <2> QED
    BY <1>8, <1>9, <1>11, <2>2 DEF Parsed, N
<1> QED
  BY <1>8, <1>10, <1>11

(* All its messages are whole and named as sent; the first two are there if *)
(* their units are and two messages may be read.                            *)
LEMMA ParsedTells ==
    ASSUME NEW A, WellFormed(A), NEW F, NamesIn(A, F), NEW s \in Seq(Units), Begins(s, A),
           NEW C, Parsed(A, F, s, C)
    PROVE  /\ \A i \in DOMAIN C : C[i].whole
           /\ Len(C) <= Len(F[Len(A)])
           /\ \A i \in 1..Len(C) : C[i].msg = F[Len(A)][i]
<1>1. PICK k \in 0..Len(s) : First(A, F, C, k)
  BY DEF Parsed
<1>2. Len(A) \in Nat /\ k \in 0..Len(A) /\ Len(A) \in 0..Len(A) /\ k <= Len(A) /\ A \in Seq(Units)
  BY <1>1 DEF First, WellFormed
<1>3. Begins(F[k], F[Len(A)])
  BY <1>2, NamesGrow
<1>4. C \in Seq(Messages) /\ Len(C) = Len(F[k])
      /\ \A i \in 1..Len(C) : C[i].whole /\ C[i].msg = F[k][i]
  BY <1>1 DEF First
<1> QED
  BY <1>3, <1>4 DEF Begins

(* What an appended sequence is.                                            *)
LEMMA AppendedTo ==
    ASSUME NEW S, NEW a \in Seq(S), NEW e \in S, NEW b, b = Append(a, e)
    PROVE  /\ b \in Seq(S) /\ Len(b) = Len(a) + 1 /\ b[Len(a) + 1] = e
           /\ \A i \in 1..Len(a) : b[i] = a[i]
OBVIOUS

(* Two elements in turn.                                                    *)
LEMMA TwoLong ==
    ASSUME NEW x, NEW y
    PROVE  Append(<< x >>, y) = << x, y >>
<1> DEFINE S == {x, y}
           s == << x >>
           p == Append(s, y)
           q == << x, y >>
<1>1. s \in Seq(S) /\ Len(s) = 1 /\ s[1] = x
  OBVIOUS
<1>2. q \in Seq(S) /\ Len(q) = 2 /\ q[1] = x /\ q[2] = y
  OBVIOUS
<1>0. y \in S
  OBVIOUS
<1>a. p = Append(s, y)
  OBVIOUS
<1> HIDE DEF s, S, p, q
<1>3. p \in Seq(S) /\ Len(p) = Len(s) + 1 /\ p[Len(s) + 1] = y
      /\ \A i \in 1..Len(s) : p[i] = s[i]
  BY ONLY <1>0, <1>1, <1>a, AppendedTo
<1>4. p \in Seq(S) /\ Len(p) = 2 /\ p[1] = x /\ p[2] = y
  BY <1>1, <1>3
<1>5. \A i \in 1..2 : i = 1 \/ i = 2
  OBVIOUS
<1>6. \A i \in 1..2 : p[i] = q[i]
  BY ONLY <1>2, <1>4, <1>5
<1>7. p = q
  BY ONLY <1>2, <1>4, <1>6
<1> QED
  BY <1>7 DEF p, q, s

(* The first two messages of a well-formed list whose first message is one  *)
(* unit long.                                                               *)
LEMMA FirstNames ==
    ASSUME NEW A, WellFormed(A), NEW F, NamesIn(A, F), Len(A) >= 1, A[1].of = 1
    PROVE  /\ F[1] = << A[1].msg >>
           /\ Len(F[Len(A)]) >= 1 /\ F[Len(A)][1] = A[1].msg
           /\ Len(A) >= 2 => /\ A[2].part = 1 /\ 1 + A[2].of \in 0..Len(A)
                             /\ F[1 + A[2].of] = << A[1].msg, A[2].msg >>
                             /\ Len(F[Len(A)]) >= 2 /\ F[Len(A)][2] = A[2].msg
<1>1. A \in Seq(Units) /\ Len(A) \in Nat /\ 1 \in 1..Len(A) /\ A[1].part = 1
      /\ Len(A) \in 0..Len(A) /\ 1 \in 0..Len(A)
  BY DEF WellFormed
<1>2. F[0] = << >> /\ F[1] = Append(F[0], A[1].msg)
  <2>1. 1 - 1 = 0
    OBVIOUS
  <2>2. \A i \in 1..Len(A) : A[i].part = 1 => F[i] = Append(F[i - 1], A[i].msg)
    BY DEF NamesIn
  <2>3. F[0] = << >>
    BY DEF NamesIn
  <2> QED
    BY ONLY <1>1, <2>1, <2>2, <2>3
<1>3. F[1] = << A[1].msg >>
  BY ONLY <1>2
<1>4. Begins(F[1], F[Len(A)])
  BY <1>1, NamesGrow
<1>5. Len(F[Len(A)]) >= 1 /\ F[Len(A)][1] = A[1].msg
  <2>1. Len(F[1]) = 1 /\ F[1][1] = A[1].msg
    BY <1>3
  <2> QED
    BY <1>4, <2>1 DEF Begins
<1>6. ASSUME Len(A) >= 2
      PROVE  /\ A[2].part = 1 /\ 1 + A[2].of \in 0..Len(A)
             /\ F[1 + A[2].of] = << A[1].msg, A[2].msg >>
             /\ Len(F[Len(A)]) >= 2 /\ F[Len(A)][2] = A[2].msg
  <2>1. 1 + A[1].of = 2 /\ 1 \in Nat /\ 1 + 1 = 2 /\ 1 + 1 <= Len(A)
    BY <1>6
  <2>2. A[2].part = 1
    BY <1>1, <1>6, <2>1 DEF WellFormed
  <2>3. 1 + A[1 + 1].of \in 0..Len(A) /\ F[1 + A[1 + 1].of] = Append(F[1], A[1 + 1].msg)
    BY <2>1, <2>2, OneName
  <2>4. 1 + A[2].of \in 0..Len(A) /\ F[1 + A[2].of] = Append(F[1], A[2].msg)
    BY <2>1, <2>3
  <2> DEFINE j == 1 + A[2].of
  <2> HIDE DEF j
  <2>5. F[j] = << A[1].msg, A[2].msg >>
    <3>1. F[j] = Append(F[1], A[2].msg)
      BY ONLY <2>4 DEF j
    <3> QED
      BY ONLY <1>3, <3>1, TwoLong
  <2>6. Begins(F[j], F[Len(A)])
    <3>1. j \in 0..Len(A) /\ j <= Len(A)
      BY <1>1, <2>4 DEF j
    <3> QED
      BY <1>1, <3>1, NamesGrow
  <2>7. Len(F[j]) = 2 /\ F[j][2] = A[2].msg
    BY <2>5
  <2>8. Len(F[Len(A)]) >= 2 /\ F[Len(A)][2] = A[2].msg
    BY <2>6, <2>7 DEF Begins
  <2> QED
    BY <2>2, <2>4, <2>5, <2>8 DEF j
<1> QED
  BY <1>3, <1>5, <1>6

(* Under a limit of at least two messages the first two are parsed as soon  *)
(* as they are there: a HelloRetryRequest never uses up the limit before    *)
(* the ServerHello.                                                         *)
LEMMA FirstTwoParsed ==
    ASSUME NEW A, WellFormed(A), NEW F, NamesIn(A, F), NEW s \in Seq(Units), Begins(s, A),
           NEW C, Parsed(A, F, s, C), MaxMessages >= 2, Len(s) >= 1, A[1].of = 1
    PROVE  /\ Len(C) >= 1
           /\ Len(s) >= 2 /\ Len(s) >= 1 + A[2].of => Len(C) >= 2
<1>1. PICK k \in 0..Len(s) : /\ First(A, F, C, k)
                             /\ Len(C) < MaxMessages => k = Len(s) \/ CutIn(A, s, k)
  BY DEF Parsed
<1>2. /\ A \in Seq(Units) /\ Len(A) \in Nat /\ Len(s) \in Nat /\ Len(s) <= Len(A) /\ Len(A) >= 1
      /\ k \in 0..Len(A) /\ C \in Seq(Messages) /\ Len(C) \in Nat /\ Len(C) = Len(F[k])
  BY <1>1 DEF WellFormed, Begins, First
<1>3. F[1] = << A[1].msg >>
  BY <1>2, FirstNames
<1>4. k # 0 \/ Len(C) >= 2
  <2>1. ASSUME k = 0, Len(C) < 2 PROVE FALSE
    <3>1. k = Len(s) \/ CutIn(A, s, k)
      BY <1>1, <1>2, <2>1, TlsLimitsAssumption
    <3>2. k + 1 = 1 /\ A[k + 1].of = 1
      BY <2>1
    <3> QED
      BY <1>2, <2>1, <3>1, <3>2 DEF CutIn
  <2> QED
    BY <1>2, <2>1
<1>5. k >= 1 => Len(C) >= 1
  <2>1. k >= 1 => Begins(F[1], F[k])
    <3>1. 1 \in 0..Len(A)
      BY <1>2
    <3> QED
      BY <1>2, <3>1, NamesGrow
  <2>2. Len(F[1]) = 1
    BY <1>3
  <2> QED
    BY <1>2, <2>1, <2>2 DEF Begins
<1>6. Len(C) >= 1
  BY <1>2, <1>4, <1>5
<1>7. ASSUME Len(s) >= 2, Len(s) >= 1 + A[2].of, Len(C) < 2 PROVE FALSE
  <2> DEFINE b == A[2].of
  <2>1. Len(A) >= 2
    BY <1>2, <1>7
  <2>2. A[2].part = 1 /\ 1 + b \in 0..Len(A) /\ F[1 + b] = << A[1].msg, A[2].msg >>
    BY <1>2, <2>1, FirstNames
  <2>3. b \in Nat \ {0}
    <3>1. A[2] \in Units
      BY <1>2, <2>1
    <3> QED
      BY <3>1 DEF Units
  <2>4. LiesAt(A, 2)
    BY <1>2, <2>1, <2>2 DEF WellFormed
  <2>5. k < 1 + b
    <3>1. ASSUME k >= 1 + b PROVE FALSE
      <4>1. Begins(F[1 + b], F[k])
        BY <1>2, <2>2, <3>1, NamesGrow
      <4>2. Len(F[1 + b]) = 2
        BY <2>2
      <4> QED
        BY <1>2, <1>7, <4>1, <4>2 DEF Begins
    <3> HIDE DEF b
    <3> QED
      BY <1>2, <2>3, <3>1
  <2>6. CutIn(A, s, k)
    <3>1. k # Len(s)
      <4> HIDE DEF b
      <4>1. Len(s) >= 1 + b
        BY <1>7 DEF b
      <4> QED
        BY <1>2, <2>3, <2>5, <4>1
    <3> QED
      BY <1>1, <1>2, <1>7, <3>1, TlsLimitsAssumption
  <2>7. k >= 1
    BY <1>2, <1>4, <1>7
  <2>8. CASE k = 1
    <3>1. k + 1 = 2
      BY <2>8
    <3> QED
      BY <1>2, <1>7, <2>3, <2>6, <2>8, <3>1 DEF CutIn
  <2>9. CASE k > 1
    <3>1. k + 1 \in 2..(2 + b - 1) /\ (k + 1) - 2 + 1 = k
      <4> HIDE DEF b
      <4> QED
        BY <1>2, <2>3, <2>5, <2>9
    <3>2. A[k + 1] = [A[2] EXCEPT !.part = (k + 1) - 2 + 1]
      BY <2>4, <3>1 DEF LiesAt
    <3>3. A[2] \in Units
      BY <1>2, <2>1
    <3>4. A[k + 1].part = k
      BY <3>1, <3>2, <3>3 DEF Units
    <3> QED
      BY <2>6, <2>9, <3>4 DEF CutIn
  <2> QED
    BY <1>2, <2>7, <2>8, <2>9
<1> QED
  BY <1>2, <1>6, <1>7

-----------------------------------------------------------------------------
(* What a list of records brings.                                           *)

(* The units of the plain handshake records among the first n.              *)
Collects(list, G) ==
    /\ G \in [0..Len(list) -> Seq(Units)]
    /\ G[0] = << >>
    /\ \A n \in 1..Len(list) :
          G[n] = IF IsPlain(list[n]) THEN G[n - 1] \o list[n].body ELSE G[n - 1]

Got(list) == CHOOSE G : Collects(list, G)
AllOf(list) == Got(list)[Len(list)]
NamesOf(A) == CHOOSE F : NamesIn(A, F)

(* NamesOf names what it should.                                            *)
LEMMA NamesThere ==
    ASSUME NEW A \in Seq(Units)
    PROVE  NamesIn(A, NamesOf(A))
BY NamesExist DEF NamesOf

(* Got collects what it should.                                             *)
LEMMA GotThere ==
    ASSUME NEW list \in Seq(Records)
    PROVE  Collects(list, Got(list))
<1> DEFINE N == Len(list)
           step == [p \in (1..N) \X Seq(Units) |->
                       IF IsPlain(list[p[1]]) THEN p[2] \o list[p[1]].body ELSE p[2]]
<1>1. N \in Nat /\ \A i \in 1..N : list[i] \in Records
  OBVIOUS
<1>2. step \in [(1..N) \X Seq(Units) -> Seq(Units)]
  <2>1. ASSUME NEW i \in 1..N, NEW b \in Seq(Units)
        PROVE  (IF IsPlain(list[i]) THEN b \o list[i].body ELSE b) \in Seq(Units)
    <3>1. list[i].body \in Seq(Units)
      BY <1>1 DEF Records
    <3> DEFINE c == list[i].body
    <3>2. c \in Seq(Units)
      BY <3>1
    <3> HIDE DEF c
    <3>3. b \o c \in Seq(Units)
      BY <3>2
    <3> QED
      BY <3>3 DEF c
  <2> QED
    BY <2>1
<1>3. \A i \in 1..N, b \in Seq(Units) :
         step[<<i, b>>] = IF IsPlain(list[i]) THEN b \o list[i].body ELSE b
  <2> SUFFICES ASSUME NEW i \in 1..N, NEW b \in Seq(Units)
               PROVE  step[<<i, b>>] = IF IsPlain(list[i]) THEN b \o list[i].body ELSE b
    OBVIOUS
  <2>1. <<i, b>> \in (1..N) \X Seq(Units) /\ <<i, b>>[1] = i /\ <<i, b>>[2] = b
    OBVIOUS
  <2> QED
    BY <2>1
<1> HIDE DEF step, N
<1>4. << >> \in Seq(Units)
  OBVIOUS
<1>5. PICK F : Iterates(F, N, Seq(Units), << >>, step)
  BY <1>1, <1>2, <1>4, Iteration
<1>6. F \in [0..N -> Seq(Units)] /\ F[0] = << >>
  BY <1>5 DEF Iterates
<1>7. ASSUME NEW i \in 1..N
      PROVE  F[i] = IF IsPlain(list[i]) THEN F[i - 1] \o list[i].body ELSE F[i - 1]
  <2>1. i - 1 \in 0..N /\ F[i] = step[<<i, F[i - 1]>>]
    BY <1>1, <1>5 DEF Iterates
  <2>2. F[i - 1] \in Seq(Units)
    BY <1>6, <2>1
  <2> QED
    BY ONLY <1>3, <2>1, <2>2
<1>8. Collects(list, F)
  BY ONLY <1>6, <1>7 DEF Collects, N
<1> QED
  BY ONLY <1>8 DEF Got

(* Two tables agree at 0, and at each place if they agree at the one before. *)
SameStep(g, h, N) == g[0] = h[0] /\ \A n \in 1..N : g[n - 1] = h[n - 1] => g[n] = h[n]

(* Two tables of one list are the same.                                     *)
LEMMA OneTable ==
    ASSUME NEW N \in Nat, NEW g, NEW h, SameStep(g, h, N)
    PROVE  g[N] = h[N]
<1> DEFINE T == {n \in 0..N : g[n] = h[n]}
<1>0. g[0] = h[0] /\ \A n \in 1..N : g[n - 1] = h[n - 1] => g[n] = h[n]
  BY DEF SameStep
<1>1. 0 \in T
  BY <1>0
<1>2. ASSUME NEW n \in 0..(N - 1), n \in T PROVE n + 1 \in T
  <2>1. n + 1 \in 1..N /\ (n + 1) - 1 = n /\ n + 1 \in 0..N
    OBVIOUS
  <2> QED
    BY <1>0, <1>2, <2>1
<1> HIDE DEF T
<1>3. 0..N \subseteq T
  BY <1>1, <1>2, UpTo
<1>4. N \in 0..N
  OBVIOUS
<1> QED
  BY <1>3, <1>4 DEF T

(* SentUnits is what all plain handshake records of a direction carry.      *)
LEMMA SentUnitsAre ==
    ASSUME NEW d, scenario.sends[d] \in Seq(Records)
    PROVE  SentUnits(d) = AllOf(scenario.sends[d])
<1> DEFINE list == scenario.sends[d]
           N == Len(list)
           G == Got(list)
<1>1. N \in Nat /\ Collects(list, G)
  BY GotThere
<1>2. /\ G \in [0..N -> Seq(Units)] /\ G[0] = << >>
      /\ \A n \in 1..N : G[n] = IF list[n].type = "handshake" /\ ~list[n].secret
                                THEN G[n - 1] \o list[n].body ELSE G[n - 1]
  BY <1>1 DEF Collects, IsPlain
<1> DEFINE units[n \in 0..N] ==
              IF n = 0 THEN << >>
              ELSE IF list[n].type = "handshake" /\ ~list[n].secret
              THEN units[n - 1] \o list[n].body
              ELSE units[n - 1]
<1>3. SentUnits(d) = units[N]
  BY DEF SentUnits
<1> HIDE DEF G, list, N
<1>4. G = [n \in 0..N |-> IF n = 0 THEN << >>
              ELSE IF list[n].type = "handshake" /\ ~list[n].secret
              THEN G[n - 1] \o list[n].body
              ELSE G[n - 1]]
  <2>1. \A n \in 0..N : n = 0 \/ n \in 1..N
    BY <1>1
  <2> QED
    BY <1>2, <2>1
<1>5. units = [n \in 0..N |-> IF n = 0 THEN << >>
              ELSE IF list[n].type = "handshake" /\ ~list[n].secret
              THEN units[n - 1] \o list[n].body
              ELSE units[n - 1]]
  BY ONLY <1>4
<1> HIDE DEF units
<1>6. units[0] = << >> /\ \A n \in 1..N :
         units[n] = IF list[n].type = "handshake" /\ ~list[n].secret
                    THEN units[n - 1] \o list[n].body ELSE units[n - 1]
  <2>1. 0 \in 0..N /\ \A n \in 1..N : n \in 0..N /\ n # 0
    BY <1>1
  <2> QED
    BY ONLY <1>5, <2>1
<1>7. SameStep(units, G, N)
  BY ONLY <1>2, <1>6 DEF SameStep
<1>8. units[N] = G[N]
  <2>1. N \in Nat
    BY <1>1
  <2> HIDE DEF N
  <2> QED
    BY ONLY <1>7, <2>1, OneTable
<1> QED
  BY <1>3, <1>8 DEF AllOf, G, N, list

(* SentMessages is the names of the messages in those units.                *)
LEMMA SentMessagesAre ==
    ASSUME NEW d, NEW A, A = SentUnits(d), A \in Seq(Units)
    PROVE  SentMessages(d) = NamesOf(A)[Len(A)]
<1> DEFINE N == Len(A)
           F == NamesOf(A)
<1>1. N \in Nat /\ NamesIn(A, F)
  BY NamesThere
<1>2. /\ F \in [0..N -> Seq(Msgs)] /\ F[0] = << >>
      /\ \A n \in 1..N : F[n] = IF A[n].part = 1 THEN Append(F[n - 1], A[n].msg) ELSE F[n - 1]
  BY <1>1 DEF NamesIn
<1> DEFINE first[n \in 0..N] ==
              IF n = 0 THEN << >>
              ELSE IF A[n].part = 1 THEN Append(first[n - 1], A[n].msg) ELSE first[n - 1]
<1>3. SentMessages(d) = first[N]
  BY DEF SentMessages
<1> HIDE DEF F, N
<1>4. F = [n \in 0..N |->
              IF n = 0 THEN << >>
              ELSE IF A[n].part = 1 THEN Append(F[n - 1], A[n].msg) ELSE F[n - 1]]
  <2>1. \A n \in 0..N : n = 0 \/ n \in 1..N
    BY <1>1
  <2> QED
    BY <1>2, <2>1
<1>5. first = [n \in 0..N |->
              IF n = 0 THEN << >>
              ELSE IF A[n].part = 1 THEN Append(first[n - 1], A[n].msg) ELSE first[n - 1]]
  BY ONLY <1>4
<1> HIDE DEF first
<1>6. first[0] = << >> /\ \A n \in 1..N :
         first[n] = IF A[n].part = 1 THEN Append(first[n - 1], A[n].msg) ELSE first[n - 1]
  <2>1. 0 \in 0..N /\ \A n \in 1..N : n \in 0..N /\ n # 0
    BY <1>1
  <2> QED
    BY ONLY <1>5, <2>1
<1>7. SameStep(first, F, N)
  BY ONLY <1>2, <1>6 DEF SameStep
<1>8. first[N] = F[N]
  <2>1. N \in Nat
    BY <1>1
  <2> HIDE DEF N
  <2> QED
    BY ONLY <1>7, <2>1, OneTable
<1> QED
  BY <1>3, <1>8 DEF F, N

(* What came later begins with what came before.                            *)
LEMMA BeginsAll ==
    ASSUME NEW S, NEW a \in Seq(S), NEW b \in Seq(S)
    PROVE  Begins(a, a \o b)
<1>1. /\ Len(a) \in Nat /\ Len(b) \in Nat /\ Len(a \o b) = Len(a) + Len(b)
      /\ \A i \in 1..(Len(a) + Len(b)) : (a \o b)[i] = IF i <= Len(a) THEN a[i] ELSE b[i - Len(a)]
  BY Joined
<1> DEFINE c == a \o b
<1> HIDE DEF c
<1>2. Len(c) = Len(a) + Len(b)
      /\ \A i \in 1..(Len(a) + Len(b)) : c[i] = IF i <= Len(a) THEN a[i] ELSE b[i - Len(a)]
  BY ONLY <1>1 DEF c
<1>3. Begins(a, c)
  BY ONLY <1>1, <1>2 DEF Begins
<1> QED
  BY ONLY <1>3 DEF c

(* A beginning of a beginning is a beginning.                               *)
LEMMA BeginsOn ==
    ASSUME NEW S, NEW a \in Seq(S), NEW b \in Seq(S), NEW c \in Seq(S), Begins(a, b), Begins(b, c)
    PROVE  Begins(a, c)
<1>1. Len(a) \in Nat /\ Len(b) \in Nat /\ Len(c) \in Nat
  OBVIOUS
<1> QED
  BY <1>1 DEF Begins

(* What fewer records carry begins what more records carry.                 *)
LEMMA GotGrows ==
    ASSUME NEW list \in Seq(Records), NEW i \in 0..Len(list), NEW j \in 0..Len(list), i <= j
    PROVE  /\ Got(list)[i] \in Seq(Units) /\ Got(list)[j] \in Seq(Units)
           /\ Begins(Got(list)[i], Got(list)[j])
<1> DEFINE N == Len(list)
           G == Got(list)
           T == {k \in 0..(N - i) : Begins(G[i], G[i + k])}
<1>1. N \in Nat /\ Collects(list, G) /\ \A n \in 1..N : list[n] \in Records
  BY GotThere
<1>2. /\ G \in [0..N -> Seq(Units)] /\ i \in 0..N /\ j \in 0..N
      /\ \A n \in 1..N : G[n] = IF IsPlain(list[n]) THEN G[n - 1] \o list[n].body ELSE G[n - 1]
  BY <1>1 DEF Collects
<1>3. \A n \in 0..N : G[n] \in Seq(Units)
  BY <1>2
<1> HIDE DEF G, N
<1>4. 0 \in T
  <2>1. G[i] \in Seq(Units) /\ i + 0 = i /\ 0 \in 0..(N - i)
    BY <1>1, <1>2, <1>3
  <2> QED
    BY <2>1 DEF Begins
<1>5. ASSUME NEW k \in 0..(N - i - 1), k \in T PROVE k + 1 \in T
  <2> DEFINE n == i + k + 1
  <2>1. n \in 1..N /\ n - 1 = i + k /\ i + (k + 1) = n /\ k + 1 \in 0..(N - i) /\ n - 1 \in 0..N
        /\ n \in 0..N
    BY <1>1, <1>2
  <2>2. Begins(G[i], G[n - 1])
    BY <1>5, <2>1
  <2> HIDE DEF n
  <2>3. G[i] \in Seq(Units) /\ G[n - 1] \in Seq(Units) /\ G[n] \in Seq(Units)
    BY <1>2, <1>3, <2>1
  <2>4. Begins(G[n - 1], G[n])
    <3> DEFINE b == list[n].body
               g == G[n - 1]
    <3>1. b \in Seq(Units)
      BY <1>1, <2>1 DEF Records
    <3>2. G[n] = IF IsPlain(list[n]) THEN g \o b ELSE g
      BY <1>2, <2>1
    <3>3. g \in Seq(Units)
      BY <2>3
    <3> HIDE DEF b, g
    <3>4. Begins(g, g \o b)
      BY ONLY <3>1, <3>3, BeginsAll
    <3>5. Begins(g, g)
      BY ONLY <3>3 DEF Begins
    <3>6. Begins(g, G[n])
      BY ONLY <3>2, <3>4, <3>5
    <3> QED
      BY <3>6 DEF g
  <2>5. Begins(G[i], G[n])
    BY <2>2, <2>3, <2>4, BeginsOn
  <2> QED
    BY <2>1, <2>5
<1>6. N - i \in Nat
  BY <1>1, <1>2
<1> HIDE DEF T
<1>7. 0..(N - i) \subseteq T
  <2>1. \A k \in 0..((N - i) - 1) : k \in T => k + 1 \in T
    BY <1>5
  <2> QED
    BY <1>4, <1>6, <2>1, UpTo
<1>8. j - i \in 0..(N - i) /\ i + (j - i) = j
  BY <1>1, <1>2
<1>9. Begins(G[i], G[j])
  BY <1>7, <1>8 DEF T
<1> QED
  BY <1>2, <1>3, <1>9 DEF G

-----------------------------------------------------------------------------
(* What is put together of whole messages.                                  *)

(* Every unit of A is of a message and a length in S.                       *)
MadeOf(A, S) == \A i \in 1..Len(A) : <<A[i].msg, A[i].of>> \in S

(* The units of one message.                                                *)
LEMMA UnitHolds ==
    ASSUME NEW m \in Msgs, NEW n \in Nat \ {0}, NEW b, b = Unit(m, n)
    PROVE  /\ b \in Seq(Units) /\ Len(b) = n
           /\ \A i \in 1..n : b[i] = [msg |-> m, part |-> i, of |-> n]
<1>1. b = [i \in 1..n |-> [msg |-> m, part |-> i, of |-> n]]
  BY DEF Unit
<1>2. \A i \in 1..n : [msg |-> m, part |-> i, of |-> n] \in Units
  BY DEF Units
<1> QED
  BY <1>1, <1>2

(* The empty list is well formed.                                           *)
LEMMA NothingWellFormed ==
    WellFormed(<< >>) /\ \A S : MadeOf(<< >>, S)
<1>1. << >> \in Seq(Units) /\ Len(<< >>) = 0 /\ 1..0 = {}
  OBVIOUS
<1> DEFINE e == << >>
<1>2. e \in Seq(Units) /\ Len(e) = 0 /\ 1..0 = {}
  BY <1>1
<1> HIDE DEF e
<1>3. WellFormed(e) /\ \A S : MadeOf(e, S)
  BY <1>2 DEF WellFormed, MadeOf
<1> QED
  BY <1>3 DEF e

(* B is A, whose length is a, and the units of one message.                 *)
Continues(A, a, m, n, B) ==
    /\ a = Len(A) /\ B \in Seq(Units) /\ Len(B) = a + n
    /\ \A i \in 1..a : B[i] = A[i]
    /\ \A k \in 1..n : B[a + k] = [msg |-> m, part |-> k, of |-> n]

(* One message more keeps a list well formed, unit by unit.                 *)
LEMMA WellFormedLonger ==
    ASSUME NEW A, WellFormed(A), NEW m \in Msgs, NEW n \in Nat \ {0}, NEW a \in Nat,
           NEW B, Continues(A, a, m, n, B), NEW S, MadeOf(A, S), <<m, n>> \in S
    PROVE  WellFormed(B) /\ MadeOf(B, S) /\ B[a + 1] = [msg |-> m, part |-> 1, of |-> n]
<1>a. a = Len(A) /\ B \in Seq(Units) /\ Len(B) = a + n
  BY DEF Continues
<1>0. A \in Seq(Units) /\ \A i \in 1..a : A[i] \in Units
  BY <1>a DEF WellFormed
<1>1. a >= 1 => A[1].part = 1
  BY <1>a DEF WellFormed
<1>2. ASSUME NEW i \in 1..a, A[i].part = 1
      PROVE  /\ i + A[i].of - 1 <= a
             /\ \A j \in i..(i + A[i].of - 1) : A[j] = [A[i] EXCEPT !.part = j - i + 1]
             /\ i + A[i].of <= a => A[i + A[i].of].part = 1
  BY <1>a, <1>2 DEF WellFormed, LiesAt
<1>4. \A i \in 1..a : B[i] = A[i]
  BY DEF Continues
<1>5. \A k \in 1..n : B[a + k] = [msg |-> m, part |-> k, of |-> n]
  BY DEF Continues
<1>3. B \in Seq(Units) /\ Len(B) = a + n
  BY <1>a
<1>6. B[a + 1] = [msg |-> m, part |-> 1, of |-> n]
  <2>1. 1 \in 1..n
    OBVIOUS
  <2> QED
    BY <1>5, <2>1
<1>7. \A i \in 1..(a + n) : i \in 1..a \/ \E k \in 1..n : i = a + k
  <2> SUFFICES ASSUME NEW i \in 1..(a + n), i \notin 1..a PROVE \E k \in 1..n : i = a + k
    OBVIOUS
  <2>1. i - a \in 1..n /\ i = a + (i - a)
    BY <1>1
  <2> QED
    BY <2>1
<1>8. MadeOf(B, S)
  <2> SUFFICES ASSUME NEW i \in 1..(a + n) PROVE <<B[i].msg, B[i].of>> \in S
    BY <1>3 DEF MadeOf
  <2>1. CASE i \in 1..a
    <3>1. <<A[i].msg, A[i].of>> \in S
      BY ONLY <1>a, <2>1, MadeOf(A, S) DEF MadeOf
    <3> QED
      BY <1>4, <2>1, <3>1
  <2>2. CASE \E k \in 1..n : i = a + k
    <3>1. PICK k \in 1..n : i = a + k
      BY <2>2
    <3>2. B[i] = [msg |-> m, part |-> k, of |-> n]
      BY ONLY <1>5, <3>1
    <3>3. B[i].msg = m /\ B[i].of = n
      BY ONLY <3>2
    <3> QED
      BY <3>3
  <2> QED
    BY <1>7, <2>1, <2>2
<1>9. B[1].part = 1
  <2>1. CASE a = 0
    <3>1. a + 1 = 1
      BY <2>1
    <3> QED
      BY <1>6, <3>1
  <2>2. CASE a >= 1
    <3>1. 1 \in 1..a
      BY <1>1, <2>2
    <3> QED
      BY <1>1, <1>4, <2>2, <3>1
  <2> QED
    BY <1>1, <2>1, <2>2
<1>10. ASSUME NEW i \in 1..(a + n), B[i].part = 1
       PROVE  LiesAt(B, i) /\ (i + B[i].of <= a + n => B[i + B[i].of].part = 1)
  <2>1. CASE i \in 1..a
    <3> DEFINE o == A[i].of
    <3>1. B[i] = A[i] /\ A[i] \in Units /\ o \in Nat \ {0}
      BY <1>0, <1>4, <2>1 DEF Units
    <3>2. /\ i + o - 1 <= a
          /\ \A j \in i..(i + o - 1) : A[j] = [A[i] EXCEPT !.part = j - i + 1]
          /\ i + o <= a => A[i + o].part = 1
      BY <1>2, <1>10, <2>1, <3>1
    <3> HIDE DEF o
    <3>3. i + o - 1 <= a + n /\ \A j \in i..(i + o - 1) : j \in 1..a
      BY <1>1, <2>1, <3>1, <3>2
    <3>4. \A j \in i..(i + o - 1) : B[j] = [B[i] EXCEPT !.part = j - i + 1]
      BY ONLY <1>4, <3>1, <3>2, <3>3
    <3>5. i + o <= a + n => B[i + o].part = 1
      <4>1. CASE i + o <= a
        <5>1. i + o \in 1..a
          BY <1>1, <2>1, <3>1, <4>1
        <5> QED
          BY <1>4, <3>2, <4>1, <5>1
      <4>2. CASE ~(i + o <= a)
        <5>1. i + o = a + 1
          <6>1. i \in Nat /\ o \in Nat /\ a \in Nat /\ i + o - 1 <= a
            BY <2>1, <3>1, <3>2
          <6> QED
            BY ONLY <4>2, <6>1
        <5> QED
          BY <1>6, <5>1
      <4> QED
        BY <4>1, <4>2
    <3>6. B[i].of = o
      BY <3>1 DEF o
    <3> QED
      BY ONLY <1>3, <3>3, <3>4, <3>5, <3>6 DEF LiesAt
  <2>2. CASE \E k \in 1..n : i = a + k
    <3>1. PICK k \in 1..n : i = a + k
      BY <2>2
    <3>2. k = 1 /\ i = a + 1 /\ B[i] = [msg |-> m, part |-> 1, of |-> n]
      <4>1. B[i] = [msg |-> m, part |-> k, of |-> n]
        BY ONLY <1>5, <3>1
      <4>2. k = 1
        BY ONLY <1>10, <4>1
      <4> QED
        BY ONLY <3>1, <4>1, <4>2
    <3>3. B[i].of = n /\ i + n - 1 = a + n /\ i + n = a + n + 1
      <4>1. B[i].of = n
        BY ONLY <3>2
      <4>2. i = a + 1
        BY ONLY <3>2
      <4>3. i + n - 1 = a + n /\ i + n = a + n + 1
        BY ONLY <4>2, a \in Nat, n \in Nat \ {0}
      <4> QED
        BY ONLY <4>1, <4>3
    <3>4. ASSUME NEW j \in i..(i + n - 1) PROVE B[j] = [B[i] EXCEPT !.part = j - i + 1]
      <4>1. j - a \in 1..n /\ j = a + (j - a) /\ j - i + 1 = j - a
        BY <1>1, <3>2, <3>3
      <4>2. B[a + (j - a)] = [msg |-> m, part |-> j - a, of |-> n]
        BY ONLY <1>5, <4>1
      <4>3. B[j] = [msg |-> m, part |-> j - a, of |-> n]
        BY ONLY <4>1, <4>2
      <4> DEFINE x == j - i + 1
      <4>4. B[j] = [msg |-> m, part |-> x, of |-> n]
        BY ONLY <4>1, <4>3
      <4>5. B[i] = [msg |-> m, part |-> 1, of |-> n]
        BY ONLY <3>2
      <4> HIDE DEF x
      <4>6. [B[i] EXCEPT !.part = x] = [msg |-> m, part |-> x, of |-> n]
        BY ONLY <4>5
      <4> QED
        BY ONLY <4>4, <4>6 DEF x
    <3>5. ~(i + n <= a + n)
      BY <1>1, <3>3
    <3>6. i + n - 1 <= a + n
      BY <1>1, <3>3
    <3> QED
      BY ONLY <1>3, <3>3, <3>4, <3>5, <3>6 DEF LiesAt
  <2> QED
    BY <1>7, <2>1, <2>2
<1>11. WellFormed(B)
  BY ONLY <1>3, <1>9, <1>10 DEF WellFormed
<1> QED
  BY <1>6, <1>8, <1>11

(* B is the well-formed A and one message more.                             *)
Added(A, m, n, B, S) ==
    /\ WellFormed(B) /\ Len(B) = Len(A) + n /\ MadeOf(B, S)
    /\ \A i \in 1..Len(A) : B[i] = A[i]
    /\ B[Len(A) + 1] = [msg |-> m, part |-> 1, of |-> n]

(* One message more keeps a list well formed.                               *)
LEMMA WellFormedAdd ==
    ASSUME NEW A, WellFormed(A), NEW m \in Msgs, NEW n \in Nat \ {0},
           NEW B, B = A \o Unit(m, n), NEW S, MadeOf(A, S), <<m, n>> \in S
    PROVE  Added(A, m, n, B, S)
<1> DEFINE a == Len(A)
           b == Unit(m, n)
<1>1. A \in Seq(Units) /\ a \in Nat /\ Len(A) = a
  BY DEF WellFormed
<1>2. b \in Seq(Units) /\ Len(b) = n /\ \A i \in 1..n : b[i] = [msg |-> m, part |-> i, of |-> n]
  BY UnitHolds
<1>3. B = A \o b
  OBVIOUS
<1> HIDE DEF a, b
<1>4. /\ A \o b \in Seq(Units) /\ Len(A \o b) = Len(A) + Len(b)
      /\ \A i \in 1..(Len(A) + Len(b)) :
            (A \o b)[i] = IF i <= Len(A) THEN A[i] ELSE b[i - Len(A)]
  BY <1>1, <1>2, Joined
<1>5. /\ B \in Seq(Units) /\ Len(B) = a + n
      /\ \A i \in 1..(a + n) : B[i] = IF i <= a THEN A[i] ELSE b[i - a]
  BY ONLY <1>1, <1>2, <1>3, <1>4
<1>6. \A i \in 1..a : B[i] = A[i]
  <2>1. \A i \in 1..a : i \in 1..(a + n) /\ i <= a
    BY ONLY <1>1, n \in Nat \ {0}
  <2> QED
    BY ONLY <1>5, <2>1
<1>7. \A k \in 1..n : B[a + k] = [msg |-> m, part |-> k, of |-> n]
  <2> SUFFICES ASSUME NEW k \in 1..n PROVE B[a + k] = [msg |-> m, part |-> k, of |-> n]
    OBVIOUS
  <2>1. a + k \in 1..(a + n) /\ ~(a + k <= a) /\ (a + k) - a = k
    BY ONLY <1>1, n \in Nat \ {0}, k \in 1..n
  <2>2. B[a + k] = b[k]
    BY ONLY <1>5, <2>1
  <2> QED
    BY ONLY <1>2, <2>2, k \in 1..n
<1>8. WellFormed(B) /\ MadeOf(B, S) /\ B[a + 1] = [msg |-> m, part |-> 1, of |-> n]
  <2>1. Continues(A, a, m, n, B)
    BY ONLY <1>1, <1>5, <1>6, <1>7 DEF Continues
  <2> QED
    BY ONLY <1>1, <2>1, WellFormedLonger, WellFormed(A), m \in Msgs, n \in Nat \ {0},
            MadeOf(A, S), <<m, n>> \in S
<1> QED
  BY ONLY <1>5, <1>6, <1>8 DEF Added, a

(* b is the slice of A from i to j.                                         *)
PartTaken(A, S, i, j, b) ==
    /\ b \in Seq(Units) /\ Len(b) = j - i + 1 /\ MadeOf(b, S)
    /\ \A k \in 1..(j - i + 1) : b[k] = A[i + k - 1]

(* A slice of a list is made of the same messages.                          *)
LEMMA PartMade ==
    ASSUME NEW A \in Seq(Units), NEW S, MadeOf(A, S), NEW i \in 1..(Len(A) + 1), NEW j \in Nat,
           j >= i - 1, j <= Len(A), NEW b, b = SubSeq(A, i, j)
    PROVE  PartTaken(A, S, i, j, b)
<1>1. b \in Seq(Units) /\ Len(b) = j - i + 1 /\ \A k \in 1..(j - i + 1) : b[k] = A[i + k - 1]
  BY PartOf
<1>2. Len(A) \in Nat /\ \A k \in 1..(j - i + 1) : i + k - 1 \in 1..Len(A)
  OBVIOUS
<1>3. MadeOf(b, S)
  BY <1>1, <1>2 DEF MadeOf
<1> QED
  BY ONLY <1>1, <1>3 DEF PartTaken

(* Two parts are the whole.                                                 *)
LEMMA PartsJoined ==
    ASSUME NEW A \in Seq(Units), NEW i \in 1..(Len(A) + 1), NEW j \in Nat, NEW k \in Nat,
           j >= i - 1, k >= j, k <= Len(A)
    PROVE  SubSeq(A, i, j) \o SubSeq(A, j + 1, k) = SubSeq(A, i, k)
<1> DEFINE p == SubSeq(A, i, j)
           q == SubSeq(A, j + 1, k)
           r == SubSeq(A, i, k)
<1>0. Len(A) \in Nat /\ i \in Nat /\ j + 1 \in 1..(Len(A) + 1) /\ k >= (j + 1) - 1
      /\ j <= Len(A) /\ k >= i - 1
  OBVIOUS
<1>1. p \in Seq(Units) /\ Len(p) = j - i + 1 /\ \A n \in 1..(j - i + 1) : p[n] = A[i + n - 1]
  BY <1>0, PartOf
<1>2. q \in Seq(Units) /\ Len(q) = k - (j + 1) + 1
      /\ \A n \in 1..(k - (j + 1) + 1) : q[n] = A[(j + 1) + n - 1]
  BY <1>0, PartOf
<1>3. r \in Seq(Units) /\ Len(r) = k - i + 1 /\ \A n \in 1..(k - i + 1) : r[n] = A[i + n - 1]
  BY <1>0, PartOf
<1> HIDE DEF p, q, r
<1> DEFINE c == p \o q
<1>4. /\ c \in Seq(Units) /\ Len(c) = Len(p) + Len(q)
      /\ \A n \in 1..(Len(p) + Len(q)) : c[n] = IF n <= Len(p) THEN p[n] ELSE q[n - Len(p)]
  BY <1>1, <1>2, Joined
<1> HIDE DEF c
<1>5. Len(p) + Len(q) = k - i + 1
  BY <1>0, <1>1, <1>2
<1>6. ASSUME NEW n \in 1..(k - i + 1) PROVE c[n] = r[n]
  <2>1. CASE n <= Len(p)
    <3>1. n \in 1..(j - i + 1)
      BY <1>0, <1>1, <2>1
    <3> QED
      BY <1>1, <1>3, <1>4, <1>5, <2>1, <3>1
  <2>2. CASE ~(n <= Len(p))
    <3>1. n - Len(p) \in 1..(k - (j + 1) + 1) /\ (j + 1) + (n - Len(p)) - 1 = i + n - 1
      BY <1>0, <1>1, <2>2
    <3> QED
      BY <1>2, <1>3, <1>4, <1>5, <2>2, <3>1
  <2> QED
    BY <2>1, <2>2
<1>7. c = r
  <2>1. c = [n \in 1..Len(c) |-> c[n]] /\ r = [n \in 1..Len(r) |-> r[n]]
    BY <1>3, <1>4
  <2> QED
    BY <1>3, <1>4, <1>5, <1>6, <2>1
<1> QED
  BY <1>7 DEF c, p, q, r

(* The slice from first to last is the list.                                *)
LEMMA WholePart ==
    ASSUME NEW A \in Seq(Units)
    PROVE  SubSeq(A, 1, Len(A)) = A
<1> DEFINE r == SubSeq(A, 1, Len(A))
           k == Len(A)
<1>1. k \in Nat /\ 1 \in 1..(k + 1) /\ k >= 1 - 1 /\ k <= k /\ k - 1 + 1 = k
  OBVIOUS
<1>2. r \in Seq(Units) /\ Len(r) = k - 1 + 1 /\ \A n \in 1..(k - 1 + 1) : r[n] = A[1 + n - 1]
  BY <1>1, PartOf
<1> HIDE DEF r
<1>3. \A n \in 1..k : 1 + n - 1 = n
  BY <1>1
<1>4. r = [n \in 1..Len(r) |-> r[n]] /\ A = [n \in 1..k |-> A[n]]
  BY <1>2
<1> HIDE DEF k
<1>5. r = A
  BY <1>1, <1>2, <1>3, <1>4
<1> QED
  BY <1>5 DEF r, k

-----------------------------------------------------------------------------
(* The scenarios.                                                           *)

(* The messages that fit a version and a resumption.                        *)
MayTell(version, resumed, name, of) ==
    /\ name = "CH" \/ name = "HRR" \/ name \in ServerHellos => of = 1
    /\ name \in ServerHellos => name = version
    /\ name = "HRR" => version = "SH13"
    /\ name = "SHD" => version = "SH12" /\ ~resumed

(* A record of such messages; ciphertext is marked as such, and only a      *)
(* refusal has a fatal alert.                                               *)
RecordFits(version, resumed, r) ==
    /\ r.type = "handshake" =>
          \A i \in 1..Len(r.body) : /\ MayTell(version, resumed, r.body[i].msg, r.body[i].of)
                                    /\ r.body[i].msg = "secret" => r.secret
    /\ r.type = "alert" /\ Len(r.body) >= 1 /\ r.body[1].msg = "fatal" => version = None

(* What one direction sends: whole messages in plain records, and below TLS *)
(* 1.3 ciphertext right after a ChangeCipherSpec only.                      *)
ListFits(version, resumed, list) ==
    /\ list \in Seq(Records)
    /\ \A n \in 1..Len(list) :
          /\ RecordFits(version, resumed, list[n])
          /\ list[n].type = "handshake" /\ list[n].secret =>
                n > 1 /\ version # "SH13" /\ list[n - 1].type = "ccs"
    /\ WellFormed(AllOf(list))
    /\ \A i \in 1..Len(AllOf(list)) : AllOf(list)[i].msg # "secret"

(* The ServerHello, a HelloRetryRequest, the certificate is among the       *)
(* first k units.                                                           *)
HelloIn(A, k) ==
    \/ k >= 1 /\ A[1].msg \in ServerHellos /\ A[1].of = 1
    \/ k >= 2 /\ A[1].msg = "HRR" /\ A[1].of = 1 /\ A[2].msg \in ServerHellos /\ A[2].of = 1

RetryIn(A, k) == k >= 1 /\ A[1].msg = "HRR" /\ A[1].of = 1

CertificateIn(A, k) ==
    k >= 2 /\ A[1].of = 1 /\ A[2].msg = "CERT" /\ k >= 1 + A[2].of

(* What the server has said before it sends application data or             *)
(* ChangeCipherSpec.                                                        *)
ServerFits(version, resumed, family, list) ==
    \A n \in 1..Len(list) :
       LET k == Len(Got(list)[n - 1])
           A == AllOf(list)
       IN  /\ list[n].type = "appdata" => HelloIn(A, k)
           /\ list[n].type = "ccs" => HelloIn(A, k) \/ RetryIn(A, k)
           /\ list[n].type = "ccs" /\ version = "SH12" /\ ~resumed /\ family # "ANON"
              => CertificateIn(A, k)
           /\ (\E i \in 1..Len(list[n].body) : list[n].body[i].msg \in ServerHellos)
              => HelloIn(A, Len(Got(list)[n]))

(* A message one unit long.                                                 *)
LEMMA OneUnit ==
    ASSUME NEW m \in Msgs, NEW b, b = Unit(m, 1)
    PROVE  b \in Seq(Units) /\ Len(b) = 1 /\ b[1] = [msg |-> m, part |-> 1, of |-> 1]
<1>1. b = [i \in 1..1 |-> [msg |-> m, part |-> i, of |-> 1]]
  BY DEF Unit
<1>2. \A i \in 1..1 : [msg |-> m, part |-> i, of |-> 1] \in Units
  BY DEF Units
<1>3. 1 \in 1..1
  OBVIOUS
<1> QED
  BY ONLY <1>1, <1>2, <1>3

(* The kinds of record the scenarios use besides plain handshake records.   *)
LEMMA Kinds ==
    /\ Ccs \in Records /\ Finished \in Records /\ AppData \in Records /\ Fatal \in Records
    /\ CloseNotify \in Records
    /\ Ccs.type = "ccs" /\ Ccs.body = << >>
    /\ Finished.type = "handshake" /\ Finished.secret
    /\ Len(Finished.body) = 1 /\ Finished.body[1].msg = "secret"
    /\ AppData.type = "appdata" /\ AppData.body = << >>
    /\ Fatal.type = "alert" /\ Len(Fatal.body) = 1 /\ Fatal.body[1].msg = "fatal"
    /\ CloseNotify.type = "alert" /\ Len(CloseNotify.body) = 1
    /\ CloseNotify.body[1].msg = "secret"
<1>1. /\ Unit("secret", 1) \in Seq(Units) /\ Len(Unit("secret", 1)) = 1
      /\ Unit("secret", 1)[1].msg = "secret"
  <2> DEFINE m == "secret"
             b == Unit(m, 1)
  <2>1. m \in Msgs /\ m = "secret"
    BY DEF Msgs
  <2> HIDE DEF m
  <2>2. b \in Seq(Units) /\ Len(b) = 1 /\ b[1] = [msg |-> m, part |-> 1, of |-> 1]
    BY <2>1, OneUnit
  <2> HIDE DEF b
  <2>3. b[1].msg = m
    BY ONLY <2>2
  <2>4. b \in Seq(Units) /\ Len(b) = 1
    BY ONLY <2>2
  <2>5. b = Unit("secret", 1)
    BY ONLY <2>1 DEF b
  <2> QED
    BY ONLY <2>1, <2>3, <2>4, <2>5
<1>2. /\ Unit("fatal", 1) \in Seq(Units) /\ Len(Unit("fatal", 1)) = 1
      /\ Unit("fatal", 1)[1].msg = "fatal"
  <2> DEFINE m == "fatal"
             b == Unit(m, 1)
  <2>1. m \in Msgs /\ m = "fatal"
    BY DEF Msgs
  <2> HIDE DEF m
  <2>2. b \in Seq(Units) /\ Len(b) = 1 /\ b[1] = [msg |-> m, part |-> 1, of |-> 1]
    BY <2>1, OneUnit
  <2> HIDE DEF b
  <2>3. b[1].msg = m
    BY ONLY <2>2
  <2>4. b \in Seq(Units) /\ Len(b) = 1
    BY ONLY <2>2
  <2>5. b = Unit("fatal", 1)
    BY ONLY <2>1 DEF b
  <2> QED
    BY ONLY <2>1, <2>3, <2>4, <2>5
<1>3. << >> \in Seq(Units)
  OBVIOUS
<1>4. Ccs \in Records /\ AppData \in Records /\ Ccs.type = "ccs" /\ Ccs.body = << >>
      /\ AppData.type = "appdata" /\ AppData.body = << >>
  BY <1>3 DEF Ccs, AppData, Record, Records, Types
<1>5. Finished \in Records /\ Finished.type = "handshake" /\ Finished.secret
      /\ Finished.body = Unit("secret", 1)
  BY <1>1 DEF Finished, Record, Records, Types
<1>6. Fatal \in Records /\ Fatal.type = "alert" /\ Fatal.body = Unit("fatal", 1)
  BY <1>2 DEF Fatal, Record, Records, Types
<1>7. CloseNotify \in Records /\ CloseNotify.type = "alert" /\ CloseNotify.body = Unit("secret", 1)
  BY <1>1 DEF CloseNotify, Record, Records, Types
<1> QED
  BY <1>1, <1>2, <1>4, <1>5, <1>6, <1>7

(* A plain handshake record.                                                *)
LEMMA PlainKind ==
    ASSUME NEW b \in Seq(Units)
    PROVE  Plain(b) \in Records /\ IsPlain(Plain(b)) /\ Plain(b).body = b
BY DEF Plain, Record, Records, Types, IsPlain

(* What a list is made of.                                                  *)
Piece(version, list, S, n) ==
    \/ list[n] = Ccs \/ list[n] = AppData \/ list[n] = CloseNotify
    \/ list[n] = Fatal /\ version = None
    \/ list[n] = Finished /\ n > 1 /\ version # "SH13" /\ list[n - 1] = Ccs
    \/ IsPlain(list[n]) /\ MadeOf(list[n].body, S)

(* Records that are each a piece, and well formed together, fit.            *)
LEMMA PiecesFit ==
    ASSUME NEW list \in Seq(Records), NEW version, NEW resumed, NEW S,
           \A n \in 1..Len(list) : Piece(version, list, S, n),
           \A m, o : <<m, o>> \in S => MayTell(version, resumed, m, o) /\ m # "secret",
           WellFormed(AllOf(list)), MadeOf(AllOf(list), S)
    PROVE  ListFits(version, resumed, list)
<1>1. ASSUME NEW n \in 1..Len(list)
      PROVE  /\ RecordFits(version, resumed, list[n])
             /\ list[n].type = "handshake" /\ list[n].secret =>
                   n > 1 /\ version # "SH13" /\ list[n - 1].type = "ccs"
  <2> DEFINE r == list[n]
  <2>0. Piece(version, list, S, n) /\ 1 \in 1..1 /\ \A i \in 1..1 : i = 1
    OBVIOUS
  <2>1. CASE r = Ccs \/ r = AppData \/ r = CloseNotify
    <3>1. r.type # "handshake" /\ ~(r.type = "alert" /\ r.body[1].msg = "fatal")
      BY <2>1, Kinds
    <3> QED
      BY <3>1 DEF RecordFits
  <2>2. CASE r = Fatal /\ version = None
    <3>1. r.type = "alert"
      BY <2>2, Kinds
    <3> QED
      BY <2>2, <3>1 DEF RecordFits
  <2>3. CASE r = Finished /\ n > 1 /\ version # "SH13" /\ list[n - 1] = Ccs
    <3>1. r.type = "handshake" /\ r.secret /\ list[n - 1].type = "ccs"
          /\ Len(r.body) = 1 /\ r.body[1].msg = "secret"
      BY <2>3, Kinds
    <3>2. MayTell(version, resumed, r.body[1].msg, r.body[1].of)
      BY <3>1 DEF MayTell, ServerHellos
    <3>3. RecordFits(version, resumed, r)
      <4> HIDE DEF r
      <4>1. 1..Len(r.body) = {1}
        BY <3>1
      <4> QED
        BY ONLY <3>1, <3>2, <4>1 DEF RecordFits
    <3> QED
      BY <2>3, <3>1, <3>3
  <2>4. CASE IsPlain(r) /\ MadeOf(r.body, S)
    <3>1. r.type = "handshake" /\ ~r.secret
      BY <2>4 DEF IsPlain
    <3>2. ASSUME NEW i \in 1..Len(r.body)
          PROVE  MayTell(version, resumed, r.body[i].msg, r.body[i].of) /\ r.body[i].msg # "secret"
      <4>1. <<r.body[i].msg, r.body[i].of>> \in S
        BY <2>4 DEF MadeOf
      <4> HIDE DEF r
      <4> QED
        BY <4>1
    <3> HIDE DEF r
    <3>3. RecordFits(version, resumed, r)
      BY <3>1, <3>2 DEF RecordFits
    <3> QED
      BY <3>1, <3>3 DEF r
  <2> QED
    BY <2>0, <2>1, <2>2, <2>3, <2>4 DEF Piece
<1>2. ASSUME NEW i \in 1..Len(AllOf(list)) PROVE AllOf(list)[i].msg # "secret"
  <2>1. <<AllOf(list)[i].msg, AllOf(list)[i].of>> \in S
    BY DEF MadeOf
  <2> QED
    BY <2>1
<1> QED
  BY <1>1, <1>2 DEF ListFits

(* Got, record by record.                                                   *)
LEMMA GotAt ==
    ASSUME NEW list \in Seq(Records)
    PROVE  /\ Got(list)[0] = << >>
           /\ \A n \in 0..Len(list) : Got(list)[n] \in Seq(Units)
           /\ \A n \in 1..Len(list) :
                 Got(list)[n] = IF IsPlain(list[n]) THEN Got(list)[n - 1] \o list[n].body
                                ELSE Got(list)[n - 1]
BY GotThere DEF Collects

(* Records that are not read as messages bring nothing.                     *)
LEMMA NothingMore ==
    ASSUME NEW list \in Seq(Records), NEW k \in 0..Len(list),
           \A n \in (k + 1)..Len(list) : ~IsPlain(list[n])
    PROVE  /\ \A n \in k..Len(list) : Got(list)[n] = Got(list)[k]
           /\ AllOf(list) = Got(list)[k]
<1> DEFINE N == Len(list)
           G == Got(list)
           T == {i \in 0..(N - k) : G[k + i] = G[k]}
<1>1. N \in Nat /\ k \in Nat /\ k <= N /\ N - k \in Nat
      /\ \A n \in 1..N : ~IsPlain(list[n]) => G[n] = G[n - 1]
  BY GotAt
<1> HIDE DEF G
<1>2. 0 \in T
  <2>1. k + 0 = k /\ 0 \in 0..(N - k)
    BY <1>1
  <2> QED
    BY <2>1
<1>3. ASSUME NEW i \in 0..((N - k) - 1), i \in T PROVE i + 1 \in T
  <2>1. k + i + 1 \in (k + 1)..N /\ k + i + 1 \in 1..N /\ (k + i + 1) - 1 = k + i
        /\ k + (i + 1) = k + i + 1 /\ i + 1 \in 0..(N - k)
    BY <1>1
  <2>2. G[k + i + 1] = G[k + i]
    BY <1>1, <2>1
  <2> QED
    BY <1>3, <2>1, <2>2
<1> HIDE DEF T
<1>4. 0..(N - k) \subseteq T
  BY <1>1, <1>2, <1>3, UpTo
<1>5. ASSUME NEW n \in k..N PROVE G[n] = G[k]
  <2>1. n - k \in 0..(N - k) /\ k + (n - k) = n
    <3>1. N \in Nat /\ k \in Nat /\ k <= N
      BY <1>1
    <3> QED
      BY ONLY <3>1, n \in k..N
  <2>2. n - k \in T
    BY ONLY <1>4, <2>1
  <2>3. G[k + (n - k)] = G[k]
    BY ONLY <2>2 DEF T
  <2> QED
    BY ONLY <2>1, <2>3
<1>6. N \in k..N
  BY <1>1
<1> QED
  BY <1>5, <1>6 DEF AllOf, G

(* The first record.                                                        *)
LEMMA GotFirst ==
    ASSUME NEW list \in Seq(Records), Len(list) >= 1, IsPlain(list[1])
    PROVE  Got(list)[1] = list[1].body
<1> DEFINE b == list[1].body
<1>1. Len(list) \in Nat /\ 1 \in 1..Len(list) /\ 1 - 1 = 0 /\ list[1] \in Records
  OBVIOUS
<1>2. Got(list)[1] = Got(list)[1 - 1] \o b /\ Got(list)[0] = << >>
  BY <1>1, GotAt
<1>3. b \in Seq(Units)
  BY <1>1 DEF Records
<1> HIDE DEF b
<1>4. << >> \o b = b
  BY <1>3, NothingJoined
<1> QED
  BY ONLY <1>1, <1>2, <1>4 DEF b

(* A list of a server that begins with its hello.                           *)
LEMMA HelloFirst ==
    ASSUME NEW list \in Seq(Records), Len(list) >= 1, IsPlain(list[1]), Len(list[1].body) >= 1,
           list[1].body[1].msg \in ServerHellos, list[1].body[1].of = 1
    PROVE  /\ \A n \in 1..Len(list) : HelloIn(AllOf(list), Len(Got(list)[n]))
           /\ Len(AllOf(list)) >= 1 /\ AllOf(list)[1] = list[1].body[1]
<1> DEFINE N == Len(list)
           G == Got(list)
           A == AllOf(list)
<1>1. N \in Nat /\ 1 \in 1..N /\ 1 \in 0..N /\ N \in 0..N /\ A = G[N]
  BY DEF AllOf
<1>2. G[1] = list[1].body
  BY GotFirst
<1>3. ASSUME NEW n \in 1..N PROVE Begins(G[1], G[n]) /\ G[n] \in Seq(Units)
  <2>1. n \in 0..N /\ 1 <= n
    BY <1>1
  <2> QED
    BY <1>1, <2>1, GotGrows
<1>4. Begins(G[1], A) /\ A \in Seq(Units) /\ G[1] \in Seq(Units)
  <2>1. N \in 1..N
    BY <1>1
  <2> QED
    BY <1>1, <1>3, <2>1
<1>5. Len(A) >= 1 /\ A[1] = list[1].body[1]
  BY <1>2, <1>4 DEF Begins
<1>6. ASSUME NEW n \in 1..N PROVE HelloIn(A, Len(G[n]))
  <2>1. Len(G[n]) >= 1
    BY <1>2, <1>3, <1>4 DEF Begins
  <2> QED
    BY <1>5, <2>1 DEF HelloIn
<1> QED
  BY <1>5, <1>6

(* A server that begins with its hello in one record fits.                  *)
LEMMA HelloFirstFits ==
    ASSUME NEW list \in Seq(Records), Len(list) >= 1, IsPlain(list[1]), Len(list[1].body) >= 1,
           list[1].body[1].msg \in ServerHellos, list[1].body[1].of = 1,
           NEW version, NEW resumed, NEW family,
           version = "SH12" /\ ~resumed /\ family # "ANON" =>
              \A n \in 1..Len(list) :
                 list[n].type = "ccs" => CertificateIn(AllOf(list), Len(Got(list)[n - 1]))
    PROVE  ServerFits(version, resumed, family, list)
<1>1. \A n \in 1..Len(list) : HelloIn(AllOf(list), Len(Got(list)[n]))
  BY HelloFirst
<1>2. SUFFICES ASSUME NEW n \in 1..Len(list), list[n].type = "appdata" \/ list[n].type = "ccs"
               PROVE  HelloIn(AllOf(list), Len(Got(list)[n - 1]))
  BY <1>1 DEF ServerFits
<1>3. n # 1
  BY <1>2 DEF IsPlain
<1>4. n - 1 \in 1..Len(list)
  BY <1>3
<1> QED
  BY <1>1, <1>4

(* What follows the messages of a list.                                     *)
Follows(version, list, n) ==
    \/ list[n] = Ccs \/ list[n] = AppData \/ list[n] = CloseNotify
    \/ list[n] = Fatal /\ version = None
    \/ list[n] = Finished /\ n > 1 /\ version # "SH13" /\ list[n - 1] = Ccs

(* A record that follows the flight is no plain handshake record.           *)
LEMMA FollowsNotPlain ==
    ASSUME NEW version, NEW list, NEW n, Follows(version, list, n), NEW S
    PROVE  ~IsPlain(list[n]) /\ Piece(version, list, S, n)
<1>1. ~IsPlain(list[n])
  BY Kinds DEF Follows, IsPlain
<1>2. Piece(version, list, S, n)
  BY DEF Follows, Piece
<1> QED
  BY <1>1, <1>2

(* Only what fits may be said.                                              *)
TellsOnly(version, resumed, S) ==
    \A m, o : <<m, o>> \in S => MayTell(version, resumed, m, o) /\ m # "secret"

(* list fits, and its first f records say A.                                *)
Spoke(version, resumed, list, f, A) ==
    /\ ListFits(version, resumed, list) /\ AllOf(list) = A
    /\ \A n \in f..Len(list) : Got(list)[n] = A

(* A list of plain records and then of others fits, and says what the plain *)
(* ones say.                                                                *)
LEMMA Spoken ==
    ASSUME NEW list \in Seq(Records), NEW f \in 0..Len(list), NEW version, NEW resumed, NEW S,
           \A n \in 1..f : IsPlain(list[n]) /\ MadeOf(list[n].body, S),
           \A n \in (f + 1)..Len(list) : Follows(version, list, n),
           TellsOnly(version, resumed, S), NEW A, A = Got(list)[f], WellFormed(A), MadeOf(A, S)
    PROVE  Spoke(version, resumed, list, f, A)
<1>1. Len(list) \in Nat /\ f \in Nat /\ f <= Len(list)
      /\ \A n \in 1..Len(list) : n \in 1..f \/ n \in (f + 1)..Len(list)
  OBVIOUS
<1>2. \A n \in (f + 1)..Len(list) : ~IsPlain(list[n])
  BY FollowsNotPlain
<1>3. AllOf(list) = A /\ \A n \in f..Len(list) : Got(list)[n] = A
  BY <1>2, NothingMore
<1>4. \A n \in 1..Len(list) : Piece(version, list, S, n)
  <2> SUFFICES ASSUME NEW n \in 1..Len(list) PROVE Piece(version, list, S, n)
    OBVIOUS
  <2>1. CASE n \in 1..f
    BY <2>1 DEF Piece
  <2>2. CASE n \in (f + 1)..Len(list)
    BY <2>2, FollowsNotPlain
  <2> QED
    BY <1>1, <2>1, <2>2
<1>5. ListFits(version, resumed, list)
  BY <1>3, <1>4, PiecesFit DEF TellsOnly
<1> QED
  BY ONLY <1>3, <1>5 DEF Spoke

(* b is one message.                                                        *)
Said(b, m, n, S) ==
    /\ WellFormed(b) /\ MadeOf(b, S) /\ b \in Seq(Units) /\ Len(b) = n
    /\ b[1] = [msg |-> m, part |-> 1, of |-> n]

(* One message is a well-formed list.                                       *)
LEMMA OneMessage ==
    ASSUME NEW m \in Msgs, NEW n \in Nat \ {0}, NEW b, b = Unit(m, n), NEW S, <<m, n>> \in S
    PROVE  Said(b, m, n, S)
<1> DEFINE e == << >>
           c == e \o Unit(m, n)
<1>1. WellFormed(e) /\ MadeOf(e, S) /\ Len(e) = 0
  BY NothingWellFormed
<1>2. b \in Seq(Units) /\ Len(b) = n
  BY UnitHolds
<1>3. << >> \o b = b
  BY <1>2, NothingJoined
<1>4. b = c
  BY <1>3
<1> HIDE DEF e, c
<1>5. b = e \o Unit(m, n)
  BY <1>4 DEF c
<1>6. WellFormed(b) /\ MadeOf(b, S) /\ b[Len(e) + 1] = [msg |-> m, part |-> 1, of |-> n]
  <2>1. Added(e, m, n, b, S)
    BY ONLY <1>1, <1>5, WellFormedAdd, m \in Msgs, n \in Nat \ {0}, <<m, n>> \in S
  <2> QED
    BY ONLY <2>1 DEF Added
<1>7. Len(e) + 1 = 1
  BY ONLY <1>1
<1> QED
  BY ONLY <1>2, <1>6, <1>7 DEF Said

(* One message, and what follows.                                           *)
LEMMA OneSpoken ==
    ASSUME NEW list \in Seq(Records), Len(list) >= 1, NEW m \in Msgs, list[1] = Plain(Unit(m, 1)),
           NEW version, NEW resumed, \A n \in 2..Len(list) : Follows(version, list, n),
           MayTell(version, resumed, m, 1), m # "secret"
    PROVE  ListFits(version, resumed, list)
<1> DEFINE b == Unit(m, 1)
           S == {<<m, 1>>}
<1>1. Len(list) \in Nat /\ 1 \in 1..Len(list) /\ 1 \in 0..Len(list) /\ 1 \in Nat \ {0}
      /\ 1..1 = {1} /\ 1 + 1 = 2
  OBVIOUS
<1>2. b = Unit(m, 1) /\ <<m, 1>> \in S
  OBVIOUS
<1>3. TellsOnly(version, resumed, S)
  BY DEF TellsOnly
<1>4. list[1] = Plain(b)
  OBVIOUS
<1> HIDE DEF b, S
<1>5. WellFormed(b) /\ MadeOf(b, S) /\ b \in Seq(Units)
  <2>1. Said(b, m, 1, S)
    BY ONLY <1>1, <1>2, OneMessage, m \in Msgs
  <2> QED
    BY ONLY <2>1 DEF Said
<1>6. IsPlain(list[1]) /\ list[1].body = b
  BY ONLY <1>4, <1>5, PlainKind
<1>7. Got(list)[1] = b
  BY <1>1, <1>6, GotFirst
<1>8. \A n \in 1..1 : IsPlain(list[n]) /\ MadeOf(list[n].body, S)
  BY ONLY <1>1, <1>5, <1>6
<1>9. \A n \in (1 + 1)..Len(list) : Follows(version, list, n)
  BY ONLY <1>1, \A n \in 2..Len(list) : Follows(version, list, n)
<1> QED
  BY ONLY <1>1, <1>3, <1>5, <1>7, <1>8, <1>9, Spoken, list \in Seq(Records)
          DEF Spoke

(* Two messages in two records.                                             *)
LEMMA TwoSpoken ==
    ASSUME NEW list \in Seq(Records), Len(list) >= 2, NEW m \in Msgs, NEW o \in Msgs,
           list[1] = Plain(Unit(m, 1)), list[2] = Plain(Unit(o, 1)),
           NEW version, NEW resumed, \A n \in 3..Len(list) : Follows(version, list, n),
           MayTell(version, resumed, m, 1), m # "secret",
           MayTell(version, resumed, o, 1), o # "secret"
    PROVE  ListFits(version, resumed, list)
<1> DEFINE b == Unit(m, 1)
           c == Unit(o, 1)
           S == {<<m, 1>>, <<o, 1>>}
           A == b \o c
<1>1. Len(list) \in Nat /\ 1 \in 1..Len(list) /\ 2 \in 1..Len(list) /\ 2 \in 0..Len(list)
      /\ 1 \in Nat \ {0} /\ 1..2 = {1, 2} /\ 2 + 1 = 3 /\ 2 - 1 = 1
  OBVIOUS
<1>2. b = Unit(m, 1) /\ c = Unit(o, 1) /\ <<m, 1>> \in S /\ <<o, 1>> \in S
  OBVIOUS
<1>3. TellsOnly(version, resumed, S)
  BY DEF TellsOnly
<1>4. list[1] = Plain(b) /\ list[2] = Plain(c) /\ A = b \o Unit(o, 1)
  OBVIOUS
<1> HIDE DEF b, c, S
<1>5. WellFormed(b) /\ MadeOf(b, S) /\ b \in Seq(Units) /\ WellFormed(c) /\ MadeOf(c, S)
      /\ c \in Seq(Units)
  <2>1. Said(b, m, 1, S) /\ Said(c, o, 1, S)
    BY ONLY <1>1, <1>2, OneMessage, m \in Msgs, o \in Msgs
  <2> QED
    BY ONLY <2>1 DEF Said
<1>6. IsPlain(list[1]) /\ list[1].body = b /\ IsPlain(list[2]) /\ list[2].body = c
  BY ONLY <1>4, <1>5, PlainKind
<1>7. Got(list)[1] = b
  BY <1>1, <1>6, GotFirst
<1>8. Got(list)[2] = A
  <2>1. Got(list)[2] = Got(list)[2 - 1] \o list[2].body
    BY <1>1, <1>6, GotAt
  <2> QED
    BY ONLY <1>1, <1>6, <1>7, <2>1
<1> HIDE DEF A
<1>9. WellFormed(A) /\ MadeOf(A, S)
  <2>1. Added(b, o, 1, A, S)
    BY ONLY <1>1, <1>2, <1>4, <1>5, WellFormedAdd, o \in Msgs
  <2> QED
    BY ONLY <2>1 DEF Added
<1>10. \A n \in 1..2 : IsPlain(list[n]) /\ MadeOf(list[n].body, S)
  BY ONLY <1>1, <1>5, <1>6
<1>11. \A n \in (2 + 1)..Len(list) : Follows(version, list, n)
  BY ONLY <1>1, \A n \in 3..Len(list) : Follows(version, list, n)
<1> QED
  BY ONLY <1>1, <1>3, <1>8, <1>9, <1>10, <1>11, Spoken, list \in Seq(Records)
          DEF Spoke

(* Two messages, a ChangeCipherSpec between them.                           *)
LEMMA RetrySpoken ==
    ASSUME NEW list \in Seq(Records), Len(list) = 4, NEW m \in Msgs, NEW o \in Msgs,
           list[1] = Plain(Unit(m, 1)), list[2] = Ccs, list[3] = Plain(Unit(o, 1)),
           list[4] = AppData, NEW version, NEW resumed,
           MayTell(version, resumed, m, 1), m # "secret",
           MayTell(version, resumed, o, 1), o # "secret"
    PROVE  /\ ListFits(version, resumed, list)
           /\ Len(AllOf(list)) = 2
           /\ AllOf(list)[1].msg = m /\ AllOf(list)[1].of = 1
           /\ AllOf(list)[2].msg = o /\ AllOf(list)[2].of = 1
           /\ Len(Got(list)[1]) = 1 /\ Len(Got(list)[3]) = 2
<1> DEFINE b == Unit(m, 1)
           c == Unit(o, 1)
           S == {<<m, 1>>, <<o, 1>>}
           A == b \o c
<1>1. /\ Len(list) = 4 /\ 1 \in 1..4 /\ 2 \in 1..4 /\ 3 \in 1..4 /\ 4 \in 1..4
      /\ 1 \in Nat \ {0} /\ 2 - 1 = 1 /\ 3 - 1 = 2 /\ 4 - 1 = 3
  OBVIOUS
<1>2. b = Unit(m, 1) /\ c = Unit(o, 1) /\ <<m, 1>> \in S /\ <<o, 1>> \in S
  OBVIOUS
<1>3. TellsOnly(version, resumed, S)
  BY DEF TellsOnly
<1>4. list[1] = Plain(b) /\ list[3] = Plain(c) /\ A = b \o Unit(o, 1)
  OBVIOUS
<1> HIDE DEF b, c, S
<1>5. /\ WellFormed(b) /\ MadeOf(b, S) /\ b \in Seq(Units) /\ WellFormed(c) /\ MadeOf(c, S)
      /\ c \in Seq(Units) /\ Len(b) = 1 /\ b[1] = [msg |-> m, part |-> 1, of |-> 1]
  <2>1. Said(b, m, 1, S) /\ Said(c, o, 1, S)
    BY ONLY <1>1, <1>2, OneMessage, m \in Msgs, o \in Msgs
  <2> QED
    BY ONLY <2>1 DEF Said
<1>6. /\ IsPlain(list[1]) /\ list[1].body = b /\ IsPlain(list[3]) /\ list[3].body = c
      /\ ~IsPlain(list[2]) /\ ~IsPlain(list[4])
  <2>1. IsPlain(list[1]) /\ list[1].body = b /\ IsPlain(list[3]) /\ list[3].body = c
    BY ONLY <1>4, <1>5, PlainKind
  <2>2. ~IsPlain(list[2]) /\ ~IsPlain(list[4])
    BY Kinds DEF IsPlain
  <2> QED
    BY <2>1, <2>2
<1>7. Got(list)[1] = b
  <2>1. Len(list) >= 1
    OBVIOUS
  <2> QED
    BY ONLY <1>6, <2>1, GotFirst, list \in Seq(Records)
<1>8. Got(list)[2] = b
  <2>1. Got(list)[2] = Got(list)[2 - 1]
    BY <1>1, <1>6, GotAt
  <2> QED
    BY ONLY <1>1, <1>7, <2>1
<1>9. Got(list)[3] = A
  <2>1. Got(list)[3] = Got(list)[3 - 1] \o list[3].body
    BY <1>1, <1>6, GotAt
  <2> QED
    BY ONLY <1>1, <1>6, <1>8, <2>1
<1>10. Got(list)[4] = A
  <2>1. Got(list)[4] = Got(list)[4 - 1]
    BY <1>1, <1>6, GotAt
  <2> QED
    BY ONLY <1>1, <1>9, <2>1
<1>11. AllOf(list) = A
  BY ONLY <1>1, <1>10 DEF AllOf
<1> HIDE DEF A
<1>12. Added(b, o, 1, A, S)
  BY ONLY <1>1, <1>2, <1>4, <1>5, WellFormedAdd, o \in Msgs
<1>13. /\ WellFormed(A) /\ MadeOf(A, S) /\ Len(A) = 2 /\ A[1] = b[1]
       /\ A[2] = [msg |-> o, part |-> 1, of |-> 1]
  <2>1. 1 \in 1..1 /\ 1 + 1 = 2
    OBVIOUS
  <2> QED
    BY ONLY <1>5, <1>12, <2>1 DEF Added
<1>14. A[1].msg = m /\ A[1].of = 1 /\ A[2].msg = o /\ A[2].of = 1
  BY ONLY <1>5, <1>13
<1>15. \A n \in 1..Len(list) : Piece(version, list, S, n)
  <2>1. Piece(version, list, S, 1) /\ Piece(version, list, S, 3)
    BY ONLY <1>5, <1>6 DEF Piece
  <2>2. Piece(version, list, S, 2) /\ Piece(version, list, S, 4)
    BY ONLY list[2] = Ccs, list[4] = AppData DEF Piece
  <2>3. \A n \in 1..4 : n = 1 \/ n = 2 \/ n = 3 \/ n = 4
    OBVIOUS
  <2> QED
    BY ONLY <1>1, <2>1, <2>2, <2>3
<1>16. ListFits(version, resumed, list)
  BY ONLY <1>3, <1>11, <1>13, <1>15, PiecesFit, list \in Seq(Records) DEF TellsOnly
<1> QED
  BY ONLY <1>5, <1>7, <1>9, <1>11, <1>13, <1>14, <1>16

(* The server's records with a HelloRetryRequest fit.                       *)
LEMMA RetryFits ==
    ASSUME NEW list \in Seq(Records), Len(list) = 4, list[1] = Plain(Unit("HRR", 1)),
           list[2] = Ccs, list[3] = Plain(Unit("SH13", 1)), list[4] = AppData, NEW family
    PROVE  ListFits("SH13", FALSE, list) /\ ServerFits("SH13", FALSE, family, list)
<1> DEFINE m == "HRR"
           o == "SH13"
           A == AllOf(list)
           G == Got(list)
<1>1. /\ m \in Msgs /\ o \in Msgs /\ m = "HRR" /\ o = "SH13" /\ o \in ServerHellos
      /\ m \notin ServerHellos
      /\ MayTell("SH13", FALSE, m, 1) /\ m # "secret"
      /\ MayTell("SH13", FALSE, o, 1) /\ o # "secret"
  BY DEF Msgs, ServerHellos, MayTell
<1>2. list[1] = Plain(Unit(m, 1)) /\ list[3] = Plain(Unit(o, 1))
  OBVIOUS
<1> HIDE DEF m, o
<1>3. /\ ListFits("SH13", FALSE, list) /\ Len(A) = 2
      /\ A[1].msg = m /\ A[1].of = 1 /\ A[2].msg = o /\ A[2].of = 1
      /\ Len(G[1]) = 1 /\ Len(G[3]) = 2
  BY ONLY <1>1, <1>2, RetrySpoken, list \in Seq(Records), Len(list) = 4, list[2] = Ccs,
          list[4] = AppData
<1>4. list[1].body = Unit(m, 1) /\ list[1].type = "handshake" /\ list[3].type = "handshake"
      /\ list[2].type = "ccs" /\ list[2].body = << >> /\ list[4].type = "appdata"
      /\ list[4].body = << >>
  BY <1>2, Kinds DEF Plain, Record
<1>5. \A i \in 1..Len(list[1].body) : list[1].body[i].msg = "HRR"
  <2> DEFINE b == Unit(m, 1)
  <2>1. b \in Seq(Units) /\ Len(b) = 1 /\ b[1] = [msg |-> m, part |-> 1, of |-> 1]
    BY <1>1, OneUnit
  <2>2. list[1].body = b
    BY <1>4
  <2> HIDE DEF b
  <2>3. \A i \in 1..1 : i = 1
    OBVIOUS
  <2>4. b[1].msg = "HRR"
    BY ONLY <1>1, <2>1
  <2>5. \A i \in 1..Len(b) : i = 1
    BY ONLY <2>1, <2>3
  <2> QED
    BY ONLY <2>2, <2>4, <2>5
<1>6. HelloIn(A, 2) /\ RetryIn(A, 1)
  BY <1>1, <1>3 DEF HelloIn, RetryIn
<1> HIDE DEF A, G
<1>7. ASSUME NEW n \in 1..Len(list)
      PROVE  /\ list[n].type = "appdata" => HelloIn(A, Len(G[n - 1]))
             /\ list[n].type = "ccs" => HelloIn(A, Len(G[n - 1])) \/ RetryIn(A, Len(G[n - 1]))
             /\ (\E i \in 1..Len(list[n].body) : list[n].body[i].msg \in ServerHellos)
                => HelloIn(A, Len(G[n]))
  <2>1. n = 1 \/ n = 2 \/ n = 3 \/ n = 4
    OBVIOUS
  <2>2. CASE n = 1
    BY <1>4, <1>5, <2>2 DEF ServerHellos
  <2>3. CASE n = 2
    <3>1. n - 1 = 1 /\ 1..Len(<< >>) = {}
      BY <2>3
    <3> QED
      BY ONLY <1>3, <1>4, <1>6, <2>3, <3>1
  <2>4. CASE n = 3
    BY ONLY <1>3, <1>4, <1>6, <2>4
  <2>5. CASE n = 4
    <3>1. n - 1 = 3 /\ 1..Len(<< >>) = {}
      BY <2>5
    <3> QED
      BY ONLY <1>3, <1>4, <1>6, <2>5, <3>1
  <2> QED
    BY <2>1, <2>2, <2>3, <2>4, <2>5
<1>8. ServerFits("SH13", FALSE, family, list)
  BY <1>7 DEF ServerFits, A, G
<1> QED
  BY <1>3, <1>8

(* A server's flight of TLS 1.2.                                            *)
Said12 == {<<"SH12", 1>>, <<"CERT", 2>>, <<"CERT", 3>>, <<"SKE", 1>>, <<"SHD", 1>>, <<"NST", 2>>}

(* A full TLS 1.2 server flight.                                            *)
Flight(A, family) ==
    /\ WellFormed(A) /\ MadeOf(A, Said12) /\ Len(A) >= 2
    /\ A[1].msg = "SH12" /\ A[1].of = 1
    /\ family # "ANON" => A[2].msg = "CERT"

(* What a full TLS 1.2 server flight may say fits TLS 1.2.                  *)
LEMMA Said12Tells == TellsOnly("SH12", FALSE, Said12)
BY DEF TellsOnly, Said12, MayTell, ServerHellos

(* A server flight, however cut into records, and its tail fit.             *)
LEMMA FlightFits ==
    ASSUME NEW list \in Seq(Records), NEW A, NEW family, Flight(A, family),
           NEW f \in 1..Len(list), Got(list)[f] = A,
           \A n \in 1..f : IsPlain(list[n]) /\ MadeOf(list[n].body, Said12),
           \A n \in (f + 1)..Len(list) : Follows("SH12", list, n),
           Len(list[1].body) >= 1, list[1].body[1] = A[1]
    PROVE  ListFits("SH12", FALSE, list) /\ ServerFits("SH12", FALSE, family, list)
<1>1. Len(list) \in Nat /\ f \in 0..Len(list) /\ f \in Nat /\ Len(list) >= 1 /\ 1 \in 1..f
  OBVIOUS
<1>2. WellFormed(A) /\ MadeOf(A, Said12) /\ Len(A) >= 2 /\ A[1].msg = "SH12" /\ A[1].of = 1
      /\ A \in Seq(Units) /\ Len(A) \in Nat /\ (family # "ANON" => A[2].msg = "CERT")
  BY DEF Flight, WellFormed
<1>3. /\ ListFits("SH12", FALSE, list) /\ AllOf(list) = A
      /\ \A n \in f..Len(list) : Got(list)[n] = A
  <2>1. A = Got(list)[f]
    OBVIOUS
  <2>2. Spoke("SH12", FALSE, list, f, A)
    BY ONLY <1>1, <1>2, <2>1, Spoken, Said12Tells, list \in Seq(Records),
            \A n \in 1..f : IsPlain(list[n]) /\ MadeOf(list[n].body, Said12),
            \A n \in (f + 1)..Len(list) : Follows("SH12", list, n)
  <2> QED
    BY ONLY <2>2 DEF Spoke
<1>4. IsPlain(list[1]) /\ list[1].body[1].msg \in ServerHellos /\ list[1].body[1].of = 1
  BY <1>1, <1>2 DEF ServerHellos
<1>5. ASSUME family # "ANON", NEW n \in 1..Len(list), list[n].type = "ccs"
      PROVE  CertificateIn(AllOf(list), Len(Got(list)[n - 1]))
  <2>1. n \notin 1..f
    BY <1>5 DEF IsPlain
  <2>2. n - 1 \in f..Len(list)
    BY <1>1, <2>1
  <2>3. Got(list)[n - 1] = A
    BY <1>3, <2>2
  <2>4. A[2].part = 1
    <3>1. 1 \in 1..Len(A) /\ 1 + A[1].of = 2 /\ A[1].part = 1
      BY <1>2 DEF WellFormed
    <3> QED
      BY <1>2, <3>1 DEF WellFormed
  <2>5. 2 \in 1..Len(A) /\ A[2] \in Units
    BY <1>2
  <2>6. 2 + A[2].of - 1 <= Len(A) /\ A[2].of \in Nat
    BY <1>2, <2>4, <2>5 DEF WellFormed, LiesAt, Units
  <2>7. Len(A) >= 1 + A[2].of
    BY ONLY <1>2, <2>6
  <2> QED
    BY <1>2, <1>3, <1>5, <2>3, <2>7 DEF CertificateIn
<1>6. ServerFits("SH12", FALSE, family, list)
  BY <1>1, <1>4, <1>5, HelloFirstFits
<1> QED
  BY <1>3, <1>6

(* The flight in one record, in two, in three.                              *)
LEMMA OneRecord ==
    ASSUME NEW list \in Seq(Records), NEW A, NEW family, Flight(A, family), Len(list) >= 1,
           list[1] = Plain(A), \A n \in 2..Len(list) : Follows("SH12", list, n)
    PROVE  ListFits("SH12", FALSE, list) /\ ServerFits("SH12", FALSE, family, list)
<1>1. A \in Seq(Units) /\ MadeOf(A, Said12) /\ Len(A) >= 2 /\ Len(A) \in Nat
  BY DEF Flight, WellFormed
<1>2. IsPlain(list[1]) /\ list[1].body = A
  BY <1>1, PlainKind
<1>3. Got(list)[1] = A
  BY <1>2, GotFirst
<1>4. \A n \in 1..1 : IsPlain(list[n]) /\ MadeOf(list[n].body, Said12)
  <2>1. \A n \in 1..1 : n = 1
    OBVIOUS
  <2> QED
    BY ONLY <1>1, <1>2, <2>1
<1>5. 1 \in 1..Len(list) /\ 1 + 1 = 2 /\ Len(A) >= 1
  BY <1>1
<1>6. \A n \in (1 + 1)..Len(list) : Follows("SH12", list, n)
  BY <1>5
<1> QED
  BY <1>2, <1>3, <1>4, <1>5, <1>6, FlightFits

(* A flight cut in two.                                                     *)
LEMMA TwoRecords ==
    ASSUME NEW list \in Seq(Records), NEW A, NEW family, Flight(A, family), Len(list) >= 2,
           list[1] = Plain(SubSeq(A, 1, 2)), list[2] = Plain(SubSeq(A, 3, Len(A))),
           \A n \in 3..Len(list) : Follows("SH12", list, n)
    PROVE  ListFits("SH12", FALSE, list) /\ ServerFits("SH12", FALSE, family, list)
<1> DEFINE a == Len(A)
           p == SubSeq(A, 1, 2)
           q == SubSeq(A, 3, a)
<1>1. A \in Seq(Units) /\ MadeOf(A, Said12) /\ a >= 2 /\ a \in Nat /\ a = Len(A)
  BY DEF Flight, WellFormed
<1>2. p \in Seq(Units) /\ MadeOf(p, Said12) /\ Len(p) = 2 /\ p[1] = A[1]
  <2>1. 1 \in 1..(Len(A) + 1) /\ 2 \in Nat /\ 2 >= 1 - 1 /\ 2 <= Len(A) /\ 2 - 1 + 1 = 2
        /\ 1 \in 1..2 /\ 1 + 1 - 1 = 1
    BY <1>1
  <2>2. p \in Seq(Units) /\ Len(p) = 2 - 1 + 1 /\ MadeOf(p, Said12)
        /\ \A k \in 1..(2 - 1 + 1) : p[k] = A[1 + k - 1]
    <3>1. PartTaken(A, Said12, 1, 2, p)
      BY <1>1, <2>1, PartMade
    <3> QED
      BY ONLY <3>1 DEF PartTaken
  <2> HIDE DEF p
  <2>3. p[1] = A[1 + 1 - 1]
    BY ONLY <2>1, <2>2
  <2> QED
    BY ONLY <2>1, <2>2, <2>3
<1>3. q \in Seq(Units) /\ MadeOf(q, Said12)
  <2>1. 3 \in 1..(Len(A) + 1) /\ a \in Nat /\ a >= 3 - 1 /\ a <= Len(A)
    BY <1>1
  <2>2. PartTaken(A, Said12, 3, a, q)
    BY <1>1, <2>1, PartMade
  <2> QED
    BY ONLY <2>2 DEF PartTaken
<1>4. p \o q = A
  <2>1. 1 \in 1..(Len(A) + 1) /\ 2 \in Nat /\ 2 >= 1 - 1 /\ a >= 2 /\ a <= Len(A) /\ 2 + 1 = 3
    BY <1>1
  <2>2. SubSeq(A, 1, 2) \o SubSeq(A, 2 + 1, a) = SubSeq(A, 1, a)
    BY <1>1, <2>1, PartsJoined
  <2>3. SubSeq(A, 1, a) = A
    BY <1>1, WholePart
  <2> QED
    BY <2>1, <2>2, <2>3
<1>5. list[1] = Plain(p) /\ list[2] = Plain(q)
  OBVIOUS
<1> HIDE DEF p, q
<1>6. IsPlain(list[1]) /\ list[1].body = p /\ IsPlain(list[2]) /\ list[2].body = q
  BY ONLY <1>2, <1>3, <1>5, PlainKind
<1>7. 1 \in 1..Len(list) /\ 2 \in 1..Len(list) /\ 2 - 1 = 1 /\ Len(list) >= 1 /\ 2 + 1 = 3
  OBVIOUS
<1>8. Got(list)[1] = p
  BY <1>6, <1>7, GotFirst
<1>9. Got(list)[2] = A
  <2>1. Got(list)[2] = Got(list)[2 - 1] \o list[2].body
    BY <1>6, <1>7, GotAt
  <2> QED
    BY ONLY <1>4, <1>6, <1>7, <1>8, <2>1
<1>10. \A n \in 1..2 : IsPlain(list[n]) /\ MadeOf(list[n].body, Said12)
  <2>1. \A n \in 1..2 : n = 1 \/ n = 2
    OBVIOUS
  <2> QED
    BY ONLY <1>2, <1>3, <1>6, <2>1
<1>11. Len(list[1].body) >= 1 /\ list[1].body[1] = A[1]
  <2>1. Len(p) >= 1 /\ p[1] = A[1]
    BY ONLY <1>2
  <2> QED
    BY ONLY <1>6, <2>1
<1>12. \A n \in (2 + 1)..Len(list) : Follows("SH12", list, n)
  BY <1>7
<1> QED
  BY <1>7, <1>9, <1>10, <1>11, <1>12, FlightFits

(* A flight cut in three.                                                   *)
LEMMA ThreeRecords ==
    ASSUME NEW list \in Seq(Records), NEW A, NEW family, Flight(A, family), Len(list) >= 3,
           Len(A) = 8,
           list[1] = Plain(SubSeq(A, 1, 2)), list[2] = Plain(SubSeq(A, 3, 6)),
           list[3] = Plain(SubSeq(A, 7, 8)),
           \A n \in 4..Len(list) : Follows("SH12", list, n)
    PROVE  ListFits("SH12", FALSE, list) /\ ServerFits("SH12", FALSE, family, list)
<1> DEFINE p == SubSeq(A, 1, 2)
           q == SubSeq(A, 3, 6)
           r == SubSeq(A, 7, 8)
           s == SubSeq(A, 1, 6)
<1>1. A \in Seq(Units) /\ MadeOf(A, Said12) /\ Len(A) = 8
  BY DEF Flight, WellFormed
<1>2. p \in Seq(Units) /\ MadeOf(p, Said12) /\ Len(p) = 2 /\ p[1] = A[1]
  <2>1. 1 \in 1..(Len(A) + 1) /\ 2 \in Nat /\ 2 >= 1 - 1 /\ 2 <= Len(A) /\ 2 - 1 + 1 = 2
        /\ 1 \in 1..2 /\ 1 + 1 - 1 = 1
    BY <1>1
  <2>2. p \in Seq(Units) /\ Len(p) = 2 - 1 + 1 /\ MadeOf(p, Said12)
        /\ \A k \in 1..(2 - 1 + 1) : p[k] = A[1 + k - 1]
    <3>1. PartTaken(A, Said12, 1, 2, p)
      BY <1>1, <2>1, PartMade
    <3> QED
      BY ONLY <3>1 DEF PartTaken
  <2> HIDE DEF p
  <2>3. p[1] = A[1 + 1 - 1]
    BY ONLY <2>1, <2>2
  <2> QED
    BY ONLY <2>1, <2>2, <2>3
<1>3. q \in Seq(Units) /\ MadeOf(q, Said12)
  <2>1. 3 \in 1..(Len(A) + 1) /\ 6 \in Nat /\ 6 >= 3 - 1 /\ 6 <= Len(A)
    BY <1>1
  <2>2. PartTaken(A, Said12, 3, 6, q)
    BY <1>1, <2>1, PartMade
  <2> QED
    BY ONLY <2>2 DEF PartTaken
<1>4. r \in Seq(Units) /\ MadeOf(r, Said12)
  <2>1. 7 \in 1..(Len(A) + 1) /\ 8 \in Nat /\ 8 >= 7 - 1 /\ 8 <= Len(A)
    BY <1>1
  <2>2. PartTaken(A, Said12, 7, 8, r)
    BY <1>1, <2>1, PartMade
  <2> QED
    BY ONLY <2>2 DEF PartTaken
<1>5. p \o q = s
  <2>1. 1 \in 1..(Len(A) + 1) /\ 2 \in Nat /\ 2 >= 1 - 1 /\ 6 \in Nat /\ 6 >= 2 /\ 6 <= Len(A)
        /\ 2 + 1 = 3
    BY <1>1
  <2>2. SubSeq(A, 1, 2) \o SubSeq(A, 2 + 1, 6) = SubSeq(A, 1, 6)
    BY <1>1, <2>1, PartsJoined
  <2> QED
    BY <2>1, <2>2
<1>6. s \o r = A
  <2>1. 1 \in 1..(Len(A) + 1) /\ 6 \in Nat /\ 6 >= 1 - 1 /\ 8 \in Nat /\ 8 >= 6 /\ 8 <= Len(A)
        /\ 6 + 1 = 7
    BY <1>1
  <2>2. SubSeq(A, 1, 6) \o SubSeq(A, 6 + 1, 8) = SubSeq(A, 1, 8)
    BY <1>1, <2>1, PartsJoined
  <2>3. SubSeq(A, 1, 8) = A
    BY <1>1, WholePart
  <2> QED
    BY <2>1, <2>2, <2>3
<1>7. list[1] = Plain(p) /\ list[2] = Plain(q) /\ list[3] = Plain(r)
  OBVIOUS
<1> HIDE DEF p, q, r, s
<1>8. /\ IsPlain(list[1]) /\ list[1].body = p /\ IsPlain(list[2]) /\ list[2].body = q
      /\ IsPlain(list[3]) /\ list[3].body = r
  BY ONLY <1>2, <1>3, <1>4, <1>7, PlainKind
<1>9. 1 \in 1..Len(list) /\ 2 \in 1..Len(list) /\ 3 \in 1..Len(list) /\ 2 - 1 = 1 /\ 3 - 1 = 2
      /\ Len(list) >= 1 /\ 3 + 1 = 4
  OBVIOUS
<1>10. Got(list)[1] = p
  BY <1>8, <1>9, GotFirst
<1>11. Got(list)[2] = s
  <2>1. Got(list)[2] = Got(list)[2 - 1] \o list[2].body
    BY <1>8, <1>9, GotAt
  <2> QED
    BY ONLY <1>5, <1>8, <1>9, <1>10, <2>1
<1>12. Got(list)[3] = A
  <2>1. Got(list)[3] = Got(list)[3 - 1] \o list[3].body
    BY <1>8, <1>9, GotAt
  <2> QED
    BY ONLY <1>6, <1>8, <1>9, <1>11, <2>1
<1>13. \A n \in 1..3 : IsPlain(list[n]) /\ MadeOf(list[n].body, Said12)
  <2>1. \A n \in 1..3 : n = 1 \/ n = 2 \/ n = 3
    OBVIOUS
  <2> QED
    BY ONLY <1>2, <1>3, <1>4, <1>8, <2>1
<1>14. Len(list[1].body) >= 1 /\ list[1].body[1] = A[1]
  <2>1. Len(p) >= 1 /\ p[1] = A[1]
    BY ONLY <1>2
  <2> QED
    BY ONLY <1>8, <2>1
<1>15. \A n \in (3 + 1)..Len(list) : Follows("SH12", list, n)
  BY <1>9
<1> QED
  BY <1>9, <1>12, <1>13, <1>14, <1>15, FlightFits

(* One more message, or none.                                               *)
LEMMA LongerFlight ==
    ASSUME NEW A, WellFormed(A), MadeOf(A, Said12), NEW m \in Msgs, NEW n \in Nat \ {0},
           <<m, n>> \in Said12, NEW B, B = A \o Unit(m, n)
    PROVE  Added(A, m, n, B, Said12)
BY WellFormedAdd

(* The flights of the full TLS 1.2 scenarios.                               *)
LEMMA Flight12 ==
    ASSUME NEW c \in BOOLEAN, NEW k \in BOOLEAN, NEW family, family # "ANON" => c, c \/ k,
           NEW A, A = Unit("SH12", 1) \o (IF c THEN Unit("CERT", 2) ELSE << >>)
                      \o (IF k THEN Unit("SKE", 1) ELSE << >>) \o Unit("SHD", 1)
    PROVE  Flight(A, family)
<1> DEFINE a == Unit("SH12", 1)
           b == a \o (IF c THEN Unit("CERT", 2) ELSE << >>)
           e == b \o (IF k THEN Unit("SKE", 1) ELSE << >>)
<1>1. /\ "SH12" \in Msgs /\ "CERT" \in Msgs /\ "SKE" \in Msgs /\ "SHD" \in Msgs
      /\ <<"SH12", 1>> \in Said12 /\ <<"CERT", 2>> \in Said12 /\ <<"SKE", 1>> \in Said12
      /\ <<"SHD", 1>> \in Said12 /\ 1 \in Nat \ {0} /\ 2 \in Nat \ {0}
  BY DEF Msgs, Said12
<1>2. A = e \o Unit("SHD", 1)
  OBVIOUS
<1>3. /\ c => b = a \o Unit("CERT", 2)
      /\ ~c => b = a \o << >>
      /\ k => e = b \o Unit("SKE", 1)
      /\ ~k => e = b \o << >>
      /\ a = Unit("SH12", 1)
  OBVIOUS
<1> HIDE DEF a, b, e
<1>4. /\ WellFormed(a) /\ MadeOf(a, Said12) /\ a \in Seq(Units) /\ Len(a) = 1
      /\ a[1] = [msg |-> "SH12", part |-> 1, of |-> 1]
  <2>1. Said(a, "SH12", 1, Said12)
    BY ONLY <1>1, <1>3, OneMessage
  <2> QED
    BY ONLY <2>1 DEF Said
<1>5. /\ WellFormed(b) /\ MadeOf(b, Said12) /\ b \in Seq(Units) /\ Len(b) >= 1 /\ Len(b) \in Nat
      /\ b[1] = a[1] /\ (c => Len(b) = 3 /\ b[2].msg = "CERT")
  <2>1. CASE c
    <3>1. Added(a, "CERT", 2, b, Said12)
      BY ONLY <1>1, <1>3, <1>4, <2>1, LongerFlight
    <3>2. WellFormed(b) /\ MadeOf(b, Said12) /\ b \in Seq(Units)
      BY ONLY <3>1 DEF Added, WellFormed
    <3>3. Len(b) = 1 + 2 /\ b[1 + 1] = [msg |-> "CERT", part |-> 1, of |-> 2]
      BY ONLY <1>4, <3>1 DEF Added
    <3>4. 1 + 2 = 3 /\ 1 + 1 = 2 /\ 3 >= 1 /\ 3 \in Nat /\ 1 \in 1..1
      OBVIOUS
    <3>5. b[1] = a[1]
      BY ONLY <1>4, <3>1, <3>4 DEF Added
    <3>6. Len(b) = 3 /\ b[2] = [msg |-> "CERT", part |-> 1, of |-> 2]
      BY ONLY <3>3, <3>4
    <3>7. b[2].msg = "CERT"
      BY ONLY <3>6
    <3> QED
      BY ONLY <3>2, <3>4, <3>5, <3>6, <3>7
  <2>2. CASE ~c
    <3>1. a \o << >> = a
      BY ONLY <1>4, NothingJoined
    <3>2. b = a
      BY ONLY <1>3, <2>2, <3>1
    <3>3. 1 >= 1 /\ 1 \in Nat
      OBVIOUS
    <3> QED
      BY ONLY <1>4, <2>2, <3>2, <3>3
  <2> QED
    BY ONLY <2>1, <2>2
<1>6. /\ WellFormed(e) /\ MadeOf(e, Said12) /\ e \in Seq(Units) /\ Len(e) >= Len(b)
      /\ Len(e) \in Nat /\ e[1] = b[1] /\ (c => e[2] = b[2]) /\ (k => Len(e) = Len(b) + 1)
  <2>1. CASE k
    <3>1. Added(b, "SKE", 1, e, Said12)
      BY ONLY <1>1, <1>3, <1>5, <2>1, LongerFlight
    <3>2. WellFormed(e) /\ MadeOf(e, Said12) /\ e \in Seq(Units)
      BY ONLY <3>1 DEF Added, WellFormed
    <3>3. Len(e) = Len(b) + 1 /\ \A i \in 1..Len(b) : e[i] = b[i]
      BY ONLY <3>1 DEF Added
    <3>4. 1 \in 1..Len(b) /\ Len(e) \in Nat /\ Len(e) >= Len(b)
      BY ONLY <1>5, <3>3
    <3>5. c => 2 \in 1..Len(b)
      <4>1. 2 \in 1..3
        OBVIOUS
      <4> QED
        BY ONLY <1>5, <4>1
    <3> QED
      BY ONLY <3>2, <3>3, <3>4, <3>5
  <2>2. CASE ~k
    <3>1. b \o << >> = b
      BY ONLY <1>5, NothingJoined
    <3>2. e = b
      BY ONLY <1>3, <2>2, <3>1
    <3>3. Len(b) >= Len(b)
      BY ONLY <1>5
    <3> QED
      BY ONLY <1>5, <2>2, <3>2, <3>3
  <2> QED
    BY ONLY <2>1, <2>2
<1>7. Added(e, "SHD", 1, A, Said12)
  BY ONLY <1>1, <1>2, <1>6, LongerFlight
<1>8. WellFormed(A) /\ MadeOf(A, Said12) /\ Len(A) = Len(e) + 1 /\ \A i \in 1..Len(e) : A[i] = e[i]
  BY ONLY <1>7 DEF Added
<1>9. 1 \in 1..Len(e) /\ Len(A) >= 2 /\ (c => 2 \in 1..Len(e))
  BY ONLY <1>5, <1>6, <1>8
<1>10. A[1] = [msg |-> "SH12", part |-> 1, of |-> 1] /\ (c => A[2].msg = "CERT")
  BY ONLY <1>4, <1>5, <1>6, <1>8, <1>9
<1>11. A[1].msg = "SH12" /\ A[1].of = 1
  BY ONLY <1>10
<1>12. family # "ANON" => A[2].msg = "CERT"
  BY ONLY <1>10, family # "ANON" => c
<1> QED
  BY ONLY <1>8, <1>9, <1>11, <1>12 DEF Flight

(* The long flight, whose certificate spans records.                        *)
LEMMA FlightLarge ==
    ASSUME NEW A, A = Unit("SH12", 1) \o Unit("CERT", 3) \o Unit("SKE", 1) \o Unit("SHD", 1)
                      \o Unit("NST", 2)
    PROVE  Flight(A, "ECDHE") /\ Len(A) = 8
<1> DEFINE a == Unit("SH12", 1)
           b == a \o Unit("CERT", 3)
           c == b \o Unit("SKE", 1)
           e == c \o Unit("SHD", 1)
<1>1. /\ "SH12" \in Msgs /\ "CERT" \in Msgs /\ "SKE" \in Msgs /\ "SHD" \in Msgs /\ "NST" \in Msgs
      /\ <<"SH12", 1>> \in Said12 /\ <<"CERT", 3>> \in Said12 /\ <<"SKE", 1>> \in Said12
      /\ <<"SHD", 1>> \in Said12 /\ <<"NST", 2>> \in Said12
      /\ 1 \in Nat \ {0} /\ 2 \in Nat \ {0} /\ 3 \in Nat \ {0}
  BY DEF Msgs, Said12
<1>2. /\ A = e \o Unit("NST", 2) /\ e = c \o Unit("SHD", 1) /\ c = b \o Unit("SKE", 1)
      /\ b = a \o Unit("CERT", 3) /\ a = Unit("SH12", 1)
  OBVIOUS
<1> HIDE DEF a, b, c, e
<1>3. /\ WellFormed(a) /\ MadeOf(a, Said12) /\ Len(a) = 1
      /\ a[1] = [msg |-> "SH12", part |-> 1, of |-> 1]
  <2>1. Said(a, "SH12", 1, Said12)
    BY ONLY <1>1, <1>2, OneMessage
  <2> QED
    BY ONLY <2>1 DEF Said
<1>4. 1 + 3 = 4 /\ 4 + 1 = 5 /\ 5 + 1 = 6 /\ 6 + 2 = 8 /\ 1 + 1 = 2
  OBVIOUS
<1>5. 1 \in 1..1 /\ \A i \in {1, 2} : i \in 1..4 /\ i \in 1..5 /\ i \in 1..6
  OBVIOUS
<1>6. /\ WellFormed(b) /\ MadeOf(b, Said12) /\ Len(b) = 4 /\ b[1] = a[1]
      /\ b[2] = [msg |-> "CERT", part |-> 1, of |-> 3]
  <2>1. Added(a, "CERT", 3, b, Said12)
    BY ONLY <1>1, <1>2, <1>3, LongerFlight
  <2> QED
    BY ONLY <1>3, <1>4, <1>5, <2>1 DEF Added
<1>7. WellFormed(c) /\ MadeOf(c, Said12) /\ Len(c) = 5 /\ c[1] = b[1] /\ c[2] = b[2]
  <2>1. Added(b, "SKE", 1, c, Said12)
    BY ONLY <1>1, <1>2, <1>6, LongerFlight
  <2> QED
    BY ONLY <1>6, <1>4, <1>5, <2>1 DEF Added
<1>8. WellFormed(e) /\ MadeOf(e, Said12) /\ Len(e) = 6 /\ e[1] = c[1] /\ e[2] = c[2]
  <2>1. Added(c, "SHD", 1, e, Said12)
    BY ONLY <1>1, <1>2, <1>7, LongerFlight
  <2> QED
    BY ONLY <1>7, <1>4, <1>5, <2>1 DEF Added
<1>9. WellFormed(A) /\ MadeOf(A, Said12) /\ Len(A) = 8 /\ A[1] = e[1] /\ A[2] = e[2]
  <2>1. Added(e, "NST", 2, A, Said12)
    BY ONLY <1>1, <1>2, <1>8, LongerFlight
  <2> QED
    BY ONLY <1>8, <1>4, <1>5, <2>1 DEF Added
<1>10. A[1] = [msg |-> "SH12", part |-> 1, of |-> 1]
       /\ A[2] = [msg |-> "CERT", part |-> 1, of |-> 3]
  BY ONLY <1>3, <1>6, <1>7, <1>8, <1>9
<1>11. A[1].msg = "SH12" /\ A[1].of = 1 /\ A[2].msg = "CERT"
  BY ONLY <1>10
<1>12. 8 >= 2
  OBVIOUS
<1> QED
  BY ONLY <1>9, <1>11, <1>12 DEF Flight

(* Lists of records.                                                        *)
LEMMA SaidPlain ==
    ASSUME NEW m \in Msgs, NEW n \in Nat \ {0}
    PROVE  Plain(Unit(m, n)) \in Records
<1>1. Unit(m, n) \in Seq(Units)
  BY UnitHolds
<1> QED
  BY ONLY <1>1, PlainKind

(* list is flight and three records that follow it.                         *)
Tailed(flight, list, f) ==
    /\ list \in Seq(Records) /\ Len(list) = f + 3
    /\ \A i \in 1..f : list[i] = flight[i]
    /\ \A n \in (f + 1)..Len(list) : Follows("SH12", list, n)

(* ChangeCipherSpec, Finished and application data after a flight.          *)
LEMMA TailAdded ==
    ASSUME NEW flight \in Seq(Records), NEW list, list = flight \o << Ccs, Finished, AppData >>,
           NEW f, f = Len(flight)
    PROVE  Tailed(flight, list, f)
<1> DEFINE tail == << Ccs, Finished, AppData >>
<1>1. tail \in Seq(Records) /\ Len(tail) = 3 /\ tail[1] = Ccs /\ tail[2] = Finished
      /\ tail[3] = AppData
  BY Kinds
<1>2. list = flight \o tail
  OBVIOUS
<1> HIDE DEF tail
<1>3. /\ flight \o tail \in Seq(Records) /\ Len(flight \o tail) = Len(flight) + Len(tail)
      /\ \A i \in 1..(Len(flight) + Len(tail)) :
            (flight \o tail)[i] = IF i <= Len(flight) THEN flight[i] ELSE tail[i - Len(flight)]
  BY ONLY <1>1, Joined, flight \in Seq(Records)
<1>4. /\ list \in Seq(Records) /\ Len(list) = f + 3
      /\ \A i \in 1..(f + 3) : list[i] = IF i <= f THEN flight[i] ELSE tail[i - f]
  BY ONLY <1>1, <1>2, <1>3, f = Len(flight)
<1>5. f \in Nat
  OBVIOUS
<1>6. \A i \in 1..f : list[i] = flight[i]
  <2>1. \A i \in 1..f : i \in 1..(f + 3) /\ i <= f
    BY ONLY <1>5
  <2> QED
    BY ONLY <1>4, <2>1
<1>7. list[f + 1] = Ccs /\ list[f + 2] = Finished /\ list[f + 3] = AppData
  <2>1. \A k \in 1..3 : f + k \in 1..(f + 3) /\ ~(f + k <= f) /\ (f + k) - f = k
    BY ONLY <1>5
  <2>2. \A k \in 1..3 : list[f + k] = tail[k]
    BY ONLY <1>4, <2>1
  <2>3. 1 \in 1..3 /\ 2 \in 1..3 /\ 3 \in 1..3
    OBVIOUS
  <2> QED
    BY ONLY <1>1, <2>2, <2>3
<1>8. Follows("SH12", list, f + 1) /\ Follows("SH12", list, f + 3)
  BY ONLY <1>7 DEF Follows
<1>9. Follows("SH12", list, f + 2)
  <2>1. f + 2 > 1 /\ (f + 2) - 1 = f + 1
    BY ONLY <1>5
  <2>2. list[(f + 2) - 1] = Ccs
    BY ONLY <1>7, <2>1
  <2> QED
    BY ONLY <1>7, <2>1, <2>2 DEF Follows
<1>10. \A n \in (f + 1)..(f + 3) : n = f + 1 \/ n = f + 2 \/ n = f + 3
  BY ONLY <1>5
<1>11. \A n \in (f + 1)..Len(list) : Follows("SH12", list, n)
  BY ONLY <1>4, <1>8, <1>9, <1>10
<1> QED
  BY ONLY <1>4, <1>6, <1>11 DEF Tailed

(* The key exchanges of the scenarios.                                      *)
Families == {None, "ECDHE", "RSA", "ANON", "unregistered", "EPHEMERAL", "PSK", "PSK_EPHEMERAL"}

(* What every proof about a session needs of what its peers do.             *)
Proper(sc) ==
    /\ sc.version \in {None} \cup ServerHellos /\ sc.resumed \in BOOLEAN
    /\ sc.family \in Families
    /\ sc.version = "SH13" => sc.family \in {"ECDHE", "EPHEMERAL", "PSK", "PSK_EPHEMERAL"}
    /\ sc.sends \in [Directions -> Seq(Records)]
    /\ \A d \in Directions : ListFits(sc.version, sc.resumed, sc.sends[d])
    /\ ListFits(None, sc.resumed, sc.sends["client"])
    /\ ServerFits(sc.version, sc.resumed, sc.family, sc.sends["server"])

(* A scenario whose lists fit is proper.                                    *)
LEMMA ProperMade ==
    ASSUME NEW version \in {None} \cup ServerHellos, NEW family \in Families,
           NEW resumed \in BOOLEAN,
           version = "SH13" => family \in {"ECDHE", "EPHEMERAL", "PSK", "PSK_EPHEMERAL"},
           NEW hello, NEW client, NEW server, NEW cw, NEW sw,
           ListFits(version, resumed, client), ListFits(version, resumed, server),
           ListFits(None, resumed, client),
           ServerFits(version, resumed, family, server),
           NEW sc, sc = Scenario(version, family, resumed, hello, client, cw, server, sw)
    PROVE  Proper(sc)
<1>1. /\ sc.version = version /\ sc.family = family /\ sc.resumed = resumed
      /\ sc.sends = [d \in Directions |-> IF d = "client" THEN client ELSE server]
  BY DEF Scenario
<1>2. client \in Seq(Records) /\ server \in Seq(Records)
  BY DEF ListFits
<1>3. /\ sc.sends \in [Directions -> Seq(Records)]
      /\ sc.sends["client"] = client /\ sc.sends["server"] = server
      /\ \A d \in Directions : sc.sends[d] = client \/ sc.sends[d] = server
  BY <1>1, <1>2 DEF Directions
<1>4. \A d \in Directions : ListFits(version, resumed, sc.sends[d])
  BY ONLY <1>3, ListFits(version, resumed, client), ListFits(version, resumed, server)
<1>6. ListFits(None, resumed, sc.sends["client"])
  BY ONLY <1>3, ListFits(None, resumed, client)
<1>5. ServerFits(version, resumed, family, sc.sends["server"])
  BY ONLY <1>3, ServerFits(version, resumed, family, server)
<1> QED
  BY ONLY <1>1, <1>3, <1>4, <1>5, <1>6, version \in {None} \cup ServerHellos, family \in Families,
          resumed \in BOOLEAN,
          version = "SH13" => family \in {"ECDHE", "EPHEMERAL", "PSK", "PSK_EPHEMERAL"}
     DEF Proper

(* The client of a full TLS 1.2 handshake.                                  *)
LEMMA ClientFull ==
    ASSUME NEW list, list = << Plain(Unit("CH", 1)), Plain(Unit("CKE", 1)), Ccs, Finished, CloseNotify >>,
           NEW version, version # "SH13"
    PROVE  ListFits(version, FALSE, list)
<1> DEFINE m == "CH"
           o == "CKE"
<1>1. /\ m \in Msgs /\ m # "secret" /\ m = "CH" /\ MayTell(version, FALSE, m, 1)
      /\ o \in Msgs /\ o # "secret" /\ o = "CKE" /\ MayTell(version, FALSE, o, 1)
  BY DEF Msgs, MayTell, ServerHellos
<1>2. list = << Plain(Unit(m, 1)), Plain(Unit(o, 1)), Ccs, Finished, CloseNotify >>
  OBVIOUS
<1> HIDE DEF m, o
<1>3. Plain(Unit(m, 1)) \in Records /\ Plain(Unit(o, 1)) \in Records
  BY <1>1, SaidPlain
<1> DEFINE p == Plain(Unit(m, 1))
           q == Plain(Unit(o, 1))
<1>4. list = << p, q, Ccs, Finished, CloseNotify >> /\ p \in Records /\ q \in Records
  BY <1>2, <1>3
<1> HIDE DEF p, q
<1>5. /\ list \in Seq(Records) /\ Len(list) = 5
      /\ list[1] = p /\ list[2] = q /\ list[3] = Ccs /\ list[4] = Finished /\ list[5] = CloseNotify
  BY ONLY <1>4, Kinds
<1>6. Follows(version, list, 3)
  BY ONLY <1>5, version # "SH13" DEF Follows
<1>7. Follows(version, list, 4)
  <2>1. 4 > 1 /\ 4 - 1 = 3
    OBVIOUS
  <2> QED
    BY ONLY <1>5, <2>1, version # "SH13" DEF Follows
<1>8. Follows(version, list, 5)
  BY ONLY <1>5, version # "SH13" DEF Follows
<1>9. \A n \in 3..5 : n = 3 \/ n = 4 \/ n = 5
  OBVIOUS
<1>10. \A n \in 3..Len(list) : Follows(version, list, n)
  BY ONLY <1>5, <1>6, <1>7, <1>8, <1>9
<1>11. Len(list) >= 2 /\ list[1] = Plain(Unit(m, 1)) /\ list[2] = Plain(Unit(o, 1))
  <2>1. 5 >= 2
    OBVIOUS
  <2> QED
    BY ONLY <1>5, <2>1 DEF p, q
<1>12. ListFits(version, FALSE, list)
  BY ONLY <1>1, <1>5, <1>10, <1>11, TwoSpoken
<1> QED
  BY ONLY <1>12

(* The client of the long handshake.                                        *)
LEMMA ClientLarge ==
    ASSUME NEW list, list = << Plain(Unit("CH", 1)), Plain(Unit("CKE", 1)), Ccs, Finished >>,
           NEW version, version # "SH13"
    PROVE  ListFits(version, FALSE, list)
<1> DEFINE m == "CH"
           o == "CKE"
<1>1. /\ m \in Msgs /\ m # "secret" /\ m = "CH" /\ MayTell(version, FALSE, m, 1)
      /\ o \in Msgs /\ o # "secret" /\ o = "CKE" /\ MayTell(version, FALSE, o, 1)
  BY DEF Msgs, MayTell, ServerHellos
<1>2. list = << Plain(Unit(m, 1)), Plain(Unit(o, 1)), Ccs, Finished >>
  OBVIOUS
<1> HIDE DEF m, o
<1>3. Plain(Unit(m, 1)) \in Records /\ Plain(Unit(o, 1)) \in Records
  BY <1>1, SaidPlain
<1> DEFINE p == Plain(Unit(m, 1))
           q == Plain(Unit(o, 1))
<1>4. list = << p, q, Ccs, Finished >> /\ p \in Records /\ q \in Records
  BY <1>2, <1>3
<1> HIDE DEF p, q
<1>5. /\ list \in Seq(Records) /\ Len(list) = 4
      /\ list[1] = p /\ list[2] = q /\ list[3] = Ccs /\ list[4] = Finished
  BY ONLY <1>4, Kinds
<1>6. Follows(version, list, 3)
  BY ONLY <1>5, version # "SH13" DEF Follows
<1>7. Follows(version, list, 4)
  <2>1. 4 > 1 /\ 4 - 1 = 3
    OBVIOUS
  <2> QED
    BY ONLY <1>5, <2>1, version # "SH13" DEF Follows
<1>8. \A n \in 3..4 : n = 3 \/ n = 4
  OBVIOUS
<1>9. \A n \in 3..Len(list) : Follows(version, list, n)
  BY ONLY <1>5, <1>6, <1>7, <1>8
<1>10. Len(list) >= 2 /\ list[1] = Plain(Unit(m, 1)) /\ list[2] = Plain(Unit(o, 1))
  <2>1. 4 >= 2
    OBVIOUS
  <2> QED
    BY ONLY <1>5, <2>1 DEF p, q
<1>11. ListFits(version, FALSE, list)
  BY ONLY <1>1, <1>5, <1>9, <1>10, TwoSpoken
<1> QED
  BY ONLY <1>11

(* The client of a resumed TLS 1.2 session.                                 *)
LEMMA ClientResumed ==
    ASSUME NEW list, list = << Plain(Unit("CH", 1)), Ccs, Finished, AppData >>,
           NEW version, version # "SH13"
    PROVE  ListFits(version, TRUE, list)
<1> DEFINE m == "CH"
<1>1. /\ m \in Msgs /\ m # "secret" /\ m = "CH" /\ MayTell(version, TRUE, m, 1)
  BY DEF Msgs, MayTell, ServerHellos
<1>2. list = << Plain(Unit(m, 1)), Ccs, Finished, AppData >>
  OBVIOUS
<1> HIDE DEF m
<1>3. Plain(Unit(m, 1)) \in Records
  BY <1>1, SaidPlain
<1> DEFINE p == Plain(Unit(m, 1))
<1>4. list = << p, Ccs, Finished, AppData >> /\ p \in Records
  BY <1>2, <1>3
<1> HIDE DEF p
<1>5. /\ list \in Seq(Records) /\ Len(list) = 4
      /\ list[1] = p /\ list[2] = Ccs /\ list[3] = Finished /\ list[4] = AppData
  BY ONLY <1>4, Kinds
<1>6. Follows(version, list, 2)
  BY ONLY <1>5, version # "SH13" DEF Follows
<1>7. Follows(version, list, 3)
  <2>1. 3 > 1 /\ 3 - 1 = 2
    OBVIOUS
  <2> QED
    BY ONLY <1>5, <2>1, version # "SH13" DEF Follows
<1>8. Follows(version, list, 4)
  BY ONLY <1>5, version # "SH13" DEF Follows
<1>9. \A n \in 2..4 : n = 2 \/ n = 3 \/ n = 4
  OBVIOUS
<1>10. \A n \in 2..Len(list) : Follows(version, list, n)
  BY ONLY <1>5, <1>6, <1>7, <1>8, <1>9
<1>11. Len(list) >= 1 /\ list[1] = Plain(Unit(m, 1))
  <2>1. 4 >= 1
    OBVIOUS
  <2> QED
    BY ONLY <1>5, <2>1 DEF p
<1>12. ListFits(version, TRUE, list)
  BY ONLY <1>1, <1>5, <1>10, <1>11, OneSpoken
<1> QED
  BY ONLY <1>12

(* The client of a TLS 1.3 handshake.                                       *)
LEMMA Client13 ==
    ASSUME NEW list, list = << Plain(Unit("CH", 1)), Ccs, AppData >>,
           NEW version, NEW resumed \in BOOLEAN
    PROVE  ListFits(version, resumed, list)
<1> DEFINE m == "CH"
<1>1. /\ m \in Msgs /\ m # "secret" /\ m = "CH" /\ MayTell(version, resumed, m, 1)
  BY DEF Msgs, MayTell, ServerHellos
<1>2. list = << Plain(Unit(m, 1)), Ccs, AppData >>
  OBVIOUS
<1> HIDE DEF m
<1>3. Plain(Unit(m, 1)) \in Records
  BY <1>1, SaidPlain
<1> DEFINE p == Plain(Unit(m, 1))
<1>4. list = << p, Ccs, AppData >> /\ p \in Records
  BY <1>2, <1>3
<1> HIDE DEF p
<1>5. /\ list \in Seq(Records) /\ Len(list) = 3
      /\ list[1] = p /\ list[2] = Ccs /\ list[3] = AppData
  BY ONLY <1>4, Kinds
<1>6. Follows(version, list, 2)
  BY ONLY <1>5 DEF Follows
<1>7. Follows(version, list, 3)
  BY ONLY <1>5 DEF Follows
<1>8. \A n \in 2..3 : n = 2 \/ n = 3
  OBVIOUS
<1>9. \A n \in 2..Len(list) : Follows(version, list, n)
  BY ONLY <1>5, <1>6, <1>7, <1>8
<1>10. Len(list) >= 1 /\ list[1] = Plain(Unit(m, 1))
  <2>1. 3 >= 1
    OBVIOUS
  <2> QED
    BY ONLY <1>5, <2>1 DEF p
<1>11. ListFits(version, resumed, list)
  BY ONLY <1>1, <1>5, <1>9, <1>10, OneSpoken
<1> QED
  BY ONLY <1>11

(* The client the server refuses.                                           *)
LEMMA ClientRefused ==
    ASSUME NEW list, list = << Plain(Unit("CH", 1)) >>
    PROVE  ListFits(None, FALSE, list)
<1> DEFINE m == "CH"
<1>1. /\ m \in Msgs /\ m # "secret" /\ m = "CH" /\ MayTell(None, FALSE, m, 1)
  BY DEF Msgs, MayTell, ServerHellos
<1>2. list = << Plain(Unit(m, 1)) >>
  OBVIOUS
<1> HIDE DEF m
<1>3. Plain(Unit(m, 1)) \in Records
  BY <1>1, SaidPlain
<1> DEFINE p == Plain(Unit(m, 1))
<1>4. list = << p >> /\ p \in Records
  BY <1>2, <1>3
<1> HIDE DEF p
<1>5. /\ list \in Seq(Records) /\ Len(list) = 1
      /\ list[1] = p
  BY ONLY <1>4, Kinds
<1>6. 2..1 = {}
  OBVIOUS
<1>7. \A n \in 2..Len(list) : Follows(None, list, n)
  BY ONLY <1>5, <1>6
<1>8. Len(list) >= 1 /\ list[1] = Plain(Unit(m, 1))
  <2>1. 1 >= 1
    OBVIOUS
  <2> QED
    BY ONLY <1>5, <2>1 DEF p
<1>9. ListFits(None, FALSE, list)
  BY ONLY <1>1, <1>5, <1>7, <1>8, OneSpoken
<1> QED
  BY ONLY <1>9

(* The server of a resumed TLS 1.2 session.                                 *)
LEMMA ServerResumed ==
    ASSUME NEW list, list = << Plain(Unit("SH12", 1)), Ccs, Finished, AppData >>, NEW family
    PROVE  ListFits("SH12", TRUE, list) /\ ServerFits("SH12", TRUE, family, list)
<1> DEFINE m == "SH12"
<1>1. /\ m \in Msgs /\ m # "secret" /\ m = "SH12" /\ MayTell("SH12", TRUE, m, 1)
  BY DEF Msgs, MayTell, ServerHellos
<1>2. list = << Plain(Unit(m, 1)), Ccs, Finished, AppData >>
  OBVIOUS
<1> HIDE DEF m
<1>3. Plain(Unit(m, 1)) \in Records
  BY <1>1, SaidPlain
<1> DEFINE p == Plain(Unit(m, 1))
<1>4. list = << p, Ccs, Finished, AppData >> /\ p \in Records
  BY <1>2, <1>3
<1> HIDE DEF p
<1>5. /\ list \in Seq(Records) /\ Len(list) = 4
      /\ list[1] = p /\ list[2] = Ccs /\ list[3] = Finished /\ list[4] = AppData
  BY ONLY <1>4, Kinds
<1>6. Follows("SH12", list, 2)
  BY ONLY <1>5 DEF Follows
<1>7. Follows("SH12", list, 3)
  <2>1. 3 > 1 /\ 3 - 1 = 2
    OBVIOUS
  <2> QED
    BY ONLY <1>5, <2>1 DEF Follows
<1>8. Follows("SH12", list, 4)
  BY ONLY <1>5 DEF Follows
<1>9. \A n \in 2..4 : n = 2 \/ n = 3 \/ n = 4
  OBVIOUS
<1>10. \A n \in 2..Len(list) : Follows("SH12", list, n)
  BY ONLY <1>5, <1>6, <1>7, <1>8, <1>9
<1>11. Len(list) >= 1 /\ list[1] = Plain(Unit(m, 1))
  <2>1. 4 >= 1
    OBVIOUS
  <2> QED
    BY ONLY <1>5, <2>1 DEF p
<1>12. ListFits("SH12", TRUE, list)
  BY ONLY <1>1, <1>5, <1>10, <1>11, OneSpoken
<1>13. IsPlain(list[1]) /\ list[1].body = Unit(m, 1)
  <2>1. Unit(m, 1) \in Seq(Units)
    BY ONLY <1>1, OneUnit
  <2> QED
    BY ONLY <1>11, <2>1, PlainKind
<1>14. Len(list[1].body) >= 1 /\ list[1].body[1].msg \in ServerHellos /\ list[1].body[1].of = 1
  <2> DEFINE b == Unit(m, 1)
  <2>1. Len(b) = 1 /\ b[1] = [msg |-> m, part |-> 1, of |-> 1]
    BY ONLY <1>1, OneUnit
  <2>2. list[1].body = b
    BY ONLY <1>13
  <2> HIDE DEF b
  <2>3. b[1].msg = m /\ b[1].of = 1
    BY ONLY <2>1
  <2>4. 1 >= 1 /\ m \in ServerHellos
    BY ONLY <1>1 DEF ServerHellos
  <2> QED
    BY ONLY <2>1, <2>2, <2>3, <2>4
<1>15. ~("SH12" = "SH12" /\ ~TRUE /\ family # "ANON")
  OBVIOUS
<1>16. ServerFits("SH12", TRUE, family, list)
  BY ONLY <1>5, <1>11, <1>13, <1>14, <1>15, HelloFirstFits
<1> QED
  BY ONLY <1>12, <1>16

(* The server of a TLS 1.3 handshake.                                       *)
LEMMA Server13 ==
    ASSUME NEW list, list = << Plain(Unit("SH13", 1)), Ccs, AppData >>,
           NEW resumed \in BOOLEAN, NEW family
    PROVE  ListFits("SH13", resumed, list) /\ ServerFits("SH13", resumed, family, list)
<1> DEFINE m == "SH13"
<1>1. /\ m \in Msgs /\ m # "secret" /\ m = "SH13" /\ MayTell("SH13", resumed, m, 1)
  BY DEF Msgs, MayTell, ServerHellos
<1>2. list = << Plain(Unit(m, 1)), Ccs, AppData >>
  OBVIOUS
<1> HIDE DEF m
<1>3. Plain(Unit(m, 1)) \in Records
  BY <1>1, SaidPlain
<1> DEFINE p == Plain(Unit(m, 1))
<1>4. list = << p, Ccs, AppData >> /\ p \in Records
  BY <1>2, <1>3
<1> HIDE DEF p
<1>5. /\ list \in Seq(Records) /\ Len(list) = 3
      /\ list[1] = p /\ list[2] = Ccs /\ list[3] = AppData
  BY ONLY <1>4, Kinds
<1>6. Follows("SH13", list, 2)
  BY ONLY <1>5 DEF Follows
<1>7. Follows("SH13", list, 3)
  BY ONLY <1>5 DEF Follows
<1>8. \A n \in 2..3 : n = 2 \/ n = 3
  OBVIOUS
<1>9. \A n \in 2..Len(list) : Follows("SH13", list, n)
  BY ONLY <1>5, <1>6, <1>7, <1>8
<1>10. Len(list) >= 1 /\ list[1] = Plain(Unit(m, 1))
  <2>1. 3 >= 1
    OBVIOUS
  <2> QED
    BY ONLY <1>5, <2>1 DEF p
<1>11. ListFits("SH13", resumed, list)
  BY ONLY <1>1, <1>5, <1>9, <1>10, OneSpoken
<1>12. IsPlain(list[1]) /\ list[1].body = Unit(m, 1)
  <2>1. Unit(m, 1) \in Seq(Units)
    BY ONLY <1>1, OneUnit
  <2> QED
    BY ONLY <1>10, <2>1, PlainKind
<1>13. Len(list[1].body) >= 1 /\ list[1].body[1].msg \in ServerHellos /\ list[1].body[1].of = 1
  <2> DEFINE b == Unit(m, 1)
  <2>1. Len(b) = 1 /\ b[1] = [msg |-> m, part |-> 1, of |-> 1]
    BY ONLY <1>1, OneUnit
  <2>2. list[1].body = b
    BY ONLY <1>12
  <2> HIDE DEF b
  <2>3. b[1].msg = m /\ b[1].of = 1
    BY ONLY <2>1
  <2>4. 1 >= 1 /\ m \in ServerHellos
    BY ONLY <1>1 DEF ServerHellos
  <2> QED
    BY ONLY <2>1, <2>2, <2>3, <2>4
<1>14. ~("SH13" = "SH12" /\ ~resumed /\ family # "ANON")
  OBVIOUS
<1>15. ServerFits("SH13", resumed, family, list)
  BY ONLY <1>5, <1>10, <1>12, <1>13, <1>14, HelloFirstFits
<1> QED
  BY ONLY <1>11, <1>15

(* The client that is asked to try again.                                   *)
LEMMA ClientRetried ==
    ASSUME NEW list, list = << Plain(Unit("CH", 1)), Ccs, Plain(Unit("CH", 1)), AppData >>,
           NEW version
    PROVE  ListFits(version, FALSE, list)
<1> DEFINE m == "CH"
<1>1. /\ m \in Msgs /\ m # "secret" /\ m = "CH" /\ MayTell(version, FALSE, m, 1)
  BY DEF Msgs, MayTell, ServerHellos
<1>2. list = << Plain(Unit(m, 1)), Ccs, Plain(Unit(m, 1)), AppData >>
  OBVIOUS
<1> HIDE DEF m
<1>3. Plain(Unit(m, 1)) \in Records
  BY <1>1, SaidPlain
<1> DEFINE p == Plain(Unit(m, 1))
<1>4. list = << p, Ccs, p, AppData >> /\ p \in Records
  BY <1>2, <1>3
<1> HIDE DEF p
<1>5. /\ list \in Seq(Records) /\ Len(list) = 4
      /\ list[1] = p /\ list[2] = Ccs /\ list[3] = p /\ list[4] = AppData
  BY ONLY <1>4, Kinds
<1>6. list[1] = Plain(Unit(m, 1)) /\ list[3] = Plain(Unit(m, 1))
  BY ONLY <1>5 DEF p
<1> QED
  BY ONLY <1>1, <1>5, <1>6, RetrySpoken

(* The server that asks it to.                                              *)
LEMMA ServerRetried ==
    ASSUME NEW list, list = << Plain(Unit("HRR", 1)), Ccs, Plain(Unit("SH13", 1)), AppData >>,
           NEW family
    PROVE  ListFits("SH13", FALSE, list) /\ ServerFits("SH13", FALSE, family, list)
<1> DEFINE m == "HRR"
           o == "SH13"
<1>1. m \in Msgs /\ o \in Msgs /\ m = "HRR" /\ o = "SH13"
  BY DEF Msgs
<1>2. list = << Plain(Unit(m, 1)), Ccs, Plain(Unit(o, 1)), AppData >>
  OBVIOUS
<1> HIDE DEF m, o
<1>3. Plain(Unit(m, 1)) \in Records /\ Plain(Unit(o, 1)) \in Records
  BY <1>1, SaidPlain
<1> DEFINE p == Plain(Unit(m, 1))
           q == Plain(Unit(o, 1))
<1>4. list = << p, Ccs, q, AppData >> /\ p \in Records /\ q \in Records
  BY <1>2, <1>3
<1> HIDE DEF p, q
<1>5. /\ list \in Seq(Records) /\ Len(list) = 4
      /\ list[1] = p /\ list[2] = Ccs /\ list[3] = q /\ list[4] = AppData
  BY ONLY <1>4, Kinds
<1>6. list[1] = Plain(Unit("HRR", 1)) /\ list[3] = Plain(Unit("SH13", 1))
  BY ONLY <1>1, <1>5 DEF p, q
<1> QED
  BY ONLY <1>5, <1>6, RetryFits

(* The server that refuses with a fatal alert.                              *)
LEMMA ServerRefused ==
    ASSUME NEW list, list = << Fatal >>, NEW family
    PROVE  ListFits(None, FALSE, list) /\ ServerFits(None, FALSE, family, list)
<1>1. list \in Seq(Records) /\ Len(list) = 1 /\ list[1] = Fatal
  BY Kinds
<1>2. Len(list) \in Nat /\ 0 \in 0..Len(list) /\ 0 + 1 = 1 /\ (\A n \in 1..1 : n = 1) /\ 1..0 = {}
  BY <1>1
<1>3. \A n \in (0 + 1)..Len(list) : Follows(None, list, n)
  BY ONLY <1>1, <1>2 DEF Follows
<1> DEFINE A == << >>
           S == {}
<1>4. WellFormed(A) /\ MadeOf(A, S)
  BY NothingWellFormed
<1>5. A = Got(list)[0]
  BY <1>1, GotAt
<1>6. TellsOnly(None, FALSE, S)
  BY DEF TellsOnly
<1>7. \A n \in 1..0 : IsPlain(list[n]) /\ MadeOf(list[n].body, S)
  BY ONLY <1>2
<1> HIDE DEF A, S
<1>8. Spoke(None, FALSE, list, 0, A)
  BY ONLY <1>1, <1>2, <1>3, <1>4, <1>5, <1>6, <1>7, Spoken
<1>9. ListFits(None, FALSE, list)
  BY ONLY <1>8 DEF Spoke
<1>10. ASSUME NEW n \in 1..Len(list)
       PROVE  /\ list[n].type = "alert"
              /\ ~\E i \in 1..Len(list[n].body) : list[n].body[i].msg \in ServerHellos
  <2> DEFINE r == list[n]
  <2>1. r = Fatal
    BY ONLY <1>1, <1>2, n \in 1..Len(list)
  <2>2. r.type = "alert" /\ Len(r.body) = 1 /\ r.body[1].msg = "fatal"
    BY ONLY <2>1, Kinds
  <2> HIDE DEF r
  <2>3. \A i \in 1..Len(r.body) : r.body[i].msg = "fatal"
    BY ONLY <1>2, <2>2
  <2>4. "fatal" \notin ServerHellos
    BY DEF ServerHellos
  <2>5. r.type = "alert" /\ ~\E i \in 1..Len(r.body) : r.body[i].msg \in ServerHellos
    BY ONLY <2>2, <2>3, <2>4
  <2> QED
    BY ONLY <2>5 DEF r
<1>11. ServerFits(None, FALSE, family, list)
  BY ONLY <1>10 DEF ServerFits
<1> QED
  BY ONLY <1>9, <1>11

(* A server flight in one record.                                           *)
LEMMA ServerTogether ==
    ASSUME NEW family, NEW A, Flight(A, family), NEW list,
           list = << Plain(A) >> \o << Ccs, Finished, AppData >>
    PROVE  ListFits("SH12", FALSE, list) /\ ServerFits("SH12", FALSE, family, list)
<1> DEFINE p == Plain(A)
           flight == << p >>
<1>1. A \in Seq(Units)
  BY DEF Flight, WellFormed
<1>2. p \in Records
  BY <1>1, PlainKind
<1>3. list = flight \o << Ccs, Finished, AppData >>
  OBVIOUS
<1> HIDE DEF p
<1>4. flight \in Seq(Records) /\ Len(flight) = 1 /\ flight[1] = p /\ 1 = Len(flight)
  BY ONLY <1>2
<1> HIDE DEF flight
<1>5. Tailed(flight, list, 1)
  BY ONLY <1>3, <1>4, TailAdded
<1>6. 1 \in 1..1 /\ 1 + 3 >= 1 /\ 1 + 1 = 2
  OBVIOUS
<1>7. /\ list \in Seq(Records) /\ Len(list) >= 1 /\ list[1] = p
      /\ \A n \in 2..Len(list) : Follows("SH12", list, n)
  BY ONLY <1>4, <1>5, <1>6 DEF Tailed
<1>8. list[1] = Plain(A)
  BY ONLY <1>7 DEF p
<1> QED
  BY ONLY <1>7, <1>8, OneRecord, Flight(A, family)

(* A server flight with its certificate cut in the middle.                  *)
LEMMA ServerApart ==
    ASSUME NEW family, NEW A, Flight(A, family), NEW list,
           list = << Plain(SubSeq(A, 1, 2)), Plain(SubSeq(A, 3, Len(A))) >>
                  \o << Ccs, Finished, AppData >>
    PROVE  ListFits("SH12", FALSE, list) /\ ServerFits("SH12", FALSE, family, list)
<1> DEFINE a == Len(A)
           p == Plain(SubSeq(A, 1, 2))
           q == Plain(SubSeq(A, 3, a))
           flight == << p, q >>
<1>1. A \in Seq(Units) /\ a >= 2 /\ a \in Nat /\ a = Len(A)
  BY DEF Flight, WellFormed
<1>2. SubSeq(A, 1, 2) \in Seq(Units) /\ SubSeq(A, 3, a) \in Seq(Units)
  <2>0. a \in Nat /\ a >= 2
    BY <1>1
  <2> HIDE DEF a
  <2>1. 1 \in 1..(a + 1) /\ 2 \in Nat /\ 2 >= 1 - 1 /\ 2 <= a
        /\ 3 \in 1..(a + 1) /\ a >= 3 - 1 /\ a <= a
    BY ONLY <2>0
  <2> QED
    BY ONLY <1>1, <2>1, PartOf
<1>3. p \in Records /\ q \in Records
  BY <1>2, PlainKind
<1>4. list = flight \o << Ccs, Finished, AppData >>
  OBVIOUS
<1> HIDE DEF p, q
<1>5. flight \in Seq(Records) /\ Len(flight) = 2 /\ flight[1] = p /\ flight[2] = q
      /\ 2 = Len(flight)
  BY ONLY <1>3
<1> HIDE DEF flight
<1>6. Tailed(flight, list, 2)
  BY ONLY <1>4, <1>5, TailAdded
<1>7. 1 \in 1..2 /\ 2 \in 1..2 /\ 2 + 3 >= 2 /\ 2 + 1 = 3
  OBVIOUS
<1>8. /\ list \in Seq(Records) /\ Len(list) >= 2 /\ list[1] = p /\ list[2] = q
      /\ \A n \in 3..Len(list) : Follows("SH12", list, n)
  BY ONLY <1>5, <1>6, <1>7 DEF Tailed
<1>9. list[1] = Plain(SubSeq(A, 1, 2)) /\ list[2] = Plain(SubSeq(A, 3, Len(A)))
  BY ONLY <1>8 DEF p, q, a
<1> QED
  BY ONLY <1>8, <1>9, TwoRecords, Flight(A, family)

(* The long server flight in three records.                                 *)
LEMMA ServerLarge ==
    ASSUME NEW A, Flight(A, "ECDHE"), Len(A) = 8, NEW list,
           list = << Plain(SubSeq(A, 1, 2)), Plain(SubSeq(A, 3, 6)), Plain(SubSeq(A, 7, 8)),
                     Ccs, Finished >>
    PROVE  ListFits("SH12", FALSE, list) /\ ServerFits("SH12", FALSE, "ECDHE", list)
<1> DEFINE p == Plain(SubSeq(A, 1, 2))
           q == Plain(SubSeq(A, 3, 6))
           r == Plain(SubSeq(A, 7, 8))
<1>1. A \in Seq(Units) /\ Len(A) = 8
  BY DEF Flight, WellFormed
<1>2. /\ SubSeq(A, 1, 2) \in Seq(Units) /\ SubSeq(A, 3, 6) \in Seq(Units)
      /\ SubSeq(A, 7, 8) \in Seq(Units)
  <2>1. 1 \in 1..(8 + 1) /\ 2 \in Nat /\ 2 >= 1 - 1 /\ 2 <= 8
        /\ 3 \in 1..(8 + 1) /\ 6 \in Nat /\ 6 >= 3 - 1 /\ 6 <= 8
        /\ 7 \in 1..(8 + 1) /\ 8 \in Nat /\ 8 >= 7 - 1 /\ 8 <= 8
    OBVIOUS
  <2> QED
    BY ONLY <1>1, <2>1, PartOf
<1>3. p \in Records /\ q \in Records /\ r \in Records
  BY <1>2, PlainKind
<1>4. list = << p, q, r, Ccs, Finished >>
  OBVIOUS
<1> HIDE DEF p, q, r
<1>5. /\ list \in Seq(Records) /\ Len(list) = 5 /\ list[1] = p /\ list[2] = q /\ list[3] = r
      /\ list[4] = Ccs /\ list[5] = Finished
  BY ONLY <1>3, <1>4, Kinds
<1>6. Follows("SH12", list, 4)
  BY ONLY <1>5 DEF Follows
<1>7. Follows("SH12", list, 5)
  <2>1. 5 > 1 /\ 5 - 1 = 4
    OBVIOUS
  <2> QED
    BY ONLY <1>5, <2>1 DEF Follows
<1>8. (\A n \in 4..5 : n = 4 \/ n = 5) /\ 5 >= 3
  OBVIOUS
<1>9. Len(list) >= 3 /\ \A n \in 4..Len(list) : Follows("SH12", list, n)
  BY ONLY <1>5, <1>6, <1>7, <1>8
<1>10. /\ list[1] = Plain(SubSeq(A, 1, 2)) /\ list[2] = Plain(SubSeq(A, 3, 6))
       /\ list[3] = Plain(SubSeq(A, 7, 8))
  BY ONLY <1>5 DEF p, q, r
<1>11. list \in Seq(Records)
  BY ONLY <1>5
<1> QED
  BY ONLY <1>1, <1>9, <1>10, <1>11, ThreeRecords, Flight(A, "ECDHE")

(* The full TLS 1.2 scenarios are proper.                                   *)
LEMMA Full12Proper ==
    ASSUME NEW family \in Families, NEW c \in BOOLEAN, NEW k \in BOOLEAN, NEW coalesced \in BOOLEAN,
           family # "ANON" => c, c \/ k, NEW hello
    PROVE  Proper(Full12(family, c, k, coalesced, hello))
<1> DEFINE A == Unit("SH12", 1) \o (IF c THEN Unit("CERT", 2) ELSE << >>)
                    \o (IF k THEN Unit("SKE", 1) ELSE << >>) \o Unit("SHD", 1)
           flight == IF coalesced THEN << Plain(A) >>
                     ELSE << Plain(SubSeq(A, 1, 2)), Plain(SubSeq(A, 3, Len(A))) >>
           n == Len(flight)
           client == << Plain(Unit("CH", 1)), Plain(Unit("CKE", 1)), Ccs, Finished, CloseNotify >>
           server == flight \o << Ccs, Finished, AppData >>
           cw == <<0, n, n, n, n + 2>>
           sw == [i \in 1..n |-> 1] \o <<4, 4, 4>>
<1>1. Full12(family, c, k, coalesced, hello)
        = Scenario("SH12", family, FALSE, hello, client, cw, server, sw)
  BY DEF Full12
<1>2. ListFits("SH12", FALSE, client) /\ ListFits(None, FALSE, client)
  <2>1. "SH12" # "SH13" /\ None # "SH13"
    BY DEF None
  <2> QED
    BY <2>1, ClientFull
<1>3. Flight(A, family)
  BY ONLY Flight12, c \in BOOLEAN, k \in BOOLEAN, family # "ANON" => c, c \/ k
<1>4. /\ coalesced => server = << Plain(A) >> \o << Ccs, Finished, AppData >>
      /\ ~coalesced => server = << Plain(SubSeq(A, 1, 2)), Plain(SubSeq(A, 3, Len(A))) >>
                                \o << Ccs, Finished, AppData >>
  OBVIOUS
<1> HIDE DEF A, flight, n, client, server, cw, sw
<1>5. ListFits("SH12", FALSE, server) /\ ServerFits("SH12", FALSE, family, server)
  <2>1. CASE coalesced
    BY ONLY <1>3, <1>4, <2>1, ServerTogether
  <2>2. CASE ~coalesced
    BY ONLY <1>3, <1>4, <2>2, ServerApart
  <2> QED
    BY ONLY <2>1, <2>2
<1>6. "SH12" \in {None} \cup ServerHellos /\ "SH12" # "SH13" /\ FALSE \in BOOLEAN
  BY DEF ServerHellos
<1> QED
  BY ONLY <1>1, <1>2, <1>5, <1>6, ProperMade, family \in Families

(* The one with the long flight is proper.                                  *)
LEMMA Large12Proper == Proper(Large12)
<1> DEFINE A == Unit("SH12", 1) \o Unit("CERT", 3) \o Unit("SKE", 1) \o Unit("SHD", 1)
                    \o Unit("NST", 2)
           client == << Plain(Unit("CH", 1)), Plain(Unit("CKE", 1)), Ccs, Finished >>
           server == << Plain(SubSeq(A, 1, 2)), Plain(SubSeq(A, 3, 6)), Plain(SubSeq(A, 7, 8)),
                        Ccs, Finished >>
           cw == <<0, 2, 2, 2>>
           sw == <<1, 1, 4, 4, 4>>
<1>1. Large12 = Scenario("SH12", "ECDHE", FALSE, Ids("x", None), client, cw, server, sw)
  BY DEF Large12
<1>2. ListFits("SH12", FALSE, client) /\ ListFits(None, FALSE, client)
  <2>1. "SH12" # "SH13" /\ None # "SH13"
    BY DEF None
  <2> QED
    BY <2>1, ClientLarge
<1>3. Flight(A, "ECDHE") /\ Len(A) = 8
  BY ONLY FlightLarge
<1>4. server = << Plain(SubSeq(A, 1, 2)), Plain(SubSeq(A, 3, 6)), Plain(SubSeq(A, 7, 8)),
                  Ccs, Finished >>
  OBVIOUS
<1> HIDE DEF A, client, server, cw, sw
<1>5. ListFits("SH12", FALSE, server) /\ ServerFits("SH12", FALSE, "ECDHE", server)
  BY ONLY <1>3, <1>4, ServerLarge
<1>6. "SH12" \in {None} \cup ServerHellos /\ "SH12" # "SH13" /\ FALSE \in BOOLEAN
      /\ "ECDHE" \in Families
  BY DEF ServerHellos, Families
<1> QED
  BY ONLY <1>1, <1>2, <1>5, <1>6, ProperMade

(* The resumed ones are proper.                                             *)
LEMMA Resumed12Proper ==
    ASSUME NEW hello
    PROVE  Proper(Resumed12(hello))
<1> DEFINE client == << Plain(Unit("CH", 1)), Ccs, Finished, AppData >>
           server == << Plain(Unit("SH12", 1)), Ccs, Finished, AppData >>
           cw == <<0, 3, 3, 3>>
           sw == <<1, 1, 1, 3>>
<1>1. Resumed12(hello) = Scenario("SH12", "ECDHE", TRUE, hello, client, cw, server, sw)
  BY DEF Resumed12
<1>2. ListFits("SH12", TRUE, client) /\ ListFits(None, TRUE, client)
  <2>1. "SH12" # "SH13" /\ None # "SH13"
    BY DEF None
  <2> QED
    BY <2>1, ClientResumed
<1>3. ListFits("SH12", TRUE, server) /\ ServerFits("SH12", TRUE, "ECDHE", server)
  BY ServerResumed
<1> HIDE DEF client, server, cw, sw
<1>4. "SH12" \in {None} \cup ServerHellos /\ "SH12" # "SH13" /\ TRUE \in BOOLEAN
      /\ "ECDHE" \in Families
  BY DEF ServerHellos, Families
<1> QED
  BY ONLY <1>1, <1>2, <1>3, <1>4, ProperMade

(* The TLS 1.3 scenarios are proper.                                        *)
LEMMA Full13Proper ==
    ASSUME NEW family \in {"ECDHE", "EPHEMERAL", "PSK", "PSK_EPHEMERAL"},
           NEW resumed \in BOOLEAN, NEW early, NEW offered
    PROVE  Proper(Full13(family, resumed, early, offered))
<1> DEFINE client == << Plain(Unit("CH", 1)), Ccs, AppData >>
           server == << Plain(Unit("SH13", 1)), Ccs, AppData >>
           cw == IF early THEN <<0, 0, 0>> ELSE <<0, 3, 3>>
           sw == <<1, 1, 1>>
<1>1. Full13(family, resumed, early, offered)
        = Scenario("SH13", family, resumed, Hellos13(offered), client, cw, server, sw)
  BY DEF Full13
<1>2. ListFits("SH13", resumed, client) /\ ListFits(None, resumed, client)
  BY Client13
<1>3. ListFits("SH13", resumed, server) /\ ServerFits("SH13", resumed, family, server)
  BY Server13
<1> HIDE DEF client, server, cw, sw
<1>4. "SH13" \in {None} \cup ServerHellos /\ family \in Families
  BY DEF ServerHellos, Families
<1> QED
  BY ONLY <1>1, <1>2, <1>3, <1>4, ProperMade, resumed \in BOOLEAN,
          family \in {"ECDHE", "EPHEMERAL", "PSK", "PSK_EPHEMERAL"}

(* The one with a HelloRetryRequest is proper.                              *)
LEMMA Retried13Proper == Proper(Retried13)
<1> DEFINE client == << Plain(Unit("CH", 1)), Ccs, Plain(Unit("CH", 1)), AppData >>
           server == << Plain(Unit("HRR", 1)), Ccs, Plain(Unit("SH13", 1)), AppData >>
           cw == <<0, 2, 2, 4>>
           sw == <<1, 1, 3, 3>>
<1>1. Retried13 = Scenario("SH13", "ECDHE", FALSE, Hellos13(FALSE), client, cw, server, sw)
  BY DEF Retried13
<1>2. ListFits("SH13", FALSE, client) /\ ListFits(None, FALSE, client)
  BY ClientRetried
<1>3. ListFits("SH13", FALSE, server) /\ ServerFits("SH13", FALSE, "ECDHE", server)
  BY ServerRetried
<1> HIDE DEF client, server, cw, sw
<1>4. "SH13" \in {None} \cup ServerHellos /\ FALSE \in BOOLEAN
      /\ "ECDHE" \in {"ECDHE", "EPHEMERAL", "PSK", "PSK_EPHEMERAL"} /\ "ECDHE" \in Families
  BY DEF ServerHellos, Families
<1> QED
  BY ONLY <1>1, <1>2, <1>3, <1>4, ProperMade

(* The refused one is proper.                                               *)
LEMMA RefusedProper == Proper(Refused)
<1> DEFINE client == << Plain(Unit("CH", 1)) >>
           server == << Fatal >>
           cw == <<0>>
           sw == <<1>>
<1>1. Refused = Scenario(None, None, FALSE, Ids("x", None), client, cw, server, sw)
  BY DEF Refused
<1>2. ListFits(None, FALSE, client)
  BY ClientRefused
<1>3. ListFits(None, FALSE, server) /\ ServerFits(None, FALSE, None, server)
  BY ServerRefused
<1> HIDE DEF client, server, cw, sw
<1>4. None \in {None} \cup ServerHellos /\ None # "SH13" /\ FALSE \in BOOLEAN /\ None \in Families
  BY DEF None, Families
<1> QED
  BY ONLY <1>1, <1>2, <1>3, <1>4, ProperMade

(* The scenarios, one by one.                                               *)
LEMMA EachScenario ==
    ASSUME NEW sc \in Scenarios
    PROVE  \/ sc = Full12("ECDHE", TRUE, TRUE, FALSE, Ids("x", "y"))
           \/ sc = Full12("ECDHE", TRUE, TRUE, TRUE, Ids(None, "y"))
           \/ sc = Full12("RSA", TRUE, FALSE, FALSE, Ids("x", None))
           \/ sc = Full12("ANON", FALSE, TRUE, FALSE, Ids(None, None))
           \/ sc = Full12("unregistered", TRUE, TRUE, TRUE, Ids("x", "y"))
           \/ sc = Large12 \/ sc = Resumed12(Ids("x", "x")) \/ sc = Resumed12(Ids(None, None))
           \/ sc = Full13("ECDHE", FALSE, FALSE, TRUE)
           \/ sc = Full13("EPHEMERAL", FALSE, FALSE, FALSE)
           \/ sc = Full13("PSK", TRUE, FALSE, TRUE) \/ sc = Full13("PSK", FALSE, FALSE, TRUE)
           \/ sc = Full13("PSK_EPHEMERAL", TRUE, TRUE, TRUE)
           \/ sc = Retried13 \/ sc = Refused
  BY DEF Scenarios

(* Every scenario is one the proofs cover.                                  *)
LEMMA ProperScenarios == \A sc \in Scenarios : Proper(sc)
<1> SUFFICES ASSUME NEW sc \in Scenarios PROVE Proper(sc)
  OBVIOUS
<1>1. /\ TRUE \in BOOLEAN /\ FALSE \in BOOLEAN
      /\ "ECDHE" \in Families /\ "RSA" \in Families /\ "ANON" \in Families
      /\ "unregistered" \in Families
      /\ "ECDHE" \in {"ECDHE", "EPHEMERAL", "PSK", "PSK_EPHEMERAL"}
      /\ "EPHEMERAL" \in {"ECDHE", "EPHEMERAL", "PSK", "PSK_EPHEMERAL"}
      /\ "PSK" \in {"ECDHE", "EPHEMERAL", "PSK", "PSK_EPHEMERAL"}
      /\ "PSK_EPHEMERAL" \in {"ECDHE", "EPHEMERAL", "PSK", "PSK_EPHEMERAL"}
  BY DEF Families
<1>3. \A hello : /\ Proper(Full12("ECDHE", TRUE, TRUE, FALSE, hello))
                 /\ Proper(Full12("ECDHE", TRUE, TRUE, TRUE, hello))
  BY ONLY <1>1, Full12Proper
<1>4. \A hello : Proper(Full12("RSA", TRUE, FALSE, FALSE, hello))
  BY ONLY <1>1, Full12Proper
<1>5. \A hello : Proper(Full12("ANON", FALSE, TRUE, FALSE, hello))
  BY ONLY <1>1, Full12Proper
<1>6. \A hello : Proper(Full12("unregistered", TRUE, TRUE, TRUE, hello))
  BY ONLY <1>1, Full12Proper
<1>7. /\ Proper(Full13("ECDHE", FALSE, FALSE, TRUE))
      /\ Proper(Full13("EPHEMERAL", FALSE, FALSE, FALSE))
      /\ Proper(Full13("PSK", TRUE, FALSE, TRUE)) /\ Proper(Full13("PSK", FALSE, FALSE, TRUE))
      /\ Proper(Full13("PSK_EPHEMERAL", TRUE, TRUE, TRUE))
  BY ONLY <1>1, Full13Proper
<1>8. Proper(Resumed12(Ids("x", "x"))) /\ Proper(Resumed12(Ids(None, None)))
  BY ONLY Resumed12Proper
<1> QED
  BY ONLY <1>3, <1>4, <1>5, <1>6, <1>7, <1>8, sc \in Scenarios, EachScenario, Large12Proper,
          Retried13Proper, RefusedProper

(* What the hellos of a session tell of its being resumed.                  *)
HellosTell(sc) ==
    /\ sc.version = "SH12" => /\ Repeated(sc.hello) => sc.resumed
                              /\ sc.resumed => Repeated(sc.hello) \/ sc.hello.client = None
    /\ sc.version = "SH13" => (PskTaken(sc.hello, sc.family)
                                  <=> sc.resumed \/ sc.family = "PSK")

(* The hellos of every scenario tell that much.                             *)
LEMMA HellosOfScenarios == \A sc \in Scenarios : HellosTell(sc)
<1>1. ASSUME NEW family, NEW c, NEW k, NEW coalesced, NEW hello,
             \/ hello = Ids("x", "y") \/ hello = Ids(None, "y")
             \/ hello = Ids("x", None) \/ hello = Ids(None, None)
      PROVE  HellosTell(Full12(family, c, k, coalesced, hello))
  <2> SUFFICES ASSUME NEW sc, sc = Full12(family, c, k, coalesced, hello)
               PROVE  HellosTell(sc)
    OBVIOUS
  <2>1. sc.version = "SH12" /\ sc.resumed = FALSE /\ sc.hello = hello
    BY DEF Full12, Scenario
  <2>2. ~Repeated(hello)
    BY <1>1 DEF Repeated, Ids, None
  <2> QED
    BY <2>1, <2>2 DEF HellosTell
<1>2. HellosTell(Large12)
  <2>1. /\ Large12.version = "SH12" /\ Large12.resumed = FALSE
        /\ Large12.hello = Ids("x", None)
    BY DEF Large12, Scenario
  <2>2. ~Repeated(Ids("x", None))
    BY DEF Repeated, Ids, None
  <2> QED
    BY <2>1, <2>2 DEF HellosTell
<1>3. ASSUME NEW hello, Repeated(hello) \/ hello.client = None
      PROVE  HellosTell(Resumed12(hello))
  <2>1. /\ Resumed12(hello).version = "SH12" /\ Resumed12(hello).resumed = TRUE
        /\ Resumed12(hello).hello = hello
    BY DEF Resumed12, Scenario
  <2> QED
    BY <1>3, <2>1 DEF HellosTell
<1>4. Repeated(Ids("x", "x")) /\ Ids(None, None).client = None
  BY DEF Repeated, Ids, None
<1>5. ASSUME NEW family \in {"ECDHE", "EPHEMERAL"}, NEW early, NEW offered
      PROVE  HellosTell(Full13(family, FALSE, early, offered))
  <2> SUFFICES ASSUME NEW sc, sc = Full13(family, FALSE, early, offered)
               PROVE  HellosTell(sc)
    OBVIOUS
  <2>1. sc.version = "SH13" /\ sc.family = family /\ sc.resumed = FALSE
    BY DEF Full13, Scenario
  <2>2. ~Hello13(family).psk /\ family # "PSK"
    BY DEF Hello13
  <2> QED
    BY <2>1, <2>2 DEF HellosTell, PskTaken
<1>6. ASSUME NEW family, NEW resumed, NEW early,
             family = "PSK" \/ (family = "PSK_EPHEMERAL" /\ resumed = TRUE)
      PROVE  HellosTell(Full13(family, resumed, early, TRUE))
  <2> SUFFICES ASSUME NEW sc, sc = Full13(family, resumed, early, TRUE)
               PROVE  HellosTell(sc)
    OBVIOUS
  <2>1. /\ sc.version = "SH13" /\ sc.family = family /\ sc.resumed = resumed
        /\ sc.hello = Hellos13(TRUE)
    BY DEF Full13, Scenario
  <2>2. Hello13(family).psk
    BY <1>6 DEF Hello13
  <2>3. Hellos13(TRUE).offered
    BY DEF Hellos13
  <2>4. PskTaken(Hellos13(TRUE), family)
    BY <2>2, <2>3 DEF PskTaken
  <2> QED
    BY <1>6, <2>1, <2>4 DEF HellosTell
<1>7. HellosTell(Retried13) /\ HellosTell(Refused)
  <2>1. /\ Retried13.version = "SH13" /\ Retried13.family = "ECDHE" /\ Retried13.resumed = FALSE
        /\ Refused.version = None
    BY DEF Retried13, Refused, Scenario
  <2>2. ~Hello13("ECDHE").psk
    BY DEF Hello13
  <2>3. None # "SH12" /\ None # "SH13"
    BY DEF None
  <2> QED
    BY <2>1, <2>2, <2>3 DEF HellosTell, PskTaken
<1>8. /\ HellosTell(Full12("ECDHE", TRUE, TRUE, FALSE, Ids("x", "y")))
      /\ HellosTell(Full12("ECDHE", TRUE, TRUE, TRUE, Ids(None, "y")))
      /\ HellosTell(Full12("RSA", TRUE, FALSE, FALSE, Ids("x", None)))
      /\ HellosTell(Full12("ANON", FALSE, TRUE, FALSE, Ids(None, None)))
      /\ HellosTell(Full12("unregistered", TRUE, TRUE, TRUE, Ids("x", "y")))
  BY ONLY <1>1
<1>9. /\ HellosTell(Resumed12(Ids("x", "x"))) /\ HellosTell(Resumed12(Ids(None, None)))
  BY ONLY <1>3, <1>4
<1>10. /\ HellosTell(Full13("ECDHE", FALSE, FALSE, TRUE))
       /\ HellosTell(Full13("EPHEMERAL", FALSE, FALSE, FALSE))
       /\ HellosTell(Full13("PSK", TRUE, FALSE, TRUE))
       /\ HellosTell(Full13("PSK", FALSE, FALSE, TRUE))
       /\ HellosTell(Full13("PSK_EPHEMERAL", TRUE, TRUE, TRUE))
  BY <1>5, <1>6
<1> QED
  BY ONLY <1>2, <1>7, <1>8, <1>9, <1>10, EachScenario

-----------------------------------------------------------------------------
(* What holds of a walk whatever was missed: it has concluded nothing the   *)
(* peers did not say, and a boundary lies where records were read.          *)

(* Every unit of a stream fits.                                             *)
Heard(version, resumed, s) ==
    \A i \in 1..Len(s) : MayTell(version, resumed, s[i].msg, s[i].of)

(* The walk is sound, has read nothing beyond pos, and what it handled it   *)
(* was told.                                                                *)
Basic(version, resumed, pos, w) ==
    /\ w \in Walks /\ Sound(version, resumed, w)
    /\ \A d \in Directions :
          /\ Heard(version, resumed, w.stream[d])
          /\ w.end[d] <= pos[d]
          /\ w.boundary[d] = NoBoundary \/ w.boundary[d].at \in 0..pos[d]
          /\ \A i \in DOMAIN w.handled[d] : Told(w, w.handled[d][i])
    /\ Heard(None, resumed, w.stream["client"])
    /\ \A a \in w.alerts : a.fatal => version = None

(* The five ways a record is read.                                          *)
Passed(w, f, v) ==
    /\ IsEncrypted(w, f) \/ f.ambiguous \/ f.type = "alert"
    /\ v \in Walks /\ SameBuffers(w, v) /\ SameTold(w, v) /\ v.boundary = w.boundary
    /\ v.overflow = w.overflow /\ v.ccs = w.ccs
    /\ \A a \in v.alerts : a \in w.alerts \/ ~a.fatal
          \/ (f.type = "alert" /\ f.body # << >> /\ f.body[1].msg = "fatal")

(* A readable ChangeCipherSpec.                                             *)
ReadCcs(w, f, v) ==
    /\ ~IsEncrypted(w, f) /\ ~f.ambiguous /\ f.type = "ccs"
    /\ v \in Walks /\ SameBuffers(w, v) /\ SameTold(w, v)
    /\ v.overflow = w.overflow /\ v.ccs = w.ccs \cup {f.dir} /\ v.alerts = w.alerts
    /\ \A e \in Directions : v.boundary[e] =
          IF e = f.dir /\ w.boundary[e] = NoBoundary /\ ~w.tls13 /\ w.serverHello # "SH13"
          THEN [at |-> f.at + 1, reason |-> "TLS12_CHANGE_CIPHER_SPEC"]
          ELSE w.boundary[e]

(* Readable application data.                                               *)
ReadAppData(w, f, v) ==
    /\ ~IsEncrypted(w, f) /\ ~f.ambiguous /\ f.type = "appdata"
    /\ v \in Walks /\ SameBuffers(w, v) /\ SameTold(w, v)
    /\ v.overflow = w.overflow /\ v.ccs = w.ccs /\ v.alerts = w.alerts
    /\ \A e \in Directions : v.boundary[e] =
          IF e = f.dir /\ w.boundary[e] = NoBoundary
          THEN [at |-> f.at, reason |-> "APPLICATION_DATA_OBSERVED"]
          ELSE w.boundary[e]

(* A handshake record that overflows the buffer.                            *)
Dropped(w, f, v) ==
    /\ ~IsEncrypted(w, f) /\ ~f.ambiguous /\ f.type = "handshake"
    /\ v \in Walks /\ SameBuffers(w, v) /\ SameTold(w, v) /\ v.boundary = w.boundary
    /\ v.overflow = w.overflow \cup {f.dir} /\ v.ccs = w.ccs /\ v.alerts = w.alerts

(* Messages of what was heard.                                              *)
LEMMA HeardGood ==
    ASSUME NEW version, NEW resumed, NEW s \in Seq(Units), Heard(version, resumed, s),
           NEW C, C = Complete(ParseMessages(s))
    PROVE  C \in Seq(Messages) /\ \A i \in DOMAIN C : Good(version, resumed, C[i])
<1>1. /\ C \in Seq(Messages)
      /\ \A i \in DOMAIN C : C[i].complete /\ ReadFrom(s, C[i])
  BY AnyParse
<1>2. ASSUME NEW i \in DOMAIN C PROVE Good(version, resumed, C[i])
  <2> DEFINE m == C[i]
  <2>1. m.complete /\ ReadFrom(s, m)
    BY <1>1
  <2> HIDE DEF m
  <2>2. PICK k \in 1..Len(s) : s[k].msg = m.msg /\ s[k].part = 1 /\ s[k].msg # "secret"
                               /\ (s[k].of = 1 => m.whole)
    BY ONLY <2>1 DEF ReadFrom
  <2>3. MayTell(version, resumed, s[k].msg, s[k].of)
    BY DEF Heard
  <2>4. Good(version, resumed, m)
    BY ONLY <2>2, <2>3 DEF MayTell, Good, IsHello
  <2> QED
    BY ONLY <2>4 DEF m
<1> QED
  BY <1>1, <1>2

(* A record that fits adds nothing unheard of.                              *)
LEMMA HeardOn ==
    ASSUME NEW version, NEW resumed, NEW a \in Seq(Units), Heard(version, resumed, a),
           NEW r \in Records, RecordFits(version, resumed, r), r.type = "handshake",
           NEW b \in Seq(Units), Begins(b, r.body)
    PROVE  a \o b \in Seq(Units) /\ Heard(version, resumed, a \o b)
<1>1. /\ a \o b \in Seq(Units) /\ Len(a \o b) = Len(a) + Len(b)
      /\ \A i \in 1..(Len(a) + Len(b)) :
            (a \o b)[i] = IF i <= Len(a) THEN a[i] ELSE b[i - Len(a)]
  BY Joined
<1>2. \A i \in 1..Len(b) : MayTell(version, resumed, b[i].msg, b[i].of)
  <2>1. r.body \in Seq(Units)
    BY DEF Records
  <2> QED
    BY <2>1 DEF RecordFits, Begins
<1> DEFINE c == a \o b
<1> HIDE DEF c
<1>3. \A i \in 1..(Len(a) + Len(b)) : c[i] = IF i <= Len(a) THEN a[i] ELSE b[i - Len(a)]
  BY ONLY <1>1 DEF c
<1>4. Len(a) \in Nat /\ Len(b) \in Nat
  OBVIOUS
<1>5. ASSUME NEW i \in 1..(Len(a) + Len(b)) PROVE MayTell(version, resumed, c[i].msg, c[i].of)
  <2>1. CASE i <= Len(a)
    <3>1. i \in 1..Len(a)
      BY ONLY <1>4, <2>1, i \in 1..(Len(a) + Len(b))
    <3>2. c[i] = a[i]
      BY ONLY <1>3, <2>1, i \in 1..(Len(a) + Len(b))
    <3> QED
      BY ONLY <3>1, <3>2, Heard(version, resumed, a) DEF Heard
  <2>2. CASE ~(i <= Len(a))
    <3>1. i - Len(a) \in 1..Len(b)
      BY ONLY <1>4, <2>2, i \in 1..(Len(a) + Len(b))
    <3>2. c[i] = b[i - Len(a)]
      BY ONLY <1>3, <2>2, i \in 1..(Len(a) + Len(b))
    <3> QED
      BY ONLY <1>2, <3>1, <3>2
  <2> QED
    BY ONLY <2>1, <2>2
<1>6. Heard(version, resumed, c)
  <2>1. Len(c) = Len(a) + Len(b)
    BY ONLY <1>1 DEF c
  <2> QED
    BY ONLY <1>5, <2>1 DEF Heard
<1> QED
  BY ONLY <1>1, <1>6 DEF c

(* A handshake record that is taken.                                        *)
TakenAs(version, resumed, w, f, v) ==
    \E s \in Seq(Units), C \in Seq(Messages) :
       /\ Heard(version, resumed, s) /\ (f.dir = "client" => Heard(None, resumed, s))
       /\ Taken(version, resumed, w, f, v, s, C)

(* One of the five.                                                         *)
AnyRead(version, resumed, w, f, v) ==
    \/ Passed(w, f, v) \/ ReadCcs(w, f, v) \/ ReadAppData(w, f, v) \/ Dropped(w, f, v)
    \/ TakenAs(version, resumed, w, f, v)

(* The five things that can happen to the next record, whatever state the   *)
(* walk is in.                                                              *)
LEMMA RecordRead ==
    ASSUME NEW version, NEW resumed, NEW pos, NEW w, Basic(version, resumed, pos, w),
           NEW f \in Fragments, NEW r \in Records, RecordFits(version, resumed, r),
           f.dir = "client" => RecordFits(None, resumed, r), f.type = r.type, Begins(f.body, r.body), NEW v, v = WalkRecord(w, f)
    PROVE  AnyRead(version, resumed, w, f, v)
<1>1. /\ w \in Walks /\ Sound(version, resumed, w) /\ f.dir \in Directions
      /\ f.type \in Types /\ f.body \in Seq(Units) /\ w.stream[f.dir] \in Seq(Units)
      /\ Heard(version, resumed, w.stream[f.dir])
  BY DEF Basic, Fragments, Walks
<1>2. CASE IsEncrypted(w, f) \/ f.ambiguous \/ f.type = "alert"
  <2>1. Passed(w, f, v)
    BY <1>1, <1>2, QuietRead DEF Passed
  <2> QED
    BY ONLY <2>1 DEF AnyRead
<1>3. CASE ~IsEncrypted(w, f) /\ ~f.ambiguous /\ f.type = "ccs"
  <2>1. ReadCcs(w, f, v)
    BY <1>1, <1>3, CcsRead DEF ReadCcs
  <2> QED
    BY ONLY <2>1 DEF AnyRead
<1>4. CASE ~IsEncrypted(w, f) /\ ~f.ambiguous /\ f.type = "appdata"
  <2>1. ReadAppData(w, f, v)
    BY <1>1, <1>4, AppDataRead DEF ReadAppData
  <2> QED
    BY ONLY <2>1 DEF AnyRead
<1>5. CASE ~IsEncrypted(w, f) /\ ~f.ambiguous /\ f.type = "handshake"
  <2> DEFINE s == w.stream[f.dir] \o f.body
             C == Complete(ParseMessages(s))
  <2>1. s \in Seq(Units) /\ Heard(version, resumed, s)
    BY <1>1, <1>5, HeardOn
  <2>4. f.dir = "client" => Heard(None, resumed, s)
    <3> SUFFICES ASSUME f.dir = "client" PROVE Heard(None, resumed, s)
      OBVIOUS
    <3>1. Heard(None, resumed, w.stream[f.dir])
      BY DEF Basic
    <3> QED
      BY <1>1, <1>5, <3>1, HeardOn
  <2>2. CASE Len(w.stream[f.dir]) + Len(f.body) > MaxHandshake
    <3>1. Dropped(w, f, v)
      BY ONLY <1>1, <1>5, <2>2, OverflowRead, f \in Fragments, v = WalkRecord(w, f) DEF Dropped
    <3> QED
      BY ONLY <3>1 DEF AnyRead
  <2>3. CASE ~(Len(w.stream[f.dir]) + Len(f.body) > MaxHandshake)
    <3>1. s = w.stream[f.dir] \o f.body /\ C = Complete(ParseMessages(s))
      OBVIOUS
    <3> HIDE DEF s, C
    <3>2. C \in Seq(Messages) /\ \A i \in DOMAIN C : Good(version, resumed, C[i])
      BY ONLY <2>1, <3>1, HeardGood
    <3>3. Taken(version, resumed, w, f, v, s, C)
      BY ONLY <1>1, <1>5, <2>3, <3>1, <3>2, HandshakeRead, f \in Fragments, v = WalkRecord(w, f)
    <3> QED
      BY ONLY <2>1, <2>4, <3>2, <3>3 DEF AnyRead, TakenAs
  <2> QED
    BY <2>2, <2>3
<1> QED
  BY <1>1, <1>2, <1>3, <1>4, <1>5 DEF Types

(* One record further in its direction.                                     *)
Further(pos, f, q) ==
    /\ pos \in [Directions -> Nat] /\ f.dir \in Directions /\ f.at = pos[f.dir]
    /\ q = [pos EXCEPT ![f.dir] = f.at + 1]

(* The position moves in the record's direction only.                       *)
LEMMA FurtherOn ==
    ASSUME NEW pos, NEW f, NEW q, Further(pos, f, q)
    PROVE  /\ q \in [Directions -> Nat] /\ q[f.dir] = pos[f.dir] + 1 /\ f.at \in Nat
           /\ \A d \in Directions : pos[d] \in Nat /\ q[d] \in Nat /\ pos[d] <= q[d]
           /\ \A d \in Directions : d # f.dir => q[d] = pos[d]
<1>1. pos[f.dir] \in Nat /\ f.at = pos[f.dir]
  BY DEF Further
<1> QED
  BY <1>1 DEF Further

(* What does not concern the messages stays as it was.                      *)
LEMMA BasicKept ==
    ASSUME NEW version, NEW resumed, NEW pos, NEW w, Basic(version, resumed, pos, w), NEW f, NEW q,
           Further(pos, f, q), NEW v, v \in Walks, SameBuffers(w, v), SameTold(w, v),
           \A d \in Directions : \/ v.boundary[d] = w.boundary[d]
                                 \/ v.boundary[d].at \in 0..q[d],
           \A a \in v.alerts : a \in w.alerts \/ ~a.fatal \/ version = None
    PROVE  Basic(version, resumed, q, v)
<1>1. \A d \in Directions : pos[d] \in Nat /\ q[d] \in Nat /\ pos[d] <= q[d]
  BY FurtherOn
<1>2. Sound(version, resumed, v)
  BY DEF Basic, Sound, SameTold
<1>3. ASSUME NEW d \in Directions
      PROVE  /\ Heard(version, resumed, v.stream[d])
             /\ v.end[d] <= q[d]
             /\ v.boundary[d] = NoBoundary \/ v.boundary[d].at \in 0..q[d]
             /\ \A i \in DOMAIN v.handled[d] : Told(v, v.handled[d][i])
  <2>1. Heard(version, resumed, v.stream[d])
    BY DEF Basic, SameBuffers
  <2>2. v.end[d] <= q[d]
    <3>1. v.end[d] = w.end[d] /\ w.end[d] <= pos[d]
      BY DEF Basic, SameBuffers
    <3>2. w.end[d] \in Nat
      BY DEF Basic, Walks
    <3> QED
      BY ONLY <1>1, <3>1, <3>2, d \in Directions
  <2>3. v.boundary[d] = NoBoundary \/ v.boundary[d].at \in 0..q[d]
    <3>1. w.boundary[d] = NoBoundary \/ w.boundary[d].at \in 0..pos[d]
      BY DEF Basic
    <3>2. \A n : n \in 0..pos[d] => n \in 0..q[d]
      BY <1>1
    <3> QED
      BY <3>1, <3>2
  <2>4. \A i \in DOMAIN v.handled[d] : Told(v, v.handled[d][i])
    <3>1. \A i \in DOMAIN w.handled[d] : Told(w, w.handled[d][i])
      BY DEF Basic
    <3>2. v.handled[d] = w.handled[d]
      BY DEF SameBuffers
    <3>3. Grown(w, v)
      BY DEF SameTold, Grown
    <3> QED
      BY ONLY <3>1, <3>2, <3>3, ToldStays
  <2> QED
    BY ONLY <2>1, <2>2, <2>3, <2>4
<1>4. \A a \in v.alerts : a.fatal => version = None
  BY DEF Basic
<1>5. Heard(None, resumed, v.stream["client"])
  BY DEF Basic, SameBuffers
<1> QED
  BY ONLY <1>2, <1>3, <1>4, <1>5, v \in Walks DEF Basic

(* A handshake record that is taken keeps Basic.                            *)
LEMMA BasicTaken ==
    ASSUME NEW version, NEW resumed, NEW pos, NEW w, Basic(version, resumed, pos, w), NEW f, NEW q,
           Further(pos, f, q), NEW v, TakenAs(version, resumed, w, f, v)
    PROVE  Basic(version, resumed, q, v)
<1>0. PICK s \in Seq(Units), C \in Seq(Messages) :
         /\ Heard(version, resumed, s) /\ (f.dir = "client" => Heard(None, resumed, s))
         /\ Taken(version, resumed, w, f, v, s, C)
  BY DEF TakenAs
<1>1. /\ \A d \in Directions : pos[d] \in Nat /\ q[d] \in Nat /\ pos[d] <= q[d]
      /\ q[f.dir] = pos[f.dir] + 1 /\ f.dir \in Directions /\ f.at = pos[f.dir]
  BY FurtherOn DEF Further
<1>2. v \in Walks /\ w \in Walks /\ Sound(version, resumed, v) /\ Grown(w, v)
      /\ v.alerts = w.alerts /\ C = Complete(ParseMessages(s))
  BY <1>0 DEF Taken, Basic
<1>3. /\ w.stream \in [Directions -> Seq(Units)] /\ w.end \in [Directions -> Nat]
      /\ v.stream = [w.stream EXCEPT ![f.dir] = s]
      /\ v.end = [w.end EXCEPT ![f.dir] = f.at + 1]
  BY <1>0, <1>2 DEF Walks, Taken
<1>4. ASSUME NEW d \in Directions
      PROVE  /\ Heard(version, resumed, v.stream[d]) /\ v.end[d] <= q[d] /\ v.end[d] \in Nat
             /\ d = "client" => Heard(None, resumed, v.stream[d])
  <2>1. CASE d = f.dir
    <3>1. v.stream[d] = s /\ v.end[d] = f.at + 1
      BY <1>3, <2>1
    <3> QED
      BY <1>0, <1>1, <2>1, <3>1
  <2>2. CASE d # f.dir
    <3>1. v.stream[d] = w.stream[d] /\ v.end[d] = w.end[d]
      BY <1>3, <2>2
    <3>2. /\ Heard(version, resumed, w.stream[d]) /\ w.end[d] <= pos[d] /\ w.end[d] \in Nat
          /\ d = "client" => Heard(None, resumed, w.stream[d])
      BY <1>3 DEF Basic
    <3> QED
      BY <1>1, <3>1, <3>2
  <2> QED
    BY <2>1, <2>2
<1>5. f.dir = "client" => v.boundary = w.boundary
  <2> SUFFICES ASSUME f.dir = "client" PROVE v.boundary = w.boundary
    OBVIOUS
  <2>1. \A i \in DOMAIN C : Good(None, resumed, C[i])
    BY <1>0, <1>2, HeardGood
  <2>2. \A i \in DOMAIN C : C[i].msg # "SH13"
    BY <2>1 DEF Good, ServerHellos, None
  <2> QED
    BY <1>0, <2>2 DEF Taken
<1>6. ASSUME NEW d \in Directions
      PROVE  v.boundary[d] = NoBoundary \/ v.boundary[d].at \in 0..q[d]
  <2>1. CASE v.boundary[d] = w.boundary[d]
    <3>1. w.boundary[d] = NoBoundary \/ w.boundary[d].at \in 0..pos[d]
      BY DEF Basic
    <3>2. \A n : n \in 0..pos[d] => n \in 0..q[d]
      BY <1>1
    <3> QED
      BY ONLY <2>1, <3>1, <3>2
  <2>2. CASE f.dir = "server" /\ v.boundary[d].at = IF d = "server" THEN f.at + 1 ELSE v.end["client"]
    <3>1. CASE d = "server"
      BY <1>1, <2>2, <3>1
    <3>2. CASE d = "client"
      BY <1>4, <1>1, <2>2, <3>2
    <3> QED
      BY <3>1, <3>2 DEF Directions
  <2> QED
    BY <1>0, <1>1, <1>5, <2>1, <2>2 DEF Taken, Directions
<1>7. ASSUME NEW d \in Directions, NEW i \in DOMAIN v.handled[d]
      PROVE  Told(v, v.handled[d][i])
  <2>1. \A j \in DOMAIN w.handled[d] : Told(w, w.handled[d][j])
    BY DEF Basic
  <2>2. \A j \in DOMAIN w.handled[d] : Told(v, w.handled[d][j])
    BY ONLY <1>2, <2>1, ToldStays
  <2>3. CASE d = f.dir
    <3>1. \A j \in DOMAIN w.handled[d] : j \in DOMAIN v.handled[d] /\ v.handled[d][j] = w.handled[d][j]
      BY <1>0, <2>3 DEF Taken, Extends
    <3>2. i \in DOMAIN w.handled[d] \/ Told(v, v.handled[d][i])
      BY <1>0, <2>3 DEF Taken
    <3> QED
      BY <2>2, <3>1, <3>2
  <2>4. CASE d # f.dir
    <3>1. v.handled[d] = w.handled[d]
      BY <1>0, <2>4 DEF Taken
    <3> QED
      BY <2>2, <3>1
  <2> QED
    BY <2>3, <2>4
<1>8. \A a \in v.alerts : a.fatal => version = None
  BY <1>2 DEF Basic
<1>9. "client" \in Directions
  BY DEF Directions
<1> QED
  BY ONLY <1>2, <1>4, <1>6, <1>7, <1>8, <1>9 DEF Basic

(* Every record read keeps Basic.                                           *)
LEMMA BasicRead ==
    ASSUME NEW version, NEW resumed, NEW pos, NEW w, Basic(version, resumed, pos, w),
           NEW f \in Fragments, NEW q, Further(pos, f, q),
           NEW r \in Records, RecordFits(version, resumed, r),
           f.type = r.type, Begins(f.body, r.body),
           NEW v, AnyRead(version, resumed, w, f, v)
    PROVE  Basic(version, resumed, q, v)
<1>1. f.at \in Nat /\ q[f.dir] = f.at + 1
  BY FurtherOn DEF Further
<1>2. CASE Passed(w, f, v)
  <2>1. f.type = "alert" /\ f.body # << >> /\ f.body[1].msg = "fatal" => version = None
    <3> SUFFICES ASSUME f.type = "alert", f.body # << >>, f.body[1].msg = "fatal"
                 PROVE  version = None
      OBVIOUS
    <3>1. f.body \in Seq(Units) /\ r.body \in Seq(Units)
      BY DEF Fragments, Records
    <3>2. Len(f.body) >= 1 /\ 1 \in 1..Len(f.body)
      BY <3>1
    <3>3. Len(r.body) >= 1 /\ r.body[1] = f.body[1]
      BY <3>1, <3>2 DEF Begins
    <3> QED
      BY <3>3 DEF RecordFits
  <2>2. \A a \in v.alerts : a \in w.alerts \/ ~a.fatal \/ version = None
    BY <1>2, <2>1 DEF Passed
  <2>3. v \in Walks /\ SameBuffers(w, v) /\ SameTold(w, v) /\ v.boundary = w.boundary
    BY <1>2 DEF Passed
  <2> QED
    BY ONLY <2>2, <2>3, BasicKept, Basic(version, resumed, pos, w), Further(pos, f, q)
<1>3. CASE ReadCcs(w, f, v)
  <2>1. v \in Walks /\ SameBuffers(w, v) /\ SameTold(w, v) /\ v.alerts = w.alerts
    BY <1>3 DEF ReadCcs
  <2>2. \A d \in Directions : v.boundary[d] = w.boundary[d] \/ v.boundary[d].at \in 0..q[d]
    BY <1>1, <1>3 DEF ReadCcs
  <2> QED
    BY ONLY <2>1, <2>2, BasicKept, Basic(version, resumed, pos, w), Further(pos, f, q)
<1>4. CASE ReadAppData(w, f, v)
  <2>1. v \in Walks /\ SameBuffers(w, v) /\ SameTold(w, v) /\ v.alerts = w.alerts
    BY <1>4 DEF ReadAppData
  <2>2. \A d \in Directions : v.boundary[d] = w.boundary[d] \/ v.boundary[d].at \in 0..q[d]
    BY <1>1, <1>4 DEF ReadAppData
  <2> QED
    BY ONLY <2>1, <2>2, BasicKept, Basic(version, resumed, pos, w), Further(pos, f, q)
<1>5. CASE Dropped(w, f, v)
  <2>1. v \in Walks /\ SameBuffers(w, v) /\ SameTold(w, v) /\ v.alerts = w.alerts
        /\ v.boundary = w.boundary
    BY <1>5 DEF Dropped
  <2> QED
    BY ONLY <2>1, BasicKept, Basic(version, resumed, pos, w), Further(pos, f, q)
<1>6. CASE TakenAs(version, resumed, w, f, v)
  BY <1>6, BasicTaken
<1> QED
  BY <1>2, <1>3, <1>4, <1>5, <1>6 DEF AnyRead

-----------------------------------------------------------------------------
(* What holds of a direction whose start was captured.                      *)

(* The record of "list" that f was framed from, h of its records being      *)
(* there entirely.                                                          *)
IsRecord(list, n, h, f) ==
    /\ n \in 1..Len(list) /\ f.type = list[n].type /\ Begins(f.body, list[n].body)
    /\ f.at <= h
    /\ f.at < h => f.body = list[n].body /\ ~f.ambiguous

(* Past a boundary everything is encrypted.                                 *)
LEMMA PastBoundary ==
    ASSUME NEW version, NEW resumed, NEW pos, NEW w, Basic(version, resumed, pos, w), NEW f, NEW q,
           Further(pos, f, q), w.boundary[f.dir] # NoBoundary
    PROVE  IsEncrypted(w, f)
<1>1. f.dir \in Directions /\ f.at = pos[f.dir] /\ f.at \in Nat
  BY FurtherOn DEF Further
<1>2. w.boundary[f.dir].at \in 0..f.at
  BY <1>1 DEF Basic
<1> QED
  BY <1>1, <1>2 DEF IsEncrypted

(* A boundary, once set, is not moved.                                      *)
LEMMA BoundaryStays ==
    ASSUME NEW version, NEW resumed, NEW w, NEW f, NEW v, AnyRead(version, resumed, w, f, v),
           NEW d \in Directions, w.boundary[d] # NoBoundary
    PROVE  v.boundary[d] = w.boundary[d]
<1>1. CASE Passed(w, f, v)
  BY <1>1 DEF Passed
<1>2. CASE ReadCcs(w, f, v)
  BY <1>2 DEF ReadCcs
<1>3. CASE ReadAppData(w, f, v)
  BY <1>3 DEF ReadAppData
<1>4. CASE Dropped(w, f, v)
  BY <1>4 DEF Dropped
<1>5. CASE TakenAs(version, resumed, w, f, v)
  BY <1>5 DEF TakenAs, Taken
<1> QED
  BY <1>1, <1>2, <1>3, <1>4, <1>5 DEF AnyRead

(* The two walks have the same buffer in direction d.                       *)
SameIn(w, v, d) == v.stream[d] = w.stream[d] /\ v.handled[d] = w.handled[d]

(* The other direction's buffer.                                            *)
LEMMA OtherStays ==
    ASSUME NEW version, NEW resumed, NEW w \in Walks, NEW f, NEW v,
           AnyRead(version, resumed, w, f, v), NEW d \in Directions, d # f.dir
    PROVE  SameIn(w, v, d)
<1> SUFFICES v.stream[d] = w.stream[d] /\ v.handled[d] = w.handled[d]
  BY DEF SameIn
<1>1. CASE Passed(w, f, v)
  BY <1>1 DEF Passed, SameBuffers
<1>2. CASE ReadCcs(w, f, v)
  BY <1>2 DEF ReadCcs, SameBuffers
<1>3. CASE ReadAppData(w, f, v)
  BY <1>3 DEF ReadAppData, SameBuffers
<1>4. CASE Dropped(w, f, v)
  BY <1>4 DEF Dropped, SameBuffers
<1>5. CASE TakenAs(version, resumed, w, f, v)
  <2>1. PICK s, C : Taken(version, resumed, w, f, v, s, C)
    BY <1>5 DEF TakenAs
  <2>2. w.stream \in [Directions -> Seq(Units)] /\ v.stream = [w.stream EXCEPT ![f.dir] = s]
        /\ v.handled[d] = w.handled[d]
    BY <2>1 DEF Taken, Walks
  <2> QED
    BY <2>2
<1> QED
  BY <1>1, <1>2, <1>3, <1>4, <1>5 DEF AnyRead

(* No encrypted body was read, and the peer's ChangeCipherSpec was noticed. *)
Shielded(version, list, h, p, w, d) ==
    /\ \A i \in 1..Len(w.stream[d]) : w.stream[d][i].msg # "secret"
    /\ version # "SH13" /\ (\E n \in 1..Len(list) : n <= p /\ n <= h /\ list[n].type = "ccs")
       => w.boundary[d] # NoBoundary

(* Below TLS 1.3 a readable ChangeCipherSpec sets its direction's boundary. *)
LEMMA CcsNoticed ==
    ASSUME NEW version, version # "SH13", NEW resumed, NEW pos, NEW w,
           Basic(version, resumed, pos, w), NEW f, NEW q, Further(pos, f, q),
           NEW v, AnyRead(version, resumed, w, f, v), ~f.ambiguous, f.type = "ccs"
    PROVE  v.boundary[f.dir] # NoBoundary
<1>1. f.dir \in Directions /\ f.at \in Nat
  BY FurtherOn DEF Further
<1>2. CASE w.boundary[f.dir] # NoBoundary
  BY <1>1, <1>2, BoundaryStays
<1>3. CASE w.boundary[f.dir] = NoBoundary
  <2>1. ~IsEncrypted(w, f)
    BY <1>3 DEF IsEncrypted
  <2>2. ReadCcs(w, f, v)
    BY <2>1 DEF AnyRead, Passed, ReadAppData, Dropped, TakenAs, Taken
  <2>3. ~w.tls13 /\ w.serverHello # "SH13"
    BY DEF Basic, Sound, None
  <2>4. v.boundary[f.dir] = [at |-> f.at + 1, reason |-> "TLS12_CHANGE_CIPHER_SPEC"]
    BY <1>1, <1>3, <2>2, <2>3 DEF ReadCcs
  <2> QED
    BY <1>1, <2>4 DEF NoBoundary
<1> QED
  BY <1>2, <1>3

(* Every record read keeps Shielded: what comes after a ChangeCipherSpec is *)
(* past the boundary.                                                       *)
LEMMA ShieldedRead ==
    ASSUME NEW version, NEW resumed, NEW pos, NEW w, Basic(version, resumed, pos, w),
           NEW f, NEW q, Further(pos, f, q), NEW v, AnyRead(version, resumed, w, f, v),
           f.body \in Seq(Units),
           NEW list, ListFits(version, resumed, list), NEW h \in Nat, NEW d \in Directions,
           f.dir = d => IsRecord(list, f.at + 1, h, f),
           Shielded(version, list, h, pos[d], w, d)
    PROVE  Shielded(version, list, h, q[d], v, d)
<1>1. /\ pos[d] \in Nat /\ q[d] \in Nat /\ f.dir \in Directions /\ f.at = pos[f.dir]
      /\ f.at \in Nat /\ q[f.dir] = pos[f.dir] + 1 /\ (d # f.dir => q[d] = pos[d])
  BY FurtherOn DEF Further
<1>2. w \in Walks /\ list \in Seq(Records)
  BY DEF Basic, ListFits
<1>3. w.boundary[d] # NoBoundary => v.boundary[d] # NoBoundary
  BY BoundaryStays
<1>4. CASE d # f.dir
  <2>1. v.stream[d] = w.stream[d] /\ q[d] = pos[d]
    BY <1>1, <1>2, <1>4, OtherStays DEF SameIn
  <2> QED
    BY <1>3, <2>1 DEF Shielded
<1>5. CASE d = f.dir
  <2>1. IsRecord(list, f.at + 1, h, f) /\ f.at = pos[d] /\ q[d] = f.at + 1
    BY <1>1, <1>5
  <2>2. ASSUME version # "SH13", NEW n \in 1..Len(list), n <= q[d], n <= h, list[n].type = "ccs"
        PROVE  v.boundary[d] # NoBoundary
    <3>1. CASE n <= pos[d]
      BY <1>3, <2>2, <3>1 DEF Shielded
    <3>2. CASE ~(n <= pos[d])
      <4>1. n = f.at + 1 /\ f.at < h
        BY <1>1, <2>1, <2>2, <3>2
      <4>2. f.type = "ccs" /\ ~f.ambiguous
        BY <2>1, <2>2, <4>1 DEF IsRecord
      <4> QED
        BY <1>5, <2>2, <4>2, CcsNoticed
    <3> QED
      BY <3>1, <3>2
  <2>3. CASE TakenAs(version, resumed, w, f, v)
    <3>1. PICK s, C : Taken(version, resumed, w, f, v, s, C)
      BY <2>3 DEF TakenAs
    <3>2. /\ w.stream \in [Directions -> Seq(Units)] /\ v.stream = [w.stream EXCEPT ![f.dir] = s]
          /\ s = w.stream[f.dir] \o f.body /\ ~IsEncrypted(w, f) /\ f.type = "handshake"
      BY <1>2, <3>1 DEF Taken, Walks
    <3>3. v.stream[d] = s /\ s = w.stream[d] \o f.body /\ w.stream[d] \in Seq(Units)
      BY <1>5, <3>2
    <3> DEFINE r == list[f.at + 1]
    <3>4. f.at + 1 \in 1..Len(list) /\ r \in Records /\ r.type = "handshake"
          /\ Begins(f.body, r.body) /\ f.at <= h
      BY <1>2, <2>1, <3>2 DEF IsRecord
    <3>5. w.boundary[d] = NoBoundary
      BY <1>5, <3>2, PastBoundary
    <3>6. ~r.secret
      <4> SUFFICES ASSUME r.secret PROVE FALSE
        OBVIOUS
      <4>1. f.at + 1 > 1 /\ version # "SH13" /\ list[(f.at + 1) - 1].type = "ccs"
        BY <3>4 DEF ListFits
      <4>0. Len(list) \in Nat /\ f.at + 1 \in 1..Len(list) /\ f.at <= h
        BY <1>2, <3>4
      <4>2. (f.at + 1) - 1 = f.at /\ f.at \in 1..Len(list) /\ f.at <= pos[d] /\ f.at <= h
        BY ONLY <1>1, <1>5, <4>0, <4>1, h \in Nat
      <4>3. list[f.at].type = "ccs"
        BY <4>1, <4>2
      <4> QED
        BY <3>5, <4>1, <4>2, <4>3 DEF Shielded
    <3>7. \A i \in 1..Len(r.body) : r.body[i].msg # "secret"
      <4>1. RecordFits(version, resumed, r)
        BY <3>4 DEF ListFits
      <4> QED
        BY <3>4, <3>6, <4>1 DEF RecordFits
    <3>8. \A i \in 1..Len(f.body) : f.body[i].msg # "secret"
      <4> DEFINE b == f.body
                 c == r.body
      <4>1. Len(b) \in Nat /\ Len(c) \in Nat /\ Begins(b, c)
        BY <3>4 DEF Records
      <4>2. \A i \in 1..Len(c) : c[i].msg # "secret"
        BY <3>7
      <4> HIDE DEF b, c
      <4>3. \A i \in 1..Len(b) : i \in 1..Len(c) /\ b[i] = c[i]
        BY ONLY <4>1 DEF Begins
      <4>4. \A i \in 1..Len(b) : b[i].msg # "secret"
        BY ONLY <4>2, <4>3
      <4> QED
        BY ONLY <4>4 DEF b
    <3> DEFINE a == w.stream[d]
    <3>9. \A i \in 1..Len(a) : a[i].msg # "secret"
      BY DEF Shielded
    <3>10. a \in Seq(Units) /\ s = a \o f.body
      BY <3>3
    <3> HIDE DEF a
    <3>11. Len(a) \in Nat /\ Len(f.body) \in Nat /\ Len(s) = Len(a) + Len(f.body)
           /\ \A i \in 1..(Len(a) + Len(f.body)) : s[i] = IF i <= Len(a) THEN a[i]
                                                          ELSE f.body[i - Len(a)]
      <4>1. Len(a) \in Nat /\ Len(f.body) \in Nat
        BY <3>10
      <4> QED
        BY ONLY <4>1, <3>10, Joined, f.body \in Seq(Units)
    <3>12. ASSUME NEW i \in 1..Len(s) PROVE s[i].msg # "secret"
      <4>1. CASE i <= Len(a)
        <5>1. i \in 1..Len(a) /\ s[i] = a[i]
          BY ONLY <3>11, <4>1, i \in 1..Len(s)
        <5> QED
          BY ONLY <3>9, <5>1
      <4>2. CASE ~(i <= Len(a))
        <5>1. i - Len(a) \in 1..Len(f.body) /\ s[i] = f.body[i - Len(a)]
          BY ONLY <3>11, <4>2, i \in 1..Len(s)
        <5> QED
          BY ONLY <3>8, <5>1
      <4> QED
        BY ONLY <4>1, <4>2
    <3> QED
      BY ONLY <2>2, <3>3, <3>12 DEF Shielded
  <2>4. CASE ~TakenAs(version, resumed, w, f, v)
    <3>1. v.stream = w.stream
      BY <2>4 DEF AnyRead, Passed, ReadCcs, ReadAppData, Dropped, SameBuffers
    <3>2. \A i \in 1..Len(v.stream[d]) : v.stream[d][i].msg # "secret"
      BY <3>1 DEF Shielded
    <3> QED
      BY ONLY <2>2, <3>2 DEF Shielded
  <2> QED
    BY <2>3, <2>4
<1> QED
  BY <1>4, <1>5

-----------------------------------------------------------------------------
(* The records on the wire, and the order in which they are read.           *)

(* Entries of the wire, and how many of each direction there are.           *)
Entries == [dir : Directions, n : Nat \ {0}]

Counted(w) == [d \in Directions |-> Cardinality({i \in DOMAIN w : w[i].dir = d})]

(* The records of w are the first ones of each direction, in their order.   *)
WireFits(w, sent, sends) ==
    /\ w \in Seq(Entries) /\ sent \in [Directions -> Nat]
    /\ \A d \in Directions : sent[d] <= Len(sends[d])
    /\ \A i \in 1..Len(w), d \in Directions : w[i].dir = d => w[i].n <= sent[d]
    /\ \A i, j \in 1..Len(w) : i < j /\ w[i].dir = w[j].dir => w[i].n < w[j].n
    /\ \A d \in Directions, k \in Nat \ {0} :
          k <= sent[d] => \E i \in 1..Len(w) : w[i].dir = d /\ w[i].n = k

WireOK == WireFits(wire, Counted(wire), scenario.sends)

(* f is a record that was framed, and not read when "pos" are.              *)
ToRead(f, sends, sk, h, st, pos) ==
    /\ f.dir \in Directions /\ f.at \in Nat
    /\ pos[f.dir] <= f.at /\ f.at < Framed(h[f.dir], st[f.dir])
    /\ f.at + 1 + sk[f.dir] \in 1..Len(sends[f.dir])
    /\ f = Frame(f.dir, f.at, sends[f.dir][f.at + 1 + sk[f.dir]], h[f.dir], st[f.dir])

(* td is what is left to read: each direction from pos on, in order, with   *)
(* none left out.                                                           *)
Reading(td, sends, sk, h, st, pos) ==
    /\ td \in Seq(Fragments) /\ pos \in [Directions -> Nat]
    /\ \A i \in 1..Len(td) : ToRead(td[i], sends, sk, h, st, pos)
    /\ \A i, j \in 1..Len(td) : i < j /\ td[i].dir = td[j].dir => td[i].at < td[j].at
    /\ \A d \in Directions, at \in Nat :
          pos[d] <= at /\ at < Framed(h[d], st[d]) =>
             \E i \in 1..Len(td) : td[i].dir = d /\ td[i].at = at

(* How many records the framer delivers.                                    *)
LEMMA FramedBounds ==
    ASSUME NEW n \in Nat, NEW st
    PROVE  /\ Framed(n, st) \in Nat /\ Framed(n, st) <= MaxRecords /\ Framed(n, st) <= n + 1
           /\ ~FramesOneMore(st) => Framed(n, st) <= n
           /\ n <= MaxRecords => n <= Framed(n, st)
BY TlsLimitsAssumption DEF Framed

(* The first record to read is the next one of its direction.               *)
LEMMA NextRead ==
    ASSUME NEW td, NEW sends, NEW sk, NEW h \in [Directions -> Nat], NEW st, NEW pos,
           Reading(td, sends, sk, h, st, pos), td # << >>
    PROVE  LET f == Head(td)
               q == [pos EXCEPT ![f.dir] = f.at + 1]
           IN  /\ f \in Fragments /\ ToRead(f, sends, sk, h, st, pos) /\ Further(pos, f, q)
               /\ Reading(Tail(td), sends, sk, h, st, q)
<1> DEFINE f == Head(td)
           q == [pos EXCEPT ![f.dir] = f.at + 1]
           L == Len(td)
<1>1. /\ td \in Seq(Fragments) /\ L \in Nat /\ L >= 1 /\ 1 \in 1..L /\ f = td[1] /\ f \in Fragments
      /\ Tail(td) \in Seq(Fragments) /\ Len(Tail(td)) = L - 1
      /\ \A i \in 1..(L - 1) : Tail(td)[i] = td[i + 1]
  BY DEF Reading
<1> HIDE DEF f
<1>2. ToRead(f, sends, sk, h, st, pos) /\ pos \in [Directions -> Nat]
  BY <1>1 DEF Reading
<1>3. f.dir \in Directions /\ f.at \in Nat /\ pos[f.dir] \in Nat /\ pos[f.dir] <= f.at
      /\ f.at < Framed(h[f.dir], st[f.dir])
  BY <1>2 DEF ToRead
<1>a. \A d \in Directions, at \in Nat :
         pos[d] <= at /\ at < Framed(h[d], st[d]) => \E i \in 1..L : td[i].dir = d /\ td[i].at = at
  BY DEF Reading
<1>b. \A i, j \in 1..L : i < j /\ td[i].dir = td[j].dir => td[i].at < td[j].at
  BY DEF Reading
<1>4. f.at = pos[f.dir]
  <2>0. SUFFICES ASSUME pos[f.dir] < f.at PROVE FALSE
    BY <1>3
  <2> DEFINE e == f.dir
             a == pos[e]
             n == Framed(h[e], st[e])
  <2>1. e \in Directions /\ a \in Nat /\ a <= a /\ a < n
    <3>1. n \in Nat
      BY <1>3, FramedBounds
    <3> QED
      BY <1>3, <2>0, <3>1
  <2> HIDE DEF n
  <2>2. PICK i \in 1..L : td[i].dir = e /\ td[i].at = a
    <3> HIDE DEF e, a
    <3> QED
      BY ONLY <1>a, <2>1 DEF n, a
  <2>3. td[1].dir = e /\ td[1].at \in Nat /\ a < td[1].at
    BY ONLY <1>1, <1>3, <2>0
  <2> HIDE DEF e, a
  <2>4. 1 < i
    BY ONLY <1>1, <2>1, <2>2, <2>3
  <2>5. td[1].at < td[i].at
    BY ONLY <1>1, <1>b, <2>2, <2>3, <2>4
  <2> QED
    BY ONLY <2>1, <2>2, <2>3, <2>5
<1>5. Further(pos, f, q)
  BY <1>2, <1>3, <1>4 DEF Further
<1>6. q \in [Directions -> Nat] /\ q[f.dir] = f.at + 1
      /\ \A d \in Directions : d # f.dir => q[d] = pos[d]
  BY <1>2, <1>3
<1> DEFINE tl == Tail(td)
<1>7. /\ tl \in Seq(Fragments) /\ Len(tl) = L - 1
      /\ \A i \in 1..(L - 1) : tl[i] = td[i + 1] /\ i + 1 \in 1..L /\ 1 < i + 1
  BY <1>1
<1> HIDE DEF q, tl
<1>8. ASSUME NEW i \in 1..Len(tl) PROVE ToRead(tl[i], sends, sk, h, st, q)
  <2> DEFINE g == tl[i]
  <2>1. g = td[i + 1] /\ i + 1 \in 1..L /\ 1 < i + 1
    BY <1>7
  <2>2. ToRead(g, sends, sk, h, st, pos)
    BY <2>1 DEF Reading
  <2>3. g.dir = f.dir => f.at < g.at
    BY <1>1, <2>1 DEF Reading
  <2> HIDE DEF g
  <2>4. q[g.dir] <= g.at
    BY <1>3, <1>6, <2>2, <2>3 DEF ToRead
  <2>5. ToRead(g, sends, sk, h, st, q)
    BY ONLY <2>2, <2>4 DEF ToRead
  <2> QED
    BY <2>5 DEF g
<1>9. ASSUME NEW i \in 1..Len(tl), NEW j \in 1..Len(tl), i < j, tl[i].dir = tl[j].dir
      PROVE  tl[i].at < tl[j].at
  <2>1. i + 1 < j + 1 /\ tl[i] = td[i + 1] /\ tl[j] = td[j + 1] /\ i + 1 \in 1..L /\ j + 1 \in 1..L
    BY <1>1, <1>7, <1>9
  <2> QED
    BY <1>9, <2>1 DEF Reading
<1>10. ASSUME NEW d \in Directions, NEW at \in Nat, q[d] <= at, at < Framed(h[d], st[d])
       PROVE  \E i \in 1..Len(tl) : tl[i].dir = d /\ tl[i].at = at
  <2>1. pos[d] <= at /\ ~(d = f.dir /\ at = f.at)
    <3>1. CASE d = f.dir
      BY <1>3, <1>6, <1>10, <3>1
    <3>2. CASE d # f.dir
      BY <1>6, <1>10, <3>2
    <3> QED
      BY <3>1, <3>2
  <2>2. PICK i \in 1..L : td[i].dir = d /\ td[i].at = at
    BY <1>10, <2>1 DEF Reading
  <2>3. i # 1
    BY <1>1, <2>1, <2>2
  <2>4. i - 1 \in 1..(L - 1) /\ (i - 1) + 1 = i
    BY <1>1, <2>3
  <2>5. tl[i - 1] = td[i]
    BY <1>7, <2>4
  <2> QED
    BY <1>7, <2>2, <2>4, <2>5
<1>11. Reading(tl, sends, sk, h, st, q)
  BY ONLY <1>6, <1>7, <1>8, <1>9, <1>10 DEF Reading
<1> QED
  BY <1>1, <1>2, <1>5, <1>11 DEF f, q, tl

(* The empty wire is in order.                                              *)
LEMMA WireStarts ==
    ASSUME NEW sends, \A d \in Directions : Len(sends[d]) \in Nat
    PROVE  WireFits(<< >>, Counted(<< >>), sends)
<1> DEFINE w == << >>
<1>1. w \in Seq(Entries) /\ Len(w) = 0 /\ 1..0 = {} /\ DOMAIN w = {}
  OBVIOUS
<1> HIDE DEF w
<1>2. ASSUME NEW d \in Directions PROVE Counted(w)[d] = 0
  <2>1. {i \in DOMAIN w : w[i].dir = d} = {}
    BY <1>1
  <2> QED
    BY <2>1, FS_EmptySet DEF Counted
<1>3. Counted(w) = [d \in Directions |-> 0]
  BY <1>2 DEF Counted
<1>4. WireFits(w, Counted(w), sends)
  BY <1>1, <1>3 DEF WireFits
<1> QED
  BY <1>4 DEF w

(* The next record of a direction keeps the wire in order: this is where    *)
(* Reorder = FALSE is needed.                                               *)
LEMMA WireGrows ==
    ASSUME NEW w, NEW sends, WireFits(w, Counted(w), sends), NEW d \in Directions,
           Counted(w)[d] + 1 <= Len(sends[d]), \A e \in Directions : Len(sends[e]) \in Nat
    PROVE  WireFits(Append(w, [dir |-> d, n |-> Counted(w)[d] + 1]),
                    Counted(Append(w, [dir |-> d, n |-> Counted(w)[d] + 1])), sends)
<1> DEFINE c == Counted(w)
           n == c[d] + 1
           entry == [dir |-> d, n |-> n]
           L == Len(w)
           v == Append(w, entry)
           b == Counted(v)
<1>1. /\ w \in Seq(Entries) /\ L \in Nat /\ c \in [Directions -> Nat] /\ n \in Nat \ {0}
      /\ n <= Len(sends[d]) /\ entry \in Entries /\ entry.dir = d /\ entry.n = n
  <2>1. w \in Seq(Entries) /\ c \in [Directions -> Nat]
    BY DEF WireFits
  <2>2. n \in Nat \ {0}
    BY <2>1
  <2> QED
    BY <2>1, <2>2 DEF Entries
<1>2. /\ v \in Seq(Entries) /\ Len(v) = L + 1 /\ v[L + 1] = entry
      /\ \A i \in 1..L : v[i] = w[i]
  BY <1>1
<1>3. DOMAIN w = 1..L /\ DOMAIN v = 1..(L + 1)
  BY <1>1, <1>2
<1>4. n = c[d] + 1 /\ c = Counted(w) /\ b = Counted(v) /\ L = Len(w)
  OBVIOUS
<1>5. WireFits(w, c, sends)
  OBVIOUS
<1> HIDE DEF c, n, entry, L, v, b
<1>6. ASSUME NEW e \in Directions
      PROVE  b[e] = IF e = d THEN n ELSE c[e]
  <2> DEFINE S == {i \in DOMAIN w : w[i].dir = e}
             R == {i \in DOMAIN v : v[i].dir = e}
  <2>1. IsFiniteSet(S)
    <3>1. S \subseteq 1..L /\ IsFiniteSet(1..L)
      BY <1>1, <1>3, FS_Interval
    <3> QED
      BY <3>1, FS_Subset
  <2>2. e # d => R = S
    BY <1>1, <1>2, <1>3
  <2>3. e = d => R = S \cup {L + 1}
    BY <1>1, <1>2, <1>3
  <2>4. L + 1 \notin S
    BY <1>1, <1>3
  <2>5. c[e] = Cardinality(S) /\ b[e] = Cardinality(R)
    BY <1>4 DEF Counted
  <2> HIDE DEF S, R
  <2>6. e = d => Cardinality(R) = Cardinality(S) + 1
    BY <2>1, <2>3, <2>4, FS_AddElement
  <2> QED
    BY ONLY <1>4, <2>2, <2>5, <2>6
<1>7. b = [e \in Directions |-> b[e]]
  BY <1>4 DEF Counted
<1>8. /\ b \in [Directions -> Nat] /\ b[d] = n /\ c[d] <= n
      /\ \A e \in Directions : b[e] <= Len(sends[e]) /\ c[e] <= b[e] /\ b[e] \in Nat /\ c[e] \in Nat
  <2>1. \A e \in Directions : c[e] <= Len(sends[e]) /\ c[e] \in Nat
    BY <1>1, <1>5 DEF WireFits
  <2>2. \A e \in Directions : b[e] <= Len(sends[e]) /\ c[e] <= b[e] /\ b[e] \in Nat /\ c[e] \in Nat
    BY <1>1, <1>4, <1>6, <2>1
  <2> QED
    BY <1>4, <1>6, <1>7, <2>1, <2>2
<1>9. \A i \in 1..(L + 1) : i = L + 1 \/ i \in 1..L
  BY <1>1
<1>10. \A i \in 1..L, e \in Directions : w[i].dir = e => w[i].n <= c[e]
  BY <1>4, <1>5 DEF WireFits
<1>11. \A i \in 1..L : w[i].n \in Nat /\ w[i].dir \in Directions
  <2>1. \A i \in 1..L : w[i] \in Entries
    BY <1>1, <1>4
  <2> QED
    BY <2>1 DEF Entries
<1>12. ASSUME NEW i \in 1..(L + 1), NEW e \in Directions, v[i].dir = e PROVE v[i].n <= b[e]
  <2>1. CASE i = L + 1
    <3>1. v[i].n = n /\ e = d
      BY <1>1, <1>2, <1>12, <2>1
    <3> QED
      BY <1>1, <1>8, <3>1
  <2>2. CASE i \in 1..L
    <3>1. v[i] = w[i] /\ w[i].n <= c[e]
      BY <1>2, <1>10, <1>12, <2>2
    <3> QED
      BY <1>8, <1>11, <2>2, <3>1
  <2> QED
    BY <1>9, <2>1, <2>2
<1>13. ASSUME NEW i \in 1..(L + 1), NEW j \in 1..(L + 1), i < j, v[i].dir = v[j].dir
       PROVE  v[i].n < v[j].n
  <2>1. i \in 1..L
    BY <1>1, <1>13
  <2>2. v[i] = w[i]
    BY <1>2, <2>1
  <2>3. CASE j = L + 1
    <3>1. v[j].n = n /\ v[j].dir = d
      BY <1>1, <1>2, <2>3
    <3>2. w[i].n <= c[d]
      BY <1>10, <1>13, <2>1, <2>2, <3>1
    <3> QED
      BY <1>4, <1>8, <1>11, <2>1, <2>2, <3>1, <3>2
  <2>4. CASE j \in 1..L
    BY <1>2, <1>4, <1>5, <1>13, <2>1, <2>2, <2>4 DEF WireFits
  <2> QED
    BY <1>9, <2>3, <2>4
<1>14. ASSUME NEW e \in Directions, NEW k \in Nat \ {0}, k <= b[e]
       PROVE  \E i \in 1..(L + 1) : v[i].dir = e /\ v[i].n = k
  <2>1. CASE k <= c[e]
    <3>1. PICK i \in 1..L : w[i].dir = e /\ w[i].n = k
      BY <1>4, <1>5, <2>1 DEF WireFits
    <3>2. i \in 1..(L + 1) /\ v[i] = w[i]
      BY <1>1, <1>2
    <3> QED
      BY <3>1, <3>2
  <2>2. CASE ~(k <= c[e])
    <3>1. e = d /\ k = n
      BY <1>4, <1>6, <1>8, <1>14, <2>2
    <3>2. L + 1 \in 1..(L + 1)
      BY <1>1
    <3> QED
      BY <1>1, <1>2, <3>1, <3>2
  <2> QED
    BY <2>1, <2>2
<1>15. WireFits(v, b, sends)
  BY ONLY <1>2, <1>8, <1>12, <1>13, <1>14 DEF WireFits
<1> QED
  BY <1>4, <1>15 DEF v, entry, n, c, b

(* The wire entries that are framed.                                        *)
Kept(e, sk, h, st) == e.n - sk[e.dir] \in 1..Framed(h[e.dir], st[e.dir])
(* The frame of a wire entry.                                               *)
FrameOf(e, sends, sk, h, st) ==
    Frame(e.dir, e.n - sk[e.dir] - 1, sends[e.dir][e.n], h[e.dir], st[e.dir])
(* f is the frame of one of the first i entries.                            *)
FrameIn(f, w, i, sends, sk, h, st) ==
    \E j \in 1..i : Kept(w[j], sk, h, st) /\ f = FrameOf(w[j], sends, sk, h, st)

(* m is the frames of the kept ones among the first i entries, in their     *)
(* order.                                                                   *)
Chosen(w, sends, sk, h, st, i, m) ==
    /\ m \in Seq(Fragments)
    /\ \A k \in 1..Len(m) : FrameIn(m[k], w, i, sends, sk, h, st)
    /\ \A k, l \in 1..Len(m) : k < l /\ m[k].dir = m[l].dir => m[k].at < m[l].at
    /\ \A j \in 1..i : Kept(w[j], sk, h, st) =>
          \E k \in 1..Len(m) : m[k] = FrameOf(w[j], sends, sk, h, st)

(* f is the frame of e.                                                     *)
Made(f, e, sk) == f \in Fragments /\ f.dir = e.dir /\ f.at = e.n - sk[e.dir] - 1

(* A record that was framed gives a frame.                                  *)
LEMMA FrameMade ==
    ASSUME NEW sends \in [Directions -> Seq(Records)], NEW sk \in [Directions -> Nat],
           NEW h \in [Directions -> Nat], NEW st, NEW e \in Entries, Kept(e, sk, h, st),
           e.n <= Len(sends[e.dir])
    PROVE  Made(FrameOf(e, sends, sk, h, st), e, sk)
<1> DEFINE d == e.dir
           at == e.n - sk[e.dir] - 1
           r == sends[e.dir][e.n]
           f == Frame(d, at, r, h[d], st[d])
<1>1. d \in Directions /\ e.n \in Nat \ {0} /\ sk[d] \in Nat /\ h[d] \in Nat
  BY DEF Entries
<1>2. e.n - sk[d] \in 1..Framed(h[d], st[d]) /\ Framed(h[d], st[d]) \in Nat
  BY <1>1, FramedBounds DEF Kept
<1>3. at \in Nat
  BY <1>1, <1>2
<1>4. r \in Records
  <2>1. sends[d] \in Seq(Records) /\ e.n \in 1..Len(sends[d])
    BY <1>1
  <2> QED
    BY <2>1
<1> HIDE DEF at, r, d
<1>5. f \in Fragments /\ f.dir = d /\ f.at = at
  BY <1>1, <1>3, <1>4, FrameHolds
<1> QED
  BY <1>5 DEF FrameOf, at, r, d, Made

(* One more wire entry, kept or not.                                        *)
LEMMA ChosenOn ==
    ASSUME NEW sends \in [Directions -> Seq(Records)], NEW sk \in [Directions -> Nat],
           NEW h \in [Directions -> Nat], NEW st, NEW w, NEW sent, WireFits(w, sent, sends),
           NEW i \in 1..Len(w), NEW m, Chosen(w, sends, sk, h, st, i - 1, m)
    PROVE  /\ ~Kept(w[i], sk, h, st) => Chosen(w, sends, sk, h, st, i, m)
           /\ Kept(w[i], sk, h, st) =>
                 Chosen(w, sends, sk, h, st, i, Append(m, FrameOf(w[i], sends, sk, h, st)))
<1>1. /\ w \in Seq(Entries) /\ Len(w) \in Nat /\ i \in Nat /\ m \in Seq(Fragments) /\ Len(m) \in Nat
      /\ \A j \in 1..Len(w) : w[j] \in Entries
  BY DEF WireFits, Chosen
<1>2. /\ \A j \in 1..(i - 1) : j \in 1..i /\ j < i /\ j \in 1..Len(w)
      /\ \A j \in 1..i : (j \in 1..(i - 1) \/ j = i) /\ j \in 1..Len(w)
      /\ i \in 1..i
  BY <1>1
<1>3. \A k \in 1..Len(m) : FrameIn(m[k], w, i - 1, sends, sk, h, st)
  BY DEF Chosen
<1>4. \A k \in 1..Len(m) : FrameIn(m[k], w, i, sends, sk, h, st)
  BY <1>2, <1>3 DEF FrameIn
<1>5. \A j \in 1..(i - 1) : Kept(w[j], sk, h, st) =>
          \E k \in 1..Len(m) : m[k] = FrameOf(w[j], sends, sk, h, st)
  BY DEF Chosen
<1>6. \A k, l \in 1..Len(m) : k < l /\ m[k].dir = m[l].dir => m[k].at < m[l].at
  BY DEF Chosen
<1>7. ASSUME ~Kept(w[i], sk, h, st) PROVE Chosen(w, sends, sk, h, st, i, m)
  <2>1. \A j \in 1..i : Kept(w[j], sk, h, st) =>
          \E k \in 1..Len(m) : m[k] = FrameOf(w[j], sends, sk, h, st)
    BY <1>2, <1>5, <1>7
  <2> QED
    BY ONLY <1>1, <1>4, <1>6, <2>1 DEF Chosen
<1>8. ASSUME Kept(w[i], sk, h, st)
      PROVE  Chosen(w, sends, sk, h, st, i, Append(m, FrameOf(w[i], sends, sk, h, st)))
  <2> DEFINE f == FrameOf(w[i], sends, sk, h, st)
             a == Append(m, f)
             L == Len(m)
  <2>1. \A j \in 1..Len(w) : w[j].n <= Len(sends[w[j].dir]) /\ w[j].dir \in Directions
                             /\ w[j].n \in Nat \ {0}
    <3> SUFFICES ASSUME NEW j \in 1..Len(w)
                 PROVE  w[j].n <= Len(sends[w[j].dir]) /\ w[j].dir \in Directions
                        /\ w[j].n \in Nat \ {0}
      OBVIOUS
    <3>1. w[j].dir \in Directions /\ w[j].n \in Nat \ {0}
      BY <1>1 DEF Entries
    <3> DEFINE d == w[j].dir
               n == w[j].n
    <3>2. n <= sent[d] /\ sent[d] <= Len(sends[d]) /\ sent[d] \in Nat
      BY <3>1 DEF WireFits
    <3>3. Len(sends[d]) \in Nat /\ n \in Nat
      BY <3>1
    <3> HIDE DEF d, n
    <3>4. n <= Len(sends[d])
      BY ONLY <3>2, <3>3
    <3> QED
      BY <3>1, <3>4 DEF d, n
  <2>2. \A j \in 1..Len(w) : Kept(w[j], sk, h, st) =>
          Made(FrameOf(w[j], sends, sk, h, st), w[j], sk)
    BY <1>1, <2>1, FrameMade
  <2>3. f \in Fragments /\ f.dir = w[i].dir /\ f.at = w[i].n - sk[w[i].dir] - 1
    BY <1>8, <2>2 DEF Made
  <2> HIDE DEF f
  <2>4. /\ a \in Seq(Fragments) /\ Len(a) = L + 1 /\ a[L + 1] = f
        /\ \A k \in 1..L : a[k] = m[k]
    BY <1>1, <2>3
  <2> HIDE DEF a
  <2>5. \A k \in 1..(L + 1) : k \in 1..L \/ k = L + 1
    BY <1>1
  <2>6. \A k \in 1..(L + 1) : FrameIn(a[k], w, i, sends, sk, h, st)
    <3>1. FrameIn(f, w, i, sends, sk, h, st)
      BY <1>2, <1>8 DEF FrameIn, f
    <3> QED
      BY <1>4, <2>4, <2>5, <3>1
  <2>7. ASSUME NEW k \in 1..(L + 1), NEW l \in 1..(L + 1), k < l, a[k].dir = a[l].dir
        PROVE  a[k].at < a[l].at
    <3>1. k \in 1..L
      BY <1>1, <2>7
    <3>2. CASE l \in 1..L
      BY <1>6, <2>4, <2>7, <3>1, <3>2
    <3>3. CASE l = L + 1
      <4>1. PICK j \in 1..(i - 1) : Kept(w[j], sk, h, st) /\ m[k] = FrameOf(w[j], sends, sk, h, st)
        BY <1>3, <3>1 DEF FrameIn
      <4>2. j < i /\ j \in 1..Len(w)
        BY <1>2
      <4>3. a[k].dir = w[j].dir /\ a[k].at = w[j].n - sk[w[j].dir] - 1
        BY <2>2, <2>4, <3>1, <4>1, <4>2 DEF Made
      <4>4. w[j].dir = w[i].dir
        BY <2>3, <2>4, <2>7, <3>3, <4>3
      <4>5. w[j].n < w[i].n
        BY <4>2, <4>4 DEF WireFits
      <4>6. w[j].n \in Nat /\ w[i].n \in Nat /\ sk[w[i].dir] \in Nat
        BY <2>1, <4>2
      <4>7. a[l].at = w[i].n - sk[w[i].dir] - 1
        BY <2>3, <2>4, <3>3
      <4> DEFINE x == w[j].n
                 y == w[i].n
                 z == sk[w[i].dir]
      <4>8. a[k].at = x - z - 1 /\ a[l].at = y - z - 1
        BY ONLY <4>3, <4>4, <4>7
      <4>9. x < y /\ x \in Nat /\ y \in Nat /\ z \in Nat
        BY ONLY <4>5, <4>6
      <4> HIDE DEF x, y, z
      <4>10. x - z - 1 < y - z - 1
        BY ONLY <4>9
      <4> QED
        BY ONLY <4>8, <4>10
    <3> QED
      BY <2>5, <3>2, <3>3
  <2>8. ASSUME NEW j \in 1..i, Kept(w[j], sk, h, st)
        PROVE  \E k \in 1..(L + 1) : a[k] = FrameOf(w[j], sends, sk, h, st)
    <3>1. CASE j \in 1..(i - 1)
      <4>1. PICK k \in 1..L : m[k] = FrameOf(w[j], sends, sk, h, st)
        BY <1>5, <2>8, <3>1
      <4>2. k \in 1..(L + 1) /\ a[k] = m[k]
        BY <1>1, <2>4
      <4> QED
        BY <4>1, <4>2
    <3>2. CASE j = i
      <4>1. L + 1 \in 1..(L + 1)
        BY <1>1
      <4> QED
        BY <2>4, <3>2, <4>1 DEF f
    <3> QED
      BY <1>2, <3>1, <3>2
  <2>9. Chosen(w, sends, sk, h, st, i, a)
    BY ONLY <2>4, <2>6, <2>7, <2>8 DEF Chosen
  <2> QED
    BY <2>9 DEF a, f
<1> QED
  BY <1>7, <1>8

(* Merged is the frames of the wire entries that were held, in their order. *)
LEMMA MergedIsChosen ==
    ASSUME scenario.sends \in [Directions -> Seq(Records)], NEW sk \in [Directions -> Nat],
           NEW h \in [Directions -> Nat], NEW st, NEW sent, WireFits(wire, sent, scenario.sends)
    PROVE  Chosen(wire, scenario.sends, sk, h, st, Len(wire), Merged(sk, h, st))
<1> DEFINE w == wire
           sends == scenario.sends
           N == Len(w)
           A == Seq(Fragments)
           K(i) == Kept(w[i], sk, h, st)
           g(i) == FrameOf(w[i], sends, sk, h, st)
           step == [p \in (1..N) \X A |-> IF K(p[1]) THEN Append(p[2], g(p[1])) ELSE p[2]]
<1>1. N \in Nat /\ \A i \in 1..N : w[i] \in Entries
  BY DEF WireFits
<1>2. \A i \in 1..N : K(i) => g(i) \in Fragments
  <2> SUFFICES ASSUME NEW i \in 1..N, K(i) PROVE g(i) \in Fragments
    OBVIOUS
  <2> DEFINE e == w[i]
  <2>1. e \in Entries /\ e.dir \in Directions /\ e.n \in Nat
    BY <1>1 DEF Entries
  <2>2. e.n <= sent[e.dir] /\ sent[e.dir] <= Len(sends[e.dir]) /\ sent[e.dir] \in Nat
    BY <2>1 DEF WireFits
  <2>3. Len(sends[e.dir]) \in Nat
    BY <2>1
  <2>4. e.n <= Len(sends[e.dir])
    BY ONLY <2>1, <2>2, <2>3
  <2>5. Made(FrameOf(e, sends, sk, h, st), e, sk)
    BY <2>1, <2>4, FrameMade
  <2> QED
    BY <2>5 DEF Made
<1>3. \A i \in 1..N, b \in A : (IF K(i) THEN Append(b, g(i)) ELSE b) \in A
  BY <1>2
<1>4. step \in [(1..N) \X A -> A]
  BY <1>3
<1>5. \A i \in 1..N, b \in A : step[<<i, b>>] = IF K(i) THEN Append(b, g(i)) ELSE b
  <2> SUFFICES ASSUME NEW i \in 1..N, NEW b \in A
               PROVE  step[<<i, b>>] = IF K(i) THEN Append(b, g(i)) ELSE b
    OBVIOUS
  <2>1. <<i, b>> \in (1..N) \X A /\ <<i, b>>[1] = i /\ <<i, b>>[2] = b
    OBVIOUS
  <2> QED
    BY <2>1
<1> DEFINE merged[i \in 0..N] ==
              IF i = 0 THEN << >>
              ELSE IF w[i].n - sk[w[i].dir] \in 1..Framed(h[w[i].dir], st[w[i].dir])
              THEN Append(merged[i - 1],
                          Frame(w[i].dir, w[i].n - sk[w[i].dir] - 1, sends[w[i].dir][w[i].n],
                                h[w[i].dir], st[w[i].dir]))
              ELSE merged[i - 1]
<1>6. Merged(sk, h, st) = merged[N]
  BY DEF Merged
<1> HIDE DEF step, A
<1>7. << >> \in A
  BY DEF A
<1>8. PICK F : Iterates(F, N, A, << >>, step)
  BY <1>1, <1>4, <1>7, Iteration
<1>9. F \in [0..N -> A] /\ F[0] = << >>
  BY <1>8 DEF Iterates
<1>10. ASSUME NEW i \in 1..N PROVE F[i] = IF K(i) THEN Append(F[i - 1], g(i)) ELSE F[i - 1]
  <2>1. i - 1 \in 0..N /\ F[i] = step[<<i, F[i - 1]>>]
    BY <1>1, <1>8 DEF Iterates
  <2>2. F[i - 1] \in A
    BY <1>9, <2>1
  <2> QED
    BY ONLY <1>5, <2>1, <2>2
<1>11. \A i \in 0..N : i = 0 \/ i \in 1..N
  BY <1>1
<1>12. \A i \in 1..N :
          F[i] = IF w[i].n - sk[w[i].dir] \in 1..Framed(h[w[i].dir], st[w[i].dir])
                 THEN Append(F[i - 1],
                             Frame(w[i].dir, w[i].n - sk[w[i].dir] - 1, sends[w[i].dir][w[i].n],
                                   h[w[i].dir], st[w[i].dir]))
                 ELSE F[i - 1]
  BY ONLY <1>10 DEF Kept, FrameOf
<1> HIDE DEF N, w, sends
<1>13. F = [i \in 0..N |->
              IF i = 0 THEN << >>
              ELSE IF w[i].n - sk[w[i].dir] \in 1..Framed(h[w[i].dir], st[w[i].dir])
              THEN Append(F[i - 1],
                          Frame(w[i].dir, w[i].n - sk[w[i].dir] - 1, sends[w[i].dir][w[i].n],
                                h[w[i].dir], st[w[i].dir]))
              ELSE F[i - 1]]
  BY ONLY <1>9, <1>11, <1>12
<1>14. merged = [i \in 0..N |->
              IF i = 0 THEN << >>
              ELSE IF w[i].n - sk[w[i].dir] \in 1..Framed(h[w[i].dir], st[w[i].dir])
              THEN Append(merged[i - 1],
                          Frame(w[i].dir, w[i].n - sk[w[i].dir] - 1, sends[w[i].dir][w[i].n],
                                h[w[i].dir], st[w[i].dir]))
              ELSE merged[i - 1]]
  BY ONLY <1>13
<1> HIDE DEF merged
<1>15. merged[0] = << >> /\ \A i \in 1..N :
          merged[i] = IF w[i].n - sk[w[i].dir] \in 1..Framed(h[w[i].dir], st[w[i].dir])
                 THEN Append(merged[i - 1],
                             Frame(w[i].dir, w[i].n - sk[w[i].dir] - 1, sends[w[i].dir][w[i].n],
                                   h[w[i].dir], st[w[i].dir]))
                 ELSE merged[i - 1]
  <2>1. 0 \in 0..N /\ \A n \in 1..N : n \in 0..N /\ n # 0
    BY <1>1
  <2> QED
    BY ONLY <1>14, <2>1
<1>16. SameStep(merged, F, N)
  BY ONLY <1>9, <1>12, <1>15 DEF SameStep
<1>17. merged[N] = F[N]
  <2>1. N \in Nat
    BY <1>1
  <2> QED
    BY ONLY <1>16, <2>1, OneTable
<1> DEFINE T == {i \in 0..N : Chosen(w, sends, sk, h, st, i, F[i])}
<1>18. 0 \in T
  <2>1. F[0] = << >> /\ << >> \in Seq(Fragments) /\ Len(<< >>) = 0 /\ 1..0 = {} /\ 0 \in 0..N
    BY <1>1, <1>9
  <2>2. Chosen(w, sends, sk, h, st, 0, << >>)
    BY ONLY <2>1 DEF Chosen
  <2> QED
    BY <2>1, <2>2
<1>19. ASSUME NEW i \in 0..(N - 1), i \in T PROVE i + 1 \in T
  <2>1. i + 1 \in 1..N /\ (i + 1) - 1 = i /\ i + 1 \in 0..N
    BY <1>1
  <2>2. Chosen(w, sends, sk, h, st, (i + 1) - 1, F[i])
    BY <1>19, <2>1
  <2>3. F[i + 1] = IF K(i + 1) THEN Append(F[i], g(i + 1)) ELSE F[i]
    BY <1>10, <2>1
  <2>4. /\ ~K(i + 1) => Chosen(w, sends, sk, h, st, i + 1, F[i])
        /\ K(i + 1) => Chosen(w, sends, sk, h, st, i + 1, Append(F[i], g(i + 1)))
    BY <2>1, <2>2, ChosenOn DEF N, w, sends
  <2>5. Chosen(w, sends, sk, h, st, i + 1, F[i + 1])
    BY ONLY <2>3, <2>4
  <2> QED
    BY <2>1, <2>5
<1> HIDE DEF T
<1>20. 0..N \subseteq T
  BY <1>1, <1>18, <1>19, UpTo
<1>21. N \in T
  BY <1>1, <1>20
<1>22. Chosen(w, sends, sk, h, st, N, F[N])
  BY <1>21 DEF T
<1> QED
  BY <1>6, <1>17, <1>22 DEF N, w, sends

(* When the capture ends everything that was framed is to be read.          *)
LEMMA MergedReads ==
    ASSUME scenario.sends \in [Directions -> Seq(Records)], NEW sk \in [Directions -> Nat],
           NEW h \in [Directions -> Nat], NEW st, NEW sent, WireFits(wire, sent, scenario.sends),
           \A d \in Directions : sk[d] + Framed(h[d], st[d]) <= sent[d]
    PROVE  Reading(Merged(sk, h, st), scenario.sends, sk, h, st, [d \in Directions |-> 0])
<1> DEFINE m == Merged(sk, h, st)
           w == wire
           sends == scenario.sends
           pos == [d \in Directions |-> 0]
<1>1. Chosen(w, sends, sk, h, st, Len(w), m)
  BY MergedIsChosen
<1>2. WireFits(w, sent, sends) /\ w \in Seq(Entries) /\ Len(w) \in Nat
      /\ \A j \in 1..Len(w) : w[j] \in Entries
  <2>1. w \in Seq(Entries)
    BY DEF WireFits
  <2> HIDE DEF m, pos
  <2>2. WireFits(w, sent, sends)
    OBVIOUS
  <2> QED
    BY ONLY <2>1, <2>2
<1>3. pos \in [Directions -> Nat] /\ \A d \in Directions : pos[d] = 0
  OBVIOUS
<1>4. sends \in [Directions -> Seq(Records)]
  OBVIOUS
<1> HIDE DEF m, pos, sends, w
<1>5. ASSUME NEW j \in 1..Len(w), Kept(w[j], sk, h, st)
      PROVE  LET e == w[j]
                 f == FrameOf(e, sends, sk, h, st)
             IN  /\ Made(f, e, sk) /\ ToRead(f, sends, sk, h, st, pos)
  <2> DEFINE e == w[j]
             f == FrameOf(e, sends, sk, h, st)
             d == e.dir
             at == e.n - sk[e.dir] - 1
  <2>1. e \in Entries /\ d \in Directions /\ e.n \in Nat \ {0}
    BY <1>2 DEF Entries
  <2>2. e.n <= sent[d] /\ sent[d] <= Len(sends[d]) /\ sent[d] \in Nat
    BY <1>2, <2>1 DEF WireFits
  <2>3. Len(sends[d]) \in Nat /\ sk[d] \in Nat
    BY <1>4, <2>1
  <2>4. e.n <= Len(sends[d])
    BY ONLY <2>1, <2>2, <2>3
  <2>5. Made(f, e, sk)
    BY <1>4, <1>5, <2>1, <2>4, FrameMade
  <2>6. e.n - sk[d] \in 1..Framed(h[d], st[d]) /\ Framed(h[d], st[d]) \in Nat
    BY <1>5, <2>1, FramedBounds DEF Kept
  <2>7. at \in Nat /\ 0 <= at /\ at < Framed(h[d], st[d]) /\ at + 1 + sk[d] = e.n
        /\ e.n \in 1..Len(sends[d])
    BY ONLY <2>1, <2>3, <2>4, <2>6
  <2>8. f = Frame(d, at, sends[d][at + 1 + sk[d]], h[d], st[d])
    BY <2>7 DEF FrameOf
  <2>9. f.dir = d /\ f.at = at
    BY <2>5 DEF Made
  <2> HIDE DEF f, d, at
  <2>10. ToRead(f, sends, sk, h, st, pos)
    BY <1>3, <2>1, <2>7, <2>8, <2>9 DEF ToRead
  <2> QED
    BY <2>5, <2>10 DEF f
<1>6. ASSUME NEW k \in 1..Len(m) PROVE ToRead(m[k], sends, sk, h, st, pos)
  <2>1. PICK j \in 1..Len(w) : Kept(w[j], sk, h, st) /\ m[k] = FrameOf(w[j], sends, sk, h, st)
    BY <1>1 DEF Chosen, FrameIn
  <2> QED
    BY <1>5, <2>1
<1>7. ASSUME NEW d \in Directions, NEW at \in Nat, at < Framed(h[d], st[d])
      PROVE  \E k \in 1..Len(m) : m[k].dir = d /\ m[k].at = at
  <2> DEFINE n == at + 1 + sk[d]
  <2>1. Framed(h[d], st[d]) \in Nat /\ sk[d] \in Nat /\ sent[d] \in Nat
    BY <1>2, FramedBounds DEF WireFits
  <2>2. n \in Nat \ {0} /\ n <= sent[d] /\ n - sk[d] \in 1..Framed(h[d], st[d]) /\ n - sk[d] - 1 = at
    BY <1>7, <2>1
  <2> HIDE DEF n
  <2>3. PICK j \in 1..Len(w) : w[j].dir = d /\ w[j].n = n
    <3>1. \A e \in Directions, k \in Nat \ {0} :
             k <= sent[e] => \E i \in 1..Len(w) : w[i].dir = e /\ w[i].n = k
      BY <1>2 DEF WireFits
    <3> QED
      BY ONLY <2>2, <3>1, d \in Directions
  <2>4. Kept(w[j], sk, h, st)
    BY <2>2, <2>3 DEF Kept
  <2>5. PICK k \in 1..Len(m) : m[k] = FrameOf(w[j], sends, sk, h, st)
    BY <1>1, <2>4 DEF Chosen
  <2>6. Made(m[k], w[j], sk)
    BY <1>5, <2>4, <2>5
  <2> QED
    BY <2>2, <2>3, <2>6 DEF Made
<1>8. m \in Seq(Fragments)
      /\ \A k, l \in 1..Len(m) : k < l /\ m[k].dir = m[l].dir => m[k].at < m[l].at
  BY <1>1 DEF Chosen
<1>9. Reading(m, sends, sk, h, st, pos)
  BY ONLY <1>3, <1>6, <1>7, <1>8 DEF Reading
<1> QED
  BY <1>9 DEF m, pos, sends

-----------------------------------------------------------------------------
(* What was put together of a direction that was captured from its start    *)
(* and fits in the buffer is the beginning of what was sent in plaintext.   *)

(* The stream is the beginning of what was sent, all of it up to pos while  *)
(* the direction is readable, and its complete messages were handled.       *)
Faithful(list, h, p, w, d) ==
    /\ p \in 0..Len(list)
    /\ Begins(w.stream[d], AllOf(list))
    /\ w.boundary[d] = NoBoundary =>
          IF p <= h THEN w.stream[d] = Got(list)[p] ELSE Begins(Got(list)[h], w.stream[d])
    /\ \/ w.stream[d] = << >>
       \/ Len(Complete(ParseMessages(w.stream[d]))) <= Len(w.handled[d])
    /\ Begins(w.handled[d], NamesOf(AllOf(list))[Len(AllOf(list))])

(* A handshake record that may be read was sent in plaintext.               *)
LEMMA ReadIsPlain ==
    ASSUME NEW version, NEW resumed, NEW pos, NEW w, Basic(version, resumed, pos, w),
           NEW f, NEW q, Further(pos, f, q), ~IsEncrypted(w, f), f.type = "handshake",
           NEW list, ListFits(version, resumed, list), NEW h \in Nat, NEW d \in Directions,
           f.dir = d, IsRecord(list, f.at + 1, h, f),
           Shielded(version, list, h, pos[d], w, d)
    PROVE  IsPlain(list[f.at + 1]) /\ w.boundary[d] = NoBoundary
<1>1. pos[d] \in Nat /\ f.at = pos[d] /\ f.at \in Nat
  BY FurtherOn DEF Further
<1>2. w.boundary[d] = NoBoundary
  BY PastBoundary
<1> DEFINE r == list[f.at + 1]
<1>3. list \in Seq(Records) /\ Len(list) \in Nat /\ f.at + 1 \in 1..Len(list) /\ f.at <= h
      /\ r.type = "handshake" /\ r \in Records
  BY DEF ListFits, IsRecord
<1>4. ~r.secret
  <2> SUFFICES ASSUME r.secret PROVE FALSE
    OBVIOUS
  <2>1. f.at + 1 > 1 /\ version # "SH13" /\ list[(f.at + 1) - 1].type = "ccs"
    BY <1>3 DEF ListFits
  <2>2. (f.at + 1) - 1 = f.at /\ f.at \in 1..Len(list) /\ f.at <= pos[d] /\ f.at <= h
    BY ONLY <1>1, <1>3, <2>1, h \in Nat
  <2>3. list[f.at].type = "ccs"
    BY <2>1, <2>2
  <2> QED
    BY <1>2, <2>1, <2>2, <2>3 DEF Shielded
<1> QED
  BY <1>2, <1>3, <1>4 DEF IsPlain

(* What is read of the next record adds what it brings.                     *)
LEMMA Brings ==
    ASSUME NEW list \in Seq(Records), NEW n \in 1..Len(list), NEW h \in Nat,
           IsPlain(list[n]), NEW b \in Seq(Units), Begins(b, list[n].body),
           n <= h => b = list[n].body, n - 1 <= h,
           NEW s, s = Got(list)[n - 1] \o b
    PROVE  /\ s \in Seq(Units) /\ Begins(s, AllOf(list))
           /\ IF n <= h THEN s = Got(list)[n] ELSE Begins(Got(list)[h], s)
<1> DEFINE g == Got(list)[n - 1]
           r == list[n].body
           G == Got(list)[n]
           A == AllOf(list)
<1>1. n \in Nat /\ n - 1 \in 0..Len(list) /\ n \in 0..Len(list) /\ Len(list) \in 0..Len(list)
      /\ n <= Len(list)
  OBVIOUS
<1>2. g \in Seq(Units) /\ G \in Seq(Units) /\ A \in Seq(Units) /\ r \in Seq(Units)
  <2>1. list[n] \in Records
    OBVIOUS
  <2> QED
    BY <1>1, <2>1, GotAt DEF AllOf, Records
<1>3. G = g \o r
  BY <1>1, GotAt
<1>4. Begins(G, A)
  BY <1>1, GotGrows DEF AllOf
<1>5. s = g \o b /\ Begins(b, r) /\ (n <= h => b = r)
  OBVIOUS
<1>6. ~(n <= h) => n - 1 = h
  BY <1>1
<1>7. n - 1 = h => g = Got(list)[h]
  OBVIOUS
<1> HIDE DEF g, r, G, A
<1>8. s \in Seq(Units) /\ Begins(g, s)
  BY ONLY <1>2, <1>5, BeginsAll, b \in Seq(Units)
<1>9. Begins(s, G)
  <2>1. /\ Len(g) \in Nat /\ Len(b) \in Nat /\ Len(s) = Len(g) + Len(b)
        /\ \A i \in 1..(Len(g) + Len(b)) : s[i] = IF i <= Len(g) THEN g[i] ELSE b[i - Len(g)]
    <3>1. Len(g) \in Nat /\ Len(b) \in Nat
      BY <1>2
    <3> QED
      BY ONLY <1>2, <1>5, <3>1, Joined, b \in Seq(Units)
  <2>2. /\ Len(r) \in Nat /\ Len(G) = Len(g) + Len(r)
        /\ \A i \in 1..(Len(g) + Len(r)) : G[i] = IF i <= Len(g) THEN g[i] ELSE r[i - Len(g)]
    <3>1. Len(r) \in Nat
      BY <1>2
    <3> QED
      BY ONLY <1>2, <1>3, <3>1, Joined
  <2>3. Len(b) <= Len(r) /\ \A i \in 1..Len(b) : b[i] = r[i]
    BY <1>5 DEF Begins
  <2>4. Len(s) <= Len(G)
    BY ONLY <2>1, <2>2, <2>3
  <2>5. ASSUME NEW i \in 1..Len(s) PROVE s[i] = G[i]
    <3>1. i \in 1..(Len(g) + Len(b)) /\ i \in 1..(Len(g) + Len(r))
      BY ONLY <2>1, <2>2, <2>3, i \in 1..Len(s)
    <3>2. i <= Len(g) \/ i - Len(g) \in 1..Len(b)
      BY ONLY <2>1, <3>1
    <3>3. s[i] = IF i <= Len(g) THEN g[i] ELSE b[i - Len(g)]
      BY ONLY <2>1, <3>1
    <3>4. G[i] = IF i <= Len(g) THEN g[i] ELSE r[i - Len(g)]
      BY ONLY <2>2, <3>1
    <3> QED
      BY ONLY <2>3, <3>2, <3>3, <3>4
  <2> QED
    BY ONLY <2>4, <2>5 DEF Begins
<1>10. Begins(s, A)
  BY ONLY <1>2, <1>4, <1>8, <1>9, BeginsOn
<1>11. CASE n <= h
  <2>1. s = G
    BY ONLY <1>3, <1>5, <1>11
  <2> QED
    BY ONLY <1>8, <1>10, <1>11, <2>1 DEF G, A
<1>12. CASE ~(n <= h)
  <2>1. g = Got(list)[h]
    BY <1>6, <1>7, <1>12
  <2>2. Begins(Got(list)[h], s)
    BY ONLY <1>8, <2>1
  <2> QED
    BY ONLY <1>8, <1>10, <1>12, <2>2 DEF A
<1> QED
  BY <1>11, <1>12

(* The messages handled after a drain are those that were sent.             *)
LEMMA HandledBegins ==
    ASSUME NEW hd \in Seq(Msgs), NEW vd \in Seq(Msgs), NEW C \in Seq(Messages), Extends(hd, vd, C),
           NEW F \in Seq(Msgs), Begins(hd, F), Len(C) <= Len(F),
           \A i \in 1..Len(C) : C[i].msg = F[i]
    PROVE  Begins(vd, F)
<1> DEFINE a == Len(hd)
           b == Len(vd)
           c == Len(C)
           n == Len(F)
<1>1. /\ a \in Nat /\ b \in Nat /\ c \in Nat /\ n \in Nat
      /\ DOMAIN hd = 1..a /\ DOMAIN vd = 1..b /\ DOMAIN C = 1..c
  OBVIOUS
<1>2. a <= n /\ \A i \in 1..a : hd[i] = F[i]
  BY DEF Begins
<1>3. c <= n /\ \A i \in 1..c : C[i].msg = F[i]
  OBVIOUS
<1> HIDE DEF a, b, c, n
<1>4. /\ \A i \in 1..a : vd[i] = hd[i]
      /\ \A i \in 1..b : i \in 1..a \/ (i \in 1..c /\ vd[i] = C[i].msg)
  BY ONLY <1>1, Extends(hd, vd, C) DEF Extends
<1>5. ASSUME NEW i \in 1..b PROVE i <= n /\ vd[i] = F[i]
  <2>1. CASE i \in 1..a
    BY ONLY <1>1, <1>2, <1>4, <2>1
  <2>2. CASE i \in 1..c /\ vd[i] = C[i].msg
    BY ONLY <1>1, <1>3, <2>2
  <2> QED
    BY <1>4, <2>1, <2>2
<1>6. b <= n
  <2>1. CASE b = 0
    BY <1>1, <2>1
  <2>2. CASE b # 0
    <3>1. b \in 1..b
      BY <1>1, <2>2
    <3> QED
      BY <1>5, <3>1
  <2> QED
    BY <2>1, <2>2
<1> QED
  BY ONLY <1>5, <1>6 DEF Begins, b, n

(* What a drain leaves of a buffer that holds the beginning of A.           *)
LEMMA DrainsFaithfully ==
    ASSUME NEW version, NEW resumed, NEW list, ListFits(version, resumed, list),
           NEW s \in Seq(Units), Begins(s, AllOf(list)),
           NEW C, C = Complete(ParseMessages(s)), C \in Seq(Messages),
           NEW hd \in Seq(Msgs), NEW vd \in Seq(Msgs), Extends(hd, vd, C),
           Begins(hd, NamesOf(AllOf(list))[Len(AllOf(list))])
    PROVE  /\ Len(C) <= Len(vd) /\ \A i \in DOMAIN C : C[i].whole
           /\ Begins(vd, NamesOf(AllOf(list))[Len(AllOf(list))])
<1> DEFINE A == AllOf(list)
           F == NamesOf(A)
           n == Len(A)
<1>1. WellFormed(A) /\ (\A i \in 1..Len(A) : A[i].msg # "secret") /\ A \in Seq(Units)
  BY DEF ListFits, WellFormed
<1>2. Begins(s, A) /\ Begins(hd, F[n]) /\ n = Len(A)
  OBVIOUS
<1>3. NamesIn(A, F)
  BY <1>1, NamesThere
<1> HIDE DEF A, F
<1>4. Parsed(A, F, s, C)
  BY ONLY <1>1, <1>2, <1>3, ParsedAsSent, C = Complete(ParseMessages(s)), s \in Seq(Units)
<1>5. /\ \A i \in DOMAIN C : C[i].whole
      /\ Len(C) <= Len(F[Len(A)])
      /\ \A i \in 1..Len(C) : C[i].msg = F[Len(A)][i]
  BY ONLY <1>1, <1>2, <1>3, <1>4, ParsedTells, s \in Seq(Units)
<1>6. F[n] \in Seq(Msgs)
  BY <1>1, <1>2, <1>3 DEF NamesIn
<1>7. Begins(vd, F[n])
  BY ONLY <1>2, <1>5, <1>6, HandledBegins, hd \in Seq(Msgs), vd \in Seq(Msgs), Extends(hd, vd, C),
          C \in Seq(Messages)
<1>8. Len(C) <= Len(vd)
  BY DEF Extends
<1> QED
  BY <1>5, <1>7, <1>8 DEF A, F

(* What a drain of such a stream leaves.                                    *)
WholeDrain(list, h, n, s, C, hd, vd) ==
    /\ Begins(s, AllOf(list))
    /\ IF n <= h THEN s = Got(list)[n] ELSE Begins(Got(list)[h], s)
    /\ Len(C) <= Len(vd) /\ \A i \in DOMAIN C : C[i].whole
    /\ Begins(vd, NamesOf(AllOf(list))[Len(AllOf(list))])

(* A handshake record taken in such a direction.                            *)
LEMMA TakenFaithfully ==
    ASSUME NEW version, NEW resumed, NEW pos, NEW w, Basic(version, resumed, pos, w),
           NEW f \in Fragments, NEW q, Further(pos, f, q), NEW v, NEW s \in Seq(Units), NEW C,
           Taken(version, resumed, w, f, v, s, C),
           NEW list, ListFits(version, resumed, list), NEW h \in Nat, NEW d \in Directions,
           f.dir = d, IsRecord(list, f.at + 1, h, f),
           Shielded(version, list, h, pos[d], w, d), Faithful(list, h, pos[d], w, d)
    PROVE  WholeDrain(list, h, f.at + 1, s, C, w.handled[d], v.handled[d])
<1>1. /\ ~IsEncrypted(w, f) /\ f.type = "handshake" /\ s = w.stream[d] \o f.body
      /\ C = Complete(ParseMessages(s)) /\ C \in Seq(Messages)
      /\ Extends(w.handled[d], v.handled[d], C)
      /\ v.handled[d] \in Seq(Msgs) /\ w.handled[d] \in Seq(Msgs)
  BY DEF Taken, Basic, Walks
<1>2. IsPlain(list[f.at + 1]) /\ w.boundary[d] = NoBoundary
  BY <1>1, ReadIsPlain
<1> DEFINE n == f.at + 1
<1>3. /\ list \in Seq(Records) /\ f.at \in Nat /\ f.at = pos[d] /\ n \in 1..Len(list) /\ f.at <= h
      /\ Begins(f.body, list[n].body) /\ f.body \in Seq(Units)
      /\ (f.at < h => f.body = list[n].body)
  BY FurtherOn DEF ListFits, IsRecord, Further, Fragments
<1>4. n - 1 = f.at /\ n - 1 <= h /\ (n <= h => f.at < h)
  BY <1>3
<1>5. w.stream[d] = Got(list)[n - 1]
  BY <1>2, <1>3, <1>4 DEF Faithful
<1>6. /\ Begins(s, AllOf(list))
      /\ IF n <= h THEN s = Got(list)[n] ELSE Begins(Got(list)[h], s)
  <2>1. s = Got(list)[n - 1] \o f.body
    BY <1>1, <1>5
  <2> HIDE DEF n
  <2>2. IsPlain(list[n])
    BY <1>2 DEF n
  <2> QED
    BY ONLY <1>3, <1>4, <2>1, <2>2, Brings, h \in Nat
<1>7. Begins(w.handled[d], NamesOf(AllOf(list))[Len(AllOf(list))])
  BY DEF Faithful
<1>8. /\ Len(C) <= Len(v.handled[d]) /\ \A i \in DOMAIN C : C[i].whole
      /\ Begins(v.handled[d], NamesOf(AllOf(list))[Len(AllOf(list))])
  BY ONLY <1>1, <1>6, <1>7, DrainsFaithfully, ListFits(version, resumed, list), s \in Seq(Units)
<1> QED
  BY ONLY <1>6, <1>8 DEF WholeDrain

(* What is not taken brings nothing to the buffer.                          *)
LEMMA OverflowGrows ==
    ASSUME NEW version, NEW resumed, NEW w \in Walks, NEW f, NEW v,
           AnyRead(version, resumed, w, f, v)
    PROVE  w.overflow \subseteq v.overflow /\ (Dropped(w, f, v) => f.dir \in v.overflow)
BY DEF AnyRead, Passed, ReadCcs, ReadAppData, Dropped, TakenAs, Taken

(* Every record read keeps Faithful: the stream stays a beginning of what   *)
(* was sent and its complete messages are the ones handled.                 *)
LEMMA FaithfulRead ==
    ASSUME NEW version, NEW resumed, NEW pos, NEW w, Basic(version, resumed, pos, w),
           NEW f \in Fragments, NEW q, Further(pos, f, q), NEW v, AnyRead(version, resumed, w, f, v),
           NEW list, ListFits(version, resumed, list), NEW h \in Nat, NEW d \in Directions,
           f.dir = d => IsRecord(list, f.at + 1, h, f),
           Shielded(version, list, h, pos[d], w, d), Faithful(list, h, pos[d], w, d),
           d \notin v.overflow
    PROVE  Faithful(list, h, q[d], v, d)
<1>1. /\ pos[d] \in Nat /\ q[d] \in Nat /\ f.at = pos[f.dir]
      /\ f.at \in Nat /\ q[f.dir] = f.at + 1 /\ (d # f.dir => q[d] = pos[d])
  BY FurtherOn DEF Further
<1>2. w \in Walks /\ list \in Seq(Records) /\ Len(list) \in Nat
  BY DEF Basic, ListFits
<1>3. v.boundary[d] = NoBoundary => w.boundary[d] = NoBoundary
  BY BoundaryStays
<1>4. CASE d # f.dir
  <2>1. v.stream[d] = w.stream[d] /\ v.handled[d] = w.handled[d]
    <3>1. SameIn(w, v, d)
      BY ONLY AnyRead(version, resumed, w, f, v), d \in Directions, <1>2, <1>4, OtherStays
    <3> QED
      BY ONLY <3>1 DEF SameIn
  <2>2. q[d] = pos[d]
    BY ONLY <1>1, <1>4
  <2> QED
    BY <1>3, <2>1, <2>2 DEF Faithful
<1>5. CASE d = f.dir /\ TakenAs(version, resumed, w, f, v)
  <2>1. PICK s \in Seq(Units), C \in Seq(Messages) : Taken(version, resumed, w, f, v, s, C)
    BY <1>5 DEF TakenAs
  <2>2. IsRecord(list, f.at + 1, h, f) /\ q[d] = f.at + 1 /\ f.dir = d
    BY <1>1, <1>5
  <2>3. WholeDrain(list, h, f.at + 1, s, C, w.handled[d], v.handled[d])
    BY <2>1, <2>2, TakenFaithfully
  <2>4. v.stream[d] = s /\ C = Complete(ParseMessages(s))
    BY <1>2, <2>1, <2>2 DEF Taken, Walks
  <2>5. f.at + 1 \in 0..Len(list)
    BY <1>1, <1>2, <2>2 DEF IsRecord
  <2> QED
    BY ONLY <2>2, <2>3, <2>4, <2>5 DEF WholeDrain, Faithful
<1>6. CASE d = f.dir /\ ~TakenAs(version, resumed, w, f, v)
  <2>1. v.stream[d] = w.stream[d] /\ v.handled[d] = w.handled[d]
    BY <1>6 DEF AnyRead, Passed, ReadCcs, ReadAppData, Dropped, SameBuffers
  <2>2. IsRecord(list, f.at + 1, h, f) /\ q[d] = f.at + 1 /\ f.dir = d /\ f.at = pos[d]
    BY <1>1, <1>6
  <2> DEFINE n == f.at + 1
  <2>3. n \in 1..Len(list) /\ n \in 0..Len(list) /\ n - 1 = f.at /\ f.at <= h /\ f.at \in Nat
    BY <1>1, <1>2, <2>2 DEF IsRecord
  <2>4. ASSUME v.boundary[d] = NoBoundary
        PROVE  IF n <= h THEN v.stream[d] = Got(list)[n] ELSE Begins(Got(list)[h], v.stream[d])
    <3>1. w.stream[d] = Got(list)[n - 1]
      BY <1>3, <2>2, <2>3, <2>4 DEF Faithful
    <3>2. ASSUME n <= h PROVE Got(list)[n] = Got(list)[n - 1]
      <4>1. ~f.ambiguous /\ f.type = list[n].type
        BY <2>2, <2>3, <3>2 DEF IsRecord
      <4>2. ~IsEncrypted(w, f)
        BY <1>3, <2>2, <2>4 DEF IsEncrypted
      <4>3. f.type # "handshake"
        BY <1>6, <4>1, <4>2, OverflowGrows, <1>2 DEF AnyRead, Passed, ReadCcs, ReadAppData
      <4>4. ~IsPlain(list[n])
        BY <4>1, <4>3 DEF IsPlain
      <4> QED
        BY <1>2, <2>3, <4>4, GotAt
    <3>3. CASE n <= h
      BY <2>1, <3>1, <3>2, <3>3
    <3>4. CASE ~(n <= h)
      <4>1. n - 1 = h
        BY <2>3, <3>4
      <4>2. v.stream[d] \in Seq(Units) /\ v.stream[d] = Got(list)[h]
        BY <1>2, <2>1, <3>1, <4>1 DEF Walks
      <4>3. Begins(Got(list)[h], v.stream[d])
        BY <4>2 DEF Begins
      <4> QED
        BY <3>4, <4>3
    <3> QED
      BY <3>3, <3>4
  <2> HIDE DEF n
  <2>5. q[d] = n
    BY <2>2 DEF n
  <2> QED
    BY <2>1, <2>3, <2>4, <2>5 DEF Faithful
<1> QED
  BY <1>4, <1>5, <1>6

-----------------------------------------------------------------------------
(* What is known when the units that tell it are in the buffer.             *)
LEMMA KnownFrom ==
    ASSUME NEW version, NEW resumed, NEW list, ListFits(version, resumed, list), MaxMessages >= 2,
           NEW w \in Walks, NEW h, NEW p, NEW d \in Directions, Faithful(list, h, p, w, d),
           \A i \in DOMAIN w.handled[d] : Told(w, w.handled[d][i])
    PROVE  /\ HelloIn(AllOf(list), Len(w.stream[d])) => w.serverHello # None
           /\ RetryIn(AllOf(list), Len(w.stream[d])) => w.tls13 \/ w.serverHello # None
           /\ CertificateIn(AllOf(list), Len(w.stream[d])) => w.certificate # None
<1> DEFINE A == AllOf(list)
           F == NamesOf(A)
           s == w.stream[d]
           C == Complete(ParseMessages(s))
           hd == w.handled[d]
           n == Len(A)
<1>1. /\ WellFormed(A) /\ (\A i \in 1..n : A[i].msg # "secret")
      /\ A \in Seq(Units) /\ s \in Seq(Units) /\ hd \in Seq(Msgs) /\ n \in Nat
  <2>1. WellFormed(AllOf(list)) /\ \A i \in 1..Len(AllOf(list)) : AllOf(list)[i].msg # "secret"
    BY DEF ListFits
  <2>2. AllOf(list) \in Seq(Units)
    BY <2>1 DEF WellFormed
  <2>3. Len(AllOf(list)) \in Nat
    BY <2>2
  <2>4. s \in Seq(Units) /\ hd \in Seq(Msgs)
    BY DEF Walks
  <2> QED
    BY <2>1, <2>2, <2>3, <2>4
<1>2. Begins(s, A) /\ (s = << >> \/ Len(C) <= Len(hd)) /\ Begins(hd, F[n])
  BY DEF Faithful
<1>3. NamesIn(A, F)
  BY <1>1, NamesThere
<1>4. \A i \in DOMAIN hd : Told(w, hd[i])
  OBVIOUS
<1>5. C = Complete(ParseMessages(s)) /\ n = Len(A)
  OBVIOUS
<1> HIDE DEF A, F, s, C, hd, n
<1>6. Parsed(A, F, s, C)
  BY ONLY <1>1, <1>2, <1>3, <1>5, ParsedAsSent
<1>7. C \in Seq(Messages)
  BY ONLY <1>1, <1>5, AnyParse
<1>8. ASSUME Len(s) >= 1, A[1].of = 1
      PROVE  /\ Told(w, A[1].msg)
             /\ Len(s) >= 2 /\ Len(s) >= 1 + A[2].of => Told(w, A[2].msg)
  <2>1. Len(C) >= 1 /\ (Len(s) >= 2 /\ Len(s) >= 1 + A[2].of => Len(C) >= 2)
    BY ONLY <1>1, <1>2, <1>3, <1>5, <1>6, <1>8, FirstTwoParsed, MaxMessages >= 2
  <2>2. Len(A) >= 1 /\ Len(s) \in Nat /\ (Len(s) >= 2 => Len(A) >= 2)
    BY <1>1, <1>2, <1>5, <1>8 DEF Begins
  <2>3. /\ Len(F[Len(A)]) >= 1 /\ F[Len(A)][1] = A[1].msg
        /\ Len(A) >= 2 => Len(F[Len(A)]) >= 2 /\ F[Len(A)][2] = A[2].msg
    BY ONLY <1>1, <1>3, <1>8, <2>2, FirstNames
  <2>4. s # << >>
    BY <1>1, <1>8
  <2>5. Len(C) <= Len(hd) /\ Len(hd) \in Nat /\ Len(C) \in Nat /\ DOMAIN hd = 1..Len(hd)
    BY <1>1, <1>2, <1>7, <2>4
  <2>6. \A i \in 1..Len(hd) : hd[i] = F[Len(A)][i]
    BY <1>2, <1>5 DEF Begins
  <2>7. Told(w, A[1].msg)
    <3>1. 1 \in 1..Len(hd)
      BY ONLY <2>1, <2>5
    <3> QED
      BY ONLY <1>4, <2>3, <2>5, <2>6, <3>1
  <2>8. ASSUME Len(s) >= 2, Len(s) >= 1 + A[2].of PROVE Told(w, A[2].msg)
    <3>1. 2 \in 1..Len(hd)
      BY ONLY <2>1, <2>5, <2>8
    <3> QED
      BY ONLY <1>4, <2>2, <2>3, <2>5, <2>6, <2>8, <3>1
  <2> QED
    BY <2>7, <2>8
<1>9. Len(s) \in Nat
  BY <1>1
<1>10. HelloIn(A, Len(s)) => w.serverHello # None
  <2>1. CASE Len(s) >= 1 /\ A[1].msg \in ServerHellos /\ A[1].of = 1
    BY <1>8, <2>1 DEF Told
  <2>2. CASE Len(s) >= 2 /\ A[1].of = 1 /\ A[2].msg \in ServerHellos /\ A[2].of = 1
    <3>1. Len(s) >= 1 /\ Len(s) >= 1 + A[2].of
      BY ONLY <1>9, <2>2
    <3> QED
      BY <1>8, <2>2, <3>1 DEF Told
  <2> QED
    BY <2>1, <2>2 DEF HelloIn
<1>11. RetryIn(A, Len(s)) => w.tls13 \/ w.serverHello # None
  BY <1>8 DEF RetryIn, Told
<1>12. CertificateIn(A, Len(s)) => w.certificate # None
  <2> SUFFICES ASSUME CertificateIn(A, Len(s)) PROVE w.certificate # None
    OBVIOUS
  <2>1. Len(s) >= 2 /\ A[1].of = 1 /\ A[2].msg = "CERT" /\ Len(s) >= 1 + A[2].of
    BY DEF CertificateIn
  <2>2. Len(s) >= 1
    BY ONLY <1>9, <2>1
  <2> QED
    BY <1>8, <2>1, <2>2 DEF Told
<1> QED
  BY <1>10, <1>11, <1>12 DEF A, s

(* Of the server's direction: encryption was noticed, and a                 *)
(* ChangeCipherSpec read, only after the messages that precede them.        *)
Negotiated(version, resumed, family, w) ==
    /\ w.boundary["server"] # NoBoundary => w.serverHello # None
    /\ "server" \in w.ccs =>
          /\ w.serverHello # None \/ w.tls13
          /\ version = "SH12" /\ ~resumed /\ family # "ANON" => w.certificate # None

(* Every record read keeps Negotiated: no boundary before the hello, and no *)
(* ChangeCipherSpec before what precedes it.                                *)
LEMMA NegotiatedRead ==
    ASSUME NEW version, NEW resumed, NEW pos, NEW w, Basic(version, resumed, pos, w),
           NEW f \in Fragments, NEW q, Further(pos, f, q), NEW v, AnyRead(version, resumed, w, f, v),
           NEW family, NEW list, ListFits(version, resumed, list),
           ServerFits(version, resumed, family, list), NEW h \in Nat, MaxMessages >= 2,
           f.dir = "server" => IsRecord(list, f.at + 1, h, f),
           Faithful(list, h, pos["server"], w, "server"), Negotiated(version, resumed, family, w)
    PROVE  Negotiated(version, resumed, family, v)
<1> DEFINE d == "server"
<1>1. d \in Directions /\ w \in Walks /\ f.at \in Nat /\ f.at = pos[f.dir] /\ f.dir \in Directions
      /\ list \in Seq(Records) /\ Len(list) \in Nat
  BY FurtherOn DEF Directions, Basic, Further, ListFits
<1>2. /\ HelloIn(AllOf(list), Len(w.stream[d])) => w.serverHello # None
      /\ RetryIn(AllOf(list), Len(w.stream[d])) => w.tls13 \/ w.serverHello # None
      /\ CertificateIn(AllOf(list), Len(w.stream[d])) => w.certificate # None
  <2>1. \A i \in DOMAIN w.handled[d] : Told(w, w.handled[d][i])
    BY <1>1 DEF Basic
  <2> QED
    BY ONLY <1>1, <2>1, KnownFrom, ListFits(version, resumed, list), MaxMessages >= 2,
            Faithful(list, h, pos["server"], w, "server")
<1>3. ASSUME f.dir = d, ~IsEncrypted(w, f)
      PROVE  /\ f.at + 1 \in 1..Len(list) /\ f.type = list[f.at + 1].type
             /\ Len(Got(list)[(f.at + 1) - 1]) = Len(w.stream[d]) /\ w.boundary[d] = NoBoundary
  <2>1. w.boundary[d] = NoBoundary
    BY <1>3, PastBoundary
  <2>2. IsRecord(list, f.at + 1, h, f)
    BY <1>3
  <2>3. f.at + 1 \in 1..Len(list) /\ f.type = list[f.at + 1].type /\ f.at <= h
    BY <2>2 DEF IsRecord
  <2>4. w.stream[d] = Got(list)[f.at]
    BY <1>1, <1>3, <2>1, <2>3 DEF Faithful
  <2>5. (f.at + 1) - 1 = f.at
    BY <1>1
  <2> QED
    BY <2>1, <2>3, <2>4, <2>5
<1>4. CASE Passed(w, f, v) \/ Dropped(w, f, v)
  BY <1>4 DEF Passed, Dropped, SameTold, Negotiated
<1>5. CASE ReadCcs(w, f, v)
  <2>1. SameTold(w, v) /\ v.ccs = w.ccs \cup {f.dir}
    BY <1>5 DEF ReadCcs
  <2>2. CASE f.dir # d
    <3>1. v.boundary[d] = w.boundary[d]
      BY <1>1, <1>5, <2>2 DEF ReadCcs
    <3>2. "server" \in v.ccs => "server" \in w.ccs
      BY <2>1, <2>2
    <3> QED
      BY <2>1, <3>1, <3>2 DEF SameTold, Negotiated
  <2>3. CASE f.dir = d
    <3>1. ~IsEncrypted(w, f) /\ f.type = "ccs"
      BY <1>5 DEF ReadCcs
    <3> DEFINE n == f.at + 1
    <3>2. n \in 1..Len(list) /\ list[n].type = "ccs" /\ Len(Got(list)[n - 1]) = Len(w.stream[d])
      BY <1>3, <2>3, <3>1
    <3> HIDE DEF n
    <3>3. /\ HelloIn(AllOf(list), Len(w.stream[d])) \/ RetryIn(AllOf(list), Len(w.stream[d]))
          /\ version = "SH12" /\ ~resumed /\ family # "ANON"
             => CertificateIn(AllOf(list), Len(w.stream[d]))
      BY <3>2 DEF ServerFits
    <3>4. /\ w.serverHello # None \/ w.tls13
          /\ version = "SH12" /\ ~resumed /\ family # "ANON" => w.certificate # None
      BY <1>2, <3>3
    <3>5. v.boundary[d] # NoBoundary => w.serverHello # None
      <4>1. v.boundary[d] # NoBoundary => w.boundary[d] # NoBoundary \/ ~w.tls13
        BY <1>1, <1>5 DEF ReadCcs
      <4>2. w.boundary[d] # NoBoundary => w.serverHello # None
        BY DEF Negotiated
      <4> QED
        BY <3>4, <4>1, <4>2
    <3> QED
      BY <2>1, <3>4, <3>5 DEF SameTold, Negotiated
  <2> QED
    BY <2>2, <2>3
<1>6. CASE ReadAppData(w, f, v)
  <2>1. SameTold(w, v) /\ v.ccs = w.ccs
    BY <1>6 DEF ReadAppData
  <2>2. CASE f.dir # d
    <3>1. v.boundary[d] = w.boundary[d]
      BY <1>1, <1>6, <2>2 DEF ReadAppData
    <3> QED
      BY <2>1, <3>1 DEF SameTold, Negotiated
  <2>3. CASE f.dir = d
    <3>1. ~IsEncrypted(w, f) /\ f.type = "appdata"
      BY <1>6 DEF ReadAppData
    <3> DEFINE n == f.at + 1
    <3>2. n \in 1..Len(list) /\ list[n].type = "appdata" /\ Len(Got(list)[n - 1]) = Len(w.stream[d])
      BY <1>3, <2>3, <3>1
    <3> HIDE DEF n
    <3>3. HelloIn(AllOf(list), Len(w.stream[d]))
      BY <3>2 DEF ServerFits
    <3> QED
      BY <1>2, <2>1, <3>3 DEF SameTold, Negotiated
  <2> QED
    BY <2>2, <2>3
<1>7. CASE TakenAs(version, resumed, w, f, v)
  <2>1. PICK s \in Seq(Units), C \in Seq(Messages) : Taken(version, resumed, w, f, v, s, C)
    BY <1>7 DEF TakenAs
  <2>2. v.ccs = w.ccs /\ Grown(w, v)
    BY <2>1 DEF Taken
  <2>3. v.boundary[d] = w.boundary[d] \/ v.serverHello = "SH13"
    BY <1>1, <2>1 DEF Taken
  <2>4. "SH13" # None
    BY DEF None
  <2> QED
    BY <2>2, <2>3, <2>4 DEF Grown, Negotiated
<1> QED
  BY <1>4, <1>5, <1>6, <1>7 DEF AnyRead

-----------------------------------------------------------------------------
(* The walk as a whole: records up to "pos" were read, those of td follow.  *)
Going(sc, sk, h, st, td, pos, w) ==
    /\ sk \in [Directions -> Nat] /\ h \in [Directions -> Nat]
    /\ Reading(td, sc.sends, sk, h, st, pos)
    /\ Basic(sc.version, sc.resumed, pos, w)
    /\ \A d \in Directions : sk[d] = 0 => Shielded(sc.version, sc.sends[d], h[d], pos[d], w, d)
    /\ \A d \in Directions : sk[d] = 0 /\ d \notin w.overflow =>
          Faithful(sc.sends[d], h[d], pos[d], w, d)
    /\ MaxMessages >= 2 /\ sk["server"] = 0 /\ "server" \notin w.overflow =>
          Negotiated(sc.version, sc.resumed, sc.family, w)
    /\ (\A d \in Directions : sk[d] = 0) /\ w.overflow = {} => w.certificate # "corrupt"

(* The walk starts Going at position 0.                                     *)
LEMMA GoingStarts ==
    ASSUME NEW sc, Proper(sc), NEW sk \in [Directions -> Nat], NEW h \in [Directions -> Nat],
           NEW st, NEW td, Reading(td, sc.sends, sk, h, st, [d \in Directions |-> 0])
    PROVE  Going(sc, sk, h, st, td, [d \in Directions |-> 0], NewWalk)
<1> DEFINE pos == [d \in Directions |-> 0]
           w == NewWalk
<1>1. /\ w \in Walks
      /\ w.tls13 = FALSE /\ w.serverHello = None /\ w.retry = FALSE /\ w.certificate = None
      /\ w.helloDone = FALSE /\ w.malformed = FALSE /\ w.alerts = {} /\ w.ccs = {}
      /\ w.overflow = {}
  BY NewWalkType DEF NewWalk
<1>2. \A d \in Directions : /\ w.stream[d] = << >> /\ w.end[d] = 0 /\ w.handled[d] = << >>
                            /\ w.boundary[d] = NoBoundary
  BY DEF NewWalk
<1>3. Reading(td, sc.sends, sk, h, st, pos) /\ \A d \in Directions : pos[d] = 0
  OBVIOUS
<1>4. "client" \in Directions /\ "server" \in Directions
  BY DEF Directions
<1>5. Len(<< >>) = 0 /\ 1..0 = {} /\ DOMAIN << >> = {}
  OBVIOUS
<1> HIDE DEF w, pos
<1>6. Basic(sc.version, sc.resumed, pos, w)
  <2>1. Sound(sc.version, sc.resumed, w)
    BY <1>1 DEF Sound
  <2>2. \A d \in Directions : Heard(sc.version, sc.resumed, w.stream[d])
    BY <1>2, <1>5 DEF Heard
  <2>3. Heard(None, sc.resumed, w.stream["client"])
    BY <1>2, <1>4, <1>5 DEF Heard
  <2>4. \A d \in Directions : w.end[d] <= pos[d] /\ \A i \in DOMAIN w.handled[d] :
           Told(w, w.handled[d][i])
    BY <1>2, <1>3, <1>5
  <2> QED
    BY ONLY <1>1, <1>2, <2>1, <2>2, <2>3, <2>4 DEF Basic
<1>7. ASSUME NEW d \in Directions
      PROVE  /\ Shielded(sc.version, sc.sends[d], h[d], pos[d], w, d)
             /\ Faithful(sc.sends[d], h[d], pos[d], w, d)
  <2> DEFINE list == sc.sends[d]
             A == AllOf(list)
  <2>1. list \in Seq(Records) /\ Len(list) \in Nat /\ WellFormed(A) /\ h[d] \in Nat
    BY DEF Proper, ListFits
  <2>2. A \in Seq(Units) /\ Len(A) \in Nat /\ Len(A) \in 0..Len(A)
    BY <2>1 DEF WellFormed
  <2>3. NamesOf(A)[Len(A)] \in Seq(Msgs)
    BY <2>2, NamesThere DEF NamesIn
  <2>4. Begins(<< >>, A) /\ Begins(<< >>, NamesOf(A)[Len(A)])
    BY <1>5, <2>2, <2>3 DEF Begins
  <2>5. Got(list)[0] = << >>
    BY <2>1, GotAt
  <2> HIDE DEF list, A
  <2>6. Shielded(sc.version, list, h[d], pos[d], w, d)
    <3>1. \A n \in 1..Len(list) : ~(n <= 0)
      BY <2>1
    <3> QED
      BY <1>2, <1>3, <1>5, <3>1 DEF Shielded
  <2>7. Faithful(list, h[d], pos[d], w, d)
    <3>1. 0 \in 0..Len(list) /\ 0 <= h[d]
      BY <2>1
    <3> QED
      BY <1>2, <1>3, <2>4, <2>5, <3>1 DEF Faithful, A
  <2> QED
    BY <2>6, <2>7 DEF list
<1>8. Negotiated(sc.version, sc.resumed, sc.family, w)
  BY <1>1, <1>2, <1>4 DEF Negotiated
<1>9. w.certificate # "corrupt"
  BY <1>1 DEF None
<1>10. Going(sc, sk, h, st, td, pos, w)
  BY <1>3, <1>6, <1>7, <1>8, <1>9 DEF Going
<1> QED
  BY <1>10 DEF w, pos

(* The record that is read next.                                            *)
RecordOf(sc, sk, f) == sc.sends[f.dir][f.at + 1 + sk[f.dir]]

(* The next frame is the record it should be.                               *)
LEMMA NextRecord ==
    ASSUME NEW sc, Proper(sc), NEW sk \in [Directions -> Nat], NEW h \in [Directions -> Nat],
           NEW st, NEW pos, NEW f \in Fragments, ToRead(f, sc.sends, sk, h, st, pos)
    PROVE  /\ RecordOf(sc, sk, f) \in Records
           /\ RecordFits(sc.version, sc.resumed, RecordOf(sc, sk, f))
           /\ f.dir = "client" => RecordFits(None, sc.resumed, RecordOf(sc, sk, f))
           /\ f.type = RecordOf(sc, sk, f).type /\ Begins(f.body, RecordOf(sc, sk, f).body)
           /\ sk[f.dir] = 0 => IsRecord(sc.sends[f.dir], f.at + 1, h[f.dir], f)
<1> DEFINE d == f.dir
           at == f.at
           n == f.at + 1 + sk[f.dir]
           list == sc.sends[d]
           r == list[n]
<1>1. /\ d \in Directions /\ at \in Nat /\ at < Framed(h[d], st[d]) /\ n \in 1..Len(list)
      /\ f = Frame(d, at, r, h[d], st[d])
  BY DEF ToRead
<1>2. list \in Seq(Records) /\ h[d] \in Nat /\ sk[d] \in Nat
  BY <1>1 DEF Proper
<1>3. r \in Records /\ RecordFits(sc.version, sc.resumed, r)
  <2>1. ListFits(sc.version, sc.resumed, list)
    BY <1>1 DEF Proper
  <2> QED
    BY <1>1, <1>2, <2>1 DEF ListFits
<1>4. d = "client" => RecordFits(None, sc.resumed, r)
  BY <1>1 DEF Proper, ListFits
<1>5. at <= h[d]
  <2>1. Framed(h[d], st[d]) \in Nat /\ Framed(h[d], st[d]) <= h[d] + 1
    BY <1>2, FramedBounds
  <2> HIDE DEF d, at
  <2> QED
    BY <1>1, <1>2, <2>1
<1>6. sk[d] = 0 => n = at + 1
  BY <1>1
<1> HIDE DEF d, at, n, list, r
<1>7. /\ f.type = r.type /\ Begins(f.body, r.body)
      /\ at < h[d] => f.body = r.body /\ ~f.ambiguous
  BY ONLY <1>1, <1>2, <1>3, FrameHolds
<1>8. sk[d] = 0 => IsRecord(list, at + 1, h[d], f)
  BY <1>1, <1>5, <1>6, <1>7 DEF IsRecord, r, at
<1>9. RecordOf(sc, sk, f) = r
  BY DEF RecordOf, r, n, list, d
<1> QED
  BY <1>3, <1>4, <1>7, <1>8, <1>9 DEF d, at, list

(* A walk that is Going reads the next frame and is Going still.            *)
LEMMA GoingOn ==
    ASSUME NEW sc, Proper(sc), NEW sk, NEW h, NEW st, NEW td, NEW pos, NEW w,
           Going(sc, sk, h, st, td, pos, w), td # << >>,
           NEW v, v = WalkRecord(w, Head(td))
    PROVE  \E q : Going(sc, sk, h, st, Tail(td), q, v)
<1> DEFINE f == Head(td)
           q == [pos EXCEPT ![f.dir] = f.at + 1]
           version == sc.version
           resumed == sc.resumed
           r == RecordOf(sc, sk, f)
<1>1. /\ sk \in [Directions -> Nat] /\ h \in [Directions -> Nat]
      /\ Reading(td, sc.sends, sk, h, st, pos) /\ Basic(version, resumed, pos, w)
  BY DEF Going
<1>2. /\ f \in Fragments /\ ToRead(f, sc.sends, sk, h, st, pos) /\ Further(pos, f, q)
      /\ Reading(Tail(td), sc.sends, sk, h, st, q)
  BY <1>1, NextRead
<1>3. v = WalkRecord(w, f) /\ q = [pos EXCEPT ![f.dir] = f.at + 1]
  OBVIOUS
<1> HIDE DEF f, q
<1>4. /\ r \in Records /\ RecordFits(version, resumed, r)
      /\ f.dir = "client" => RecordFits(None, resumed, r)
      /\ f.type = r.type /\ Begins(f.body, r.body)
      /\ sk[f.dir] = 0 => IsRecord(sc.sends[f.dir], f.at + 1, h[f.dir], f)
  BY <1>1, <1>2, NextRecord
<1> HIDE DEF r, version, resumed
<1>5. AnyRead(version, resumed, w, f, v)
  BY ONLY <1>1, <1>2, <1>3, <1>4, RecordRead
<1>6. Basic(version, resumed, q, v)
  BY ONLY <1>1, <1>2, <1>4, <1>5, BasicRead
<1>7. w \in Walks /\ w.overflow \subseteq v.overflow /\ f.dir \in Directions /\ f.body \in Seq(Units)
  <2>1. w \in Walks
    BY <1>1 DEF Basic
  <2> QED
    BY <1>2, <1>5, <2>1, OverflowGrows DEF Fragments
<1>8. \A d \in Directions : ListFits(version, resumed, sc.sends[d]) /\ h[d] \in Nat
  BY <1>1 DEF Proper, version, resumed
<1>9. \A d \in Directions : sk[d] = 0 => Shielded(version, sc.sends[d], h[d], pos[d], w, d)
  BY DEF Going, version
<1>10. \A d \in Directions : sk[d] = 0 /\ d \notin w.overflow =>
          Faithful(sc.sends[d], h[d], pos[d], w, d)
  BY DEF Going
<1>11. ASSUME NEW d \in Directions, sk[d] = 0
       PROVE  Shielded(version, sc.sends[d], h[d], q[d], v, d)
  <2> DEFINE list == sc.sends[d]
             n == h[d]
  <2>1. /\ ListFits(version, resumed, list) /\ n \in Nat
        /\ f.dir = d => IsRecord(list, f.at + 1, n, f)
        /\ Shielded(version, list, n, pos[d], w, d)
    BY <1>4, <1>8, <1>9, <1>11
  <2> HIDE DEF list, n
  <2>2. Shielded(version, list, n, q[d], v, d)
    BY ONLY <1>1, <1>2, <1>5, <1>7, <2>1, ShieldedRead, d \in Directions
  <2> QED
    BY <2>2 DEF list, n
<1>12. ASSUME NEW d \in Directions, sk[d] = 0, d \notin v.overflow
       PROVE  Faithful(sc.sends[d], h[d], q[d], v, d)
  <2> DEFINE list == sc.sends[d]
             n == h[d]
  <2>1. /\ ListFits(version, resumed, list) /\ n \in Nat
        /\ f.dir = d => IsRecord(list, f.at + 1, n, f)
        /\ Shielded(version, list, n, pos[d], w, d)
        /\ Faithful(list, n, pos[d], w, d)
    BY <1>4, <1>7, <1>8, <1>9, <1>10, <1>12
  <2> HIDE DEF list, n
  <2>2. Faithful(list, n, q[d], v, d)
    BY ONLY <1>1, <1>2, <1>5, <1>12, <2>1, FaithfulRead, d \in Directions
  <2> QED
    BY <2>2 DEF list, n
<1>13. ASSUME MaxMessages >= 2, sk["server"] = 0, "server" \notin v.overflow
       PROVE  Negotiated(version, resumed, sc.family, v)
  <2> DEFINE list == sc.sends["server"]
             n == h["server"]
             family == sc.family
  <2>0. "server" \in Directions
    BY DEF Directions
  <2>1. /\ ListFits(version, resumed, list) /\ n \in Nat
        /\ f.dir = "server" => IsRecord(list, f.at + 1, n, f)
        /\ Faithful(list, n, pos["server"], w, "server")
    BY <1>4, <1>7, <1>8, <1>10, <1>13, <2>0
  <2>2. ServerFits(version, resumed, family, list)
    BY DEF Proper, version, resumed
  <2>3. Negotiated(version, resumed, family, w)
    BY <1>7, <1>13 DEF Going, version, resumed
  <2> HIDE DEF list, n, family
  <2>4. Negotiated(version, resumed, family, v)
    BY ONLY <1>1, <1>2, <1>5, <1>13, <2>1, <2>2, <2>3, NegotiatedRead
  <2> QED
    BY <2>4 DEF family
<1>14. ASSUME \A d \in Directions : sk[d] = 0, v.overflow = {}
       PROVE  v.certificate # "corrupt"
  <2>1. w.overflow = {}
    BY <1>7, <1>14
  <2>2. w.certificate # "corrupt"
    BY <1>14, <2>1 DEF Going
  <2>3. CASE TakenAs(version, resumed, w, f, v)
    <3>1. PICK s \in Seq(Units), C \in Seq(Messages) : Taken(version, resumed, w, f, v, s, C)
      BY <2>3 DEF TakenAs
    <3> DEFINE d == f.dir
               list == sc.sends[d]
               n == h[d]
    <3>2. /\ d \in Directions /\ f.dir = d /\ ListFits(version, resumed, list) /\ n \in Nat
          /\ IsRecord(list, f.at + 1, n, f)
          /\ Shielded(version, list, n, pos[d], w, d)
          /\ Faithful(list, n, pos[d], w, d)
      BY <1>4, <1>7, <1>8, <1>9, <1>10, <1>14, <2>1
    <3> HIDE DEF d, list, n
    <3>3. WholeDrain(list, n, f.at + 1, s, C, w.handled[d], v.handled[d])
      BY ONLY <1>1, <1>2, <3>1, <3>2, TakenFaithfully
    <3>4. \A i \in DOMAIN C : C[i].whole
      BY <3>3 DEF WholeDrain
    <3> QED
      BY <2>2, <3>1, <3>4 DEF Taken
  <2>4. CASE ~TakenAs(version, resumed, w, f, v)
    BY <1>5, <2>2, <2>4 DEF AnyRead, Passed, ReadCcs, ReadAppData, Dropped, SameTold
  <2> QED
    BY <2>3, <2>4
<1>15. Going(sc, sk, h, st, Tail(td), q, v)
  BY ONLY <1>1, <1>2, <1>6, <1>11, <1>12, <1>13, <1>14 DEF Going, version, resumed
<1> QED
  BY <1>15

-----------------------------------------------------------------------------
(* The invariant of a capture that keeps each direction's order, and what   *)
(* follows from it.                                                         *)
Underway == \E pos : Going(scenario, skipped, held, stop, todo, pos, walk)

(* The inductive invariant.                                                 *)
WalkInv ==
    /\ scenario \in Scenarios /\ phase \in {"capture", "walk", "done"}
    /\ phase = "capture" => walk = NewWalk /\ WireOK
    /\ phase # "capture" => Underway
    /\ phase = "done" => todo = << >>

(* WalkInv holds at the start.                                              *)
LEMMA WalkInvStarts ==
    ASSUME Init
    PROVE  WalkInv
<1>1. scenario \in Scenarios /\ Proper(scenario) /\ wire = << >> /\ walk = NewWalk /\ phase = "capture"
  BY ProperScenarios DEF Init
<1>2. \A d \in Directions : Len(scenario.sends[d]) \in Nat
  BY <1>1 DEF Proper
<1>3. WireOK
  BY <1>1, <1>2, WireStarts DEF WireOK
<1> QED
  BY <1>1, <1>3 DEF WalkInv

(* Nothing is framed that was not sent.                                     *)
LEMMA FramedWasSent ==
    ASSUME NEW s \in Nat, NEW n \in Nat, NEW stopped, NEW sent \in Nat, s + n <= sent,
           stopped \notin {"end", "foreign", "absent"} => s + n < sent
    PROVE  s + Framed(n, stopped) <= sent
<1>1. Framed(n, stopped) \in Nat /\ Framed(n, stopped) <= n + 1
      /\ (~FramesOneMore(stopped) => Framed(n, stopped) <= n)
  BY FramedBounds
<1>2. FramesOneMore(stopped) => s + n < sent
  BY DEF FramesOneMore
<1> QED
  BY <1>1, <1>2

(* Every step keeps WalkInv, when captures are not reordered.               *)
LEMMA WalkInvKept ==
    ASSUME WalkInv, Reorder = FALSE, [Next]_vars
    PROVE  WalkInv'
<1>1. Proper(scenario) /\ scenario \in Scenarios /\ phase \in {"capture", "walk", "done"}
  BY ProperScenarios DEF WalkInv
<1>2. /\ scenario.sends \in [Directions -> Seq(Records)]
      /\ \A d \in Directions : Len(scenario.sends[d]) \in Nat
  BY <1>1 DEF Proper
<1>3. ASSUME NEW d \in Directions, Send(d) PROVE WalkInv'
  <2>1. SentBy(d) = Counted(wire)[d]
    BY DEF SentBy, Counted
  <2>2. /\ phase = "capture" /\ phase' = phase /\ walk' = walk /\ scenario' = scenario
        /\ wire' = Append(wire, [dir |-> d, n |-> Counted(wire)[d] + 1])
        /\ Counted(wire)[d] + 1 \in DOMAIN scenario.sends[d]
    BY <1>3, <2>1 DEF Send
  <2>3. WireFits(wire, Counted(wire), scenario.sends) /\ walk = NewWalk
    BY <2>2 DEF WalkInv, WireOK
  <2>4. Counted(wire)[d] + 1 <= Len(scenario.sends[d])
    BY <1>2, <2>2
  <2>5. WireFits(wire', Counted(wire'), scenario.sends)
    BY <1>2, <2>2, <2>3, <2>4, WireGrows
  <2>6. WireOK'
    BY <2>2, <2>5 DEF WireOK
  <2> QED
    BY <1>1, <2>2, <2>3, <2>6 DEF WalkInv
<1>4. CASE StopCapture
  <2>1. PICK sk \in [Directions -> 0..MaxSkip], h \in [Directions -> 0..6], st \in [Directions -> Stops] :
           /\ \A d \in Directions :
                /\ sk[d] + h[d] <= SentBy(d)
                /\ st[d] \notin {"end", "foreign", "absent"} => sk[d] + h[d] < SentBy(d)
           /\ skipped' = sk /\ held' = h /\ stop' = st /\ todo' = Merged(sk, h, st)
    BY <1>4 DEF StopCapture
  <2>2. phase = "capture" /\ phase' = "walk" /\ scenario' = scenario /\ walk' = walk
    BY <1>4 DEF StopCapture
  <2>3. walk = NewWalk /\ WireFits(wire, Counted(wire), scenario.sends)
    BY <2>2 DEF WalkInv, WireOK
  <2>4. sk \in [Directions -> Nat] /\ h \in [Directions -> Nat]
    BY SessionAssumption
  <2>5. ASSUME NEW d \in Directions PROVE sk[d] + Framed(h[d], st[d]) <= Counted(wire)[d]
    <3>1. SentBy(d) = Counted(wire)[d]
      BY DEF SentBy, Counted
    <3>2. sk[d] \in Nat /\ h[d] \in Nat /\ Counted(wire)[d] \in Nat
      BY <2>3, <2>4 DEF WireFits
    <3>3. /\ sk[d] + h[d] <= Counted(wire)[d]
          /\ st[d] \notin {"end", "foreign", "absent"} => sk[d] + h[d] < Counted(wire)[d]
      BY <2>1, <3>1
    <3> QED
      BY <3>2, <3>3, FramedWasSent
  <2>6. Reading(Merged(sk, h, st), scenario.sends, sk, h, st, [d \in Directions |-> 0])
    BY <1>2, <2>3, <2>4, <2>5, MergedReads
  <2>7. Going(scenario, sk, h, st, Merged(sk, h, st), [d \in Directions |-> 0], NewWalk)
    BY <1>1, <2>4, <2>6, GoingStarts
  <2>8. \E pos : Going(scenario, sk, h, st, Merged(sk, h, st), pos, NewWalk)
    BY <2>7
  <2>9. Underway'
    BY <2>1, <2>2, <2>3, <2>8 DEF Underway
  <2> QED
    BY <1>1, <2>2, <2>9 DEF WalkInv
<1>5. CASE Walk
  <2>1. /\ phase = "walk" /\ phase' = phase /\ todo # << >> /\ scenario' = scenario
        /\ walk' = WalkRecord(walk, Head(todo)) /\ todo' = Tail(todo)
        /\ skipped' = skipped /\ held' = held /\ stop' = stop
    BY <1>5 DEF Walk, captured
  <2>2. PICK pos : Going(scenario, skipped, held, stop, todo, pos, walk)
    BY <2>1 DEF WalkInv, Underway
  <2>3. \E q : Going(scenario, skipped, held, stop, Tail(todo), q, WalkRecord(walk, Head(todo)))
    BY <1>1, <2>1, <2>2, GoingOn
  <2>4. Underway'
    BY <2>1, <2>3 DEF Underway
  <2> QED
    BY <1>1, <2>1, <2>4 DEF WalkInv
<1>6. CASE Finish
  <2>1. /\ phase = "walk" /\ phase' = "done" /\ todo = << >> /\ todo' = todo /\ scenario' = scenario
        /\ walk' = walk /\ skipped' = skipped /\ held' = held /\ stop' = stop
    BY <1>6 DEF Finish, captured
  <2>2. Underway
    BY <2>1 DEF WalkInv
  <2>3. Underway'
    BY <2>1, <2>2 DEF Underway
  <2> QED
    BY <1>1, <2>1, <2>3 DEF WalkInv
<1>7. CASE UNCHANGED vars
  <2>1. /\ scenario' = scenario /\ wire' = wire /\ skipped' = skipped /\ held' = held
        /\ stop' = stop /\ phase' = phase /\ todo' = todo /\ walk' = walk
    BY <1>7 DEF vars, captured
  <2>2. WireOK => WireOK'
    BY <2>1 DEF WireOK
  <2>3. Underway => Underway'
    BY <2>1 DEF Underway
  <2> QED
    BY <2>1, <2>2, <2>3 DEF WalkInv
<1> QED
  BY <1>3, <1>4, <1>5, <1>6, <1>7 DEF Next

(* The inductive invariant of the analysis: while records are merged and    *)
(* walked, what the walk has collected, handled, bounded and concluded is   *)
(* what the records read so far justify.                                    *)
THEOREM WalkInvHolds ==
    ASSUME Reorder = FALSE
    PROVE  Spec => []WalkInv
<1>1. Init => WalkInv
  BY WalkInvStarts
<1>2. WalkInv /\ [Next]_vars => WalkInv'
  BY WalkInvKept
<1> QED
  BY <1>1, <1>2, PTL DEF Spec

(* Of a direction whose start was captured, in every phase.                 *)
LEMMA InvTells ==
    ASSUME WalkInv, FromTheStart
    PROVE  /\ Proper(scenario) /\ walk \in Walks /\ ~walk.malformed
           /\ \A d \in Directions : \A i \in 1..Len(walk.stream[d]) : walk.stream[d][i].msg # "secret"
           /\ \A d \in Directions \ walk.overflow :
                 Begins(walk.handled[d],
                        NamesOf(AllOf(scenario.sends[d]))[Len(AllOf(scenario.sends[d]))])
<1>1. Proper(scenario)
  BY ProperScenarios DEF WalkInv
<1>2. CASE phase = "capture"
  <2>1. walk = NewWalk /\ walk \in Walks
    BY <1>2, NewWalkType DEF WalkInv
  <2>2. ~walk.malformed /\ \A d \in Directions : walk.stream[d] = << >> /\ walk.handled[d] = << >>
    BY <2>1 DEF NewWalk
  <2>3. Len(<< >>) = 0 /\ 1..0 = {}
    OBVIOUS
  <2>4. ASSUME NEW d \in Directions
        PROVE  Begins(<< >>, NamesOf(AllOf(scenario.sends[d]))[Len(AllOf(scenario.sends[d]))])
    <3> DEFINE A == AllOf(scenario.sends[d])
    <3>1. WellFormed(A)
      BY <1>1 DEF Proper, ListFits
    <3>2. A \in Seq(Units) /\ Len(A) \in Nat /\ Len(A) \in 0..Len(A)
      BY <3>1 DEF WellFormed
    <3>3. NamesOf(A)[Len(A)] \in Seq(Msgs)
      BY <3>2, NamesThere DEF NamesIn
    <3> QED
      BY <2>3, <3>3 DEF Begins
  <2> QED
    BY <1>1, <2>1, <2>2, <2>3, <2>4
<1>3. CASE phase # "capture"
  <2>1. PICK pos : Going(scenario, skipped, held, stop, todo, pos, walk)
    BY <1>3 DEF WalkInv, Underway
  <2>2. walk \in Walks /\ ~walk.malformed
    BY <2>1 DEF Going, Basic, Sound
  <2>3. \A d \in Directions : \A i \in 1..Len(walk.stream[d]) : walk.stream[d][i].msg # "secret"
    BY <2>1 DEF Going, FromTheStart, Shielded
  <2>4. \A d \in Directions \ walk.overflow :
           Begins(walk.handled[d],
                  NamesOf(AllOf(scenario.sends[d]))[Len(AllOf(scenario.sends[d]))])
    BY <2>1 DEF Going, FromTheStart, Faithful
  <2> QED
    BY <1>1, <2>2, <2>3, <2>4
<1> QED
  BY <1>2, <1>3

(* WalkInv implies PlaintextOnly.                                           *)
LEMMA PlaintextFollows ==
    ASSUME WalkInv
    PROVE  PlaintextOnly
<1> SUFFICES ASSUME FromTheStart, NEW d \in Directions, NEW i \in DOMAIN walk.stream[d]
             PROVE  walk.stream[d][i].msg # "secret"
  BY DEF PlaintextOnly, EncryptedNeverParsed
<1>1. walk.stream[d] \in Seq(Units)
  BY InvTells DEF Walks
<1>2. i \in 1..Len(walk.stream[d])
  BY <1>1
<1> QED
  BY <1>2, InvTells

(* In a capture in order that holds the start of both directions, no        *)
(* encrypted byte enters a handshake buffer (_HandshakeWalk.run and         *)
(* _append_handshake), for any limit on records, bytes and messages.        *)
THEOREM PlaintextOnlyHolds ==
    ASSUME Reorder = FALSE
    PROVE  Spec => []PlaintextOnly
<1>1. WalkInv => PlaintextOnly
  BY PlaintextFollows
<1> QED
  BY <1>1, WalkInvHolds, PTL

(* The beginning of a sequence is a prefix of it.                           *)
LEMMA BeginsIsPrefix ==
    ASSUME NEW S, NEW s \in Seq(S), NEW t \in Seq(S), Begins(s, t)
    PROVE  IsPrefix(s, t)
<1> DEFINE n == Len(s)
           a == SubSeq(s, 1, n)
           b == SubSeq(t, 1, n)
<1>1. n \in Nat /\ Len(t) \in Nat /\ n <= Len(t) /\ \A i \in 1..n : s[i] = t[i]
  BY DEF Begins
<1>2. 1 \in 1..(Len(s) + 1) /\ 1 \in 1..(Len(t) + 1) /\ n >= 1 - 1 /\ n <= Len(s)
  BY <1>1
<1>3. n = Len(s)
  OBVIOUS
<1> HIDE DEF n, a, b
<1>4. /\ SubSeq(s, 1, n) \in Seq(S) /\ Len(SubSeq(s, 1, n)) = n - 1 + 1
      /\ \A k \in 1..(n - 1 + 1) : SubSeq(s, 1, n)[k] = s[1 + k - 1]
  BY ONLY <1>1, <1>2, PartOf, s \in Seq(S)
<1>5. /\ SubSeq(t, 1, n) \in Seq(S) /\ Len(SubSeq(t, 1, n)) = n - 1 + 1
      /\ \A k \in 1..(n - 1 + 1) : SubSeq(t, 1, n)[k] = t[1 + k - 1]
  BY ONLY <1>1, <1>2, PartOf, t \in Seq(S)
<1>6. n - 1 + 1 = n /\ \A k \in 1..n : 1 + k - 1 = k
  BY <1>1
<1>7. a \in Seq(S) /\ b \in Seq(S) /\ Len(a) = n /\ Len(b) = n /\ \A k \in 1..n : a[k] = b[k]
  BY ONLY <1>1, <1>4, <1>5, <1>6 DEF a, b
<1>8. a = b
  BY ONLY <1>1, <1>7
<1> QED
  BY ONLY <1>1, <1>3, <1>8 DEF a, b, IsPrefix

(* WalkInv implies HandledAsSent.                                           *)
LEMMA HandledFollows ==
    ASSUME WalkInv
    PROVE  HandledAsSent
<1> SUFFICES ASSUME FromTheStart
             PROVE  /\ ~walk.malformed
                    /\ \A d \in Directions \ walk.overflow :
                          IsPrefix(walk.handled[d], SentMessages(d))
  BY DEF HandledAsSent
<1>1. ASSUME NEW d \in Directions \ walk.overflow
      PROVE  IsPrefix(walk.handled[d], SentMessages(d))
  <2> DEFINE A == AllOf(scenario.sends[d])
  <2>1. scenario.sends[d] \in Seq(Records) /\ WellFormed(A)
    BY InvTells DEF Proper, ListFits
  <2>2. A \in Seq(Units) /\ Len(A) \in Nat /\ Len(A) \in 0..Len(A)
    BY <2>1 DEF WellFormed
  <2>3. NamesOf(A)[Len(A)] \in Seq(Msgs)
    BY <2>2, NamesThere DEF NamesIn
  <2>4. SentUnits(d) = A
    BY <2>1, SentUnitsAre
  <2>5. Begins(walk.handled[d], NamesOf(A)[Len(A)])
    BY InvTells
  <2> HIDE DEF A
  <2>6. SentMessages(d) = NamesOf(A)[Len(A)]
    BY <2>2, <2>4, SentMessagesAre
  <2>7. walk.handled[d] \in Seq(Msgs)
    BY InvTells DEF Walks
  <2> QED
    BY <2>3, <2>5, <2>6, <2>7, BeginsIsPrefix
<1> QED
  BY <1>1, InvTells

(* The messages _drain handles in a direction captured from its start are   *)
(* the first ones sent, in their order: none twice, none passed over, none  *)
(* put together from bytes that do not belong together.                     *)
THEOREM HandledAsSentHolds ==
    ASSUME Reorder = FALSE
    PROVE  Spec => []HandledAsSent
<1>1. WalkInv => HandledAsSent
  BY HandledFollows
<1> QED
  BY <1>1, WalkInvHolds, PTL

-----------------------------------------------------------------------------
(* What is reported of a capture that has been read to its end.             *)

(* A hello once there stays there.                                          *)
LEMMA MoreUnits ==
    ASSUME NEW A, NEW i \in Nat, NEW j \in Nat, i <= j, HelloIn(A, i)
    PROVE  HelloIn(A, j)
BY DEF HelloIn

(* Every record that was framed has been read.                              *)
LEMMA AllRead ==
    ASSUME NEW sends, NEW sk, NEW h \in [Directions -> Nat], NEW st, NEW pos,
           Reading(<< >>, sends, sk, h, st, pos), NEW d \in Directions, h[d] <= MaxRecords
    PROVE  pos[d] \in Nat /\ h[d] <= pos[d]
<1>1. pos[d] \in Nat /\ h[d] \in Nat /\ Framed(h[d], st[d]) \in Nat /\ h[d] <= Framed(h[d], st[d])
  BY FramedBounds DEF Reading
<1>2. ~(pos[d] < Framed(h[d], st[d]))
  <2> SUFFICES ASSUME pos[d] < Framed(h[d], st[d]) PROVE FALSE
    OBVIOUS
  <2>1. \E i \in 1..Len(<< >>) : << >>[i].dir = d /\ << >>[i].at = pos[d]
    BY <1>1 DEF Reading
  <2>2. Len(<< >>) = 0 /\ 1..0 = {}
    OBVIOUS
  <2> QED
    BY <2>1, <2>2
<1> QED
  BY <1>1, <1>2

(* A server direction walked to the end with its hello held has reported    *)
(* it.                                                                      *)
LEMMA HelloReported ==
    ASSUME NEW sc, Proper(sc), NEW sk, NEW h, NEW st, NEW pos, NEW w, MaxMessages >= 2,
           Going(sc, sk, h, st, << >>, pos, w), sk["server"] = 0, h["server"] <= MaxRecords,
           "server" \notin w.overflow, NEW n \in 1..Len(sc.sends["server"]), n <= h["server"],
           \E i \in 1..Len(sc.sends["server"][n].body) :
              sc.sends["server"][n].body[i].msg \in ServerHellos
    PROVE  w.serverHello # None
<1> DEFINE d == "server"
           list == sc.sends[d]
           p == pos[d]
           k == h[d]
           s == w.stream[d]
           A == AllOf(list)
<1>0. d \in Directions
  BY DEF Directions
<1>1. /\ h \in [Directions -> Nat] /\ Reading(<< >>, sc.sends, sk, h, st, pos)
      /\ Faithful(list, k, p, w, d) /\ Basic(sc.version, sc.resumed, pos, w)
      /\ Negotiated(sc.version, sc.resumed, sc.family, w)
  BY <1>0 DEF Going
<1>2. p \in Nat /\ k \in Nat /\ k <= p
  BY <1>0, <1>1, AllRead
<1>3. ListFits(sc.version, sc.resumed, list) /\ list \in Seq(Records) /\ Len(list) \in Nat
      /\ ServerFits(sc.version, sc.resumed, sc.family, list)
  BY <1>0 DEF Proper, ListFits
<1>4. w \in Walks /\ s \in Seq(Units) /\ \A i \in DOMAIN w.handled[d] : Told(w, w.handled[d][i])
  BY <1>0, <1>1 DEF Basic, Walks
<1>5. CASE w.boundary[d] # NoBoundary
  BY <1>1, <1>5 DEF Negotiated
<1>6. CASE w.boundary[d] = NoBoundary
  <2>1. n \in 1..Len(list) /\ n <= k /\ p \in 0..Len(list)
    BY <1>1 DEF Faithful
  <2>2. HelloIn(A, Len(Got(list)[n]))
    BY <1>3, <2>1 DEF ServerFits
  <2>3. n \in 0..Len(list) /\ k \in 0..Len(list) /\ n <= k
    BY <1>2, <1>3, <2>1
  <2>4. Got(list)[n] \in Seq(Units) /\ Got(list)[k] \in Seq(Units) /\ Begins(Got(list)[n], Got(list)[k])
    BY <1>3, <2>3, GotGrows
  <2>5. Begins(Got(list)[k], s)
    <3>1. CASE p <= k
      <4>1. p = k
        BY <1>2, <3>1
      <4>2. s = Got(list)[k]
        BY <1>1, <1>6, <3>1, <4>1 DEF Faithful
      <4> QED
        BY <2>4, <4>2 DEF Begins
    <3>2. CASE ~(p <= k)
      BY <1>1, <1>6, <3>2 DEF Faithful
    <3> QED
      BY <3>1, <3>2
  <2>6. Len(Got(list)[n]) \in Nat /\ Len(s) \in Nat /\ Len(Got(list)[n]) <= Len(s)
    <3> DEFINE a == Got(list)[n]
               b == Got(list)[k]
    <3>1. a \in Seq(Units) /\ b \in Seq(Units) /\ s \in Seq(Units) /\ Begins(a, b) /\ Begins(b, s)
      BY ONLY <1>4, <2>4, <2>5
    <3> HIDE DEF a, b, s
    <3>2. Len(a) \in Nat /\ Len(b) \in Nat /\ Len(s) \in Nat
      BY ONLY <3>1
    <3>3. Len(a) <= Len(s)
      BY ONLY <3>1, <3>2 DEF Begins
    <3> QED
      BY ONLY <3>2, <3>3 DEF a
  <2>7. HelloIn(A, Len(s))
    BY <2>2, <2>6, MoreUnits
  <2> HIDE DEF d, list, p, k
  <2> QED
    BY ONLY <1>0, <1>1, <1>3, <1>4, <2>7, KnownFrom, MaxMessages >= 2 DEF A, s
<1> QED
  BY <1>5, <1>6

(* WalkInv implies NegotiationReported.                                     *)
LEMMA NegotiationFollows ==
    ASSUME WalkInv, MaxMessages >= 2
    PROVE  NegotiationReported
<1> SUFFICES ASSUME phase = "done"
             PROVE  /\ SelectedVersion(walk) \in {None, scenario.version}
                    /\ (/\ skipped["server"] = 0 /\ held["server"] <= MaxRecords
                        /\ "server" \notin walk.overflow
                        /\ \E n \in HelloAt : n <= held["server"])
                       => SelectedVersion(walk) = scenario.version
  BY DEF NegotiationReported
<1>1. Proper(scenario) /\ todo = << >>
  BY ProperScenarios DEF WalkInv
<1>2. PICK pos : Going(scenario, skipped, held, stop, << >>, pos, walk)
  BY <1>1 DEF WalkInv, Underway
<1>3. walk.serverHello \in {None, scenario.version}
  BY <1>2 DEF Going, Basic, Sound
<1>4. ASSUME skipped["server"] = 0, held["server"] <= MaxRecords, "server" \notin walk.overflow,
             NEW n \in HelloAt, n <= held["server"]
      PROVE  walk.serverHello # None
  <2> DEFINE list == scenario.sends["server"]
  <2>1. list \in Seq(Records) /\ \A i \in 1..Len(list) : list[i] \in Records
    BY <1>1 DEF Proper, Directions
  <2>2. n \in 1..Len(list) /\ \E i \in DOMAIN list[n].body : list[n].body[i].msg \in ServerHellos
    BY <2>1 DEF HelloAt
  <2>3. DOMAIN list[n].body = 1..Len(list[n].body)
    BY <2>1, <2>2 DEF Records
  <2> QED
    BY <1>1, <1>2, <1>4, <2>2, <2>3, HelloReported
<1> QED
  BY <1>3, <1>4 DEF SelectedVersion

(* A ServerHello that was captured is reported, also after a                *)
(* HelloRetryRequest. With a limit of one message the retry would use it    *)
(* up; MaxMessages >= 2 is needed.                                          *)
THEOREM NegotiationReportedHolds ==
    ASSUME Reorder = FALSE, MaxMessages >= 2
    PROVE  Spec => []NegotiationReported
<1>1. WalkInv => NegotiationReported
  BY NegotiationFollows
<1> QED
  BY <1>1, WalkInvHolds, PTL

-----------------------------------------------------------------------------
(* What the conclusions rest on.                                            *)
Grounds(w, version, family, resumed) ==
    /\ version \in {None} \cup ServerHellos /\ resumed \in BOOLEAN /\ family \in Families
    /\ version = "SH13" => family \in {"ECDHE", "EPHEMERAL", "PSK", "PSK_EPHEMERAL"}
    /\ w \in Walks /\ Sound(version, resumed, w) /\ Negotiated(version, resumed, family, w)
    /\ w.certificate # "corrupt"
    /\ \A a \in w.alerts : a.fatal => version = None

(* The version reported is the one negotiated.                              *)
LEMMA VersionChosen ==
    ASSUME NEW w, NEW version, NEW family, NEW resumed, Grounds(w, version, family, resumed)
    PROVE  /\ w.serverHello = None \/ w.serverHello = "SH12" \/ w.serverHello = "SH13"
           /\ w.serverHello # None => w.serverHello = version
           /\ None # "SH12" /\ None # "SH13"
BY DEF Grounds, Sound, Walks, ServerHellos, None

(* The reasons given for an unseen certificate are the true ones.           *)
LEMMA CertificateConcluded ==
    ASSUME NEW w, NEW version, NEW family, NEW resumed, Grounds(w, version, family, resumed),
           NEW seen, seen = CertificateVisibility(w, family)
    PROVE  /\ seen = "ENCRYPTED_AFTER_CCS" => resumed
           /\ seen = "ENCRYPTED_TLS13" => version = "SH13"
           /\ seen # "PARSE_FAILED"
<1>1. /\ w.serverHello = None \/ w.serverHello = "SH12" \/ w.serverHello = "SH13"
      /\ w.serverHello # None => w.serverHello = version
      /\ None # "SH12" /\ None # "SH13"
  BY VersionChosen
<1>2. w.certificate = None \/ w.certificate = "whole"
  BY DEF Grounds, Walks
<1>3. CASE w.certificate = None
  <2>1. seen = AbsentCertificate(w, family)
    BY <1>3 DEF CertificateVisibility, None
  <2>2. "server" \in w.ccs =>
           /\ w.serverHello # None \/ w.tls13
           /\ version = "SH12" /\ ~resumed => family = "ANON"
    BY <1>3 DEF Grounds, Negotiated
  <2>3. resumed \in BOOLEAN
    BY DEF Grounds
  <2>4. CASE w.serverHello # None /\ family = "ANON"
    <3>1. version # "SH13" /\ version = w.serverHello
      BY <1>1, <2>4 DEF Grounds
    <3>2. w.serverHello = "SH12"
      BY <1>1, <2>4, <3>1
    <3>3. seen = "NOT_APPLICABLE_ANONYMOUS"
      BY <1>1, <2>1, <2>4, <3>2 DEF AbsentCertificate
    <3> QED
      BY <3>3
  <2>5. CASE w.serverHello = "SH13" /\ family # "ANON"
    BY <1>1, <2>1, <2>5 DEF AbsentCertificate
  <2>6. CASE w.serverHello = None \/ (w.serverHello = "SH12" /\ family # "ANON")
    <3>1. seen = IF ~(w.retry /\ w.serverHello = None) /\ "server" \in w.ccs /\ ~w.tls13
                 THEN "ENCRYPTED_AFTER_CCS" ELSE "NOT_OBSERVED"
      BY <1>1, <2>1, <2>6 DEF AbsentCertificate
    <3>2. CASE "server" \in w.ccs /\ ~w.tls13
      <4>1. version = "SH12" /\ family # "ANON"
        BY <1>1, <2>2, <2>6, <3>2
      <4>2. resumed
        BY <2>2, <2>3, <3>2, <4>1
      <4> QED
        BY <3>1, <4>2
    <3>3. CASE ~("server" \in w.ccs /\ ~w.tls13)
      BY <3>1, <3>3
    <3> QED
      BY <3>2, <3>3
  <2> QED
    BY <1>1, <2>4, <2>5, <2>6
<1>4. CASE w.certificate = "whole"
  <2>1. seen = "OBSERVED"
    BY <1>4 DEF CertificateVisibility, None
  <2> QED
    BY <2>1
<1> QED
  BY <1>2, <1>3, <1>4

(* The method of TLS 1.3 is the family of the session.                      *)
LEMMA Method13 ==
    ASSUME NEW family \in {"ECDHE", "EPHEMERAL", "PSK", "PSK_EPHEMERAL"}
    PROVE  /\ KeyExchange13(Hello13(family)).method = family
           /\ KeyExchange13(Hello13(family)).seen <=> family # "PSK"
<1> DEFINE hello == Hello13(family)
           kx == KeyExchange13(hello)
<1>0. None # "ECDHE" /\ None # "unlisted" /\ None # "FFDHE"
  BY DEF None
<1>1. CASE family = "ECDHE"
  <2>1. hello.share = "ECDHE" /\ (hello.psk <=> FALSE)
    BY <1>1 DEF Hello13
  <2> HIDE DEF hello
  <2>2. kx.method = "ECDHE" /\ kx.seen = TRUE
    BY <1>0, <2>1 DEF KeyExchange13
  <2> QED
    BY <1>1, <2>2 DEF hello
<1>2. CASE family = "EPHEMERAL"
  <2>1. hello.share = "unlisted" /\ (hello.psk <=> FALSE)
    BY <1>2 DEF Hello13
  <2> HIDE DEF hello
  <2>2. kx.method = "EPHEMERAL" /\ kx.seen = TRUE
    BY <1>0, <2>1 DEF KeyExchange13
  <2> QED
    BY <1>2, <2>2 DEF hello
<1>3. CASE family = "PSK"
  <2>1. hello.share = None /\ hello.psk = TRUE
    BY <1>3 DEF Hello13
  <2> HIDE DEF hello
  <2>2. kx.method = "PSK" /\ kx.seen = FALSE
    BY <1>0, <2>1 DEF KeyExchange13
  <2> QED
    BY <1>3, <2>2 DEF hello
<1>4. CASE family = "PSK_EPHEMERAL"
  <2>1. hello.share = "ECDHE" /\ hello.psk = TRUE
    BY <1>4 DEF Hello13
  <2> HIDE DEF hello
  <2>2. kx.method = "PSK_EPHEMERAL" /\ kx.seen = TRUE
    BY <1>0, <2>1 DEF KeyExchange13
  <2> QED
    BY <1>4, <2>2 DEF hello
<1> QED
  BY <1>1, <1>2, <1>3, <1>4

(* Forward secrecy read off a TLS 1.2 suite is the suite's own.             *)
LEMMA Secrecy12 ==
    ASSUME NEW family \in Families, NEW kx, kx.method = IF Registered(family) THEN family ELSE "UNKNOWN",
           NEW secrecy, secrecy = ForwardSecrecy12(kx)
    PROVE  /\ secrecy = "EPHEMERAL_OBSERVED" => family \in Ephemeral
           /\ secrecy \in {"PSK_ONLY", "STATIC_RSA_KEY_EXCHANGE", "NOT_FORWARD_SECRET"}
              => family \in {"PSK", "RSA", "ANON"}
<1>1. \/ kx.method = family
      \/ kx.method = "UNKNOWN"
  OBVIOUS
<1> DEFINE method == kx.method
<1>2. CASE method = "UNKNOWN"
  <2>1. secrecy = "UNKNOWN_INCOMPLETE_EVIDENCE"
    BY <1>2 DEF ForwardSecrecy12, Ephemeral
  <2> QED
    BY <2>1
<1>3. CASE method = family
  <2>1. CASE family = "RSA"
    BY <2>1, <1>3 DEF ForwardSecrecy12, Ephemeral
  <2>2. CASE family = "PSK"
    BY <2>2, <1>3 DEF ForwardSecrecy12, Ephemeral
  <2>3. CASE family = "ANON"
    BY <2>3, <1>3 DEF ForwardSecrecy12, Ephemeral
  <2>4. CASE family \in Ephemeral
    <3>1. secrecy = IF kx.seen THEN "EPHEMERAL_OBSERVED" ELSE "CAPABLE_NEGOTIATED"
      BY <2>4, <1>3 DEF ForwardSecrecy12, Ephemeral
    <3> QED
      BY <2>4, <3>1
  <2>5. CASE family \in {None, "unregistered"}
    <3>1. secrecy = "UNKNOWN_INCOMPLETE_EVIDENCE"
      BY <2>5, <1>3 DEF ForwardSecrecy12, Ephemeral, None
    <3> QED
      BY <3>1
  <2> QED
    BY <2>1, <2>2, <2>3, <2>4, <2>5 DEF Families, Ephemeral
<1> QED
  BY <1>1, <1>2, <1>3

(* Forward secrecy and key exchange are those of the version and family     *)
(* negotiated.                                                              *)
LEMMA KeysConcluded ==
    ASSUME NEW w, NEW version, NEW family, NEW resumed, Grounds(w, version, family, resumed),
           NEW secrecy, secrecy = ForwardSecrecy(w, family)
    PROVE  /\ secrecy = "EPHEMERAL_OBSERVED" => family \in Ephemeral
           /\ secrecy \in {"PSK_ONLY", "STATIC_RSA_KEY_EXCHANGE", "NOT_FORWARD_SECRET"}
              => family \in {"PSK", "RSA", "ANON"}
           /\ "key_exchange" \in SuiteParts(w, family) =>
                 version = "SH12" /\ KeyExchange(w, family).method = family
           /\ (version = "SH13" /\ SelectedVersion(w) # None) =>
                 KeyExchange(w, family).method = family
<1>1. /\ w.serverHello = None \/ w.serverHello = "SH12" \/ w.serverHello = "SH13"
      /\ w.serverHello # None => w.serverHello = version
      /\ None # "SH12" /\ None # "SH13"
  BY VersionChosen
<1> DEFINE kx == KeyExchange(w, family)
<1>2. CASE w.serverHello = None
  <2>1. secrecy = "UNKNOWN_INCOMPLETE_EVIDENCE"
    BY <1>1, <1>2 DEF ForwardSecrecy
  <2>2. SuiteParts(w, family) = {}
    BY <1>1, <1>2 DEF SuiteParts
  <2> QED
    BY <1>2, <2>1, <2>2 DEF SelectedVersion
<1>3. CASE w.serverHello = "SH13"
  <2>1. version = "SH13" /\ family \in {"ECDHE", "EPHEMERAL", "PSK", "PSK_EPHEMERAL"}
    BY <1>1, <1>3 DEF Grounds
  <2>2. kx = KeyExchange13(Hello13(family))
    BY <1>1, <1>3 DEF KeyExchange
  <2>3. kx.method = family /\ (kx.seen <=> family # "PSK")
    BY <2>1, <2>2, Method13
  <2>4. secrecy = ForwardSecrecy13(kx)
    BY <1>1, <1>3 DEF ForwardSecrecy
  <2> HIDE DEF kx
  <2>5. CASE family = "PSK"
    <3>1. secrecy = "PSK_ONLY"
      BY <2>3, <2>4, <2>5 DEF ForwardSecrecy13
    <3>2. "key_exchange" \notin SuiteParts(w, family)
      BY <1>1, <1>3 DEF SuiteParts
    <3> QED
      BY <2>3, <2>5, <3>1, <3>2 DEF kx
  <2>6. CASE family # "PSK"
    <3>1. secrecy = "EPHEMERAL_OBSERVED"
      BY <2>3, <2>4, <2>6 DEF ForwardSecrecy13
    <3>2. "key_exchange" \notin SuiteParts(w, family)
      BY <1>1, <1>3 DEF SuiteParts
    <3>3. family \in Ephemeral
      BY <2>1, <2>6 DEF Ephemeral
    <3> QED
      BY <2>3, <3>1, <3>2, <3>3 DEF kx
  <2> QED
    BY <2>5, <2>6
<1>4. CASE w.serverHello = "SH12"
  <2>1. version = "SH12" /\ family \in Families
    BY <1>1, <1>4 DEF Grounds
  <2>2. kx = KeyExchange12(w, family)
    BY <1>1, <1>4 DEF KeyExchange
  <2>3. kx.method = IF Registered(family) THEN family ELSE "UNKNOWN"
    BY <2>2 DEF KeyExchange12
  <2>4. secrecy = ForwardSecrecy12(kx)
    BY <1>1, <1>4 DEF ForwardSecrecy
  <2> HIDE DEF kx
  <2>5. /\ secrecy = "EPHEMERAL_OBSERVED" => family \in Ephemeral
        /\ secrecy \in {"PSK_ONLY", "STATIC_RSA_KEY_EXCHANGE", "NOT_FORWARD_SECRET"}
           => family \in {"PSK", "RSA", "ANON"}
    BY ONLY <2>1, <2>3, <2>4, Secrecy12
  <2>6. "key_exchange" \in SuiteParts(w, family) => Registered(family)
    <3>1. ~Registered(family) => SuiteParts(w, family) = {}
      BY <1>4 DEF SuiteParts
    <3> QED
      BY <3>1
  <2> QED
    BY <2>1, <2>3, <2>5, <2>6 DEF kx
<1> QED
  BY <1>1, <1>2, <1>3, <1>4

(* The handshake states reported are those the scenario reaches.            *)
LEMMA StateConcluded ==
    ASSUME NEW w, NEW version, NEW family, NEW resumed, Grounds(w, version, family, resumed),
           NEW states, NEW state, state = HandshakeState(w, states)
    PROVE  /\ state = "ABORTED_BY_ALERT" => version = None
           /\ state = "HELLO_RETRY_REQUESTED" => version = "SH13"
           /\ state = "SERVER_FLIGHT_COMPLETE" => version = "SH12" /\ ~resumed
<1>1. /\ w.serverHello = None \/ w.serverHello = "SH12" \/ w.serverHello = "SH13"
      /\ None # "SH12" /\ None # "SH13"
  BY VersionChosen
<1>2. /\ \A a \in w.alerts : a.fatal => version = None
      /\ w.retry => version = "SH13"
      /\ w.helloDone => version = "SH12" /\ ~resumed
  BY DEF Grounds, Sound
<1> DEFINE fatal == \E a \in w.alerts : a.fatal
           degraded == states \cap Degraded # {}
           quiet == CASE w.retry /\ w.serverHello = None -> "HELLO_RETRY_REQUESTED"
                      [] ~w.retry /\ w.serverHello = None ->
                            IF w.clientHello THEN "CLIENT_HELLO_ONLY" ELSE "NOT_OBSERVED"
                      [] w.serverHello # None ->
                            CASE ~w.clientHello -> "SERVER_HELLO_WITHOUT_CLIENT_HELLO"
                              [] w.clientHello /\ w.serverHello = "SH13" ->
                                    "NEGOTIATED_THEN_ENCRYPTED"
                              [] w.clientHello /\ w.serverHello = "SH12" ->
                                    IF w.helloDone THEN "SERVER_FLIGHT_COMPLETE"
                                    ELSE IF "server" \in w.ccs THEN "NEGOTIATED_THEN_ENCRYPTED"
                                    ELSE "NEGOTIATED"
<1>3. fatal => version = None
  BY <1>2
<1>4. CASE fatal
  <2>1. state = "ABORTED_BY_ALERT"
    BY <1>4 DEF HandshakeState
  <2> QED
    BY <1>3, <1>4, <2>1
<1>5. CASE ~fatal /\ degraded
  <2>1. state = "INDETERMINATE"
    BY <1>5 DEF HandshakeState
  <2> QED
    BY <2>1
<1>6. CASE ~fatal /\ ~degraded
  <2>1. state = quiet
    BY <1>6 DEF HandshakeState
  <2> HIDE DEF fatal, degraded
  <2>2. CASE w.retry /\ w.serverHello = None
    <3>1. quiet = "HELLO_RETRY_REQUESTED"
      BY <2>2
    <3> QED
      BY <1>2, <2>1, <2>2, <3>1
  <2>3. CASE ~w.retry /\ w.serverHello = None
    <3>1. quiet = IF w.clientHello THEN "CLIENT_HELLO_ONLY" ELSE "NOT_OBSERVED"
      BY <2>3
    <3> HIDE DEF quiet
    <3> QED
      BY <2>1, <3>1
  <2>4. CASE w.serverHello # None /\ ~w.clientHello
    <3>1. quiet = "SERVER_HELLO_WITHOUT_CLIENT_HELLO"
      BY <2>4
    <3> HIDE DEF quiet
    <3> QED
      BY <2>1, <3>1
  <2>5. CASE w.serverHello = "SH13" /\ w.clientHello
    <3>1. quiet = "NEGOTIATED_THEN_ENCRYPTED"
      BY <1>1, <2>5
    <3> HIDE DEF quiet
    <3> QED
      BY <2>1, <3>1
  <2>6. CASE w.serverHello = "SH12" /\ w.clientHello
    <3>1. quiet = IF w.helloDone THEN "SERVER_FLIGHT_COMPLETE"
                  ELSE IF "server" \in w.ccs THEN "NEGOTIATED_THEN_ENCRYPTED" ELSE "NEGOTIATED"
      BY <1>1, <2>6
    <3> HIDE DEF quiet
    <3> QED
      BY <1>2, <2>1, <3>1
  <2> QED
    BY <1>1, <2>2, <2>3, <2>4, <2>5, <2>6
<1> QED
  BY <1>4, <1>5, <1>6

(* The verdict on resumption is right, but for a ticket without identifier  *)
(* and a key from outside TLS.                                              *)
LEMMA ResumptionConcluded ==
    ASSUME scenario \in Scenarios, scenario.resumed \in BOOLEAN,
           Grounds(walk, scenario.version, Family, scenario.resumed),
           NEW likely, likely = LikelyResumed(walk, scenario.hello, Family)
    PROVE  /\ likely = "yes" => scenario.resumed \/ Prearranged
           /\ (likely = "no" /\ walk.clientHello) => ~scenario.resumed \/ Ticketed
<1>1. HellosTell(scenario) /\ Family = scenario.family
  BY HellosOfScenarios DEF Family
<1>2. /\ walk.serverHello = None \/ walk.serverHello = "SH12" \/ walk.serverHello = "SH13"
      /\ None # "SH12" /\ None # "SH13"
  BY VersionChosen
<1>3. walk.serverHello = None \/ walk.serverHello = scenario.version
  BY VersionChosen
<1>4. CASE walk.serverHello = None
  <2>1. likely = "unknown"
    BY <1>2, <1>4 DEF LikelyResumed
  <2> QED
    BY <2>1
<1>5. CASE walk.serverHello = "SH12"
  <2>1. likely = IF walk.clientHello /\ Repeated(scenario.hello) THEN "yes" ELSE "no"
    BY <1>2, <1>5 DEF LikelyResumed
  <2>2. scenario.version = "SH12"
    BY <1>2, <1>3, <1>5
  <2> QED
    BY <1>1, <2>1, <2>2 DEF HellosTell, Ticketed
<1>6. CASE walk.serverHello = "SH13"
  <2>1. likely = IF walk.clientHello /\ PskTaken(scenario.hello, Family) THEN "yes" ELSE "no"
    BY <1>2, <1>6 DEF LikelyResumed
  <2>2. scenario.version = "SH13"
    BY <1>2, <1>3, <1>6
  <2> QED
    BY <1>1, <2>1, <2>2 DEF HellosTell, Prearranged
<1> QED
  BY <1>2, <1>4, <1>5, <1>6

(* WalkInv implies ConclusionsAreTrue.                                      *)
LEMMA ConclusionsFollow ==
    ASSUME WalkInv, MaxMessages >= 2
    PROVE  ConclusionsAreTrue
<1> SUFFICES ASSUME phase = "done", FromTheStart, walk.overflow = {}
             PROVE  ConclusionsAreTrue
  BY DEF ConclusionsAreTrue
<1> DEFINE version == scenario.version
           resumed == scenario.resumed
<1>1. Proper(scenario) /\ scenario \in Scenarios /\ resumed \in BOOLEAN
  BY ProperScenarios DEF WalkInv, Proper
<1>2. PICK pos : Going(scenario, skipped, held, stop, todo, pos, walk)
  BY DEF WalkInv, Underway
<1>3. /\ skipped["server"] = 0 /\ \A d \in Directions : skipped[d] = 0
  BY DEF FromTheStart, Directions
<1>4. Negotiated(version, resumed, Family, walk) /\ walk.certificate # "corrupt"
  BY <1>2, <1>3 DEF Going, Family
<1>5. Grounds(walk, version, Family, resumed)
  BY <1>1, <1>2, <1>4 DEF Grounds, Proper, Going, Basic, Family
<1> DEFINE seen == CertificateVisibility(walk, Family)
           secrecy == ForwardSecrecy(walk, Family)
           state == HandshakeState(walk, ParseStates)
           likely == LikelyResumed(walk, scenario.hello, Family)
<1>6. /\ seen = "ENCRYPTED_AFTER_CCS" => resumed
      /\ seen = "ENCRYPTED_TLS13" => version = "SH13"
      /\ seen # "PARSE_FAILED"
  BY <1>5, CertificateConcluded
<1>7. /\ secrecy = "EPHEMERAL_OBSERVED" => Family \in Ephemeral
      /\ secrecy \in {"PSK_ONLY", "STATIC_RSA_KEY_EXCHANGE", "NOT_FORWARD_SECRET"}
         => Family \in {"PSK", "RSA", "ANON"}
      /\ "key_exchange" \in SuiteParts(walk, Family) =>
            version = "SH12" /\ KeyExchange(walk, Family).method = Family
      /\ (version = "SH13" /\ SelectedVersion(walk) # None) =>
            KeyExchange(walk, Family).method = Family
  BY <1>5, KeysConcluded
<1>8. /\ state = "ABORTED_BY_ALERT" => version = None
      /\ state = "HELLO_RETRY_REQUESTED" => version = "SH13"
      /\ state = "SERVER_FLIGHT_COMPLETE" => version = "SH12" /\ ~resumed
  BY <1>5, StateConcluded
<1>9. /\ likely = "yes" => resumed \/ Prearranged
      /\ likely = "no" /\ walk.clientHello => ~resumed \/ Ticketed
  BY <1>1, <1>5, ResumptionConcluded
<1> QED
  BY ONLY <1>6, <1>7, <1>8, <1>9 DEF ConclusionsAreTrue

(* What analyze_tls_session concludes from a finished walk is true of the   *)
(* session: why no certificate was seen, how keys were established, forward *)
(* secrecy, resumption, the state of the handshake. With MaxMessages = 1 a  *)
(* HelloRetryRequest hides the ServerHello and the conclusions change.      *)
THEOREM ConclusionsAreTrueHolds ==
    ASSUME Reorder = FALSE, MaxMessages >= 2
    PROVE  Spec => []ConclusionsAreTrue
<1>1. WalkInv => ConclusionsAreTrue
  BY ConclusionsFollow
<1> QED
  BY <1>1, WalkInvHolds, PTL
=============================================================================
