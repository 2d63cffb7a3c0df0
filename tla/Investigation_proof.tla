------------------------ MODULE Investigation_proof ------------------------
(***************************************************************************)
(* Proofs about an investigation: of any files, under any limits, with any *)
(* servers and clients.  Investigate is a function of the log and of its   *)
(* arguments, so that most of what follows is about values: first lists    *)
(* and sorting, then the turns of the loop over the files, then the three  *)
(* facts the properties come down to (InvestigationsExplain,               *)
(* InvestigationsTell, SameInvestigations).  The invariant that ties them  *)
(* to the system says that the log is what was observed, in order, and     *)
(* that the reports are investigations of it.                              *)
(***************************************************************************)
EXTENDS Investigation, Recursion, FiniteSetTheorems

-----------------------------------------------------------------------------
(* Sorting.                                                                 *)

(* R leaves no ties in S.                                                   *)
Orders(R, S) ==
    /\ \A x \in S : <<x, x>> \notin R
    /\ \A x, y \in S : x # y => <<x, y>> \in R \/ <<y, x>> \in R
    /\ \A x, y, z \in S : <<x, y>> \in R /\ <<y, z>> \in R => <<x, z>> \in R

Below(R, S, x) == {y \in S : <<y, x>> \in R}

(* In a finite set without ties every place is taken, by one element.       *)
LEMMA RankIsPlace ==
    ASSUME NEW S, IsFiniteSet(S), NEW R, Orders(R, S)
    PROVE  /\ Cardinality(S) \in Nat
           /\ \A n \in 1..Cardinality(S) :
                 \E x \in S : Cardinality(Below(R, S, x)) = n - 1
           /\ \A x \in S : Cardinality(Below(R, S, x)) \in 0..(Cardinality(S) - 1)
           /\ \A x, y \in S : Cardinality(Below(R, S, x)) = Cardinality(Below(R, S, y)) => x = y
<1> DEFINE N == Cardinality(S)
           rank == [x \in S |-> Cardinality(Below(R, S, x))]
<1>1. N \in Nat
  BY FS_CardinalityType
<1>2. ASSUME NEW x \in S PROVE IsFiniteSet(Below(R, S, x)) /\ rank[x] \in 0..(N - 1)
  <2>1. Below(R, S, x) \in SUBSET S /\ x \notin Below(R, S, x)
    BY DEF Below, Orders
  <2> DEFINE B == Below(R, S, x)
  <2>2. B \in SUBSET S /\ B # S
    BY <2>1
  <2> HIDE DEF B
  <2>3. IsFiniteSet(B) /\ Cardinality(B) <= N /\ Cardinality(B) # N
    BY <2>2, FS_Subset
  <2>4. Cardinality(B) \in Nat
    BY <2>3, FS_CardinalityType
  <2> HIDE DEF N
  <2>5. Cardinality(B) \in 0..(N - 1)
    BY <1>1, <2>3, <2>4
  <2> QED
    BY <2>3, <2>5 DEF B
<1>3. ASSUME NEW x \in S, NEW y \in S, <<x, y>> \in R PROVE rank[x] < rank[y]
  <2> DEFINE A == Below(R, S, x)
             B == Below(R, S, y)
  <2>1. A \in SUBSET B /\ x \in B /\ x \notin A
    BY <1>3 DEF Below, Orders
  <2>2. IsFiniteSet(B)
    BY <1>2
  <2> HIDE DEF A, B
  <2>3. IsFiniteSet(A) /\ Cardinality(A) <= Cardinality(B) /\ Cardinality(A) # Cardinality(B)
    BY <2>1, <2>2, FS_Subset
  <2>4. Cardinality(A) \in Nat /\ Cardinality(B) \in Nat
    BY <2>2, <2>3, FS_CardinalityType
  <2>5. Cardinality(A) < Cardinality(B)
    BY <2>3, <2>4
  <2> QED
    BY <2>5 DEF A, B
<1>4. \A x, y \in S : rank[x] = rank[y] => x = y
  <2> SUFFICES ASSUME NEW x \in S, NEW y \in S, rank[x] = rank[y], x # y PROVE FALSE
    OBVIOUS
  <2>1. rank[x] \in Int /\ rank[y] \in Int
    BY <1>1, <1>2
  <2>2. rank[x] < rank[y] \/ rank[y] < rank[x]
    BY <1>3 DEF Orders
  <2> HIDE DEF rank
  <2> QED
    BY <2>1, <2>2
<1>5. rank \in [S -> 0..(N - 1)]
  BY <1>2
<1>6. rank \in Injection(S, 0..(N - 1))
  BY <1>4, <1>5 DEF Injection, IsInjective
<1>7. IsFiniteSet(0..(N - 1)) /\ Cardinality(0..(N - 1)) = N
  <2> HIDE DEF N
  <2>1. 0 \in Int /\ N - 1 \in Int
    BY <1>1
  <2>2. Cardinality(0..(N - 1)) = IF 0 > N - 1 THEN 0 ELSE N - 1 - 0 + 1
    BY <2>1, FS_Interval
  <2> QED
    BY <1>1, <2>1, <2>2, FS_Interval
<1>8. rank \in Surjection(S, 0..(N - 1))
  <2> HIDE DEF rank
  <2> QED
    BY <1>6, <1>7, FS_Injection DEF N
<1>9. ASSUME NEW n \in 1..N PROVE \E x \in S : rank[x] = n - 1
  <2>1. n - 1 \in 0..(N - 1)
    BY <1>1
  <2> HIDE DEF rank
  <2> QED
    BY <1>8, <2>1 DEF Surjection
<1> QED
  BY <1>1, <1>2, <1>4, <1>9

(* A list holds each element of S once.                                     *)
Lists(f, S) ==
    /\ f \in [1..Cardinality(S) -> S]
    /\ \A m, n \in 1..Cardinality(S) : f[m] = f[n] => m = n
    /\ \A x \in S : \E n \in 1..Cardinality(S) : f[n] = x

(* Sorting lists every element once.                                        *)
LEMMA SortedLists ==
    ASSUME NEW S, IsFiniteSet(S), NEW R, Orders(R, S)
    PROVE  Lists([n \in 1..Cardinality(S) |->
                     CHOOSE x \in S : Cardinality(Below(R, S, x)) = n - 1], S)
<1> DEFINE N == Cardinality(S)
           Rank(x) == Cardinality(Below(R, S, x))
           f == [n \in 1..N |-> CHOOSE x \in S : Rank(x) = n - 1]
<1>1. /\ N \in Nat
      /\ \A n \in 1..N : \E x \in S : Rank(x) = n - 1
      /\ \A x \in S : Rank(x) \in 0..(N - 1)
      /\ \A x, y \in S : Rank(x) = Rank(y) => x = y
  BY RankIsPlace
<1> HIDE DEF N, Rank
<1>2. \A n \in 1..N : f[n] \in S /\ Rank(f[n]) = n - 1
  BY <1>1
<1>3. DOMAIN f = 1..N /\ f \in [1..N -> S]
  BY <1>2
<1> HIDE DEF f
<1>4. \A m, n \in 1..N : f[m] = f[n] => m = n
  BY <1>1, <1>2
<1>5. ASSUME NEW x \in S PROVE \E n \in 1..N : f[n] = x
  <2>1. Rank(x) + 1 \in 1..N /\ (Rank(x) + 1) - 1 = Rank(x)
    BY <1>1
  <2>2. f[Rank(x) + 1] = x
    BY <1>1, <1>2, <2>1
  <2> QED
    BY <2>1, <2>2
<1>6. Lists(f, S)
  BY <1>3, <1>4, <1>5 DEF Lists, N
<1> QED
  BY <1>6 DEF f, N, Rank

(* So does sorting numbers.                                                 *)
LEMMA IncreasingLists ==
    ASSUME NEW K \in SUBSET Nat, IsFiniteSet(K)
    PROVE  Lists(Sorted(K, LAMBDA i, j : i < j), K)
<1> DEFINE R == {p \in K \X K : p[1] < p[2]}
<1>1. Orders(R, K)
  BY DEF Orders
<1>2. \A x \in K : Below(R, K, x) = {y \in K : y < x}
  BY DEF Below
<1> DEFINE byRank(n) == CHOOSE x \in K : Cardinality(Below(R, K, x)) = n - 1
           byOrder(n) == CHOOSE x \in K : Cardinality({y \in K : y < x}) = n - 1
<1>3. \A n \in Nat : byRank(n) = byOrder(n)
  BY <1>2
<1>4. Cardinality(K) \in Nat
  BY FS_CardinalityType
<1>5. Lists([n \in 1..Cardinality(K) |-> byRank(n)], K)
  <2> HIDE DEF R
  <2> QED
    BY <1>1, SortedLists
<1>6. [n \in 1..Cardinality(K) |-> byRank(n)] = [n \in 1..Cardinality(K) |-> byOrder(n)]
  <2> HIDE DEF byRank, byOrder
  <2> QED
    BY <1>3, <1>4
<1>7. Sorted(K, LAMBDA i, j : i < j) = [n \in 1..Cardinality(K) |-> byOrder(n)]
  BY DEF Sorted
<1> HIDE DEF byRank, byOrder
<1> QED
  BY <1>5, <1>6, <1>7

(* The part of a list at the places K.                                      *)
AtPlaces(list, K) ==
    LET places == Sorted(K, LAMBDA i, j : i < j)
    IN  [n \in DOMAIN places |-> list[places[n]]]

(* A part of a list holds what the list has at those places, and is without *)
(* repetition if the list is.                                               *)
LEMMA PartOfList ==
    ASSUME NEW A, NEW list \in Seq(A), NEW K \in SUBSET DOMAIN list
    PROVE  /\ AtPlaces(list, K) \in Seq(A)
           /\ \A x : x \in ToSet(AtPlaces(list, K)) <=> \E i \in K : list[i] = x
           /\ (\A i, j \in DOMAIN list : list[i] = list[j] => i = j)
                => \A m, n \in DOMAIN AtPlaces(list, K) :
                      AtPlaces(list, K)[m] = AtPlaces(list, K)[n] => m = n
<1> DEFINE places == Sorted(K, LAMBDA i, j : i < j)
           N == Cardinality(K)
           part == AtPlaces(list, K)
<1>1. DOMAIN list = 1..Len(list) /\ Len(list) \in Nat /\ \A i \in DOMAIN list : list[i] \in A
  OBVIOUS
<1>2. IsFiniteSet(K) /\ K \in SUBSET Nat
  <2>1. IsFiniteSet(1..Len(list))
    BY <1>1, FS_Interval
  <2> QED
    BY <1>1, <2>1, FS_Subset
<1>3. N \in Nat
  BY <1>2, FS_CardinalityType
<1>4. Lists(places, K)
  BY <1>2, IncreasingLists
<1>5. /\ places \in [1..N -> K]
      /\ \A m, n \in 1..N : places[m] = places[n] => m = n
      /\ \A x \in K : \E n \in 1..N : places[n] = x
  <2> HIDE DEF places
  <2> QED
    BY <1>4 DEF Lists
<1>6. part = [n \in DOMAIN places |-> list[places[n]]]
  BY DEF AtPlaces
<1> HIDE DEF places, N, part
<1>7. DOMAIN part = 1..N /\ \A n \in 1..N : part[n] = list[places[n]] /\ places[n] \in K
  BY <1>5, <1>6
<1>8. part \in [1..N -> A]
  BY <1>1, <1>6, <1>7
<1>9. part \in Seq(A)
  BY <1>3, <1>8
<1>10. ASSUME NEW x PROVE x \in ToSet(part) <=> \E i \in K : list[i] = x
  BY <1>5, <1>7 DEF ToSet
<1>11. (\A i, j \in DOMAIN list : list[i] = list[j] => i = j)
         => \A m, n \in DOMAIN part : part[m] = part[n] => m = n
  BY <1>5, <1>7
<1> QED
  BY <1>9, <1>10, <1>11 DEF part

(* Sessions that are told apart by their identifiers.                       *)
Identified(S) ==
    /\ \A s \in S : s.id \in Nat /\ s.time \in Nat
    /\ \A s, t \in S : s.id = t.id => s = t

(* Putting snapshots in the order of time loses and repeats none.           *)
LEMMA ChronologicalLists ==
    ASSUME NEW A, NEW snapshots \in Seq(A), Identified(ToSet(snapshots))
    PROVE  Lists(Chronological(snapshots), ToSet(snapshots))
<1> DEFINE S == ToSet(snapshots)
           R == {p \in S \X S : Earlier(p[1], p[2])}
<1>1. IsFiniteSet(S)
  <2>1. DOMAIN snapshots = 1..Len(snapshots) /\ Len(snapshots) \in Nat
    OBVIOUS
  <2>2. IsFiniteSet(1..Len(snapshots))
    BY <2>1, FS_Interval
  <2>3. snapshots \in Surjection(1..Len(snapshots), S)
    BY <2>1 DEF Surjection, ToSet
  <2> HIDE DEF S
  <2> QED
    BY <2>2, <2>3, FS_Surjection
<1>2. Orders(R, S)
  <2>1. Identified(S)
    OBVIOUS
  <2> HIDE DEF S
  <2>2. \A x, y \in S : <<x, y>> \in R <=> Earlier(x, y)
    OBVIOUS
  <2>3. ASSUME NEW x \in S PROVE <<x, x>> \notin R
    <3>1. x.time \in Nat /\ x.id \in Nat /\ ~Earlier(x, x)
      BY <2>1 DEF Earlier, Identified
    <3> QED
      BY <2>2, <3>1
  <2>4. ASSUME NEW x \in S, NEW y \in S, x # y PROVE <<x, y>> \in R \/ <<y, x>> \in R
    <3>1. x.id \in Nat /\ y.id \in Nat /\ x.time \in Nat /\ y.time \in Nat /\ x.id # y.id
      BY <2>1, <2>4 DEF Identified
    <3>2. Earlier(x, y) \/ Earlier(y, x)
      BY <3>1 DEF Earlier
    <3> QED
      BY <2>2, <3>2
  <2>5. ASSUME NEW x \in S, NEW y \in S, NEW z \in S, <<x, y>> \in R, <<y, z>> \in R
        PROVE  <<x, z>> \in R
    <3>1. /\ x.id \in Nat /\ y.id \in Nat /\ z.id \in Nat
          /\ x.time \in Nat /\ y.time \in Nat /\ z.time \in Nat
      BY <2>1 DEF Identified
    <3>2. Earlier(x, y) /\ Earlier(y, z)
      BY <2>2, <2>5
    <3>3. Earlier(x, z)
      BY <3>1, <3>2 DEF Earlier
    <3> QED
      BY <2>2, <3>3
  <2> HIDE DEF R
  <2> QED
    BY <2>3, <2>4, <2>5 DEF Orders
<1>3. \A x \in S : Below(R, S, x) = {y \in S : Earlier(y, x)}
  <2> HIDE DEF S
  <2> QED
    BY DEF Below
<1> DEFINE byRank(n) == CHOOSE x \in S : Cardinality(Below(R, S, x)) = n - 1
           byOrder(n) == CHOOSE x \in S : Cardinality({y \in S : Earlier(y, x)}) = n - 1
<1>4. \A n \in Nat : byRank(n) = byOrder(n)
  <2> HIDE DEF S, R
  <2> QED
    BY <1>3
<1>5. Lists([n \in 1..Cardinality(S) |-> byRank(n)], S)
  <2> HIDE DEF S, R
  <2> QED
    BY <1>1, <1>2, SortedLists
<1>6. Cardinality(S) \in Nat
  BY <1>1, FS_CardinalityType
<1>7. [n \in 1..Cardinality(S) |-> byRank(n)] = [n \in 1..Cardinality(S) |-> byOrder(n)]
  <2> HIDE DEF byRank, byOrder, S
  <2> QED
    BY <1>4, <1>6
<1>8. Chronological(snapshots) = [n \in 1..Cardinality(S) |-> byOrder(n)]
  BY DEF Chronological, Sorted
<1> HIDE DEF byRank, byOrder, S
<1>9. Lists(Chronological(snapshots), S)
  BY <1>5, <1>7, <1>8
<1> QED
  BY <1>9 DEF S

-----------------------------------------------------------------------------
(* The sessions of the results.                                             *)

(* The sessions of one capture.                                             *)
LEMMA SessionsOfCapture ==
    ASSUME NEW E, NEW seen \in Seq(E), NEW c
    PROVE  /\ SessionsOf(seen, c) \in Seq(E)
           /\ \A x : x \in ToSet(SessionsOf(seen, c)) <=>
                        \E i \in DOMAIN seen : seen[i].capture = c /\ seen[i] = x
           /\ (\A i, j \in DOMAIN seen : seen[i] = seen[j] => i = j)
                => \A m, n \in DOMAIN SessionsOf(seen, c) :
                      SessionsOf(seen, c)[m] = SessionsOf(seen, c)[n] => m = n
<1> DEFINE K == {i \in DOMAIN seen : seen[i].capture = c}
<1>1. SessionsOf(seen, c) = AtPlaces(seen, K)
  BY DEF SessionsOf, Where, AtPlaces
<1>2. K \in SUBSET DOMAIN seen
  OBVIOUS
<1>3. \A x : (\E i \in K : seen[i] = x) <=> \E i \in DOMAIN seen : seen[i].capture = c /\ seen[i] = x
  OBVIOUS
<1> HIDE DEF K
<1>4. /\ AtPlaces(seen, K) \in Seq(E)
      /\ \A x : x \in ToSet(AtPlaces(seen, K)) <=> \E i \in K : seen[i] = x
  BY <1>2, PartOfList
<1>5. (\A i, j \in DOMAIN seen : seen[i] = seen[j] => i = j)
         => \A m, n \in DOMAIN AtPlaces(seen, K) :
               AtPlaces(seen, K)[m] = AtPlaces(seen, K)[n] => m = n
  BY <1>2, PartOfList
<1> QED
  BY <1>1, <1>3, <1>4, <1>5

(* The lists of the first n results, one after the other.                   *)
Joins(seen, results, f) ==
    f = [n \in 0..Len(results) |->
            IF n = 0 THEN << >> ELSE f[n - 1] \o SessionsOf(seen, results[n])]

(* AllSessions, unrolled.                                                   *)
LEMMA AllSessionsJoins ==
    ASSUME NEW E, NEW seen \in Seq(E), NEW X, NEW results \in Seq(X)
    PROVE  \E f : /\ Joins(seen, results, f) /\ f \in [0..Len(results) -> Seq(E)]
                  /\ AllSessions(seen, results) = f[Len(results)]
<1> DEFINE N == Len(results)
           step == [p \in (1..N) \X Seq(E) |-> p[2] \o SessionsOf(seen, results[p[1]])]
<1>1. N \in Nat
  OBVIOUS
<1>2. ASSUME NEW i \in 1..N, NEW b \in Seq(E)
      PROVE  b \o SessionsOf(seen, results[i]) \in Seq(E)
             /\ step[<<i, b>>] = b \o SessionsOf(seen, results[i])
  <2>1. SessionsOf(seen, results[i]) \in Seq(E)
    BY SessionsOfCapture
  <2>2. b \o SessionsOf(seen, results[i]) \in Seq(E)
    BY <2>1
  <2>3. <<i, b>> \in (1..N) \X Seq(E) /\ <<i, b>>[1] = i /\ <<i, b>>[2] = b
    OBVIOUS
  <2>4. step[<<i, b>>] = b \o SessionsOf(seen, results[i])
    BY <2>3
  <2> QED
    BY <2>2, <2>4
<1>3. step \in [(1..N) \X Seq(E) -> Seq(E)]
  BY <1>2
<1>4. << >> \in Seq(E)
  OBVIOUS
<1> HIDE DEF step, N
<1>5. PICK g : Iterates(g, N, Seq(E), << >>, step)
  BY <1>1, <1>3, <1>4, Iteration
<1>6. /\ g \in [0..N -> Seq(E)] /\ g[0] = << >>
      /\ \A i \in 1..N : g[i] = step[<<i, g[i - 1]>>]
  BY <1>5 DEF Iterates
<1>7. ASSUME NEW n \in 0..N
      PROVE  g[n] = IF n = 0 THEN << >> ELSE g[n - 1] \o SessionsOf(seen, results[n])
  <2>1. CASE n = 0
    BY <1>6, <2>1
  <2>2. CASE n # 0
    <3>1. n \in 1..N /\ n - 1 \in 0..N
      BY <1>1, <2>2
    <3>2. g[n - 1] \in Seq(E)
      BY <1>6, <3>1
    <3> QED
      BY <1>2, <1>6, <2>2, <3>1, <3>2
  <2> QED
    BY <2>1, <2>2
<1>8. g = [n \in 0..N |-> IF n = 0 THEN << >> ELSE g[n - 1] \o SessionsOf(seen, results[n])]
  BY <1>6, <1>7
<1> DEFINE joined[n \in 0..Len(results)] ==
               IF n = 0 THEN << >> ELSE joined[n - 1] \o SessionsOf(seen, results[n])
<1>9. Joins(seen, results, joined)
  BY <1>8 DEF Joins, N
<1>10. AllSessions(seen, results) = joined[Len(results)]
  BY DEF AllSessions
<1> HIDE DEF joined
<1>11. joined \in [0..N -> Seq(E)]
  <2> DEFINE T == {n \in 0..N : joined[n] \in Seq(E)}
  <2>1. /\ joined[0] = << >>
        /\ \A n \in 1..N : joined[n] = joined[n - 1] \o SessionsOf(seen, results[n])
        /\ joined = [n \in 0..N |-> joined[n]]
    BY <1>1, <1>9 DEF Joins, N
  <2>2. 0 \in T
    BY <1>1, <2>1
  <2>3. ASSUME NEW n \in 0..(N - 1), n \in T PROVE n + 1 \in T
    <3>1. n + 1 \in 1..N /\ (n + 1) - 1 = n /\ n + 1 \in 0..N
      BY <1>1
    <3>2. joined[n + 1] = joined[n] \o SessionsOf(seen, results[n + 1])
      BY <2>1, <3>1
    <3>3. joined[n] \in Seq(E)
      BY <2>3
    <3>4. joined[n] \o SessionsOf(seen, results[n + 1]) \in Seq(E)
      BY <1>2, <3>1, <3>3
    <3> QED
      BY <3>1, <3>2, <3>4
  <2> HIDE DEF T
  <2>4. 0..N \subseteq T
    BY <1>1, <2>2, <2>3, UpTo
  <2> QED
    BY <2>1, <2>4 DEF T
<1> QED
  BY <1>9, <1>10, <1>11 DEF N

(* A list without repetitions.                                              *)
Distinct(list) == \A i, j \in DOMAIN list : list[i] = list[j] => i = j

(* What a concatenation holds.                                              *)
LEMMA Concatenation ==
    ASSUME NEW E, NEW a \in Seq(E), NEW b \in Seq(E)
    PROVE  /\ a \o b \in Seq(E)
           /\ \A x : x \in ToSet(a \o b) <=> x \in ToSet(a) \/ x \in ToSet(b)
           /\ Distinct(a) /\ Distinct(b) /\ ToSet(a) \cap ToSet(b) = {} => Distinct(a \o b)
<1> DEFINE c == a \o b
<1>1. /\ c \in Seq(E) /\ Len(c) = Len(a) + Len(b)
      /\ Len(a) \in Nat /\ Len(b) \in Nat
      /\ DOMAIN a = 1..Len(a) /\ DOMAIN b = 1..Len(b) /\ DOMAIN c = 1..(Len(a) + Len(b))
      /\ \A i \in 1..Len(a) : c[i] = a[i]
      /\ \A i \in 1..Len(b) : c[i + Len(a)] = b[i]
  OBVIOUS
<1> HIDE DEF c
<1>2. ASSUME NEW i \in DOMAIN c
      PROVE  \/ i \in DOMAIN a /\ c[i] = a[i]
             \/ i - Len(a) \in DOMAIN b /\ i = (i - Len(a)) + Len(a) /\ c[i] = b[i - Len(a)]
  <2>1. CASE i <= Len(a)
    BY <1>1, <2>1
  <2>2. CASE ~(i <= Len(a))
    <3>1. i - Len(a) \in 1..Len(b) /\ i = (i - Len(a)) + Len(a)
      BY <1>1, <2>2
    <3> QED
      BY <1>1, <3>1
  <2> QED
    BY <2>1, <2>2
<1>3. ASSUME NEW x PROVE x \in ToSet(c) <=> x \in ToSet(a) \/ x \in ToSet(b)
  <2>1. ASSUME x \in ToSet(c) PROVE x \in ToSet(a) \/ x \in ToSet(b)
    BY <1>2, <2>1 DEF ToSet
  <2>2. ASSUME x \in ToSet(a) PROVE x \in ToSet(c)
    BY <1>1, <2>2 DEF ToSet
  <2>3. ASSUME x \in ToSet(b) PROVE x \in ToSet(c)
    <3>1. PICK i \in 1..Len(b) : b[i] = x
      BY <1>1, <2>3 DEF ToSet
    <3>2. i + Len(a) \in DOMAIN c
      BY <1>1
    <3> QED
      BY <1>1, <3>1, <3>2 DEF ToSet
  <2> QED
    BY <2>1, <2>2, <2>3
<1>4. ASSUME Distinct(a), Distinct(b), ToSet(a) \cap ToSet(b) = {} PROVE Distinct(c)
  <2>1. ASSUME NEW i \in DOMAIN c, NEW j \in DOMAIN c, c[i] = c[j] PROVE i = j
    <3>1. \A m \in DOMAIN a, n \in DOMAIN b : a[m] # b[n]
      BY <1>4 DEF ToSet
    <3>2. /\ \A m, n \in DOMAIN a : a[m] = a[n] => m = n
          /\ \A m, n \in DOMAIN b : b[m] = b[n] => m = n
      BY <1>4 DEF Distinct
    <3> QED
      BY <1>2, <2>1, <3>1, <3>2
  <2> QED
    BY <2>1 DEF Distinct
<1> QED
  BY <1>1, <1>3, <1>4 DEF c

(* What the results hold together.                                          *)
LEMMA SessionsOfResults ==
    ASSUME NEW E, NEW seen \in Seq(E), NEW X, NEW results \in Seq(X)
    PROVE  /\ AllSessions(seen, results) \in Seq(E)
           /\ \A x : x \in ToSet(AllSessions(seen, results)) <=>
                        \E i \in DOMAIN seen : seen[i].capture \in ToSet(results) /\ seen[i] = x
           /\ Distinct(seen) /\ Distinct(results) => Distinct(AllSessions(seen, results))
<1> DEFINE N == Len(results)
<1>1. PICK f : /\ Joins(seen, results, f) /\ f \in [0..N -> Seq(E)]
               /\ AllSessions(seen, results) = f[N]
  BY AllSessionsJoins
<1>2. /\ N \in Nat /\ DOMAIN results = 1..N /\ f[0] = << >>
      /\ \A n \in 1..N : f[n] = f[n - 1] \o SessionsOf(seen, results[n])
  <2>1. N \in Nat /\ DOMAIN results = 1..N
    OBVIOUS
  <2>2. f = [n \in 0..N |-> IF n = 0 THEN << >> ELSE f[n - 1] \o SessionsOf(seen, results[n])]
    BY <1>1 DEF Joins
  <2> HIDE DEF N
  <2>3. f[0] = << >>
    BY <2>1, <2>2
  <2>4. \A n \in 1..N : n \in 0..N /\ n # 0
    BY <2>1
  <2>5. \A n \in 1..N : f[n] = f[n - 1] \o SessionsOf(seen, results[n])
    BY <2>2, <2>4
  <2> QED
    BY <2>1, <2>3, <2>5
<1> DEFINE In(x, n) == \E k \in 1..n : \E i \in DOMAIN seen : seen[i].capture = results[k] /\ seen[i] = x
           T == {n \in 0..N : \A x : x \in ToSet(f[n]) <=> In(x, n)}
           U == {n \in 0..N : Distinct(f[n])}
<1> HIDE DEF N
<1>3. 0 \in T
  <2>1. ToSet(f[0]) = {}
    BY <1>2 DEF ToSet
  <2> QED
    BY <1>2, <2>1
<1>4. ASSUME NEW n \in 0..(N - 1), n \in T PROVE n + 1 \in T
  <2>1. n + 1 \in 1..N /\ (n + 1) - 1 = n /\ n \in 0..N /\ n + 1 \in 0..N
    BY <1>2
  <2>2. f[n + 1] = f[n] \o SessionsOf(seen, results[n + 1]) /\ f[n] \in Seq(E)
    BY <1>1, <1>2, <2>1
  <2>3. \A x : x \in ToSet(f[n + 1]) <=>
                   x \in ToSet(f[n]) \/ x \in ToSet(SessionsOf(seen, results[n + 1]))
    <3>1. SessionsOf(seen, results[n + 1]) \in Seq(E)
      BY SessionsOfCapture
    <3> QED
      BY <2>2, <3>1, Concatenation
  <2>4. \A x : x \in ToSet(SessionsOf(seen, results[n + 1])) <=>
                   \E i \in DOMAIN seen : seen[i].capture = results[n + 1] /\ seen[i] = x
    BY SessionsOfCapture
  <2>5. \A k : k \in 1..(n + 1) <=> k \in 1..n \/ k = n + 1
    BY <1>2
  <2>6. \A x : x \in ToSet(f[n + 1]) <=> In(x, n + 1)
    BY <1>4, <2>3, <2>4, <2>5
  <2> QED
    BY <2>1, <2>6
<1>5. 0..N \subseteq T
  <2> HIDE DEF T
  <2> QED
    BY <1>2, <1>3, <1>4, UpTo
<1>6. \A x : x \in ToSet(f[N]) <=> \E i \in DOMAIN seen : seen[i].capture \in ToSet(results) /\ seen[i] = x
  <2>1. N \in T
    <3> HIDE DEF T
    <3> QED
      BY <1>2, <1>5
  <2>2. \A v : v \in ToSet(results) <=> \E k \in 1..N : results[k] = v
    BY <1>2 DEF ToSet
  <2> QED
    BY <2>1, <2>2
<1>7. ASSUME Distinct(seen), Distinct(results) PROVE Distinct(f[N])
  <2>1. 0 \in U
    BY <1>2 DEF Distinct
  <2>2. ASSUME NEW n \in 0..(N - 1), n \in U PROVE n + 1 \in U
    <3>1. n + 1 \in 1..N /\ (n + 1) - 1 = n /\ n \in 0..N /\ n + 1 \in 0..N
      BY <1>2
    <3> DEFINE next == SessionsOf(seen, results[n + 1])
    <3>2. f[n + 1] = f[n] \o next /\ f[n] \in Seq(E)
      BY <1>1, <1>2, <3>1
    <3>3. next \in Seq(E) /\ Distinct(next)
      BY <1>7, SessionsOfCapture DEF Distinct
    <3>4. ToSet(f[n]) \cap ToSet(next) = {}
      <4>1. n \in T
        BY <1>5, <3>1
      <4>2. \A x : x \in ToSet(next) =>
                      \E i \in DOMAIN seen : seen[i].capture = results[n + 1] /\ seen[i] = x
        BY SessionsOfCapture
      <4>3. \A k \in 1..n : results[k] # results[n + 1]
        <5>1. \A k \in 1..n : k \in 1..N /\ k # n + 1
          BY <1>2
        <5>2. \A k \in 1..N : results[k] = results[n + 1] => k = n + 1
          BY <1>2, <1>7, <3>1 DEF Distinct
        <5> QED
          BY <5>1, <5>2
      <4> QED
        BY <4>1, <4>2, <4>3
    <3> HIDE DEF next
    <3>5. Distinct(f[n + 1])
      BY <2>2, <3>2, <3>3, <3>4, Concatenation
    <3> QED
      BY <3>1, <3>5
  <2> HIDE DEF U
  <2>3. 0..N \subseteq U
    BY <1>2, <2>1, <2>2, UpTo
  <2> QED
    BY <1>2, <2>3 DEF U
<1>8. f[N] \in Seq(E)
  BY <1>1, <1>2
<1> QED
  BY <1>1, <1>6, <1>7, <1>8

-----------------------------------------------------------------------------
(* Which captures are analysed.                                             *)

Names == DOMAIN ContentOf
Contents == {ContentOf[n] : n \in Names}
Statuses == {"FAILED", "DUPLICATE", "EMPTY", "ANALYZED"}
Records == [name : Names, id : Names \cup Contents, status : Statuses]
Codes == {"BATCH_CAPTURE_LIMIT", "CAPTURE_FAILED", "DUPLICATE_CAPTURE", "EMPTY_CAPTURE"}
Loops == [inventory : Seq(Records), results : Seq(Contents), warnings : SUBSET Codes]

(* What a list holds after Append.                                          *)
LEMMA Appended ==
    ASSUME NEW A, NEW list \in Seq(A), NEW x \in A
    PROVE  /\ Append(list, x) \in Seq(A)
           /\ ToSet(Append(list, x)) = ToSet(list) \cup {x}
           /\ Distinct(list) /\ x \notin ToSet(list) => Distinct(Append(list, x))
<1> DEFINE n == Len(list)
           longer == Append(list, x)
<1>1. /\ n \in Nat /\ longer \in Seq(A)
      /\ DOMAIN list = 1..n /\ DOMAIN longer = 1..(n + 1)
      /\ longer[n + 1] = x /\ \A i \in 1..n : longer[i] = list[i]
  OBVIOUS
<1> HIDE DEF n, longer
<1>2. \A i \in 1..(n + 1) : i \in 1..n \/ i = n + 1
  BY <1>1
<1>3. n + 1 \in 1..(n + 1) /\ \A i \in 1..n : i \in 1..(n + 1)
  BY <1>1
<1>4. ToSet(longer) = ToSet(list) \cup {x}
  BY <1>1, <1>2, <1>3 DEF ToSet
<1>5. Distinct(list) /\ x \notin ToSet(list) => Distinct(longer)
  BY <1>1, <1>2 DEF ToSet, Distinct
<1> QED
  BY <1>1, <1>4, <1>5 DEF longer

(* What one turn of the loop does.                                          *)
Turned(b, after, name) ==
    \E r \in Records :
        /\ after \in Loops
        /\ r.name = name
        /\ after.inventory = Append(b.inventory, r)
        /\ "BATCH_CAPTURE_LIMIT" \in after.warnings <=> "BATCH_CAPTURE_LIMIT" \in b.warnings
        /\ \/ /\ ContentOf[name] = Unreadable /\ r.id = name /\ r.status # "DUPLICATE"
              /\ after.results = b.results
           \/ /\ ContentOf[name] # Unreadable /\ ContentOf[name] \in ToSet(b.results)
              /\ r.status = "DUPLICATE" /\ after.results = b.results
           \/ /\ ContentOf[name] # Unreadable /\ ContentOf[name] \notin ToSet(b.results)
              /\ r.id = ContentOf[name] /\ r.status # "DUPLICATE"
              /\ after.results = Append(b.results, ContentOf[name])

(* One turn of the loop adds one record, and at most one result.            *)
LEMMA TakeFileTurns ==
    ASSUME NEW seen, NEW b \in Loops, NEW name \in Names
    PROVE  Turned(b, TakeFile(seen, b, name), name)
<1> DEFINE c == ContentOf[name]
           after == TakeFile(seen, b, name)
           none == SessionsOf(seen, c) = << >>
<1>1. c \in Contents
  BY DEF Contents
<1>2. /\ b.inventory \in Seq(Records) /\ b.results \in Seq(Contents)
      /\ b.warnings \in SUBSET Codes
  BY DEF Loops
<1>3. CASE c = Unreadable
  <2> DEFINE r == [name |-> name, id |-> name, status |-> "FAILED"]
  <2>1. after = [b EXCEPT !.inventory = Append(b.inventory, r),
                          !.warnings = b.warnings \cup {"CAPTURE_FAILED"}]
    BY <1>3 DEF TakeFile
  <2>2. r \in Records /\ r.name = name /\ r.id = name /\ r.status = "FAILED"
    BY DEF Records, Statuses
  <2> HIDE DEF r, after
  <2>3. Append(b.inventory, r) \in Seq(Records)
    BY <1>2, <2>2
  <2>4. /\ after \in Loops /\ after.inventory = Append(b.inventory, r)
        /\ after.results = b.results /\ after.warnings = b.warnings \cup {"CAPTURE_FAILED"}
    BY <1>2, <2>1, <2>3 DEF Loops, Codes
  <2> QED
    BY <1>3, <2>2, <2>4 DEF Turned, after
<1>4. CASE c # Unreadable /\ c \in ToSet(b.results)
  <2> DEFINE r == [name |-> name, id |-> c, status |-> "DUPLICATE"]
  <2>1. after = [b EXCEPT !.inventory = Append(b.inventory, r),
                          !.warnings = b.warnings \cup {"DUPLICATE_CAPTURE"}]
    BY <1>4 DEF TakeFile
  <2>2. r \in Records /\ r.name = name /\ r.id = c /\ r.status = "DUPLICATE"
    BY <1>1 DEF Records, Statuses
  <2> HIDE DEF r, after
  <2>3. Append(b.inventory, r) \in Seq(Records)
    BY <1>2, <2>2
  <2>4. /\ after \in Loops /\ after.inventory = Append(b.inventory, r)
        /\ after.results = b.results /\ after.warnings = b.warnings \cup {"DUPLICATE_CAPTURE"}
    BY <1>2, <2>1, <2>3 DEF Loops, Codes
  <2> QED
    BY <1>4, <2>2, <2>4 DEF Turned, after
<1>5. CASE c # Unreadable /\ c \notin ToSet(b.results)
  <2> DEFINE r == [name |-> name, id |-> c, status |-> IF none THEN "EMPTY" ELSE "ANALYZED"]
             more == IF none THEN {"EMPTY_CAPTURE"} ELSE {}
  <2>1. after = [b EXCEPT !.inventory = Append(b.inventory, r),
                          !.results = Append(b.results, c),
                          !.warnings = b.warnings \cup more]
    BY <1>5 DEF TakeFile
  <2>2. r \in Records /\ r.name = name /\ r.id = c /\ r.status # "DUPLICATE"
    BY <1>1 DEF Records, Statuses
  <2>3. more \in SUBSET Codes /\ "BATCH_CAPTURE_LIMIT" \notin more
    BY DEF Codes
  <2> HIDE DEF r, after, more
  <2>4. Append(b.inventory, r) \in Seq(Records) /\ Append(b.results, c) \in Seq(Contents)
    BY <1>1, <1>2, <2>2
  <2>5. /\ after \in Loops /\ after.inventory = Append(b.inventory, r)
        /\ after.results = Append(b.results, c) /\ after.warnings = b.warnings \cup more
    BY <1>2, <2>1, <2>3, <2>4 DEF Loops
  <2> QED
    BY <1>5, <2>2, <2>3, <2>5 DEF Turned, after
<1> QED
  BY <1>3, <1>4, <1>5

(* The loop after n files.                                                  *)
Taken(b, few, n, cut) ==
    /\ b \in Loops
    /\ \A x : x \in {r.name : r \in ToSet(b.inventory)} <=> \E i \in 1..n : few[i] = x
    /\ \A x : x \in ToSet(b.results) <=>
                 x # Unreadable /\ \E i \in 1..n : ContentOf[few[i]] = x
    /\ Distinct(b.results)
    /\ \A x : x \in InvestigationId(b.inventory) <=>
                 \/ x \in ToSet(b.results)
                 \/ \E i \in 1..n : ContentOf[few[i]] = Unreadable /\ few[i] = x
    /\ "BATCH_CAPTURE_LIMIT" \in b.warnings <=> cut

(* A turn keeps what Taken says of the names before it.                     *)
LEMMA TurnTakes ==
    ASSUME NEW few \in Seq(Names), NEW n \in Nat, n + 1 \in DOMAIN few, NEW cut \in BOOLEAN,
           NEW b, Taken(b, few, n, cut), NEW after, Turned(b, after, few[n + 1])
    PROVE  Taken(after, few, n + 1, cut)
<1> DEFINE name == few[n + 1]
           c == ContentOf[name]
<1>1. PICK r \in Records :
        /\ after \in Loops
        /\ r.name = name
        /\ after.inventory = Append(b.inventory, r)
        /\ "BATCH_CAPTURE_LIMIT" \in after.warnings <=> "BATCH_CAPTURE_LIMIT" \in b.warnings
        /\ \/ /\ c = Unreadable /\ r.id = name /\ r.status # "DUPLICATE"
              /\ after.results = b.results
           \/ /\ c # Unreadable /\ c \in ToSet(b.results)
              /\ r.status = "DUPLICATE" /\ after.results = b.results
           \/ /\ c # Unreadable /\ c \notin ToSet(b.results)
              /\ r.id = c /\ r.status # "DUPLICATE"
              /\ after.results = Append(b.results, c)
  BY DEF Turned
<1>2. /\ b \in Loops /\ b.inventory \in Seq(Records) /\ b.results \in Seq(Contents)
  BY DEF Taken, Loops
<1>3. name \in Names /\ c \in Contents
  BY DEF Contents
<1>4. \A k : k \in 1..(n + 1) <=> k \in 1..n \/ k = n + 1
  OBVIOUS
<1>5. ToSet(after.inventory) = ToSet(b.inventory) \cup {r}
  BY <1>1, <1>2, Appended
<1>6. \A x : x \in {q.name : q \in ToSet(after.inventory)} <=> \E i \in 1..(n + 1) : few[i] = x
  <2>1. \A x : x \in {q.name : q \in ToSet(after.inventory)} <=>
                 x \in {q.name : q \in ToSet(b.inventory)} \/ x = name
    BY <1>1, <1>5
  <2> QED
    BY <1>4, <2>1 DEF Taken
<1>7. \A x : x \in InvestigationId(after.inventory) <=>
               x \in InvestigationId(b.inventory) \/ (x = r.id /\ r.status # "DUPLICATE")
  BY <1>5 DEF InvestigationId
<1>8. /\ \A x : x \in ToSet(b.results) <=>
                  x # Unreadable /\ \E i \in 1..n : ContentOf[few[i]] = x
      /\ Distinct(b.results)
      /\ \A x : x \in InvestigationId(b.inventory) <=>
                  \/ x \in ToSet(b.results)
                  \/ \E i \in 1..n : ContentOf[few[i]] = Unreadable /\ few[i] = x
  BY DEF Taken
<1> HIDE DEF name, c
<1>9. /\ \A x : (\E i \in 1..(n + 1) : ContentOf[few[i]] = x) <=>
                  (\E i \in 1..n : ContentOf[few[i]] = x) \/ x = c
      /\ \A x : (\E i \in 1..(n + 1) : ContentOf[few[i]] = Unreadable /\ few[i] = x) <=>
                  \/ \E i \in 1..n : ContentOf[few[i]] = Unreadable /\ few[i] = x
                  \/ c = Unreadable /\ x = name
  BY <1>4 DEF name, c
<1>10. /\ \A x : x \in ToSet(after.results) <=>
                   x # Unreadable /\ \E i \in 1..(n + 1) : ContentOf[few[i]] = x
       /\ Distinct(after.results)
       /\ \A x : x \in InvestigationId(after.inventory) <=>
                   \/ x \in ToSet(after.results)
                   \/ \E i \in 1..(n + 1) : ContentOf[few[i]] = Unreadable /\ few[i] = x
  <2>1. CASE c = Unreadable
    BY <1>1, <1>7, <1>8, <1>9, <2>1
  <2>2. CASE c # Unreadable /\ c \in ToSet(b.results)
    BY <1>1, <1>7, <1>8, <1>9, <2>2
  <2>3. CASE c # Unreadable /\ c \notin ToSet(b.results)
    <3>1. after.results = Append(b.results, c) /\ r.id = c /\ r.status # "DUPLICATE"
      BY <1>1, <2>3
    <3>2. ToSet(after.results) = ToSet(b.results) \cup {c} /\ Distinct(after.results)
      BY <1>2, <1>3, <1>8, <2>3, <3>1, Appended
    <3> QED
      BY <1>7, <1>8, <1>9, <2>3, <3>1, <3>2
  <2> QED
    BY <2>1, <2>2, <2>3
<1>11. "BATCH_CAPTURE_LIMIT" \in after.warnings <=> cut
  BY <1>1 DEF Taken
<1> QED
  BY <1>1, <1>6, <1>10, <1>11 DEF Taken

Few(files, limits) ==
    SubSeq(files, 1, IF Len(files) > limits.captures THEN limits.captures ELSE Len(files))

(* The names within the limit are all names exactly when there are few      *)
(* enough.                                                                  *)
LEMMA FewFiles ==
    ASSUME NEW files \in Seq(Names), NEW limits \in Limits
    PROVE  /\ Few(files, limits) \in Seq(Names)
           /\ Few(files, limits) = files <=> Len(files) <= limits.captures
<1> DEFINE few == Few(files, limits)
           n == IF Len(files) > limits.captures THEN limits.captures ELSE Len(files)
<1>1. limits.captures \in Nat /\ Len(files) \in Nat
  BY DEF Limits
<1>2. n \in 0..Len(files)
  BY <1>1
<1>3. few = SubSeq(files, 1, n)
  BY DEF Few
<1>4. few \in Seq(Names) /\ Len(few) = n /\ \A i \in 1..n : few[i] = files[i]
  <2> HIDE DEF n, few
  <2> QED
    BY <1>2, <1>3
<1>5. Len(files) <= limits.captures => few = files
  <2> SUFFICES ASSUME Len(files) <= limits.captures PROVE few = files
    OBVIOUS
  <2>1. n = Len(files)
    BY <1>1
  <2> HIDE DEF n, few
  <2> QED
    BY <1>4, <2>1
<1>6. few = files => Len(files) <= limits.captures
  <2> SUFFICES ASSUME few = files, Len(files) > limits.captures PROVE FALSE
    BY <1>1
  <2>1. n = limits.captures
    OBVIOUS
  <2>2. Len(few) = Len(files)
    OBVIOUS
  <2> QED
    BY <1>1, <1>4, <2>1, <2>2
<1> QED
  BY <1>4, <1>5, <1>6

(* The loop takes every name within the limit.                              *)
LEMMA AcceptedTakes ==
    ASSUME NEW seen, NEW files \in Seq(Names), NEW limits \in Limits
    PROVE  Taken(Accepted(seen, files, limits), Few(files, limits), Len(Few(files, limits)),
                 Few(files, limits) # files)
<1> DEFINE few == Few(files, limits)
           cut == few # files
           N == Len(few)
           none == [inventory |-> << >>, results |-> << >>,
                    warnings |-> IF few # files THEN {"BATCH_CAPTURE_LIMIT"} ELSE {}]
           step == [p \in (1..N) \X Loops |-> TakeFile(seen, p[2], few[p[1]])]
           after[n \in 0..Len(few)] ==
               IF n = 0 THEN none ELSE TakeFile(seen, after[n - 1], few[n])
<1>1. few \in Seq(Names)
  BY FewFiles
<1>2. Accepted(seen, files, limits) = after[Len(few)]
  BY DEF Accepted, Few
<1>3. none \in Loops /\ Taken(none, few, 0, cut)
  <2> DEFINE limited == IF few # files THEN {"BATCH_CAPTURE_LIMIT"} ELSE {}
  <2>1. limited \in SUBSET Codes /\ ("BATCH_CAPTURE_LIMIT" \in limited <=> cut)
    BY DEF Codes
  <2>2. /\ none.inventory = << >> /\ none.results = << >> /\ none.warnings = limited
        /\ none = [inventory |-> << >>, results |-> << >>, warnings |-> limited]
    OBVIOUS
  <2> HIDE DEF limited, none, cut
  <2>3. none \in Loops
    BY <2>1, <2>2 DEF Loops
  <2>4. ToSet(none.inventory) = {} /\ ToSet(none.results) = {}
    BY <2>2 DEF ToSet
  <2>5. InvestigationId(none.inventory) = {} /\ Distinct(none.results)
    BY <2>2, <2>4 DEF InvestigationId, Distinct
  <2> QED
    BY <2>1, <2>2, <2>3, <2>4, <2>5 DEF Taken
<1> HIDE DEF none
<1>4. N \in Nat /\ DOMAIN few = 1..N /\ \A i \in 1..N : few[i] \in Names
  BY <1>1
<1> HIDE DEF few, N
<1>5. ASSUME NEW i \in 1..N, NEW b \in Loops
      PROVE  /\ Turned(b, TakeFile(seen, b, few[i]), few[i])
             /\ TakeFile(seen, b, few[i]) \in Loops
             /\ step[<<i, b>>] = TakeFile(seen, b, few[i])
  <2>1. few[i] \in Names
    BY <1>4
  <2>2. Turned(b, TakeFile(seen, b, few[i]), few[i])
    BY <2>1, TakeFileTurns
  <2>3. TakeFile(seen, b, few[i]) \in Loops
    BY <2>2 DEF Turned
  <2>4. <<i, b>> \in (1..N) \X Loops /\ <<i, b>>[1] = i /\ <<i, b>>[2] = b
    OBVIOUS
  <2>5. step[<<i, b>>] = TakeFile(seen, b, few[i])
    BY <2>4
  <2> QED
    BY <2>2, <2>3, <2>5
<1>6. step \in [(1..N) \X Loops -> Loops]
  BY <1>5
<1> HIDE DEF step
<1>7. PICK g : Iterates(g, N, Loops, none, step)
  BY <1>3, <1>4, <1>6, Iteration
<1>8. /\ g \in [0..N -> Loops] /\ g[0] = none
      /\ \A i \in 1..N : g[i] = step[<<i, g[i - 1]>>]
  BY <1>7 DEF Iterates
<1>9. ASSUME NEW n \in 0..N
      PROVE  g[n] = IF n = 0 THEN none ELSE TakeFile(seen, g[n - 1], few[n])
  <2>1. CASE n = 0
    BY <1>8, <2>1
  <2>2. CASE n # 0
    <3>1. n \in 1..N /\ n - 1 \in 0..N
      BY <1>4, <2>2
    <3>2. g[n - 1] \in Loops
      BY <1>8, <3>1
    <3> QED
      BY <1>5, <1>8, <2>2, <3>1, <3>2
  <2> QED
    BY <2>1, <2>2
<1>10. g = [n \in 0..N |-> IF n = 0 THEN none ELSE TakeFile(seen, g[n - 1], few[n])]
  BY <1>8, <1>9
<1>11. after = [n \in 0..N |-> IF n = 0 THEN none ELSE TakeFile(seen, after[n - 1], few[n])]
  BY <1>10 DEF N
<1> HIDE DEF after
<1> DEFINE T == {n \in 0..N : Taken(after[n], few, n, cut)}
<1>12. 0 \in T
  BY <1>3, <1>4, <1>11
<1>13. ASSUME NEW n \in 0..(N - 1), n \in T PROVE n + 1 \in T
  <2>1. n + 1 \in 1..N /\ n + 1 \in 0..N /\ (n + 1) - 1 = n /\ n + 1 # 0 /\ n \in Nat
    BY <1>4
  <2>2. Taken(after[n], few, n, cut)
    BY <1>13
  <2>3. after[n] \in Loops
    BY <2>2 DEF Taken
  <2>4. after[n + 1] = TakeFile(seen, after[n], few[n + 1])
    BY <1>11, <2>1
  <2>5. Turned(after[n], after[n + 1], few[n + 1])
    BY <1>5, <2>1, <2>3, <2>4
  <2>6. cut \in BOOLEAN /\ few \in Seq(Names) /\ n + 1 \in DOMAIN few
    BY <1>1, <1>4, <2>1
  <2> HIDE DEF cut
  <2>7. Taken(after[n + 1], few, n + 1, cut)
    BY <2>1, <2>2, <2>5, <2>6, TurnTakes
  <2> QED
    BY <2>1, <2>7
<1> HIDE DEF T
<1>14. 0..N \subseteq T
  BY <1>4, <1>12, <1>13, UpTo
<1>15. N \in T
  BY <1>4, <1>14
<1>16. Taken(after[N], few, N, cut)
  BY <1>15 DEF T
<1> QED
  BY <1>2, <1>16 DEF N, few

-----------------------------------------------------------------------------
(* The log: its n-th entry is what the analysis says of the n-th session.   *)

Entries ==
    {Observed(p[1], p[2], p[3], p[4], p[5]) :
        p \in Nat \X Endpoints \X Captures \X Configs \X Traffic}

TrueLog(seen) ==
    /\ seen \in Seq(Entries)
    /\ \A i \in DOMAIN seen : seen[i].id = i /\ seen[i].time = i

(* An entry of the log, taken apart.                                        *)
LEMMA EntriesAreObserved ==
    ASSUME NEW s \in Entries
    PROVE  \E n \in Nat, e \in Endpoints, c \in Captures, cfg \in Configs, t \in Traffic :
              s = Observed(n, e, c, cfg, t)
<1>1. PICK p \in Nat \X Endpoints \X Captures \X Configs \X Traffic :
        s = Observed(p[1], p[2], p[3], p[4], p[5])
  BY DEF Entries
<1>2. /\ p[1] \in Nat /\ p[2] \in Endpoints /\ p[3] \in Captures /\ p[4] \in Configs
      /\ p[5] \in Traffic
  OBVIOUS
<1> QED
  BY <1>1, <1>2

(* Entries are told apart by their identifiers, which are their places.     *)
LEMMA LogFacts ==
    ASSUME NEW seen, TrueLog(seen)
    PROVE  /\ Distinct(seen) /\ Identified(ToSet(seen))
           /\ \A s \in ToSet(seen) : s \in Entries /\ s.id \in DOMAIN seen /\ seen[s.id] = s
           /\ \A i \in DOMAIN seen : seen[i] \in ToSet(seen)
<1>1. DOMAIN seen = 1..Len(seen) /\ Len(seen) \in Nat /\ \A i \in DOMAIN seen : seen[i] \in Entries
  BY DEF TrueLog
<1>2. \A s \in ToSet(seen) : \E i \in DOMAIN seen : s = seen[i] /\ s.id = i /\ s.time = i
  BY DEF TrueLog, ToSet
<1>3. \A i \in DOMAIN seen : i \in Nat
  BY <1>1
<1>4. Identified(ToSet(seen))
  BY <1>2, <1>3 DEF Identified
<1>5. Distinct(seen)
  BY DEF TrueLog, Distinct
<1> QED
  BY <1>1, <1>2, <1>4, <1>5 DEF ToSet

HasCause(kind, was, is) == ServerChanged(kind, was, is) \/ OfferNotCompared(kind, was, is)

(* A change of the kinds that are compared has a cause.                     *)
LEMMA CausesAreThere ==
    ASSUME NEW was \in Entries, NEW is \in Entries, NEW kind \in DOMAIN Kinds,
           CompareSnapshots(was, is, kind).status = "OBSERVED_CHANGE"
    PROVE  HasCause(kind, was, is)
<1>1. PICK n1 \in Nat, e1 \in Endpoints, c1 \in Captures, cfg1 \in Configs, t1 \in Traffic :
        was = Observed(n1, e1, c1, cfg1, t1)
  BY EntriesAreObserved
<1>2. PICK n2 \in Nat, e2 \in Endpoints, c2 \in Captures, cfg2 \in Configs, t2 \in Traffic :
        is = Observed(n2, e2, c2, cfg2, t2)
  BY EntriesAreObserved
<1> DEFINE old == Values(was)[Kinds[kind]]
           new == Values(is)[Kinds[kind]]
<1>3. /\ old # Absent /\ new # Absent /\ old # new
      /\ kind \in OfferSensitive => SameOffer(was, is)
  BY DEF CompareSnapshots, DriftEvent
<1> DEFINE shown(t) == t.shown \notin {"refused", "plain"} /\ t.shown # "noServerFlight"
           answer1 == IF shown(t1) THEN Answer(cfg1, t1.offer) ELSE NoAnswer
           answer2 == IF shown(t2) THEN Answer(cfg2, t2.offer) ELSE NoAnswer
<1>4. /\ was.config = cfg1 /\ was.asked = t1.offer
      /\ was.version = answer1.version /\ was.suite = answer1.suite
      /\ was.group = answer1.group /\ was.chain = answer1.chain
  BY <1>1 DEF Observed
<1>5. /\ is.config = cfg2 /\ is.asked = t2.offer
      /\ is.version = answer2.version /\ is.suite = answer2.suite
      /\ is.group = answer2.group /\ is.chain = answer2.chain
  BY <1>2 DEF Observed
<1>6. SameOffer(was, is) => /\ t1.offer.versions = t2.offer.versions
                            /\ ToSet(t1.offer.suites) = ToSet(t2.offer.suites)
  <2> SUFFICES ASSUME SameOffer(was, is)
               PROVE  /\ t1.offer.versions = t2.offer.versions
                      /\ ToSet(t1.offer.suites) = ToSet(t2.offer.suites)
    OBVIOUS
  <2>1. was.offer # Absent => was.offer = [versions |-> t1.offer.versions,
                                           suites |-> ToSet(t1.offer.suites)]
    BY <1>1 DEF Observed
  <2>2. is.offer # Absent => is.offer = [versions |-> t2.offer.versions,
                                         suites |-> ToSet(t2.offer.suites)]
    BY <1>2 DEF Observed
  <2>3. /\ was.offer # Absent /\ is.offer # Absent
        /\ was.offer.versions = is.offer.versions /\ was.offer.suites = is.offer.suites
    <3>1. OfferSignature(was) # Absent /\ OfferSignature(was) = OfferSignature(is)
      BY DEF SameOffer
    <3>2. was.offer # Absent /\ is.offer # Absent
      BY <3>1 DEF OfferSignature
    <3>3. [versions |-> was.offer.versions, suites |-> was.offer.suites]
            = [versions |-> is.offer.versions, suites |-> is.offer.suites]
      BY <3>1, <3>2 DEF OfferSignature
    <3> QED
      BY <3>2, <3>3
  <2> QED
    BY <2>1, <2>2, <2>3
<1> HIDE DEF answer1, answer2, old, new
<1>7. CASE kind = "NEGOTIATED_VERSION"
  <2>1. old = was.version /\ new = is.version /\ SameOffer(was, is)
    BY <1>3, <1>7 DEF old, new, Values, Components, Kinds, OfferSensitive
  <2>2. answer1.version # Absent /\ answer2.version # Absent /\ answer1.version # answer2.version
    BY <1>3, <1>4, <1>5, <2>1
  <2>3. answer1 = Answer(cfg1, t1.offer) /\ answer2 = Answer(cfg2, t2.offer)
    BY <2>2 DEF answer1, answer2, NoAnswer
  <2> DEFINE Best(common) == CHOOSE v \in common : \A w \in common : VersionRank[w] <= VersionRank[v]
  <2>4. /\ answer1.version = Best(cfg1.versions \cap t1.offer.versions)
        /\ answer2.version = Best(cfg2.versions \cap t2.offer.versions)
    BY <2>2, <2>3 DEF Answer, NoAnswer
  <2> HIDE DEF Best
  <2>5. cfg1.versions # cfg2.versions
    BY <1>6, <2>1, <2>2, <2>4
  <2> QED
    BY <1>4, <1>5, <1>7, <2>5 DEF HasCause, ServerChanged, OfferNotCompared
<1>8. CASE kind = "NEGOTIATED_CIPHER_SUITE"
  <2>1. old = was.suite /\ new = is.suite /\ SameOffer(was, is)
    BY <1>3, <1>8 DEF old, new, Values, Components, Kinds, OfferSensitive
  <2>2. answer1.suite # Absent /\ answer2.suite # Absent /\ answer1.suite # answer2.suite
    BY <1>3, <1>4, <1>5, <2>1
  <2>3. answer1 = Answer(cfg1, t1.offer) /\ answer2 = Answer(cfg2, t2.offer)
    BY <2>2 DEF answer1, answer2, NoAnswer
  <2>4. /\ answer1.suite = IF cfg1.own THEN FirstIn(cfg1.suites, ToSet(t1.offer.suites))
                           ELSE FirstIn(t1.offer.suites, ToSet(cfg1.suites))
        /\ answer2.suite = IF cfg2.own THEN FirstIn(cfg2.suites, ToSet(t2.offer.suites))
                           ELSE FirstIn(t2.offer.suites, ToSet(cfg2.suites))
    BY <2>2, <2>3 DEF Answer, NoAnswer
  <2>5. \/ cfg1.suites # cfg2.suites \/ cfg1.own # cfg2.own
        \/ ~cfg2.own /\ t1.offer.suites # t2.offer.suites
    BY <1>6, <2>1, <2>2, <2>4
  <2> QED
    BY <1>4, <1>5, <1>8, <2>5 DEF HasCause, ServerChanged, OfferNotCompared
<1>9. CASE kind = "KEY_EXCHANGE_GROUP"
  <2>1. old = was.group /\ new = is.group
    BY <1>3, <1>9 DEF old, new, Values, Components, Kinds
  <2>2. answer1.group # Absent /\ answer2.group # Absent /\ answer1.group # answer2.group
    BY <1>3, <1>4, <1>5, <2>1
  <2>3. answer1 = Answer(cfg1, t1.offer) /\ answer2 = Answer(cfg2, t2.offer)
    BY <2>2 DEF answer1, answer2, NoAnswer
  <2>4. /\ answer1.group = FirstIn(cfg1.groups, ToSet(t1.offer.groups))
        /\ answer2.group = FirstIn(cfg2.groups, ToSet(t2.offer.groups))
    BY <2>2, <2>3 DEF Answer, NoAnswer
  <2>5. cfg1.groups # cfg2.groups \/ t1.offer.groups # t2.offer.groups
    BY <2>2, <2>4
  <2> QED
    BY <1>4, <1>5, <1>9, <2>5 DEF HasCause, ServerChanged, OfferNotCompared
<1>10. CASE kind \in {"CERTIFICATE_FINGERPRINT", "CERTIFICATE_PUBLIC_KEY"}
  <2>1. Leaf(was) # Absent /\ Leaf(is) # Absent /\ Leaf(was) # Leaf(is)
    <3>1. CASE kind = "CERTIFICATE_FINGERPRINT"
      BY <1>3, <3>1 DEF old, new, Values, Components, Kinds
    <3>2. CASE kind = "CERTIFICATE_PUBLIC_KEY"
      BY <1>3, <3>2 DEF old, new, Values, Components, Kinds
    <3> QED
      BY <1>10, <3>1, <3>2
  <2>2. answer1.chain # << >> /\ answer2.chain # << >>
        /\ Head(answer1.chain) # Head(answer2.chain)
    BY <1>4, <1>5, <2>1 DEF Leaf
  <2>3. answer1 = Answer(cfg1, t1.offer) /\ answer2 = Answer(cfg2, t2.offer)
    BY <2>2 DEF answer1, answer2, NoAnswer
  <2>4. /\ answer1.chain = << cfg1.leaf[t1.offer.sni], cfg1.issuer >>
        /\ answer2.chain = << cfg2.leaf[t2.offer.sni], cfg2.issuer >>
    BY <2>2, <2>3 DEF Answer, NoAnswer
  <2>5. cfg1.leaf # cfg2.leaf \/ t1.offer.sni # t2.offer.sni
    <3>1. /\ Head(answer1.chain) = cfg1.leaf[t1.offer.sni]
          /\ Head(answer2.chain) = cfg2.leaf[t2.offer.sni]
      BY <2>4
    <3> QED
      BY <2>2, <3>1
  <2> QED
    BY <1>4, <1>5, <1>10, <2>5 DEF HasCause, ServerChanged, OfferNotCompared
<1> QED
  BY <1>7, <1>8, <1>9, <1>10 DEF Kinds

(* And so has every change that the batch attributes to a server.           *)
LEMMA DriftHasCause ==
    ASSUME NEW seen, TrueLog(seen), NEW admitted \in Seq(Entries),
           ToSet(admitted) \subseteq ToSet(seen), NEW entities,
           NEW d \in AllDrift(admitted, entities), d.status = "OBSERVED_CHANGE",
           d.kind \in DOMAIN Kinds
    PROVE  HasCause(d.kind, seen[d.before], seen[d.after])
<1>1. PICK e \in DOMAIN entities :
        d \in DriftForEntity(Where(admitted, LAMBDA s : s.entity = e))
  BY DEF AllDrift
<1> DEFINE snapshots == Where(admitted, LAMBDA s : s.entity = e)
           First(s) == \A t \in ToSet(snapshots) : t.capture = s.capture => t = s \/ Earlier(s, t)
           earliest == Where(snapshots, First)
           ordered == Chronological(earliest)
<1>2. snapshots \in Seq(Entries) /\ ToSet(snapshots) \subseteq ToSet(seen)
  <2> DEFINE K == {i \in DOMAIN admitted : admitted[i].entity = e}
  <2>1. snapshots = AtPlaces(admitted, K) /\ K \in SUBSET DOMAIN admitted
    BY DEF Where, AtPlaces
  <2> HIDE DEF snapshots, K
  <2>2. snapshots \in Seq(Entries) /\ \A x : x \in ToSet(snapshots) => \E i \in K : admitted[i] = x
    BY <2>1, PartOfList
  <2> QED
    BY <2>1, <2>2 DEF ToSet
<1>3. earliest \in Seq(Entries) /\ ToSet(earliest) \subseteq ToSet(seen)
  <2> HIDE DEF snapshots
  <2> DEFINE K == {i \in DOMAIN snapshots : First(snapshots[i])}
  <2>1. earliest = AtPlaces(snapshots, K) /\ K \in SUBSET DOMAIN snapshots
    BY DEF Where, AtPlaces
  <2> HIDE DEF earliest, K, First
  <2>2. earliest \in Seq(Entries) /\ \A x : x \in ToSet(earliest) => \E i \in K : snapshots[i] = x
    BY <1>2, <2>1, PartOfList
  <2> QED
    BY <1>2, <2>1, <2>2 DEF ToSet
<1>4. EarliestPerCapture(snapshots) = ordered
  BY DEF EarliestPerCapture
<1>5. d \in UNION {{CompareSnapshots(ordered[i], ordered[i + 1], kind) : kind \in DOMAIN Kinds}
                     \cup ScoreDrift(ordered[i], ordered[i + 1])
                  : i \in 1..(Len(ordered) - 1)}
  <2>1. d \in DriftForEntity(snapshots)
    BY <1>1
  <2> HIDE DEF ordered, snapshots
  <2> QED
    BY <1>4, <2>1 DEF DriftForEntity
<1> HIDE DEF snapshots, First, earliest
<1>6. Lists(ordered, ToSet(earliest))
  <2>1. Identified(ToSet(earliest))
    BY <1>3, LogFacts DEF Identified
  <2> QED
    BY <1>3, <2>1, ChronologicalLists
<1> HIDE DEF ordered
<1>7. PICK i \in 1..(Len(ordered) - 1) :
        d \in {CompareSnapshots(ordered[i], ordered[i + 1], kind) : kind \in DOMAIN Kinds}
                \cup ScoreDrift(ordered[i], ordered[i + 1])
  BY <1>5
<1> DEFINE was == ordered[i]
           is == ordered[i + 1]
<1>8. was \in ToSet(seen) /\ is \in ToSet(seen)
  <2> DEFINE N == Cardinality(ToSet(earliest))
  <2>1. ordered \in [1..N -> ToSet(earliest)]
    BY <1>6 DEF Lists
  <2>2. N \in Nat
    <3>1. DOMAIN earliest = 1..Len(earliest) /\ Len(earliest) \in Nat
      BY <1>3
    <3>2. IsFiniteSet(1..Len(earliest))
      BY <3>1, FS_Interval
    <3>3. earliest \in Surjection(1..Len(earliest), ToSet(earliest))
      BY <1>3, <3>1 DEF Surjection, ToSet
    <3>4. IsFiniteSet(ToSet(earliest))
      BY <3>2, <3>3, FS_Surjection
    <3> QED
      BY <3>4, FS_CardinalityType
  <2> HIDE DEF N
  <2>3. ordered \in Seq(ToSet(earliest)) /\ Len(ordered) = N
    BY <2>1, <2>2
  <2>4. i \in 1..N /\ i + 1 \in 1..N
    BY <2>2, <2>3
  <2> QED
    BY <1>3, <2>1, <2>4
<1>9. /\ was \in Entries /\ is \in Entries
      /\ seen[was.id] = was /\ seen[is.id] = is
  BY <1>8, LogFacts
<1> HIDE DEF was, is
<1>10. CASE d \in {CompareSnapshots(was, is, kind) : kind \in DOMAIN Kinds}
  <2>1. PICK kind \in DOMAIN Kinds : d = CompareSnapshots(was, is, kind)
    BY <1>10
  <2>2. d.kind = kind /\ d.before = was.id /\ d.after = is.id
    BY <2>1 DEF CompareSnapshots, DriftEvent
  <2>3. HasCause(kind, was, is)
    BY <1>9, <2>1, CausesAreThere
  <2> QED
    BY <1>9, <2>2, <2>3
<1>11. CASE d \in ScoreDrift(was, is)
  <2>1. d.kind = "POSTURE_SCORE"
    BY <1>11 DEF ScoreDrift, DriftEvent
  <2> QED
    BY <2>1 DEF Kinds
<1> QED
  BY <1>7, <1>10, <1>11 DEF was, is

-----------------------------------------------------------------------------
(* What an investigation consists of.                                       *)

EventsOf(all, admitted, drift) ==
    SessionEvents(ToSet(all), ToSet(admitted)) \cup DriftEvents(drift)

Ids(list) == {s.id : s \in ToSet(list)}

Parts(seen, files, limits, r, results, all, admitted) ==
    /\ r = [files        |-> files,
            id           |-> r.id,
            inventory    |-> r.inventory,
            entities     |-> r.entities,
            relations    |-> r.relations,
            fingerprints |-> r.fingerprints,
            drift        |-> r.drift,
            correlations |-> r.correlations,
            blast        |-> r.blast,
            timeline     |-> r.timeline,
            warnings     |-> r.warnings]
    /\ r.entities = BuildEntities(admitted)
    /\ r.relations = RelateEntities(r.entities)
    /\ r.fingerprints = {Fingerprint(admitted[i]) :
                            i \in {k \in DOMAIN admitted : k <= limits.fingerprints}}
    /\ r.drift = AllDrift(admitted, r.entities)
    /\ r.correlations = Reported(Correlate(admitted), limits.correlations)
    /\ r.blast = BuildBlastRadius(admitted)
    /\ r.timeline = BuildTimeline(EventsOf(all, admitted, r.drift), limits.events)

Warned(limits, r, all, admitted) ==
    /\ "BATCH_SESSION_LIMIT" \in r.warnings <=> Len(all) > limits.sessions
    /\ Cardinality(Correlate(admitted)) > limits.correlations => "CORRELATION_LIMIT" \in r.warnings
    /\ Cardinality(EventsOf(all, admitted, r.drift)) > limits.events
          => "TIMELINE_LIMIT" \in r.warnings

FilesTold(files, limits, r, results) ==
    /\ "BATCH_CAPTURE_LIMIT" \in r.warnings <=> Len(files) > limits.captures
    /\ results \in Seq(Contents) /\ Distinct(results)
    /\ Len(files) <= limits.captures =>
          /\ {x.name : x \in r.inventory} = ToSet(files)
          /\ \A x : x \in ToSet(results) <=>
                       x # Unreadable /\ \E n \in ToSet(files) : ContentOf[n] = x
          /\ \A x : x \in r.id <=>
                       \/ x \in ToSet(results)
                       \/ x \in ToSet(files) /\ ContentOf[x] = Unreadable

SessionsTold(seen, limits, results, all, admitted) ==
    /\ all \in Seq(Entries) /\ Distinct(all)
    /\ \A x : x \in ToSet(all) <=> x \in ToSet(seen) /\ x.capture \in ToSet(results)
    /\ admitted \in Seq(Entries) /\ Distinct(admitted)
    /\ ToSet(admitted) \subseteq ToSet(all)
    /\ Len(all) <= limits.sessions => admitted = all

(* An investigation, taken apart: what was joined, what was admitted, what  *)
(* was announced.                                                           *)
LEMMA InvestigationParts ==
    ASSUME NEW seen, TrueLog(seen), NEW files \in Seq(Names), NEW limits \in Limits
    PROVE  \E results, all, admitted :
              LET r == Investigate(seen, files, limits)
              IN  /\ Parts(seen, files, limits, r, results, all, admitted)
                  /\ Warned(limits, r, all, admitted)
                  /\ FilesTold(files, limits, r, results)
                  /\ SessionsTold(seen, limits, results, all, admitted)
<1> DEFINE r == Investigate(seen, files, limits)
           taken == Accepted(seen, files, limits)
           results == taken.results
           all == AllSessions(seen, results)
           admitted == Admitted(seen, results, limits)
           entities == BuildEntities(admitted)
           drift == AllDrift(admitted, entities)
           correlations == Correlate(admitted)
           events == EventsOf(all, admitted, drift)
           few == Few(files, limits)
<1>1. /\ limits.captures \in Nat /\ limits.sessions \in Nat
      /\ Len(files) \in Nat
  BY DEF Limits
<1>2. Taken(taken, few, Len(few), few # files)
  BY AcceptedTakes
<1>3. taken \in Loops /\ results \in Seq(Contents) /\ Distinct(results)
  <2> HIDE DEF taken
  <2> QED
    BY <1>2 DEF Taken, Loops
<1>4. few \in Seq(Names) /\ (few = files <=> Len(files) <= limits.captures)
  BY FewFiles
<1> DEFINE Warn(code, cond) == IF cond THEN {code} ELSE {}
           warnings == taken.warnings
                         \cup Warn("BATCH_SESSION_LIMIT", TooManySessions(seen, results, limits))
                         \cup Warn("CORRELATION_LIMIT",
                                   Cardinality(correlations) > limits.correlations)
                         \cup Warn("TIMELINE_LIMIT", Cardinality(events) > limits.events)
<1>5. r = [files        |-> files,
           id           |-> InvestigationId(taken.inventory),
           inventory    |-> ToSet(taken.inventory),
           entities     |-> entities,
           relations    |-> RelateEntities(entities),
           fingerprints |-> {Fingerprint(admitted[i]) :
                                i \in {k \in DOMAIN admitted : k <= limits.fingerprints}},
           drift        |-> drift,
           correlations |-> Reported(correlations, limits.correlations),
           blast        |-> BuildBlastRadius(admitted),
           timeline     |-> BuildTimeline(events, limits.events),
           warnings     |-> warnings]
  BY DEF Investigate, EventsOf
<1> HIDE DEF r, taken, all, admitted, entities, drift, correlations, events, few, warnings
<1>6. Parts(seen, files, limits, r, results, all, admitted)
  BY <1>5 DEF Parts, entities, drift, correlations, events
<1>7. r.warnings = warnings /\ r.inventory = ToSet(taken.inventory)
      /\ r.id = InvestigationId(taken.inventory) /\ r.drift = drift
  BY <1>5
<1>8. \A x : x \in warnings <=>
         \/ x \in taken.warnings
         \/ x = "BATCH_SESSION_LIMIT" /\ Len(all) > limits.sessions
         \/ x = "CORRELATION_LIMIT" /\ Cardinality(correlations) > limits.correlations
         \/ x = "TIMELINE_LIMIT" /\ Cardinality(events) > limits.events
  BY DEF warnings, TooManySessions, all
<1>9. taken.warnings \in SUBSET Codes
  BY <1>3 DEF Loops
<1>10. Warned(limits, r, all, admitted)
  BY <1>7, <1>8, <1>9 DEF Warned, Codes, correlations, events
<1>11. FilesTold(files, limits, r, results)
  <2>1. "BATCH_CAPTURE_LIMIT" \in r.warnings <=> Len(files) > limits.captures
    BY <1>1, <1>2, <1>4, <1>7, <1>8 DEF Taken
  <2>2. ASSUME Len(files) <= limits.captures
        PROVE  /\ {x.name : x \in r.inventory} = ToSet(files)
               /\ \A x : x \in ToSet(results) <=>
                            x # Unreadable /\ \E n \in ToSet(files) : ContentOf[n] = x
               /\ \A x : x \in r.id <=>
                            \/ x \in ToSet(results)
                            \/ x \in ToSet(files) /\ ContentOf[x] = Unreadable
    <3>1. few = files
      BY <1>4, <2>2
    <3>2. Taken(taken, files, Len(files), FALSE)
      BY <1>2, <3>1
    <3>3. \A x : x \in ToSet(files) <=> \E i \in 1..Len(files) : files[i] = x
      BY DEF ToSet
    <3>4. {x.name : x \in r.inventory} = ToSet(files)
      BY <1>7, <3>2, <3>3 DEF Taken
    <3>5. /\ \A x : x \in ToSet(results) <=>
                 x # Unreadable /\ \E i \in 1..Len(files) : ContentOf[files[i]] = x
          /\ \A x : x \in r.id <=>
                 \/ x \in ToSet(results)
                 \/ \E i \in 1..Len(files) : ContentOf[files[i]] = Unreadable /\ files[i] = x
      BY <1>7, <3>2 DEF Taken
    <3> HIDE DEF results
    <3> QED
      BY <3>3, <3>4, <3>5
  <2> QED
    BY <1>3, <2>1, <2>2 DEF FilesTold
<1>12. SessionsTold(seen, limits, results, all, admitted)
  <2>1. seen \in Seq(Entries) /\ Distinct(seen)
    BY LogFacts DEF TrueLog
  <2>a. results \in Seq(Contents) /\ Distinct(results)
    BY <1>3
  <2> HIDE DEF results
  <2>b. /\ all \in Seq(Entries)
        /\ \A x : x \in ToSet(all) <=>
                     \E i \in DOMAIN seen : seen[i].capture \in ToSet(results) /\ seen[i] = x
        /\ Distinct(seen) /\ Distinct(results) => Distinct(all)
    <3> USE DEF all
    <3>1. seen \in Seq(Entries) /\ results \in Seq(Contents)
      BY <2>1, <2>a
    <3> QED
      BY ONLY <3>1, SessionsOfResults, Zenon
  <2>2. all \in Seq(Entries) /\ Distinct(all)
    BY <2>1, <2>a, <2>b
  <2>3. \A x : x \in ToSet(all) <=>
                 \E i \in DOMAIN seen : seen[i].capture \in ToSet(results) /\ seen[i] = x
    BY <2>b
  <2>4. \A x : x \in ToSet(all) <=> x \in ToSet(seen) /\ x.capture \in ToSet(results)
    BY <2>3 DEF ToSet
  <2> DEFINE n == IF Len(all) > limits.sessions THEN limits.sessions ELSE Len(all)
  <2>5. admitted = SubSeq(all, 1, n)
    BY DEF admitted, Admitted, all
  <2>6. n \in 0..Len(all) /\ (Len(all) <= limits.sessions => n = Len(all))
    BY <1>1, <2>2
  <2> HIDE DEF n
  <2>7. /\ admitted \in Seq(Entries) /\ DOMAIN admitted = 1..n
        /\ \A i \in 1..n : admitted[i] = all[i]
        /\ DOMAIN all = 1..Len(all) /\ 1..n \subseteq 1..Len(all)
    BY <2>2, <2>5, <2>6
  <2>8. Distinct(admitted)
    BY <2>2, <2>7 DEF Distinct
  <2>9. ToSet(admitted) \subseteq ToSet(all)
    BY <2>7 DEF ToSet
  <2>10. Len(all) <= limits.sessions => admitted = all
    BY <2>2, <2>5, <2>6
  <2> QED
    BY <2>2, <2>4, <2>7, <2>8, <2>9, <2>10 DEF SessionsTold
<1> QED
  BY <1>6, <1>10, <1>11, <1>12 DEF r

-----------------------------------------------------------------------------
(* What is observed to change has a cause.                                  *)

Explained(seen, r) ==
    \A d \in Attributed(r) : HasCause(d.kind, seen[d.before], seen[d.after])

(* Every change an investigation observes has a cause.                      *)
LEMMA InvestigationsExplain ==
    ASSUME NEW seen, TrueLog(seen), NEW files \in Seq(Names), NEW limits \in Limits
    PROVE  Explained(seen, Investigate(seen, files, limits))
<1> DEFINE r == Investigate(seen, files, limits)
<1>1. PICK results, all, admitted : /\ Parts(seen, files, limits, r, results, all, admitted)
                                    /\ Warned(limits, r, all, admitted)
                                    /\ FilesTold(files, limits, r, results)
                                    /\ SessionsTold(seen, limits, results, all, admitted)
  BY InvestigationParts
<1> HIDE DEF r
<1>2. admitted \in Seq(Entries) /\ ToSet(admitted) \subseteq ToSet(seen)
  BY <1>1 DEF SessionsTold
<1>3. r.drift = AllDrift(admitted, r.entities)
  BY <1>1 DEF Parts
<1>4. ASSUME NEW d \in r.drift, d.status = "OBSERVED_CHANGE", d.kind \in DOMAIN Kinds
      PROVE  HasCause(d.kind, seen[d.before], seen[d.after])
  BY <1>2, <1>3, <1>4, DriftHasCause
<1> QED
  BY <1>4 DEF Explained, Attributed, r

-----------------------------------------------------------------------------
(* What is left out is announced.                                           *)

(* Two sessions of the log are several.                                     *)
LEMMA TwoAreSeveral ==
    ASSUME NEW seen, TrueLog(seen), NEW members \in SUBSET ToSet(seen),
           NEW s \in members, NEW t \in members, s # t
    PROVE  Several(members)
<1> DEFINE ids == {x.id : x \in members}
<1>1. /\ s.id # t.id
      /\ ids \subseteq DOMAIN seen
  BY LogFacts
<1>2. DOMAIN seen = 1..Len(seen) /\ Len(seen) \in Nat
  BY DEF TrueLog
<1>3. IsFiniteSet(ids)
  <2> HIDE DEF ids
  <2>1. IsFiniteSet(1..Len(seen))
    BY <1>2, FS_Interval
  <2> QED
    BY <1>1, <1>2, <2>1, FS_Subset
<1> DEFINE two == {s.id} \cup {t.id}
<1>4. IsFiniteSet({s.id}) /\ Cardinality({s.id}) = 1
  BY FS_Singleton
<1>5. IsFiniteSet(two) /\ Cardinality(two) = 2
  BY <1>1, <1>4, FS_AddElement
<1>6. two \subseteq ids
  OBVIOUS
<1> HIDE DEF ids, two
<1>7. Cardinality(two) <= Cardinality(ids)
  BY <1>3, <1>6, FS_Subset
<1>8. Cardinality(ids) \in Nat
  BY <1>3, FS_CardinalityType
<1>9. Cardinality(ids) >= 2
  BY <1>5, <1>7, <1>8
<1> QED
  BY <1>9 DEF Several, ids

LimitsTold(seen, r) ==
    LET given == {ContentOf[n] : n \in ToSet(r.files)} \ {Unreadable}
        sessions == {s \in ToSet(seen) : s.capture \in given}
        Told(codes) == r.warnings \cap codes # {}
    IN  /\ {x.name : x \in r.inventory} # ToSet(r.files) => Told({"BATCH_CAPTURE_LIMIT"})
        /\ (\E s \in sessions : s.entity \notin DOMAIN r.entities
                                   \/ s.id \notin r.entities[s.entity].sessions) =>
                Told({"BATCH_CAPTURE_LIMIT", "BATCH_SESSION_LIMIT"})
        /\ (\E s, t \in sessions : /\ s # t /\ s.rules \cap t.rules # {}
                                     /\ ~\E c \in r.correlations :
                                           c.kind = "SHARED_RULE_FAILURE"
                                           /\ {s.id, t.id} \subseteq c.sessions) =>
                Told({"BATCH_CAPTURE_LIMIT", "BATCH_SESSION_LIMIT", "CORRELATION_LIMIT"})
        /\ (\E s \in sessions : ~\E e \in r.timeline :
                                   e.session = s.id /\ e.type = "SESSION_FIRST_PACKET") =>
                Told({"BATCH_CAPTURE_LIMIT", "TIMELINE_LIMIT"})

(* An admitted session is listed under its endpoint.                        *)
LEMMA EntitiesHold ==
    ASSUME NEW admitted, NEW s \in ToSet(admitted)
    PROVE  /\ s.entity \in DOMAIN BuildEntities(admitted)
           /\ s.id \in BuildEntities(admitted)[s.entity].sessions
<1>1. s.entity \in {x.entity : x \in ToSet(admitted)}
  OBVIOUS
<1>2. BuildEntities(admitted)[s.entity] = Entity({x \in ToSet(admitted) : x.entity = s.entity})
  BY <1>1 DEF BuildEntities
<1>3. s.id \in Entity({x \in ToSet(admitted) : x.entity = s.entity}).sessions
  BY DEF Entity
<1> QED
  BY <1>1, <1>2, <1>3 DEF BuildEntities

(* Two admitted sessions that fail one rule are correlated.                 *)
LEMMA SharedRulesCorrelate ==
    ASSUME NEW seen, TrueLog(seen), NEW admitted, ToSet(admitted) \subseteq ToSet(seen),
           NEW s \in ToSet(admitted), NEW t \in ToSet(admitted), s # t,
           NEW rule \in s.rules \cap t.rules
    PROVE  \E c \in Correlate(admitted) :
              c.kind = "SHARED_RULE_FAILURE" /\ {s.id, t.id} \subseteq c.sessions
<1> DEFINE all == ToSet(admitted)
           members == {x \in all : rule \in x.rules}
           c == Build("SHARED_RULE_FAILURE", rule, members)
<1>1. s \in members /\ t \in members /\ members \in SUBSET ToSet(seen)
  OBVIOUS
<1>2. Several(members)
  <2> HIDE DEF members
  <2> QED
    BY <1>1, TwoAreSeveral
<1>3. rule \in Union(all, LAMBDA x : x.rules)
  BY DEF Union
<1>4. c \in ByRule(all)
  BY <1>2, <1>3 DEF ByRule
<1>5. c \in Correlate(admitted)
  BY <1>4 DEF Correlate
<1>6. c.kind = "SHARED_RULE_FAILURE" /\ {s.id, t.id} \subseteq c.sessions
  BY <1>1 DEF Build
<1> QED
  BY <1>5, <1>6

(* What an investigation leaves out, it announces.                          *)
LEMMA InvestigationsTell ==
    ASSUME NEW seen, TrueLog(seen), NEW files \in Seq(Names), NEW limits \in Limits
    PROVE  LimitsTold(seen, Investigate(seen, files, limits))
<1> DEFINE r == Investigate(seen, files, limits)
           given == {ContentOf[n] : n \in ToSet(r.files)} \ {Unreadable}
           sessions == {s \in ToSet(seen) : s.capture \in given}
<1>1. PICK results, all, admitted : /\ Parts(seen, files, limits, r, results, all, admitted)
                                    /\ Warned(limits, r, all, admitted)
                                    /\ FilesTold(files, limits, r, results)
                                    /\ SessionsTold(seen, limits, results, all, admitted)
  BY InvestigationParts
<1> HIDE DEF r
<1>2. r.files = files
  BY <1>1 DEF Parts
<1>3. Len(files) \in Nat /\ limits.captures \in Nat /\ limits.sessions \in Nat /\ Len(all) \in Nat
  BY <1>1 DEF Limits, SessionsTold
<1>4. "BATCH_CAPTURE_LIMIT" \notin r.warnings => Len(files) <= limits.captures
  BY <1>1, <1>3 DEF FilesTold
<1>5. "BATCH_SESSION_LIMIT" \notin r.warnings => admitted = all
  BY <1>1, <1>3 DEF Warned, SessionsTold
<1>6. ASSUME "BATCH_CAPTURE_LIMIT" \notin r.warnings
      PROVE  /\ {x.name : x \in r.inventory} = ToSet(r.files)
             /\ sessions = ToSet(all)
  <2>1. /\ {x.name : x \in r.inventory} = ToSet(files)
        /\ \A x : x \in ToSet(results) <=>
                     x # Unreadable /\ \E n \in ToSet(files) : ContentOf[n] = x
    BY <1>1, <1>4, <1>6 DEF FilesTold
  <2>2. ToSet(results) = given
    BY <1>2, <2>1
  <2>3. \A x : x \in ToSet(all) <=> x \in ToSet(seen) /\ x.capture \in ToSet(results)
    BY <1>1 DEF SessionsTold
  <2> QED
    BY <1>2, <2>1, <2>2, <2>3
<1>7. ToSet(admitted) \subseteq ToSet(seen)
  BY <1>1 DEF SessionsTold
<1> HIDE DEF sessions
<1>8. ASSUME "BATCH_CAPTURE_LIMIT" \notin r.warnings, "BATCH_SESSION_LIMIT" \notin r.warnings,
             NEW s \in sessions
      PROVE  s.entity \in DOMAIN r.entities /\ s.id \in r.entities[s.entity].sessions
  <2>1. s \in ToSet(admitted)
    BY <1>5, <1>6, <1>8
  <2>2. r.entities = BuildEntities(admitted)
    BY <1>1 DEF Parts
  <2> QED
    BY <2>1, <2>2, EntitiesHold
<1>9. ASSUME "BATCH_CAPTURE_LIMIT" \notin r.warnings, "BATCH_SESSION_LIMIT" \notin r.warnings,
             "CORRELATION_LIMIT" \notin r.warnings,
             NEW s \in sessions, NEW t \in sessions, s # t, s.rules \cap t.rules # {}
      PROVE  \E c \in r.correlations :
                c.kind = "SHARED_RULE_FAILURE" /\ {s.id, t.id} \subseteq c.sessions
  <2>1. s \in ToSet(admitted) /\ t \in ToSet(admitted)
    BY <1>5, <1>6, <1>9
  <2>2. ~(Cardinality(Correlate(admitted)) > limits.correlations)
    BY <1>1, <1>9 DEF Warned
  <2>3. r.correlations = Correlate(admitted)
    BY <1>1, <2>2 DEF Parts, Reported, FirstOf
  <2>4. PICK rule : rule \in s.rules \cap t.rules
    BY <1>9
  <2> QED
    BY <1>7, <1>9, <2>1, <2>3, <2>4, SharedRulesCorrelate
<1>10. ASSUME "BATCH_CAPTURE_LIMIT" \notin r.warnings, "TIMELINE_LIMIT" \notin r.warnings,
              NEW s \in sessions
       PROVE  \E e \in r.timeline : e.session = s.id /\ e.type = "SESSION_FIRST_PACKET"
  <2>1. s \in ToSet(all)
    BY <1>6, <1>10
  <2> DEFINE events == EventsOf(all, admitted, r.drift)
             e == Event("SESSION_FIRST_PACKET", s,
                        IF s \in ToSet(admitted) THEN s.entity ELSE Absent)
  <2>2. e \in events
    <3>1. "SESSION_FIRST_PACKET" \in EventTypes(s)
      BY DEF EventTypes
    <3> QED
      BY <2>1, <3>1 DEF EventsOf, SessionEvents
  <2>3. e.session = s.id /\ e.type = "SESSION_FIRST_PACKET"
    BY DEF Event
  <2> HIDE DEF events, e
  <2>4. ~(Cardinality(events) > limits.events)
    BY <1>1, <1>10 DEF Warned, events
  <2>5. r.timeline = events
    BY <1>1, <2>4 DEF Parts, BuildTimeline, FirstOf, events
  <2> QED
    BY <2>2, <2>3, <2>5
<1> QED
  BY <1>6, <1>8, <1>9, <1>10 DEF LimitsTold, sessions, r

-----------------------------------------------------------------------------
(* The order of the files.                                                  *)

(* A list without repetition is as long as the set of what it holds.        *)
LEMMA LengthOfDistinct ==
    ASSUME NEW A, NEW list \in Seq(A), Distinct(list)
    PROVE  /\ IsFiniteSet(ToSet(list))
           /\ Len(list) = Cardinality(ToSet(list))
<1> DEFINE D == 1..Len(list)
           S == ToSet(list)
<1>1. Len(list) \in Nat /\ DOMAIN list = D /\ list \in [D -> S]
  BY DEF ToSet
<1>2. IsFiniteSet(D) /\ Cardinality(D) = Len(list)
  <2>1. 1 \in Int /\ Len(list) \in Int
    BY <1>1
  <2>2. IsFiniteSet(D) /\ Cardinality(D) = IF 1 > Len(list) THEN 0 ELSE Len(list) - 1 + 1
    BY <2>1, FS_Interval
  <2> QED
    BY <1>1, <2>2
<1>3. list \in Surjection(D, S)
  BY <1>1 DEF Surjection, ToSet
<1>4. list \in Injection(D, S)
  BY <1>1 DEF Injection, IsInjective, Distinct
<1> HIDE DEF D, S
<1>5. IsFiniteSet(S) /\ Cardinality(S) = Cardinality(D)
  BY <1>2, <1>3, <1>4, FS_Surjection
<1> QED
  BY <1>2, <1>5 DEF S

(* Two lists of the same elements, in any order.                            *)
SameElements(a, b) == ToSet(a) = ToSet(b)

(* The comparisons of one endpoint depend on the set of its sessions only.  *)
LEMMA SameComparisons ==
    ASSUME NEW a \in Seq(Entries), NEW b \in Seq(Entries), SameElements(a, b)
    PROVE  DriftForEntity(a) = DriftForEntity(b)
<1> DEFINE S == ToSet(a)
           First(s) == \A t \in S : t.capture = s.capture => t = s \/ Earlier(s, t)
           I == {i \in DOMAIN a : First(a[i])}
           J == {i \in DOMAIN b : First(b[i])}
           early == {s \in S : First(s)}
<1>1. ToSet(b) = S
  BY DEF SameElements
<1>2. EarliestPerCapture(a) = Chronological(AtPlaces(a, I))
  BY DEF EarliestPerCapture, Where, AtPlaces
<1>3. EarliestPerCapture(b) = Chronological(AtPlaces(b, J))
  BY <1>1 DEF EarliestPerCapture, Where, AtPlaces
<1>4. I \in SUBSET DOMAIN a /\ J \in SUBSET DOMAIN b
  OBVIOUS
<1>5. \A x : (\E i \in I : a[i] = x) <=> x \in early
  BY DEF ToSet
<1>6. \A x : (\E i \in J : b[i] = x) <=> x \in early
  <2>1. \A x : x \in S <=> \E i \in DOMAIN b : b[i] = x
    BY <1>1 DEF ToSet
  <2> HIDE DEF S, First
  <2> QED
    BY <2>1
<1> HIDE DEF I, J
<1>7. \A x : x \in ToSet(AtPlaces(a, I)) <=> x \in early
  <2> HIDE DEF early
  <2> QED
    BY <1>4, <1>5, PartOfList
<1>8. \A x : x \in ToSet(AtPlaces(b, J)) <=> x \in early
  <2> HIDE DEF early
  <2> QED
    BY <1>4, <1>6, PartOfList
<1> HIDE DEF early
<1>9. ToSet(AtPlaces(a, I)) = ToSet(AtPlaces(b, J))
  BY <1>7, <1>8
<1>10. EarliestPerCapture(a) = EarliestPerCapture(b)
  <2> DEFINE E == AtPlaces(a, I)
             F == AtPlaces(b, J)
  <2> HIDE DEF E, F
  <2>1. ToSet(E) = ToSet(F)
    BY <1>9 DEF E, F
  <2>2. Chronological(E) = Chronological(F)
    BY <2>1 DEF Chronological
  <2> QED
    BY <1>2, <1>3, <2>2 DEF E, F
<1> QED
  BY <1>10 DEF DriftForEntity

(* So does all drift.                                                       *)
LEMMA SameDrift ==
    ASSUME NEW a \in Seq(Entries), NEW b \in Seq(Entries), SameElements(a, b), NEW entities
    PROVE  AllDrift(a, entities) = AllDrift(b, entities)
<1>1. ASSUME NEW e
      PROVE  DriftForEntity(Where(a, LAMBDA s : s.entity = e))
                = DriftForEntity(Where(b, LAMBDA s : s.entity = e))
  <2> DEFINE I == {i \in DOMAIN a : a[i].entity = e}
             J == {i \in DOMAIN b : b[i].entity = e}
             at == {s \in ToSet(a) : s.entity = e}
  <2>1. /\ Where(a, LAMBDA s : s.entity = e) = AtPlaces(a, I)
        /\ Where(b, LAMBDA s : s.entity = e) = AtPlaces(b, J)
    BY DEF Where, AtPlaces
  <2>2. I \in SUBSET DOMAIN a /\ J \in SUBSET DOMAIN b
    OBVIOUS
  <2>3. \A x : (\E i \in I : a[i] = x) <=> x \in at
    BY DEF ToSet
  <2>4. \A x : (\E i \in J : b[i] = x) <=> x \in at
    <3>1. \A x : x \in ToSet(a) <=> \E i \in DOMAIN b : b[i] = x
      BY DEF ToSet, SameElements
    <3> QED
      BY <3>1
  <2> HIDE DEF I, J, at
  <2>5. AtPlaces(a, I) \in Seq(Entries) /\ \A x : x \in ToSet(AtPlaces(a, I)) <=> x \in at
    BY <2>2, <2>3, PartOfList
  <2>6. AtPlaces(b, J) \in Seq(Entries) /\ \A x : x \in ToSet(AtPlaces(b, J)) <=> x \in at
    BY <2>2, <2>4, PartOfList
  <2>7. SameElements(AtPlaces(a, I), AtPlaces(b, J))
    BY <2>5, <2>6 DEF SameElements
  <2>8. DriftForEntity(AtPlaces(a, I)) = DriftForEntity(AtPlaces(b, J))
    BY <2>5, <2>6, <2>7, SameComparisons
  <2> QED
    BY <2>1, <2>8
<1> DEFINE A(e) == DriftForEntity(Where(a, LAMBDA s : s.entity = e))
           B(e) == DriftForEntity(Where(b, LAMBDA s : s.entity = e))
<1>2. \A e : A(e) = B(e)
  BY <1>1
<1>3. AllDrift(a, entities) = UNION {A(e) : e \in DOMAIN entities}
      /\ AllDrift(b, entities) = UNION {B(e) : e \in DOMAIN entities}
  BY DEF AllDrift
<1> HIDE DEF A, B
<1> QED
  BY <1>2, <1>3

(* And the blast radius.                                                    *)
LEMMA SameBlast ==
    ASSUME NEW a \in Seq(Entries), NEW b \in Seq(Entries), SameElements(a, b),
           Distinct(a), Distinct(b)
    PROVE  BuildBlastRadius(a) = BuildBlastRadius(b)
<1>1. ASSUME NEW rule PROVE BlastRadius(a, rule) = BlastRadius(b, rule)
  <2> DEFINE I == {i \in DOMAIN a : rule \in a[i].rules}
             J == {i \in DOMAIN b : rule \in b[i].rules}
             failing == {s \in ToSet(a) : rule \in s.rules}
  <2>1. /\ Where(a, LAMBDA s : rule \in s.rules) = AtPlaces(a, I)
        /\ Where(b, LAMBDA s : rule \in s.rules) = AtPlaces(b, J)
    BY DEF Where, AtPlaces
  <2>2. I \in SUBSET DOMAIN a /\ J \in SUBSET DOMAIN b
    OBVIOUS
  <2>3. \A x : (\E i \in I : a[i] = x) <=> x \in failing
    BY DEF ToSet
  <2>4. \A x : (\E i \in J : b[i] = x) <=> x \in failing
    <3>1. \A x : x \in ToSet(a) <=> \E i \in DOMAIN b : b[i] = x
      BY DEF ToSet, SameElements
    <3> QED
      BY <3>1
  <2>5. {s \in ToSet(b) : rule \in s.rules} = failing
    BY DEF SameElements
  <2> HIDE DEF I, J, failing
  <2>6. /\ AtPlaces(a, I) \in Seq(Entries) /\ Distinct(AtPlaces(a, I))
        /\ \A x : x \in ToSet(AtPlaces(a, I)) <=> x \in failing
    BY <2>2, <2>3, PartOfList DEF Distinct
  <2>7. /\ AtPlaces(b, J) \in Seq(Entries) /\ Distinct(AtPlaces(b, J))
        /\ \A x : x \in ToSet(AtPlaces(b, J)) <=> x \in failing
    BY <2>2, <2>4, PartOfList DEF Distinct
  <2>8. ToSet(AtPlaces(a, I)) = ToSet(AtPlaces(b, J))
    BY <2>6, <2>7
  <2>9. Len(AtPlaces(a, I)) = Len(AtPlaces(b, J))
    BY <2>6, <2>7, <2>8, LengthOfDistinct
  <2>10. Len(Where(a, LAMBDA s : rule \in s.rules)) = Len(Where(b, LAMBDA s : rule \in s.rules))
    BY <2>1, <2>9
  <2> QED
    BY <2>5, <2>10 DEF BlastRadius, failing
<1> DEFINE A(rule) == BlastRadius(a, rule)
           B(rule) == BlastRadius(b, rule)
           failed == Union(ToSet(a), LAMBDA s : s.rules)
<1>2. \A rule : A(rule) = B(rule)
  BY <1>1
<1>3. Union(ToSet(b), LAMBDA s : s.rules) = failed
  BY DEF SameElements
<1>4. /\ BuildBlastRadius(a) = [rule \in failed |-> A(rule)]
      /\ BuildBlastRadius(b) = [rule \in failed |-> B(rule)]
  BY <1>3 DEF BuildBlastRadius
<1> HIDE DEF A, B, failed
<1> QED
  BY <1>2, <1>4

Cut == {"BATCH_CAPTURE_LIMIT", "BATCH_SESSION_LIMIT"}

SessionsIn(r) == UNION {r.entities[e].sessions : e \in DOMAIN r.entities}

(* What the order of the files decides.                                     *)
Ordered(limits, r) ==
    {"files", "inventory", "warnings"}
      \cup {f \in {"fingerprints"} : Cardinality(SessionsIn(r)) > limits.fingerprints}

SameButOrdered(limits, r, q) == \A field \in DOMAIN r \ Ordered(limits, r) : r[field] = q[field]

FirstPrints(list, max) == {Fingerprint(list[i]) : i \in {k \in DOMAIN list : k <= max}}

(* And the fingerprints, where the limit leaves none out.                   *)
LEMMA SameFingerprints ==
    ASSUME NEW seen, TrueLog(seen), NEW limits \in Limits,
           NEW a \in Seq(Entries), NEW b \in Seq(Entries), SameElements(a, b),
           Distinct(a), Distinct(b), ToSet(a) \subseteq ToSet(seen),
           ~(Cardinality(Ids(a)) > limits.fingerprints)
    PROVE  FirstPrints(a, limits.fingerprints) = FirstPrints(b, limits.fingerprints)
<1> DEFINE max == limits.fingerprints
<1>1. /\ Len(a) \in Nat /\ DOMAIN a = 1..Len(a)
      /\ Len(b) \in Nat /\ DOMAIN b = 1..Len(b)
      /\ max \in Nat
  BY DEF Limits
<1>2. Len(a) = Len(b) /\ IsFiniteSet(ToSet(a)) /\ Len(a) = Cardinality(ToSet(a))
  BY LengthOfDistinct DEF SameElements
<1>3. Cardinality(Ids(a)) = Cardinality(ToSet(a))
  <2> DEFINE S == ToSet(a)
             id == [s \in S |-> s.id]
             I == Ids(a)
  <2>1. \A s, t \in S : s.id = t.id => s = t
    BY LogFacts
  <2>2. id \in [S -> I] /\ \A x \in I : \E s \in S : id[s] = x
    BY DEF Ids
  <2>3. \A s, t \in S : id[s] = id[t] => s = t
    BY <2>1
  <2>4. IsFiniteSet(S)
    BY <1>2
  <2> HIDE DEF id, S, I
  <2>5. id \in Surjection(S, I) /\ id \in Injection(S, I)
    BY <2>2, <2>3 DEF Surjection, Injection, IsInjective
  <2>6. Cardinality(I) = Cardinality(S)
    BY <2>4, <2>5, FS_Surjection
  <2> QED
    BY <2>6 DEF S, I
<1>4. ~(Len(a) > max)
  BY <1>2, <1>3
<1> DEFINE I == {k \in DOMAIN a : k <= max}
           J == {k \in DOMAIN b : k <= max}
<1>5. I = DOMAIN a /\ J = DOMAIN b
  <2> HIDE DEF max
  <2> QED
    BY <1>1, <1>2, <1>4
<1>6. /\ \A i \in DOMAIN a : \E j \in DOMAIN b : a[i] = b[j]
      /\ \A j \in DOMAIN b : \E i \in DOMAIN a : a[i] = b[j]
  BY DEF SameElements, ToSet
<1> DEFINE F(list, i) == Fingerprint(list[i])
<1>7. /\ \A i \in DOMAIN a : \E j \in DOMAIN b : F(a, i) = F(b, j)
      /\ \A j \in DOMAIN b : \E i \in DOMAIN a : F(a, i) = F(b, j)
  BY <1>6
<1> HIDE DEF F
<1>8. {F(a, i) : i \in DOMAIN a} = {F(b, j) : j \in DOMAIN b}
  BY <1>7
<1> QED
  BY <1>5, <1>8 DEF F, FirstPrints

(* Two orders of the same files: the same investigation, or two warnings.   *)
LEMMA SameInvestigations ==
    ASSUME NEW seen, TrueLog(seen), NEW limits \in Limits,
           NEW files \in Seq(Names), NEW other \in Seq(Names),
           SameElements(files, other), Len(files) = Len(other)
    PROVE  LET r == Investigate(seen, files, limits)
               q == Investigate(seen, other, limits)
           IN  \/ r.warnings \cap Cut # {} /\ q.warnings \cap Cut # {}
               \/ SameButOrdered(limits, r, q)
<1> DEFINE r == Investigate(seen, files, limits)
           q == Investigate(seen, other, limits)
<1>1. PICK results1, all1, admitted1 : /\ Parts(seen, files, limits, r, results1, all1, admitted1)
                                       /\ Warned(limits, r, all1, admitted1)
                                       /\ FilesTold(files, limits, r, results1)
                                       /\ SessionsTold(seen, limits, results1, all1, admitted1)
  BY InvestigationParts
<1>2. PICK results2, all2, admitted2 : /\ Parts(seen, other, limits, q, results2, all2, admitted2)
                                       /\ Warned(limits, q, all2, admitted2)
                                       /\ FilesTold(other, limits, q, results2)
                                       /\ SessionsTold(seen, limits, results2, all2, admitted2)
  BY InvestigationParts
<1> HIDE DEF r, q
<1> SUFFICES ASSUME r.warnings \cap Cut = {} \/ q.warnings \cap Cut = {}
             PROVE  SameButOrdered(limits, r, q)
  <2>1. \/ r.warnings \cap Cut # {} /\ q.warnings \cap Cut # {}
        \/ SameButOrdered(limits, r, q)
    OBVIOUS
  <2> QED
    BY <2>1 DEF r, q
<1>3. Len(files) \in Nat /\ limits.captures \in Nat /\ limits.sessions \in Nat
  BY DEF Limits
<1>4. Len(files) <= limits.captures /\ Len(other) <= limits.captures
  BY <1>1, <1>2, <1>3 DEF FilesTold, Cut
<1>5. ToSet(results1) = ToSet(results2) /\ \A x : x \in r.id <=> x \in q.id
  <2>1. /\ \A x : x \in ToSet(results1) <=>
                     x # Unreadable /\ \E n \in ToSet(files) : ContentOf[n] = x
        /\ \A x : x \in r.id <=>
                     \/ x \in ToSet(results1)
                     \/ x \in ToSet(files) /\ ContentOf[x] = Unreadable
    BY <1>1, <1>4 DEF FilesTold
  <2>2. /\ \A x : x \in ToSet(results2) <=>
                     x # Unreadable /\ \E n \in ToSet(files) : ContentOf[n] = x
        /\ \A x : x \in q.id <=>
                     \/ x \in ToSet(results2)
                     \/ x \in ToSet(files) /\ ContentOf[x] = Unreadable
    BY <1>2, <1>4 DEF FilesTold, SameElements
  <2>3. \A x : x \in ToSet(results1) <=> x \in ToSet(results2)
    BY <2>1, <2>2
  <2> QED
    BY <2>1, <2>2, <2>3
<1>6. SameElements(all1, all2)
  <2>1. /\ \A x : x \in ToSet(all1) <=> x \in ToSet(seen) /\ x.capture \in ToSet(results1)
        /\ \A x : x \in ToSet(all2) <=> x \in ToSet(seen) /\ x.capture \in ToSet(results2)
    BY <1>1, <1>2 DEF SessionsTold
  <2> QED
    BY <1>5, <2>1 DEF SameElements
<1>7. /\ all1 \in Seq(Entries) /\ Distinct(all1) /\ all2 \in Seq(Entries) /\ Distinct(all2)
      /\ Len(all1) = Len(all2) /\ Len(all1) \in Nat
  <2>1. all1 \in Seq(Entries) /\ Distinct(all1) /\ all2 \in Seq(Entries) /\ Distinct(all2)
    BY <1>1, <1>2 DEF SessionsTold
  <2> QED
    BY <1>6, <2>1, LengthOfDistinct DEF SameElements
<1>8. Len(all1) <= limits.sessions
  BY <1>1, <1>2, <1>3, <1>7 DEF Warned, Cut
<1>9. admitted1 = all1 /\ admitted2 = all2 /\ ToSet(all1) \subseteq ToSet(seen)
  BY <1>1, <1>2, <1>7, <1>8 DEF SessionsTold
<1>10. /\ all1 \in Seq(Entries) /\ all2 \in Seq(Entries) /\ Distinct(all1) /\ Distinct(all2)
       /\ SameElements(all1, all2)
  BY <1>6, <1>7
<1>11. /\ Parts(seen, files, limits, r, results1, all1, all1)
       /\ Parts(seen, other, limits, q, results2, all2, all2)
  BY <1>1, <1>2, <1>9
<1>12. r.entities = q.entities /\ r.relations = q.relations
  BY <1>6, <1>11 DEF Parts, SameElements, BuildEntities
<1>13. r.drift = q.drift
  BY <1>10, <1>11, <1>12, SameDrift DEF Parts
<1>14. r.correlations = q.correlations
  <2>1. Correlate(all1) = Correlate(all2)
    BY <1>6 DEF SameElements, Correlate
  <2> QED
    BY <1>11, <2>1 DEF Parts
<1>15. r.blast = q.blast
  BY <1>10, <1>11, SameBlast DEF Parts
<1>16. r.timeline = q.timeline
  <2>1. EventsOf(all1, all1, r.drift) = EventsOf(all2, all2, q.drift)
    BY <1>6, <1>13 DEF SameElements, EventsOf
  <2> QED
    BY <1>11, <2>1 DEF Parts
<1>17. "fingerprints" \notin Ordered(limits, r) => r.fingerprints = q.fingerprints
  <2>1. SessionsIn(r) = Ids(all1)
    <3> DEFINE S == ToSet(all1)
               E == BuildEntities(all1)
    <3>1. DOMAIN E = {s.entity : s \in S}
          /\ \A e \in DOMAIN E : E[e].sessions = {s.id : s \in {x \in S : x.entity = e}}
      BY DEF BuildEntities, Entity
    <3>2. r.entities = E
      BY <1>11 DEF Parts
    <3> HIDE DEF S, E
    <3>3. ASSUME NEW x
          PROVE  (\E e \in DOMAIN E : x \in E[e].sessions) <=> \E s \in S : x = s.id
      <4>1. ASSUME NEW e \in DOMAIN E, x \in E[e].sessions PROVE \E s \in S : x = s.id
        BY <3>1, <4>1
      <4>2. ASSUME NEW s \in S, x = s.id PROVE \E e \in DOMAIN E : x \in E[e].sessions
        <5> DEFINE at == s.entity
        <5>1. at \in DOMAIN E /\ s \in {y \in S : y.entity = at}
          BY <3>1
        <5>2. x \in {y.id : y \in {z \in S : z.entity = at}}
          BY <4>2, <5>1
        <5> HIDE DEF at
        <5>3. x \in E[at].sessions
          BY <3>1, <5>1, <5>2
        <5> QED
          BY <5>1, <5>3
      <4> QED
        BY <4>1, <4>2
    <3>4. \A x : x \in UNION {E[e].sessions : e \in DOMAIN E} <=>
                   \E e \in DOMAIN E : x \in E[e].sessions
      OBVIOUS
    <3>5. \A x : x \in UNION {E[e].sessions : e \in DOMAIN E} <=> x \in {s.id : s \in S}
      BY <3>3, <3>4
    <3>6. SessionsIn(r) = UNION {E[e].sessions : e \in DOMAIN E} /\ Ids(all1) = {s.id : s \in S}
      BY <3>2 DEF SessionsIn, Ids, S
    <3>7. UNION {E[e].sessions : e \in DOMAIN E} = {s.id : s \in S}
      BY <3>5
    <3> QED
      BY <3>6, <3>7
  <2>2. ASSUME ~(Cardinality(SessionsIn(r)) > limits.fingerprints)
        PROVE  r.fingerprints = q.fingerprints
    <3>1. ~(Cardinality(Ids(all1)) > limits.fingerprints)
      BY <2>1, <2>2
    <3>2. FirstPrints(all1, limits.fingerprints) = FirstPrints(all2, limits.fingerprints)
      BY <1>9, <1>10, <3>1, SameFingerprints
    <3> QED
      BY <1>11, <3>2 DEF Parts, FirstPrints
  <2> QED
    BY <2>2 DEF Ordered
<1>18. r.id = q.id
  BY <1>5
<1>19. DOMAIN r = {"files", "id", "inventory", "entities", "relations", "fingerprints", "drift",
                   "correlations", "blast", "timeline", "warnings"}
  BY <1>11 DEF Parts
<1>20. ASSUME NEW field \in DOMAIN r \ Ordered(limits, r) PROVE r[field] = q[field]
  <2>1. field \in {"id", "entities", "relations", "fingerprints", "drift",
                   "correlations", "blast", "timeline"}
    BY <1>19 DEF Ordered
  <2> QED
    BY <1>12, <1>13, <1>14, <1>15, <1>16, <1>17, <1>18, <2>1
<1> QED
  BY <1>20 DEF SameButOrdered

(* The opposite order holds the same files.                                 *)
LEMMA ReverseFacts ==
    ASSUME NEW A, NEW list \in Seq(A)
    PROVE  Reverse(list) \in Seq(A) /\ Len(Reverse(list)) = Len(list)
           /\ SameElements(list, Reverse(list))
<1> DEFINE n == Len(list)
           back == [j \in 1..n |-> list[n - j + 1]]
<1>1. n \in Nat /\ DOMAIN list = 1..n /\ \A i \in 1..n : list[i] \in A
  OBVIOUS
<1>2. Reverse(list) = back
  BY DEF Reverse
<1> HIDE DEF n
<1>3. \A j \in 1..n : n - j + 1 \in 1..n /\ n - (n - j + 1) + 1 = j
  BY <1>1
<1>4. back \in [1..n -> A]
  BY <1>1, <1>3
<1>5. back \in Seq(A) /\ Len(back) = n
  BY <1>1, <1>4
<1>6. \A i \in 1..n : back[n - i + 1] = list[i]
  BY <1>3
<1>7. DOMAIN back = 1..n /\ \A j \in 1..n : back[j] = list[n - j + 1]
  OBVIOUS
<1> HIDE DEF back
<1>8. ToSet(list) = ToSet(back)
  BY <1>1, <1>3, <1>6, <1>7 DEF ToSet
<1> QED
  BY <1>2, <1>5, <1>8 DEF SameElements, n

-----------------------------------------------------------------------------
(* The system: a log of what was observed, and what is made of it.          *)

Analysed(files) == Investigate(log, files, batch.limits)

IInv ==
    /\ config \in [Endpoints -> Configs]
    /\ TrueLog(log)
    /\ batch = None => report = None /\ again = None
    /\ batch # None => /\ batch \in Batches
                       /\ report = Analysed(batch.files)
                       /\ again \in {None, Analysed(Reverse(batch.files))}

(* A batch is not None.                                                     *)
LEMMA BatchFacts ==
    ASSUME NEW b \in Batches
    PROVE  /\ b.files \in Seq(Names) /\ b.limits \in Limits
           /\ b # None
<1>1. b \in [files : Seq(DOMAIN ContentOf), limits : Limits]
  BY BatchAssumption
<1>2. DOMAIN b = {"files", "limits"} /\ DOMAIN None = {"files"}
  BY <1>1 DEF None
<1> QED
  BY <1>1, <1>2 DEF Names

(* The invariant holds at first.                                            *)
LEMMA InitIInv == Init => IInv
<1> SUFFICES ASSUME Init PROVE IInv
  OBVIOUS
<1>1. config \in [Endpoints -> Configs]
  BY BatchAssumption DEF Init
<1>2. TrueLog(log)
  BY DEF Init, TrueLog
<1> QED
  BY <1>1, <1>2 DEF Init, IInv

(* Every step keeps it.                                                     *)
LEMMA NextIInv == IInv /\ [Next]_vars => IInv'
<1> SUFFICES ASSUME IInv, [Next]_vars PROVE IInv'
  OBVIOUS
<1>1. ASSUME NEW e \in Endpoints, NEW cfg \in Configs, Reconfigure(e, cfg) PROVE IInv'
  <2>1. config' \in [Endpoints -> Configs]
    BY <1>1 DEF Reconfigure, IInv
  <2> QED
    BY <1>1, <2>1 DEF Reconfigure, IInv
<1>2. ASSUME NEW e \in Endpoints, NEW c \in Captures, NEW t \in Traffic, Session(e, c, t)
      PROVE  IInv'
  <2> DEFINE entry == Observed(Len(log) + 1, e, c, config[e], t)
  <2>1. log' = Append(log, entry) /\ batch' = None /\ report' = None /\ again' = None
        /\ config' = config
    BY <1>2 DEF Session, IInv
  <2>2. config[e] \in Configs /\ log \in Seq(Entries) /\ Len(log) \in Nat
        /\ \A i \in DOMAIN log : log[i].id = i /\ log[i].time = i
    BY DEF IInv, TrueLog
  <2>3. entry \in Entries
    <3> DEFINE p == <<Len(log) + 1, e, c, config[e], t>>
    <3>1. p \in Nat \X Endpoints \X Captures \X Configs \X Traffic
      BY <2>2
    <3>2. entry = Observed(p[1], p[2], p[3], p[4], p[5])
      OBVIOUS
    <3> HIDE DEF p, entry
    <3> QED
      BY <3>1, <3>2 DEF Entries
  <2>4. entry.id = Len(log) + 1 /\ entry.time = Len(log) + 1
    BY DEF Observed
  <2> HIDE DEF entry
  <2>5. log' \in Seq(Entries)
    BY <2>1, <2>2, <2>3
  <2>6. \A i \in DOMAIN log' : \/ i \in DOMAIN log /\ log'[i] = log[i]
                               \/ i = Len(log) + 1 /\ log'[i] = entry
    BY <2>1, <2>2, <2>3
  <2>7. TrueLog(log')
    BY <2>2, <2>4, <2>5, <2>6 DEF TrueLog
  <2> QED
    BY <2>1, <2>7 DEF IInv
<1>3. ASSUME NEW b \in Batches, Analyse(b) PROVE IInv'
  <2>1. /\ batch' = b /\ report' = Investigate(log, b.files, b.limits) /\ again' = None
        /\ config' = config /\ log' = log
    BY <1>3 DEF Analyse, IInv, world
  <2>2. b # None
    BY BatchFacts
  <2>3. report' = Investigate(log', batch'.files, batch'.limits)
    BY <2>1
  <2>4. config' \in [Endpoints -> Configs] /\ TrueLog(log') /\ batch' # None /\ batch' \in Batches
    BY <2>1, <2>2 DEF IInv
  <2> QED
    BY <2>1, <2>3, <2>4 DEF IInv, Analysed
<1>4. ASSUME AnalyseAgain PROVE IInv'
  <2>1. /\ batch # None /\ batch' = batch /\ report' = report /\ config' = config /\ log' = log
        /\ again' = Investigate(log, Reverse(batch.files), batch.limits)
    BY <1>4 DEF AnalyseAgain, world
  <2>2. /\ config \in [Endpoints -> Configs] /\ TrueLog(log) /\ batch \in Batches
        /\ report = Investigate(log, batch.files, batch.limits)
    BY <2>1 DEF IInv, Analysed
  <2>3. /\ report' = Investigate(log', batch'.files, batch'.limits)
        /\ again' = Investigate(log', Reverse(batch'.files), batch'.limits)
    BY <2>1, <2>2
  <2>4. config' \in [Endpoints -> Configs] /\ TrueLog(log') /\ batch' # None /\ batch' \in Batches
    BY <2>1, <2>2
  <2> QED
    BY <2>3, <2>4 DEF IInv, Analysed
<1>5. ASSUME UNCHANGED vars PROVE IInv'
  <2>1. /\ batch' = batch /\ report' = report /\ again' = again /\ config' = config /\ log' = log
    BY <1>5 DEF vars, world
  <2> QED
    BY <2>1 DEF IInv, Analysed
<1> QED
  BY <1>1, <1>2, <1>3, <1>4, <1>5 DEF Next

LEMMA Invariance == Spec => []IInv
  BY InitIInv, NextIInv, PTL DEF Spec

(* What the invariant says of a report.                                     *)
LEMMA InvestigationFacts ==
    ASSUME IInv, NEW r \in Investigations
    PROVE  /\ TrueLog(log) /\ batch # None /\ batch \in Batches
           /\ \E files \in Seq(Names) : r = Analysed(files)
<1>1. batch # None /\ batch \in Batches /\ TrueLog(log)
  BY DEF IInv, Investigations
<1>2. r \in {Analysed(batch.files), Analysed(Reverse(batch.files))}
  BY <1>1 DEF IInv, Investigations
<1>3. batch.files \in Seq(Names) /\ Reverse(batch.files) \in Seq(Names)
  BY <1>1, BatchFacts, ReverseFacts
<1> QED
  BY <1>1, <1>2, <1>3

(* A change that is attributed to a server has a cause: that part of its    *)
(* configuration was another, or the clients differed in what the           *)
(* comparison leaves out.                                                   *)
THEOREM ChangesHaveCauses == Spec => []ChangesAreExplained
<1>1. IInv => ChangesAreExplained
  <2> SUFFICES ASSUME IInv, NEW r \in Investigations PROVE Explained(log, r)
    BY DEF ChangesAreExplained, Explained, HasCause
  <2>1. PICK files \in Seq(Names) : r = Investigate(log, files, batch.limits)
    BY InvestigationFacts DEF Analysed
  <2>2. TrueLog(log) /\ batch.limits \in Limits
    BY InvestigationFacts, BatchFacts
  <2> QED
    BY <2>1, <2>2, InvestigationsExplain
<1> QED
  BY <1>1, Invariance, PTL

(* Whatever an investigation does not say about the files it was given, its *)
(* files, sessions, shared failures and first packets, a warning announces. *)
THEOREM LimitsWarn == Spec => []LimitsAreReported
<1>1. IInv => LimitsAreReported
  <2> SUFFICES ASSUME IInv, NEW r \in Investigations PROVE LimitsTold(log, r)
    BY DEF LimitsAreReported, LimitsTold
  <2>1. PICK files \in Seq(Names) : r = Investigate(log, files, batch.limits)
    BY InvestigationFacts DEF Analysed
  <2>2. TrueLog(log) /\ batch.limits \in Limits
    BY InvestigationFacts, BatchFacts
  <2> QED
    BY <2>1, <2>2, InvestigationsTell
<1> QED
  BY <1>1, Invariance, PTL

(* The same files in the opposite order give the same investigation, unless *)
(* both say that captures or sessions were cut.                             *)
THEOREM OrderDoesNotMatter == Spec => []SameFilesSameInvestigation
<1>1. IInv => SameFilesSameInvestigation
  <2> SUFFICES ASSUME IInv, again # None
               PROVE  \/ \A r \in Investigations : r.warnings \cap Cut # {}
                      \/ SameButOrdered(batch.limits, report, again)
    BY DEF SameFilesSameInvestigation, SameButOrdered, Ordered, SessionsIn, Cut
  <2>1. again \in Investigations
    BY DEF Investigations
  <2>2. TrueLog(log) /\ batch # None /\ batch \in Batches
    BY <2>1, InvestigationFacts
  <2>3. /\ report = Investigate(log, batch.files, batch.limits)
        /\ again = Investigate(log, Reverse(batch.files), batch.limits)
    BY <2>2 DEF IInv, Analysed
  <2>4. /\ batch.limits \in Limits /\ batch.files \in Seq(Names)
        /\ Reverse(batch.files) \in Seq(Names)
        /\ SameElements(batch.files, Reverse(batch.files))
        /\ Len(batch.files) = Len(Reverse(batch.files))
    BY <2>2, BatchFacts, ReverseFacts
  <2>5. \/ report.warnings \cap Cut # {} /\ again.warnings \cap Cut # {}
        \/ SameButOrdered(batch.limits, report, again)
    BY <2>2, <2>3, <2>4, SameInvestigations
  <2> QED
    BY <2>5 DEF Investigations
<1> QED
  BY <1>1, Invariance, PTL
=============================================================================
