-------------------------- MODULE Assessment_proof --------------------------
(***************************************************************************)
(* Proofs about the assessment of a session, for any policy constants and  *)
(* any bounds: the deduplication of the findings and the choice of the     *)
(* scoring units agree; a login that was captured in the clear is always   *)
(* reported; a critical finding keeps a session from being STRONG.         *)
(***************************************************************************)
EXTENDS Assessment, Recursion

(* The rules there are, by name.                                            *)
LEMMA RuleNames ==
    Rules = {"Expired", "NotYetValid", "WeakKey", "WeakSignature", "UntrustedChain",
             "WrongName", "WrongUsage", "CleartextLogin", "LoginBeforeUpgrade",
             "UpgradeRefused", "UpgradeNotFollowed", "PlaintextContinued",
             "UpgradeNotOffered", "ImplicitTls", "NullCipher", "AnonymousCipher",
             "BrokenCipher", "SmallBlockCipher", "UnapprovedCipher", "UnknownCipher",
             "ForwardSecrecy", "HybridGroup", "NegotiatedVersion", "OfferedVersions",
             "NegotiationOutcome"}
<1>1. /\ DOMAIN CertificateCatalogue = {"Expired", "NotYetValid", "WeakKey", "WeakSignature",
                                        "UntrustedChain", "WrongName", "WrongUsage"}
      /\ DOMAIN MailCatalogue = {"CleartextLogin", "LoginBeforeUpgrade", "UpgradeRefused",
                                 "UpgradeNotFollowed", "PlaintextContinued",
                                 "UpgradeNotOffered", "ImplicitTls"}
      /\ DOMAIN CipherCatalogue = {"NullCipher", "AnonymousCipher", "BrokenCipher",
                                   "SmallBlockCipher", "UnapprovedCipher", "UnknownCipher"}
      /\ DOMAIN KeyExchangeCatalogue = {"ForwardSecrecy", "HybridGroup"}
      /\ DOMAIN ProtocolCatalogue = {"NegotiatedVersion", "OfferedVersions",
                                     "NegotiationOutcome"}
  BY DEF CertificateCatalogue, MailCatalogue, CipherCatalogue, KeyExchangeCatalogue,
         ProtocolCatalogue
<1> QED
  BY <1>1 DEF Rules

Severities == {"CRITICAL", "HIGH", "MEDIUM", "LOW", "INFO"}

(* The catalogue gives each rule one of the severities there are, and the   *)
(* severities are ranked by numbers.                                        *)
LEMMA SeverityOfRule == \A r \in Rules : Catalogue[r].severity \in Severities
  BY RuleNames DEF Catalogue, CertificateCatalogue, MailCatalogue, CipherCatalogue,
                   KeyExchangeCatalogue, ProtocolCatalogue, Rule, Severities

LEMMA RankIsNumber == \A v \in Severities : Rank[v] \in Nat
  BY DEF Rank, Severities

(* The order of the rules: each has one place in it.                        *)
LEMMA Places ==
    /\ Len(InOrder) = 25 /\ DOMAIN InOrder = 1..25
    /\ \A i \in 1..25 : InOrder[i] \in Rules
    /\ \A i, j \in 1..25 : InOrder[i] = InOrder[j] => i = j
    /\ \A r \in Rules : \E i \in 1..25 : InOrder[i] = r
  BY RuleNames DEF InOrder

(* The position of a rule is its place in the order, and no two rules share *)
(* it.                                                                      *)
LEMMA PositionOfRule ==
    /\ Position \in [Rules -> 1..25]
    /\ \A r \in Rules : InOrder[Position[r]] = r
    /\ \A i \in 1..25 : Position[InOrder[i]] = i
<1>1. ASSUME NEW r \in Rules PROVE Position[r] \in 1..25 /\ InOrder[Position[r]] = r
  <2>1. PICK i \in DOMAIN InOrder : InOrder[i] = r
    BY Places
  <2> QED
    BY <2>1, Places DEF Position
<1>2. Position \in [Rules -> 1..25]
  BY <1>1 DEF Position
<1>3. ASSUME NEW i \in 1..25 PROVE Position[InOrder[i]] = i
  BY <1>1, Places
<1> QED
  BY <1>1, <1>2, <1>3

(* The value for "none yet" is no rule.                                     *)
LEMMA NoRuleIsNoValue == NoValue \notin Rules
  BY RuleNames DEF NoValue

(* A policy that gives every rule one of the severities there are.          *)
ValidPolicy(policy) == \A r \in Rules : SeverityFor(policy, r) \in Severities

RankOf(policy, r) == Rank[SeverityFor(policy, r)]

Precedes(policy, r, q) ==
    \/ RankOf(policy, r) < RankOf(policy, q)
    \/ RankOf(policy, r) = RankOf(policy, q) /\ Position[r] <= Position[q]

IsBest(policy, S, r) == r \in S /\ \A q \in S : Precedes(policy, r, q)

(* A valid policy ranks every rule.                                         *)
LEMMA RanksAreNumbers ==
    ASSUME NEW policy, ValidPolicy(policy)
    PROVE  \A r \in Rules : RankOf(policy, r) \in Nat
  BY RankIsNumber DEF ValidPolicy, RankOf

(* There is one best rule of any that there are, and the unit is            *)
(* represented by it.                                                       *)
LEMMA RepresentativeIsBest ==
    ASSUME NEW policy, ValidPolicy(policy), NEW results, NEW g, NEW outcome,
           Members(results, g, outcome) \subseteq Rules,
           NEW b, IsBest(policy, Members(results, g, outcome), b)
    PROVE  Representative(results, policy, g, outcome) = b
<1> DEFINE deciding == Members(results, g, outcome)
           worst == {r \in deciding : \A q \in deciding :
                        Rank[SeverityFor(policy, r)] <= Rank[SeverityFor(policy, q)]}
<1>1. \A r \in deciding : RankOf(policy, r) \in Nat /\ Position[r] \in 1..25
  BY RanksAreNumbers, PositionOfRule
<1>2. b \in deciding /\ \A q \in deciding : Precedes(policy, b, q)
  BY DEF IsBest
<1>3. \A q \in deciding : RankOf(policy, b) <= RankOf(policy, q)
  <2> HIDE DEF deciding
  <2> QED
    BY <1>1, <1>2 DEF Precedes
<1>4. b \in worst
  BY <1>2, <1>3 DEF RankOf
<1>5. ASSUME NEW q \in worst PROVE RankOf(policy, q) = RankOf(policy, b)
  <2>1. q \in deciding /\ RankOf(policy, q) <= RankOf(policy, b)
    BY <1>2 DEF RankOf
  <2> HIDE DEF deciding, worst
  <2> QED
    BY <1>1, <1>2, <1>3, <2>1
<1>6. \A q \in worst : Position[b] <= Position[q]
  <2> SUFFICES ASSUME NEW q \in worst PROVE Position[b] <= Position[q]
    OBVIOUS
  <2>1. q \in deciding
    OBVIOUS
  <2> HIDE DEF deciding, worst
  <2> QED
    BY <1>1, <1>2, <1>5, <2>1 DEF Precedes
<1>7. ASSUME NEW r \in worst, \A q \in worst : Position[r] <= Position[q] PROVE r = b
  <2>1. r \in Rules /\ b \in Rules
    BY <1>2
  <2>2. Position[r] = Position[b]
    <3> HIDE DEF worst
    <3> QED
      BY <1>4, <1>6, <1>7, <2>1, PositionOfRule
  <2> QED
    BY <2>1, <2>2, PositionOfRule
<1>8. (CHOOSE r \in worst : \A q \in worst : Position[r] <= Position[q]) = b
  <2> HIDE DEF worst
  <2> QED
    BY <1>4, <1>6, <1>7
<1> QED
  BY <1>8 DEF Representative

-----------------------------------------------------------------------------
(* The pass over the results: after the first i rules it holds, for each    *)
(* group, the best of those that failed.                                    *)

Failing(results, g, i) == {r \in Members(results, g, "FAIL") : Position[r] <= i}

Tables == [Groups -> Rules \cup {NoValue}]

Kept(results, policy, before, i) ==
    /\ before \in Tables
    /\ \A g \in Groups :
          IF Failing(results, g, i) = {} THEN before[g] = NoValue
          ELSE IsBest(policy, Failing(results, g, i), before[g])

Passed(results, policy, i, before) ==
    LET r == InOrder[i]
        g == Catalogue[r].group
    IN  IF /\ r \in DOMAIN results /\ results[r] = "FAIL"
           /\ Worse(policy, r, before[g])
        THEN [before EXCEPT ![g] = r] ELSE before

(* The i-th rule joins the failures of the first i - 1 if it failed.        *)
LEMMA FailingOfNext ==
    ASSUME NEW results, DOMAIN results \subseteq Rules, NEW g \in Groups, NEW i \in 1..25
    PROVE  Failing(results, g, i)
             = Failing(results, g, i - 1)
                 \cup {r \in {InOrder[i]} : r \in DOMAIN results /\ results[r] = "FAIL"
                                           /\ Catalogue[r].group = g}
<1>1. \A r \in Rules : Position[r] <= i <=> Position[r] <= i - 1 \/ r = InOrder[i]
  BY PositionOfRule
<1>2. \A r : r \in Members(results, g, "FAIL") <=>
           r \in DOMAIN results /\ results[r] = "FAIL" /\ Catalogue[r].group = g
  BY DEF Members, With
<1> QED
  BY <1>1, <1>2 DEF Failing

(* One step of the pass keeps the best failure of each group.               *)
LEMMA PassKeeps ==
    ASSUME NEW policy, ValidPolicy(policy), NEW results, DOMAIN results \subseteq Rules,
           NEW i \in 1..25, NEW before, Kept(results, policy, before, i - 1)
    PROVE  Kept(results, policy, Passed(results, policy, i, before), i)
<1> DEFINE r == InOrder[i]
           h == Catalogue[r].group
           fails == r \in DOMAIN results /\ results[r] = "FAIL"
           after == Passed(results, policy, i, before)
<1>1. r \in Rules /\ h \in Groups /\ Position[r] = i
  BY Places, PositionOfRule DEF Groups
<1>2. before \in Tables
  BY DEF Kept
<1>3. after = IF fails /\ Worse(policy, r, before[h]) THEN [before EXCEPT ![h] = r]
              ELSE before
  BY DEF Passed
<1>4. after \in Tables
  <2> HIDE DEF h, r, fails, after
  <2> QED
    BY <1>1, <1>2, <1>3 DEF Tables
<1>5. ASSUME NEW g \in Groups
      PROVE  IF Failing(results, g, i) = {} THEN after[g] = NoValue
             ELSE IsBest(policy, Failing(results, g, i), after[g])
  <2> DEFINE sooner == Failing(results, g, i - 1)
             later == Failing(results, g, i)
  <2>1. IF sooner = {} THEN before[g] = NoValue ELSE IsBest(policy, sooner, before[g])
    BY DEF Kept
  <2>2. later = sooner \cup {q \in {r} : fails /\ h = g}
    <3>1. {q \in {r} : q \in DOMAIN results /\ results[q] = "FAIL" /\ Catalogue[q].group = g}
            = {q \in {r} : fails /\ h = g}
      OBVIOUS
    <3> QED
      BY <3>1, FailingOfNext
  <2>3. sooner \subseteq Rules /\ \A q \in sooner : Position[q] <= i - 1
    BY DEF Failing, Members, With
  <2>4. \A q \in Rules : RankOf(policy, q) \in Nat /\ Position[q] \in 1..25
    BY RanksAreNumbers, PositionOfRule
  <2>5. CASE ~(fails /\ h = g)
    <3>1. later = sooner
      BY <2>2, <2>5
    <3>2. after[g] = before[g]
      <4> HIDE DEF fails, h, r, after
      <4> QED
        BY <1>1, <1>2, <1>3, <2>5 DEF Tables
    <3> QED
      BY <2>1, <3>1, <3>2
  <2>6. CASE fails /\ h = g
    <3>1. later = sooner \cup {r}
      BY <2>2, <2>6
    <3>2. after[g] = IF Worse(policy, r, before[g]) THEN r ELSE before[g]
      <4> HIDE DEF fails, h, r, after
      <4> QED
        BY <1>1, <1>2, <1>3, <2>6 DEF Tables
    <3>3. CASE sooner = {}
      <4>1. before[g] = NoValue /\ after[g] = r
        BY <2>1, <3>2, <3>3 DEF Worse
      <4>2. later = {r}
        BY <3>1, <3>3
      <4>3. IsBest(policy, {r}, r)
        <5> HIDE DEF r
        <5> QED
          BY <1>1, <2>4 DEF IsBest, Precedes
      <4> HIDE DEF later, r, after
      <4> QED
        BY <4>1, <4>2, <4>3 DEF later
    <3>4. CASE sooner # {}
      <4> DEFINE b == before[g]
      <4>1. b \in sooner /\ \A q \in sooner : Precedes(policy, b, q)
        BY <2>1, <3>4 DEF IsBest
      <4>2. b \in Rules /\ b # NoValue /\ Position[b] <= i - 1
        BY <2>3, <4>1, NoRuleIsNoValue
      <4>3. Worse(policy, r, b) <=> RankOf(policy, r) < RankOf(policy, b)
        BY <4>2 DEF Worse, RankOf
      <4> HIDE DEF later, sooner, r, after, b
      <4>4. CASE RankOf(policy, r) < RankOf(policy, b)
        <5>1. after[g] = r
          BY <3>2, <4>3, <4>4 DEF b
        <5>2. ASSUME NEW q \in sooner PROVE Precedes(policy, r, q)
          BY <1>1, <2>3, <2>4, <4>1, <4>2, <4>4 DEF Precedes
        <5>3. Precedes(policy, r, r)
          BY <1>1, <2>4 DEF Precedes
        <5>4. IsBest(policy, later, r)
          BY <3>1, <5>2, <5>3 DEF IsBest
        <5> QED
          BY <5>1, <5>4 DEF later, IsBest
      <4>5. CASE ~(RankOf(policy, r) < RankOf(policy, b))
        <5>1. after[g] = b
          BY <3>2, <4>3, <4>5 DEF b
        <5>2. Precedes(policy, b, r)
          BY <1>1, <2>4, <4>2, <4>5 DEF Precedes
        <5>3. IsBest(policy, later, b)
          BY <3>1, <4>1, <5>2 DEF IsBest
        <5> QED
          BY <5>1, <5>3 DEF later, IsBest
      <4> QED
        BY <4>4, <4>5
    <3> QED
      BY <3>3, <3>4
  <2> QED
    BY <2>5, <2>6
<1> QED
  BY <1>4, <1>5 DEF Kept

(* What the pass ends with.                                                 *)
Pass(results, policy, f) ==
    f = [i \in 0..Len(InOrder) |->
            IF i = 0 THEN [g \in Groups |-> NoValue]
            ELSE Passed(results, policy, i, f[i - 1])]

(* The pass is a table: the recursion of _deduplicate defines one.          *)
LEMMA PassExists ==
    ASSUME NEW policy, NEW results
    PROVE  \E f : Pass(results, policy, f)
<1> DEFINE first == [g \in Groups |-> NoValue]
           step == [p \in (1..25) \X Tables |-> Passed(results, policy, p[1], p[2])]
<1>1. first \in Tables
  BY DEF Tables
<1>2. ASSUME NEW i \in 1..25, NEW before \in Tables
      PROVE  Passed(results, policy, i, before) \in Tables
  <2>1. InOrder[i] \in Rules
    BY Places
  <2> QED
    BY <2>1 DEF Passed, Tables
<1>3. step \in [(1..25) \X Tables -> Tables]
  BY <1>2
<1>4. \A i \in 1..25, before \in Tables : step[<<i, before>>] = Passed(results, policy, i, before)
  OBVIOUS
<1> HIDE DEF first, step
<1>5. PICK f : Iterates(f, 25, Tables, first, step)
  BY <1>1, <1>3, Iteration
<1>6. /\ f \in [0..25 -> Tables] /\ f[0] = first
      /\ \A i \in 1..25 : f[i] = step[<<i, f[i - 1]>>]
  BY <1>5 DEF Iterates
<1>7. ASSUME NEW i \in 0..25
      PROVE  f[i] = IF i = 0 THEN first ELSE Passed(results, policy, i, f[i - 1])
  <2>1. CASE i = 0
    BY <1>6, <2>1
  <2>2. CASE i # 0
    <3>1. i \in 1..25 /\ i - 1 \in 0..25
      BY <2>2
    <3>2. f[i - 1] \in Tables
      BY <1>6, <3>1
    <3> QED
      BY <1>4, <1>6, <2>2, <3>1, <3>2
  <2> QED
    BY <2>1, <2>2
<1>8. f = [i \in 0..25 |-> IF i = 0 THEN first ELSE Passed(results, policy, i, f[i - 1])]
  BY <1>6, <1>7
<1> QED
  BY <1>8, Places DEF Pass, first

(* After all rules each group holds the best of its failures.               *)
LEMMA PassEnds ==
    ASSUME NEW policy, ValidPolicy(policy), NEW results, DOMAIN results \subseteq Rules,
           NEW f, Pass(results, policy, f)
    PROVE  Kept(results, policy, f[25], 25)
<1>1. f = [i \in 0..25 |-> IF i = 0 THEN [g \in Groups |-> NoValue]
                           ELSE Passed(results, policy, i, f[i - 1])]
  BY Places DEF Pass
<1>2. f[0] = [g \in Groups |-> NoValue]
  BY <1>1
<1>3. \A i \in 1..25 : f[i] = Passed(results, policy, i, f[i - 1])
  BY <1>1
<1> DEFINE T == {n \in 0..25 : Kept(results, policy, f[n], n)}
<1>4. 0 \in T
  <2>1. \A g \in Groups : Failing(results, g, 0) = {}
    BY PositionOfRule DEF Failing, Members, With
  <2> QED
    BY <1>2, <2>1 DEF Kept, Tables
<1>5. ASSUME NEW n \in 0..(25 - 1), n \in T PROVE n + 1 \in T
  <2>1. n + 1 \in 1..25 /\ n + 1 \in 0..25 /\ (n + 1) - 1 = n
    OBVIOUS
  <2>2. f[n + 1] = Passed(results, policy, n + 1, f[n])
    BY <1>3, <2>1
  <2>3. Kept(results, policy, f[n], (n + 1) - 1)
    BY <1>5, <2>1
  <2>4. Kept(results, policy, Passed(results, policy, n + 1, f[n]), n + 1)
    BY <2>1, <2>3, PassKeeps
  <2> QED
    BY <2>1, <2>2, <2>4
<1> HIDE DEF T
<1>6. 0..25 \subseteq T
  BY <1>4, <1>5, UpTo
<1> QED
  BY <1>6 DEF T

(* So what _deduplicate returns is the best failure of each group.          *)
LEMMA RepresentativesAreBest ==
    ASSUME NEW policy, ValidPolicy(policy), NEW results, DOMAIN results \subseteq Rules
    PROVE  Kept(results, policy, Representatives(results, policy), 25)
<1> DEFINE after[i \in 0..Len(InOrder)] ==
               IF i = 0 THEN [g \in Groups |-> NoValue]
               ELSE Passed(results, policy, i, after[i - 1])
<1>1. Pass(results, policy, after)
  <2>1. PICK f : Pass(results, policy, f)
    BY PassExists
  <2>2. f = [i \in 0..Len(InOrder) |->
                IF i = 0 THEN [g \in Groups |-> NoValue]
                ELSE Passed(results, policy, i, f[i - 1])]
    BY <2>1 DEF Pass
  <2> QED
    BY <2>2 DEF Pass
<1>2. Representatives(results, policy) = after[Len(InOrder)]
  BY DEF Representatives, Passed
<1> HIDE DEF after
<1> QED
  BY <1>1, <1>2, PassEnds, Places

-----------------------------------------------------------------------------
(* A unit has failed if and only if one of its rules has: "FAIL" decides    *)
(* first.                                                                   *)
LEMMA FailedUnits ==
    ASSUME NEW results, NEW g
    PROVE  UnitOutcome(results, g) = "FAIL" <=> Members(results, g, "FAIL") # {}
<1> DEFINE among == {i \in DOMAIN Decisive : Members(results, g, Decisive[i]) # {}}
<1>1. /\ DOMAIN Decisive = 1..3 /\ Decisive[1] = "FAIL"
      /\ \A i \in 1..3 : Decisive[i] = "FAIL" => i = 1
  BY DEF Decisive
<1>2. among \subseteq 1..3 /\ (1 \in among <=> Members(results, g, "FAIL") # {})
  BY <1>1
<1>3. UnitOutcome(results, g) = IF among = {} THEN "NOT_APPLICABLE" ELSE Decisive[Min(among)]
  BY DEF UnitOutcome
<1> HIDE DEF among
<1>4. CASE among = {}
  BY <1>2, <1>3, <1>4
<1>5. CASE among # {}
  <2>1. PICK m \in among : \A y \in among : m <= y
    <3>1. among \in SUBSET Nat
      BY <1>2
    <3> QED
      BY <1>5, <3>1, LeastExists
  <2>2. Min(among) \in among /\ \A y \in among : Min(among) <= y
    BY <2>1 DEF Min
  <2>3. Min(among) \in 1..3
    BY <1>2, <2>2
  <2>4. Min(among) = 1 <=> 1 \in among
    BY <1>2, <2>2, <2>3
  <2> QED
    BY <1>1, <1>2, <1>3, <1>5, <2>3, <2>4
<1> QED
  BY <1>4, <1>5

(* What evaluator.py and scoring.py choose, each in its own way, is the     *)
(* same, whatever the outcomes of the rules and whatever the policy.        *)
THEOREM FindingsAreUnits ==
    ASSUME NEW policy, ValidPolicy(policy), NEW results, DOMAIN results \subseteq Rules
    PROVE  Findings(results, policy) =
               {Representative(results, policy, g, "FAIL") :
                   g \in {h \in Groups : UnitOutcome(results, h) = "FAIL"}}
<1> DEFINE kept == Representatives(results, policy)
           failed == {h \in Groups : UnitOutcome(results, h) = "FAIL"}
<1>1. ASSUME NEW g \in Groups
      PROVE  IF g \in failed THEN kept[g] = Representative(results, policy, g, "FAIL")
                                   /\ kept[g] # NoValue
             ELSE kept[g] = NoValue
  <2>1. Failing(results, g, 25) = Members(results, g, "FAIL")
    BY PositionOfRule DEF Failing, Members, With
  <2>2. Members(results, g, "FAIL") \subseteq Rules
    BY DEF Members, With
  <2>3. IF Members(results, g, "FAIL") = {} THEN kept[g] = NoValue
        ELSE IsBest(policy, Members(results, g, "FAIL"), kept[g])
    BY <2>1, RepresentativesAreBest DEF Kept
  <2>4. g \in failed <=> Members(results, g, "FAIL") # {}
    BY FailedUnits
  <2> HIDE DEF kept
  <2>5. CASE g \in failed
    <3>1. IsBest(policy, Members(results, g, "FAIL"), kept[g])
      BY <2>3, <2>4, <2>5
    <3>2. kept[g] = Representative(results, policy, g, "FAIL")
      BY <2>2, <3>1, RepresentativeIsBest
    <3>3. kept[g] \in Rules
      BY <2>2, <3>1 DEF IsBest
    <3> QED
      BY <2>5, <3>2, <3>3, NoRuleIsNoValue
  <2>6. CASE g \notin failed
    BY <2>3, <2>4, <2>6
  <2> QED
    BY <2>5, <2>6
<1>2. DOMAIN kept = Groups
  BY RepresentativesAreBest DEF Kept, Tables
<1>3. Findings(results, policy) = {kept[g] : g \in Groups} \ {NoValue}
  BY <1>2 DEF Findings, Range
<1>4. failed \subseteq Groups
  OBVIOUS
<1> HIDE DEF kept, failed
<1>5. {kept[g] : g \in Groups} \ {NoValue}
        = {Representative(results, policy, g, "FAIL") : g \in failed}
  BY <1>1, <1>4
<1> QED
  BY <1>3, <1>5 DEF failed

(* The policies of the runs give every rule a severity.                     *)
LEMMA PoliciesAreValid == \A policy \in Policies : ValidPolicy(policy)
<1>1. ASSUME NEW disabled, NEW severities, NEW weights,
             \A r \in DOMAIN severities : severities[r] \in Severities
      PROVE  ValidPolicy(Policy(disabled, severities, weights))
  BY <1>1, SeverityOfRule DEF ValidPolicy, SeverityFor, Policy
<1>2. \A r \in DOMAIN << >> : << >>[r] \in Severities
  OBVIOUS
<1>3. /\ ValidPolicy(DefaultPolicy)
      /\ ValidPolicy(Policy({"CleartextLogin"}, << >>, [r \in {"UnapprovedCipher"} |-> 9]))
  BY <1>1, <1>2 DEF DefaultPolicy
<1>4. ValidPolicy(Policy({}, [r \in {"NullCipher", "CleartextLogin"} |-> "INFO"], << >>))
  <2>1. \A q \in DOMAIN [r \in {"NullCipher", "CleartextLogin"} |-> "INFO"] :
           [r \in {"NullCipher", "CleartextLogin"} |-> "INFO"][q] \in Severities
    BY DEF Severities
  <2> QED
    BY <1>1, <2>1
<1>5. ValidPolicy(Policy({}, [r \in {"UnapprovedCipher", "UpgradeNotFollowed"} |-> "CRITICAL"],
                         [r \in {"BrokenCipher"} |-> 0]))
  <2>1. \A q \in DOMAIN [r \in {"UnapprovedCipher", "UpgradeNotFollowed"} |-> "CRITICAL"] :
           [r \in {"UnapprovedCipher", "UpgradeNotFollowed"} |-> "CRITICAL"][q] \in Severities
    BY DEF Severities
  <2> QED
    BY <1>1, <2>1
<1> QED
  BY <1>3, <1>4, <1>5 DEF Policies

(* What evaluator.py reports as findings and what scoring.py deducts are    *)
(* the same rules in every state, under every policy of the runs.           *)
THEOREM FindingsAreDeducted == Spec => []FindingsMatchUnits
<1>1. FindingsMatchUnits
  <2> SUFFICES ASSUME NEW policy \in Policies
               PROVE  Findings(Judgement(policy), policy) =
                          {Representative(Judgement(policy), policy, g, "FAIL") :
                              g \in {h \in Groups : UnitOutcome(Judgement(policy), h) = "FAIL"}}
    BY DEF FindingsMatchUnits
  <2>1. DOMAIN Judgement(policy) \subseteq Rules
    BY DEF Judgement, Results
  <2> QED
    BY <2>1, PoliciesAreValid, FindingsAreUnits
<1> QED
  BY <1>1, PTL

-----------------------------------------------------------------------------
(* A login in the clear.  The parser of the dialogue of a session: it reads *)
(* no message content, and has always noted a login with an upgrade state   *)
(* from before the acceptance.                                              *)

Early == {"INCOMPLETE", "UPGRADE_REJECTED", "UPGRADE_REQUESTED", "UPGRADE_ADVERTISED",
          "PLAINTEXT"}
Verbs == {"EHLO", "STARTTLS", "AUTH", "NOOP"}
Replies == {"220", "250", "334", "454", "235", "535"}
Entries == [verb : Verbs, kind : {"upgrade", "auth", "other"}, tag : {0}]

Parsers ==
    [greeting : BOOLEAN, matched : Nat, recognised : Nat, foreign : Nat,
     pending : Seq(Entries), upgradeSeen : BOOLEAN, advertised : BOOLEAN,
     requested : BOOLEAN, response : BOOLEAN,
     outcome : {"none", "ACCEPTED", "REJECTED", "TEMPORARY"},
     unsafe : BOOLEAN, gapSeen : BOOLEAN, events : Nat,
     attempts : SUBSET Early, reply : Seq(BOOLEAN), body : {"none"},
     bodyLines : Nat, awaiting : BOOLEAN, halt : BOOLEAN, stopped : {FALSE}]

SmtpLines(words) ==
    [says : {"SMTP"}, word : words, tag : {0}, more : BOOLEAN, offers : BOOLEAN,
     literal : {"none"}, complete : {TRUE}, usable : BOOLEAN, gap : BOOLEAN]

(* An outstanding login, or one whose response is awaited, was noted, and   *)
(* an accepted upgrade ended the dialogue.                                  *)
Notes(p) ==
    /\ p \in Parsers
    /\ p.awaiting => p.attempts # {}
    /\ (\E i \in DOMAIN p.pending : p.pending[i].kind = "auth") => p.attempts # {}
    /\ p.outcome = "ACCEPTED" => p.halt

(* An operation that leaves alone what the notes are about.                 *)
Leaves(p, r) ==
    /\ r \in Parsers
    /\ r.attempts = p.attempts /\ r.pending = p.pending /\ r.outcome = p.outcome
    /\ r.awaiting = p.awaiting /\ r.halt = p.halt

(* What such operations leave alone stays noted, one or several of them.    *)
LEMMA LeavesNotes ==
    ASSUME NEW p, NEW r, Notes(p), Leaves(p, r)
    PROVE  Notes(r)
  BY DEF Notes, Leaves

LEMMA LeavesTwice ==
    ASSUME NEW p, NEW q, NEW r, Leaves(p, q), Leaves(q, r)
    PROVE  Leaves(p, r)
  BY DEF Leaves

(* The operations of the parser that only record an event or a flag.        *)
LEMMA AddEventLeaves ==
    ASSUME NEW p \in Parsers
    PROVE  Leaves(p, Mail!AddEvent(p))
<1>1. p.events + 1 \in Nat
  BY DEF Parsers
<1>2. ASSUME NEW n \in Nat PROVE Leaves(p, [p EXCEPT !.events = n])
  BY <1>2 DEF Parsers, Leaves
<1>3. Leaves(p, p)
  BY DEF Leaves
<1> QED
  BY <1>1, <1>2, <1>3 DEF Mail!AddEvent

(* A hole ends the wait for the answers to outstanding commands.            *)
LEMMA NoteGapNotes ==
    ASSUME NEW p, Notes(p)
    PROVE  LET r == Mail!NoteGap(p)
           IN  Notes(r) /\ r.attempts = p.attempts /\ r.halt = p.halt /\ r.pending = << >>
<1> DEFINE q == Mail!AddEvent(p)
           u == q.unsafe \/ Mail!Outstanding(p, Mail!IsUpgrade)
<1>1. Leaves(p, q)
  BY AddEventLeaves DEF Notes
<1>2. Mail!NoteGap(p) = [q EXCEPT !.gapSeen = TRUE, !.unsafe = u, !.pending = << >>]
  BY <1>1 DEF Mail!NoteGap
<1>3. u \in BOOLEAN /\ << >> \in Seq(Entries) /\ DOMAIN << >> = {}
  OBVIOUS
<1> HIDE DEF q, u
<1>4. q \in Parsers
  BY <1>1 DEF Leaves
<1>5. LET r == [q EXCEPT !.gapSeen = TRUE, !.unsafe = u, !.pending = << >>]
      IN  /\ r \in Parsers /\ r.attempts = q.attempts /\ r.pending = << >>
          /\ r.outcome = q.outcome /\ r.awaiting = q.awaiting /\ r.halt = q.halt
  BY <1>3, <1>4 DEF Parsers
<1> QED
  BY <1>1, <1>2, <1>3, <1>5 DEF Notes, Leaves

LEMMA UnusableLeaves ==
    ASSUME NEW p \in Parsers
    PROVE  Leaves(p, Mail!Unusable(p))
<1> DEFINE q == Mail!AddEvent(p)
           u == q.unsafe \/ Mail!Outstanding(p, Mail!IsUpgrade) \/ p.requested
<1>1. Leaves(p, q)
  BY AddEventLeaves
<1>2. Mail!Unusable(p) = [q EXCEPT !.unsafe = u]
  BY <1>1 DEF Mail!Unusable
<1>3. u \in BOOLEAN
  OBVIOUS
<1> HIDE DEF q, u
<1>4. q \in Parsers
  BY <1>1 DEF Leaves
<1>5. Leaves(q, [q EXCEPT !.unsafe = u])
  BY <1>3, <1>4 DEF Parsers, Leaves
<1> QED
  BY <1>1, <1>2, <1>5, LeavesTwice

LEMMA ForeignLeaves ==
    ASSUME NEW p \in Parsers
    PROVE  Leaves(p, Mail!Foreign(p))
<1> DEFINE q == Mail!AddEvent(p)
           n == q.foreign + 1
<1>1. Leaves(p, q)
  BY AddEventLeaves
<1>2. Mail!Foreign(p) = [q EXCEPT !.foreign = n] /\ n \in Nat
  BY <1>1 DEF Mail!Foreign, Leaves, Parsers
<1> HIDE DEF q, n
<1>3. q \in Parsers
  BY <1>1 DEF Leaves
<1>4. Leaves(q, [q EXCEPT !.foreign = n])
  BY <1>2, <1>3 DEF Parsers, Leaves
<1> QED
  BY <1>1, <1>2, <1>4, LeavesTwice

LEMMA AdvertiseLeaves ==
    ASSUME NEW p \in Parsers
    PROVE  Leaves(p, Mail!Advertise(p))
<1> DEFINE q == Mail!AddEvent(p)
           a == Mail!Room(p)
<1>1. Leaves(p, q)
  BY AddEventLeaves
<1>2. Mail!Advertise(p) = [q EXCEPT !.upgradeSeen = TRUE, !.advertised = a] /\ a \in BOOLEAN
  BY <1>1 DEF Mail!Advertise, Mail!Room
<1> HIDE DEF q, a
<1>3. q \in Parsers
  BY <1>1 DEF Leaves
<1>4. Leaves(q, [q EXCEPT !.upgradeSeen = TRUE, !.advertised = a])
  BY <1>2, <1>3 DEF Parsers, Leaves
<1> QED
  BY <1>1, <1>2, <1>4, LeavesTwice

(* The lines collected of a reply are nothing the notes are about.          *)
LEMMA ReplyLeaves ==
    ASSUME NEW p \in Parsers, NEW s \in Seq(BOOLEAN)
    PROVE  Leaves(p, [p EXCEPT !.reply = s])
  BY DEF Parsers, Leaves

(* A wait for a SASL response that begins or ends.                          *)
LEMMA AwaitingNotes ==
    ASSUME NEW p, Notes(p), NEW b \in BOOLEAN, b => p.attempts # {}
    PROVE  LET r == [Mail!AddEvent(p) EXCEPT !.awaiting = b]
           IN  Notes(r) /\ r.attempts = p.attempts /\ r.halt = p.halt
<1> DEFINE q == Mail!AddEvent(p)
<1>1. Leaves(p, q)
  BY AddEventLeaves DEF Notes
<1> HIDE DEF q
<1>2. q \in Parsers
  BY <1>1 DEF Leaves
<1>3. LET r == [q EXCEPT !.awaiting = b]
      IN  /\ r \in Parsers /\ r.attempts = q.attempts /\ r.pending = q.pending
          /\ r.outcome = q.outcome /\ r.awaiting = b /\ r.halt = q.halt
  BY <1>2 DEF Parsers
<1>4. Notes([q EXCEPT !.awaiting = b]) /\ [q EXCEPT !.awaiting = b].attempts = p.attempts
      /\ [q EXCEPT !.awaiting = b].halt = p.halt
  BY <1>1, <1>3 DEF Notes, Leaves
<1> QED
  BY <1>4 DEF q

(* A command that is read: a login is noted with the state it met.          *)
LEMMA CommandNotes ==
    ASSUME NEW p, Notes(p), ~p.halt, NEW word \in Verbs
    PROVE  LET r == Mail!Command(p, word, Mail!SmtpKind(word), 0)
           IN  /\ Notes(r) /\ ~r.halt /\ p.attempts \subseteq r.attempts
               /\ word = "AUTH" => r.attempts # {}
<1> DEFINE kind == Mail!SmtpKind(word)
           e == [verb |-> word, kind |-> kind, tag |-> 0]
           a == Mail!AddEvent(p)
           q == [a EXCEPT !.recognised = @ + 1, !.pending = Append(@, e)]
<1>1. kind = IF word = "STARTTLS" THEN "upgrade" ELSE IF word = "AUTH" THEN "auth" ELSE "other"
  BY DEF Mail!SmtpKind
<1>2. Leaves(p, a) /\ p \in Parsers
  BY AddEventLeaves DEF Notes
<1> HIDE DEF kind, a
<1>3. a \in Parsers
  BY <1>2 DEF Leaves
<1>4. e \in Entries
  BY <1>1 DEF Entries, Verbs
<1> HIDE DEF e
<1>5. /\ q \in Parsers /\ q.attempts = a.attempts /\ q.outcome = a.outcome
      /\ q.awaiting = a.awaiting /\ q.halt = a.halt /\ q.pending = Append(a.pending, e)
  <2> DEFINE n == a.recognised + 1
             s == Append(a.pending, e)
  <2>1. n \in Nat /\ s \in Seq(Entries)
    BY <1>3, <1>4 DEF Parsers
  <2>2. q = [a EXCEPT !.recognised = n, !.pending = s]
    OBVIOUS
  <2> HIDE DEF n, s
  <2>3. LET r == [a EXCEPT !.recognised = n, !.pending = s]
        IN  /\ r \in Parsers /\ r.attempts = a.attempts /\ r.outcome = a.outcome
            /\ r.awaiting = a.awaiting /\ r.halt = a.halt /\ r.pending = s
    BY <1>3, <2>1 DEF Parsers
  <2> QED
    BY <2>2, <2>3 DEF s
<1>6. /\ q \in Parsers /\ q.attempts = p.attempts /\ q.outcome = p.outcome
      /\ q.awaiting = p.awaiting /\ q.halt = p.halt /\ q.pending = Append(p.pending, e)
  BY <1>2, <1>5 DEF Leaves
<1>7. \A i \in DOMAIN q.pending :
         (i \in DOMAIN p.pending /\ q.pending[i] = p.pending[i]) \/ q.pending[i] = e
  <2>1. p.pending \in Seq(Entries)
    BY <1>2 DEF Parsers
  <2>2. \A s \in Seq(Entries) : \A i \in DOMAIN Append(s, e) :
            (i \in DOMAIN s /\ Append(s, e)[i] = s[i]) \/ Append(s, e)[i] = e
    BY <1>4
  <2> HIDE DEF q
  <2> QED
    BY <1>6, <2>1, <2>2
<1>8. e.kind = kind
  BY DEF e
<1> HIDE DEF q
<1>9. CASE kind = "upgrade"
  <2> DEFINE b == Mail!Room(p)
             r == [q EXCEPT !.upgradeSeen = TRUE, !.requested = b]
  <2>1. Mail!Command(p, word, kind, 0) = r
    BY <1>9 DEF Mail!Command, q, a, e
  <2>2. b \in BOOLEAN /\ word # "AUTH"
    BY <1>1, <1>9 DEF Mail!Room
  <2> HIDE DEF b
  <2>3. Leaves(q, r)
    BY <1>6, <2>2 DEF Leaves, Parsers
  <2> HIDE DEF r
  <2>4. Notes(r) /\ r.attempts = p.attempts /\ ~r.halt
    BY <1>6, <1>7, <1>8, <1>9, <2>3 DEF Notes, Leaves
  <2> QED
    BY <2>1, <2>2, <2>4 DEF kind
<1>10. CASE kind = "auth"
  <2> DEFINE state == Mail!UpgradeState(q)
             r == [q EXCEPT !.attempts = @ \cup {state}]
  <2>1. Mail!Command(p, word, kind, 0) = r
    BY <1>10 DEF Mail!Command, Mail!RecordAuth, q, a, e
  <2>2. q.outcome # "ACCEPTED"
    BY <1>6 DEF Notes
  <2>3. state \in Early
    BY <2>2 DEF Mail!UpgradeState, Early
  <2> HIDE DEF state
  <2>4. /\ r \in Parsers /\ r.attempts = p.attempts \cup {state} /\ r.outcome = p.outcome
        /\ r.halt = p.halt
    BY <1>6, <2>3 DEF Parsers
  <2> HIDE DEF r
  <2>5. Notes(r) /\ ~r.halt /\ p.attempts \subseteq r.attempts /\ r.attempts # {}
    BY <2>4 DEF Notes
  <2> QED
    BY <2>1, <2>5 DEF kind
<1>11. CASE kind = "other"
  <2>1. Mail!Command(p, word, kind, 0) = q
    BY <1>11 DEF Mail!Command, q, a, e
  <2>2. Notes(q) /\ q.attempts = p.attempts /\ ~q.halt /\ word # "AUTH"
    BY <1>1, <1>6, <1>7, <1>8, <1>11 DEF Notes
  <2> QED
    BY <2>1, <2>2 DEF kind
<1> QED
  BY <1>1, <1>9, <1>10, <1>11

(* The answer to an upgrade command.                                        *)
LEMMA ResolveNotes ==
    ASSUME NEW p, Notes(p), ~p.halt, NEW outcome \in {"ACCEPTED", "REJECTED", "TEMPORARY"}
    PROVE  LET r == Mail!Resolve(p, outcome)
           IN  Notes(r) /\ r.attempts = p.attempts /\ (r.halt => outcome = "ACCEPTED")
<1> DEFINE q == Mail!AddEvent(p)
           b == Mail!Room(p)
           h == (outcome = "ACCEPTED")
           r == [q EXCEPT !.outcome = outcome, !.response = b, !.halt = h]
<1>1. Leaves(p, q) /\ b \in BOOLEAN /\ h \in BOOLEAN
  BY AddEventLeaves DEF Notes, Mail!Room
<1>2. Mail!Resolve(p, outcome) = r
  BY DEF Mail!Resolve
<1> HIDE DEF q, b, h
<1>3. q \in Parsers
  BY <1>1 DEF Leaves
<1>4. /\ r \in Parsers /\ r.attempts = q.attempts /\ r.pending = q.pending
      /\ r.awaiting = q.awaiting /\ r.outcome = outcome /\ r.halt = h
  BY <1>1, <1>3 DEF Parsers
<1>5. /\ r \in Parsers /\ r.attempts = p.attempts /\ r.pending = p.pending
      /\ r.awaiting = p.awaiting /\ r.outcome = outcome /\ r.halt = h
  BY <1>1, <1>4 DEF Leaves
<1> HIDE DEF r
<1> QED
  BY <1>2, <1>5 DEF Notes, h

(* A line of the client takes back nothing that was noted, and a login that *)
(* can be read is noted, whatever is awaited: what is awaited is a response *)
(* to a login noted before.                                                 *)
LEMMA ClientLineNotes ==
    ASSUME NEW p, Notes(p), ~p.halt, NEW l \in SmtpLines(Verbs \cup {"text"})
    PROVE  LET r == Mail!SmtpClientLine(p, l)
           IN  /\ Notes(r) /\ ~r.halt /\ p.attempts \subseteq r.attempts
               /\ l.word = "AUTH" /\ l.usable => r.attempts # {}
<1> DEFINE r == Mail!SmtpClientLine(p, l)
<1>1. p \in Parsers /\ p.body = "none"
  BY DEF Notes, Parsers
<1>2. l.says = "SMTP" /\ l.word \in Verbs \cup {"text"}
  BY DEF SmtpLines
<1>3. Mail!SmtpVerb(l) = IF l.word = "text" THEN Mail!NoVerb ELSE l.word
  BY <1>2 DEF Mail!SmtpVerb, Verbs
<1>4. Mail!NoVerb = "none" /\ "none" \notin Verbs \cup {"text"}
  BY DEF Mail!NoVerb, Verbs
<1>5. CASE p.awaiting
  <2>1. r = [Mail!AddEvent(p) EXCEPT !.awaiting = FALSE]
    BY <1>1, <1>5 DEF Mail!SmtpClientLine, Mail!Continuation
  <2>2. p.attempts # {}
    BY <1>5 DEF Notes
  <2> HIDE DEF r
  <2>3. Notes(r) /\ r.attempts = p.attempts /\ r.halt = p.halt
    BY <2>1, AwaitingNotes
  <2> QED
    BY <2>2, <2>3 DEF r
<1>6. CASE ~p.awaiting /\ (~l.usable \/ l.word = "text")
  <2>1. r = Mail!Unusable(p) \/ (r = Mail!Foreign(p) /\ l.word = "text")
    BY <1>1, <1>3, <1>6 DEF Mail!SmtpClientLine
  <2> HIDE DEF r
  <2>2. Leaves(p, r)
    BY <1>1, <2>1, UnusableLeaves, ForeignLeaves
  <2>3. Notes(r) /\ r.attempts = p.attempts /\ r.halt = p.halt
    BY <2>2, LeavesNotes DEF Leaves
  <2> QED
    BY <1>6, <2>3 DEF r
<1>7. CASE ~p.awaiting /\ l.usable /\ l.word # "text"
  <2>1. l.word \in Verbs /\ Mail!SmtpVerb(l) = l.word
    BY <1>2, <1>3, <1>7
  <2>2. r = Mail!Command(p, l.word, Mail!SmtpKind(l.word), 0)
    BY <1>1, <1>4, <1>7, <2>1 DEF Mail!SmtpClientLine
  <2> HIDE DEF r
  <2> QED
    BY <2>1, <2>2, CommandNotes DEF r
<1> QED
  BY <1>5, <1>6, <1>7

(* The final line of a reply ends the dialogue only if it is the acceptance *)
(* of something outstanding.                                                *)
LEMMA ReplyNotes ==
    ASSUME NEW p, Notes(p), ~p.halt, NEW code \in Replies, NEW marks \in Seq(BOOLEAN)
    PROVE  LET r == Mail!SmtpReply(p, code, marks)
           IN  /\ Notes(r) /\ r.attempts = p.attempts
               /\ r.halt => code = "220" /\ p.pending # << >>
<1> SUFFICES ASSUME NEW r, r = Mail!SmtpReply(p, code, marks)
             PROVE  /\ Notes(r) /\ r.attempts = p.attempts
                    /\ r.halt => code = "220" /\ p.pending # << >>
  OBVIOUS
<1>1. p \in Parsers /\ p.pending \in Seq(Entries)
  BY DEF Notes, Parsers
<1>2. CASE p.pending = << >>
  <2> DEFINE q == Mail!AddEvent(p)
             g == q.greeting \/ (p.recognised = 0 /\ code \in Mail!SmtpGreetings)
  <2>1. r = [q EXCEPT !.greeting = g]
    BY <1>2 DEF Mail!SmtpReply, Mail!SmtpUnmatched
  <2>2. Leaves(p, q) /\ q \in Parsers /\ g \in BOOLEAN
    BY <1>1, AddEventLeaves DEF Leaves
  <2> HIDE DEF q, g
  <2>3. Leaves(q, [q EXCEPT !.greeting = g])
    BY <2>2 DEF Parsers, Leaves
  <2>4. Leaves(p, r)
    BY <2>1, <2>2, <2>3, LeavesTwice
  <2> QED
    BY <2>4, LeavesNotes DEF Leaves
<1>3. CASE p.pending # << >>
  <2> DEFINE command == Head(p.pending)
             t == Tail(p.pending)
             m == p.matched + 1
             q == [p EXCEPT !.pending = t, !.matched = m]
  <2>1. /\ command \in Entries /\ t \in Seq(Entries) /\ 1 \in DOMAIN p.pending
        /\ command = p.pending[1]
        /\ \A i \in DOMAIN t : i + 1 \in DOMAIN p.pending /\ t[i] = p.pending[i + 1]
    <3>1. \A s \in Seq(Entries) : s # << >> =>
             /\ Head(s) \in Entries /\ Tail(s) \in Seq(Entries) /\ 1 \in DOMAIN s
             /\ Head(s) = s[1]
             /\ \A i \in DOMAIN Tail(s) : i + 1 \in DOMAIN s /\ Tail(s)[i] = s[i + 1]
      OBVIOUS
    <3> QED
      BY <1>1, <1>3, <3>1
  <2>2. m \in Nat
    BY <1>1 DEF Parsers
  <2>3. command.verb \in Verbs /\ command.verb # "DATA"
    BY <2>1 DEF Entries, Verbs
  <2> HIDE DEF command, t, m
  <2>4. /\ q \in Parsers /\ q.pending = t /\ q.attempts = p.attempts /\ q.halt = p.halt
        /\ q.outcome = p.outcome /\ q.awaiting = p.awaiting
    BY <1>1, <2>1, <2>2 DEF Parsers
  <2> HIDE DEF q
  <2>5. Notes(q)
    BY <2>1, <2>4 DEF Notes
  <2>6. q = [p EXCEPT !.pending = Tail(@), !.matched = @ + 1]
    BY DEF q, t, m
  <2>7. r = IF Mail!IsAuth(command) /\ code = "334"
              THEN [Mail!AddEvent(p) EXCEPT !.awaiting = TRUE]
            ELSE IF Mail!IsUpgrade(command) THEN Mail!SmtpResolve(q, code)
            ELSE IF Mail!IsAuth(command) THEN Mail!SmtpFinishAuth(q)
            ELSE IF command.verb = "EHLO" THEN Mail!SmtpCapabilities(Mail!AddEvent(q), marks)
            ELSE Mail!AddEvent(q)
    BY <1>3, <2>3 DEF Mail!SmtpReply, command, q, t, m
  <2>8. Leaves(q, Mail!AddEvent(q))
    BY <2>4, AddEventLeaves
  <2>9. CASE Mail!IsAuth(command) /\ code = "334"
    <3>1. r = [Mail!AddEvent(p) EXCEPT !.awaiting = TRUE]
      BY <2>7, <2>9
    <3>2. p.attempts # {}
      BY <2>1, <2>9 DEF Notes, Mail!IsAuth
    <3> QED
      BY <3>1, <3>2, AwaitingNotes
  <2>10. CASE ~(Mail!IsAuth(command) /\ code = "334") /\ Mail!IsUpgrade(command)
    <3>1. r = Mail!SmtpResolve(q, code)
      BY <2>7, <2>10
    <3>2. ASSUME NEW outcome \in {"ACCEPTED", "REJECTED", "TEMPORARY"},
                 outcome = "ACCEPTED" => code = "220", r = Mail!Resolve(q, outcome)
          PROVE  /\ Notes(r) /\ r.attempts = p.attempts
                 /\ r.halt => code = "220" /\ p.pending # << >>
      BY <1>3, <2>4, <2>5, <3>2, ResolveNotes
    <3>3. CASE code = "220"
      BY <3>1, <3>2, <3>3 DEF Mail!SmtpResolve
    <3>4. CASE code = "454"
      BY <3>1, <3>2, <3>4 DEF Mail!SmtpResolve
    <3>5. CASE code = "535"
      BY <3>1, <3>2, <3>5 DEF Mail!SmtpResolve
    <3>6. CASE code \in {"250", "334", "235"}
      <4> DEFINE a == Mail!AddEvent(q)
                 b == Mail!Room(q)
      <4>1. r = [a EXCEPT !.response = b, !.unsafe = TRUE]
        BY <3>1, <3>6 DEF Mail!SmtpResolve
      <4>2. b \in BOOLEAN /\ a \in Parsers /\ Leaves(q, a)
        BY <2>8 DEF Mail!Room, Leaves
      <4> HIDE DEF a, b
      <4>3. Leaves(a, [a EXCEPT !.response = b, !.unsafe = TRUE])
        BY <4>2 DEF Parsers, Leaves
      <4>4. Leaves(q, r)
        BY <4>1, <4>2, <4>3, LeavesTwice
      <4> QED
        BY <2>4, <2>5, <4>4, LeavesNotes DEF Leaves
    <3> QED
      BY <3>3, <3>4, <3>5, <3>6 DEF Replies
  <2>11. CASE /\ ~(Mail!IsAuth(command) /\ code = "334") /\ ~Mail!IsUpgrade(command)
              /\ Mail!IsAuth(command)
    <3>1. r = [Mail!AddEvent(q) EXCEPT !.awaiting = FALSE]
      BY <2>7, <2>11 DEF Mail!SmtpFinishAuth
    <3> QED
      BY <2>4, <2>5, <3>1, AwaitingNotes
  <2>12. CASE ~Mail!IsUpgrade(command) /\ ~Mail!IsAuth(command)
    <3> DEFINE a == Mail!AddEvent(q)
               b == Mail!AddEvent(a)
    <3>1. r \in {a, b, Mail!Advertise(b)}
      BY <2>7, <2>12 DEF Mail!SmtpCapabilities
    <3>2. Leaves(q, a) /\ a \in Parsers
      BY <2>8 DEF Leaves
    <3> HIDE DEF a
    <3>3. Leaves(a, b) /\ b \in Parsers
      BY <3>2, AddEventLeaves DEF Leaves
    <3> HIDE DEF b
    <3>4. Leaves(b, Mail!Advertise(b))
      BY <3>3, AdvertiseLeaves
    <3>5. Leaves(q, b)
      BY <3>2, <3>3, LeavesTwice
    <3>6. Leaves(q, Mail!Advertise(b))
      BY <3>4, <3>5, LeavesTwice
    <3>7. Leaves(q, r)
      BY <3>1, <3>2, <3>5, <3>6
    <3> QED
      BY <2>4, <2>5, <3>7, LeavesNotes DEF Leaves
  <2> QED
    BY <2>9, <2>10, <2>11, <2>12
<1> QED
  BY <1>2, <1>3

(* A line of the server notes nothing, and ends the dialogue only as the    *)
(* acceptance.                                                              *)
LEMMA ServerLineNotes ==
    ASSUME NEW p, Notes(p), ~p.halt, NEW l \in SmtpLines(Replies \cup {"text"})
    PROVE  LET r == Mail!SmtpServerLine(p, l)
           IN  /\ Notes(r) /\ r.attempts = p.attempts
               /\ r.halt => l.word = "220" /\ p.pending # << >>
<1> SUFFICES ASSUME NEW r, r = Mail!SmtpServerLine(p, l)
             PROVE  /\ Notes(r) /\ r.attempts = p.attempts
                    /\ r.halt => l.word = "220" /\ p.pending # << >>
  OBVIOUS
<1>1. p \in Parsers
  BY DEF Notes
<1>2. p \in Parsers /\ p.reply \in Seq(BOOLEAN) /\ << >> \in Seq(BOOLEAN)
  <2>1. p.reply \in Seq(BOOLEAN)
    BY <1>1 DEF Parsers
  <2> QED
    BY <1>1, <2>1
<1>3. l.offers \in BOOLEAN /\ l.word \in Replies \cup {"text"}
  BY DEF SmtpLines
<1> DEFINE marks == Append(p.reply, l.offers)
<1>4. marks \in Seq(BOOLEAN)
  BY <1>2, <1>3
<1>5. Mail!SmtpCode(l) = IF l.word = "text" THEN Mail!NoVerb ELSE l.word
  BY <1>3 DEF Mail!SmtpCode, Mail!SmtpCodes, Mail!SmtpGreetings, Replies
<1>6. Mail!NoVerb \notin Replies
  BY DEF Mail!NoVerb, Replies
<1> DEFINE u == Mail!Unusable(p)
           f == Mail!Foreign(p)
           e == [p EXCEPT !.reply = << >>]
           m == [p EXCEPT !.reply = marks]
<1>7. \/ r = [u EXCEPT !.reply = << >>]
      \/ r = [f EXCEPT !.reply = << >>]
      \/ r = m
      \/ l.word \in Replies /\ r = Mail!SmtpReply(e, l.word, marks)
  BY <1>3, <1>5, <1>6 DEF Mail!SmtpServerLine
<1>8. Leaves(p, u) /\ u \in Parsers /\ Leaves(p, f) /\ f \in Parsers
  BY <1>2, UnusableLeaves, ForeignLeaves DEF Leaves
<1>9. Leaves(p, e) /\ Leaves(p, m)
  BY <1>2, <1>4, ReplyLeaves
<1> HIDE DEF u, f, e, m, marks
<1>10. Leaves(p, [u EXCEPT !.reply = << >>]) /\ Leaves(p, [f EXCEPT !.reply = << >>])
  <2>1. Leaves(u, [u EXCEPT !.reply = << >>]) /\ Leaves(f, [f EXCEPT !.reply = << >>])
    BY <1>2, <1>8, ReplyLeaves
  <2> QED
    BY <1>8, <2>1, LeavesTwice
<1>11. CASE Leaves(p, r)
  BY <1>11, LeavesNotes DEF Leaves
<1>12. CASE l.word \in Replies /\ r = Mail!SmtpReply(e, l.word, marks)
  <2>1. Notes(e) /\ ~e.halt /\ e.attempts = p.attempts /\ e.pending = p.pending
    BY <1>9, LeavesNotes DEF Leaves
  <2>2. /\ Notes(r) /\ r.attempts = e.attempts
        /\ r.halt => l.word = "220" /\ e.pending # << >>
    BY <1>4, <1>12, <2>1, ReplyNotes
  <2> QED
    BY <2>1, <2>2
<1> QED
  BY <1>7, <1>9, <1>10, <1>11, <1>12

(* A line the parser is given, from either side.                            *)
LEMMA ParseNotes ==
    ASSUME NEW p, Notes(p), NEW client \in BOOLEAN,
           NEW l \in SmtpLines(IF client THEN Verbs \cup {"text"} ELSE Replies \cup {"text"})
    PROVE  LET r == Mail!SmtpParse(p, l, client)
           IN  /\ Notes(r) /\ p.attempts \subseteq r.attempts
               /\ r.halt => \/ p.halt
                            \/ l.word = "220" /\ p.pending # << >>
               /\ client /\ ~p.halt /\ l.word = "AUTH" /\ l.usable => r.attempts # {}
<1> DEFINE r == Mail!SmtpParse(p, l, client)
           q == IF l.gap THEN Mail!NoteGap(p) ELSE p
<1>1. p.halt \in BOOLEAN /\ p.stopped = FALSE
  BY DEF Notes, Parsers
<1>2. CASE p.halt
  BY <1>2 DEF Mail!SmtpParse
<1>3. CASE ~p.halt
  <2>1. r = IF client THEN Mail!SmtpClientLine(q, l) ELSE Mail!SmtpServerLine(q, l)
    BY <1>1, <1>3 DEF Mail!SmtpParse
  <2>2. /\ Notes(q) /\ ~q.halt /\ q.attempts = p.attempts
        /\ q.pending # << >> => p.pending # << >>
    BY <1>3, NoteGapNotes
  <2> HIDE DEF r, q
  <2>3. CASE client
    <3>1. l \in SmtpLines(Verbs \cup {"text"}) /\ r = Mail!SmtpClientLine(q, l)
      BY <2>1, <2>3
    <3>2. /\ Notes(r) /\ ~r.halt /\ q.attempts \subseteq r.attempts
          /\ l.word = "AUTH" /\ l.usable => r.attempts # {}
      BY <2>2, <3>1, ClientLineNotes
    <3> QED
      BY <2>2, <3>2 DEF r
  <2>4. CASE ~client
    <3>1. l \in SmtpLines(Replies \cup {"text"}) /\ r = Mail!SmtpServerLine(q, l)
      BY <2>1, <2>4
    <3>2. /\ Notes(r) /\ r.attempts = q.attempts
          /\ r.halt => l.word = "220" /\ q.pending # << >>
      BY <2>2, <3>1, ServerLineNotes
    <3> QED
      BY <2>2, <2>4, <3>2 DEF r
  <2> QED
    BY <2>3, <2>4
<1> QED
  BY <1>1, <1>2, <1>3

-----------------------------------------------------------------------------
(* The inductive invariant.  A parser that halted reads no command any more *)
(* and none is sent; that is why a captured login is always noted.          *)

Truths == [login : BOOLEAN, accepted : BOOLEAN, refused : BOOLEAN,
           after : BOOLEAN, declined : BOOLEAN, heard : BOOLEAN]

ExposureFails(v) == v["CleartextLogin"] = "FAIL" \/ v["LoginBeforeUpgrade"] = "FAIL"

Exposed ==
    /\ Notes(parser)
    /\ parser.halt => phase = "tls"
    /\ phase = "greeting" => parser.pending = << >>
    /\ peer # << >> => phase = "tls"
    /\ phase = "answer" => verb \in DOMAIN Codes
    /\ phase = "sasl" => verb = "AUTH"
    /\ truth \in Truths
    /\ truth.heard => parser.attempts # {}

LoginInv ==
    /\ Exposed
    /\ Identified /\ parser.attempts # {} => ExposureFails(verdicts)

(* The lines the peers send are lines the parser is proved about.           *)
LEMMA Spoken ==
    ASSUME NEW words, NEW word \in words, NEW b \in BOOLEAN, NEW c \in BOOLEAN,
           NEW g \in BOOLEAN, NEW u \in BOOLEAN
    PROVE  /\ [Says(word) EXCEPT !.gap = g] \in SmtpLines(words)
           /\ Says(word) \in SmtpLines(words)
           /\ Says(word).word = word /\ Says(word).usable
           /\ LET l == [Says(word) EXCEPT !.offers = b]
              IN  l \in SmtpLines(words) /\ l.word = word
           /\ LET l == [Says(word) EXCEPT !.more = c, !.offers = b]
              IN  l \in SmtpLines(words) /\ l.word = word
           /\ LET l == [Says(word) EXCEPT !.usable = u, !.gap = g]
              IN  l \in SmtpLines(words) /\ l.word = word
  BY DEF Says, Mail!Line, SmtpLines

LEMMA WithGap ==
    ASSUME NEW words, NEW l \in SmtpLines(words), NEW g \in BOOLEAN
    PROVE  LET m == [l EXCEPT !.gap = g]
           IN  m \in SmtpLines(words) /\ m.word = l.word /\ m.usable = l.usable
  BY DEF SmtpLines

WordsOf(d) == IF d = "client" THEN Verbs \cup {"text"} ELSE Replies \cup {"text"}

(* A line of the dialogue, captured or missed.                              *)
LEMMA TransmitNotes ==
    ASSUME Notes(parser), NEW d \in Directions, NEW l \in SmtpLines(WordsOf(d)),
           NEW clean \in BOOLEAN, Transmit(d, l, clean)
    PROVE  /\ Notes(parser') /\ parser.attempts \subseteq parser'.attempts
           /\ parser'.halt => \/ parser.halt
                              \/ l.word = "220" /\ parser.pending # << >>
           /\ d = "client" /\ ~parser.halt /\ l.word = "AUTH" /\ l.usable /\ clean
                => parser'.attempts # {}
<1>1. CASE clean
  <2> DEFINE g == (d \in hole)
             c == (d = "client")
             m == [l EXCEPT !.gap = g]
  <2>1. parser' = Mail!SmtpParse(parser, m, c)
    BY <1>1 DEF Transmit, Captured
  <2>2. g \in BOOLEAN /\ c \in BOOLEAN
    OBVIOUS
  <2> HIDE DEF g
  <2>3. /\ m \in SmtpLines(WordsOf(d)) /\ m.word = l.word /\ m.usable = l.usable
    BY <2>2, WithGap
  <2> HIDE DEF m
  <2>4. m \in SmtpLines(IF c THEN Verbs \cup {"text"} ELSE Replies \cup {"text"})
    BY <2>3 DEF WordsOf
  <2> HIDE DEF c
  <2>5. /\ Notes(parser') /\ parser.attempts \subseteq parser'.attempts
        /\ parser'.halt => \/ parser.halt
                           \/ m.word = "220" /\ parser.pending # << >>
        /\ c /\ ~parser.halt /\ m.word = "AUTH" /\ m.usable => parser'.attempts # {}
    BY <2>1, <2>2, <2>4, ParseNotes
  <2> QED
    BY <2>3, <2>5 DEF c
<1>2. CASE ~clean
  <2>1. parser' = parser
    BY <1>2 DEF Transmit, Missed
  <2> QED
    BY <1>2, <2>1
<1> QED
  BY <1>1, <1>2

(* What the evidence of a session says of its logins is what the parser     *)
(* noted.                                                                   *)
LEMMA EvidenceOfLogin ==
    /\ Evidence.attempts = parser.attempts /\ Evidence.upgrade = Upgrade
    /\ Identified => Evidence.status \in {"CONFIRMED", "PROBABLE"}
<1>1. Identified => Mail!DetectionStatus(parser) \in {"CONFIRMED", "PROBABLE"}
  BY DEF Identified, Mail!DetectionStatus
<1> DEFINE s == IF Identified THEN Mail!DetectionStatus(parser) ELSE "PORT_HINT"
<1>2. /\ MailEvidence.attempts = parser.attempts /\ MailEvidence.upgrade = Upgrade
      /\ MailEvidence.status = s
      /\ {"attempts", "status", "upgrade"} \subseteq DOMAIN MailEvidence
  BY DEF MailEvidence
<1>3. \A f \in DOMAIN MailEvidence : Evidence[f] = MailEvidence[f]
  BY DEF Evidence
<1> QED
  BY <1>1, <1>2, <1>3

(* Whatever else the evidence holds.                                        *)
LEMMA LoginFails ==
    ASSUME NEW e, e.status \in {"CONFIRMED", "PROBABLE"}, e.attempts # {},
           e.attempts \subseteq Early
    PROVE  ExposureFails(Verdicts(e))
<1>1. "CleartextLogin" \in Rules /\ "LoginBeforeUpgrade" \in Rules
  BY RuleNames
<1>2. /\ Verdicts(e)["CleartextLogin"] = CleartextLogin(e)
      /\ Verdicts(e)["LoginBeforeUpgrade"] = LoginBeforeUpgrade(e)
  BY <1>1 DEF Verdicts, Evaluate
<1>3. CASE ~Succeeded(e)
  <2>1. CleartextLogin(e) = "FAIL"
    BY <1>3 DEF CleartextLogin, MailRule, Outcome
  <2> QED
    BY <1>2, <2>1 DEF ExposureFails
<1>4. CASE Succeeded(e)
  <2>1. PICK state \in e.attempts : state \in Early
    OBVIOUS
  <2>2. state \notin {"UPGRADE_ACCEPTED", "TLS_BYTES_OBSERVED"}
    BY <2>1 DEF Early
  <2>3. LoginBeforeUpgrade(e) = "FAIL"
    BY <1>4, <2>1, <2>2 DEF LoginBeforeUpgrade, MailRule, Outcome
  <2> QED
    BY <1>2, <2>3 DEF ExposureFails
<1> QED
  BY <1>3, <1>4

(* A noted login in an identified dialogue fails one of the two login       *)
(* rules.                                                                   *)
LEMMA ExposureIsJudged ==
    Notes(parser) /\ Identified /\ parser.attempts # {} => ExposureFails(Verdicts(Evidence))
<1> SUFFICES ASSUME Notes(parser), Identified, parser.attempts # {}
             PROVE  ExposureFails(Verdicts(Evidence))
  OBVIOUS
<1>1. parser.attempts \subseteq Early
  BY DEF Notes, Parsers
<1> QED
  BY <1>1, EvidenceOfLogin, LoginFails

(* The same of the state after a step.                                      *)
LEMMA ExposureIsJudgedNext ==
    (Notes(parser) /\ Identified /\ parser.attempts # {}
       => ExposureFails(Verdicts(Evidence)))'
  BY ExposureIsJudged, PTL

(* A line of the dialogue starts no handshake.                              *)
LEMMA TransmitPeer ==
    ASSUME NEW d, NEW l, NEW clean, Transmit(d, l, clean)
    PROVE  peer' = peer
  BY DEF Transmit, tls

(* The greeting finds nothing outstanding, so it accepts nothing.           *)
LEMMA GreetExposed ==
    ASSUME Exposed, Greet
    PROVE  Exposed'
<1>1. PICK clean \in BOOLEAN : Transmit("server", Says("220"), clean)
  BY DEF Greet
<1>2. /\ phase = "greeting" /\ phase' = "idle" /\ verb' = verb /\ truth' = truth
      /\ peer' = << >>
  BY <1>1, TransmitPeer DEF Greet, Exposed
<1> DEFINE l == Says("220")
<1>3. l \in SmtpLines(WordsOf("server"))
  BY Spoken DEF WordsOf, Replies
<1>4. /\ Notes(parser') /\ parser.attempts \subseteq parser'.attempts
      /\ parser'.halt => parser.halt \/ parser.pending # << >>
  <2> HIDE DEF l
  <2>1. Transmit("server", l, clean) /\ "server" \in Directions /\ Notes(parser)
    BY <1>1 DEF l, Directions, Exposed
  <2> QED
    BY <1>3, <2>1, TransmitNotes
<1> QED
  BY <1>2, <1>4 DEF Exposed

(* A command is sent only before the end of the dialogue: the parser reads  *)
(* it, and a login is noted.                                                *)
LEMMA CommandExposed ==
    ASSUME Exposed, Command
    PROVE  Exposed'
<1>1. PICK word \in {"EHLO", "STARTTLS", "AUTH", "NOOP"}, clean \in BOOLEAN :
          /\ verb' = word
          /\ Transmit("client", Says(word), clean)
          /\ truth' = [truth EXCEPT !.login = @ \/ word = "AUTH",
                                    !.heard = @ \/ (word = "AUTH" /\ clean),
                                    !.after = @ \/ (truth.refused /\ clean)]
  BY DEF Command
<1>2. phase = "idle" /\ phase' = "answer" /\ ~parser.halt /\ peer' = << >>
  BY <1>1, TransmitPeer DEF Command, Exposed
<1> DEFINE l == Says(word)
<1>3. l \in SmtpLines(WordsOf("client")) /\ l.word = word /\ l.usable
  <2>1. word \in WordsOf("client")
    BY DEF WordsOf, Verbs
  <2> QED
    BY <2>1, Spoken
<1>4. /\ Notes(parser') /\ parser.attempts \subseteq parser'.attempts
      /\ ~parser'.halt
      /\ word = "AUTH" /\ clean => parser'.attempts # {}
  <2> HIDE DEF l
  <2>1. Transmit("client", l, clean) /\ "client" \in Directions /\ Notes(parser)
    BY <1>1 DEF l, Directions, Exposed
  <2>2. l.word # "220"
    BY <1>3
  <2> QED
    BY <1>2, <1>3, <2>1, <2>2, TransmitNotes
<1>5. truth \in Truths
  BY DEF Exposed
<1>6. truth' \in Truths /\ truth'.heard = (truth.heard \/ (word = "AUTH" /\ clean))
  BY <1>1, <1>5 DEF Truths
<1>7. truth'.heard => parser'.attempts # {}
  BY <1>4, <1>6 DEF Exposed
<1>8. verb' \in DOMAIN Codes
  BY <1>1 DEF Codes
<1> QED
  BY <1>2, <1>4, <1>6, <1>7, <1>8 DEF Exposed

(* A line that cannot accept the upgrade.                                   *)
LEMMA OtherLineExposed ==
    ASSUME Exposed, NEW d \in Directions, NEW l \in SmtpLines(WordsOf(d)),
           NEW clean \in BOOLEAN, Transmit(d, l, clean), l.word # "220",
           truth' \in Truths, truth'.heard = truth.heard, phase # "tls",
           phase' # "greeting",
           phase' = "answer" => verb' \in DOMAIN Codes,
           phase' = "sasl" => verb' = "AUTH"
    PROVE  Exposed'
<1>1. Notes(parser)
  BY DEF Exposed
<1>2. /\ Notes(parser') /\ parser.attempts \subseteq parser'.attempts
      /\ parser'.halt => parser.halt
  BY <1>1, TransmitNotes
<1>3. ~parser.halt /\ (truth.heard => parser.attempts # {}) /\ peer' = << >>
  BY TransmitPeer DEF Exposed
<1> QED
  BY <1>2, <1>3 DEF Exposed

(* A continuation line of an EHLO reply.                                    *)
LEMMA ContinueExposed ==
    ASSUME Exposed, Continue
    PROVE  Exposed'
<1>1. PICK offers \in BOOLEAN, clean \in BOOLEAN :
          /\ verb' = IF offers \/ verb = "offered" THEN "offered" ELSE "extensions"
          /\ Transmit("server", [Says("250") EXCEPT !.more = TRUE, !.offers = offers], clean)
  BY DEF Continue
<1>2. phase = "answer" /\ phase' = "answer" /\ truth' = truth /\ truth \in Truths
  BY DEF Continue, Exposed
<1> DEFINE l == [Says("250") EXCEPT !.more = TRUE, !.offers = offers]
<1>3. l \in SmtpLines(WordsOf("server")) /\ l.word = "250"
  <2>1. "250" \in WordsOf("server")
    BY DEF WordsOf, Replies
  <2> QED
    BY <2>1, Spoken
<1>4. verb' \in DOMAIN Codes
  BY <1>1 DEF Codes
<1>5. Transmit("server", l, clean) /\ "server" \in Directions
  BY <1>1 DEF Directions
<1> HIDE DEF l
<1>6. l.word # "220"
  BY <1>3
<1> QED
  BY <1>2, <1>3, <1>4, <1>5, <1>6, OtherLineExposed

(* The challenge to a login, and the response to it.                        *)
LEMMA ChallengeExposed ==
    ASSUME Exposed, Challenge
    PROVE  Exposed'
<1>1. PICK clean \in BOOLEAN : Transmit("server", Says("334"), clean)
  BY DEF Challenge
<1>2. /\ phase = "answer" /\ phase' = "sasl" /\ truth' = truth /\ truth \in Truths
      /\ verb = "AUTH" /\ verb' = verb
  BY DEF Challenge, Exposed
<1>3. Says("334") \in SmtpLines(WordsOf("server")) /\ Says("334").word = "334"
  <2>1. "334" \in WordsOf("server")
    BY DEF WordsOf, Replies
  <2> QED
    BY <2>1, Spoken
<1> DEFINE l == Says("334")
<1>4. Transmit("server", l, clean) /\ "server" \in Directions
  BY <1>1 DEF Directions
<1>5. l \in SmtpLines(WordsOf("server")) /\ l.word # "220"
  BY <1>3
<1> HIDE DEF l
<1> QED
  BY <1>2, <1>4, <1>5, OtherLineExposed

LEMMA RespondExposed ==
    ASSUME Exposed, Respond
    PROVE  Exposed'
<1>1. PICK clean \in BOOLEAN : Transmit("client", Says("text"), clean)
  BY DEF Respond
<1>2. /\ phase = "sasl" /\ phase' = "answer" /\ truth' = truth /\ truth \in Truths
      /\ verb = "AUTH" /\ verb' = verb
  BY DEF Respond, Exposed
<1>3. Says("text") \in SmtpLines(WordsOf("client")) /\ Says("text").word = "text"
  <2>1. "text" \in WordsOf("client")
    BY DEF WordsOf
  <2> QED
    BY <2>1, Spoken
<1> DEFINE l == Says("text")
<1>4. Transmit("client", l, clean) /\ "client" \in Directions
  BY <1>1 DEF Directions
<1>5. l \in SmtpLines(WordsOf("client")) /\ l.word # "220"
  BY <1>3
<1>6. verb' \in DOMAIN Codes
  BY <1>2 DEF Codes
<1> HIDE DEF l
<1> QED
  BY <1>2, <1>4, <1>5, <1>6, OtherLineExposed

(* The final answer: the acceptance ends the dialogue, any other goes on    *)
(* with it.                                                                 *)
LEMMA AnswerExposed ==
    ASSUME Exposed, Answer
    PROVE  Exposed'
<1>1. PICK code \in Codes[verb], clean \in BOOLEAN,
           offers \in (IF verb \in {"extensions", "offered"} THEN BOOLEAN ELSE {FALSE}) :
          /\ Transmit("server", [Says(code) EXCEPT !.offers = offers], clean)
          /\ phase' = IF code = "220" THEN "tls" ELSE "idle"
          /\ truth' = [truth EXCEPT !.accepted = @ \/ code = "220",
                                    !.refused = @ \/ code = "454",
                                    !.declined = @ \/ (verb = "extensions" /\ ~offers)]
  BY DEF Answer
<1>2. phase = "answer" /\ truth \in Truths /\ verb \in DOMAIN Codes
  BY DEF Answer, Exposed
<1>3. truth' \in Truths /\ truth'.heard = truth.heard
  BY <1>1, <1>2 DEF Truths
<1>4. code \in Replies
  BY <1>2 DEF Codes, Replies
<1> DEFINE l == [Says(code) EXCEPT !.offers = offers]
<1>5. l \in SmtpLines(WordsOf("server")) /\ l.word = code
  <2>1. code \in WordsOf("server")
    BY <1>4 DEF WordsOf
  <2>2. offers \in BOOLEAN
    OBVIOUS
  <2> QED
    BY <2>1, <2>2, Spoken
<1>6. Transmit("server", l, clean) /\ "server" \in Directions
  BY <1>1 DEF Directions
<1> HIDE DEF l
<1>7. CASE code = "220"
  <2>1. Notes(parser) /\ (truth.heard => parser.attempts # {})
    BY DEF Exposed
  <2>2. Notes(parser') /\ parser.attempts \subseteq parser'.attempts
    BY <1>5, <1>6, <2>1, TransmitNotes
  <2>3. phase' = "tls"
    BY <1>1, <1>7
  <2> QED
    BY <1>3, <2>1, <2>2, <2>3 DEF Exposed
<1>8. CASE code # "220"
  <2>1. phase' = "idle" /\ l.word # "220"
    BY <1>1, <1>5, <1>8
  <2> QED
    BY <1>2, <1>3, <1>5, <1>6, <2>1, OtherLineExposed
<1> QED
  BY <1>7, <1>8

(* The start of a handshake leaves the parser alone.                        *)
LEMMA StartExposed ==
    ASSUME Exposed, StartImplicit \/ StartUpgraded
    PROVE  Exposed'
<1>1. /\ truth' = truth /\ parser' = parser /\ verb' = verb
      /\ phase' = "tls"
  BY DEF StartImplicit, StartUpgraded, StartTls, mail
<1> QED
  BY <1>1 DEF Exposed

(* A record of TLS that the parser takes for lines is none it knows.        *)
LEMMA SendRecordExposed ==
    ASSUME Exposed, SendRecord
    PROVE  Exposed'
<1>1. /\ phase' = phase /\ verb' = verb /\ truth' = truth /\ peer' = peer
      /\ phase = "tls"
  BY DEF SendRecord, Exposed
<1>2. PICK d : RecordRead(d) \/ RecordMissed(d)
  BY Zenon DEF SendRecord
<1>3. CASE parser' = parser
  BY <1>1, <1>3 DEF Exposed
<1>4. ASSUME NEW usable \in BOOLEAN, ~parser.halt,
             parser' = Mail!SmtpParse(parser,
                          [Says("text") EXCEPT !.usable = usable, !.gap = d \in hole],
                          d = "client")
      PROVE  Exposed'
  <2> DEFINE g == (d \in hole)
             c == (d = "client")
             l == [Says("text") EXCEPT !.usable = usable, !.gap = g]
             words == IF c THEN Verbs \cup {"text"} ELSE Replies \cup {"text"}
  <2>1. g \in BOOLEAN /\ c \in BOOLEAN /\ "text" \in words
    OBVIOUS
  <2>2. parser' = Mail!SmtpParse(parser, l, c)
    BY <1>4
  <2> HIDE DEF g, c
  <2>3. l \in SmtpLines(words) /\ l.word = "text"
    BY <2>1, Spoken
  <2>4. Notes(parser)
    BY DEF Exposed
  <2> HIDE DEF l
  <2>5. /\ Notes(parser') /\ parser.attempts \subseteq parser'.attempts
        /\ parser'.halt => parser.halt \/ l.word = "220"
    BY <2>1, <2>2, <2>3, <2>4, ParseNotes
  <2> QED
    BY <1>1, <2>5 DEF Exposed
<1>5. CASE RecordMissed(d)
  BY <1>3, <1>5 DEF RecordMissed
<1>6. CASE RecordRead(d)
  <2>1. \/ parser' = parser
        \/ /\ ~parser.halt
           /\ \E usable \in BOOLEAN :
                 parser' = Mail!SmtpParse(parser,
                              [Says("text") EXCEPT !.usable = usable, !.gap = d \in hole],
                              d = "client")
    BY <1>6, Zenon DEF RecordRead
  <2> QED
    BY <1>3, <1>4, <2>1
<1> QED
  BY <1>2, <1>5, <1>6

(* The invariant holds at first.                                            *)
LEMMA InitLogin ==
    ASSUME Init
    PROVE  LoginInv
<1>1. /\ parser = Mail!NewParser /\ phase \in {"greeting", "idle"} /\ peer = << >>
      /\ truth = NoTruth
  BY DEF Init
<1>2. DOMAIN << >> = {} /\ << >> \in Seq(Entries) /\ << >> \in Seq(BOOLEAN)
  OBVIOUS
<1>3. Notes(Mail!NewParser) /\ ~Mail!NewParser.halt /\ Mail!NewParser.pending = << >>
      /\ Mail!NewParser.attempts = {}
  <2>1. Mail!NewParser \in Parsers
    BY <1>2 DEF Mail!NewParser, Parsers
  <2> QED
    BY <1>2, <2>1 DEF Mail!NewParser, Notes
<1>4. truth \in Truths /\ ~truth.heard
  BY <1>1 DEF NoTruth, Truths
<1>5. Exposed
  BY <1>1, <1>3, <1>4 DEF Exposed
<1> QED
  BY <1>1, <1>3, <1>5 DEF LoginInv

(* Every step keeps the invariant; the judgement is made anew in each.      *)
LEMMA StepLogin ==
    ASSUME LoginInv, [Next]_vars
    PROVE  LoginInv'
<1>1. CASE UNCHANGED vars
  <2>1. /\ phase' = phase /\ truth' = truth /\ parser' = parser /\ verb' = verb
        /\ peer' = peer /\ verdicts' = verdicts
    BY <1>1 DEF vars, mail, tls
  <2> QED
    BY <2>1 DEF LoginInv, Exposed, Identified
<1>2. CASE Next
  <2>1. Step /\ \E e \in {Evidence'} : verdicts' = Verdicts(e)
    BY <1>2 DEF Next
  <2>2. Exposed
    BY DEF LoginInv
  <2>4. Exposed'
    BY <2>1, <2>2, GreetExposed, CommandExposed, ContinueExposed, ChallengeExposed,
       RespondExposed, AnswerExposed, StartExposed, SendRecordExposed DEF Step
  <2>5. Notes(parser')
    BY <2>4 DEF Exposed
  <2>6. Identified' /\ parser'.attempts # {} => ExposureFails(verdicts')
    <3>1. verdicts' = Verdicts(Evidence')
      BY <2>1
    <3>2. Identified' /\ parser'.attempts # {} => ExposureFails(Verdicts(Evidence'))
      BY <2>5, ExposureIsJudgedNext
    <3> QED
      BY <3>1, <3>2
  <2> QED
    BY <2>4, <2>6 DEF LoginInv
<1> QED
  BY <1>1, <1>2

(* The failure of one rule is the failure of its group.                     *)
LEMMA ExposureIsUnit ==
    ASSUME ExposureFails(verdicts)
    PROVE  UnitOutcome(Judgement(DefaultPolicy), "PLAINTEXT_AUTH") = "FAIL"
<1> DEFINE results == Judgement(DefaultPolicy)
<1>1. results = [r \in Rules |-> verdicts[r]]
  BY DEF Judgement, Results, DefaultPolicy, Policy
<1>2. /\ "CleartextLogin" \in Rules /\ "LoginBeforeUpgrade" \in Rules
      /\ Catalogue["CleartextLogin"].group = "PLAINTEXT_AUTH"
      /\ Catalogue["LoginBeforeUpgrade"].group = "PLAINTEXT_AUTH"
  <2>1. ASSUME NEW r \in {"CleartextLogin", "LoginBeforeUpgrade"}
        PROVE  r \in Rules /\ Catalogue[r].group = "PLAINTEXT_AUTH"
    <3>1. r \in Rules
      BY RuleNames
    <3>2. r \in DOMAIN MailCatalogue /\ r \notin DOMAIN CertificateCatalogue
      BY DEF MailCatalogue, CertificateCatalogue
    <3>3. /\ r \notin DOMAIN CipherCatalogue /\ r \notin DOMAIN KeyExchangeCatalogue
          /\ r \notin DOMAIN ProtocolCatalogue
      BY DEF CipherCatalogue, KeyExchangeCatalogue, ProtocolCatalogue
    <3>4. Catalogue[r] = MailCatalogue[r]
      BY <3>1, <3>2, <3>3 DEF Catalogue
    <3>5. MailCatalogue[r].group = "PLAINTEXT_AUTH"
      BY DEF MailCatalogue, Rule
    <3> QED
      BY <3>1, <3>4, <3>5
  <2> QED
    BY <2>1
<1> HIDE DEF results
<1>3. \E r \in Rules : results[r] = "FAIL" /\ Catalogue[r].group = "PLAINTEXT_AUTH"
  BY <1>1, <1>2 DEF ExposureFails
<1>4. DOMAIN results = Rules
  BY <1>1
<1>5. Members(results, "PLAINTEXT_AUTH", "FAIL") # {}
  BY <1>3, <1>4 DEF Members, With
<1> QED
  BY <1>5, FailedUnits DEF results

(* A login that was captured in the clear is a finding whatever else the    *)
(* capture missed and however the session went on, for any bounds on the    *)
(* session and any limits of the parser.                                    *)
THEOREM LoginIsReportedHolds == Spec => []LoginIsReported
<1>1. LoginInv => LoginIsReported
  BY ExposureIsUnit DEF LoginInv, Exposed, LoginIsReported
<1> QED
  BY <1>1, InitLogin, StepLogin, PTL DEF Spec
-----------------------------------------------------------------------------
(* The weight of a critical finding.  Under the default policy a rule has   *)
(* the weight of its severity, and what compute_score sums up is a running  *)
(* total of what each rule lends.                                           *)

(* The default policy overrides no weight.                                  *)
LEMMA DefaultWeights ==
    \A r \in Rules : WeightFor(DefaultPolicy, r) = SeverityWeight[Catalogue[r].severity]
<1>1. DOMAIN << >> = {}
  OBVIOUS
<1> QED
  BY <1>1 DEF WeightFor, SeverityFor, DefaultPolicy, Policy

Lends(results, outcomes, r) ==
    LET g == Catalogue[r].group
        outcome == UnitOutcome(results, g)
    IN  outcome \in outcomes /\ r = Representative(results, DefaultPolicy, g, outcome)

Share(results, outcomes, r) ==
    IF Lends(results, outcomes, r) THEN WeightFor(DefaultPolicy, r) ELSE 0

Running(results, outcomes, f) ==
    f = [i \in 0..Len(InOrder) |->
            IF i = 0 THEN 0 ELSE f[i - 1] + Share(results, outcomes, InOrder[i])]

(* A share is nothing or the weight of the severity.                        *)
LEMMA SharesAreNumbers ==
    ASSUME NEW results, NEW outcomes, NEW r \in Rules
    PROVE  Share(results, outcomes, r) \in {0, SeverityWeight[Catalogue[r].severity]}
           /\ Share(results, outcomes, r) \in Nat
<1>1. SeverityWeight[Catalogue[r].severity] \in Nat
  BY SeverityOfRule DEF Severities, SeverityWeight
<1> QED
  BY <1>1, DefaultWeights DEF Share

(* The running total is a table.                                            *)
LEMMA RunningExists ==
    ASSUME NEW results, NEW outcomes
    PROVE  \E f : Running(results, outcomes, f)
<1> DEFINE step == [p \in (1..25) \X Nat |-> p[2] + Share(results, outcomes, InOrder[p[1]])]
<1>1. ASSUME NEW i \in 1..25 PROVE Share(results, outcomes, InOrder[i]) \in Nat
  BY Places, SharesAreNumbers
<1>2. step \in [(1..25) \X Nat -> Nat]
  BY <1>1
<1>3. \A i \in 1..25, n \in Nat : step[<<i, n>>] = n + Share(results, outcomes, InOrder[i])
  OBVIOUS
<1> HIDE DEF step
<1>4. PICK f : Iterates(f, 25, Nat, 0, step)
  BY <1>2, Iteration
<1>5. /\ f \in [0..25 -> Nat] /\ f[0] = 0
      /\ \A i \in 1..25 : f[i] = step[<<i, f[i - 1]>>]
  BY <1>4 DEF Iterates
<1>6. ASSUME NEW i \in 0..25
      PROVE  f[i] = IF i = 0 THEN 0 ELSE f[i - 1] + Share(results, outcomes, InOrder[i])
  <2>1. CASE i = 0
    BY <1>5, <2>1
  <2>2. CASE i # 0
    <3>1. i \in 1..25 /\ i - 1 \in 0..25
      BY <2>2
    <3>2. f[i - 1] \in Nat
      BY <1>5, <3>1
    <3> QED
      BY <1>3, <1>5, <2>2, <3>1, <3>2
  <2> QED
    BY <2>1, <2>2
<1>7. f = [i \in 0..25 |-> IF i = 0 THEN 0
                           ELSE f[i - 1] + Share(results, outcomes, InOrder[i])]
  BY <1>5, <1>6
<1> QED
  BY <1>7, Places DEF Running

(* What compute_score sums up is the last of the running totals.            *)
LEMMA WeightIsRunning ==
    ASSUME NEW results, NEW outcomes
    PROVE  \E f : /\ WeightOf(results, DefaultPolicy, outcomes) = f[25]
                  /\ f[0] = 0
                  /\ \A i \in 1..25 : f[i] = f[i - 1] + Share(results, outcomes, InOrder[i])
<1> DEFINE total[i \in 0..Len(InOrder)] ==
               IF i = 0 THEN 0
               ELSE total[i - 1] + Share(results, outcomes, InOrder[i])
<1>1. Running(results, outcomes, total)
  <2>1. PICK f : Running(results, outcomes, f)
    BY RunningExists
  <2>2. f = [i \in 0..Len(InOrder) |->
                IF i = 0 THEN 0 ELSE f[i - 1] + Share(results, outcomes, InOrder[i])]
    BY <2>1 DEF Running
  <2> QED
    BY <2>2 DEF Running
<1>2. WeightOf(results, DefaultPolicy, outcomes) = total[Len(InOrder)]
  BY DEF WeightOf, Share, Lends
<1> HIDE DEF total
<1>3. total = [i \in 0..25 |->
                 IF i = 0 THEN 0 ELSE total[i - 1] + Share(results, outcomes, InOrder[i])]
  BY <1>1, Places DEF Running
<1>4. total[0] = 0
  BY <1>3
<1>5. \A i \in 1..25 : total[i] = total[i - 1] + Share(results, outcomes, InOrder[i])
  BY <1>3
<1> QED
  BY <1>2, <1>4, <1>5, Places

(* Of the rules that judge the cipher at most one lends its weight; the     *)
(* others together cannot weigh more than 81.                               *)
Ciphers == {"NullCipher", "AnonymousCipher", "BrokenCipher", "SmallBlockCipher",
            "UnapprovedCipher"}

MostOf ==
    [Expired |-> 6, NotYetValid |-> 6, WeakKey |-> 6, WeakSignature |-> 6,
     UntrustedChain |-> 6, WrongName |-> 6, WrongUsage |-> 3, CleartextLogin |-> 10,
     LoginBeforeUpgrade |-> 6, UpgradeRefused |-> 3, UpgradeNotFollowed |-> 1,
     PlaintextContinued |-> 6, UpgradeNotOffered |-> 3, ImplicitTls |-> 0,
     NullCipher |-> 10, AnonymousCipher |-> 10, BrokenCipher |-> 6,
     SmallBlockCipher |-> 3, UnapprovedCipher |-> 3, UnknownCipher |-> 0,
     ForwardSecrecy |-> 6, HybridGroup |-> 0, NegotiatedVersion |-> 6,
     OfferedVersions |-> 0, NegotiationOutcome |-> 1]

(* No rule is in two of the catalogues, so each is looked up in its own.    *)
LEMMA ByCatalogue ==
    ASSUME NEW r \in Rules
    PROVE  Catalogue[r] = IF r \in DOMAIN CertificateCatalogue THEN CertificateCatalogue[r]
                          ELSE IF r \in DOMAIN MailCatalogue THEN MailCatalogue[r]
                          ELSE IF r \in DOMAIN CipherCatalogue THEN CipherCatalogue[r]
                          ELSE IF r \in DOMAIN KeyExchangeCatalogue THEN KeyExchangeCatalogue[r]
                          ELSE ProtocolCatalogue[r]
<1>1. /\ \A q \in DOMAIN CertificateCatalogue : q \notin DOMAIN MailCatalogue
      /\ \A q \in DOMAIN CertificateCatalogue : q \notin DOMAIN CipherCatalogue
      /\ \A q \in DOMAIN CertificateCatalogue : q \notin DOMAIN KeyExchangeCatalogue
      /\ \A q \in DOMAIN CertificateCatalogue : q \notin DOMAIN ProtocolCatalogue
  BY DEF CertificateCatalogue, MailCatalogue, CipherCatalogue, KeyExchangeCatalogue,
         ProtocolCatalogue
<1>2. /\ \A q \in DOMAIN MailCatalogue : q \notin DOMAIN CipherCatalogue
      /\ \A q \in DOMAIN MailCatalogue : q \notin DOMAIN KeyExchangeCatalogue
      /\ \A q \in DOMAIN MailCatalogue : q \notin DOMAIN ProtocolCatalogue
  BY DEF MailCatalogue, CipherCatalogue, KeyExchangeCatalogue, ProtocolCatalogue
<1>3. /\ \A q \in DOMAIN CipherCatalogue : q \notin DOMAIN KeyExchangeCatalogue
      /\ \A q \in DOMAIN CipherCatalogue : q \notin DOMAIN ProtocolCatalogue
      /\ \A q \in DOMAIN KeyExchangeCatalogue : q \notin DOMAIN ProtocolCatalogue
  BY DEF CipherCatalogue, KeyExchangeCatalogue, ProtocolCatalogue
<1> QED
  BY <1>1, <1>2, <1>3 DEF Catalogue, Rules

(* The weights of the rules, by name.                                       *)
LEMMA WeightsOfRules == \A r \in Rules : SeverityWeight[Catalogue[r].severity] = MostOf[r]
<1>1. \A r \in DOMAIN CertificateCatalogue :
         SeverityWeight[CertificateCatalogue[r].severity] = MostOf[r]
  BY DEF CertificateCatalogue, SeverityWeight, MostOf, Rule
<1>2. \A r \in DOMAIN MailCatalogue : SeverityWeight[MailCatalogue[r].severity] = MostOf[r]
  BY DEF MailCatalogue, SeverityWeight, MostOf, Rule
<1>3. \A r \in DOMAIN CipherCatalogue : SeverityWeight[CipherCatalogue[r].severity] = MostOf[r]
  BY DEF CipherCatalogue, SeverityWeight, MostOf, Rule
<1>4. \A r \in DOMAIN KeyExchangeCatalogue :
         SeverityWeight[KeyExchangeCatalogue[r].severity] = MostOf[r]
  BY DEF KeyExchangeCatalogue, SeverityWeight, MostOf, Rule
<1>5. \A r \in DOMAIN ProtocolCatalogue :
         SeverityWeight[ProtocolCatalogue[r].severity] = MostOf[r]
  BY DEF ProtocolCatalogue, SeverityWeight, MostOf, Rule
<1> QED
  BY <1>1, <1>2, <1>3, <1>4, <1>5, ByCatalogue DEF Rules

(* The rules that judge the cipher are one group, and a group lends only    *)
(* the weight of its representative.                                        *)
LEMMA CiphersAreOneGroup ==
    \A r \in Ciphers : r \in Rules /\ Catalogue[r].group = "CIPHER_SUITE"
<1>1. ASSUME NEW r \in Ciphers
      PROVE  /\ r \in DOMAIN CipherCatalogue /\ CipherCatalogue[r].group = "CIPHER_SUITE"
             /\ r \notin DOMAIN CertificateCatalogue /\ r \notin DOMAIN MailCatalogue
  BY DEF Ciphers, CipherCatalogue, CertificateCatalogue, MailCatalogue, Rule
<1>2. ASSUME NEW r \in Ciphers PROVE r \in Rules
  BY RuleNames DEF Ciphers
<1> QED
  BY <1>1, <1>2, ByCatalogue

LEMMA OneCipherLends ==
    ASSUME NEW results, NEW outcomes, NEW r \in Ciphers, NEW q \in Ciphers, r # q
    PROVE  Share(results, outcomes, r) = 0 \/ Share(results, outcomes, q) = 0
  BY CiphersAreOneGroup DEF Share, Lends

(* The total, written out in the order of the rules.                        *)
CertificatePart(x) ==
    x["Expired"] + x["NotYetValid"] + x["WeakKey"] + x["WeakSignature"]
      + x["UntrustedChain"] + x["WrongName"] + x["WrongUsage"]
MailPart(x) ==
    x["CleartextLogin"] + x["LoginBeforeUpgrade"] + x["UpgradeRefused"]
      + x["UpgradeNotFollowed"] + x["PlaintextContinued"]
      + x["UpgradeNotOffered"] + x["ImplicitTls"]
CipherPart(x) ==
    x["NullCipher"] + x["AnonymousCipher"] + x["BrokenCipher"]
      + x["SmallBlockCipher"] + x["UnapprovedCipher"] + x["UnknownCipher"]
OtherPart(x) ==
    x["ForwardSecrecy"] + x["HybridGroup"] + x["NegotiatedVersion"]
      + x["OfferedVersions"] + x["NegotiationOutcome"]
Total(x) == CertificatePart(x) + MailPart(x) + CipherPart(x) + OtherPart(x)

(* The weight of a set of outcomes is the total of the shares.              *)
LEMMA WeightIsTotal ==
    ASSUME NEW results, NEW outcomes
    PROVE  WeightOf(results, DefaultPolicy, outcomes)
             = Total([r \in Rules |-> Share(results, outcomes, r)])
<1> DEFINE x == [r \in Rules |-> Share(results, outcomes, r)]
<1>1. PICK f : /\ WeightOf(results, DefaultPolicy, outcomes) = f[25]
               /\ f[0] = 0
               /\ \A i \in 1..25 : f[i] = f[i - 1] + Share(results, outcomes, InOrder[i])
  BY WeightIsRunning
<1>2. \A r \in Rules : x[r] \in Nat /\ x[r] = Share(results, outcomes, r)
  BY SharesAreNumbers
<1>3. ASSUME NEW i \in 1..25 PROVE f[i] = f[i - 1] + x[InOrder[i]]
  BY <1>1, <1>2, Places
<1> HIDE DEF x
<1>4. /\ "Expired" \in Rules /\ "NotYetValid" \in Rules /\ "WeakKey" \in Rules
      /\ "WeakSignature" \in Rules /\ "UntrustedChain" \in Rules /\ "WrongName" \in Rules
      /\ "WrongUsage" \in Rules /\ "CleartextLogin" \in Rules /\ "LoginBeforeUpgrade" \in Rules
      /\ "UpgradeRefused" \in Rules /\ "UpgradeNotFollowed" \in Rules
      /\ "PlaintextContinued" \in Rules
      /\ "UpgradeNotOffered" \in Rules /\ "ImplicitTls" \in Rules /\ "NullCipher" \in Rules
      /\ "AnonymousCipher" \in Rules /\ "BrokenCipher" \in Rules /\ "SmallBlockCipher" \in Rules
      /\ "UnapprovedCipher" \in Rules /\ "UnknownCipher" \in Rules /\ "ForwardSecrecy" \in Rules
      /\ "HybridGroup" \in Rules /\ "NegotiatedVersion" \in Rules /\ "OfferedVersions" \in Rules
      /\ "NegotiationOutcome" \in Rules
  BY RuleNames
<1>5. /\ f[5] \in Nat
      /\ f[5] = f[0] + x["Expired"] + x["NotYetValid"]
                     + x["WeakKey"] + x["WeakSignature"] + x["UntrustedChain"]
  <2>1. /\ f[1] = f[0] + x["Expired"]
        /\ f[2] = f[1] + x["NotYetValid"]
        /\ f[3] = f[2] + x["WeakKey"]
        /\ f[4] = f[3] + x["WeakSignature"]
        /\ f[5] = f[4] + x["UntrustedChain"]
    BY <1>3 DEF InOrder
  <2> QED
    BY <1>1, <1>2, <1>4, <2>1
<1>6. /\ f[10] \in Nat
      /\ f[10] = f[5] + x["WrongName"] + x["WrongUsage"]
                     + x["CleartextLogin"] + x["LoginBeforeUpgrade"] + x["UpgradeRefused"]
  <2>1. /\ f[6] = f[5] + x["WrongName"]
        /\ f[7] = f[6] + x["WrongUsage"]
        /\ f[8] = f[7] + x["CleartextLogin"]
        /\ f[9] = f[8] + x["LoginBeforeUpgrade"]
        /\ f[10] = f[9] + x["UpgradeRefused"]
    BY <1>3 DEF InOrder
  <2> QED
    BY <1>5, <1>2, <1>4, <2>1
<1>7. /\ f[15] \in Nat
      /\ f[15] = f[10] + x["UpgradeNotFollowed"] + x["PlaintextContinued"]
                     + x["UpgradeNotOffered"] + x["ImplicitTls"] + x["NullCipher"]
  <2>1. /\ f[11] = f[10] + x["UpgradeNotFollowed"]
        /\ f[12] = f[11] + x["PlaintextContinued"]
        /\ f[13] = f[12] + x["UpgradeNotOffered"]
        /\ f[14] = f[13] + x["ImplicitTls"]
        /\ f[15] = f[14] + x["NullCipher"]
    BY <1>3 DEF InOrder
  <2> QED
    BY <1>6, <1>2, <1>4, <2>1
<1>8. /\ f[20] \in Nat
      /\ f[20] = f[15] + x["AnonymousCipher"] + x["BrokenCipher"]
                     + x["SmallBlockCipher"] + x["UnapprovedCipher"] + x["UnknownCipher"]
  <2>1. /\ f[16] = f[15] + x["AnonymousCipher"]
        /\ f[17] = f[16] + x["BrokenCipher"]
        /\ f[18] = f[17] + x["SmallBlockCipher"]
        /\ f[19] = f[18] + x["UnapprovedCipher"]
        /\ f[20] = f[19] + x["UnknownCipher"]
    BY <1>3 DEF InOrder
  <2> QED
    BY <1>7, <1>2, <1>4, <2>1
<1>9. /\ f[25] \in Nat
      /\ f[25] = f[20] + x["ForwardSecrecy"] + x["HybridGroup"]
                     + x["NegotiatedVersion"] + x["OfferedVersions"] + x["NegotiationOutcome"]
  <2>1. /\ f[21] = f[20] + x["ForwardSecrecy"]
        /\ f[22] = f[21] + x["HybridGroup"]
        /\ f[23] = f[22] + x["NegotiatedVersion"]
        /\ f[24] = f[23] + x["OfferedVersions"]
        /\ f[25] = f[24] + x["NegotiationOutcome"]
    BY <1>3 DEF InOrder
  <2> QED
    BY <1>8, <1>2, <1>4, <2>1
<1> QED
  BY <1>1, <1>2, <1>4, <1>5, <1>6, <1>7, <1>8, <1>9 DEF Total, CertificatePart,
     MailPart, CipherPart, OtherPart, x

(* The parts of the total are numbers, grow with what they are made of,     *)
(* and hold every rule.                                                     *)
LEMMA CertificatePartFacts ==
    ASSUME NEW x \in [Rules -> Nat], NEW y \in [Rules -> Nat],
           \A r \in Rules : x[r] <= y[r]
    PROVE  /\ CertificatePart(x) \in Nat /\ CertificatePart(y) \in Nat
           /\ CertificatePart(x) <= CertificatePart(y)
           /\ \A r \in
                 {"Expired", "NotYetValid", "WeakKey", "WeakSignature",
                  "UntrustedChain", "WrongName", "WrongUsage"} :
                 x[r] <= CertificatePart(x)
<1>1. /\ x["Expired"] \in Nat /\ y["Expired"] \in Nat
      /\ x["Expired"] <= y["Expired"]
      /\ x["NotYetValid"] \in Nat /\ y["NotYetValid"] \in Nat
      /\ x["NotYetValid"] <= y["NotYetValid"]
      /\ x["WeakKey"] \in Nat /\ y["WeakKey"] \in Nat
      /\ x["WeakKey"] <= y["WeakKey"]
      /\ x["WeakSignature"] \in Nat /\ y["WeakSignature"] \in Nat
      /\ x["WeakSignature"] <= y["WeakSignature"]
      /\ x["UntrustedChain"] \in Nat /\ y["UntrustedChain"] \in Nat
      /\ x["UntrustedChain"] <= y["UntrustedChain"]
      /\ x["WrongName"] \in Nat /\ y["WrongName"] \in Nat
      /\ x["WrongName"] <= y["WrongName"]
      /\ x["WrongUsage"] \in Nat /\ y["WrongUsage"] \in Nat
      /\ x["WrongUsage"] <= y["WrongUsage"]
  BY RuleNames
<1> QED
  BY <1>1 DEF CertificatePart

LEMMA MailPartFacts ==
    ASSUME NEW x \in [Rules -> Nat], NEW y \in [Rules -> Nat],
           \A r \in Rules : x[r] <= y[r]
    PROVE  /\ MailPart(x) \in Nat /\ MailPart(y) \in Nat /\ MailPart(x) <= MailPart(y)
           /\ \A r \in
                 {"CleartextLogin", "LoginBeforeUpgrade", "UpgradeRefused",
                  "UpgradeNotFollowed", "PlaintextContinued", "UpgradeNotOffered",
                  "ImplicitTls"} :
                 x[r] <= MailPart(x)
<1>1. /\ x["CleartextLogin"] \in Nat /\ y["CleartextLogin"] \in Nat
      /\ x["CleartextLogin"] <= y["CleartextLogin"]
      /\ x["LoginBeforeUpgrade"] \in Nat /\ y["LoginBeforeUpgrade"] \in Nat
      /\ x["LoginBeforeUpgrade"] <= y["LoginBeforeUpgrade"]
      /\ x["UpgradeRefused"] \in Nat /\ y["UpgradeRefused"] \in Nat
      /\ x["UpgradeRefused"] <= y["UpgradeRefused"]
      /\ x["UpgradeNotFollowed"] \in Nat /\ y["UpgradeNotFollowed"] \in Nat
      /\ x["UpgradeNotFollowed"] <= y["UpgradeNotFollowed"]
      /\ x["PlaintextContinued"] \in Nat /\ y["PlaintextContinued"] \in Nat
      /\ x["PlaintextContinued"] <= y["PlaintextContinued"]
      /\ x["UpgradeNotOffered"] \in Nat /\ y["UpgradeNotOffered"] \in Nat
      /\ x["UpgradeNotOffered"] <= y["UpgradeNotOffered"]
      /\ x["ImplicitTls"] \in Nat /\ y["ImplicitTls"] \in Nat
      /\ x["ImplicitTls"] <= y["ImplicitTls"]
  BY RuleNames
<1> QED
  BY <1>1 DEF MailPart

LEMMA CipherPartFacts ==
    ASSUME NEW x \in [Rules -> Nat], NEW y \in [Rules -> Nat],
           \A r \in Rules : x[r] <= y[r]
    PROVE  /\ CipherPart(x) \in Nat /\ CipherPart(y) \in Nat /\ CipherPart(x) <= CipherPart(y)
           /\ \A r \in
                 {"NullCipher", "AnonymousCipher", "BrokenCipher", "SmallBlockCipher",
                  "UnapprovedCipher", "UnknownCipher"} :
                 x[r] <= CipherPart(x)
<1>1. /\ x["NullCipher"] \in Nat /\ y["NullCipher"] \in Nat
      /\ x["NullCipher"] <= y["NullCipher"]
      /\ x["AnonymousCipher"] \in Nat /\ y["AnonymousCipher"] \in Nat
      /\ x["AnonymousCipher"] <= y["AnonymousCipher"]
      /\ x["BrokenCipher"] \in Nat /\ y["BrokenCipher"] \in Nat
      /\ x["BrokenCipher"] <= y["BrokenCipher"]
      /\ x["SmallBlockCipher"] \in Nat /\ y["SmallBlockCipher"] \in Nat
      /\ x["SmallBlockCipher"] <= y["SmallBlockCipher"]
      /\ x["UnapprovedCipher"] \in Nat /\ y["UnapprovedCipher"] \in Nat
      /\ x["UnapprovedCipher"] <= y["UnapprovedCipher"]
      /\ x["UnknownCipher"] \in Nat /\ y["UnknownCipher"] \in Nat
      /\ x["UnknownCipher"] <= y["UnknownCipher"]
  BY RuleNames
<1> QED
  BY <1>1 DEF CipherPart

LEMMA OtherPartFacts ==
    ASSUME NEW x \in [Rules -> Nat], NEW y \in [Rules -> Nat],
           \A r \in Rules : x[r] <= y[r]
    PROVE  /\ OtherPart(x) \in Nat /\ OtherPart(y) \in Nat /\ OtherPart(x) <= OtherPart(y)
           /\ \A r \in
                 {"ForwardSecrecy", "HybridGroup", "NegotiatedVersion",
                  "OfferedVersions", "NegotiationOutcome"} :
                 x[r] <= OtherPart(x)
<1>1. /\ x["ForwardSecrecy"] \in Nat /\ y["ForwardSecrecy"] \in Nat
      /\ x["ForwardSecrecy"] <= y["ForwardSecrecy"]
      /\ x["HybridGroup"] \in Nat /\ y["HybridGroup"] \in Nat
      /\ x["HybridGroup"] <= y["HybridGroup"]
      /\ x["NegotiatedVersion"] \in Nat /\ y["NegotiatedVersion"] \in Nat
      /\ x["NegotiatedVersion"] <= y["NegotiatedVersion"]
      /\ x["OfferedVersions"] \in Nat /\ y["OfferedVersions"] \in Nat
      /\ x["OfferedVersions"] <= y["OfferedVersions"]
      /\ x["NegotiationOutcome"] \in Nat /\ y["NegotiationOutcome"] \in Nat
      /\ x["NegotiationOutcome"] <= y["NegotiationOutcome"]
  BY RuleNames
<1> QED
  BY <1>1 DEF OtherPart

(* The total grows with what it is made of.                                 *)
LEMMA TotalIsMonotone ==
    ASSUME NEW x \in [Rules -> Nat], NEW y \in [Rules -> Nat],
           \A r \in Rules : x[r] <= y[r]
    PROVE  Total(x) \in Nat /\ Total(y) \in Nat /\ Total(x) <= Total(y)
<1>1. /\ CertificatePart(x) \in Nat /\ CertificatePart(y) \in Nat
      /\ CertificatePart(x) <= CertificatePart(y)
  BY CertificatePartFacts
<1>2. MailPart(x) \in Nat /\ MailPart(y) \in Nat /\ MailPart(x) <= MailPart(y)
  BY MailPartFacts
<1>3. CipherPart(x) \in Nat /\ CipherPart(y) \in Nat /\ CipherPart(x) <= CipherPart(y)
  BY CipherPartFacts
<1>4. OtherPart(x) \in Nat /\ OtherPart(y) \in Nat /\ OtherPart(x) <= OtherPart(y)
  BY OtherPartFacts
<1> QED
  BY <1>1, <1>2, <1>3, <1>4 DEF Total

(* No rule lends more than the total.                                       *)
LEMMA TotalHasPart ==
    ASSUME NEW x \in [Rules -> Nat], NEW r \in Rules
    PROVE  x[r] <= Total(x) /\ Total(x) \in Nat
<1>1. \A q \in Rules : x[q] \in Nat /\ x[q] <= x[q]
  OBVIOUS
<1>2. /\ CertificatePart(x) \in Nat /\ MailPart(x) \in Nat /\ CipherPart(x) \in Nat
      /\ OtherPart(x) \in Nat
  BY <1>1, CertificatePartFacts, MailPartFacts, CipherPartFacts, OtherPartFacts
<1>3. \/ x[r] <= CertificatePart(x) \/ x[r] <= MailPart(x) \/ x[r] <= CipherPart(x)
      \/ x[r] <= OtherPart(x)
  BY <1>1, CertificatePartFacts, MailPartFacts, CipherPartFacts, OtherPartFacts, RuleNames
<1> QED
  BY <1>1, <1>2, <1>3 DEF Total

(* Of numbers that pairwise are not both more than 0 at most one counts.    *)
LEMMA AtMostOne ==
    ASSUME NEW a \in Nat, a <= 10, NEW b \in Nat, b <= 10, NEW c \in Nat, c <= 6,
           NEW d \in Nat, d <= 3, NEW e \in Nat, e <= 3,
           a = 0 \/ b = 0, a = 0 \/ c = 0, a = 0 \/ d = 0, a = 0 \/ e = 0, b = 0 \/ c = 0,
           b = 0 \/ d = 0, b = 0 \/ e = 0, c = 0 \/ d = 0, c = 0 \/ e = 0, d = 0 \/ e = 0
    PROVE  a + b + c + d + e <= 10
  OBVIOUS

(* The total of what rules may lend at most, the ciphers' once.             *)
LEMMA TotalIsBounded ==
    ASSUME NEW x \in [Rules -> Nat], \A r \in Rules : x[r] <= MostOf[r],
           \A r, q \in Ciphers : r = q \/ x[r] = 0 \/ x[q] = 0
    PROVE  Total(x) <= 91
<1>1. CertificatePart(x) \in Nat /\ CertificatePart(x) <= 39
  <2>1. /\ x["Expired"] \in Nat /\ x["Expired"] <= 6
        /\ x["NotYetValid"] \in Nat /\ x["NotYetValid"] <= 6
        /\ x["WeakKey"] \in Nat /\ x["WeakKey"] <= 6
        /\ x["WeakSignature"] \in Nat /\ x["WeakSignature"] <= 6
        /\ x["UntrustedChain"] \in Nat /\ x["UntrustedChain"] <= 6
        /\ x["WrongName"] \in Nat /\ x["WrongName"] <= 6
        /\ x["WrongUsage"] \in Nat /\ x["WrongUsage"] <= 3
    BY RuleNames DEF MostOf
  <2> QED
    BY ONLY <2>1 DEF CertificatePart
<1>2. MailPart(x) \in Nat /\ MailPart(x) <= 29
  <2>1. /\ x["CleartextLogin"] \in Nat /\ x["CleartextLogin"] <= 10
        /\ x["LoginBeforeUpgrade"] \in Nat /\ x["LoginBeforeUpgrade"] <= 6
        /\ x["UpgradeRefused"] \in Nat /\ x["UpgradeRefused"] <= 3
        /\ x["UpgradeNotFollowed"] \in Nat /\ x["UpgradeNotFollowed"] <= 1
        /\ x["PlaintextContinued"] \in Nat /\ x["PlaintextContinued"] <= 6
        /\ x["UpgradeNotOffered"] \in Nat /\ x["UpgradeNotOffered"] <= 3
        /\ x["ImplicitTls"] \in Nat /\ x["ImplicitTls"] <= 0
    BY RuleNames DEF MostOf
  <2> QED
    BY ONLY <2>1 DEF MailPart
<1>3. CipherPart(x) \in Nat /\ CipherPart(x) <= 10
  <2>1. /\ x["NullCipher"] \in Nat /\ x["NullCipher"] <= 10
        /\ x["AnonymousCipher"] \in Nat /\ x["AnonymousCipher"] <= 10
        /\ x["BrokenCipher"] \in Nat /\ x["BrokenCipher"] <= 6
        /\ x["SmallBlockCipher"] \in Nat /\ x["SmallBlockCipher"] <= 3
        /\ x["UnapprovedCipher"] \in Nat /\ x["UnapprovedCipher"] <= 3
        /\ x["UnknownCipher"] \in Nat /\ x["UnknownCipher"] <= 0
    BY RuleNames DEF MostOf
  <2>2. \A r, q \in Ciphers : r = q \/ x[r] = 0 \/ x[q] = 0
    OBVIOUS
  <2> DEFINE a == x["NullCipher"]
             b == x["AnonymousCipher"]
             c == x["BrokenCipher"]
             d == x["SmallBlockCipher"]
             e == x["UnapprovedCipher"]
  <2>3. /\ a \in Nat /\ a <= 10 /\ b \in Nat /\ b <= 10 /\ c \in Nat /\ c <= 6
        /\ d \in Nat /\ d <= 3 /\ e \in Nat /\ e <= 3
    BY ONLY <2>1
  <2>4. /\ a = 0 \/ b = 0
        /\ a = 0 \/ c = 0
        /\ a = 0 \/ d = 0
        /\ a = 0 \/ e = 0
        /\ b = 0 \/ c = 0
        /\ b = 0 \/ d = 0
        /\ b = 0 \/ e = 0
        /\ c = 0 \/ d = 0
        /\ c = 0 \/ e = 0
        /\ d = 0 \/ e = 0
    BY <2>2 DEF Ciphers
  <2> HIDE DEF a, b, c, d, e
  <2>5. a + b + c + d + e <= 10
    BY ONLY <2>3, <2>4, AtMostOne
  <2> QED
    BY ONLY <2>1, <2>5 DEF CipherPart, a, b, c, d, e
<1>4. OtherPart(x) \in Nat /\ OtherPart(x) <= 13
  <2>1. /\ x["ForwardSecrecy"] \in Nat /\ x["ForwardSecrecy"] <= 6
        /\ x["HybridGroup"] \in Nat /\ x["HybridGroup"] <= 0
        /\ x["NegotiatedVersion"] \in Nat /\ x["NegotiatedVersion"] <= 6
        /\ x["OfferedVersions"] \in Nat /\ x["OfferedVersions"] <= 0
        /\ x["NegotiationOutcome"] \in Nat /\ x["NegotiationOutcome"] <= 1
    BY RuleNames DEF MostOf
  <2> QED
    BY ONLY <2>1 DEF OtherPart
<1> QED
  BY <1>1, <1>2, <1>3, <1>4 DEF Total

Shares(results, outcomes) == [r \in Rules |-> Share(results, outcomes, r)]

(* The shares as a table, for the facts about totals.                       *)
LEMMA SharesAreTable ==
    ASSUME NEW results, NEW outcomes
    PROVE  /\ Shares(results, outcomes) \in [Rules -> Nat]
           /\ WeightOf(results, DefaultPolicy, outcomes) = Total(Shares(results, outcomes))
  BY SharesAreNumbers, WeightIsTotal DEF Shares

(* No session is judged by a weight of more than 91.                        *)
LEMMA WeightIsBounded ==
    ASSUME NEW results, NEW outcomes
    PROVE  WeightOf(results, DefaultPolicy, outcomes) \in 0..91
<1> DEFINE x == Shares(results, outcomes)
<1>1. x \in [Rules -> Nat] /\ WeightOf(results, DefaultPolicy, outcomes) = Total(x)
  BY SharesAreTable
<1>2. ASSUME NEW r \in Rules PROVE x[r] <= MostOf[r]
  <2>1. x[r] \in {0, MostOf[r]} /\ x[r] \in Nat
    BY SharesAreNumbers, WeightsOfRules DEF Shares
  <2>2. MostOf[r] \in Nat
    BY RuleNames DEF MostOf
  <2> HIDE DEF x
  <2> QED
    BY <2>1, <2>2
<1>3. ASSUME NEW r \in Ciphers, NEW q \in Ciphers PROVE r = q \/ x[r] = 0 \/ x[q] = 0
  BY OneCipherLends, CiphersAreOneGroup DEF Shares
<1> HIDE DEF x
<1>4. Total(x) <= 91
  BY <1>1, <1>2, <1>3, TotalIsBounded
<1>5. Total(x) \in Nat
  <2>1. \A r \in Rules : x[r] <= x[r]
    BY <1>1
  <2> QED
    BY <1>1, <2>1, TotalIsMonotone
<1> QED
  BY <1>1, <1>4, <1>5

(* What failed is part of what was evaluated.                               *)
LEMMA FailedIsEvaluated ==
    ASSUME NEW results
    PROVE  WeightOf(results, DefaultPolicy, {"FAIL"})
             <= WeightOf(results, DefaultPolicy, {"FAIL", "PASS"})
<1> DEFINE x == Shares(results, {"FAIL"})
           y == Shares(results, {"FAIL", "PASS"})
<1>1. x \in [Rules -> Nat] /\ y \in [Rules -> Nat]
  BY SharesAreTable
<1>2. ASSUME NEW r \in Rules PROVE x[r] <= y[r]
  <2>1. Lends(results, {"FAIL"}, r) => Lends(results, {"FAIL", "PASS"}, r)
    BY DEF Lends
  <2>2. /\ x[r] = IF Lends(results, {"FAIL"}, r) THEN WeightFor(DefaultPolicy, r) ELSE 0
        /\ y[r] = IF Lends(results, {"FAIL", "PASS"}, r) THEN WeightFor(DefaultPolicy, r) ELSE 0
    BY DEF Shares, Share
  <2>3. x[r] \in Nat /\ y[r] \in Nat
    BY <1>1
  <2> HIDE DEF x, y
  <2> QED
    BY <2>1, <2>2, <2>3
<1> HIDE DEF x, y
<1>3. Total(x) <= Total(y)
  BY <1>1, <1>2, TotalIsMonotone
<1> QED
  BY <1>3, SharesAreTable DEF x, y

(* A critical finding lends ten.                                            *)
LEMMA CriticalWeighs ==
    ASSUME NEW results, DOMAIN results \subseteq Rules,
           NEW r \in Findings(results, DefaultPolicy), Catalogue[r].severity = "CRITICAL"
    PROVE  WeightOf(results, DefaultPolicy, {"FAIL"}) >= 10
<1> DEFINE kept == Representatives(results, DefaultPolicy)
<1>1. ValidPolicy(DefaultPolicy)
  BY PoliciesAreValid DEF Policies
<1>2. Kept(results, DefaultPolicy, kept, 25)
  BY <1>1, RepresentativesAreBest
<1>3. PICK g \in Groups : kept[g] = r /\ r # NoValue
  <2>1. DOMAIN kept = Groups
    BY <1>2 DEF Kept, Tables
  <2> QED
    BY <2>1 DEF Findings, Range
<1> HIDE DEF kept
<1>4. Lends(results, {"FAIL"}, r) /\ r \in Rules
  <2>1. Failing(results, g, 25) = Members(results, g, "FAIL")
    BY PositionOfRule DEF Failing, Members, With
  <2>2. IsBest(DefaultPolicy, Members(results, g, "FAIL"), r)
    BY <1>2, <1>3, <2>1 DEF Kept
  <2>3. Members(results, g, "FAIL") \subseteq Rules
    BY DEF Members, With
  <2>4. r = Representative(results, DefaultPolicy, g, "FAIL")
    BY <1>1, <2>2, <2>3, RepresentativeIsBest
  <2>5. r \in Members(results, g, "FAIL")
    BY <2>2 DEF IsBest
  <2>6. UnitOutcome(results, g) = "FAIL"
    BY <2>5, FailedUnits
  <2>7. Catalogue[r].group = g
    BY <2>5 DEF Members
  <2> QED
    BY <2>3, <2>4, <2>5, <2>6, <2>7 DEF Lends
<1>5. WeightFor(DefaultPolicy, r) = 10
  BY <1>4, DefaultWeights DEF SeverityWeight
<1> DEFINE x == Shares(results, {"FAIL"})
<1>6. x[r] = 10
  BY <1>4, <1>5 DEF Shares, Share
<1>7. x \in [Rules -> Nat] /\ WeightOf(results, DefaultPolicy, {"FAIL"}) = Total(x)
  BY SharesAreTable
<1> HIDE DEF x
<1>8. x[r] <= Total(x) /\ Total(x) \in Nat
  BY <1>4, <1>7, TotalHasPart
<1> QED
  BY <1>6, <1>7, <1>8

(* Ten of at most ninety-one is too much to be rounded away.                *)
LEMMA TenIsNotRounded ==
    ASSUME NEW d \in 1..91, NEW failed \in 10..91, failed <= d
    PROVE  RoundHalfEven(100 * (d - failed), d) \in 0..89
<1> DEFINE n == 100 * (d - failed)
           q == n \div d
           m == n % d
<1>1. n \in Nat /\ n <= 100 * d - 1000 /\ d \in 10..91
  OBVIOUS
<1>2. q \in Int /\ m \in 0..(d - 1) /\ n = d * q + m
  BY <1>1
<1>3. RoundHalfEven(n, d) = IF 2 * m > d \/ (2 * m = d /\ q % 2 = 1) THEN q + 1 ELSE q
  BY DEF RoundHalfEven
<1> HIDE DEF n, q, m
<1>4. q >= 0
  <2> SUFFICES ASSUME q <= -1 PROVE FALSE
    BY <1>2
  <2>1. d * q <= -d
    BY <1>1, <1>2
  <2> QED
    BY <1>1, <1>2, <2>1
<1>5. q <= 89
  <2> SUFFICES ASSUME q >= 90 PROVE FALSE
    BY <1>2
  <2>1. d * q >= 90 * d
    BY <1>1, <1>2
  <2> QED
    BY <1>1, <1>2, <2>1
<1>6. CASE q = 89
  <2>1. d * q = 89 * d
    BY <1>1, <1>6
  <2>2. m <= 1
    BY <1>1, <1>2, <2>1
  <2>3. RoundHalfEven(n, d) = q
    BY <1>1, <1>2, <1>3, <2>2
  <2> QED
    BY <1>6, <2>3 DEF n
<1>7. CASE q # 89
  <2>1. q \in 0..88
    BY <1>2, <1>4, <1>5, <1>7
  <2>2. RoundHalfEven(n, d) \in {q, q + 1}
    BY <1>3
  <2> QED
    BY <2>1, <2>2 DEF n
<1> QED
  BY <1>6, <1>7

(* What compute_score makes of a critical finding, whatever the outcomes of *)
(* the other rules: the unit that fails is not outweighed by all that pass. *)
THEOREM CriticalLowersTheBand ==
    ASSUME NEW results, DOMAIN results \subseteq Rules,
           NEW r \in Findings(results, DefaultPolicy), Catalogue[r].severity = "CRITICAL"
    PROVE  Band(Score(results, DefaultPolicy)) # "STRONG"
<1> DEFINE evaluated == WeightOf(results, DefaultPolicy, {"FAIL", "PASS"})
           failed == WeightOf(results, DefaultPolicy, {"FAIL"})
           score == Score(results, DefaultPolicy)
<1>1. evaluated \in 0..91 /\ failed \in 0..91
  BY WeightIsBounded
<1>2. failed >= 10 /\ failed <= evaluated
  BY CriticalWeighs, FailedIsEvaluated
<1>3. score = NoScore \/ score = RoundHalfEven(100 * (evaluated - failed), evaluated)
  BY DEF Score
<1> HIDE DEF evaluated, failed, score
<1>4. RoundHalfEven(100 * (evaluated - failed), evaluated) \in 0..89
  <2>1. evaluated \in 1..91 /\ failed \in 10..91 /\ failed <= evaluated
    BY <1>1, <1>2
  <2> QED
    BY <2>1, TenIsNotRounded
<1>5. score = -1 \/ score \in 0..89
  BY <1>3, <1>4 DEF NoScore
<1>6. Band(score) \in {"ADEQUATE", "WEAK", "CRITICAL", "NOT_AVAILABLE"}
  <2>1. CASE score = -1
    BY <2>1 DEF Band, NoScore
  <2>2. CASE score \in 70..89
    BY <2>2 DEF Band, NoScore
  <2>3. CASE score \in 40..69
    BY <2>3 DEF Band, NoScore
  <2>4. CASE score \in 0..39
    BY <2>4 DEF Band, NoScore
  <2> QED
    BY <1>5, <2>1, <2>2, <2>3, <2>4
<1> QED
  BY <1>6 DEF score

(* "One CRITICAL control outweighs three MEDIUM ones" (policy.py): in every *)
(* state of every session a critical finding keeps it from being STRONG.    *)
THEOREM CriticalIsNeverStrongHolds == Spec => []CriticalIsNeverStrong
<1>1. CriticalIsNeverStrong
  <2> SUFFICES ASSUME "CRITICAL" \in Found PROVE BandNow # "STRONG"
    BY DEF CriticalIsNeverStrong
  <2> DEFINE results == Judgement(DefaultPolicy)
  <2>1. PICK r \in Findings(results, DefaultPolicy) : Catalogue[r].severity = "CRITICAL"
    BY DEF Found
  <2>2. DOMAIN results \subseteq Rules
    BY DEF Judgement, Results
  <2> HIDE DEF results
  <2>3. Band(Score(results, DefaultPolicy)) # "STRONG"
    BY <2>1, <2>2, CriticalLowersTheBand
  <2> QED
    BY <2>3 DEF BandNow, results
<1> QED
  BY <1>1, PTL

(* The outcome of a unit, written out.                                      *)
LEMMA UnitOutcomes ==
    ASSUME NEW results, NEW g
    PROVE  UnitOutcome(results, g) =
               IF Members(results, g, "FAIL") # {} THEN "FAIL"
               ELSE IF Members(results, g, "PASS") # {} THEN "PASS"
               ELSE IF Members(results, g, "UNKNOWN") # {} THEN "UNKNOWN"
               ELSE "NOT_APPLICABLE"
<1> DEFINE among == {i \in DOMAIN Decisive : Members(results, g, Decisive[i]) # {}}
<1>1. /\ DOMAIN Decisive = 1..3 /\ Decisive[1] = "FAIL" /\ Decisive[2] = "PASS"
      /\ Decisive[3] = "UNKNOWN"
  BY DEF Decisive
<1>2. /\ among \subseteq 1..3
      /\ 1 \in among <=> Members(results, g, "FAIL") # {}
      /\ 2 \in among <=> Members(results, g, "PASS") # {}
      /\ 3 \in among <=> Members(results, g, "UNKNOWN") # {}
  BY <1>1
<1>3. UnitOutcome(results, g) = IF among = {} THEN "NOT_APPLICABLE" ELSE Decisive[Min(among)]
  BY DEF UnitOutcome
<1> HIDE DEF among
<1>4. CASE among = {}
  BY <1>2, <1>3, <1>4
<1>5. ASSUME NEW m \in among, \A n \in among : m <= n PROVE Min(among) = m
  <2>1. \E x \in among : \A y \in among : x <= y
    BY <1>5
  <2>2. Min(among) \in among /\ \A y \in among : Min(among) <= y
    BY <2>1 DEF Min
  <2>3. Min(among) <= m /\ m <= Min(among)
    BY <1>5, <2>2
  <2>4. Min(among) \in 1..3 /\ m \in 1..3
    BY <1>2, <2>2
  <2> QED
    BY <2>3, <2>4
<1>6. CASE 1 \in among
  BY <1>1, <1>2, <1>3, <1>5, <1>6
<1>7. CASE 1 \notin among /\ 2 \in among
  BY <1>1, <1>2, <1>3, <1>5, <1>7
<1>8. CASE 1 \notin among /\ 2 \notin among /\ 3 \in among
  BY <1>1, <1>2, <1>3, <1>5, <1>8
<1> QED
  BY <1>2, <1>4, <1>6, <1>7, <1>8

(* Any rules there are have a best one.                                     *)
LEMMA BestExists ==
    ASSUME NEW policy, ValidPolicy(policy), NEW S \in SUBSET Rules, S # {}
    PROVE  \E b : IsBest(policy, S, b)
<1> DEFINE key(r) == 100 * RankOf(policy, r) + Position[r]
           T == {key(r) : r \in S}
<1>1. \A r \in S : RankOf(policy, r) \in Nat /\ Position[r] \in 1..25 /\ key(r) \in Nat
  BY RanksAreNumbers, PositionOfRule
<1>2. T \in SUBSET Nat /\ T # {}
  BY <1>1
<1>3. PICK x \in T : \A y \in T : x <= y
  BY <1>2, LeastExists
<1>4. PICK b \in S : x = key(b)
  BY <1>3
<1>5. ASSUME NEW q \in S PROVE Precedes(policy, b, q)
  <2>1. key(b) <= key(q)
    BY <1>3, <1>4
  <2> QED
    BY <1>1, <1>4, <2>1 DEF Precedes
<1> QED
  BY <1>4, <1>5 DEF IsBest

(* A more severe rule does not weigh less.                                  *)
LEMMA SevereWeighs ==
    ASSUME NEW r \in Rules, NEW q \in Rules,
           RankOf(DefaultPolicy, r) <= RankOf(DefaultPolicy, q)
    PROVE  SeverityWeight[Catalogue[q].severity] <= SeverityWeight[Catalogue[r].severity]
<1>1. DOMAIN << >> = {}
  OBVIOUS
<1>2. /\ RankOf(DefaultPolicy, r) = Rank[Catalogue[r].severity]
      /\ RankOf(DefaultPolicy, q) = Rank[Catalogue[q].severity]
  BY <1>1 DEF RankOf, SeverityFor, DefaultPolicy, Policy
<1>3. \A s, t \in Severities : Rank[s] <= Rank[t] => SeverityWeight[t] <= SeverityWeight[s]
  BY DEF Severities, Rank, SeverityWeight
<1> QED
  BY <1>2, <1>3, SeverityOfRule

(* A unit lends at least the weight of any rule with its outcome.           *)
LEMMA UnitLends ==
    ASSUME NEW results, DOMAIN results \subseteq Rules, NEW r \in DOMAIN results,
           NEW outcomes, results[r] \in outcomes,
           UnitOutcome(results, Catalogue[r].group) = results[r]
    PROVE  \E q \in Rules : /\ Catalogue[q].group = Catalogue[r].group
                            /\ results[q] = results[r]
                            /\ Share(results, outcomes, q) >= MostOf[r]
<1> DEFINE g == Catalogue[r].group
           S == Members(results, g, results[r])
<1>1. S \in SUBSET Rules /\ r \in S
  BY DEF Members, With
<1>2. ValidPolicy(DefaultPolicy)
  BY PoliciesAreValid DEF Policies
<1>3. PICK b : IsBest(DefaultPolicy, S, b)
  BY <1>1, <1>2, BestExists
<1>4. b = Representative(results, DefaultPolicy, g, results[r])
  BY <1>1, <1>2, <1>3, RepresentativeIsBest
<1>5. b \in Rules /\ Catalogue[b].group = g /\ results[b] = results[r]
  BY <1>3, <1>1 DEF IsBest, Members, With
<1>6. Lends(results, outcomes, b)
  BY <1>4, <1>5 DEF Lends
<1>7. RankOf(DefaultPolicy, b) <= RankOf(DefaultPolicy, r)
  <2>1. Precedes(DefaultPolicy, b, r)
    BY <1>1, <1>3 DEF IsBest
  <2>2. RankOf(DefaultPolicy, b) \in Nat /\ RankOf(DefaultPolicy, r) \in Nat
    BY <1>1, <1>2, <1>5, RanksAreNumbers
  <2> QED
    BY <2>1, <2>2 DEF Precedes
<1>8. MostOf[r] <= WeightFor(DefaultPolicy, b)
  BY <1>5, <1>7, SevereWeighs, DefaultWeights, WeightsOfRules
<1>9. Share(results, outcomes, b) = WeightFor(DefaultPolicy, b) /\ WeightFor(DefaultPolicy, b) \in Nat
  BY <1>5, <1>6, SharesAreNumbers DEF Share
<1>10. MostOf[r] \in Nat
  BY RuleNames DEF MostOf
<1> QED
  BY <1>5, <1>8, <1>9, <1>10

(* The members of the groups that matter here.                              *)
LEMMA GroupsByName ==
    ASSUME NEW r \in Rules
    PROVE  /\ Catalogue[r].group = "CIPHER_SUITE" => r \in Ciphers
           /\ Catalogue[r].group = "PLAINTEXT_AUTH"
                => r \in {"CleartextLogin", "LoginBeforeUpgrade"}
           /\ Catalogue[r].group = "PROTOCOL_VERSION" => r = "NegotiatedVersion"
           /\ Catalogue[r].group = "FORWARD_SECRECY" => r = "ForwardSecrecy"
           /\ Catalogue[r].severity = "LOW" => r \in {"UpgradeNotFollowed", "NegotiationOutcome"}
<1>1. CASE r \in DOMAIN CertificateCatalogue
  <2>1. Catalogue[r] = CertificateCatalogue[r]
    BY <1>1, ByCatalogue
  <2>2. \A q \in DOMAIN CertificateCatalogue :
           /\ CertificateCatalogue[q].group \notin
                 {"CIPHER_SUITE", "PLAINTEXT_AUTH", "PROTOCOL_VERSION", "FORWARD_SECRECY"}
           /\ CertificateCatalogue[q].severity # "LOW"
    BY DEF CertificateCatalogue, Rule
  <2> QED
    BY <1>1, <2>1, <2>2
<1>2. CASE r \notin DOMAIN CertificateCatalogue /\ r \in DOMAIN MailCatalogue
  <2>1. Catalogue[r] = MailCatalogue[r]
    BY <1>2, ByCatalogue
  <2>2. \A q \in DOMAIN MailCatalogue :
           /\ MailCatalogue[q].group \notin
                 {"CIPHER_SUITE", "PROTOCOL_VERSION", "FORWARD_SECRECY"}
           /\ MailCatalogue[q].group = "PLAINTEXT_AUTH"
                => q \in {"CleartextLogin", "LoginBeforeUpgrade"}
           /\ MailCatalogue[q].severity = "LOW" => q = "UpgradeNotFollowed"
    BY DEF MailCatalogue, Rule
  <2> QED
    BY <1>2, <2>1, <2>2
<1>3. CASE /\ r \notin DOMAIN CertificateCatalogue /\ r \notin DOMAIN MailCatalogue
           /\ r \in DOMAIN CipherCatalogue
  <2>1. Catalogue[r] = CipherCatalogue[r]
    BY <1>3, ByCatalogue
  <2>2. \A q \in DOMAIN CipherCatalogue :
           /\ CipherCatalogue[q].group \notin
                 {"PLAINTEXT_AUTH", "PROTOCOL_VERSION", "FORWARD_SECRECY"}
           /\ CipherCatalogue[q].group = "CIPHER_SUITE" => q \in Ciphers
           /\ CipherCatalogue[q].severity # "LOW"
    BY DEF CipherCatalogue, Rule, Ciphers
  <2> QED
    BY <1>3, <2>1, <2>2
<1>4. CASE /\ r \notin DOMAIN CertificateCatalogue /\ r \notin DOMAIN MailCatalogue
           /\ r \notin DOMAIN CipherCatalogue /\ r \in DOMAIN KeyExchangeCatalogue
  <2>1. Catalogue[r] = KeyExchangeCatalogue[r]
    BY <1>4, ByCatalogue
  <2>2. \A q \in DOMAIN KeyExchangeCatalogue :
           /\ KeyExchangeCatalogue[q].group \notin
                 {"CIPHER_SUITE", "PLAINTEXT_AUTH", "PROTOCOL_VERSION"}
           /\ KeyExchangeCatalogue[q].group = "FORWARD_SECRECY" => q = "ForwardSecrecy"
           /\ KeyExchangeCatalogue[q].severity # "LOW"
    BY DEF KeyExchangeCatalogue, Rule
  <2> QED
    BY <1>4, <2>1, <2>2
<1>5. CASE /\ r \notin DOMAIN CertificateCatalogue /\ r \notin DOMAIN MailCatalogue
           /\ r \notin DOMAIN CipherCatalogue /\ r \notin DOMAIN KeyExchangeCatalogue
  <2>1. Catalogue[r] = ProtocolCatalogue[r] /\ r \in DOMAIN ProtocolCatalogue
    BY <1>5, ByCatalogue DEF Rules
  <2>2. \A q \in DOMAIN ProtocolCatalogue :
           /\ ProtocolCatalogue[q].group \notin
                 {"CIPHER_SUITE", "PLAINTEXT_AUTH", "FORWARD_SECRECY"}
           /\ ProtocolCatalogue[q].group = "PROTOCOL_VERSION" => q = "NegotiatedVersion"
           /\ ProtocolCatalogue[q].severity = "LOW" => q = "NegotiationOutcome"
    BY DEF ProtocolCatalogue, Rule
  <2> QED
    BY <2>1, <2>2
<1> QED
  BY <1>1, <1>2, <1>3, <1>4, <1>5

(* The groups, the other way round.                                         *)
LEMMA NamesByGroup ==
    /\ Catalogue["NegotiatedVersion"] = Rule("HIGH", "PROTOCOL_VERSION")
    /\ Catalogue["ForwardSecrecy"] = Rule("HIGH", "FORWARD_SECRECY")
    /\ Catalogue["CleartextLogin"] = Rule("CRITICAL", "PLAINTEXT_AUTH")
    /\ Catalogue["LoginBeforeUpgrade"] = Rule("HIGH", "PLAINTEXT_AUTH")
    /\ Catalogue["UpgradeNotFollowed"] = Rule("LOW", "UPGRADE_OUTCOME")
    /\ Catalogue["NegotiationOutcome"] = Rule("LOW", "NEGOTIATION_OUTCOME")
<1>1. ASSUME NEW r \in {"NegotiatedVersion", "NegotiationOutcome"}
      PROVE  Catalogue[r] = ProtocolCatalogue[r]
  <2>1. /\ r \notin DOMAIN CertificateCatalogue /\ r \notin DOMAIN MailCatalogue
        /\ r \notin DOMAIN CipherCatalogue /\ r \notin DOMAIN KeyExchangeCatalogue
    BY DEF CertificateCatalogue, MailCatalogue, CipherCatalogue, KeyExchangeCatalogue
  <2> QED
    BY <2>1, RuleNames, ByCatalogue
<1>2. Catalogue["ForwardSecrecy"] = KeyExchangeCatalogue["ForwardSecrecy"]
  <2> DEFINE r == "ForwardSecrecy"
  <2>1. /\ r \notin DOMAIN CertificateCatalogue /\ r \notin DOMAIN MailCatalogue
        /\ r \notin DOMAIN CipherCatalogue /\ r \in DOMAIN KeyExchangeCatalogue
    BY DEF CertificateCatalogue, MailCatalogue, CipherCatalogue, KeyExchangeCatalogue
  <2> QED
    BY <2>1, RuleNames, ByCatalogue
<1>3. ASSUME NEW r \in {"CleartextLogin", "LoginBeforeUpgrade", "UpgradeNotFollowed"}
      PROVE  Catalogue[r] = MailCatalogue[r]
  <2>1. r \notin DOMAIN CertificateCatalogue /\ r \in DOMAIN MailCatalogue
    BY DEF CertificateCatalogue, MailCatalogue
  <2> QED
    BY <2>1, RuleNames, ByCatalogue
<1> QED
  BY <1>1, <1>2, <1>3 DEF ProtocolCatalogue, KeyExchangeCatalogue, MailCatalogue

(* What is deducted for a rule is the weight of a finding.                  *)
LEMMA DeductedIsFound ==
    ASSUME NEW results, DOMAIN results \subseteq Rules, NEW r \in Rules,
           Lends(results, {"FAIL"}, r)
    PROVE  r \in Findings(results, DefaultPolicy) /\ r \in DOMAIN results /\ results[r] = "FAIL"
<1> DEFINE g == Catalogue[r].group
           S == Members(results, g, "FAIL")
<1>1. UnitOutcome(results, g) = "FAIL" /\ r = Representative(results, DefaultPolicy, g, "FAIL")
  BY DEF Lends
<1>2. g \in Groups
  BY DEF Groups
<1>3. ValidPolicy(DefaultPolicy)
  BY PoliciesAreValid DEF Policies
<1>4. r \in Findings(results, DefaultPolicy)
  BY <1>1, <1>2, <1>3, FindingsAreUnits
<1>5. S \in SUBSET Rules /\ S # {}
  BY <1>1, FailedUnits DEF Members, With
<1>6. PICK b : IsBest(DefaultPolicy, S, b)
  BY <1>3, <1>5, BestExists
<1>7. r \in S
  BY <1>1, <1>3, <1>5, <1>6, RepresentativeIsBest DEF IsBest
<1> QED
  BY <1>4, <1>7 DEF Members, With

OnlyLow(results) ==
    \A r \in Findings(results, DefaultPolicy) : Catalogue[r].severity \in {"LOW", "INFO"}

(* Where nothing worse than LOW was found, no rule of the four groups that  *)
(* weigh most here failed.                                                  *)
LEMMA NothingGraveFailed ==
    ASSUME NEW results, DOMAIN results \subseteq Rules, OnlyLow(results),
           NEW r \in DOMAIN results, results[r] = "FAIL"
    PROVE  Catalogue[r].group \notin
              {"CIPHER_SUITE", "PLAINTEXT_AUTH", "PROTOCOL_VERSION", "FORWARD_SECRECY"}
<1> DEFINE g == Catalogue[r].group
           S == Members(results, g, "FAIL")
<1>1. ValidPolicy(DefaultPolicy)
  BY PoliciesAreValid DEF Policies
<1>2. S \in SUBSET Rules /\ r \in S /\ g \in Groups
  BY DEF Members, With, Groups
<1>3. PICK b : IsBest(DefaultPolicy, S, b)
  BY <1>1, <1>2, BestExists
<1>4. b \in S /\ b = Representative(results, DefaultPolicy, g, "FAIL")
  BY <1>1, <1>2, <1>3, RepresentativeIsBest DEF IsBest
<1>5. UnitOutcome(results, g) = "FAIL"
  BY <1>2, FailedUnits
<1>6. b \in Findings(results, DefaultPolicy)
  BY <1>1, <1>2, <1>4, <1>5, FindingsAreUnits
<1>7. b \in Rules /\ Catalogue[b].group = g
  BY <1>2, <1>4 DEF Members, With
<1>8. SeverityWeight[Catalogue[b].severity] \in {0, 1}
  BY <1>6 DEF OnlyLow, SeverityWeight
<1>9. MostOf[b] \in {0, 1}
  BY <1>7, <1>8, WeightsOfRules
<1>10. b \notin Ciphers
         \cup {"CleartextLogin", "LoginBeforeUpgrade", "NegotiatedVersion", "ForwardSecrecy"}
  BY <1>9 DEF MostOf, Ciphers
<1> QED
  BY <1>7, <1>10, GroupsByName

(* The total of a table in which only the two low rules count.              *)
LEMMA LowTotal ==
    ASSUME NEW y \in [Rules -> Nat],
           \A r \in Rules \ {"UpgradeNotFollowed", "NegotiationOutcome"} : y[r] = 0
    PROVE  Total(y) = y["UpgradeNotFollowed"] + y["NegotiationOutcome"]
<1>1. CertificatePart(y) = 0
  <2>1. /\ y["Expired"] = 0 /\ y["NotYetValid"] = 0 /\ y["WeakKey"] = 0
        /\ y["WeakSignature"] = 0 /\ y["UntrustedChain"] = 0 /\ y["WrongName"] = 0
        /\ y["WrongUsage"] = 0
    BY RuleNames
  <2> QED
    BY <2>1 DEF CertificatePart
<1>2. MailPart(y) = y["UpgradeNotFollowed"]
  <2>1. /\ y["CleartextLogin"] = 0 /\ y["LoginBeforeUpgrade"] = 0 /\ y["UpgradeRefused"] = 0
        /\ y["PlaintextContinued"] = 0 /\ y["UpgradeNotOffered"] = 0 /\ y["ImplicitTls"] = 0
        /\ y["UpgradeNotFollowed"] \in Nat
    BY RuleNames
  <2> QED
    BY <2>1 DEF MailPart
<1>3. CipherPart(y) = 0
  <2>1. /\ y["NullCipher"] = 0 /\ y["AnonymousCipher"] = 0 /\ y["BrokenCipher"] = 0
        /\ y["SmallBlockCipher"] = 0 /\ y["UnapprovedCipher"] = 0 /\ y["UnknownCipher"] = 0
    BY RuleNames
  <2> QED
    BY <2>1 DEF CipherPart
<1>4. OtherPart(y) = y["NegotiationOutcome"]
  <2>1. /\ y["ForwardSecrecy"] = 0 /\ y["HybridGroup"] = 0 /\ y["NegotiatedVersion"] = 0
        /\ y["OfferedVersions"] = 0 /\ y["NegotiationOutcome"] \in Nat
    BY RuleNames
  <2> QED
    BY <2>1 DEF OtherPart
<1>5. y["UpgradeNotFollowed"] \in Nat /\ y["NegotiationOutcome"] \in Nat
  BY RuleNames
<1> QED
  BY <1>1, <1>2, <1>3, <1>4, <1>5 DEF Total

(* Low findings deduct one each.                                            *)
LEMMA LowDeductsLittle ==
    ASSUME NEW results, DOMAIN results \subseteq Rules, OnlyLow(results)
    PROVE  WeightOf(results, DefaultPolicy, {"FAIL"})
             <= (IF results["UpgradeNotFollowed"] = "FAIL" THEN 1 ELSE 0)
                  + (IF results["NegotiationOutcome"] = "FAIL" THEN 1 ELSE 0)
<1> DEFINE low(r) == IF r \in {"UpgradeNotFollowed", "NegotiationOutcome"} /\ results[r] = "FAIL"
                     THEN 1 ELSE 0
           x == Shares(results, {"FAIL"})
           y == [r \in Rules |-> low(r)]
<1>1. x \in [Rules -> Nat] /\ WeightOf(results, DefaultPolicy, {"FAIL"}) = Total(x)
  BY SharesAreTable
<1>2. y \in [Rules -> Nat] /\ \A r \in Rules : y[r] = low(r)
  OBVIOUS
<1>3. ASSUME NEW r \in Rules PROVE x[r] <= y[r]
  <2>1. CASE Lends(results, {"FAIL"}, r)
    <3>1. r \in Findings(results, DefaultPolicy) /\ results[r] = "FAIL"
      BY <2>1, DeductedIsFound
    <3>2. x[r] = SeverityWeight[Catalogue[r].severity]
      BY <2>1, DefaultWeights DEF Shares, Share
    <3>3. CASE Catalogue[r].severity = "LOW"
      BY <1>2, <3>1, <3>2, <3>3, GroupsByName DEF SeverityWeight
    <3>4. CASE Catalogue[r].severity = "INFO"
      BY <1>2, <3>2, <3>4 DEF SeverityWeight
    <3> QED
      BY <3>1, <3>3, <3>4 DEF OnlyLow
  <2>2. CASE ~Lends(results, {"FAIL"}, r)
    <3>1. x[r] = 0
      BY <2>2 DEF Shares, Share
    <3> QED
      BY <1>2, <3>1
  <2> QED
    BY <2>1, <2>2
<1> HIDE DEF x, y
<1>4. Total(x) <= Total(y)
  BY <1>1, <1>2, <1>3, TotalIsMonotone
<1>5. Total(y) = y["UpgradeNotFollowed"] + y["NegotiationOutcome"]
  BY <1>2, LowTotal
<1>6. /\ y["UpgradeNotFollowed"] = low("UpgradeNotFollowed")
      /\ y["NegotiationOutcome"] = low("NegotiationOutcome")
  BY <1>2, RuleNames
<1> QED
  BY <1>1, <1>4, <1>5, <1>6

(* The parts of a weight hold what their rules lend.                        *)
LEMMA PartsOfWeight ==
    ASSUME NEW results, NEW outcomes
    PROVE  LET x == Shares(results, outcomes)
           IN  /\ WeightOf(results, DefaultPolicy, outcomes)
                    = CertificatePart(x) + MailPart(x) + CipherPart(x) + OtherPart(x)
               /\ CertificatePart(x) \in Nat /\ MailPart(x) \in Nat
               /\ CipherPart(x) \in Nat /\ OtherPart(x) \in Nat
               /\ \A r \in Ciphers : Share(results, outcomes, r) <= CipherPart(x)
               /\ \A r \in {"CleartextLogin", "LoginBeforeUpgrade"} :
                     Share(results, outcomes, r) <= MailPart(x)
               /\ Share(results, outcomes, "NegotiatedVersion")
                    + Share(results, outcomes, "ForwardSecrecy") <= OtherPart(x)
<1> DEFINE x == Shares(results, outcomes)
<1>1. x \in [Rules -> Nat] /\ WeightOf(results, DefaultPolicy, outcomes) = Total(x)
  BY SharesAreTable
<1>2. \A r \in Rules : x[r] = Share(results, outcomes, r)
  BY DEF Shares
<1> HIDE DEF x
<1>3. \A r \in Rules : x[r] \in Nat /\ x[r] <= x[r]
  BY <1>1
<1>4. /\ CertificatePart(x) \in Nat /\ MailPart(x) \in Nat /\ CipherPart(x) \in Nat
      /\ OtherPart(x) \in Nat
  BY <1>1, <1>3, CertificatePartFacts, MailPartFacts, CipherPartFacts, OtherPartFacts
<1>5. ASSUME NEW r \in Ciphers PROVE x[r] <= CipherPart(x)
  BY <1>1, <1>3, CipherPartFacts DEF Ciphers
<1>6. ASSUME NEW r \in {"CleartextLogin", "LoginBeforeUpgrade"} PROVE x[r] <= MailPart(x)
  BY <1>1, <1>3, MailPartFacts
<1>7. x["NegotiatedVersion"] + x["ForwardSecrecy"] <= OtherPart(x)
  <2>1. /\ x["ForwardSecrecy"] \in Nat /\ x["HybridGroup"] \in Nat
        /\ x["NegotiatedVersion"] \in Nat /\ x["OfferedVersions"] \in Nat
        /\ x["NegotiationOutcome"] \in Nat
    BY <1>1, RuleNames
  <2> QED
    BY <2>1 DEF OtherPart
<1>8. /\ \A r \in Ciphers : r \in Rules
      /\ "CleartextLogin" \in Rules /\ "LoginBeforeUpgrade" \in Rules
      /\ "NegotiatedVersion" \in Rules /\ "ForwardSecrecy" \in Rules
  BY RuleNames, CiphersAreOneGroup
<1>9. /\ \A r \in Ciphers : Share(results, outcomes, r) <= CipherPart(x)
      /\ \A r \in {"CleartextLogin", "LoginBeforeUpgrade"} :
            Share(results, outcomes, r) <= MailPart(x)
      /\ Share(results, outcomes, "NegotiatedVersion")
           + Share(results, outcomes, "ForwardSecrecy") <= OtherPart(x)
  BY <1>2, <1>5, <1>6, <1>7, <1>8
<1> QED
  BY <1>1, <1>4, <1>9 DEF Total, x

(* A rule of a group that did not fail.  One that passed decides the unit;  *)
(* where all of its group are unknown, so is the unit.                      *)
LEMMA KnownUnit ==
    ASSUME NEW results, DOMAIN results \subseteq Rules, OnlyLow(results),
           NEW r \in DOMAIN results, results[r] \in {"FAIL", "PASS"},
           Catalogue[r].group \in
              {"CIPHER_SUITE", "PLAINTEXT_AUTH", "PROTOCOL_VERSION", "FORWARD_SECRECY"}
    PROVE  \E q \in Rules : /\ Catalogue[q].group = Catalogue[r].group
                            /\ Share(results, {"FAIL", "PASS"}, q) >= MostOf[r]
<1>1. results[r] = "PASS"
  BY NothingGraveFailed
<1>2. Members(results, Catalogue[r].group, "FAIL") = {}
  BY NothingGraveFailed DEF Members, With
<1>3. r \in Members(results, Catalogue[r].group, "PASS")
  BY <1>1 DEF Members, With
<1>4. UnitOutcome(results, Catalogue[r].group) = results[r]
  BY <1>1, <1>2, <1>3, UnitOutcomes
<1> QED
  BY <1>1, <1>4, UnitLends

LEMMA UnknownUnit ==
    ASSUME NEW results, DOMAIN results \subseteq Rules, NEW r \in DOMAIN results,
           \A q \in DOMAIN results :
              Catalogue[q].group = Catalogue[r].group => results[q] = "UNKNOWN"
    PROVE  \E q \in Rules : /\ Catalogue[q].group = Catalogue[r].group
                            /\ Share(results, {"UNKNOWN"}, q) >= MostOf[r]
<1>1. /\ Members(results, Catalogue[r].group, "FAIL") = {}
      /\ Members(results, Catalogue[r].group, "PASS") = {}
      /\ r \in Members(results, Catalogue[r].group, "UNKNOWN")
  BY DEF Members, With
<1>2. UnitOutcome(results, Catalogue[r].group) = results[r] /\ results[r] = "UNKNOWN"
  BY <1>1, UnitOutcomes
<1> QED
  BY <1>2, UnitLends

(* What a tenth at most does not take away from the highest band.           *)
LEMMA TenthIsLittle ==
    ASSUME NEW d \in Nat, d # 0, NEW failed \in Nat, 10 * failed <= d
    PROVE  RoundHalfEven(100 * (d - failed), d) \in Int
           /\ RoundHalfEven(100 * (d - failed), d) >= 90
<1> DEFINE n == 100 * (d - failed)
           q == n \div d
           m == n % d
<1>1. n \in Nat /\ n >= 90 * d /\ d \in Nat \ {0}
  OBVIOUS
<1>2. q \in Int /\ m \in 0..(d - 1) /\ n = d * q + m
  BY <1>1
<1>3. RoundHalfEven(n, d) = IF 2 * m > d \/ (2 * m = d /\ q % 2 = 1) THEN q + 1 ELSE q
  BY DEF RoundHalfEven
<1> HIDE DEF n, q, m
<1>4. q >= 90
  <2> SUFFICES ASSUME q <= 89 PROVE FALSE
    BY <1>2
  <2>1. d * q <= 89 * d
    BY <1>1, <1>2
  <2> QED
    BY <1>1, <1>2, <2>1
<1>5. RoundHalfEven(n, d) \in {q, q + 1}
  BY <1>3
<1> QED
  BY <1>2, <1>4, <1>5 DEF n

(* What is not known of a session of which no hello was captured.           *)
Silent(results) ==
    /\ results["NegotiatedVersion"] = "UNKNOWN" /\ results["ForwardSecrecy"] = "UNKNOWN"
    /\ \A r \in Ciphers : results[r] = "UNKNOWN"

(* The weight of what is known, and of what is not.                         *)
LEMMA CiphersWeigh ==
    ASSUME NEW results, DOMAIN results = Rules, OnlyLow(results)
    PROVE  /\ results["NullCipher"] \in {"FAIL", "PASS"}
                => WeightOf(results, DefaultPolicy, {"FAIL", "PASS"}) >= 10
           /\ (\A r \in Ciphers : results[r] = "UNKNOWN")
                => WeightOf(results, DefaultPolicy, {"UNKNOWN"}) >= 10
<1>1. /\ "NullCipher" \in Ciphers /\ "NullCipher" \in Rules
      /\ Catalogue["NullCipher"].group = "CIPHER_SUITE" /\ MostOf["NullCipher"] = 10
  BY CiphersAreOneGroup DEF Ciphers, MostOf
<1>2. ASSUME NEW outcomes, NEW q \in Rules, Catalogue[q].group = "CIPHER_SUITE",
             Share(results, outcomes, q) >= 10
      PROVE  WeightOf(results, DefaultPolicy, outcomes) >= 10
  <2>1. q \in Ciphers
    BY <1>2, GroupsByName
  <2>2. Share(results, outcomes, q) \in Nat
    BY SharesAreNumbers
  <2> QED
    BY <1>2, <2>1, <2>2, PartsOfWeight
<1>3. CASE results["NullCipher"] \in {"FAIL", "PASS"}
  <2>1. results["NullCipher"] # "UNKNOWN"
    BY <1>3
  <2> QED
    BY <1>1, <1>2, <1>3, <2>1, KnownUnit
<1>4. CASE \A r \in Ciphers : results[r] = "UNKNOWN"
  <2>1. \A q \in Rules : Catalogue[q].group = "CIPHER_SUITE" => results[q] = "UNKNOWN"
    BY <1>4, GroupsByName
  <2>2. results["NullCipher"] \notin {"FAIL", "PASS"}
    BY <1>1, <1>4
  <2> QED
    BY <1>1, <1>2, <2>1, <2>2, UnknownUnit
<1> QED
  BY <1>3, <1>4

LEMMA SilentWeighs ==
    ASSUME NEW results, DOMAIN results = Rules, Silent(results)
    PROVE  WeightOf(results, DefaultPolicy, {"UNKNOWN"}) >= 22
<1> DEFINE share(r) == Share(results, {"UNKNOWN"}, r)
<1>1. /\ "NullCipher" \in Rules /\ "NegotiatedVersion" \in Rules /\ "ForwardSecrecy" \in Rules
      /\ Catalogue["NullCipher"].group = "CIPHER_SUITE"
      /\ Catalogue["NegotiatedVersion"].group = "PROTOCOL_VERSION"
      /\ Catalogue["ForwardSecrecy"].group = "FORWARD_SECRECY"
      /\ MostOf["NullCipher"] = 10 /\ MostOf["NegotiatedVersion"] = 6
      /\ MostOf["ForwardSecrecy"] = 6
  BY CiphersAreOneGroup, NamesByGroup, RuleNames DEF Ciphers, MostOf, Rule
<1>2. /\ \A q \in Rules : Catalogue[q].group = "CIPHER_SUITE" => results[q] = "UNKNOWN"
      /\ \A q \in Rules : Catalogue[q].group = "PROTOCOL_VERSION" => results[q] = "UNKNOWN"
      /\ \A q \in Rules : Catalogue[q].group = "FORWARD_SECRECY" => results[q] = "UNKNOWN"
  BY GroupsByName DEF Silent
<1>3. PICK c \in Rules : Catalogue[c].group = "CIPHER_SUITE" /\ share(c) >= 10
  BY <1>1, <1>2, UnknownUnit
<1>4. share("NegotiatedVersion") >= 6
  BY <1>1, <1>2, UnknownUnit, GroupsByName
<1>5. share("ForwardSecrecy") >= 6
  BY <1>1, <1>2, UnknownUnit, GroupsByName
<1>6. c \in Ciphers /\ share(c) \in Nat /\ share("NegotiatedVersion") \in Nat
      /\ share("ForwardSecrecy") \in Nat
  BY <1>1, <1>3, GroupsByName, SharesAreNumbers
<1> HIDE DEF share
<1> DEFINE x == Shares(results, {"UNKNOWN"})
<1>7. /\ WeightOf(results, DefaultPolicy, {"UNKNOWN"})
           = CertificatePart(x) + MailPart(x) + CipherPart(x) + OtherPart(x)
      /\ CertificatePart(x) \in Nat /\ MailPart(x) \in Nat
      /\ CipherPart(x) \in Nat /\ OtherPart(x) \in Nat
      /\ share(c) <= CipherPart(x)
      /\ share("NegotiatedVersion") + share("ForwardSecrecy") <= OtherPart(x)
  BY <1>6, PartsOfWeight DEF share
<1> HIDE DEF x
<1> QED
  BY <1>3, <1>4, <1>5, <1>6, <1>7

(* compute_score gives the highest band, or none, to a session in which     *)
(* nothing worse than LOW was found: the one or two points deducted are a   *)
(* tenth at most of what was judged, because the cipher suite is judged, or *)
(* else so much is unknown that less than that is below the coverage floor. *)
THEOREM LowLeavesTheBand ==
    ASSUME CoverageFloor >= 50, NEW results, DOMAIN results = Rules, OnlyLow(results),
           \/ results["NullCipher"] \in {"FAIL", "PASS"}
           \/ \A r \in Ciphers : results[r] = "UNKNOWN",
           \/ results["UpgradeNotFollowed"] # "FAIL"
           \/ results["NegotiationOutcome"] # "FAIL"
           \/ Silent(results)
    PROVE  Band(Score(results, DefaultPolicy)) \in {"STRONG", "NOT_AVAILABLE"}
<1> DEFINE evaluated == WeightOf(results, DefaultPolicy, {"FAIL", "PASS"})
           unknown == WeightOf(results, DefaultPolicy, {"UNKNOWN"})
           failed == WeightOf(results, DefaultPolicy, {"FAIL"})
           score == Score(results, DefaultPolicy)
<1>1. evaluated \in 0..91 /\ unknown \in 0..91 /\ failed \in 0..91
  BY WeightIsBounded
<1>2. failed <= 2
  BY <1>1, LowDeductsLittle
<1>3. /\ \/ evaluated >= 10 \/ unknown >= 10
      /\ \/ failed <= 1 \/ evaluated >= 22 \/ unknown >= 22
  <2>1. evaluated >= 10 \/ unknown >= 10
    BY CiphersWeigh
  <2>2. CASE \/ results["UpgradeNotFollowed"] # "FAIL"
             \/ results["NegotiationOutcome"] # "FAIL"
    <3>1. failed <= 1
      BY <1>1, <2>2, LowDeductsLittle
    <3> QED
      BY <2>1, <3>1
  <2>3. CASE Silent(results)
    BY <2>1, <2>3, SilentWeighs
  <2> QED
    BY <2>2, <2>3
<1>4. score = IF evaluated = 0 \/ 100 * evaluated < CoverageFloor * (evaluated + unknown)
              THEN NoScore ELSE RoundHalfEven(100 * (evaluated - failed), evaluated)
  BY DEF Score
<1> HIDE DEF evaluated, unknown, failed, score
<1>5. score = -1 \/ (score \in Int /\ score >= 90)
  <2>1. CASE evaluated = 0 \/ 100 * evaluated < CoverageFloor * (evaluated + unknown)
    BY <1>4, <2>1, Zenon DEF NoScore
  <2>2. CASE evaluated # 0 /\ ~(100 * evaluated < CoverageFloor * (evaluated + unknown))
    <3>1. evaluated >= unknown
      <4>1. CoverageFloor \in 50..100
        BY PolicyAssumption
      <4>2. 50 * (evaluated + unknown) <= CoverageFloor * (evaluated + unknown)
        BY <1>1, <4>1
      <4>3. CoverageFloor * (evaluated + unknown) \in Nat
        BY <1>1, <4>1
      <4> QED
        BY <1>1, <2>2, <4>2, <4>3
    <3>2. 10 * failed <= evaluated
      BY <1>1, <1>2, <1>3, <3>1
    <3>3. score = RoundHalfEven(100 * (evaluated - failed), evaluated)
      BY <1>4, <2>2, Zenon
    <3>4. evaluated \in Nat /\ evaluated # 0 /\ failed \in Nat
      BY <1>1, <2>2
    <3> QED
      BY <3>2, <3>3, <3>4, TenthIsLittle
  <2> QED
    BY <2>1, <2>2
<1>6. Band(score) \in {"STRONG", "NOT_AVAILABLE"}
  <2>1. CASE score = -1
    BY <2>1 DEF Band, NoScore
  <2>2. CASE score \in Int /\ score >= 90
    BY <2>2 DEF Band, NoScore
  <2> QED
    BY <1>5, <2>1, <2>2
<1> QED
  BY <1>6 DEF score

-----------------------------------------------------------------------------
(* What the evidence of a session says of its TLS.                          *)
LEMMA EvidenceOfTls ==
    /\ \A f \in {"tls", "version", "suite", "fatal", "secrecy"} : Evidence[f] = TlsEvidence[f]
    /\ TlsEvidence.tls = (IF ~Analysed \/ peer = << >> THEN Analysed ELSE TRUE)
    /\ ~Analysed \/ peer = << >> =>
          /\ TlsEvidence.version = 0 /\ TlsEvidence.suite = NoValue
          /\ TlsEvidence.secrecy = NoValue /\ TlsEvidence.fatal = FALSE
    /\ Analysed /\ peer # << >> =>
          /\ TlsEvidence.version = IF walk.serverHello # Tls!None THEN peer[1].version ELSE 0
          /\ TlsEvidence.suite = IF walk.serverHello # Tls!None THEN peer[1].suite ELSE NoValue
          /\ TlsEvidence.secrecy = Tls!ForwardSecrecy(walk, peer[1].family)
          /\ TlsEvidence.fatal = (\E a \in walk.alerts : a.fatal)
<1> DEFINE named == {"tls", "version", "suite", "fatal", "secrecy"}
<1>1. CASE ~Analysed \/ peer = << >>
  <2>1. TlsEvidence = [NoTls EXCEPT !.tls = Analysed, !.handshake = "NOT_OBSERVED"]
    BY <1>1 DEF TlsEvidence
  <2>2. /\ named \subseteq DOMAIN TlsEvidence
        /\ TlsEvidence.tls = Analysed /\ TlsEvidence.version = 0 /\ TlsEvidence.suite = NoValue
        /\ TlsEvidence.secrecy = NoValue /\ TlsEvidence.fatal = FALSE
    BY <2>1 DEF NoTls
  <2> QED
    BY <1>1, <2>2 DEF Evidence, MailEvidence
<1>2. CASE Analysed /\ peer # << >>
  <2>1. /\ named \subseteq DOMAIN TlsEvidence
        /\ TlsEvidence.tls = TRUE
        /\ TlsEvidence.version = IF walk.serverHello # Tls!None THEN peer[1].version ELSE 0
        /\ TlsEvidence.suite = IF walk.serverHello # Tls!None THEN peer[1].suite ELSE NoValue
        /\ TlsEvidence.secrecy = Tls!ForwardSecrecy(walk, peer[1].family)
        /\ TlsEvidence.fatal = (\E a \in walk.alerts : a.fatal)
    BY <1>2 DEF TlsEvidence
  <2> QED
    BY <1>2, <2>1 DEF Evidence, MailEvidence
<1> QED
  BY <1>1, <1>2

-----------------------------------------------------------------------------
(* The parser records four events for a line at most, and an acceptance     *)
(* with its response where there is room for one more event.                *)
Responded(p) == p.outcome = "ACCEPTED" => p.response

Counts(p, r, k) ==
    /\ r.events <= p.events + k
    /\ Responded(p) => Responded(r)

(* What changes nothing that is counted.                                    *)
Keeps(q, r) == r.events = q.events /\ r.outcome = q.outcome /\ r.response = q.response

(* One event at most, and nothing else.                                     *)
LEMMA AddEventCounts ==
    ASSUME NEW p \in Parsers
    PROVE  LET q == Mail!AddEvent(p)
           IN  /\ q \in Parsers /\ q.outcome = p.outcome /\ q.response = p.response
               /\ q.events <= p.events + 1 /\ q.events \in Nat /\ p.events \in Nat
<1>1. p.events + 1 \in Nat /\ p.events \in Nat
  BY DEF Parsers
<1>2. ASSUME NEW n \in Nat
      PROVE  LET q == [p EXCEPT !.events = n]
             IN  q \in Parsers /\ q.outcome = p.outcome /\ q.response = p.response /\ q.events = n
  BY <1>2 DEF Parsers
<1> DEFINE n == p.events + 1
           q == [p EXCEPT !.events = n]
<1>3. Mail!AddEvent(p) \in {p, q}
  BY DEF Mail!AddEvent
<1>4. q \in Parsers /\ q.outcome = p.outcome /\ q.response = p.response /\ q.events = n
  <2> HIDE DEF n
  <2>1. n \in Nat
    BY <1>1 DEF n
  <2> QED
    BY <1>2, <2>1
<1> HIDE DEF q
<1>5. CASE Mail!AddEvent(p) = p
  BY <1>1, <1>5
<1>6. CASE Mail!AddEvent(p) = q
  BY <1>1, <1>4, <1>6
<1> QED
  BY <1>3, <1>5, <1>6

(* An operation that records an event and changes what is not counted.      *)
LEMMA EventCounts ==
    ASSUME NEW p \in Parsers, NEW r, Keeps(Mail!AddEvent(p), r)
    PROVE  Counts(p, r, 1)
<1> DEFINE q == Mail!AddEvent(p)
<1>1. /\ q.outcome = p.outcome /\ q.response = p.response
      /\ q.events <= p.events + 1 /\ q.events \in Nat /\ p.events \in Nat
  BY AddEventCounts
<1>2. r.events = q.events /\ r.outcome = q.outcome /\ r.response = q.response
  BY DEF Keeps
<1> HIDE DEF q
<1>3. r.events <= p.events + 1
  BY <1>1, <1>2
<1>4. Responded(p) => Responded(r)
  BY <1>1, <1>2, Zenon DEF Responded
<1> QED
  BY <1>3, <1>4, Zenon DEF Counts

(* The changes the operations of the parser make besides.                   *)
LEMMA FieldsKeep ==
    ASSUME NEW q \in Parsers, NEW a, NEW b, NEW c, NEW s
    PROVE  /\ Keeps(q, [q EXCEPT !.gapSeen = TRUE, !.unsafe = a, !.pending = s])
           /\ Keeps(q, [q EXCEPT !.unsafe = a])
           /\ Keeps(q, [q EXCEPT !.foreign = a])
           /\ Keeps(q, [q EXCEPT !.reply = a])
           /\ Keeps(q, [q EXCEPT !.upgradeSeen = TRUE, !.advertised = a])
           /\ Keeps(q, [q EXCEPT !.awaiting = a])
           /\ Keeps(q, [q EXCEPT !.greeting = a])
           /\ Keeps(q, [q EXCEPT !.recognised = a, !.pending = s])
           /\ Keeps(q, [[q EXCEPT !.recognised = a, !.pending = s]
                           EXCEPT !.upgradeSeen = TRUE, !.requested = b])
           /\ Keeps(q, [[q EXCEPT !.recognised = a, !.pending = s] EXCEPT !.attempts = b])
           /\ Keeps(q, [q EXCEPT !.pending = s, !.matched = a])
<1>1. /\ Keeps(q, [q EXCEPT !.gapSeen = TRUE, !.unsafe = a, !.pending = s])
      /\ Keeps(q, [q EXCEPT !.unsafe = a])
      /\ Keeps(q, [q EXCEPT !.foreign = a])
      /\ Keeps(q, [q EXCEPT !.reply = a])
  BY DEF Keeps, Parsers
<1>2. /\ Keeps(q, [q EXCEPT !.upgradeSeen = TRUE, !.advertised = a])
      /\ Keeps(q, [q EXCEPT !.awaiting = a])
      /\ Keeps(q, [q EXCEPT !.greeting = a])
  BY DEF Keeps, Parsers
<1>3. /\ Keeps(q, [q EXCEPT !.recognised = a, !.pending = s])
      /\ Keeps(q, [q EXCEPT !.pending = s, !.matched = a])
  BY DEF Keeps, Parsers
<1>4. /\ Keeps(q, [[q EXCEPT !.recognised = a, !.pending = s]
                      EXCEPT !.upgradeSeen = TRUE, !.requested = b])
      /\ Keeps(q, [[q EXCEPT !.recognised = a, !.pending = s] EXCEPT !.attempts = b])
  BY DEF Keeps, Parsers
<1> QED
  BY <1>1, <1>2, <1>3, <1>4

(* One operation after another.                                             *)
LEMMA CountsTwice ==
    ASSUME NEW p \in Parsers, NEW q \in Parsers, NEW r \in Parsers,
           NEW k \in Nat, NEW m \in Nat, Counts(p, q, k), Counts(q, r, m)
    PROVE  Counts(p, r, k + m)
<1>1. p.events \in Nat /\ q.events \in Nat /\ r.events \in Nat
  BY DEF Parsers
<1>2. /\ r.events <= q.events + m /\ q.events <= p.events + k
      /\ Responded(p) => Responded(q)
      /\ Responded(q) => Responded(r)
  BY Zenon DEF Counts
<1>3. r.events <= p.events + (k + m)
  BY <1>1, <1>2
<1>4. Responded(p) => Responded(r)
  BY <1>2, Zenon
<1> QED
  BY <1>3, <1>4, Zenon DEF Counts

(* What is counted of each operation of the parser: one event and, of an    *)
(* acceptance for which there is room, its response.                        *)
LEMMA NoteGapCounts ==
    ASSUME NEW p \in Parsers
    PROVE  Counts(p, Mail!NoteGap(p), 1)
<1> DEFINE q == Mail!AddEvent(p)
           u == q.unsafe \/ Mail!Outstanding(p, Mail!IsUpgrade)
<1>1. q \in Parsers
  BY AddEventCounts
<1>2. Mail!NoteGap(p) = [q EXCEPT !.gapSeen = TRUE, !.unsafe = u, !.pending = << >>]
  BY <1>1 DEF Mail!NoteGap
<1> HIDE DEF u
<1>3. Keeps(q, Mail!NoteGap(p))
  <2> HIDE DEF q
  <2>1. \A s : Keeps(q, [q EXCEPT !.gapSeen = TRUE, !.unsafe = u, !.pending = s])
    BY <1>1, FieldsKeep
  <2> QED
    BY <1>2, <2>1
<1> QED
  BY <1>3, EventCounts

LEMMA UnusableCounts ==
    ASSUME NEW p \in Parsers
    PROVE  Counts(p, Mail!Unusable(p), 1)
<1> DEFINE q == Mail!AddEvent(p)
           u == q.unsafe \/ Mail!Outstanding(p, Mail!IsUpgrade) \/ p.requested
<1>1. q \in Parsers
  BY AddEventCounts
<1>2. Mail!Unusable(p) = [q EXCEPT !.unsafe = u]
  BY <1>1 DEF Mail!Unusable
<1> HIDE DEF u
<1>3. Keeps(q, Mail!Unusable(p))
  <2> HIDE DEF q
  <2> QED
    BY <1>1, <1>2, FieldsKeep
<1> QED
  BY <1>3, EventCounts

LEMMA ForeignCounts ==
    ASSUME NEW p \in Parsers
    PROVE  Counts(p, Mail!Foreign(p), 1)
<1> DEFINE q == Mail!AddEvent(p)
           n == q.foreign + 1
<1>1. q \in Parsers
  BY AddEventCounts
<1>2. Mail!Foreign(p) = [q EXCEPT !.foreign = n]
  BY <1>1 DEF Mail!Foreign
<1> HIDE DEF n
<1>3. Keeps(q, Mail!Foreign(p))
  <2> HIDE DEF q
  <2> QED
    BY <1>1, <1>2, FieldsKeep
<1> QED
  BY <1>3, EventCounts

LEMMA AdvertiseCounts ==
    ASSUME NEW p \in Parsers
    PROVE  Counts(p, Mail!Advertise(p), 1)
<1> DEFINE q == Mail!AddEvent(p)
           a == Mail!Room(p)
<1>1. q \in Parsers
  BY AddEventCounts
<1>2. Mail!Advertise(p) = [q EXCEPT !.upgradeSeen = TRUE, !.advertised = a]
  BY <1>1 DEF Mail!Advertise
<1> HIDE DEF a
<1>3. Keeps(q, Mail!Advertise(p))
  <2> HIDE DEF q
  <2> QED
    BY <1>1, <1>2, FieldsKeep
<1> QED
  BY <1>3, EventCounts

LEMMA CommandCounts ==
    ASSUME NEW p \in Parsers, NEW word, NEW kind
    PROVE  Counts(p, Mail!Command(p, word, kind, 0), 1)
<1> DEFINE q == Mail!AddEvent(p)
           n == q.recognised + 1
           s == Append(q.pending, [verb |-> word, kind |-> kind, tag |-> 0])
           b == Mail!Room(p)
           c == [q EXCEPT !.recognised = n, !.pending = s]
           t == c.attempts \cup {Mail!UpgradeState(c)}
<1>1. q \in Parsers
  BY AddEventCounts
<1>2. Mail!Command(p, word, kind, 0) \in
         {[c EXCEPT !.upgradeSeen = TRUE, !.requested = b], [c EXCEPT !.attempts = t], c}
  BY <1>1 DEF Mail!Command, Mail!RecordAuth
<1>3. Keeps(q, Mail!Command(p, word, kind, 0))
  <2> HIDE DEF q, n, s, b
  <2>1. /\ Keeps(q, [c EXCEPT !.upgradeSeen = TRUE, !.requested = b]) /\ Keeps(q, c)
        /\ \A a : Keeps(q, [c EXCEPT !.attempts = a])
    BY <1>1, FieldsKeep
  <2> HIDE DEF c
  <2> QED
    BY <1>2, <2>1
<1> QED
  BY <1>3, EventCounts

LEMMA ResolveCounts ==
    ASSUME NEW p \in Parsers, Mail!Room(p), NEW outcome
    PROVE  /\ Counts(p, Mail!Resolve(p, outcome), 1)
           /\ Counts(p, [Mail!AddEvent(p) EXCEPT !.response = Mail!Room(p), !.unsafe = TRUE], 1)
<1> DEFINE q == Mail!AddEvent(p)
           h == (outcome = "ACCEPTED")
           r == [q EXCEPT !.outcome = outcome, !.response = TRUE, !.halt = h]
           u == [q EXCEPT !.response = TRUE, !.unsafe = TRUE]
<1>1. q \in Parsers /\ q.events <= p.events + 1
  BY AddEventCounts
<1>2. /\ Mail!Resolve(p, outcome) = [q EXCEPT !.outcome = outcome, !.response = Mail!Room(p),
                                              !.halt = h]
      /\ Mail!Room(p) = TRUE
  BY DEF Mail!Resolve, Mail!Room
<1> HIDE DEF q, h
<1>3. r.events = q.events /\ r.response = TRUE /\ u.events = q.events /\ u.response = TRUE
  BY <1>1 DEF Parsers
<1> HIDE DEF r, u
<1>4. Counts(p, r, 1) /\ Counts(p, u, 1)
  BY <1>1, <1>3 DEF Counts, Responded
<1> QED
  BY <1>2, <1>4 DEF r, u, q

(* What counts few counts no more than many.                                *)
LEMMA CountsMore ==
    ASSUME NEW p \in Parsers, NEW r \in Parsers, NEW k \in Nat, NEW m \in Nat, k <= m,
           Counts(p, r, k)
    PROVE  Counts(p, r, m)
<1>1. p.events \in Nat /\ r.events \in Nat
  BY DEF Parsers
<1>2. r.events <= p.events + k /\ (Responded(p) => Responded(r))
  BY DEF Counts
<1>3. r.events <= p.events + m
  BY <1>1, <1>2
<1> QED
  BY <1>2, <1>3 DEF Counts

(* A line of the client, the final line of a reply, a line of the server.   *)
LEMMA ClientLineCounts ==
    ASSUME NEW p \in Parsers, NEW l
    PROVE  Counts(p, Mail!SmtpClientLine(p, l), 1)
<1>1. p.body = "none"
  BY DEF Parsers
<1>2. \/ Mail!SmtpClientLine(p, l) = Mail!Continuation(p)
      \/ Mail!SmtpClientLine(p, l) = Mail!Unusable(p)
      \/ Mail!SmtpClientLine(p, l) = Mail!Foreign(p)
      \/ Mail!SmtpClientLine(p, l)
            = Mail!Command(p, Mail!SmtpVerb(l), Mail!SmtpKind(Mail!SmtpVerb(l)), 0)
  BY <1>1 DEF Mail!SmtpClientLine
<1>3. Counts(p, Mail!Continuation(p), 1)
  <2> DEFINE q == Mail!AddEvent(p)
  <2>1. q \in Parsers /\ Mail!Continuation(p) = [q EXCEPT !.awaiting = FALSE]
    BY AddEventCounts DEF Mail!Continuation
  <2>2. Keeps(q, Mail!Continuation(p))
    <3> HIDE DEF q
    <3> QED
      BY <2>1, FieldsKeep
  <2> QED
    BY <2>2, EventCounts
<1> QED
  BY <1>2, <1>3, UnusableCounts, ForeignCounts, CommandCounts

LEMMA ReplyCounts ==
    ASSUME NEW p, Notes(p), ~p.halt, Mail!Room(p), NEW code \in Replies,
           NEW marks \in Seq(BOOLEAN)
    PROVE  Counts(p, Mail!SmtpReply(p, code, marks), 3)
<1> SUFFICES ASSUME NEW r, r = Mail!SmtpReply(p, code, marks)
             PROVE  Counts(p, r, 3)
  OBVIOUS
<1>1. p \in Parsers /\ p.pending \in Seq(Entries)
  BY DEF Notes, Parsers
<1>2. r \in Parsers
  BY ReplyNotes DEF Notes
<1>3. CASE p.pending = << >>
  <2> DEFINE q == Mail!AddEvent(p)
             g == q.greeting \/ (p.recognised = 0 /\ code \in Mail!SmtpGreetings)
  <2>1. r = [q EXCEPT !.greeting = g] /\ q \in Parsers
    BY <1>1, <1>3, AddEventCounts DEF Mail!SmtpReply, Mail!SmtpUnmatched
  <2>2. Keeps(q, r)
    <3> HIDE DEF q, g
    <3> QED
      BY <2>1, FieldsKeep
  <2>3. Counts(p, r, 1)
    BY <1>1, <2>2, EventCounts
  <2> QED
    BY <1>1, <1>2, <2>3, CountsMore
<1>4. CASE p.pending # << >>
  <2> DEFINE command == Head(p.pending)
             t == Tail(p.pending)
             m == p.matched + 1
             q == [p EXCEPT !.pending = t, !.matched = m]
  <2>1. command \in Entries /\ t \in Seq(Entries)
    BY <1>1, <1>4
  <2>2. m \in Nat
    BY <1>1 DEF Parsers
  <2>3. command.verb # "DATA"
    BY <2>1 DEF Entries, Verbs
  <2> HIDE DEF command, t, m
  <2>4. q \in Parsers /\ Keeps(p, q)
    <3>1. q \in Parsers
      BY <1>1, <2>1, <2>2 DEF Parsers
    <3> QED
      BY <1>1, <3>1, FieldsKeep
  <2> HIDE DEF q
  <2>5. r = IF Mail!IsAuth(command) /\ code = "334"
              THEN [Mail!AddEvent(p) EXCEPT !.awaiting = TRUE]
            ELSE IF Mail!IsUpgrade(command) THEN Mail!SmtpResolve(q, code)
            ELSE IF Mail!IsAuth(command) THEN Mail!SmtpFinishAuth(q)
            ELSE IF command.verb = "EHLO" THEN Mail!SmtpCapabilities(Mail!AddEvent(q), marks)
            ELSE Mail!AddEvent(q)
    BY <1>4, <2>3 DEF Mail!SmtpReply, command, q, t, m
  <2>6. q.events = p.events /\ Responded(q) = Responded(p) /\ Mail!Room(q)
    BY <2>4 DEF Keeps, Responded, Mail!Room
  <2>7. \A k : Counts(q, r, k) => Counts(p, r, k)
    BY <2>6 DEF Counts
  <2>8. CASE Mail!IsAuth(command) /\ code = "334"
    <3> DEFINE a == Mail!AddEvent(p)
    <3>1. r = [a EXCEPT !.awaiting = TRUE] /\ a \in Parsers
      BY <1>1, <2>5, <2>8, AddEventCounts
    <3>2. Keeps(a, r)
      <4> HIDE DEF a
      <4> QED
        BY <3>1, FieldsKeep
    <3>3. Counts(p, r, 1)
      BY <1>1, <3>2, EventCounts
    <3> QED
      BY <1>1, <1>2, <3>3, CountsMore
  <2>9. CASE ~(Mail!IsAuth(command) /\ code = "334") /\ Mail!IsUpgrade(command)
    <3>1. r = Mail!SmtpResolve(q, code)
      BY <2>5, <2>9
    <3>2. \/ \E outcome : r = Mail!Resolve(q, outcome)
          \/ r = [Mail!AddEvent(q) EXCEPT !.response = Mail!Room(q), !.unsafe = TRUE]
      <4>1. CASE code = "220"
        BY <3>1, <4>1 DEF Mail!SmtpResolve
      <4>2. CASE code = "454"
        BY <3>1, <4>2 DEF Mail!SmtpResolve
      <4>3. CASE code = "535"
        BY <3>1, <4>3 DEF Mail!SmtpResolve
      <4>4. CASE code \in {"250", "334", "235"}
        BY <3>1, <4>4 DEF Mail!SmtpResolve
      <4> QED
        BY <4>1, <4>2, <4>3, <4>4 DEF Replies
    <3>3. Counts(q, r, 1)
      BY <2>4, <2>6, <3>2, ResolveCounts
    <3> QED
      BY <1>1, <1>2, <2>7, <3>3, CountsMore
  <2>10. CASE /\ ~(Mail!IsAuth(command) /\ code = "334") /\ ~Mail!IsUpgrade(command)
              /\ Mail!IsAuth(command)
    <3> DEFINE a == Mail!AddEvent(q)
    <3>1. r = [a EXCEPT !.awaiting = FALSE] /\ a \in Parsers
      BY <2>4, <2>5, <2>10, AddEventCounts DEF Mail!SmtpFinishAuth
    <3>2. Keeps(a, r)
      <4> HIDE DEF a
      <4> QED
        BY <3>1, FieldsKeep
    <3>3. Counts(q, r, 1)
      BY <2>4, <3>2, EventCounts
    <3> QED
      BY <1>1, <1>2, <2>7, <3>3, CountsMore
  <2>11. CASE ~Mail!IsUpgrade(command) /\ ~Mail!IsAuth(command)
    <3> DEFINE a == Mail!AddEvent(q)
               b == Mail!AddEvent(a)
    <3>1. r \in {a, b, Mail!Advertise(b)}
      BY <2>5, <2>11 DEF Mail!SmtpCapabilities
    <3>2. a \in Parsers /\ Counts(q, a, 1)
      <4>1. Keeps(a, a)
        BY DEF Keeps
      <4> QED
        BY <2>4, <4>1, EventCounts, AddEventCounts
    <3> HIDE DEF a
    <3>3. b \in Parsers /\ Counts(a, b, 1)
      <4>1. Keeps(b, b)
        BY DEF Keeps
      <4> QED
        BY <3>2, <4>1, EventCounts, AddEventCounts
    <3> HIDE DEF b
    <3>4. Counts(b, Mail!Advertise(b), 1)
      BY <3>3, AdvertiseCounts
    <3>5. Counts(q, b, 1 + 1)
      BY <2>4, <3>2, <3>3, CountsTwice
    <3>6. r = Mail!Advertise(b) => Counts(q, r, 1 + 1 + 1)
      BY <1>2, <2>4, <3>3, <3>4, <3>5, CountsTwice
    <3>7. Counts(q, r, 1) \/ Counts(q, r, 2) \/ Counts(q, r, 3)
      BY <3>1, <3>2, <3>5, <3>6
    <3> QED
      BY <1>1, <1>2, <2>7, <3>7, CountsMore
  <2> QED
    BY <2>8, <2>9, <2>10, <2>11
<1> QED
  BY <1>3, <1>4

LEMMA ServerLineCounts ==
    ASSUME NEW p, Notes(p), ~p.halt, Mail!Room(p), NEW l \in SmtpLines(Replies \cup {"text"})
    PROVE  Counts(p, Mail!SmtpServerLine(p, l), 3)
<1> SUFFICES ASSUME NEW r, r = Mail!SmtpServerLine(p, l)
             PROVE  Counts(p, r, 3)
  OBVIOUS
<1>1. p \in Parsers
  BY DEF Notes
<1>2. p.reply \in Seq(BOOLEAN) /\ << >> \in Seq(BOOLEAN)
  <2>1. p.reply \in Seq(BOOLEAN)
    BY <1>1 DEF Parsers
  <2> QED
    BY <2>1
<1>3. l.offers \in BOOLEAN /\ l.word \in Replies \cup {"text"}
  BY DEF SmtpLines
<1> DEFINE marks == Append(p.reply, l.offers)
<1>4. marks \in Seq(BOOLEAN)
  BY <1>2, <1>3
<1>5. Mail!SmtpCode(l) = IF l.word = "text" THEN Mail!NoVerb ELSE l.word
  BY <1>3 DEF Mail!SmtpCode, Mail!SmtpCodes, Mail!SmtpGreetings, Replies
<1>6. Mail!NoVerb \notin Replies
  BY DEF Mail!NoVerb, Replies
<1> DEFINE u == Mail!Unusable(p)
           f == Mail!Foreign(p)
           e == [p EXCEPT !.reply = << >>]
           m == [p EXCEPT !.reply = marks]
<1>7. \/ r = [u EXCEPT !.reply = << >>]
      \/ r = [f EXCEPT !.reply = << >>]
      \/ r = m
      \/ l.word \in Replies /\ r = Mail!SmtpReply(e, l.word, marks)
  BY <1>3, <1>5, <1>6 DEF Mail!SmtpServerLine
<1>8. u \in Parsers /\ f \in Parsers
  BY <1>1, UnusableLeaves, ForeignLeaves DEF Leaves
<1>9. Counts(p, u, 1) /\ Counts(p, f, 1)
  BY <1>1, UnusableCounts, ForeignCounts
<1>10. Keeps(p, m) /\ Keeps(p, e)
  <2> HIDE DEF marks
  <2> QED
    BY <1>1, FieldsKeep
<1>11. Notes(e) /\ e.halt = p.halt
  BY <1>1, <1>2, ReplyLeaves, LeavesNotes DEF Leaves
<1>12. r \in Parsers
  BY ServerLineNotes DEF Notes
<1> HIDE DEF marks, u, f, e, m
<1>13. ASSUME NEW q \in Parsers, Counts(p, q, 1), r = [q EXCEPT !.reply = << >>]
       PROVE  Counts(p, r, 1)
  <2>1. Keeps(q, r)
    BY <1>13, FieldsKeep
  <2> QED
    BY <1>13, <2>1 DEF Keeps, Counts, Responded
<1>14. CASE r = [u EXCEPT !.reply = << >>] \/ r = [f EXCEPT !.reply = << >>]
  <2>1. Counts(p, r, 1)
    BY <1>8, <1>9, <1>13, <1>14
  <2> QED
    BY <1>1, <1>12, <2>1, CountsMore
<1>15. CASE r = m
  <2>1. Counts(p, r, 0)
    <3>1. r.events = p.events /\ r.outcome = p.outcome /\ r.response = p.response
      BY <1>10, <1>15 DEF Keeps
    <3>2. p.events \in Nat
      BY <1>1 DEF Parsers
    <3>3. r.events <= p.events + 0
      BY <3>1, <3>2
    <3>4. Responded(p) => Responded(r)
      BY <3>1, Zenon DEF Responded
    <3> QED
      BY <3>3, <3>4 DEF Counts
  <2> QED
    BY <1>1, <1>12, <2>1, CountsMore
<1>16. CASE l.word \in Replies /\ r = Mail!SmtpReply(e, l.word, marks)
  <2>1. Mail!Room(e) /\ e.events = p.events /\ (Responded(p) => Responded(e))
    BY <1>10 DEF Keeps, Mail!Room, Responded
  <2>2. Counts(e, r, 3)
    BY <1>4, <1>11, <1>16, <2>1, ReplyCounts
  <2> QED
    BY <2>1, <2>2 DEF Counts
<1> QED
  BY <1>7, <1>14, <1>15, <1>16

(* A line from either side, with the hole before it.                        *)
LEMMA ParseCounts ==
    ASSUME NEW p, Notes(p), NEW client \in BOOLEAN, MaxEvents \in Nat,
           p.events + 4 <= MaxEvents,
           NEW l \in SmtpLines(IF client THEN Verbs \cup {"text"} ELSE Replies \cup {"text"})
    PROVE  Counts(p, Mail!SmtpParse(p, l, client), 4)
<1> DEFINE r == Mail!SmtpParse(p, l, client)
           q == IF l.gap THEN Mail!NoteGap(p) ELSE p
<1>1. p.halt \in BOOLEAN /\ p.stopped = FALSE /\ p \in Parsers /\ p.events \in Nat
  BY DEF Notes, Parsers
<1>2. r \in Parsers
  BY ParseNotes DEF Notes
<1>3. Keeps(p, p) /\ Counts(p, p, 0)
  BY <1>1 DEF Keeps, Counts
<1>4. CASE p.halt
  <2>1. r = p
    BY <1>4 DEF Mail!SmtpParse
  <2> QED
    BY <1>1, <1>3, <2>1, CountsMore
<1>5. CASE ~p.halt
  <2>1. r = IF client THEN Mail!SmtpClientLine(q, l) ELSE Mail!SmtpServerLine(q, l)
    BY <1>1, <1>5 DEF Mail!SmtpParse
  <2>2. Notes(q) /\ ~q.halt /\ q \in Parsers
    BY <1>5, NoteGapNotes DEF Notes
  <2>3. Counts(p, q, 1)
    <3>1. CASE l.gap
      BY <1>1, <3>1, NoteGapCounts
    <3>2. CASE ~l.gap
      BY <1>1, <1>3, <3>2, CountsMore
    <3> QED
      BY <3>1, <3>2
  <2> HIDE DEF r, q
  <2>4. Mail!Room(q)
    <3>1. q.events \in Nat /\ q.events <= p.events + 1
      BY <2>2, <2>3 DEF Counts, Parsers
    <3> QED
      BY <1>1, <3>1 DEF Mail!Room
  <2>5. Counts(q, r, 3)
    <3>1. CASE client
      BY <1>2, <2>1, <2>2, <3>1, ClientLineCounts, CountsMore
    <3>2. CASE ~client
      BY <2>1, <2>2, <2>4, <3>2, ServerLineCounts
    <3> QED
      BY <3>1, <3>2
  <2>6. Counts(p, r, 1 + 3)
    BY <1>1, <1>2, <2>2, <2>3, <2>5, CountsTwice
  <2> QED
    BY <2>6 DEF r
<1> QED
  BY <1>1, <1>4, <1>5

-----------------------------------------------------------------------------
(* The event limit of the parsers is beyond the lines of the dialogue: no   *)
(* event of it is suppressed.                                               *)
Ample == MaxEvents \in Nat /\ MaxLines \in Nat /\ 4 * MaxLines <= MaxEvents

(* An accepted upgrade was recorded with its response.                      *)
Tallied ==
    /\ lines \in Nat /\ lines <= MaxLines
    /\ parser.events <= 4 * lines
    /\ Responded(parser)

(* A record that identifies a handshake was framed, or no hello of the      *)
(* server is known.                                                         *)
Carried ==
    {Whole(m) : m \in {"CH", "SH12", "SH13", "CERT", "SKE", "SHD", "CKE"}}
      \cup {Plain("ccs", "ccs"), Plain("appdata", "secret"), Plain("alert", "fatal")}

Shown ==
    /\ framed \in [Directions -> Seq(Carried)]
    /\ \/ \E d \in Directions : \E i \in DOMAIN framed[d] :
              IdentifiedHandshake(framed[d][i]) # Nothing
       \/ "serverHello" \in DOMAIN walk /\ walk.serverHello = Tls!None

(* The peers perform a handshake of the kinds there are.                    *)
Met == peer # << >> => peer[1] \in Handshakes

(* The records of every handshake.                                          *)
LEMMA RecordsAreCarried ==
    ASSUME NEW h \in Handshakes, NEW i \in DOMAIN h.records
    PROVE  h.records[i].dir \in Directions /\ h.records[i].rec \in Carried
<1> DEFINE R == [dir : Directions, rec : Carried]
<1>1. \A d \in Directions, c \in Carried : From(d, c) \in R
  BY DEF From
<1>2. \A m \in {"CH", "SH12", "SH13", "CERT", "SKE", "SHD", "CKE"} : Whole(m) \in Carried
  BY DEF Carried
<1>3. Plain("ccs", "ccs") \in Carried /\ Plain("appdata", "secret") \in Carried
      /\ Plain("alert", "fatal") \in Carried
  BY DEF Carried
<1>4. "client" \in Directions /\ "server" \in Directions
  BY DEF Directions
<1>5. /\ From("client", Whole("CH")) \in R /\ From("server", Whole("SH13")) \in R
      /\ From("server", Whole("SH12")) \in R /\ From("server", Whole("CERT")) \in R
      /\ From("server", Whole("SKE")) \in R /\ From("server", Whole("SHD")) \in R
      /\ From("client", Whole("CKE")) \in R /\ From("client", Plain("ccs", "ccs")) \in R
      /\ From("server", Plain("appdata", "secret")) \in R
      /\ \A d \in Directions : From(d, Plain("alert", "fatal")) \in R
  BY <1>1, <1>2, <1>3, <1>4
<1> HIDE DEF R
<1>6. ASSUME NEW version, NEW suite, NEW family, NEW ephemeral, NEW offered, NEW chain,
             NEW hybrid
      PROVE  Handshake(version, suite, family, ephemeral, offered, chain, hybrid).records
                \in Seq(R)
  <2> DEFINE a == << From("client", Whole("CH")) >>
             b == << From("server", Whole("SH13")) >>
             c == << From("server", Whole("SH12")) >>
             x == IF chain = << >> THEN << >> ELSE << From("server", Whole("CERT")) >>
             y == IF ephemeral THEN << From("server", Whole("SKE")) >> ELSE << >>
             z == << From("server", Whole("SHD")), From("client", Whole("CKE")) >>
             e == << From("client", Plain("ccs", "ccs")),
                     From("server", Plain("appdata", "secret")) >>
             m == IF version = 4 THEN b ELSE c \o x \o y \o z
  <2>1. Handshake(version, suite, family, ephemeral, offered, chain, hybrid).records
          = a \o m \o e
    BY DEF Handshake
  <2>2. a \in Seq(R) /\ b \in Seq(R) /\ c \in Seq(R) /\ x \in Seq(R) /\ y \in Seq(R)
        /\ z \in Seq(R) /\ e \in Seq(R)
    BY <1>5
  <2> HIDE DEF a, b, c, x, y, z, e
  <2>3. \A s, t \in Seq(R) : s \o t \in Seq(R)
    OBVIOUS
  <2>4. m \in Seq(R)
    BY <2>2, <2>3
  <2> HIDE DEF m
  <2> QED
    BY <2>1, <2>2, <2>3, <2>4
<1>7. ASSUME NEW n \in 1..3, NEW g, "records" \in DOMAIN g, g.records \in Seq(R),
             n <= Len(g.records), NEW d \in Directions
      PROVE  AlertAfter(n, g, d).records \in Seq(R)
  <2>1. SubSeq(g.records, 1, n) \in Seq(R) /\ << From(d, Plain("alert", "fatal")) >> \in Seq(R)
    BY <1>5, <1>7
  <2>2. \A s, t \in Seq(R) : s \o t \in Seq(R)
    OBVIOUS
  <2>3. AlertAfter(n, g, d).records
           = SubSeq(g.records, 1, n) \o << From(d, Plain("alert", "fatal")) >>
    BY <1>7 DEF AlertAfter
  <2> QED
    BY <2>1, <2>2, <2>3
<1>8. "records" \in DOMAIN Good /\ Good.records \in Seq(R) /\ Len(Good.records) >= 3
  <2>1. Good.records \in Seq(R) /\ "records" \in DOMAIN Good
    BY <1>6 DEF Good, Handshake
  <2>2. Len(Good.records) >= 3
    <3> DEFINE a == << From("client", Whole("CH")) >>
               m == << From("server", Whole("SH12")) >>
                     \o << From("server", Whole("CERT")) >> \o << From("server", Whole("SKE")) >>
                     \o << From("server", Whole("SHD")), From("client", Whole("CKE")) >>
               e == << From("client", Plain("ccs", "ccs")),
                       From("server", Plain("appdata", "secret")) >>
    <3>1. Good.records = a \o m \o e
      BY DEF Good, Handshake
    <3>2. a \in Seq(R) /\ m \in Seq(R) /\ e \in Seq(R) /\ Len(a) = 1 /\ Len(e) = 2
      BY <1>5
    <3> HIDE DEF a, m, e
    <3>3. \A s, t \in Seq(R) : s \o t \in Seq(R) /\ Len(s \o t) = Len(s) + Len(t)
      OBVIOUS
    <3>4. a \o m \in Seq(R) /\ Len(a \o m) = Len(a) + Len(m)
      BY <3>2, <3>3
    <3>5. Len(a \o m \o e) = Len(a) + Len(m) + Len(e)
      BY <3>2, <3>3, <3>4
    <3>6. Len(m) \in Nat
      BY <3>2
    <3> QED
      BY <3>1, <3>2, <3>5, <3>6
  <2> QED
    BY <2>1, <2>2
<1>9. h.records \in Seq(R)
  <2>1. CASE h = AlertAfter(1, Good, "server") \/ h = AlertAfter(3, Good, "client")
    BY <1>4, <1>7, <1>8, <2>1
  <2>2. \A v, s, f, e, o, c, y : Handshake(v, s, f, e, o, c, y).records \in Seq(R)
    BY <1>6
  <2>3. CASE \E v, s, f, e, o, c, y : h = Handshake(v, s, f, e, o, c, y)
    BY <2>2, <2>3
  <2>4. CASE h = Good
    BY <1>8, <2>4
  <2>5. \/ h = Good \/ h = AlertAfter(1, Good, "server") \/ h = AlertAfter(3, Good, "client")
        \/ \E v, s, f, e, o, c, y : h = Handshake(v, s, f, e, o, c, y)
    <3> DEFINE k0 == << [Leaf EXCEPT !.issuer = "other"], [Other EXCEPT !.fits = FALSE] >>
               k1 == << [Leaf EXCEPT !.names = {"elsewhere"}, !.issuer = "other"], Other >>
               k2 == << [Leaf EXCEPT !.key = "RSA", !.bits = 1024, !.hash = "sha1",
                                     !.from = Now + 1, !.until = Now + 2,
                                     !.issuer = "other"],
                        [Other EXCEPT !.issuer = "root"] >>
               k3 == << [Leaf EXCEPT !.decodes = FALSE], Root >>
               k4 == << [Leaf EXCEPT !.issuer = "other"], [Other EXCEPT !.until = Now - 1] >>
               k5 == << [Leaf EXCEPT !.until = Now - 1, !.usage = {"clientAuth"}] >>
    <3>1. h \in { Good, AlertAfter(1, Good, "server"), AlertAfter(3, Good, "client"),
                  Handshake(4, "TLS13_GCM", "ECDHE", TRUE, {3, 4}, << Leaf >>, TRUE),
                  Handshake(3, "ECDHE_NULL", "ECDHE", TRUE, {3}, k0, FALSE),
                  Handshake(3, "ANON_3DES", "ANON", FALSE, {3}, << >>, FALSE),
                  Handshake(1, "RSA_CBC", "RSA", FALSE, {1, 3}, k1, FALSE),
                  Handshake(3, "RSA_RC4", "RSA", FALSE, {3}, k2, FALSE),
                  Handshake(3, "UNREGISTERED", "unregistered", FALSE, {3}, k3, FALSE),
                  Handshake(3, "ECDHE_GCM", "ECDHE", TRUE, {3, 4}, k4, FALSE),
                  Handshake(3, "ECDHE_GCM", "ECDHE", TRUE, {3, 4}, k5, FALSE) }
      BY Zenon DEF Handshakes
    <3> HIDE DEF k0, k1, k2, k3, k4, k5
    <3> QED
      BY <3>1
  <2> QED
    BY <2>1, <2>3, <2>4, <2>5
<1>10. h.records[i] \in R
  BY <1>9
<1> QED
  BY <1>10 DEF R

(* A line the parser reads is one of the MaxLines.                          *)
LEMMA LineTallies ==
    ASSUME Ample, Notes(parser), Tallied, NEW client \in BOOLEAN,
           NEW l \in SmtpLines(IF client THEN Verbs \cup {"text"} ELSE Replies \cup {"text"}),
           lines < MaxLines, lines' = lines + 1,
           parser' = Mail!SmtpParse(parser, l, client)
    PROVE  Tallied'
<1>1. /\ lines \in Nat /\ MaxLines \in Nat /\ MaxEvents \in Nat /\ 4 * MaxLines <= MaxEvents
      /\ parser.events <= 4 * lines /\ Responded(parser)
  BY DEF Ample, Tallied
<1>2. parser.events \in Nat
  BY DEF Notes, Parsers
<1>3. parser.events + 4 <= MaxEvents
  BY <1>1, <1>2
<1>4. Counts(parser, parser', 4)
  BY <1>1, <1>3, ParseCounts
<1>5. parser'.events \in Nat
  <2>1. Notes(parser')
    BY ParseNotes
  <2> QED
    BY <2>1 DEF Notes, Parsers
<1>6. parser'.events <= 4 * (lines + 1) /\ Responded(parser')
  BY <1>1, <1>2, <1>4, <1>5 DEF Counts
<1> QED
  BY <1>1, <1>6 DEF Tallied

(* A line of the dialogue, captured or missed.                              *)
LEMMA TransmitTallies ==
    ASSUME Ample, Notes(parser), Tallied, NEW d \in Directions, NEW l \in SmtpLines(WordsOf(d)),
           NEW clean \in BOOLEAN, Transmit(d, l, clean)
    PROVE  Tallied'
<1>1. lines < MaxLines /\ lines' = lines + 1
  BY DEF Transmit
<1>2. CASE clean
  <2> DEFINE g == (d \in hole)
             c == (d = "client")
             m == [l EXCEPT !.gap = g]
  <2>1. parser' = Mail!SmtpParse(parser, m, c)
    BY <1>2 DEF Transmit, Captured
  <2>2. g \in BOOLEAN /\ c \in BOOLEAN
    OBVIOUS
  <2> HIDE DEF g
  <2>3. m \in SmtpLines(WordsOf(d))
    BY <2>2, WithGap
  <2> HIDE DEF m
  <2>4. m \in SmtpLines(IF c THEN Verbs \cup {"text"} ELSE Replies \cup {"text"})
    BY <2>3 DEF WordsOf
  <2> HIDE DEF c
  <2> QED
    BY <1>1, <2>1, <2>2, <2>4, LineTallies
<1>3. CASE ~clean
  <2>1. parser' = parser
    BY <1>3 DEF Transmit, Missed
  <2>2. lines \in Nat /\ MaxLines \in Nat /\ parser.events \in Nat /\ parser.events <= 4 * lines
    BY DEF Ample, Tallied, Notes, Parsers
  <2>3. parser'.events <= 4 * lines' /\ lines' \in Nat /\ lines' <= MaxLines
    BY <1>1, <2>1, <2>2
  <2>4. Responded(parser')
    BY <2>1 DEF Tallied
  <2> QED
    BY <2>3, <2>4 DEF Tallied
<1> QED
  BY <1>2, <1>3

(* Every step of the dialogue is the transmission of one of its lines.      *)
Speaks == Greet \/ Command \/ Continue \/ Challenge \/ Respond \/ Answer

LEMMA StepsTransmit ==
    ASSUME Exposed, Speaks
    PROVE  \E d \in Directions : \E l \in SmtpLines(WordsOf(d)) : \E clean \in BOOLEAN :
              Transmit(d, l, clean)
<1>1. "client" \in Directions /\ "server" \in Directions
  BY DEF Directions
<1>2. CASE Greet
  <2> DEFINE l == Says("220")
  <2>1. PICK clean \in BOOLEAN : Transmit("server", l, clean)
    BY <1>2 DEF Greet
  <2>2. l \in SmtpLines(WordsOf("server"))
    BY Spoken DEF WordsOf, Replies
  <2> HIDE DEF l
  <2> QED
    BY <1>1, <2>1, <2>2
<1>3. CASE Command
  <2>1. PICK word \in Verbs, clean \in BOOLEAN : Transmit("client", Says(word), clean)
    BY <1>3 DEF Command, Verbs
  <2> DEFINE l == Says(word)
  <2>2. word \in WordsOf("client")
    BY DEF WordsOf
  <2>3. l \in SmtpLines(WordsOf("client"))
    BY <2>2, Spoken
  <2>4. Transmit("client", l, clean)
    BY <2>1
  <2> HIDE DEF l
  <2> QED
    BY <1>1, <2>3, <2>4
<1>4. CASE Continue
  <2>1. PICK offers \in BOOLEAN, clean \in BOOLEAN :
            Transmit("server", [Says("250") EXCEPT !.more = TRUE, !.offers = offers], clean)
    BY <1>4 DEF Continue
  <2> DEFINE l == [Says("250") EXCEPT !.more = TRUE, !.offers = offers]
  <2>2. "250" \in WordsOf("server")
    BY DEF WordsOf, Replies
  <2>3. l \in SmtpLines(WordsOf("server"))
    BY <2>2, Spoken
  <2>4. Transmit("server", l, clean)
    BY <2>1
  <2> HIDE DEF l
  <2> QED
    BY <1>1, <2>3, <2>4
<1>5. CASE Challenge
  <2> DEFINE l == Says("334")
  <2>1. PICK clean \in BOOLEAN : Transmit("server", l, clean)
    BY <1>5 DEF Challenge
  <2>2. l \in SmtpLines(WordsOf("server"))
    BY Spoken DEF WordsOf, Replies
  <2> HIDE DEF l
  <2> QED
    BY <1>1, <2>1, <2>2
<1>6. CASE Respond
  <2> DEFINE l == Says("text")
  <2>1. PICK clean \in BOOLEAN : Transmit("client", l, clean)
    BY <1>6 DEF Respond
  <2>2. l \in SmtpLines(WordsOf("client"))
    BY Spoken DEF WordsOf
  <2> HIDE DEF l
  <2> QED
    BY <1>1, <2>1, <2>2
<1>7. CASE Answer
  <2>1. PICK code \in Codes[verb], clean \in BOOLEAN,
             offers \in (IF verb \in {"extensions", "offered"} THEN BOOLEAN ELSE {FALSE}) :
            Transmit("server", [Says(code) EXCEPT !.offers = offers], clean)
    BY <1>7 DEF Answer
  <2>2. code \in Replies
    <3>1. verb \in DOMAIN Codes
      BY <1>7 DEF Answer, Exposed
    <3> QED
      BY <3>1 DEF Codes, Replies
  <2> DEFINE l == [Says(code) EXCEPT !.offers = offers]
  <2>3. code \in WordsOf("server") /\ offers \in BOOLEAN
    BY <2>2 DEF WordsOf
  <2>4. l \in SmtpLines(WordsOf("server"))
    BY <2>3, Spoken
  <2>5. Transmit("server", l, clean)
    BY <2>1
  <2> HIDE DEF l
  <2> QED
    BY <1>1, <2>4, <2>5
<1> QED
  BY <1>2, <1>3, <1>4, <1>5, <1>6, <1>7 DEF Speaks

(* A record identifies a handshake, or it changes no hello that is known.   *)
LEMMA RecordShows ==
    ASSUME NEW d \in Directions, NEW rec \in Carried, NEW n,
           IdentifiedHandshake(rec) = Nothing,
           "serverHello" \in DOMAIN walk, walk.serverHello = Tls!None
    PROVE  LET w == Tls!WalkRecord(walk, Tls!Fragment(d, n, rec, TRUE, FALSE))
           IN  "serverHello" \in DOMAIN w /\ w.serverHello = Tls!None
<1>1. rec.type \in {"ccs", "alert", "appdata"}
  <2>1. \A m \in {"CH", "SH12", "SH13", "CERT", "SKE", "SHD", "CKE"} :
            IdentifiedHandshake(Whole(m)) = m /\ m # Nothing
    BY DEF IdentifiedHandshake, Whole, Nothing
  <2> QED
    BY <2>1 DEF Carried, Plain
<1> DEFINE f == Tls!Fragment(d, n, rec, TRUE, FALSE)
           x == walk.alerts \cup {Tls!AlertOf(f, TRUE)}
           y == walk.alerts \cup {Tls!AlertOf(f, FALSE)}
           s == walk.ccs \cup {f.dir}
<1>2. f.type = rec.type /\ f.ambiguous = FALSE
  BY DEF Tls!Fragment
<1> DEFINE Keeping(w) == "serverHello" \in DOMAIN w /\ w.serverHello = Tls!None
<1>3. ASSUME NEW w, Keeping(w), NEW e, NEW at, NEW reason
      PROVE  Keeping(Tls!MarkEncrypted(w, e, at, reason))
  BY <1>3 DEF Tls!MarkEncrypted
<1>4. Keeping([walk EXCEPT !.alerts = x]) /\ Keeping([walk EXCEPT !.alerts = y])
      /\ Keeping([walk EXCEPT !.ccs = s]) /\ Keeping(walk)
  <2> HIDE DEF x, y, s
  <2> QED
    OBVIOUS
<1>5. Keeping(Tls!ChangeCipherSpec(walk, f))
  <2> DEFINE z == [walk EXCEPT !.ccs = s]
  <2>1. \/ Tls!ChangeCipherSpec(walk, f) = [z EXCEPT !.compatible = TRUE]
        \/ Tls!ChangeCipherSpec(walk, f)
             = Tls!MarkEncrypted(z, f.dir, f.at + 1, "TLS12_CHANGE_CIPHER_SPEC")
    BY DEF Tls!ChangeCipherSpec
  <2>2. Keeping(z)
    BY <1>4
  <2> HIDE DEF z
  <2>3. Keeping([z EXCEPT !.compatible = TRUE])
    BY <2>2
  <2> HIDE DEF Keeping
  <2> QED
    BY <1>3, <2>1, <2>2, <2>3
<1>6. LET w == Tls!WalkRecord(walk, f)
      IN  \/ w = walk \/ w = [walk EXCEPT !.alerts = x] \/ w = [walk EXCEPT !.alerts = y]
          \/ w = Tls!ChangeCipherSpec(walk, f)
          \/ w = Tls!MarkEncrypted(walk, f.dir, f.at, "APPLICATION_DATA_OBSERVED")
  <2> HIDE DEF f
  <2>1. CASE Tls!IsEncrypted(walk, f)
    BY <2>1 DEF Tls!WalkRecord
  <2>2. CASE ~Tls!IsEncrypted(walk, f) /\ f.type = "ccs"
    BY <1>2, <2>2 DEF Tls!WalkRecord
  <2>3. CASE ~Tls!IsEncrypted(walk, f) /\ f.type = "alert"
    BY <1>2, <2>3 DEF Tls!WalkRecord
  <2>4. CASE ~Tls!IsEncrypted(walk, f) /\ f.type = "appdata"
    BY <1>2, <2>4 DEF Tls!WalkRecord
  <2> QED
    BY <1>1, <1>2, <2>1, <2>2, <2>3, <2>4
<1>7. Keeping(Tls!WalkRecord(walk, f))
  <2> HIDE DEF Keeping, f, x, y
  <2> QED
    BY <1>3, <1>4, <1>5, <1>6
<1> QED
  BY <1>7

(* The inductive invariant: what the reachable states have to add to what   *)
(* the rules and the score are, for the bands to follow the severity.       *)
Reached == Tallied /\ Shown /\ Met

(* A record that is sent, captured or missed, and read as a line or not.    *)
LEMMA SendRecordReached ==
    ASSUME Ample, Exposed, Reached, SendRecord
    PROVE  Reached'
<1>1. /\ peer' = peer /\ peer[1] \in Handshakes
  BY DEF SendRecord, Reached, Met
<1> DEFINE r == peer[1].records[next]
<1>2. r.dir \in Directions /\ r.rec \in Carried
  BY <1>1, RecordsAreCarried DEF SendRecord
<1>3. \/ RecordCaptured(r.dir, r.rec) /\ RecordRead(r.dir)
      \/ RecordMissed(r.dir)
  BY Zenon DEF SendRecord
<1> HIDE DEF r
<1> DEFINE d == r.dir
           c == r.rec
<1>4. Tallied'
  <2>1. CASE UNCHANGED <<parser, lines>>
    BY <2>1 DEF Reached, Tallied
  <2>2. ASSUME NEW usable \in BOOLEAN, lines < MaxLines, lines' = lines + 1,
               parser' = Mail!SmtpParse(parser,
                            [Says("text") EXCEPT !.usable = usable, !.gap = d \in hole],
                            d = "client")
        PROVE  Tallied'
    <3> DEFINE g == (d \in hole)
               b == (d = "client")
               l == [Says("text") EXCEPT !.usable = usable, !.gap = g]
               words == IF b THEN Verbs \cup {"text"} ELSE Replies \cup {"text"}
    <3>1. g \in BOOLEAN /\ b \in BOOLEAN /\ "text" \in words
      OBVIOUS
    <3>2. parser' = Mail!SmtpParse(parser, l, b)
      BY <2>2
    <3> HIDE DEF g, b
    <3>3. l \in SmtpLines(words)
      BY <3>1, Spoken
    <3>4. Notes(parser) /\ Tallied
      BY DEF Exposed, Reached
    <3> HIDE DEF l
    <3> QED
      BY <2>2, <3>1, <3>2, <3>3, <3>4, LineTallies
  <2>3. CASE RecordMissed(d)
    BY <2>1, <2>3 DEF RecordMissed
  <2>4. CASE RecordRead(d)
    <3>1. \/ UNCHANGED <<parser, lines>>
          \/ /\ lines < MaxLines /\ lines' = lines + 1
             /\ \E usable \in BOOLEAN :
                   parser' = Mail!SmtpParse(parser,
                                [Says("text") EXCEPT !.usable = usable, !.gap = d \in hole],
                                d = "client")
      BY <2>4, Zenon DEF RecordRead
    <3> QED
      BY <2>1, <2>2, <3>1
  <2> QED
    BY <1>3, <2>3, <2>4
<1>5. Shown'
  <2>1. CASE UNCHANGED <<walk, framed>>
    BY <2>1 DEF Reached, Shown
  <2>2. CASE /\ walk' = Tls!WalkRecord(walk, Tls!Fragment(d, Len(framed[d]), c, TRUE, FALSE))
             /\ framed' = [framed EXCEPT ![d] = Append(@, c)]
    <3> DEFINE n == Len(framed[d])
    <3>1. /\ framed \in [Directions -> Seq(Carried)]
          /\ \/ \E e \in Directions : \E i \in DOMAIN framed[e] :
                    IdentifiedHandshake(framed[e][i]) # Nothing
             \/ "serverHello" \in DOMAIN walk /\ walk.serverHello = Tls!None
      BY DEF Reached, Shown
    <3>2. \A s \in Seq(Carried) :
             /\ Append(s, c) \in Seq(Carried)
             /\ \A i \in DOMAIN s : i \in DOMAIN Append(s, c) /\ Append(s, c)[i] = s[i]
             /\ Len(s) + 1 \in DOMAIN Append(s, c) /\ Append(s, c)[Len(s) + 1] = c
      BY <1>2
    <3>3. framed[d] \in Seq(Carried) /\ framed' = [framed EXCEPT ![d] = Append(framed[d], c)]
      BY <1>2, <2>2, <3>1
    <3>4. framed' \in [Directions -> Seq(Carried)] /\ framed'[d] = Append(framed[d], c)
          /\ \A e \in Directions \ {d} : framed'[e] = framed[e]
      BY <1>2, <3>1, <3>2, <3>3
    <3>5. CASE IdentifiedHandshake(c) # Nothing
      <4>1. n + 1 \in DOMAIN framed'[d] /\ framed'[d][n + 1] = c
        BY <3>2, <3>3, <3>4
      <4>2. \E i \in DOMAIN framed'[d] : IdentifiedHandshake(framed'[d][i]) # Nothing
        BY <3>5, <4>1
      <4> QED
        BY <1>2, <3>4, <4>2 DEF Shown
    <3>6. ASSUME NEW e \in Directions, NEW i \in DOMAIN framed[e],
                 IdentifiedHandshake(framed[e][i]) # Nothing
          PROVE  Shown'
      <4>1. i \in DOMAIN framed'[e] /\ framed'[e][i] = framed[e][i]
        BY <3>2, <3>3, <3>4
      <4>2. \E j \in DOMAIN framed'[e] : IdentifiedHandshake(framed'[e][j]) # Nothing
        BY <3>6, <4>1
      <4> QED
        BY <3>4, <4>2 DEF Shown
    <3>7. CASE /\ IdentifiedHandshake(c) = Nothing
               /\ "serverHello" \in DOMAIN walk /\ walk.serverHello = Tls!None
      <4>1. "serverHello" \in DOMAIN walk' /\ walk'.serverHello = Tls!None
        BY <1>2, <2>2, <3>7, RecordShows
      <4> QED
        BY <3>4, <4>1 DEF Shown
    <3> QED
      BY <3>1, <3>5, <3>6, <3>7
  <2> QED
    BY <1>3, <2>1, <2>2 DEF RecordCaptured, RecordMissed
<1>6. Met'
  BY <1>1 DEF Met
<1> QED
  BY <1>4, <1>5, <1>6 DEF Reached

(* Every step, and the initial states.                                      *)
LEMMA StepReached ==
    ASSUME Ample, Exposed, Reached, Step
    PROVE  Reached'
<1>1. CASE Speaks
  <2>1. PICK d \in Directions : \E l \in SmtpLines(WordsOf(d)) : \E clean \in BOOLEAN :
                Transmit(d, l, clean)
    BY <1>1, StepsTransmit
  <2>2. PICK l \in SmtpLines(WordsOf(d)) : \E clean \in BOOLEAN : Transmit(d, l, clean)
    BY <2>1
  <2>3. PICK clean \in BOOLEAN : Transmit(d, l, clean)
    BY <2>2
  <2>4. Tallied'
    BY <2>3, TransmitTallies DEF Exposed, Reached
  <2>5. UNCHANGED <<framed, walk, peer>>
    BY <2>3 DEF Transmit, tls
  <2> QED
    BY <2>4, <2>5 DEF Reached, Shown, Met
<1>2. CASE StartImplicit \/ StartUpgraded
  <2>1. \E h \in Handshakes, c \in Configurations : StartTls(h, c)
    <3>1. Good \in Handshakes
      BY DEF Handshakes
    <3> QED
      BY <1>2, <3>1 DEF StartImplicit, StartUpgraded
  <2>2. PICK h \in Handshakes, c \in Configurations : StartTls(h, c)
    BY <2>1
  <2>3. UNCHANGED <<parser, lines, framed, walk>> /\ peer'[1] \in Handshakes
    BY <2>2 DEF StartTls, mail
  <2> QED
    BY <2>3 DEF Reached, Tallied, Shown, Met
<1>3. CASE SendRecord
  BY <1>3, SendRecordReached
<1> QED
  BY <1>1, <1>2, <1>3 DEF Step, Speaks

LEMMA InitReached ==
    ASSUME Ample, Init
    PROVE  Reached
<1>1. /\ lines = 0 /\ parser = Mail!NewParser /\ peer = << >>
      /\ framed = [d \in Directions |-> << >>] /\ walk = Tls!NewWalk
  BY DEF Init
<1>2. Mail!NewParser.events = 0 /\ Mail!NewParser.outcome = "none"
  BY DEF Mail!NewParser
<1>3. Tallied
  BY <1>1, <1>2 DEF Ample, Tallied, Responded
<1>4. "serverHello" \in DOMAIN walk /\ walk.serverHello = Tls!None
  BY <1>1 DEF Tls!NewWalk
<1>5. framed \in [Directions -> Seq(Carried)]
  BY <1>1
<1> QED
  BY <1>1, <1>3, <1>4, <1>5 DEF Reached, Shown, Met

(* What the rules conclude from evidence of TLS.                            *)
LEMMA TlsIsJudged ==
    ASSUME NEW e, e.tls = TRUE
    PROVE  LET v == Verdicts(e)
           IN  /\ \/ v["NullCipher"] \in {"FAIL", "PASS"}
                  \/ \A r \in Ciphers : v[r] = "UNKNOWN"
               /\ /\ e.version = 0 /\ e.suite = NoValue
                  /\ e.secrecy \notin NotForwardSecret \cup ForwardSecret
                  => Silent(v)
<1>1. /\ \A r \in Ciphers : r \in Rules
      /\ "NegotiatedVersion" \in Rules /\ "ForwardSecrecy" \in Rules /\ "NullCipher" \in Rules
  BY RuleNames DEF Ciphers
<1>2. /\ Verdicts(e)["NullCipher"] = NullCipher(e)
      /\ Verdicts(e)["AnonymousCipher"] = AnonymousCipher(e)
      /\ Verdicts(e)["BrokenCipher"] = BrokenCipher(e)
      /\ Verdicts(e)["SmallBlockCipher"] = SmallBlockCipher(e)
      /\ Verdicts(e)["UnapprovedCipher"] = UnapprovedCipher(e)
  BY <1>1 DEF Verdicts, Evaluate, Ciphers
<1>3. /\ Verdicts(e)["NegotiatedVersion"] = NegotiatedVersion(e)
      /\ Verdicts(e)["ForwardSecrecy"] = ForwardSecrecy(e)
  BY <1>1 DEF Verdicts, Evaluate
<1>4. CASE Registered(e)
  <2>1. NullCipher(e) \in {"FAIL", "PASS"}
    BY <1>4 DEF NullCipher, SuiteRule, Outcome
  <2>2. e.suite # NoValue
    BY <1>4 DEF Registered, Negotiated
  <2> QED
    BY <1>2, <2>1, <2>2
<1>5. CASE ~Registered(e)
  <2>1. /\ NullCipher(e) = "UNKNOWN" /\ AnonymousCipher(e) = "UNKNOWN"
        /\ BrokenCipher(e) = "UNKNOWN" /\ SmallBlockCipher(e) = "UNKNOWN"
        /\ UnapprovedCipher(e) = "UNKNOWN"
    BY <1>5 DEF NullCipher, AnonymousCipher, BrokenCipher, SmallBlockCipher,
                UnapprovedCipher, SuiteRule, Outcome
  <2>2. \A r \in Ciphers : Verdicts(e)[r] = "UNKNOWN"
    BY <1>2, <2>1 DEF Ciphers
  <2>3. ASSUME e.version = 0, e.suite = NoValue,
               e.secrecy \notin NotForwardSecret \cup ForwardSecret
        PROVE  Silent(Verdicts(e))
    <3>1. NegotiatedVersion(e) = "UNKNOWN" /\ ForwardSecrecy(e) = "UNKNOWN"
      BY <2>3 DEF NegotiatedVersion, ForwardSecrecy, Outcome
    <3> QED
      BY <1>3, <2>2, <3>1 DEF Silent
  <2> QED
    BY <2>2, <2>3
<1> QED
  BY <1>4, <1>5

(* What a failure of one of the two low rules says of the evidence.         *)
LEMMA LowFailures ==
    ASSUME NEW e
    PROVE  /\ Verdicts(e)["NegotiationOutcome"] = "FAIL" => e.tls /\ e.fatal
           /\ Verdicts(e)["UpgradeNotFollowed"] = "FAIL" => e.upgrade = "UPGRADE_ACCEPTED"
<1>1. /\ Verdicts(e)["NegotiationOutcome"] = NegotiationOutcome(e)
      /\ Verdicts(e)["UpgradeNotFollowed"] = UpgradeNotFollowed(e)
  BY RuleNames DEF Verdicts, Evaluate
<1> QED
  BY <1>1 DEF NegotiationOutcome, UpgradeNotFollowed, MailRule, Outcome

(* A handshake that was framed speaks for TLS.                              *)
LEMMA HandshakeIsStrong ==
    ASSUME NEW d \in Directions, NEW i \in DOMAIN framed[d],
           IdentifiedHandshake(framed[d][i]) # Nothing
    PROVE  Strength({framed[e] : e \in Directions}) = "strong"
<1> DEFINE c == framed[d]
           m == IdentifiedHandshake(c[i])
           x == RecordEvidence(c, i, i < Len(c) \/ TRUE)
<1>1. x \in StrongFraming \ {"RECORD_CHAIN"} /\ x # "SINGLE_RECORD_HEADER"
  BY DEF RecordEvidence, StrongFraming, Hellos
<1>2. ProbeRecords(c, TRUE)[i] = x
  <2>1. ProbeRecords(c, TRUE)[i]
          = IF x = "SINGLE_RECORD_HEADER" /\ Len(c) >= 2 THEN "RECORD_CHAIN" ELSE x
    BY DEF ProbeRecords
  <2> HIDE DEF x
  <2> QED
    BY <1>1, <2>1
<1> HIDE DEF x
<1> DEFINE E == UNION {{ProbeRecords(s, TRUE)[j] : j \in DOMAIN s} :
                          s \in {framed[e] : e \in Directions}}
<1>3. x \in E
  <2> DEFINE F(s) == {ProbeRecords(s, TRUE)[j] : j \in DOMAIN s}
             C == {framed[e] : e \in Directions}
  <2>1. c \in C
    OBVIOUS
  <2>2. ProbeRecords(c, TRUE)[i] \in F(c)
    OBVIOUS
  <2>3. E = UNION {F(s) : s \in C}
    OBVIOUS
  <2> HIDE DEF c, F, C, E
  <2> QED
    BY <1>2, <2>1, <2>2, <2>3
<1>4. E \cap StrongFraming # {}
  BY <1>1, <1>3
<1> HIDE DEF E
<1>5. Strength({framed[e] : e \in Directions})
        = IF E \cap StrongFraming # {} THEN "strong"
          ELSE IF E # {} THEN "weak" ELSE Nothing
  BY DEF Strength, E
<1> QED
  BY <1>4, <1>5

(* What the evidence of a session supports, where both low rules fail: a    *)
(* handshake that was captured would have answered the acceptance.          *)
LEMMA BothLowAreSilent ==
    ASSUME Reached, verdicts = Verdicts(Evidence),
           verdicts["UpgradeNotFollowed"] = "FAIL", verdicts["NegotiationOutcome"] = "FAIL"
    PROVE  Silent(verdicts)
<1>1. Upgrade = "UPGRADE_ACCEPTED" /\ Evidence.tls /\ Evidence.fatal
  BY LowFailures, EvidenceOfLogin
<1>2. Responded(parser)
  BY DEF Reached, Tallied
<1>3. /\ Mail!UpgradeState(parser) = "UPGRADE_ACCEPTED"
      /\ Strength({framed[d] : d \in Directions}) # "strong"
  <2> DEFINE s == Strength({framed[d] : d \in Directions})
  <2>1. Mail!UpgradeReport(parser, s) = "UPGRADE_ACCEPTED"
    BY <1>1 DEF Upgrade
  <2> HIDE DEF s
  <2>2. Mail!UpgradeState(parser) = "UPGRADE_ACCEPTED" /\ ~(parser.response /\ s = "strong")
    BY <2>1 DEF Mail!UpgradeReport
  <2>3. parser.outcome = "ACCEPTED"
    BY <2>2 DEF Mail!UpgradeState
  <2> QED
    BY <1>2, <2>2, <2>3 DEF s, Responded
<1>4. walk.serverHello = Tls!None
  BY <1>3, HandshakeIsStrong DEF Reached, Shown
<1>5. /\ Evidence.version = TlsEvidence.version /\ Evidence.suite = TlsEvidence.suite
      /\ Evidence.secrecy = TlsEvidence.secrecy /\ Evidence.fatal = TlsEvidence.fatal
      /\ Evidence.tls = TlsEvidence.tls
  BY EvidenceOfTls
<1>6. Analysed /\ peer # << >>
  BY <1>1, <1>5, EvidenceOfTls
<1>7. /\ TlsEvidence.version = 0 /\ TlsEvidence.suite = NoValue
      /\ TlsEvidence.secrecy = Tls!ForwardSecrecy(walk, peer[1].family)
      /\ TlsEvidence.tls = TRUE
  BY <1>4, <1>6, EvidenceOfTls
<1>8. Tls!ForwardSecrecy(walk, peer[1].family) = "UNKNOWN_INCOMPLETE_EVIDENCE"
  BY <1>4, EvidenceOfTls DEF Tls!ForwardSecrecy, Tls!None
<1>9. "UNKNOWN_INCOMPLETE_EVIDENCE" \notin NotForwardSecret \cup ForwardSecret
  BY DEF NotForwardSecret, ForwardSecret
<1> QED
  BY <1>5, <1>7, <1>8, <1>9, TlsIsJudged

(* What was found failed.                                                   *)
LEMMA FindingFailed ==
    ASSUME NEW results, DOMAIN results = Rules, NEW r \in Findings(results, DefaultPolicy)
    PROVE  r \in Rules /\ results[r] = "FAIL"
<1>1. ValidPolicy(DefaultPolicy)
  BY PoliciesAreValid DEF Policies
<1>2. PICK g \in Groups : /\ UnitOutcome(results, g) = "FAIL"
                         /\ r = Representative(results, DefaultPolicy, g, "FAIL")
  BY <1>1, FindingsAreUnits
<1> DEFINE S == Members(results, g, "FAIL")
<1>3. S \in SUBSET Rules /\ S # {}
  BY <1>2, FailedUnits DEF Members, With
<1>4. PICK b : IsBest(DefaultPolicy, S, b)
  BY <1>1, <1>3, BestExists
<1>5. r \in S
  BY <1>1, <1>2, <1>3, <1>4, RepresentativeIsBest DEF IsBest
<1> QED
  BY <1>5 DEF Members, With

(* Sessions with nothing but low findings: one of the two low rules failed, *)
(* so TLS was analysed.                                                     *)
LEMMA LowIsJudged ==
    CoverageFloor >= 50 /\ Reached /\ verdicts = Verdicts(Evidence) => LowStaysStrong
<1> SUFFICES ASSUME CoverageFloor >= 50, Reached, verdicts = Verdicts(Evidence),
                    Found = {"LOW"}
             PROVE  BandNow \in {"STRONG", "NOT_AVAILABLE"}
  BY DEF LowStaysStrong
<1> DEFINE results == Judgement(DefaultPolicy)
<1>1. results = [r \in Rules |-> verdicts[r]]
  BY DEF Judgement, Results, DefaultPolicy, Policy
<1>2. DOMAIN results = Rules /\ \A r \in Rules : results[r] = verdicts[r]
  BY <1>1
<1>3. Found = {Catalogue[r].severity : r \in Findings(results, DefaultPolicy)} \ {"INFO"}
      /\ BandNow = Band(Score(results, DefaultPolicy))
  BY DEF Found, BandNow
<1> HIDE DEF results
<1>4. OnlyLow(results)
  BY <1>3 DEF OnlyLow
<1>5. PICK r \in Findings(results, DefaultPolicy) : Catalogue[r].severity = "LOW"
  BY <1>3
<1>6. r \in Rules /\ results[r] = "FAIL"
  BY <1>2, <1>5, FindingFailed
<1>7. r \in {"UpgradeNotFollowed", "NegotiationOutcome"}
  BY <1>5, <1>6, GroupsByName
<1>8. Evidence.tls = TRUE
  <2>1. CASE r = "NegotiationOutcome"
    <3>1. Evidence.tls
      BY <1>2, <1>6, <2>1, LowFailures
    <3> QED
      BY <3>1, EvidenceOfTls DEF Analysed
  <2>2. CASE r = "UpgradeNotFollowed"
    <3>1. Upgrade = "UPGRADE_ACCEPTED"
      BY <1>2, <1>6, <2>2, LowFailures, EvidenceOfLogin
    <3>2. Analysed = TRUE
      BY <3>1 DEF Analysed
    <3> QED
      BY <3>2, EvidenceOfTls
  <2> QED
    BY <1>7, <2>1, <2>2
<1>9. /\ \/ verdicts["NullCipher"] \in {"FAIL", "PASS"}
         \/ \A q \in Ciphers : verdicts[q] = "UNKNOWN"
  BY <1>8, TlsIsJudged
<1>10. \/ verdicts["UpgradeNotFollowed"] # "FAIL" \/ verdicts["NegotiationOutcome"] # "FAIL"
       \/ Silent(verdicts)
  BY BothLowAreSilent
<1>11. /\ {"UpgradeNotFollowed", "NegotiationOutcome", "NullCipher", "NegotiatedVersion",
           "ForwardSecrecy"} \cup Ciphers \subseteq Rules
  BY RuleNames DEF Ciphers
<1>12. /\ \/ results["NullCipher"] \in {"FAIL", "PASS"}
          \/ \A q \in Ciphers : results[q] = "UNKNOWN"
       /\ \/ results["UpgradeNotFollowed"] # "FAIL" \/ results["NegotiationOutcome"] # "FAIL"
          \/ Silent(results)
  BY <1>2, <1>9, <1>10, <1>11 DEF Silent
<1>13. Band(Score(results, DefaultPolicy)) \in {"STRONG", "NOT_AVAILABLE"}
  BY <1>2, <1>4, <1>12, LowLeavesTheBand
<1> QED
  BY <1>3, <1>13

(* The same of the state after a step.                                      *)
LEMMA LowIsJudgedNext ==
    (CoverageFloor >= 50 /\ Reached /\ verdicts = Verdicts(Evidence) => LowStaysStrong)'
  BY LowIsJudged, PTL

(* The invariant holds at first, and every step keeps it; the judgement is  *)
(* made anew in each.                                                       *)
BandInv == Exposed /\ Reached /\ LowStaysStrong

LEMMA InitBand ==
    ASSUME Ample, CoverageFloor >= 50, Init
    PROVE  BandInv
<1>1. Exposed
  BY InitLogin DEF LoginInv
<1>2. Reached
  BY InitReached
<1>3. verdicts = Verdicts(Evidence)
  BY DEF Init
<1> QED
  BY <1>1, <1>2, <1>3, LowIsJudged DEF BandInv

LEMMA StepBand ==
    ASSUME Ample, CoverageFloor >= 50, BandInv, [Next]_vars
    PROVE  BandInv'
<1>1. Exposed /\ Reached /\ LowStaysStrong
  BY DEF BandInv
<1>2. CASE UNCHANGED vars
  <2>1. /\ phase' = phase /\ truth' = truth /\ parser' = parser /\ verb' = verb
        /\ peer' = peer /\ verdicts' = verdicts /\ lines' = lines /\ framed' = framed
        /\ walk' = walk
    BY <1>2 DEF vars, mail, tls
  <2>2. Exposed'
    BY <1>1, <2>1 DEF Exposed
  <2>3. Reached'
    BY <1>1, <2>1 DEF Reached, Tallied, Shown, Met
  <2>4. LowStaysStrong'
    BY <1>1, <2>1 DEF LowStaysStrong, Found, BandNow, Judgement
  <2> QED
    BY <2>2, <2>3, <2>4 DEF BandInv
<1>3. CASE Next
  <2>1. Step /\ \E e \in {Evidence'} : verdicts' = Verdicts(e)
    BY <1>3 DEF Next
  <2>2. Exposed'
    BY <1>1, <2>1, GreetExposed, CommandExposed, ContinueExposed, ChallengeExposed,
       RespondExposed, AnswerExposed, StartExposed, SendRecordExposed DEF Step
  <2>3. Reached'
    BY <1>1, <2>1, StepReached
  <2>4. verdicts' = Verdicts(Evidence')
    BY <2>1
  <2>5. LowStaysStrong'
    BY <2>3, <2>4, LowIsJudgedNext
  <2> QED
    BY <2>2, <2>3, <2>5 DEF BandInv
<1> QED
  BY <1>2, <1>3

(* "One CRITICAL control outweighs three MEDIUM ones and a LOW control      *)
(* cannot by itself move a score band" (policy.py), of every session whose  *)
(* dialogue stays within the event limit and under every policy that asks   *)
(* for the coverage the default asks for, or more.  The first half is the   *)
(* theorem above.  For the second one or two points are deducted.  Two are  *)
(* too many where the cipher suite alone is known; but the two low rules    *)
(* fail together only where the acceptance was answered by an alert and no  *)
(* handshake was captured, and then half of what could be known is unknown  *)
(* and there is no score.                                                   *)
THEOREM BandsFollowSeverityHolds ==
    ASSUME Ample, CoverageFloor >= 50
    PROVE  Spec => []BandsFollowSeverity
<1>1. Init => BandInv
  BY InitBand
<1>2. BandInv /\ [Next]_vars => BandInv'
  BY StepBand
<1>3. BandInv => LowStaysStrong
  BY DEF BandInv
<1>4. Spec => []CriticalIsNeverStrong
  BY CriticalIsNeverStrongHolds
<1>5. CriticalIsNeverStrong /\ LowStaysStrong => BandsFollowSeverity
  BY DEF BandsFollowSeverity
<1> QED
  BY <1>1, <1>2, <1>3, <1>4, <1>5, PTL DEF Spec
=============================================================================
