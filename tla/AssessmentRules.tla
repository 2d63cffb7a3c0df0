--------------------------- MODULE AssessmentRules ---------------------------
(***************************************************************************)
(* The rules of the assessment (assessment/rules.py), the catalogue that   *)
(* gives them a severity and a group (assessment/catalog.py), and what     *)
(* becomes of their results: findings (assessment/evaluator.py), scoring   *)
(* units and the posture score (assessment/scoring.py), under a policy     *)
(* (assessment/policy.py).                                                 *)
(*                                                                         *)
(* A rule reads the evidence of one session, the record e:                 *)
(*   status, implicit, parse, attempts, upgrade, requested, answered,      *)
(*   advertised, capabilities, commands, refusedAt   of the mail dialogue, *)
(*   tls, version, offered, suite, fatal, handshake, secrecy, hybrid,      *)
(*   seen, leaf, valid                               of the TLS session.   *)
(***************************************************************************)
EXTENDS Integers, Sequences, SequencesExt

CONSTANTS
    MinimumVersion,   \* policy.minimum_tls_version
    MinimumBits,      \* policy.minimum_rsa_bits or minimum_ec_bits, by key
    DeprecatedHashes, \* policy.deprecated_signature_hashes
    CoverageFloor     \* policy.minimum_coverage_for_score, in percent

ASSUME PolicyAssumption == CoverageFloor \in 0..100 /\ MinimumVersion \in Nat

NoValue == "none"

(* The registry, as far as the rules read it: cipher, authentication and    *)
(* whether the suite belongs to TLS 1.3.                                    *)
Suite(cipher, authentication, tls13) ==
    [cipher |-> cipher, authentication |-> authentication, tls13 |-> tls13]
Registry ==
    [ECDHE_GCM  |-> Suite("AES_128_GCM", "ECDSA", FALSE),
     RSA_CBC    |-> Suite("AES_128_CBC", "RSA", FALSE),
     ECDHE_NULL |-> Suite("NULL", "ECDSA", FALSE),
     RSA_RC4    |-> Suite("RC4_128", "RSA", FALSE),
     ANON_3DES  |-> Suite("3DES_EDE_CBC", "ANONYMOUS", FALSE),
     TLS13_GCM  |-> Suite("AES_128_GCM", NoValue, TRUE)]
Broken == {"RC4_128"}
SmallBlock == {"3DES_EDE_CBC"}
Approved == {"AES_128_GCM"}

-----------------------------------------------------------------------------
(* A rule that applies and is known either fails or passes.                 *)
Outcome(applies, known, fails) ==
    CASE ~applies -> "NOT_APPLICABLE"
      [] applies /\ ~known -> "UNKNOWN"
      [] applies /\ known -> IF fails THEN "FAIL" ELSE "PASS"

Negotiated(e) == e.suite # NoValue
Registered(e) == Negotiated(e) /\ e.suite \in DOMAIN Registry
SuiteOf(e) == Registry[e.suite]
SuiteRule(e, applies, fails) ==
    Outcome(e.tls /\ (Registered(e) => applies), Registered(e), fails)

NegotiatedVersion(e) ==
    Outcome(e.tls, e.version # 0, e.version < MinimumVersion)
OfferedVersions(e) ==
    Outcome(e.tls, e.offered # {}, \E v \in e.offered : v < MinimumVersion)
NegotiationOutcome(e) ==
    Outcome(e.tls, e.fatal \/ e.handshake \notin {"NOT_OBSERVED", "INDETERMINATE"}, e.fatal)

NullCipher(e) == SuiteRule(e, TRUE, SuiteOf(e).cipher = "NULL")
AnonymousCipher(e) ==
    SuiteRule(e, Registered(e) /\ ~SuiteOf(e).tls13, SuiteOf(e).authentication = "ANONYMOUS")
BrokenCipher(e) == SuiteRule(e, TRUE, SuiteOf(e).cipher \in Broken)
SmallBlockCipher(e) == SuiteRule(e, TRUE, SuiteOf(e).cipher \in SmallBlock)
UnapprovedCipher(e) == SuiteRule(e, TRUE, SuiteOf(e).cipher \notin Approved)
UnknownCipher(e) == Outcome(e.tls /\ Negotiated(e), Registered(e), FALSE)

NotForwardSecret == {"STATIC_RSA_KEY_EXCHANGE", "PSK_ONLY", "NOT_FORWARD_SECRET"}
ForwardSecret == {"EPHEMERAL_OBSERVED", "CAPABLE_NEGOTIATED"}
ForwardSecrecy(e) ==
    Outcome(e.tls, e.secrecy \in NotForwardSecret \cup ForwardSecret,
            e.secrecy \in NotForwardSecret)
HybridGroup(e) == Outcome(e.tls /\ e.hybrid, TRUE, FALSE)

-----------------------------------------------------------------------------
(* The certificate rules: the first certificate that was decoded, judged    *)
(* against the time its validation used.                                    *)
CertificateRule(e, applies, known, fails) ==
    LET available == e.tls /\ e.seen = "OBSERVED"
    IN  Outcome(available /\ applies, known, fails)

Expired(e) == CertificateRule(e, TRUE, TRUE, e.at > e.leaf.until)
NotYetValid(e) == CertificateRule(e, TRUE, TRUE, e.at < e.leaf.from)
WeakKey(e) ==
    CertificateRule(e, e.leaf.key \in DOMAIN MinimumBits \cup {"UNKNOWN"},
                    e.leaf.key # "UNKNOWN", e.leaf.bits < MinimumBits[e.leaf.key])
WeakSignature(e) ==
    CertificateRule(e, TRUE, e.leaf.hash # NoValue, e.leaf.hash \in DeprecatedHashes)

ValidationBacked(e, check) ==
    CertificateRule(e, TRUE, check \in {"PASSED", "FAILED"}, check = "FAILED")
UntrustedChain(e) == ValidationBacked(e, e.valid.chain)
WrongName(e) == ValidationBacked(e, e.valid.hostname)
WrongUsage(e) ==
    CertificateRule(e, TRUE, e.leaf.usage # {}, "serverAuth" \notin e.leaf.usage)

-----------------------------------------------------------------------------
(* The mail rules.                                                          *)
Succeeded(e) == e.upgrade \in {"UPGRADE_ACCEPTED", "TLS_BYTES_OBSERVED"}
(* Defect: only a dialogue that was identified with certainty is judged.    *)
MailRuleConfirmed(e, applies, known, fails) ==
    Outcome(e.status = "CONFIRMED" /\ applies, known, fails)

MailRule(e, applies, known, fails) ==
    Outcome(e.status \in {"CONFIRMED", "PROBABLE"} /\ applies, known, fails)

CleartextLogin(e) ==
    MailRule(e, TRUE,
        e.attempts # {} \/ e.parse \in {"COMPLETE", "HANDED_OFF_TO_TLS"},
        e.attempts # {} /\ ~Succeeded(e))
(* Defect: a login counts as early only if the upgrade was on offer.        *)
LoginBeforeUpgradeOffered(e) ==
    MailRule(e, Succeeded(e), TRUE, "UPGRADE_ADVERTISED" \in e.attempts)

LoginBeforeUpgrade(e) ==
    MailRule(e, Succeeded(e), TRUE,
        \E state \in e.attempts : state \notin {"UPGRADE_ACCEPTED", "TLS_BYTES_OBSERVED"})
UpgradeRefused(e) ==
    MailRule(e, e.requested, e.upgrade = "UPGRADE_REJECTED" \/ Succeeded(e),
             e.upgrade = "UPGRADE_REJECTED")
UpgradeNotFollowed(e) == MailRule(e, Succeeded(e), TRUE, e.upgrade = "UPGRADE_ACCEPTED")

(* The place of the refusal is an offset of the server's stream, the        *)
(* commands' are offsets of the client's.                                   *)
PlaintextContinued(e) ==
    MailRule(e, e.upgrade = "UPGRADE_REJECTED", TRUE,
             \E at \in e.commands : at >= e.refusedAt)
UpgradeNotOffered(e) ==
    MailRule(e, ~e.implicit, e.capabilities, ~e.advertised)
ImplicitTls(e) == Outcome(e.implicit, e.tls /\ e.version # 0, FALSE)

-----------------------------------------------------------------------------
(* The catalogue: severity and group of each rule, in the order of their    *)
(* identifiers.                                                             *)
Rule(severity, group) == [severity |-> severity, group |-> group]
CertificateCatalogue ==
    [Expired            |-> Rule("HIGH", "CERT_VALIDITY"),
     NotYetValid        |-> Rule("HIGH", "CERT_VALIDITY"),
     WeakKey            |-> Rule("HIGH", "CERT_KEY"),
     WeakSignature      |-> Rule("HIGH", "CERT_SIGNATURE"),
     UntrustedChain     |-> Rule("HIGH", "CERT_CHAIN"),
     WrongName          |-> Rule("HIGH", "CERT_IDENTITY"),
     WrongUsage         |-> Rule("MEDIUM", "CERT_USAGE")]
MailCatalogue ==
    [CleartextLogin     |-> Rule("CRITICAL", "PLAINTEXT_AUTH"),
     LoginBeforeUpgrade |-> Rule("HIGH", "PLAINTEXT_AUTH"),
     UpgradeRefused     |-> Rule("MEDIUM", "UPGRADE_OUTCOME"),
     UpgradeNotFollowed |-> Rule("LOW", "UPGRADE_OUTCOME"),
     PlaintextContinued |-> Rule("HIGH", "PLAINTEXT_CONTINUATION"),
     UpgradeNotOffered  |-> Rule("MEDIUM", "UPGRADE_AVAILABILITY"),
     ImplicitTls        |-> Rule("INFO", "IMPLICIT_TLS")]
CipherCatalogue ==
    [NullCipher         |-> Rule("CRITICAL", "CIPHER_SUITE"),
     AnonymousCipher    |-> Rule("CRITICAL", "CIPHER_SUITE"),
     BrokenCipher       |-> Rule("HIGH", "CIPHER_SUITE"),
     SmallBlockCipher   |-> Rule("MEDIUM", "CIPHER_SUITE"),
     UnapprovedCipher   |-> Rule("MEDIUM", "CIPHER_SUITE"),
     UnknownCipher      |-> Rule("INFO", "UNKNOWN_CIPHER")]
KeyExchangeCatalogue ==
    [ForwardSecrecy     |-> Rule("HIGH", "FORWARD_SECRECY"),
     HybridGroup        |-> Rule("INFO", "HYBRID_GROUP")]
ProtocolCatalogue ==
    [NegotiatedVersion  |-> Rule("HIGH", "PROTOCOL_VERSION"),
     OfferedVersions    |-> Rule("INFO", "OFFERED_VERSION"),
     NegotiationOutcome |-> Rule("LOW", "NEGOTIATION_OUTCOME")]
Rules ==
    DOMAIN CertificateCatalogue \cup DOMAIN MailCatalogue \cup DOMAIN CipherCatalogue
      \cup DOMAIN KeyExchangeCatalogue \cup DOMAIN ProtocolCatalogue
Catalogue ==
    [r \in Rules |->
        CASE r \in DOMAIN CertificateCatalogue -> CertificateCatalogue[r]
          [] r \in DOMAIN MailCatalogue -> MailCatalogue[r]
          [] r \in DOMAIN CipherCatalogue -> CipherCatalogue[r]
          [] r \in DOMAIN KeyExchangeCatalogue -> KeyExchangeCatalogue[r]
          [] r \in DOMAIN ProtocolCatalogue -> ProtocolCatalogue[r]]

InOrder ==
    << "Expired", "NotYetValid", "WeakKey", "WeakSignature", "UntrustedChain",
       "WrongName", "WrongUsage", "CleartextLogin", "LoginBeforeUpgrade",
       "UpgradeRefused", "UpgradeNotFollowed", "PlaintextContinued",
       "UpgradeNotOffered", "ImplicitTls", "NullCipher", "AnonymousCipher",
       "BrokenCipher", "SmallBlockCipher", "UnapprovedCipher", "UnknownCipher",
       "ForwardSecrecy", "HybridGroup", "NegotiatedVersion", "OfferedVersions",
       "NegotiationOutcome" >>
Groups == {Catalogue[r].group : r \in Rules}

Evaluate(r, e) ==
    CASE r = "NegotiatedVersion"  -> NegotiatedVersion(e)
      [] r = "OfferedVersions"    -> OfferedVersions(e)
      [] r = "NegotiationOutcome" -> NegotiationOutcome(e)
      [] r = "NullCipher"         -> NullCipher(e)
      [] r = "AnonymousCipher"    -> AnonymousCipher(e)
      [] r = "BrokenCipher"       -> BrokenCipher(e)
      [] r = "SmallBlockCipher"   -> SmallBlockCipher(e)
      [] r = "UnapprovedCipher"   -> UnapprovedCipher(e)
      [] r = "UnknownCipher"      -> UnknownCipher(e)
      [] r = "ForwardSecrecy"     -> ForwardSecrecy(e)
      [] r = "HybridGroup"        -> HybridGroup(e)
      [] r = "Expired"            -> Expired(e)
      [] r = "NotYetValid"        -> NotYetValid(e)
      [] r = "WeakKey"            -> WeakKey(e)
      [] r = "WeakSignature"      -> WeakSignature(e)
      [] r = "UntrustedChain"     -> UntrustedChain(e)
      [] r = "WrongName"          -> WrongName(e)
      [] r = "WrongUsage"         -> WrongUsage(e)
      [] r = "CleartextLogin"     -> CleartextLogin(e)
      [] r = "LoginBeforeUpgrade" -> LoginBeforeUpgrade(e)
      [] r = "UpgradeRefused"     -> UpgradeRefused(e)
      [] r = "UpgradeNotFollowed" -> UpgradeNotFollowed(e)
      [] r = "PlaintextContinued" -> PlaintextContinued(e)
      [] r = "UpgradeNotOffered"  -> UpgradeNotOffered(e)
      [] r = "ImplicitTls"        -> ImplicitTls(e)

-----------------------------------------------------------------------------
(* A policy: the rules it disables, the severities and weights it overrides.*)
Policy(disabled, severities, weights) ==
    [disabled |-> disabled, severities |-> severities, weights |-> weights]
DefaultPolicy == Policy({}, << >>, << >>)

Rank == [CRITICAL |-> 0, HIGH |-> 1, MEDIUM |-> 2, LOW |-> 3, INFO |-> 4]
SeverityWeight == [CRITICAL |-> 10, HIGH |-> 6, MEDIUM |-> 3, LOW |-> 1, INFO |-> 0]
Position == [r \in Rules |-> CHOOSE i \in DOMAIN InOrder : InOrder[i] = r]

SeverityFor(policy, r) ==
    IF r \in DOMAIN policy.severities THEN policy.severities[r] ELSE Catalogue[r].severity
WeightFor(policy, r) ==
    IF r \in DOMAIN policy.weights THEN policy.weights[r]
    ELSE SeverityWeight[SeverityFor(policy, r)]

(* evaluate_session: the outcomes of the rules the policy enables.          *)
Results(verdicts, policy) == [r \in Rules \ policy.disabled |-> verdicts[r]]
With(results, outcome) == {r \in DOMAIN results : results[r] = outcome}
Members(results, group, outcome) ==
    {r \in With(results, outcome) : Catalogue[r].group = group}

(* Defect: the first failure of a group keeps its place.                    *)
WorseNever(policy, r, incumbent) == incumbent = NoValue

(* _deduplicate: one pass over the results in their order; a failure takes  *)
(* the place of an earlier one of its group that is less severe.            *)
Worse(policy, r, incumbent) ==
    \/ incumbent = NoValue
    \/ Rank[SeverityFor(policy, r)] < Rank[SeverityFor(policy, incumbent)]

Representatives(results, policy) ==
    LET after[i \in 0..Len(InOrder)] ==
            IF i = 0 THEN [g \in Groups |-> NoValue]
            ELSE LET before == after[i - 1]
                     r == InOrder[i]
                     g == Catalogue[r].group
                 IN  IF /\ r \in DOMAIN results /\ results[r] = "FAIL"
                        /\ Worse(policy, r, before[g])
                     THEN [before EXCEPT ![g] = r] ELSE before
    IN  after[Len(InOrder)]

(* build_findings: the failures that count.                                 *)
Findings(results, policy) == Range(Representatives(results, policy)) \ {NoValue}

(* build_units: a unit has the outcome of its worst member and the weight   *)
(* of the most severe member with that outcome.                             *)
Decisive == << "FAIL", "PASS", "UNKNOWN" >>
UnitOutcome(results, group) ==
    LET among == {i \in DOMAIN Decisive :
                     Members(results, group, Decisive[i]) # {}}
    IN  IF among = {} THEN "NOT_APPLICABLE" ELSE Decisive[Min(among)]

(* Defect: the comparison of severities is the wrong way round.             *)
RepresentativeMildest(results, policy, group, outcome) ==
    LET deciding == Members(results, group, outcome)
    IN  CHOOSE r \in deciding : \A q \in deciding :
            Rank[SeverityFor(policy, r)] >= Rank[SeverityFor(policy, q)]

Representative(results, policy, group, outcome) ==
    LET deciding == Members(results, group, outcome)
        worst == {r \in deciding : \A q \in deciding :
                     Rank[SeverityFor(policy, r)] <= Rank[SeverityFor(policy, q)]}
    IN  CHOOSE r \in worst : \A q \in worst : Position[r] <= Position[q]

(* compute_score: the weight of the units with one of the outcomes, each    *)
(* unit's lent by its representative.                                       *)
WeightOf(results, policy, outcomes) ==
    LET lends(r) ==
            LET g == Catalogue[r].group
                outcome == UnitOutcome(results, g)
            IN  outcome \in outcomes /\ r = Representative(results, policy, g, outcome)
        total[i \in 0..Len(InOrder)] ==
            IF i = 0 THEN 0
            ELSE total[i - 1]
                   + (IF lends(InOrder[i]) THEN WeightFor(policy, InOrder[i]) ELSE 0)
    IN  total[Len(InOrder)]

NoScore == -1
RoundHalfEven(n, d) ==
    LET q == n \div d
        twice == 2 * (n % d)
    IN  IF twice > d \/ (twice = d /\ q % 2 = 1) THEN q + 1 ELSE q

Score(results, policy) ==
    LET evaluated == WeightOf(results, policy, {"FAIL", "PASS"})
        applicable == evaluated + WeightOf(results, policy, {"UNKNOWN"})
        passed == evaluated - WeightOf(results, policy, {"FAIL"})
    IN  IF evaluated = 0 \/ 100 * evaluated < CoverageFloor * applicable THEN NoScore
        ELSE RoundHalfEven(100 * passed, evaluated)

Band(score) ==
    CASE score >= 90 -> "STRONG"
      [] score \in 70..89 -> "ADEQUATE"
      [] score \in 40..69 -> "WEAK"
      [] score \in 0..39 -> "CRITICAL"
      [] score = NoScore -> "NOT_AVAILABLE"
=============================================================================
