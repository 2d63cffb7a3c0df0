------------------------------- MODULE Drift -------------------------------
(***************************************************************************)
(* intelligence/fingerprints.py and intelligence/drift.py: what one        *)
(* session shows of its server's cryptography, and how two captures of one *)
(* endpoint are compared.                                                  *)
(*                                                                         *)
(* An observed session is a record                                         *)
(*    [id, capture, entity, time, offer, version, suite, group, chain,     *)
(*     score, policy, ...]                                                 *)
(* whose values may be Absent.  Digests are the values they are computed   *)
(* from.                                                                   *)
(***************************************************************************)
EXTENDS Integers, Sequences, FiniteSets, SequencesExt

CONSTANTS
    Absent,    \* what the capture does not show
    KeyOf      \* the public key of each certificate

ASSUME KeyAssumption == Absent \notin DOMAIN KeyOf

-----------------------------------------------------------------------------
(* Lists, in a form the provers can reason about. *)

(* The elements of S in an order that leaves no ties. *)
Sorted(S, Precedes(_, _)) ==
    [n \in 1..Cardinality(S) |->
        CHOOSE x \in S : Cardinality({y \in S : Precedes(y, x)}) = n - 1]

(* What fulfils a condition, in the order it has in the list. *)
Where(list, P(_)) ==
    LET places == Sorted({i \in DOMAIN list : P(list[i])}, LAMBDA i, j : i < j)
    IN  [n \in DOMAIN places |-> list[places[n]]]

-----------------------------------------------------------------------------
(* Fingerprints *)

Leaf(s) == IF s.chain = << >> THEN Absent ELSE Head(s.chain)

(* ALPN and the issuer's name are left out: they are read and compared like *)
(* the others.                                                              *)
Components(s) ==
    [tls_version             |-> s.version,
     cipher_suite            |-> s.suite,
     key_exchange_group      |-> s.group,
     certificate_sha256      |-> Leaf(s),
     certificate_spki_sha256 |-> IF Leaf(s) = Absent THEN Absent ELSE KeyOf[Leaf(s)]]

Core == {"tls_version", "cipher_suite"}
ConfigurationComponents == Core \cup {"key_exchange_group"}

(* Two sessions without an observed selection never match each other. *)
ConfigurationFingerprint(s) ==
    LET c == Components(s)
    IN  IF \E name \in Core : c[name] = Absent
        THEN Absent
        ELSE [name \in ConfigurationComponents |-> c[name]]

Completeness(s) ==
    LET missing == {name \in DOMAIN Components(s) : Components(s)[name] = Absent}
    IN  IF missing \cap Core # {} THEN "INSUFFICIENT"
        ELSE IF missing # {} THEN "PARTIAL" ELSE "COMPLETE"

Fingerprint(s) ==
    [id |-> Components(s), completeness |-> Completeness(s),
     capture |-> s.capture, session |-> s.id]

-----------------------------------------------------------------------------
(* Comparison of two sessions *)

(* The versions and the suites the client offered, without their order; the *)
(* groups are not part of it.                                               *)
OfferSignature(s) ==
    IF s.offer = Absent THEN Absent
    ELSE [versions |-> s.offer.versions, suites |-> s.offer.suites]

(* The validity period is read from the certificate as its key is. *)
Values(s) == Components(s)

Kinds ==
    [NEGOTIATED_VERSION      |-> "tls_version",
     NEGOTIATED_CIPHER_SUITE |-> "cipher_suite",
     KEY_EXCHANGE_GROUP      |-> "key_exchange_group",
     CERTIFICATE_FINGERPRINT |-> "certificate_sha256",
     CERTIFICATE_PUBLIC_KEY  |-> "certificate_spki_sha256"]

OfferSensitive == {"NEGOTIATED_VERSION", "NEGOTIATED_CIPHER_SUITE", "KEY_EXCHANGE_GROUP"}

SameOffer(before, after) ==
    /\ OfferSignature(before) # Absent
    /\ OfferSignature(before) = OfferSignature(after)

DriftEvent(kind, status, before, after) ==
    [kind |-> kind, status |-> status, entity |-> before.entity,
     before |-> before.id, after |-> after.id,
     capture |-> after.capture, time |-> after.time]

(* Defect: a value that differs is a change, whatever the clients offered.  *)
CompareRegardless(before, after, kind) ==
    LET was == Values(before)[Kinds[kind]]
        is  == Values(after)[Kinds[kind]]
    IN  DriftEvent(kind,
            IF Absent \in {was, is} THEN "NOT_COMPARABLE"
            ELSE IF was = is THEN "UNCHANGED_WITH_EVIDENCE"
            ELSE "OBSERVED_CHANGE", before, after)

CompareSnapshots(before, after, kind) ==
    LET was == Values(before)[Kinds[kind]]
        is  == Values(after)[Kinds[kind]]
    IN  DriftEvent(kind,
            IF Absent \in {was, is} THEN "NOT_COMPARABLE"
            ELSE IF was = is THEN "UNCHANGED_WITH_EVIDENCE"
            ELSE IF kind \in OfferSensitive /\ ~SameOffer(before, after) THEN "INCONCLUSIVE"
            ELSE "OBSERVED_CHANGE", before, after)

(* No event when neither session was scored. *)
ScoreDrift(before, after) ==
    LET scores == {before.score, after.score}
    IN  IF scores = {Absent} THEN {}
        ELSE {DriftEvent("POSTURE_SCORE",
                IF Absent \in scores \/ before.policy # after.policy THEN "NOT_COMPARABLE"
                ELSE IF before.score = after.score THEN "UNCHANGED_WITH_EVIDENCE"
                ELSE "OBSERVED_CHANGE", before, after)}

-----------------------------------------------------------------------------
(* One endpoint across captures *)

Earlier(a, b) == a.time < b.time \/ (a.time = b.time /\ a.id < b.id)

(* Defect: the captures are compared in the order they were given in.       *)
AsGiven(snapshots) == snapshots

Chronological(snapshots) == Sorted(ToSet(snapshots), Earlier)

(* The earliest session of each capture stands for it. *)
EarliestPerCapture(snapshots) ==
    LET First(s) == \A t \in ToSet(snapshots) :
                        t.capture = s.capture => t = s \/ Earlier(s, t)
    IN  Chronological(Where(snapshots, First))

(* Each capture is compared with the next one only: a value that the one    *)
(* between them does not show is not compared across it.                    *)
DriftForEntity(snapshots) ==
    LET ordered == EarliestPerCapture(snapshots)
    IN  UNION {{CompareSnapshots(ordered[i], ordered[i + 1], kind) : kind \in DOMAIN Kinds}
                  \cup ScoreDrift(ordered[i], ordered[i + 1])
               : i \in 1..(Len(ordered) - 1)}
=============================================================================
