----------------------------- MODULE Certificates -----------------------------
(***************************************************************************)
(* The certificates of a session: the entries of a Certificate message     *)
(* that are decoded (tls/handshake.py, tls/analyzer.py,                    *)
(* certificates/parse.py), the configured anchors                          *)
(* (certificates/truststore.py) and the five checks of validate_chain      *)
(* (certificates/validate.py).  A packet always has a timestamp, so a      *)
(* check always has a reference time.                                      *)
(***************************************************************************)
EXTENDS Integers, Sequences, SequencesExt

CONSTANTS
    MaxChain,  \* max_certificates_per_chain
    Now        \* the timestamp of the packet with the Certificate message

ASSUME CertificateAssumption == MaxChain \in Nat /\ Now \in Nat

NoName == "none"

(* What a certificate says.  "fits" and "decodes" tell whether its bytes    *)
(* are within max_certificate_bytes and readable.                           *)
Certificate(subject, issuer, names) ==
    [subject |-> subject, issuer |-> issuer, names |-> names, from |-> 0,
     until |-> Now, key |-> "EC", bits |-> 256, hash |-> "sha256",
     usage |-> {"serverAuth"}, fits |-> TRUE, decodes |-> TRUE]

(* parse_certificate_message: the list is read up to the limit or to the    *)
(* first entry that is too large.                                           *)
Listed(presented) ==
    LET whole == {n \in 0..Len(presented) :
                     n <= MaxChain /\ \A i \in 1..n : presented[i].fits}
    IN  SubSeq(presented, 1, CHOOSE n \in whole : \A m \in whole : m <= n)

(* An entry that cannot be decoded is recorded as an error and passed over. *)
Decoded(presented) == SelectSeq(Listed(presented), LAMBDA c : c.decodes)

(* load_trust_store: an unreadable or empty file leaves no store.           *)
Usable(anchors) == anchors # {}

ValidAt(c, time) == c.from <= time /\ time <= c.until

-----------------------------------------------------------------------------
(* The verifier of the cryptography library, as the two checks use it: the  *)
(* leaf is acceptable for the name at the time, and it is an anchor or has  *)
(* a valid issuer that is one, directly or through one presented            *)
(* intermediate.  The library accepts neither SHA-1 nor short RSA keys.     *)
Acceptable(c, time) ==
    /\ ValidAt(c, time)
    /\ c.hash # "sha1"
    /\ c.key = "RSA" => c.bits >= 2048
    /\ c.usage = {} \/ "serverAuth" \in c.usage

Verifies(leaf, others, anchors, time, name) ==
    LET valid == {c \in anchors : ValidAt(c, time)}
        between == {c \in Range(others) :
                       ValidAt(c, time) /\ \E a \in valid : a.subject = c.issuer}
    IN  /\ Acceptable(leaf, time)
        /\ name \in leaf.names
        /\ \/ leaf \in anchors
           \/ \E c \in valid \cup between : c.subject = leaf.issuer

Verdict(verified) == IF verified THEN "PASSED" ELSE "FAILED"

DatesCheck(leaf, time) == Verdict(ValidAt(leaf, time))

(* The leaf's own name is the subject, so that the path is what is tested.  *)
ChainCheck(chain, anchors, time) ==
    IF ~Usable(anchors) \/ Head(chain).names = {} THEN "NOT_AVAILABLE"
    ELSE Verdict(Verifies(Head(chain), Tail(chain), anchors, time,
                          CHOOSE n \in Head(chain).names : TRUE))


(* What was presented is trusted, so that the name is what is tested.       *)
HostnameCheck(chain, anchors, time, identity) ==
    IF identity = NoName THEN "NOT_AVAILABLE"
    ELSE Verdict(Verifies(Head(chain), Tail(chain), anchors \cup Range(chain),
                          time, identity))

Validation(chain, anchors, identity) ==
    [dates |-> DatesCheck(Head(chain), Now),
     chain |-> ChainCheck(chain, anchors, Now),
     hostname |-> HostnameCheck(chain, anchors, Now, identity)]

(* The expected identity: the operator's, or the observed SNI on request.   *)
ReferenceIdentity(supplied, trustSni, sni) ==
    IF supplied # NoName THEN supplied ELSE IF trustSni THEN sni ELSE NoName
=============================================================================
