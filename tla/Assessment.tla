----------------------------- MODULE Assessment -----------------------------
(***************************************************************************)
(* What a captured session is finally judged to be: an SMTP dialogue, the  *)
(* TLS handshake an accepted STARTTLS (or an implicit-TLS port) leads to,  *)
(* its passive capture, the analyses of the two and the rules of the       *)
(* assessment over their results (assessment/engine.py).                   *)
(*                                                                         *)
(* Client and server alternate.  A line or a TLS record may be missed by   *)
(* the capture; the capture may end, and begin, anywhere.  Every state     *)
(* holds the judgement of the capture so far, so that it is compared with  *)
(* what happened after every captured prefix of the session.               *)
(***************************************************************************)
EXTENDS AssessmentRules, Certificates, Framing, FiniteSets

CONSTANTS
    MaxEvents, MaxBody, MaxRecords, MaxHandshake, MaxMessages,
    MaxLines,    \* lines of the mail dialogue
    MaxFaults    \* lines and records the capture misses

Mail == INSTANCE SmtpDialogue
Tls == INSTANCE TlsConclusions

Directions == {"client", "server"}

-----------------------------------------------------------------------------
(* What the peers may negotiate, and what they send.                        *)
Leaf == Certificate("mail", "ca", {"mail"})
Root == Certificate("ca", "ca", {})
Other == Certificate("other", "ca", {})

Whole(m) == [type |-> "handshake", secret |-> FALSE,
             body |-> << [msg |-> m, part |-> 1, of |-> 1] >>]
Plain(type, m) == [type |-> type, secret |-> FALSE,
                   body |-> << [msg |-> m, part |-> 1, of |-> 1] >>]
From(d, rec) == [dir |-> d, rec |-> rec]

Handshake(version, suite, family, ephemeral, offered, chain, hybrid) ==
    [version |-> version, suite |-> suite, family |-> family, offered |-> offered,
     chain |-> chain, hybrid |-> hybrid, forwardSecret |-> ephemeral,
     fatal |-> FALSE,
     records |->
        << From("client", Whole("CH")) >>
        \o (IF version = 4 THEN << From("server", Whole("SH13")) >>
            ELSE << From("server", Whole("SH12")) >>
                 \o (IF chain = << >> THEN << >> ELSE << From("server", Whole("CERT")) >>)
                 \o (IF ephemeral THEN << From("server", Whole("SKE")) >> ELSE << >>)
                 \o << From("server", Whole("SHD")), From("client", Whole("CKE")) >>)
        \o << From("client", Plain("ccs", "ccs")), From("server", Plain("appdata", "secret")) >>]

(* One peer gives the handshake up after its first n records.               *)
AlertAfter(n, h, d) ==
    [h EXCEPT !.fatal = TRUE,
              !.records = SubSeq(@, 1, n) \o << From(d, Plain("alert", "fatal")) >>]

Good == Handshake(3, "ECDHE_GCM", "ECDHE", TRUE, {3, 4}, << Leaf >>, FALSE)

Handshakes ==
    { Good, AlertAfter(1, Good, "server"), AlertAfter(3, Good, "client"),
      Handshake(4, "TLS13_GCM", "ECDHE", TRUE, {3, 4}, << Leaf >>, TRUE),
      Handshake(3, "ECDHE_NULL", "ECDHE", TRUE, {3},
                << [Leaf EXCEPT !.issuer = "other"], [Other EXCEPT !.fits = FALSE] >>, FALSE),
      Handshake(3, "ANON_3DES", "ANON", FALSE, {3}, << >>, FALSE),
      Handshake(1, "RSA_CBC", "RSA", FALSE, {1, 3},
                << [Leaf EXCEPT !.names = {"elsewhere"}, !.issuer = "other"], Other >>, FALSE),
      Handshake(3, "RSA_RC4", "RSA", FALSE, {3},
                << [Leaf EXCEPT !.key = "RSA", !.bits = 1024, !.hash = "sha1",
                                !.from = Now + 1, !.until = Now + 2,
                                !.issuer = "other"],
                   [Other EXCEPT !.issuer = "root"] >>, FALSE),
      Handshake(3, "UNREGISTERED", "unregistered", FALSE, {3},
                << [Leaf EXCEPT !.decodes = FALSE], Root >>, FALSE),
      Handshake(3, "ECDHE_GCM", "ECDHE", TRUE, {3, 4},
                << [Leaf EXCEPT !.issuer = "other"], [Other EXCEPT !.until = Now - 1] >>,
                FALSE),
      Handshake(3, "ECDHE_GCM", "ECDHE", TRUE, {3, 4},
                << [Leaf EXCEPT !.until = Now - 1, !.usage = {"clientAuth"}] >>, FALSE) }

(* What the operator configured: trust anchors and the expected identity.   *)
Configurations ==
    {[anchors |-> {}, supplied |-> NoName, trustSni |-> FALSE],
     [anchors |-> {}, supplied |-> NoName, trustSni |-> TRUE],
     [anchors |-> {Root}, supplied |-> "mail", trustSni |-> FALSE]}

Policies ==
    {DefaultPolicy,
     Policy({"CleartextLogin"}, << >>, [r \in {"UnapprovedCipher"} |-> 9]),
     Policy({}, [r \in {"NullCipher", "CleartextLogin"} |-> "INFO"], << >>),
     Policy({}, [r \in {"UnapprovedCipher", "UpgradeNotFollowed"} |-> "CRITICAL"],
            [r \in {"BrokenCipher"} |-> 0])}

-----------------------------------------------------------------------------
VARIABLES
    phase,     \* "greeting", "idle", "answer", "sasl" or "tls"
    verb,      \* the command the server has to answer
    truth,     \* what happened on the wire
    lines,     \* lines sent so far
    faults,    \* lines and records missed so far
    parser,    \* the SMTP parser
    place,     \* bytes of a direction captured or known to be missing
    seen,      \* directions of which something was captured
    late,      \* the capture of a direction began after one of its lines
    hole,      \* directions with a hole since the last captured line
    commands,  \* offsets of the captured commands, in the client's stream
    refusedAt, \* offset after the refusal, in the server's stream
    listed,    \* a capability advertisement was recorded
    implicit,  \* TLS from the first byte
    peer,      \* the handshake the peers perform, and the configuration
    next,      \* number of the next record
    framed,    \* the records framed in each direction
    lost,      \* "no", "silent" or "gap": whether framing lost a direction
    walk,      \* the walk over the captured records
    followed,  \* a handshake record of TLS was captured
    verdicts   \* the outcome of every rule

mail == <<verb, lines, parser, place, seen, late, hole, commands, refusedAt, listed>>
tls == <<implicit, peer, next, framed, lost, walk, followed>>
vars == <<phase, truth, faults, mail, tls, verdicts>>

(* The judgement of what was captured.                                      *)

Identified == Mail!EvidenceScore(parser) > 0 /\ Mail!DetectionStatus(parser) # "UNKNOWN"

Accepted == Mail!UpgradeState(parser) = "UPGRADE_ACCEPTED"

(* A dialogue that is not identified has no upgrade.  What is framed after  *)
(* an acceptance speaks for it.                                             *)
Upgrade ==
    IF Identified THEN Mail!UpgradeReport(parser, Strength({framed[d] : d \in Directions}))
    ELSE "NONE"

(* TLS from the first captured byte of a direction: of a session that used  *)
(* TLS all along, and of one whose capture begins within TLS or misses all  *)
(* that a peer said before.                                                 *)
ImplicitFraming == Strength({framed[d] : d \in Directions \ seen})

(* _entry_points: TLS is analysed after an acceptance, on implicit TLS, and *)
(* where a stream starts with anything that is framed like a record.        *)
Analysed ==
    \/ Upgrade \in {"UPGRADE_ACCEPTED", "TLS_BYTES_OBSERVED"}
    \/ ImplicitFraming # Nothing

(* A direction that starts with the mail dialogue is malformed as TLS.      *)
StopOf(d) ==
    IF Accepted \/ d \notin seen THEN IF lost[d] = "gap" THEN "gap" ELSE "end"
    ELSE IF ImplicitFraming = "strong" THEN "foreign" ELSE "absent"

RecordStates == {Tls!ParseState(Len(framed[d]), StopOf(d)) : d \in Directions}

MailEvidence ==
    [status |-> IF Identified THEN Mail!DetectionStatus(parser) ELSE "PORT_HINT",
     implicit |-> ImplicitFraming = "strong",
     parse |-> Mail!ParseState(parser),
     attempts |-> parser.attempts,
     upgrade |-> Upgrade,
     requested |-> parser.upgradeSeen /\ parser.requested,
     advertised |-> parser.upgradeSeen /\ parser.advertised,
     capabilities |-> listed, commands |-> commands, refusedAt |-> refusedAt]

(* Evidence that the absence of a TLS analysis leaves without a meaning.    *)
NoTls == [tls |-> FALSE, version |-> 0, offered |-> {}, suite |-> NoValue,
          fatal |-> FALSE, handshake |-> NoValue, secrecy |-> NoValue, hybrid |-> FALSE,
          seen |-> NoValue, leaf |-> NoValue, valid |-> NoValue, at |-> Now]

TlsEvidence ==
    IF ~Analysed \/ peer = << >> THEN [NoTls EXCEPT !.tls = Analysed,
                                           !.handshake = "NOT_OBSERVED"]
    ELSE
      LET h == peer[1]
          c == peer[2]
          hello == walk.serverHello # Tls!None
          chain == Decoded(h.chain)
          visible == Tls!CertificateVisibility(walk, h.family)
          seenAs == IF visible = "OBSERVED" /\ chain = << >> THEN "PARSE_FAILED" ELSE visible
          sni == IF walk.clientHello THEN "mail" ELSE NoName
      IN  [tls |-> TRUE,
           version |-> IF hello THEN h.version ELSE 0,
           offered |-> IF walk.clientHello THEN h.offered ELSE {},
           suite |-> IF hello THEN h.suite ELSE NoValue,
           fatal |-> \E a \in walk.alerts : a.fatal,
           handshake |-> Tls!HandshakeState(walk, RecordStates),
           secrecy |-> Tls!ForwardSecrecy(walk, h.family),
           hybrid |-> h.hybrid /\ walk.serverHello = "SH13",
           seen |-> seenAs,
           leaf |-> IF seenAs = "OBSERVED" THEN Head(chain) ELSE NoValue,
           valid |-> IF seenAs = "OBSERVED"
                     THEN Validation(chain, c.anchors,
                              ReferenceIdentity(c.supplied, c.trustSni, sni))
                     ELSE NoValue,
           at |-> Now]

Evidence ==
    LET mailed == MailEvidence
        secured == TlsEvidence
    IN  [f \in DOMAIN mailed \cup DOMAIN secured |->
            IF f \in DOMAIN mailed THEN mailed[f] ELSE secured[f]]

Verdicts(e) == [r \in Rules |-> Evaluate(r, e)]
Judgement(policy) == Results(verdicts, policy)

-----------------------------------------------------------------------------
NoTruth == [login |-> FALSE, accepted |-> FALSE, refused |-> FALSE,
            after |-> FALSE, declined |-> FALSE, heard |-> FALSE]

Init ==
    /\ phase \in {"greeting", "idle"}
    /\ verb = NoValue
    /\ truth = NoTruth
    /\ lines = 0 /\ faults = 0
    /\ parser = Mail!NewParser
    /\ place = [d \in Directions |-> 0]
    /\ seen = {} /\ late = FALSE /\ hole = {}
    /\ commands = {} /\ refusedAt = 0 /\ listed = FALSE
    /\ implicit = FALSE
    /\ peer = << >>
    /\ next = 1
    /\ framed = [d \in Directions |-> << >>]
    /\ lost = [d \in Directions |-> "no"]
    /\ walk = Tls!NewWalk
    /\ followed = FALSE
    /\ \E e \in {Evidence} : verdicts = Verdicts(e)

-----------------------------------------------------------------------------
(* The mail dialogue.  A line occupies one place of its stream.             *)

Rejects(p) == p.outcome \in {"REJECTED", "TEMPORARY"} /\ p.response

Captured(d, l) ==
    LET p == Mail!SmtpParse(parser, [l EXCEPT !.gap = d \in hole], d = "client")
    IN  /\ parser' = p
        /\ commands' = IF p.recognised > parser.recognised
                       THEN commands \cup {place[d]} ELSE commands
        /\ refusedAt' = IF Rejects(p) /\ ~Rejects(parser) THEN place[d] + 1 ELSE refusedAt
        /\ listed' = (listed \/ /\ p.matched > parser.matched /\ parser.reply # << >>
                                /\ verb \in {"extensions", "offered"})
        /\ seen' = seen \cup {d}
        /\ hole' = hole \ {d}
        /\ UNCHANGED <<faults, late>>

Missed(d) ==
    /\ faults < MaxFaults
    /\ faults' = faults + 1
    /\ hole' = IF d \in seen THEN hole \cup {d} ELSE hole
    /\ late' = (late \/ d \notin seen)
    /\ UNCHANGED <<parser, commands, refusedAt, listed, seen>>

(* A hole before the first captured byte of a direction has no length.      *)
Transmit(d, l, clean) ==
    /\ lines < MaxLines
    /\ lines' = lines + 1
    /\ place' = IF clean \/ d \in seen THEN [place EXCEPT ![d] = @ + 1] ELSE place
    /\ IF clean THEN Captured(d, l) ELSE Missed(d)
    /\ UNCHANGED tls

Says(word) == Mail!Line("SMTP", word)

Greet ==
    /\ phase = "greeting"
    /\ phase' = "idle"
    /\ \E clean \in BOOLEAN : Transmit("server", Says("220"), clean)
    /\ UNCHANGED <<verb, truth>>

Command ==
    /\ phase = "idle"
    /\ phase' = "answer"
    /\ \E word \in {"EHLO", "STARTTLS", "AUTH", "NOOP"}, clean \in BOOLEAN :
          /\ verb' = word
          /\ Transmit("client", Says(word), clean)
          /\ truth' = [truth EXCEPT !.login = @ \/ word = "AUTH",
                                    !.heard = @ \/ (word = "AUTH" /\ clean),
                                    !.after = @ \/ (truth.refused /\ clean)]

(* The first line of an EHLO reply names the host, the others extensions.   *)
Continue ==
    /\ phase = "answer" /\ verb \in {"EHLO", "extensions", "offered"}
    /\ \E offers \in (IF verb = "EHLO" THEN {FALSE} ELSE BOOLEAN), clean \in BOOLEAN :
          /\ verb' = IF offers \/ verb = "offered" THEN "offered" ELSE "extensions"
          /\ Transmit("server", [Says("250") EXCEPT !.more = TRUE, !.offers = offers], clean)
    /\ UNCHANGED <<phase, truth>>

Challenge ==
    /\ phase = "answer" /\ verb = "AUTH"
    /\ phase' = "sasl"
    /\ \E clean \in BOOLEAN : Transmit("server", Says("334"), clean)
    /\ UNCHANGED <<verb, truth>>

Respond ==
    /\ phase = "sasl"
    /\ phase' = "answer"
    /\ \E clean \in BOOLEAN : Transmit("client", Says("text"), clean)
    /\ UNCHANGED <<verb, truth>>

Codes == [EHLO |-> {"250"}, extensions |-> {"250"}, offered |-> {"250"},
          STARTTLS |-> {"220", "454"}, AUTH |-> {"235", "535"},
          NOOP |-> {"250"}]

Answer ==
    /\ phase = "answer"
    /\ \E code \in Codes[verb], clean \in BOOLEAN,
          offers \in (IF verb \in {"extensions", "offered"} THEN BOOLEAN ELSE {FALSE}) :
          /\ Transmit("server", [Says(code) EXCEPT !.offers = offers], clean)
          /\ phase' = IF code = "220" THEN "tls" ELSE "idle"
          /\ truth' = [truth EXCEPT !.accepted = @ \/ code = "220",
                                    !.refused = @ \/ code = "454",
                                    !.declined = @ \/ (verb = "extensions" /\ ~offers)]
    /\ verb' = NoValue

-----------------------------------------------------------------------------
(* The TLS session.                                                         *)

StartTls(h, configuration) ==
    /\ peer = << >>
    /\ peer' = << h, configuration >>
    /\ UNCHANGED <<truth, faults, mail, next, framed, lost, walk, followed>>

StartImplicit ==
    /\ lines = 0 /\ phase = "idle"
    /\ phase' = "tls"
    /\ implicit' = TRUE
    /\ \E h \in Handshakes, c \in Configurations : StartTls(h, c)

(* Where the capture missed the acceptance one handshake is enough.         *)
StartUpgraded ==
    /\ phase = "tls"
    /\ \E h \in (IF Accepted THEN Handshakes ELSE {Good}), c \in Configurations : StartTls(h, c)
    /\ UNCHANGED <<phase, implicit>>

(* TLS is framed from the place of the acceptance, or from the first byte.  *)
(* A captured record is framed unless its direction lost its alignment: the *)
(* framing starts anew at the first record there is, except after the reply *)
(* of the server, whose end is where its framing starts.                    *)
Frames(d) ==
    /\ Accepted \/ d \notin seen
    /\ lost[d] = "no" \/ (framed[d] = << >> /\ (d = "client" \/ d \notin seen))

RecordCaptured(d, rec) ==
    IF Frames(d)
    THEN /\ walk' = Tls!WalkRecord(walk, Tls!Fragment(d, Len(framed[d]), rec, TRUE, FALSE))
         /\ framed' = [framed EXCEPT ![d] = Append(@, rec)]
         /\ lost' = [lost EXCEPT ![d] = "no"]
    ELSE /\ lost' = [lost EXCEPT ![d] = "gap"]
         /\ UNCHANGED <<walk, framed>>

(* To a parser that saw no acceptance the records are lines, if they happen *)
(* to contain the end of one, and none it knows; such lines count among the *)
(* MaxLines.  They identify no dialogue where there was none.               *)
RecordRead(d) ==
    \/ UNCHANGED <<parser, lines, hole>>
    \/ /\ ~parser.halt /\ ~implicit
       /\ lines < MaxLines
       /\ lines' = lines + 1
       /\ \E usable \in BOOLEAN :
             parser' = Mail!SmtpParse(parser,
                          [Says("text") EXCEPT !.usable = usable, !.gap = d \in hole],
                          d = "client")
       /\ hole' = hole \ {d}

RecordMissed(d) ==
    /\ faults < MaxFaults
    /\ faults' = faults + 1
    /\ lost' = [lost EXCEPT ![d] = IF @ = "gap" THEN @ ELSE "silent"]
    /\ hole' = IF d \in seen \/ framed[d] # << >> THEN hole \cup {d} ELSE hole
    /\ UNCHANGED <<walk, framed, parser, lines, followed>>

SendRecord ==
    /\ peer # << >>
    /\ next \in DOMAIN peer[1].records
    /\ next' = next + 1
    /\ LET r == peer[1].records[next]
       IN  \/ /\ RecordCaptured(r.dir, r.rec) /\ RecordRead(r.dir)
              /\ followed' = (followed \/ r.rec.type = "handshake")
              /\ UNCHANGED faults
           \/ RecordMissed(r.dir)
    /\ UNCHANGED <<phase, verb, truth, place, seen, late, commands, refusedAt,
                   listed, implicit, peer>>

Step ==
    \/ Greet \/ Command \/ Continue \/ Challenge \/ Respond \/ Answer
    \/ StartImplicit \/ StartUpgraded \/ SendRecord

Next == Step /\ \E e \in {Evidence'} : verdicts' = Verdicts(e)

Spec == Init /\ [][Next]_vars

-----------------------------------------------------------------------------
(* Properties.                                                              *)

(* What makes the failure of a rule a true statement about the session.     *)
Obsolete(v) == v < MinimumVersion
Cipher == IF peer[1].suite \in DOMAIN Registry
          THEN Registry[peer[1].suite].cipher ELSE "unknown"
Presented == Head(peer[1].chain)
Expected == ReferenceIdentity(peer[2].supplied, peer[2].trustSni, "mail")

(* The certificates that n steps of issuance lead to from an anchor, over   *)
(* all the server presented, those that were not read included.             *)
Trustworthy ==
    LET reached[n \in 0..Len(peer[1].chain)] ==
            IF n = 0 THEN {c \in peer[2].anchors : ValidAt(c, Now)}
            ELSE LET issuers == {c.subject : c \in reached[n - 1]}
                 IN  reached[n - 1] \cup {c \in Range(peer[1].chain) :
                                             ValidAt(c, Now) /\ c.issuer \in issuers}
    IN  reached[Len(peer[1].chain)]

IsTrue(r) ==
    CASE r = "NegotiatedVersion"  -> Obsolete(peer[1].version)
      [] r = "OfferedVersions"    -> \E v \in peer[1].offered : Obsolete(v)
      [] r = "NegotiationOutcome" -> peer[1].fatal
      [] r = "NullCipher"         -> Cipher = "NULL"
      [] r = "AnonymousCipher"    -> peer[1].family = "ANON"
      [] r = "BrokenCipher"       -> Cipher = "RC4_128"
      [] r = "SmallBlockCipher"   -> Cipher = "3DES_EDE_CBC"
      [] r = "UnapprovedCipher"   -> Cipher # "AES_128_GCM"
      [] r = "ForwardSecrecy"     -> ~peer[1].forwardSecret
      [] r = "Expired"            -> Presented.until < Now
      [] r = "NotYetValid"        -> Now < Presented.from
      [] r = "WeakKey"            -> Presented.bits < MinimumBits[Presented.key]
      [] r = "WeakSignature"      -> Presented.hash \in DeprecatedHashes
      [] r = "UntrustedChain"     -> Presented \notin Trustworthy
      [] r = "WrongName"          -> Expected \notin Presented.names
      [] r = "WrongUsage"         -> "serverAuth" \notin Presented.usage
      [] r = "CleartextLogin"     -> truth.login
      [] r = "LoginBeforeUpgrade" -> truth.login /\ truth.accepted
      [] r = "UpgradeRefused"     -> truth.refused
      [] r = "UpgradeNotFollowed" -> truth.accepted /\ ~followed
      [] r = "UpgradeNotOffered"  -> truth.declined

(* What the code is known to judge wrongly: the chain where a certificate   *)
(* of it was not read, all of a chain whose leaf could not be decoded, name *)
(* and chain of a certificate the verifier would not accept for any name,   *)
(* commands after a refusal, and a capability reply whose first captured    *)
(* line is not its first.                                                   *)
Misjudged(r) ==
    \/ r = "PlaintextContinued"
    \/ r = "UntrustedChain" /\ Decoded(peer[1].chain) # peer[1].chain
    \/ Catalogue[r].group \in {CertificateCatalogue[q].group : q \in DOMAIN CertificateCatalogue}
       /\ ~Presented.decodes
    \/ r = "UpgradeNotOffered" /\ late
    \/ r \in {"WrongName", "UntrustedChain"} /\ ~Acceptable(Presented, Now)


(* "Only the most severe FAIL becomes a finding and counts toward the       *)
(* score": what evaluator.py reports as findings and what scoring.py        *)
(* deducts are the same rules under every policy, though the two choose     *)
(* them independently.                                                      *)
FindingsMatchUnits ==
    \A policy \in Policies :
        LET results == Judgement(policy)
        IN  Findings(results, policy) =
                {Representative(results, policy, g, "FAIL") :
                    g \in {h \in Groups : UnitOutcome(results, h) = "FAIL"}}

(* A login that was captured in the clear is a finding, whatever else the   *)
(* capture missed and however the session went on, if the dialogue was      *)
(* identified at all.                                                       *)
LoginIsReported ==
    truth.heard /\ Identified
    => UnitOutcome(Judgement(DefaultPolicy), "PLAINTEXT_AUTH") = "FAIL"

(* "One CRITICAL control outweighs three MEDIUM ones and a LOW control      *)
(* cannot by itself move a score band" (policy.py): no critical finding     *)
(* leaves a session STRONG ...                                              *)
Found == {Catalogue[r].severity :
             r \in Findings(Judgement(DefaultPolicy), DefaultPolicy)} \ {"INFO"}
BandNow == Band(Score(Judgement(DefaultPolicy), DefaultPolicy))
CriticalIsNeverStrong == "CRITICAL" \in Found => BandNow # "STRONG"

(* ... and findings that are all LOW leave it STRONG.                       *)
LowStaysStrong == Found = {"LOW"} => BandNow \in {"STRONG", "NOT_AVAILABLE"}

(* Both: the band of a session follows the severity of its findings.        *)
BandsFollowSeverity == CriticalIsNeverStrong /\ LowStaysStrong

(* The parser takes a line of the client for none of its protocol, a SASL   *)
(* response to a challenge that was missed or a record of TLS to a missed   *)
(* acceptance, and that outweighs all it had recognised.                    *)
Disowned == Identified /\ ~Identified' /\ parser'.foreign > parser.foreign /\ faults > 0

(* More of the same session never takes a finding about its TLS parameters, *)
(* its certificates or an exposed login back, as long as the dialogue is    *)
(* not disowned: without a miss of the capture it never is.                 *)
Revisable == {"UPGRADE_OUTCOME", "PLAINTEXT_CONTINUATION", "UPGRADE_AVAILABILITY"}
Failed == {g \in Groups : UnitOutcome(Judgement(DefaultPolicy), g) = "FAIL"}
VerdictsAreStable == [][Disowned \/ Failed \ Revisable \subseteq Failed']_vars

(* docs/evidence-model.md:163: PORT_HINT is "Nothing but the TCP port".  A  *)
(* session of which a login command was captured has more than a port.      *)
LoginIsEvidence == truth.heard => MailEvidence.status # "PORT_HINT"

(* validate.py:24: "the path always succeeds and any failure is a name      *)
(* mismatch."                                                               *)
Fails(r) == Evaluate(r, Evidence) = "FAIL"
NameFailureIsTheName == Fails("WrongName") => Expected \notin Presented.names \/ ~Presented.decodes

(* validate.py:22: "the name always matches and any failure is a trust-path *)
(* failure."  Where the leaf itself is in order, nothing the server         *)
(* presented leads to an anchor.                                            *)
ChainFailureIsThePath ==
    Fails("UntrustedChain") /\ Presented.decodes /\ Acceptable(Presented, Now)
    => Presented \notin Trustworthy

(* MAIL-005, "Plaintext email protocol continued after the upgrade was      *)
(* refused": it fails if, and only if, a command was captured after the     *)
(* refusal.                                                                 *)
RefusalIsJudgedRight ==
    LET outcome == PlaintextContinued(Evidence)
    IN  /\ outcome = "FAIL" => truth.after
        /\ outcome = "PASS" => ~truth.after
=============================================================================
