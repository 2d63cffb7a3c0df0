----------------------------- MODULE TlsSession -----------------------------
(***************************************************************************)
(* A TLS session on the wire, its passive capture, and what                *)
(* analyze_tls_session (tls/analyzer.py, keyexchange.py,                   *)
(* forward_secrecy.py) concludes from the capture.                         *)
(*                                                                         *)
(* The peers follow one of the scenarios below and stop at any point.  The *)
(* capture may hold one direction only, miss records at the start, end or  *)
(* be interrupted anywhere, hold ambiguous bytes, and, when Reorder is     *)
(* set, hold two consecutive records of a direction in the wrong order: a  *)
(* record is placed by the lowest packet number that carries a part of it. *)
(***************************************************************************)
EXTENDS TlsConclusions

CONSTANTS
    Reorder,   \* packets of a direction may be captured out of order
    MaxSkip    \* records missed at the start of a direction

ASSUME SessionAssumption == Reorder \in BOOLEAN /\ MaxSkip \in Nat

-----------------------------------------------------------------------------
(* What peers send.                                                         *)
Unit(m, n) == [i \in 1..n |-> [msg |-> m, part |-> i, of |-> n]]
Record(type, body, secret) == [type |-> type, body |-> body, secret |-> secret]
Plain(body) == Record("handshake", body, FALSE)
Ccs == Record("ccs", << >>, FALSE)
Finished == Record("handshake", Unit("secret", 1), TRUE)
AppData == Record("appdata", << >>, TRUE)
Fatal == Record("alert", Unit("fatal", 1), FALSE)
CloseNotify == Record("alert", Unit("secret", 1), TRUE)

(* What the hellos say of an earlier session: their session identifiers     *)
(* (None is the empty one) and whether the client offers a pre-shared key.  *)
(* A TLS 1.3 server repeats the client's identifier whatever it negotiates. *)
Ids(c, s) == [client |-> c, server |-> s, offered |-> FALSE]
Hellos13(offered) == [client |-> "x", server |-> "x", offered |-> offered]

(* A scenario: the records of each direction, how many of the other         *)
(* direction's records each of them waits for, and what is negotiated.      *)
Scenario(version, family, resumed, hello, client, clientWaits, server, serverWaits) ==
    [version |-> version, family |-> family, resumed |-> resumed, hello |-> hello,
     sends |-> [d \in Directions |-> IF d = "client" THEN client ELSE server],
     waits |-> [d \in Directions |-> IF d = "client" THEN clientWaits ELSE serverWaits]]

(* A full TLS 1.2 handshake, the server's flight in one record or several.  *)
Full12(family, hasCertificate, hasKeyExchange, coalesced, hello) ==
    LET units == Unit("SH12", 1)
                 \o (IF hasCertificate THEN Unit("CERT", 2) ELSE << >>)
                 \o (IF hasKeyExchange THEN Unit("SKE", 1) ELSE << >>)
                 \o Unit("SHD", 1)
        flight == IF coalesced THEN << Plain(units) >>
                  ELSE << Plain(SubSeq(units, 1, 2)), Plain(SubSeq(units, 3, Len(units))) >>
        n == Len(flight)
    IN  Scenario("SH12", family, FALSE, hello,
            << Plain(Unit("CH", 1)), Plain(Unit("CKE", 1)), Ccs, Finished, CloseNotify >>,
            <<0, n, n, n, n + 2>>,
            flight \o << Ccs, Finished, AppData >>,
            [i \in 1..n |-> 1] \o <<4, 4, 4>>)

(* A flight that exceeds the limit on handshake bytes, and a ticket that    *)
(* would still fit in.                                                      *)
Large12 ==
    LET units == Unit("SH12", 1) \o Unit("CERT", 3) \o Unit("SKE", 1) \o Unit("SHD", 1)
                 \o Unit("NST", 2)
    IN  Scenario("SH12", "ECDHE", FALSE, Ids("x", None),
            << Plain(Unit("CH", 1)), Plain(Unit("CKE", 1)), Ccs, Finished >>, <<0, 2, 2, 2>>,
            << Plain(SubSeq(units, 1, 2)), Plain(SubSeq(units, 3, 6)), Plain(SubSeq(units, 7, 8)),
               Ccs, Finished >>, <<1, 1, 4, 4, 4>>)

(* A TLS 1.2 session resumed by its identifier, or by a ticket: the client  *)
(* of a ticket may send no identifier, and the server has none to repeat.   *)
Resumed12(hello) ==
    Scenario("SH12", "ECDHE", TRUE, hello,
        << Plain(Unit("CH", 1)), Ccs, Finished, AppData >>, <<0, 3, 3, 3>>,
        << Plain(Unit("SH12", 1)), Ccs, Finished, AppData >>, <<1, 1, 1, 3>>)

(* TLS 1.3: full, or with a pre-shared key, which stems from an earlier     *)
(* session or was agreed on outside TLS; early data after the hello.        *)
Full13(family, resumed, early, offered) ==
    Scenario("SH13", family, resumed, Hellos13(offered),
        << Plain(Unit("CH", 1)), Ccs, AppData >>, IF early THEN <<0, 0, 0>> ELSE <<0, 3, 3>>,
        << Plain(Unit("SH13", 1)), Ccs, AppData >>, <<1, 1, 1>>)

Retried13 ==
    Scenario("SH13", "ECDHE", FALSE, Hellos13(FALSE),
        << Plain(Unit("CH", 1)), Ccs, Plain(Unit("CH", 1)), AppData >>, <<0, 2, 2, 4>>,
        << Plain(Unit("HRR", 1)), Ccs, Plain(Unit("SH13", 1)), AppData >>, <<1, 1, 3, 3>>)

Refused ==
    Scenario(None, None, FALSE, Ids("x", None),
        << Plain(Unit("CH", 1)) >>, <<0>>, << Fatal >>, <<1>>)

Scenarios ==
    { Full12("ECDHE", TRUE, TRUE, FALSE, Ids("x", "y")),
      Full12("ECDHE", TRUE, TRUE, TRUE, Ids(None, "y")),
      Full12("RSA", TRUE, FALSE, FALSE, Ids("x", None)),
      Full12("ANON", FALSE, TRUE, FALSE, Ids(None, None)),
      Full12("unregistered", TRUE, TRUE, TRUE, Ids("x", "y")), Large12,
      Resumed12(Ids("x", "x")), Resumed12(Ids(None, None)),
      Full13("ECDHE", FALSE, FALSE, TRUE), Full13("EPHEMERAL", FALSE, FALSE, FALSE),
      Full13("PSK", TRUE, FALSE, TRUE), Full13("PSK", FALSE, FALSE, TRUE),
      Full13("PSK_EPHEMERAL", TRUE, TRUE, TRUE), Retried13, Refused }

-----------------------------------------------------------------------------
VARIABLES
    scenario,   \* what the peers do
    wire,       \* the records sent so far, in capture order
    skipped,    \* records the capture misses at the start of a direction
    held,       \* records of a direction after those that are there entirely
    stop,       \* what ends the framing of a direction
    phase,      \* "capture", "walk" or "done"
    todo,       \* framed records the walk has not read yet
    walk        \* the state of _HandshakeWalk

vars == <<scenario, wire, skipped, held, stop, phase, todo, walk>>
captured == <<skipped, held, stop>>

SentBy(d) == Cardinality({i \in DOMAIN wire : wire[i].dir = d})
Other(d) == CHOOSE e \in Directions : e # d

Init ==
    /\ scenario \in Scenarios
    /\ wire = << >> /\ todo = << >>
    /\ skipped = [d \in Directions |-> 0]
    /\ held = [d \in Directions |-> 0]
    /\ stop = [d \in Directions |-> "end"]
    /\ phase = "capture"
    /\ walk = NewWalk

Send(d) ==
    LET n == SentBy(d) + 1
        entry == [dir |-> d, n |-> n]
        last == Len(wire)
    IN  /\ phase = "capture"
        /\ n \in DOMAIN scenario.sends[d]
        /\ SentBy(Other(d)) >= scenario.waits[d][n]
        /\ \/ wire' = Append(wire, entry)
           \/ /\ Reorder
              /\ last > 0 /\ wire[last].dir = d
              /\ wire' = SubSeq(wire, 1, last - 1) \o << entry, wire[last] >>
        /\ UNCHANGED <<scenario, captured, phase, todo, walk>>

(* The fragments of both directions in the order of _merged.                *)
Merged(sk, h, st) ==
    LET IsFramed(e) == e.n - sk[e.dir] \in 1..Framed(h[e.dir], st[e.dir])
        FrameOf(e) == Frame(e.dir, e.n - sk[e.dir] - 1, scenario.sends[e.dir][e.n],
                            h[e.dir], st[e.dir])
        merged[i \in 0..Len(wire)] ==
            IF i = 0 THEN << >>
            ELSE IF IsFramed(wire[i]) THEN Append(merged[i - 1], FrameOf(wire[i]))
            ELSE merged[i - 1]
    IN  merged[Len(wire)]

(* The capture ends; what it holds of each direction is decided.  Nothing   *)
(* stops the framing where nothing follows, except the end.                 *)
StopCapture ==
    /\ phase = "capture"
    /\ \E sk \in [Directions -> 0..MaxSkip], h \in [Directions -> 0..6],
          st \in [Directions -> Stops] :
        /\ \A d \in Directions :
            /\ sk[d] + h[d] <= SentBy(d)
            /\ st[d] = "absent" => sk[d] + h[d] = 0
            /\ st[d] = "end" => sk[d] + h[d] = SentBy(d)
            /\ st[d] \notin {"end", "foreign", "absent"} => sk[d] + h[d] < SentBy(d)
            /\ st[d] = "foreign" =>
                  sk[d] + h[d] = SentBy(d) /\ SentBy(d) = Len(scenario.sends[d])
        /\ skipped' = sk /\ held' = h /\ stop' = st
        /\ todo' = Merged(sk, h, st)
    /\ phase' = "walk"
    /\ UNCHANGED <<scenario, wire, walk>>

(* One turn of the loop in run.                                             *)
Walk ==
    /\ phase = "walk" /\ todo # << >>
    /\ walk' = WalkRecord(walk, Head(todo))
    /\ todo' = Tail(todo)
    /\ UNCHANGED <<scenario, wire, captured, phase>>

Finish ==
    /\ phase = "walk" /\ todo = << >>
    /\ phase' = "done"
    /\ UNCHANGED <<scenario, wire, captured, todo, walk>>

Next == (\E d \in Directions : Send(d)) \/ StopCapture \/ Walk \/ Finish

Spec == Init /\ [][Next]_vars

-----------------------------------------------------------------------------
(* Properties.  What a property excludes is what the report itself tells    *)
(* its reader: the start of a direction was missed, or the limit on         *)
(* handshake bytes was reached.                                             *)
FromTheStart == \A d \in Directions : skipped[d] = 0

Family == scenario.family
ParseStates == {ParseState(held[d], stop[d]) : d \in Directions}

(* Each component of the state has its type.                                *)
TlsTypeOK ==
    /\ scenario \in Scenarios
    /\ phase \in {"capture", "walk", "done"}
    /\ \A d \in Directions :
          /\ SentBy(d) <= Len(scenario.sends[d])
          /\ Len(walk.stream[d]) <= MaxHandshake
          /\ walk.boundary[d].at \in -1..MaxRecords
    /\ walk.overflow \subseteq Directions /\ walk.ccs \subseteq Directions

(* handshake.py:15: past a direction's boundary no byte enters its buffer,  *)
(* so an encrypted body is never parsed as a plaintext message.             *)
EncryptedNeverParsed ==
    \A d \in Directions : \A i \in DOMAIN walk.stream[d] :
        walk.stream[d][i].msg # "secret"

(* The same, for a capture that holds the start of both directions.         *)
PlaintextOnly == FromTheStart => EncryptedNeverParsed

(* The messages handled in a direction are, in their order, the first ones  *)
(* the peer sent in plaintext: none is handled twice, passed over or put    *)
(* together from bytes that do not belong together.                         *)
SentUnits(d) ==
    LET sends == scenario.sends[d]
        units[n \in 0..Len(sends)] ==
            IF n = 0 THEN << >>
            ELSE IF sends[n].type = "handshake" /\ ~sends[n].secret
            THEN units[n - 1] \o sends[n].body
            ELSE units[n - 1]
    IN  units[Len(sends)]

SentMessages(d) ==
    LET units == SentUnits(d)
        first[i \in 0..Len(units)] ==
            IF i = 0 THEN << >>
            ELSE IF units[i].part = 1 THEN Append(first[i - 1], units[i].msg)
            ELSE first[i - 1]
    IN  first[Len(units)]

HandledAsSent ==
    FromTheStart =>
        /\ ~walk.malformed
        /\ \A d \in Directions \ walk.overflow : IsPrefix(walk.handled[d], SentMessages(d))

(* A version is reported only as the server chose it.  When the server's    *)
(* hello was captured before anything went wrong, the report says so.       *)
HelloAt == {n \in DOMAIN scenario.sends["server"] :
                \E i \in DOMAIN scenario.sends["server"][n].body :
                    scenario.sends["server"][n].body[i].msg \in ServerHellos}
NegotiationReported ==
    phase = "done" =>
        /\ SelectedVersion(walk) \in {None, scenario.version}
        /\ (/\ skipped["server"] = 0 /\ held["server"] <= MaxRecords
            /\ "server" \notin walk.overflow
            /\ \E n \in HelloAt : n <= held["server"])
           => SelectedVersion(walk) = scenario.version

(* The two sessions the hellos do not tell apart from others: one resumed   *)
(* by a ticket whose client sends no identifier, and one keyed by a secret  *)
(* that was agreed on outside TLS.                                          *)
Ticketed == scenario.resumed /\ scenario.hello.client = None
Prearranged == ~scenario.resumed /\ Family = "PSK"

(* The reasons given for an absent certificate, the way keys were           *)
(* established, the verdict on forward secrecy, on resumption and on the    *)
(* handshake are true of the session; on resumption, of every session whose *)
(* client's hello was read and that is not one of the two above.            *)
ConclusionsAreTrue ==
    (phase = "done" /\ FromTheStart /\ walk.overflow = {}) =>
        LET seen == CertificateVisibility(walk, Family)
            secrecy == ForwardSecrecy(walk, Family)
            resumed == LikelyResumed(walk, scenario.hello, Family)
            state == HandshakeState(walk, ParseStates)
        IN  /\ seen = "ENCRYPTED_AFTER_CCS" => scenario.resumed
            /\ seen = "ENCRYPTED_TLS13" => scenario.version = "SH13"
            /\ seen # "PARSE_FAILED"
            /\ secrecy = "EPHEMERAL_OBSERVED" => Family \in Ephemeral
            /\ secrecy \in {"PSK_ONLY", "STATIC_RSA_KEY_EXCHANGE", "NOT_FORWARD_SECRET"}
                  => Family \in {"PSK", "RSA", "ANON"}
            /\ "key_exchange" \in SuiteParts(walk, Family) =>
                  scenario.version = "SH12" /\ KeyExchange(walk, Family).method = Family
            /\ (scenario.version = "SH13" /\ SelectedVersion(walk) # None) =>
                  KeyExchange(walk, Family).method = Family
            /\ resumed = "yes" => scenario.resumed \/ Prearranged
            /\ (resumed = "no" /\ walk.clientHello) => ~scenario.resumed \/ Ticketed
            /\ state = "ABORTED_BY_ALERT" => scenario.version = None
            /\ state = "HELLO_RETRY_REQUESTED" => scenario.version = "SH13"
            /\ state = "SERVER_FLIGHT_COMPLETE" => scenario.version = "SH12" /\ ~scenario.resumed

(* analyzer.py:1071: "The server did not echo the client's session          *)
(* identifier, so this is a full handshake."  It is one, when both hellos   *)
(* were captured and nothing was missed before them.                        *)
FullHandshakeIsFull ==
    (/\ phase = "done" /\ FromTheStart /\ walk.overflow = {} /\ walk.clientHello
     /\ LikelyResumed(walk, scenario.hello, Family) = "no")
    => ~scenario.resumed
=============================================================================
