--------------------------- MODULE TlsConclusions ---------------------------
(***************************************************************************)
(* What analyze_tls_session reports of a finished walk: the negotiated     *)
(* version and suite, the key exchange (tls/keyexchange.py), forward       *)
(* secrecy (tls/forward_secrecy.py), why a certificate is absent,          *)
(* resumption and the state of the handshake (tls/analyzer.py).  "family"  *)
(* is what the ServerHello and its suite encode; it is used only when a    *)
(* ServerHello was read.                                                   *)
(***************************************************************************)
EXTENDS TlsWalk

Registered(family) == family # "unregistered"
Ephemeral == {"ECDHE", "DHE", "EPHEMERAL", "PSK_EPHEMERAL"}

SelectedVersion(w) == w.serverHello

(* The parts of the negotiated suite that are described: a suite of TLS 1.3 *)
(* says nothing about key exchange and authentication.                      *)
SuiteParts(w, family) ==
    CASE w.serverHello = "SH13" -> {"encryption", "mac"}
      [] w.serverHello = "SH12" /\ Registered(family) ->
            {"key_exchange", "authentication", "encryption", "mac"}
      [] OTHER -> {}

(* What a ServerHello of TLS 1.3 carries when keys are established so: the  *)
(* family of the group of its key share, and a selected pre-shared key.     *)
Hello13(family) ==
    [share |-> CASE family \in {"ECDHE", "PSK_EPHEMERAL"} -> "ECDHE"
                 [] family = "DHE" -> "FFDHE"
                 [] family = "EPHEMERAL" -> "unlisted"
                 [] OTHER -> None,
     psk   |-> family \in {"PSK", "PSK_EPHEMERAL"}]

(* TLS 1.3 reads the method off the ServerHello's extensions, TLS 1.2 off   *)
(* the suite; "seen" says that ephemeral key material was on the wire.      *)
KeyExchange13(hello) ==
    [method |-> CASE hello.share # None /\ hello.psk -> "PSK_EPHEMERAL"
                  [] hello.share = "ECDHE" /\ ~hello.psk -> "ECDHE"
                  [] hello.share = "FFDHE" /\ ~hello.psk -> "DHE"
                  [] hello.share = "unlisted" /\ ~hello.psk -> "EPHEMERAL"
                  [] hello.share = None /\ hello.psk -> "PSK"
                  [] hello.share = None /\ ~hello.psk -> "UNKNOWN",
     seen |-> hello.share # None]

KeyExchange12(w, family) ==
    [method |-> IF Registered(family) THEN family ELSE "UNKNOWN",
     seen |-> w.keyExchange /\ family \in {"ECDHE", "DHE"}]

KeyExchange(w, family) ==
    CASE w.serverHello = None -> [method |-> "UNKNOWN", seen |-> FALSE]
      [] w.serverHello = "SH13" -> KeyExchange13(Hello13(family))
      [] w.serverHello = "SH12" -> KeyExchange12(w, family)

ForwardSecrecy13(kx) ==
    CASE kx.method = "PSK" -> "PSK_ONLY"
      [] kx.method # "PSK" /\ kx.seen -> "EPHEMERAL_OBSERVED"
      [] OTHER -> "UNKNOWN_INCOMPLETE_EVIDENCE"

ForwardSecrecy12(kx) ==
    CASE kx.method = "RSA" -> "STATIC_RSA_KEY_EXCHANGE"
      [] kx.method = "PSK" -> "PSK_ONLY"
      [] kx.method \in {"DH_STATIC", "ECDH_STATIC", "ANON"} -> "NOT_FORWARD_SECRET"
      [] kx.method \in Ephemeral ->
            IF kx.seen THEN "EPHEMERAL_OBSERVED" ELSE "CAPABLE_NEGOTIATED"
      [] OTHER -> "UNKNOWN_INCOMPLETE_EVIDENCE"

ForwardSecrecy(w, family) ==
    CASE w.serverHello = None -> "UNKNOWN_INCOMPLETE_EVIDENCE"
      [] w.serverHello = "SH13" -> ForwardSecrecy13(KeyExchange(w, family))
      [] w.serverHello = "SH12" -> ForwardSecrecy12(KeyExchange(w, family))

(* Defect: a ChangeCipherSpec explains the absence whatever the version.    *)
AbsentByCcs(w, family) ==
    CASE "server" \in w.ccs -> "ENCRYPTED_AFTER_CCS"
      [] OTHER -> "NOT_OBSERVED"

(* Why there is no certificate.                                             *)
AbsentCertificate(w, family) ==
    CASE w.serverHello # None /\ family = "ANON" -> "NOT_APPLICABLE_ANONYMOUS"
      [] w.serverHello = "SH13" -> "ENCRYPTED_TLS13"
      [] (w.serverHello = None \/ (w.serverHello = "SH12" /\ family # "ANON")) ->
            IF ~(w.retry /\ w.serverHello = None) /\ "server" \in w.ccs /\ ~w.tls13
            THEN "ENCRYPTED_AFTER_CCS" ELSE "NOT_OBSERVED"

CertificateVisibility(w, family) ==
    CASE w.certificate = None -> AbsentCertificate(w, family)
      [] w.certificate = "whole" -> "OBSERVED"
      [] w.certificate = "corrupt" -> "PARSE_FAILED"

(* TLS 1.3 asks for an offered and a selected pre-shared key, TLS 1.2 for   *)
(* an identifier that is not empty and that the server repeats.  What was   *)
(* not read of the client is an empty identifier and no offer.              *)
Repeated(hello) == hello.client # None /\ hello.client = hello.server
PskTaken(hello, family) == hello.offered /\ Hello13(family).psk
LikelyResumed(w, hello, family) ==
    CASE w.serverHello = None -> "unknown"
      [] w.serverHello = "SH13" ->
            IF w.clientHello /\ PskTaken(hello, family) THEN "yes" ELSE "no"
      [] w.serverHello = "SH12" ->
            IF w.clientHello /\ Repeated(hello) THEN "yes" ELSE "no"

(* Parse states after which the records that follow are not known.          *)
Degraded == {"ALIGNMENT_LOST_AT_GAP", "MALFORMED_RECORD", "AMBIGUOUS_BYTES"}

HandshakeState(w, states) ==
    CASE \E a \in w.alerts : a.fatal -> "ABORTED_BY_ALERT"
      [] (~\E a \in w.alerts : a.fatal) /\ states \cap Degraded # {} -> "INDETERMINATE"
      [] (~\E a \in w.alerts : a.fatal) /\ states \cap Degraded = {} ->
            CASE w.retry /\ w.serverHello = None -> "HELLO_RETRY_REQUESTED"
              [] ~w.retry /\ w.serverHello = None ->
                    IF w.clientHello THEN "CLIENT_HELLO_ONLY" ELSE "NOT_OBSERVED"
              [] w.serverHello # None ->
                    CASE ~w.clientHello -> "SERVER_HELLO_WITHOUT_CLIENT_HELLO"
                      [] w.clientHello /\ w.serverHello = "SH13" ->
                            "NEGOTIATED_THEN_ENCRYPTED"
                      [] w.clientHello /\ w.serverHello = "SH12" ->
                            IF w.helloDone THEN "SERVER_FLIGHT_COMPLETE"
                            ELSE IF "server" \in w.ccs THEN "NEGOTIATED_THEN_ENCRYPTED"
                            ELSE "NEGOTIATED"
=============================================================================
