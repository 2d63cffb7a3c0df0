------------------------------- MODULE Framing -------------------------------
(***************************************************************************)
(* How strongly the records that follow one another from an offset of a    *)
(* direction speak for TLS (protocols/framing.py).  A record is one of     *)
(* module TlsWalk: its body is a sequence of parts of messages.  Of a      *)
(* chain at most the last record is incomplete.                            *)
(***************************************************************************)
EXTENDS Naturals, Sequences

Nothing == "nothing"
Hellos == [CH   |-> "HANDSHAKE_CLIENT_HELLO",  SH12 |-> "HANDSHAKE_SERVER_HELLO",
           SH13 |-> "HANDSHAKE_SERVER_HELLO", HRR  |-> "HANDSHAKE_SERVER_HELLO"]

(* A handshake message is identified if the record holds all of its bytes.  *)
(* What an encrypted record starts with identifies nothing.                 *)
IdentifiedHandshake(rec) ==
    IF rec.type = "handshake" /\ rec.body # << >>
       /\ Head(rec.body).part = 1 /\ Head(rec.body).msg # "secret"
       /\ Head(rec.body).of <= Len(rec.body)
    THEN Head(rec.body).msg ELSE Nothing

RecordEvidence(chain, i, complete) ==
    LET message == IdentifiedHandshake(chain[i])
    IN  IF message \in DOMAIN Hellos THEN Hellos[message]
        ELSE IF message # Nothing THEN "HANDSHAKE_RECORD"
        ELSE IF i > 1 THEN "RECORD_CHAIN"
        ELSE IF complete THEN "SINGLE_RECORD_HEADER"
        ELSE "TRUNCATED_RECORD"

(* A second record makes a chain of a lone first one.                       *)
ProbeRecords(chain, complete) ==
    [i \in DOMAIN chain |->
        LET evidence == RecordEvidence(chain, i, i < Len(chain) \/ complete)
        IN  IF evidence = "SINGLE_RECORD_HEADER" /\ Len(chain) >= 2
            THEN "RECORD_CHAIN" ELSE evidence]

StrongFraming ==
    {"HANDSHAKE_CLIENT_HELLO", "HANDSHAKE_SERVER_HELLO", "HANDSHAKE_RECORD", "RECORD_CHAIN"}

(* The strength of several chains together.                                 *)
Strength(chains) ==
    LET evidence == UNION {{ProbeRecords(c, TRUE)[i] : i \in DOMAIN c} : c \in chains}
    IN  IF evidence \cap StrongFraming # {} THEN "strong"
        ELSE IF evidence # {} THEN "weak" ELSE Nothing
==============================================================================
