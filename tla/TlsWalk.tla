------------------------------- MODULE TlsWalk -------------------------------
(***************************************************************************)
(* From the bytes of two directions to what a TLS handshake negotiated:    *)
(* record framing (tls/records.py), handshake reassembly (tls/handshake.py)*)
(* and the walk over both directions' records (tls/analyzer.py,            *)
(* _HandshakeWalk).  A record's body is a sequence of units, a unit a part *)
(* of a handshake message; stream offsets count records, since a boundary  *)
(* is only ever compared with the place where a record starts.             *)
(***************************************************************************)
EXTENDS Integers, Sequences, FiniteSets, SequencesExt

CONSTANTS
    MaxRecords,    \* max_tls_records_per_direction
    MaxHandshake,  \* max_tls_handshake_bytes, in units
    MaxMessages    \* max_tls_handshake_messages

ASSUME TlsLimitsAssumption ==
    MaxRecords \in Nat /\ MaxHandshake \in Nat /\ MaxMessages \in Nat

Directions == {"client", "server"}
None == "none"
NoBoundary == [at |-> -1, reason |-> None]

(* A captured record as it was framed.  "at" is its number in its direction. *)
Fragment(d, at, rec, complete, ambiguous) ==
    [dir |-> d, at |-> at, type |-> rec.type, secret |-> rec.secret,
     body |-> IF complete THEN rec.body ELSE SubSeq(rec.body, 1, Len(rec.body) - 1),
     complete |-> complete, ambiguous |-> ambiguous]

-----------------------------------------------------------------------------
(* What stops the framing of a direction.  "held" of its records are there  *)
(* entirely; "stop" says what follows the last of them ("absent": the       *)
(* direction was not captured, or no boundary of an upgrade is known in it).*)
Stops == {"absent", "end", "cutHeader", "cutBody", "gap", "gapInBody", "ambiguous", "foreign"}

(* The record after the held ones is framed too when its header is there.   *)
FramesOneMore(stop) == stop \in {"cutBody", "gapInBody", "ambiguous"}

Framed(held, stop) ==
    LET n == held + (IF FramesOneMore(stop) THEN 1 ELSE 0)
    IN  IF n > MaxRecords THEN MaxRecords ELSE n

ParseState(held, stop) ==
    IF held >= MaxRecords THEN "LIMIT_REACHED"
    ELSE CASE stop \in {"absent", "end"} -> IF held = 0 THEN "NOT_TLS" ELSE "COMPLETE"
           [] stop \in {"cutHeader", "cutBody"} -> "TRUNCATED_RECORD"
           [] stop \in {"gap", "gapInBody"} -> "ALIGNMENT_LOST_AT_GAP"
           [] stop = "ambiguous" -> "AMBIGUOUS_BYTES"
           [] stop = "foreign" -> "MALFORMED_RECORD"

(* The fragment of record "at" of a direction whose framing stops there.    *)
Frame(d, at, rec, held, stop) ==
    Fragment(d, at, rec, at < held \/ stop = "ambiguous", at = held /\ stop = "ambiguous")

-----------------------------------------------------------------------------
NewWalk ==
    [stream |-> [d \in Directions |-> << >>], end |-> [d \in Directions |-> 0],
     handled |-> [d \in Directions |-> << >>],
     boundary |-> [d \in Directions |-> NoBoundary],
     overflow |-> {}, ccs |-> {}, compatible |-> FALSE, tls13 |-> FALSE,
     clientHello |-> FALSE, serverHello |-> None, retry |-> FALSE,
     keyExchange |-> FALSE, certificate |-> None, helloDone |-> FALSE,
     ticket |-> FALSE, alerts |-> {}, malformed |-> FALSE]

(* The boundary of a direction is set once.                                 *)
MarkEncrypted(w, d, at, reason) ==
    IF w.boundary[d] # NoBoundary THEN w
    ELSE [w EXCEPT !.boundary[d] = [at |-> at, reason |-> reason]]

IsEncrypted(w, f) == w.boundary[f.dir] # NoBoundary /\ f.at >= w.boundary[f.dir].at

(* The messages of a handshake buffer.  A header read where no message      *)
(* starts announces more bytes than there are; what does not end in the     *)
(* buffer is the last message.                                              *)
ParseMessages(s) ==
    LET starts(u) == u.part = 1 /\ u.msg # "secret"
        Turn(p) ==
            LET u == s[p.at]
                last == p.at + u.of - 1
            IN  IF p.at > Len(s) \/ Len(p.messages) >= MaxMessages THEN p
                ELSE IF ~starts(u) \/ last > Len(s)
                THEN [at |-> Len(s) + 1,
                      messages |-> Append(p.messages, [msg |-> IF starts(u) THEN u.msg ELSE "noise",
                                                       complete |-> FALSE, whole |-> FALSE])]
                ELSE [at |-> last + 1,
                      messages |-> Append(p.messages, [msg |-> u.msg, complete |-> TRUE,
                                                       whole |-> \A j \in p.at..last :
                                               s[j] = [u EXCEPT !.part = j - p.at + 1]])]
        turns[n \in 0..Len(s)] ==
            IF n = 0 THEN [at |-> 1, messages |-> << >>] ELSE Turn(turns[n - 1])
    IN  turns[Len(s)].messages

ServerHellos == {"SH12", "SH13"}

(* TLS 1.3: whatever follows the ServerHello is encrypted, and in the other *)
(* direction whatever follows the handshake records read so far.            *)
Tls13Boundary(w, at) ==
    MarkEncrypted(MarkEncrypted(w, "server", at + 1, "TLS13_AFTER_SERVER_HELLO"),
                  "client", w.end["client"], "TLS13_AFTER_SERVER_HELLO")

(* Defect: a HelloRetryRequest is taken for the ServerHello it looks like.  *)
HandleRetryAsHello(w, m, at) ==
    IF m.msg = "CH" THEN [w EXCEPT !.clientHello = TRUE]
    ELSE IF m.msg \in ServerHellos \cup {"HRR"} /\ w.serverHello = None
    THEN Tls13Boundary([w EXCEPT !.serverHello = m.msg], at)
    ELSE w

(* A message that is complete, whose last byte record "at" brought.         *)
Handle(w, m, at) ==
    LET hello == m.msg = "CH" \/ m.msg = "HRR" \/ m.msg \in ServerHellos
    IN  CASE hello /\ ~m.whole -> [w EXCEPT !.malformed = TRUE]
          [] m.msg = "CH" /\ m.whole -> [w EXCEPT !.clientHello = TRUE]
          [] m.msg = "HRR" /\ m.whole /\ w.serverHello = None ->
                [w EXCEPT !.retry = TRUE, !.tls13 = TRUE]
          [] m.msg \in ServerHellos /\ m.whole /\ w.serverHello = None ->
                LET known == [w EXCEPT !.serverHello = m.msg]
                IN  IF m.msg = "SH13"
                    THEN Tls13Boundary([known EXCEPT !.tls13 = TRUE], at)
                    ELSE known
          [] m.msg = "SKE" -> 
                [w EXCEPT !.keyExchange = m.whole /\ w.serverHello # None]
          [] m.msg = "CERT" /\ w.certificate = None ->
                [w EXCEPT !.certificate = IF m.whole THEN "whole" ELSE "corrupt"]
          [] m.msg = "SHD" -> [w EXCEPT !.helloDone = TRUE]
          [] m.msg = "NST" -> [w EXCEPT !.ticket = TRUE]
          [] OTHER -> w

(* The messages a drain hands on, and what is kept of them.                 *)
HandleAll(w, d, at, fresh) ==
    LET after[n \in 0..Len(fresh)] ==
            IF n = 0 THEN w ELSE Handle(after[n - 1], fresh[n], at)
    IN  [after[Len(fresh)] EXCEPT !.handled[d] = @ \o [i \in DOMAIN fresh |-> fresh[i].msg]]

(* The loop of _drain ends at the first incomplete message, which can only  *)
(* be the last one parsed.                                                  *)
Complete(parsed) ==
    IF parsed # << >> /\ ~Last(parsed).complete THEN Front(parsed) ELSE parsed

(* Defect: every drain hands on all the messages in the buffer.             *)
DrainAgain(w, d, at) == HandleAll(w, d, at, Complete(ParseMessages(w.stream[d])))

(* The whole buffer is parsed again; a message is handled once, when it has *)
(* become complete.                                                         *)
Drain(w, d, at) ==
    LET complete == Complete(ParseMessages(w.stream[d]))
    IN  HandleAll(w, d, at, SubSeq(complete, Len(w.handled[d]) + 1, Len(complete)))

-----------------------------------------------------------------------------
(* One record of the merged order.                                          *)

AppendHandshake(w, f) ==
    IF Len(w.stream[f.dir]) + Len(f.body) > MaxHandshake
    THEN [w EXCEPT !.overflow = @ \cup {f.dir}]
    ELSE Drain([w EXCEPT !.stream[f.dir] = @ \o f.body, !.end[f.dir] = f.at + 1],
               f.dir, f.at)

(* Defect: a ChangeCipherSpec counts only after a TLS 1.2 ServerHello.      *)
ChangeCipherSpecAfterHello(w, f) ==
    IF w.serverHello = "SH12"
    THEN MarkEncrypted([w EXCEPT !.ccs = @ \cup {f.dir}], f.dir, f.at + 1,
                       "TLS12_CHANGE_CIPHER_SPEC")
    ELSE [w EXCEPT !.ccs = @ \cup {f.dir}]

ChangeCipherSpec(w, f) ==
    LET seen == [w EXCEPT !.ccs = @ \cup {f.dir}]
    IN  IF w.tls13 \/ w.serverHello = "SH13"
        THEN [seen EXCEPT !.compatible = TRUE]
        ELSE MarkEncrypted(seen, f.dir, f.at + 1, "TLS12_CHANGE_CIPHER_SPEC")

AlertOf(f, encrypted) ==
    [dir |-> f.dir, encrypted |-> encrypted,
     fatal |-> ~encrypted /\ f.body # << >> /\ f.body[1].msg = "fatal"]

WalkRecord(w, f) ==
    CASE IsEncrypted(w, f) ->
            IF f.type = "alert" THEN [w EXCEPT !.alerts = @ \cup {AlertOf(f, TRUE)}] ELSE w
      [] ~IsEncrypted(w, f) /\ f.ambiguous -> w
      [] ~IsEncrypted(w, f) /\ ~f.ambiguous ->
            CASE f.type = "ccs" -> ChangeCipherSpec(w, f)
              [] f.type = "alert" -> [w EXCEPT !.alerts = @ \cup {AlertOf(f, FALSE)}]
              [] f.type = "appdata" ->
                    MarkEncrypted(w, f.dir, f.at, "APPLICATION_DATA_OBSERVED")
              [] f.type = "handshake" -> AppendHandshake(w, f)
=============================================================================
