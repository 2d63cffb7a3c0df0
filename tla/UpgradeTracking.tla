-------------------------- MODULE UpgradeTracking --------------------------
(***************************************************************************)
(* What the SMTP, IMAP and POP3 parsers share (protocols/base.py):         *)
(* outstanding commands, the bookkeeping of a TLS upgrade and the evidence *)
(* a parser collected.  A parser is a record, an operation maps it to its  *)
(* successor; the events themselves are reduced to their number, because   *)
(* the limit on them decides whether a request or an answer is remembered. *)
(***************************************************************************)
EXTENDS Integers, Sequences

CONSTANTS
    MaxEvents,  \* max_protocol_events_per_session
    MaxBody     \* max_message_body_bytes, in lines

ASSUME LimitsAssumption == MaxEvents \in Nat /\ MaxBody \in Nat

NoVerb == "none"

(* A captured line as a parser receives it.  "says" is the grammar the text *)
(* was written in, "word" its keyword, "more" and "offers" mark a           *)
(* continuation line and a line that offers the upgrade, "literal" a        *)
(* trailing {n} and what becomes of the bytes it announces.                 *)
Line(says, word) ==
    [says |-> says, word |-> word, tag |-> 0, more |-> FALSE, offers |-> FALSE,
     literal |-> "none", complete |-> TRUE, usable |-> TRUE, gap |-> FALSE]

NewParser ==
    [greeting |-> FALSE, matched |-> 0, recognised |-> 0, foreign |-> 0,
     pending |-> << >>, upgradeSeen |-> FALSE, advertised |-> FALSE,
     requested |-> FALSE, response |-> FALSE, outcome |-> "none",
     unsafe |-> FALSE, gapSeen |-> FALSE, events |-> 0, attempts |-> {},
     reply |-> << >>, body |-> "none", bodyLines |-> 0,
     awaiting |-> FALSE, halt |-> FALSE, stopped |-> FALSE]

Room(p) == p.events < MaxEvents

AddEvent(p) == IF Room(p) THEN [p EXCEPT !.events = @ + 1] ELSE p

IsUpgrade(c) == c.kind = "upgrade"
IsAuth(c) == c.kind = "auth"
Outstanding(p, Kind(_)) == \E i \in DOMAIN p.pending : Kind(p.pending[i])

-----------------------------------------------------------------------------
(* A hole in either stream: nothing outstanding is matched any more.        *)
NoteGap(p) ==
    [AddEvent(p) EXCEPT
        !.gapSeen = TRUE,
        !.unsafe = @ \/ Outstanding(p, IsUpgrade),
        !.pending = << >>]

(* Defect: an unusable line is only recorded.                               *)
UnusableIgnored(p) == AddEvent(p)

(* A line that is cut, too long or ambiguous is not interpreted.            *)
Unusable(p) ==
    [AddEvent(p) EXCEPT
        !.unsafe = @ \/ Outstanding(p, IsUpgrade) \/ p.requested]

Foreign(p) == [AddEvent(p) EXCEPT !.foreign = @ + 1]

(* The state reported for the upgrade: what _upgrade_state returns.         *)
UpgradeState(p) ==
    IF p.unsafe /\ p.requested THEN "INCOMPLETE"
    ELSE IF p.outcome = "ACCEPTED" THEN "UPGRADE_ACCEPTED"
    ELSE IF p.outcome \in {"REJECTED", "TEMPORARY"} THEN "UPGRADE_REJECTED"
    ELSE IF p.requested THEN "UPGRADE_REQUESTED"
    ELSE IF p.advertised THEN "UPGRADE_ADVERTISED"
    ELSE "PLAINTEXT"

(* An authentication attempt is stored with the upgrade state it met.       *)
RecordAuth(p) == [p EXCEPT !.attempts = @ \cup {UpgradeState(p)}]

(* A recognised command joins the queue.  Events the limit suppresses do    *)
(* not exist: the request is then forgotten even if an earlier one stood.   *)
Command(p, verb, kind, tag) ==
    LET q == [AddEvent(p) EXCEPT
                 !.recognised = @ + 1,
                 !.pending = Append(@, [verb |-> verb, kind |-> kind, tag |-> tag])]
    IN  IF kind = "upgrade"
          THEN [q EXCEPT !.upgradeSeen = TRUE, !.requested = Room(p)]
        ELSE IF kind = "auth" THEN RecordAuth(q) ELSE q

(* Defect: the parser goes on waiting for a SASL response.                  *)
ContinuationStays(p) == AddEvent(p)

Continuation(p) == [AddEvent(p) EXCEPT !.awaiting = FALSE]

Advertise(p) == [AddEvent(p) EXCEPT !.upgradeSeen = TRUE, !.advertised = Room(p)]

(* The answer to an upgrade command; acceptance ends the plaintext.         *)
Resolve(p, outcome) ==
    [AddEvent(p) EXCEPT !.outcome = outcome, !.response = Room(p),
                        !.halt = (outcome = "ACCEPTED")]

-----------------------------------------------------------------------------
(* The result of a parser.  "framing" is what follows the reply that         *)
(* accepted the upgrade: no TLS record, a weak one or a strong one.          *)
UpgradeReport(p, framing) ==
    IF ~p.upgradeSeen THEN "NONE"
    ELSE IF /\ UpgradeState(p) = "UPGRADE_ACCEPTED"
            /\ p.response /\ framing = "strong"
      THEN "TLS_BYTES_OBSERVED"
    ELSE UpgradeState(p)

AtMost(n, bound) == IF n > bound THEN bound ELSE n

EvidenceScore(p) ==
    LET score == (IF p.greeting THEN 4 ELSE 0) + 3 * AtMost(p.matched, 4)
                   + AtMost(p.recognised, 5) + (IF p.upgradeSeen THEN 2 ELSE 0)
                   - 2 * AtMost(p.foreign, 3)
    IN  IF score < 0 THEN 0 ELSE score

(* Defect: recognised commands count as matched exchanges.                  *)
DetectionByCommands(p) ==
    IF p.matched + p.recognised >= 2 THEN "CONFIRMED" ELSE "PROBABLE"

DetectionStatus(p) ==
    IF p.matched >= 2 \/ (p.matched >= 1 /\ p.greeting) THEN "CONFIRMED"
    ELSE IF p.greeting \/ p.matched >= 1 \/ p.recognised >= 1 THEN "PROBABLE"
    ELSE "UNKNOWN"

(* How a parser that ran out of input reports its dialogue.                 *)
ParseState(p) ==
    IF p.halt THEN "HANDED_OFF_TO_TLS"
    ELSE IF p.stopped THEN "INDETERMINATE"
    ELSE IF ~p.greeting /\ p.recognised = 0 THEN "NOT_APPLICABLE"
    ELSE IF p.gapSeen \/ p.pending # << >> \/ p.body # "none" \/ p.reply # << >>
      THEN "INCOMPLETE"
    ELSE "COMPLETE"
=============================================================================
