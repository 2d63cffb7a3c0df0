---------------------------- MODULE MailDialogue ----------------------------
(***************************************************************************)
(* A mail dialogue on the wire, its passive capture, and the three parsers *)
(* that analyze_session (protocols/analyzer.py) runs over the capture.     *)
(*                                                                         *)
(* A client and a server converse in one protocol; every line they send is *)
(* captured, missed (a hole in that direction), or captured so that it is  *)
(* no evidence (ambiguous bytes, too long, or cut by a hole).  The parsers *)
(* see captured lines only.  The dialogue's own state is what is true; the *)
(* properties compare what the parsers report with it.                     *)
(*                                                                         *)
(* The client and the server keep to their protocol: nothing is sent after *)
(* an upgrade command before its answer, and nothing but TLS after an      *)
(* acceptance.  Capture order is the order the lines were sent in.         *)
(***************************************************************************)
EXTENDS SmtpDialogue, ImapDialogue, Pop3Dialogue

CONSTANTS
    MaxLines,        \* lines the two sides send
    MaxFaults,       \* lines the capture misses or spoils
    MaxOutstanding   \* commands a client sends without waiting

ASSUME DialogueAssumption ==
    MaxLines \in Nat /\ MaxFaults \in Nat /\ MaxOutstanding \in Nat \ {0}

Protocols == {"SMTP", "IMAP", "POP3"}
Directions == {"client", "server"}

VARIABLES
    protocol,   \* what client and server really speak
    phase,      \* "greeting", "command", "content", "sasl" or "tls"
    queue,      \* commands the server has not answered yet
    truth,      \* what happened on the wire
    sent,       \* number of lines sent
    faults,     \* number of lines missed or spoiled
    seen,       \* directions of which something was captured
    hole,       \* directions with a hole since the last captured line
    parser      \* the state of each parser

vars == <<protocol, phase, queue, truth, sent, faults, seen, hole, parser>>
wire == <<protocol, phase, queue>>

(* accepted, refused: the server's answers to upgrade commands.  requested: *)
(* a usable upgrade command was captured.  touched: a line was missed or    *)
(* spoiled while a heard upgrade command, one captured by a parser that     *)
(* followed the dialogue, was outstanding.  pipelined: a command was sent   *)
(* before the previous one was answered.  leading: a line was missed in a   *)
(* direction of which nothing had been captured.  skewed: an answer was     *)
(* missed or spoiled, and its command still counts as outstanding.  stale:  *)
(* a hole was reported while the SMTP or IMAP parser was inside a message   *)
(* or a SASL exchange.  lookalike: content that reads like a dialogue.      *)
NoTruth ==
    [accepted |-> FALSE, refused |-> FALSE, requested |-> FALSE,
     touched |-> FALSE, pipelined |-> FALSE, leading |-> FALSE,
     skewed |-> FALSE, stale |-> FALSE, lookalike |-> FALSE]

UpgradeVerb == [SMTP |-> "STARTTLS", IMAP |-> "STARTTLS", POP3 |-> "STLS"]

Init ==
    /\ protocol \in Protocols
    /\ phase \in {"greeting", "command"}
    /\ queue = << >>
    /\ truth = NoTruth
    /\ sent = 0 /\ faults = 0
    /\ seen = {} /\ hole = {}
    /\ parser = [q \in Protocols |-> NewParser]

-----------------------------------------------------------------------------
Parse(q, p, l, fromClient) ==
    CASE q = "SMTP" -> SmtpParse(p, l, fromClient)
      [] q = "IMAP" -> ImapParse(p, l, fromClient)
      [] q = "POP3" -> Pop3Parse(p, l, fromClient)

HeardUpgradeOutstanding ==
    \E i \in DOMAIN queue : queue[i].verb = UpgradeVerb[protocol] /\ queue[i].heard

(* How the capture treats a line of direction d.  A hole before the first   *)
(* captured byte of a direction is not one the reader can see.              *)
Deliver(d, l) ==
    LET heard == [l EXCEPT !.gap = d \in hole]
    IN  /\ seen' = seen \cup {d}
        /\ parser' = [q \in Protocols |-> Parse(q, parser[q], heard, d = "client")]

IsUpgradeLine(d, l) ==
    d = "client" /\ phase = "command" /\ l.word = UpgradeVerb[protocol]

InsideMode(q) == parser[q].body # "none" \/ parser[q].awaiting

(* The parser takes an upgrade command for one: it has not ended, it is in  *)
(* no mode that is over and, where answers have no tags, counts no answered *)
(* command as outstanding.                                                  *)
Following ==
    /\ ~parser[protocol].halt /\ ~parser[protocol].stopped
    /\ IF protocol = "POP3" THEN ~truth.skewed ELSE ~InsideMode(protocol)

Note(d, l, changes, spoiled) ==
    truth' = [changes EXCEPT
        !.requested = @ \/ (~spoiled /\ IsUpgradeLine(d, l)),
        !.skewed = @ \/ (spoiled /\ d = "server" /\ queue # << >>),
        !.touched = @ \/ (spoiled /\ HeardUpgradeOutstanding),
        !.stale = @ \/ (d \in hole /\ InsideMode(protocol) /\ protocol # "POP3")]

Captured(d, l, changes) ==
    /\ Deliver(d, l)
    /\ hole' = hole \ {d}
    /\ Note(d, l, changes, FALSE)
    /\ UNCHANGED faults

Missed(d, l, changes) ==
    /\ faults < MaxFaults
    /\ faults' = faults + 1
    /\ hole' = IF d \in seen THEN hole \cup {d} ELSE hole
    /\ Note(d, l, [changes EXCEPT !.leading = @ \/ d \notin seen], TRUE)
    /\ UNCHANGED <<seen, parser>>

(* The bytes of the line are there and cannot be trusted, or its end is     *)
(* missing and the next captured line follows a hole.                       *)
Spoiled(d, l, changes) ==
    /\ faults < MaxFaults
    /\ faults' = faults + 1
    /\ \E whole \in BOOLEAN :
          /\ Deliver(d, [l EXCEPT !.usable = FALSE, !.complete = whole])
          /\ hole' = IF whole THEN hole \ {d} ELSE hole \cup {d}
    /\ Note(d, l, changes, TRUE)

(* A line is sent and captured ("clean"), missed or spoiled.                *)
Transmit(how, d, l, changes) ==
    /\ sent < MaxLines
    /\ sent' = sent + 1
    /\ CASE how = "clean" -> Captured(d, l, changes)
         [] how = "missed" -> Missed(d, l, changes)
         [] how = "spoiled" -> Spoiled(d, l, changes)

Treatments == {"clean", "missed", "spoiled"}

-----------------------------------------------------------------------------
(* The dialogue.                                                            *)

Commands ==
    [SMTP |-> {"EHLO", "STARTTLS", "AUTH", "DATA", "NOOP"},
     IMAP |-> {"CAPABILITY", "STARTTLS", "LOGIN", "AUTHENTICATE"},
     POP3 |-> {"CAPA", "STLS", "USER", "RETR", "NOOP"}]

(* Commands that end a group of pipelined ones: the client waits.           *)
Waits == {"STARTTLS", "STLS", "AUTH", "AUTHENTICATE", "DATA"}

CommandLines(verb) ==
    LET l == [Line(protocol, verb) EXCEPT
                 !.tag = IF protocol = "IMAP" THEN sent + 1 ELSE 0]
    IN  {l} \cup IF verb = "LOGIN"
                   THEN {[l EXCEPT !.literal = kind] : kind \in {"whole", "huge", "cut"}}
                   ELSE {}

SendCommand ==
    /\ phase = "command"
    /\ Len(queue) < MaxOutstanding
    /\ \A i \in DOMAIN queue : queue[i].verb \notin Waits
    /\ \E verb \in Commands[protocol], how \in Treatments :
       \E l \in CommandLines(verb) :
          /\ queue' = Append(queue, [verb |-> verb, tag |-> l.tag,
                                     heard |-> how = "clean" /\ Following])
          /\ Transmit(how, "client", l, [truth EXCEPT !.pipelined = @ \/ queue # << >>])
    /\ UNCHANGED <<protocol, phase>>

Greet ==
    /\ phase = "greeting"
    /\ phase' = "command"
    /\ \E word \in CASE protocol = "SMTP" -> {"220", "554"}
                     [] protocol = "POP3" -> {"+OK", "-ERR"}
                     [] OTHER -> {"OK"} :
       \E offers \in (IF protocol = "IMAP" THEN BOOLEAN ELSE {FALSE}) :
       \E how \in Treatments :
          Transmit(how, "server", [Line(protocol, word) EXCEPT !.offers = offers], truth)
    /\ UNCHANGED <<protocol, queue>>

(* Final answers: the command leaves the queue.                             *)
Answers(verb) ==
    CASE protocol = "IMAP" -> {"OK", "NO"}
      [] protocol = "POP3" -> {"+OK", "-ERR"}
      [] protocol = "SMTP" /\ verb = "STARTTLS" -> {"220", "454", "554"}
      [] protocol = "SMTP" /\ verb = "AUTH" -> {"235", "535"}
      [] OTHER -> {"250", "554"}

Positive == {"220", "OK", "+OK"}

Answer ==
    /\ phase = "command"
    /\ queue # << >>
    /\ LET command == Head(queue)
           upgrade == command.verb = UpgradeVerb[protocol]
       IN  \E word \in Answers(command.verb),
              offers \in (IF command.verb = "EHLO" THEN BOOLEAN ELSE {FALSE}),
              how \in Treatments :
             /\ queue' = Tail(queue)
             /\ phase' = IF upgrade /\ word \in Positive THEN "tls"
                         ELSE IF command.verb \in {"CAPA", "RETR"} /\ word = "+OK"
                           THEN "content"
                         ELSE "command"
             /\ Transmit(how, "server",
                   [Line(protocol, word) EXCEPT !.tag = command.tag, !.offers = offers],
                   [truth EXCEPT !.accepted = @ \/ (upgrade /\ word \in Positive),
                                 !.refused = @ \/ (upgrade /\ word \notin Positive)])
    /\ UNCHANGED protocol

(* Answers that leave the command outstanding: a line of a longer reply,    *)
(* an untagged response, the call for the message or for a SASL response.   *)
Interim ==
    /\ phase = "command"
    /\ queue # << >>
    /\ \E word \in {"250", "CAPABILITY", "354", "334", "+"},
          more \in BOOLEAN, offers \in BOOLEAN, how \in Treatments :
          /\ LET verb == Head(queue).verb
             IN  \/ verb = "EHLO" /\ word = "250" /\ more
                 \/ verb = "CAPABILITY" /\ word = "CAPABILITY" /\ ~more
                 \/ verb = "DATA" /\ word = "354" /\ ~more /\ ~offers
                 \/ verb = "AUTH" /\ word = "334" /\ ~more /\ ~offers
                 \/ verb = "AUTHENTICATE" /\ word = "+" /\ ~more /\ ~offers
          /\ phase' = CASE word = "354" -> "content"
                        [] word \in {"334", "+"} -> "sasl"
                        [] OTHER -> "command"
          /\ Transmit(how, "server",
                [Line(protocol, word) EXCEPT !.more = more, !.offers = offers], truth)
    /\ UNCHANGED <<protocol, queue>>

SaslResponse ==
    /\ phase = "sasl"
    /\ phase' = "command"
    /\ \E how \in Treatments : Transmit(how, "client", Line(protocol, "text"), truth)
    /\ UNCHANGED <<protocol, queue>>

(* The lines of a message or of a capability list, and the final ".".  In   *)
(* SMTP the client sends them, in POP3 the server.                          *)
Contents == {"text", "STARTTLS", "250", "."}

Content ==
    /\ phase = "content"
    /\ \E word \in Contents, offers \in BOOLEAN, how \in Treatments :
          /\ offers => protocol = "POP3" /\ word = "text"
          /\ phase' = IF word = "." THEN "command" ELSE "content"
          /\ Transmit(how, IF protocol = "SMTP" THEN "client" ELSE "server",
                [Line(protocol, word) EXCEPT !.offers = offers],
                [truth EXCEPT !.lookalike = @ \/ word \in {"STARTTLS", "250"}])
    /\ UNCHANGED <<protocol, queue>>

Next ==
    \/ SendCommand \/ Greet \/ Answer \/ Interim \/ SaslResponse \/ Content

Spec == Init /\ [][Next]_vars

-----------------------------------------------------------------------------
(* analyze_session: the parser with the most evidence wins, a tie goes to   *)
(* the protocol the server's port suggests, then to the first that ran.     *)
Order == [SMTP |-> 1, IMAP |-> 2, POP3 |-> 3]

Selected(hint) ==
    LET score(q) == EvidenceScore(parser[q])
        best == {q \in Protocols : \A r \in Protocols : score(r) <= score(q)}
    IN  IF hint \in best THEN hint
        ELSE CHOOSE q \in best : \A r \in best : Order[q] <= Order[r]

(* The detection that is reported: <<protocol, status>>.                    *)
Detection(hint) ==
    LET p == parser[Selected(hint)]
    IN  IF EvidenceScore(p) = 0 \/ DetectionStatus(p) = "UNKNOWN"
          THEN <<hint, "PORT_HINT">>
        ELSE <<Selected(hint), DetectionStatus(p)>>

Report == UpgradeReport(parser[protocol], "strong")
Accepted == {"UPGRADE_ACCEPTED", "TLS_BYTES_OBSERVED"}

-----------------------------------------------------------------------------
(* Properties.                                                              *)

DialogueTypeOK ==
    /\ protocol \in Protocols
    /\ phase \in {"greeting", "command", "content", "sasl", "tls"}
    /\ sent \in 0..MaxLines /\ faults \in 0..MaxFaults
    /\ seen \subseteq Directions /\ hole \subseteq seen
    /\ \A q \in Protocols : parser[q].events \in 0..MaxEvents

(* Nothing that happened lets an answer be counted for another command.      *)
Paired == ~truth.pipelined /\ ~truth.leading /\ ~truth.skewed

(* "The engine will not claim a successful negotiation it did not see"      *)
(* (docs/architecture.md): an upgrade reported as accepted was accepted by  *)
(* the server.  POP3 has neither tags nor a reply code of its own for STLS, *)
(* so there the answers must pair with the commands as they were captured.  *)
AcceptedIsTrue ==
    /\ Report \in Accepted
    /\ protocol = "POP3" => Paired
    => truth.accepted

(* An upgrade reported as rejected, and an authentication attempt stored as *)
(* made after a rejection, had one.  In SMTP and POP3 the refusal of        *)
(* another command can be taken for it when answers and commands do not     *)
(* pair, or when a fault let content be read as a command.                  *)
RejectedIsTrue ==
    /\ \/ Report = "UPGRADE_REJECTED"
       \/ "UPGRADE_REJECTED" \in parser[protocol].attempts
    /\ protocol # "IMAP" => Paired /\ (truth.lookalike => faults = 0)
    => truth.refused

(* "Any gap or ambiguity touching the negotiation downgrades the result to  *)
(* INCOMPLETE rather than claiming success": once a line was missed or      *)
(* spoiled while an upgrade command that a following parser captured was    *)
(* outstanding, no success is claimed, not even a true one.  It takes a     *)
(* parser that still has room for events, a direction of which something    *)
(* was captured before the hole, and in SMTP and POP3, whose answers have   *)
(* no tags, a client that waits for each answer.                            *)
TouchedNeverClaimed ==
    /\ truth.touched /\ ~truth.leading /\ Room(parser[protocol])
    /\ protocol # "IMAP" => ~truth.pipelined
    => Report \notin Accepted

(* A captured upgrade command is recognised: no line before it leaves the   *)
(* parser inside a message, a capability list or a SASL exchange that has   *)
(* ended.  The SMTP and IMAP parsers need a capture without a hole there.   *)
RequestNotMissed ==
    truth.requested /\ ~truth.stale /\ ~parser[protocol].stopped
    => parser[protocol].upgradeSeen

(* A detection reported as CONFIRMED names the protocol that was spoken,    *)
(* whatever the port suggests, unless a message quoted another dialogue.    *)
ConfirmedIsRight ==
    \A hint \in Protocols :
        ~truth.lookalike /\ Detection(hint)[2] = "CONFIRMED"
        => Detection(hint)[1] = protocol
=============================================================================
