---------------------------- MODULE Pop3Dialogue ----------------------------
(* The POP3 parser (protocols/pop3.py): one operator per handler.           *)
EXTENDS UpgradeTracking

Pop3Verbs == {"USER", "AUTH", "STLS", "CAPA", "RETR", "NOOP"}

Pop3Verb(l) ==
    IF l.says \in {"POP3", "SMTP"} /\ l.word \in Pop3Verbs THEN l.word ELSE NoVerb

Pop3Kind(verb) ==
    CASE verb = "STLS" -> "upgrade"
      [] verb \in {"USER", "AUTH"} -> "auth"
      [] OTHER -> "other"

Pop3ClientLine(p, l) ==
    IF ~l.usable THEN Unusable(p)
    ELSE IF Pop3Verb(l) = NoVerb THEN Foreign(p)
    ELSE Command(p, Pop3Verb(l), Pop3Kind(Pop3Verb(l)), 0)

-----------------------------------------------------------------------------
Pop3Resolve(p, status) == Resolve(p, IF status = "+OK" THEN "ACCEPTED" ELSE "REJECTED")

(* The end of a multiline response: of CAPA's, the lines are looked at.      *)
RecordCapa(p) ==
    LET q == [AddEvent(p) EXCEPT !.reply = << >>]
    IN  IF \E i \in DOMAIN p.reply : p.reply[i] THEN Advertise(q) ELSE q

(* The content of a dot-terminated response.  CAPA keeps its lines whatever *)
(* their number, the others stop the parser at the limit.                   *)
MultilineLine(p, l) ==
    IF l.complete /\ l.word = "."
      THEN RecordCapa([p EXCEPT !.body = "none", !.bodyLines = 0])
    ELSE IF p.body = "CAPA"
      THEN [p EXCEPT !.reply = Append(@, l.offers)]
    ELSE [p EXCEPT !.bodyLines = @ + 1, !.stopped = p.bodyLines >= MaxBody]

AbandonMultiline(p) ==
    IF p.body = "none" THEN p
    ELSE [AddEvent(p) EXCEPT !.body = "none", !.reply = << >>]

Pop3Unmatched(p, status) ==
    [AddEvent(p) EXCEPT
        !.greeting = @ \/ (p.recognised = 0 /\ status = "+OK")]

Pop3FinishAuth(p) == [AddEvent(p) EXCEPT !.awaiting = FALSE]

Pop3Status(p, status) ==
    IF p.pending = << >> THEN Pop3Unmatched(p, status)
    ELSE
      LET command == Head(p.pending)
          q == [p EXCEPT !.pending = Tail(@), !.matched = @ + 1]
      IN  IF IsUpgrade(command) THEN Pop3Resolve(q, status)
          ELSE IF status = "+OK" /\ command.verb \in {"CAPA", "RETR"}
            THEN [q EXCEPT !.body = command.verb, !.bodyLines = 0]
          ELSE IF IsAuth(command) THEN Pop3FinishAuth(q)
          ELSE AddEvent(q)

Pop3ServerLine(p, l) ==
    IF p.body # "none" THEN MultilineLine(p, l)
    ELSE IF ~l.usable THEN Unusable(p)
    ELSE IF l.word \notin {"+OK", "-ERR"} THEN Foreign(p)
    ELSE Pop3Status(p, l.word)

(* A hole ends a multiline response: its terminator was never seen.         *)
Pop3Parse(p, l, fromClient) ==
    LET q == IF l.gap THEN AbandonMultiline(NoteGap(p)) ELSE p
    IN  IF p.halt \/ p.stopped THEN p
        ELSE IF fromClient THEN Pop3ClientLine(q, l)
        ELSE Pop3ServerLine(q, l)
=============================================================================
