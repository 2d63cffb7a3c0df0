---------------------------- MODULE SmtpDialogue ----------------------------
(* The SMTP parser (protocols/smtp.py): one operator per handler.           *)
EXTENDS UpgradeTracking

SmtpGreetings == {"220", "554"}
SmtpCodes == SmtpGreetings \cup {"250", "334", "354", "454", "235", "535"}

(* The command keyword of a client line, the reply code of a server line.   *)
(* RSET, NOOP, QUIT and AUTH are keywords of POP3 as well.                  *)
SmtpVerb(l) ==
    IF \/ l.says = "SMTP" /\ l.word \notin {".", "text"}
       \/ l.says = "POP3" /\ l.word \in {"NOOP", "AUTH"}
      THEN l.word ELSE NoVerb

SmtpCode(l) == IF l.word \in SmtpCodes THEN l.word ELSE NoVerb

SmtpKind(verb) ==
    CASE verb = "STARTTLS" -> "upgrade"
      [] verb = "AUTH" -> "auth"
      [] OTHER -> "other"

(* Message content is skipped up to the line that is exactly ".".  It may   *)
(* be ambiguous, but it must be complete.                                   *)
SmtpBodyLine(p, l) ==
    IF l.complete /\ l.word = "."
      THEN [AddEvent(p) EXCEPT !.body = "none", !.bodyLines = 0]
      ELSE [p EXCEPT !.bodyLines = @ + 1, !.stopped = p.bodyLines >= MaxBody]

(* Defect: message content is looked at before it is skipped.               *)
SmtpClientLineReadsBody(p, l) ==
    IF p.body # "none" /\ SmtpVerb(l) # "STARTTLS" THEN SmtpBodyLine(p, l)
    ELSE IF p.awaiting THEN Continuation(p)
    ELSE IF ~l.usable THEN Unusable(p)
    ELSE IF SmtpVerb(l) = NoVerb THEN Foreign(p)
    ELSE Command(p, SmtpVerb(l), SmtpKind(SmtpVerb(l)), 0)

SmtpClientLine(p, l) ==
    IF p.body # "none" THEN SmtpBodyLine(p, l)
    ELSE IF p.awaiting THEN Continuation(p)
    ELSE IF ~l.usable THEN Unusable(p)
    ELSE IF SmtpVerb(l) = NoVerb THEN Foreign(p)
    ELSE Command(p, SmtpVerb(l), SmtpKind(SmtpVerb(l)), 0)

-----------------------------------------------------------------------------
(* A reply with nothing outstanding is the greeting if it can be the first. *)
SmtpUnmatched(p, code) ==
    [AddEvent(p) EXCEPT
        !.greeting = @ \/ (p.recognised = 0 /\ code \in SmtpGreetings)]

(* Defect: any positive reply is taken for the acceptance.                  *)
SmtpResolvePositive(p, code) ==
    CASE code \in {"220", "250", "235"} -> Resolve(p, "ACCEPTED")
      [] code = "454" -> Resolve(p, "TEMPORARY")
      [] OTHER -> Resolve(p, "REJECTED")

SmtpResolve(p, code) ==
    CASE code = "220" -> Resolve(p, "ACCEPTED")
      [] code = "454" -> Resolve(p, "TEMPORARY")
      [] code \in {"554", "535"} -> Resolve(p, "REJECTED")
      [] OTHER -> [AddEvent(p) EXCEPT !.response = Room(p), !.unsafe = TRUE]

(* The extensions of an EHLO reply stand on every line but its first.       *)
SmtpCapabilities(p, marks) ==
    IF Len(marks) < 2 THEN p
    ELSE IF \E i \in 2..Len(marks) : marks[i] THEN Advertise(AddEvent(p))
    ELSE AddEvent(p)

SmtpFinishAuth(p) == [AddEvent(p) EXCEPT !.awaiting = FALSE]

(* The final line of a reply: marks are the lines collected for it.         *)
SmtpReply(p, code, marks) ==
    IF p.pending = << >> THEN SmtpUnmatched(p, code)
    ELSE
      LET command == Head(p.pending)
          q == [p EXCEPT !.pending = Tail(@), !.matched = @ + 1]
      IN  IF command.verb = "DATA" /\ code = "354"
            THEN [AddEvent(p) EXCEPT !.body = "DATA", !.bodyLines = 0]
          ELSE IF IsAuth(command) /\ code = "334"
            THEN [AddEvent(p) EXCEPT !.awaiting = TRUE]
          ELSE IF IsUpgrade(command) THEN SmtpResolve(q, code)
          ELSE IF IsAuth(command) THEN SmtpFinishAuth(q)
          ELSE IF command.verb = "EHLO" THEN SmtpCapabilities(AddEvent(q), marks)
          ELSE AddEvent(q)

(* Reply lines are collected up to the one whose code no hyphen follows.    *)
SmtpServerLine(p, l) ==
    IF ~l.usable THEN [Unusable(p) EXCEPT !.reply = << >>]
    ELSE IF SmtpCode(l) = NoVerb THEN [Foreign(p) EXCEPT !.reply = << >>]
    ELSE IF l.more THEN [p EXCEPT !.reply = Append(@, l.offers)]
    ELSE SmtpReply([p EXCEPT !.reply = << >>], SmtpCode(l), Append(p.reply, l.offers))

SmtpParse(p, l, fromClient) ==
    LET q == IF l.gap THEN NoteGap(p) ELSE p
    IN  IF p.halt \/ p.stopped THEN p
        ELSE IF fromClient THEN SmtpClientLine(q, l)
        ELSE SmtpServerLine(q, l)
=============================================================================
