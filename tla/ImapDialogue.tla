---------------------------- MODULE ImapDialogue ----------------------------
(* The IMAP parser (protocols/imap.py): one operator per handler.           *)
EXTENDS UpgradeTracking

(* "<tag> <COMMAND>": SMTP's and POP3's "AUTH LOGIN" has that shape too.    *)
ImapVerb(l) ==
    IF l.says = "IMAP" THEN l.word
    ELSE IF l.word = "AUTH" THEN "LOGIN"
    ELSE NoVerb

ImapKind(verb) ==
    CASE verb = "STARTTLS" -> "upgrade"
      [] verb \in {"LOGIN", "AUTHENTICATE"} -> "auth"
      [] OTHER -> "other"

(* A trailing {n} is skipped by its length.  It is too long to skip         *)
(* ("huge"), cut by a hole or the end of the capture ("cut"), or skipped.   *)
ConsumeLiteral(p, l) ==
    CASE l.literal = "huge" -> [p EXCEPT !.stopped = TRUE]
      [] l.literal = "cut" -> [AddEvent(p) EXCEPT !.stopped = TRUE, !.unsafe = TRUE]
      [] l.literal = "whole" -> AddEvent(p)
      [] OTHER -> p

ImapClientLine(p, l) ==
    IF p.awaiting THEN Continuation(p)
    ELSE IF ~l.usable THEN Unusable(p)
    ELSE IF ImapVerb(l) = NoVerb THEN ConsumeLiteral(Foreign(p), l)
    ELSE ConsumeLiteral(Command(p, ImapVerb(l), ImapKind(ImapVerb(l)), l.tag), l)

-----------------------------------------------------------------------------
NoteCapabilities(p, offered) ==
    IF ~offered THEN p
    ELSE IF p.advertised THEN [p EXCEPT !.upgradeSeen = TRUE]
    ELSE Advertise(p)

(* The first untagged OK of a dialogue is the greeting.  An untagged        *)
(* response completes no command.                                           *)
Untagged(p, l) ==
    LET first == ~p.greeting /\ p.recognised = 0 /\ l.word = "OK"
    IN  [NoteCapabilities(AddEvent(p), l.offers /\ (first \/ l.word = "CAPABILITY"))
           EXCEPT !.greeting = @ \/ first]

ImapResolve(p, status) == Resolve(p, IF status = "OK" THEN "ACCEPTED" ELSE "REJECTED")

ImapFinishAuth(p) == [AddEvent(p) EXCEPT !.awaiting = FALSE]

(* Whatever stood before the command of this tag was never answered.        *)
CompleteCommand(p, l) ==
    LET matching == {i \in DOMAIN p.pending : p.pending[i].tag = l.tag}
    IN  IF matching = {} THEN AddEvent(p)
        ELSE
          LET i == CHOOSE m \in matching : \A n \in matching : m <= n
              q == [p EXCEPT !.pending = SubSeq(@, i + 1, Len(@)),
                             !.matched = @ + 1]
          IN  IF IsUpgrade(p.pending[i]) THEN ImapResolve(q, l.word)
              ELSE IF IsAuth(p.pending[i]) THEN ImapFinishAuth(q)
              ELSE AddEvent(NoteCapabilities(q,
                       l.offers /\ p.pending[i].verb = "CAPABILITY"))

ImapServerLine(p, l) ==
    IF ~l.usable THEN Unusable(p)
    ELSE IF l.word = "+"
      THEN ConsumeLiteral(
             [AddEvent(p) EXCEPT !.awaiting = @ \/ Outstanding(p, IsAuth)], l)
    ELSE IF l.says = "IMAP" /\ l.tag = 0 THEN ConsumeLiteral(Untagged(p, l), l)
    ELSE IF l.says = "IMAP" THEN CompleteCommand(p, l)
    ELSE IF l.says = "SMTP" /\ l.word = "250" THEN AddEvent(p)
    ELSE Foreign(p)

ImapParse(p, l, fromClient) ==
    LET q == IF l.gap THEN NoteGap(p) ELSE p
    IN  IF p.halt \/ p.stopped THEN p
        ELSE IF fromClient THEN ImapClientLine(q, l)
        ELSE ImapServerLine(q, l)
=============================================================================
