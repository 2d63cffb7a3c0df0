------------------------- MODULE MailDialogue_proof -------------------------
(***************************************************************************)
(* Proofs about MailDialogue for any number of lines, faults, outstanding  *)
(* commands, protocol events and lines of content.                         *)
(***************************************************************************)
EXTENDS MailDialogue, WellFoundedInduction, TLAPS

(* Every keyword and reply a line may carry.                                *)
Words ==
    {"EHLO", "STARTTLS", "AUTH", "DATA", "NOOP", "CAPABILITY", "LOGIN", "AUTHENTICATE",
     "CAPA", "STLS", "USER", "RETR", "text", ".", "220", "250", "334", "354", "454",
     "235", "535", "554", "OK", "NO", "+", "+OK", "-ERR"}

Entries == [verb : Words, kind : {"upgrade", "auth", "other"}, tag : Nat]
Outcomes == {"none", "ACCEPTED", "REJECTED", "TEMPORARY"}
UpgradeStates ==
    {"INCOMPLETE", "UPGRADE_ACCEPTED", "UPGRADE_REJECTED", "UPGRADE_REQUESTED",
     "UPGRADE_ADVERTISED", "PLAINTEXT"}
Bodies == {"none", "DATA", "CAPA", "RETR"}

Parsers ==
    [greeting : BOOLEAN, matched : Nat, recognised : Nat, foreign : Nat,
     pending : Seq(Entries), upgradeSeen : BOOLEAN, advertised : BOOLEAN,
     requested : BOOLEAN, response : BOOLEAN, outcome : Outcomes,
     unsafe : BOOLEAN, gapSeen : BOOLEAN, events : Nat,
     attempts : SUBSET UpgradeStates, reply : Seq(BOOLEAN), body : Bodies,
     bodyLines : Nat, awaiting : BOOLEAN, halt : BOOLEAN, stopped : BOOLEAN]

Lines ==
    [says : Protocols, word : Words, tag : Nat, more : BOOLEAN, offers : BOOLEAN,
     literal : {"none", "whole", "huge", "cut"}, complete : BOOLEAN,
     usable : BOOLEAN, gap : BOOLEAN]

(* What a parser reports as an acceptance or a refusal.                     *)
AcceptedIn(p) == p.outcome = "ACCEPTED"
RefusedIn(p) == p.outcome \in {"REJECTED", "TEMPORARY"} \/ "UPGRADE_REJECTED" \in p.attempts

-----------------------------------------------------------------------------
(* The operations of UpgradeTracking.  Most of them leave alone everything  *)
(* that decides how the lines to come are read.                             *)
SameMode(p, r) ==
    /\ r.body = p.body
    /\ r.awaiting <=> p.awaiting
    /\ r.halt <=> p.halt
    /\ r.stopped <=> p.stopped

SameClaims(p, r) == r.outcome = p.outcome /\ r.attempts = p.attempts

Keeps(p, r) ==
    r \in Parsers /\ SameClaims(p, r) /\ SameMode(p, r) /\ r.pending = p.pending

LEMMA NewParserFacts ==
    /\ NewParser \in Parsers
    /\ ~AcceptedIn(NewParser) /\ ~RefusedIn(NewParser)
    /\ NewParser.pending = << >> /\ NewParser.body = "none"
    /\ ~NewParser.awaiting /\ ~NewParser.halt /\ ~NewParser.stopped
  BY DEF NewParser, Parsers, Outcomes, Bodies, AcceptedIn, RefusedIn

LEMMA AddEventFacts ==
    ASSUME NEW p \in Parsers
    PROVE  /\ Keeps(p, AddEvent(p))
           /\ AddEvent(p).reply = p.reply
<1>1. p.events + 1 \in Nat
  BY DEF Parsers
<1>2. ASSUME NEW n \in Nat
      PROVE  Keeps(p, [p EXCEPT !.events = n]) /\ [p EXCEPT !.events = n].reply = p.reply
  BY <1>2 DEF Parsers, Keeps, SameMode, SameClaims
<1>3. Keeps(p, p)
  BY DEF Keeps, SameMode, SameClaims
<1> QED
  BY <1>1, <1>2, <1>3 DEF AddEvent

LEMMA KeepsTransitive ==
    ASSUME NEW p, NEW q, NEW r, Keeps(p, q), Keeps(q, r)
    PROVE  Keeps(p, r)
  BY DEF Keeps, SameMode, SameClaims

LEMMA NoteGapFacts ==
    ASSUME NEW p \in Parsers
    PROVE  LET r == NoteGap(p)
           IN  r \in Parsers /\ SameClaims(p, r) /\ SameMode(p, r) /\ r.pending = << >>
<1> DEFINE q == AddEvent(p)
           u == q.unsafe \/ Outstanding(p, IsUpgrade)
<1>1. Keeps(p, q)
  BY AddEventFacts
<1>2. NoteGap(p) = [q EXCEPT !.gapSeen = TRUE, !.unsafe = u, !.pending = << >>]
  BY <1>1 DEF NoteGap
<1>3. u \in BOOLEAN /\ << >> \in Seq(Entries)
  OBVIOUS
<1> HIDE DEF q, u
<1> QED
  BY <1>1, <1>2, <1>3 DEF Parsers, Keeps, SameMode, SameClaims

LEMMA UnusableFacts ==
    ASSUME NEW p \in Parsers
    PROVE  Keeps(p, Unusable(p))
<1> DEFINE q == AddEvent(p)
           u == q.unsafe \/ Outstanding(p, IsUpgrade) \/ p.requested
<1>1. Keeps(p, q)
  BY AddEventFacts
<1>2. Unusable(p) = [q EXCEPT !.unsafe = u]
  BY <1>1 DEF Unusable
<1>3. u \in BOOLEAN
  OBVIOUS
<1> HIDE DEF q, u
<1> QED
  BY <1>1, <1>2, <1>3 DEF Parsers, Keeps, SameMode, SameClaims

LEMMA ForeignFacts ==
    ASSUME NEW p \in Parsers
    PROVE  Keeps(p, Foreign(p))
<1> DEFINE q == AddEvent(p)
           n == q.foreign + 1
<1>1. Keeps(p, q)
  BY AddEventFacts
<1>2. Foreign(p) = [q EXCEPT !.foreign = n] /\ n \in Nat
  BY <1>1 DEF Foreign, Keeps, Parsers
<1> HIDE DEF q, n
<1> QED
  BY <1>1, <1>2 DEF Parsers, Keeps, SameMode, SameClaims

LEMMA AdvertiseFacts ==
    ASSUME NEW p \in Parsers
    PROVE  Keeps(p, Advertise(p))
<1> DEFINE q == AddEvent(p)
           a == Room(p)
<1>1. Keeps(p, q)
  BY AddEventFacts
<1>2. Advertise(p) = [q EXCEPT !.upgradeSeen = TRUE, !.advertised = a] /\ a \in BOOLEAN
  BY <1>1 DEF Advertise, Room
<1> HIDE DEF q, a
<1> QED
  BY <1>1, <1>2 DEF Parsers, Keeps, SameMode, SameClaims

(* The end of a wait for a SASL response.                                   *)
LEMMA ContinuationFacts ==
    ASSUME NEW p \in Parsers
    PROVE  LET r == [AddEvent(p) EXCEPT !.awaiting = FALSE]
           IN  /\ r \in Parsers /\ SameClaims(p, r) /\ r.pending = p.pending
               /\ r.body = p.body /\ ~r.awaiting
               /\ r.halt <=> p.halt
               /\ r.stopped <=> p.stopped
<1>1. Keeps(p, AddEvent(p))
  BY AddEventFacts
<1> QED
  BY <1>1 DEF Parsers, Keeps, SameMode, SameClaims

LEMMA ResolveFacts ==
    ASSUME NEW p \in Parsers, NEW outcome \in Outcomes \ {"none"}
    PROVE  LET r == Resolve(p, outcome)
           IN  /\ r \in Parsers /\ r.outcome = outcome /\ r.attempts = p.attempts
               /\ r.pending = p.pending /\ r.body = p.body
               /\ r.awaiting <=> p.awaiting
               /\ r.halt <=> AcceptedIn(r)
               /\ r.stopped <=> p.stopped
<1> DEFINE q == AddEvent(p)
           room == Room(p)
           h == outcome = "ACCEPTED"
<1>1. Keeps(p, q)
  BY AddEventFacts
<1>2. /\ Resolve(p, outcome) = [q EXCEPT !.outcome = outcome, !.response = room, !.halt = h]
      /\ room \in BOOLEAN /\ h \in BOOLEAN
  BY <1>1 DEF Resolve, Room
<1>3. h <=> outcome = "ACCEPTED"
  OBVIOUS
<1> HIDE DEF q, room, h
<1> QED
  BY <1>1, <1>2, <1>3 DEF Parsers, Keeps, SameMode, SameClaims, AcceptedIn

LEMMA UpgradeStateFacts ==
    ASSUME NEW p \in Parsers
    PROVE  /\ UpgradeState(p) \in UpgradeStates
           /\ UpgradeState(p) = "UPGRADE_REJECTED" => p.outcome \in {"REJECTED", "TEMPORARY"}
           /\ UpgradeState(p) = "UPGRADE_ACCEPTED" => p.outcome = "ACCEPTED"
  BY DEF UpgradeState, UpgradeStates, Parsers, Outcomes

Entry(verb, kind, tag) == [verb |-> verb, kind |-> kind, tag |-> tag]

LEMMA CommandFacts ==
    ASSUME NEW p \in Parsers, NEW verb \in Words,
           NEW kind \in {"upgrade", "auth", "other"}, NEW tag, tag \in Nat,
           NEW r, r = Command(p, verb, kind, tag)
    PROVE  /\ r \in Parsers /\ SameMode(p, r)
           /\ r.outcome = p.outcome /\ (RefusedIn(r) => RefusedIn(p))
           /\ r.pending = Append(p.pending, Entry(verb, kind, tag))
<1> DEFINE a == AddEvent(p)
           n == a.recognised + 1
           s == Append(a.pending, Entry(verb, kind, tag))
           q == [a EXCEPT !.recognised = n, !.pending = s]
           room == Room(p)
           state == UpgradeState(q)
<1>1. Keeps(p, a)
  BY AddEventFacts
<1>2. n \in Nat /\ s \in Seq(Entries) /\ s = Append(p.pending, Entry(verb, kind, tag))
  BY <1>1 DEF Keeps, Parsers, Entries, Entry
<1>3. Command(p, verb, kind, tag) =
         IF kind = "upgrade" THEN [q EXCEPT !.upgradeSeen = TRUE, !.requested = room]
         ELSE IF kind = "auth" THEN [q EXCEPT !.attempts = @ \cup {state}]
         ELSE q
  BY <1>1 DEF Command, RecordAuth, Entry
<1>4. room \in BOOLEAN
  BY DEF Room
<1> HIDE DEF a, n, s, room
<1>5. /\ q \in Parsers /\ SameMode(p, q) /\ SameClaims(p, q) /\ q.pending = s
  BY <1>1, <1>2 DEF Parsers, Keeps, SameMode, SameClaims
<1> HIDE DEF q
<1>6. /\ state \in UpgradeStates
      /\ state = "UPGRADE_REJECTED" => q.outcome \in {"REJECTED", "TEMPORARY"}
  BY <1>5, UpgradeStateFacts
<1> HIDE DEF state
<1>7. CASE kind = "upgrade"
  <2>1. r = [q EXCEPT !.upgradeSeen = TRUE, !.requested = room]
    BY <1>3, <1>7
  <2>2. r \in Parsers /\ SameMode(q, r) /\ SameClaims(q, r) /\ r.pending = q.pending
    BY <1>4, <1>5, <2>1 DEF Parsers, SameMode, SameClaims
  <2> QED
    BY <1>2, <1>5, <2>2 DEF SameMode, SameClaims, RefusedIn
<1>8. CASE kind = "auth"
  <2>1. r = [q EXCEPT !.attempts = q.attempts \cup {state}]
    BY <1>3, <1>8
  <2> DEFINE more == q.attempts \cup {state}
  <2>3. more \in SUBSET UpgradeStates
    BY <1>5, <1>6 DEF Parsers
  <2>4. r = [q EXCEPT !.attempts = more]
    BY <2>1
  <2> HIDE DEF more
  <2>5. /\ r \in Parsers /\ SameMode(q, r) /\ r.outcome = q.outcome /\ r.pending = q.pending
        /\ r.attempts = more
    BY <1>5, <2>3, <2>4 DEF Parsers, SameMode
  <2>2. /\ r \in Parsers /\ SameMode(q, r) /\ r.outcome = q.outcome /\ r.pending = q.pending
        /\ r.attempts = q.attempts \cup {state}
    BY <2>5 DEF more
  <2> QED
    BY <1>2, <1>5, <1>6, <2>2 DEF SameMode, SameClaims, RefusedIn
<1>9. CASE kind = "other"
  BY <1>2, <1>3, <1>5, <1>9 DEF SameMode, SameClaims, RefusedIn
<1> QED
  BY <1>7, <1>8, <1>9

-----------------------------------------------------------------------------
(* The hole before a line, whatever the protocol.                           *)
Ended(p) == p.halt \/ p.stopped
SameEnd(p, r) == (r.halt <=> p.halt) /\ (r.stopped <=> p.stopped)

LEMMA GapFacts ==
    ASSUME NEW p \in Parsers, NEW l \in Lines, NEW q, q = IF l.gap THEN NoteGap(p) ELSE p
    PROVE  /\ q \in Parsers /\ SameClaims(p, q) /\ SameMode(p, q)
           /\ q.pending = IF l.gap THEN << >> ELSE p.pending
<1>1. CASE l.gap
  BY <1>1, NoteGapFacts
<1>2. CASE ~l.gap
  BY <1>2 DEF SameClaims, SameMode
<1> QED
  BY <1>1, <1>2

-----------------------------------------------------------------------------
(* The SMTP parser.                                                         *)
LEMMA SmtpVerbFacts ==
    ASSUME NEW l \in Lines
    PROVE  /\ l.word \in Words
           /\ SmtpVerb(l) # NoVerb => SmtpVerb(l) = l.word
           /\ SmtpCode(l) # NoVerb => SmtpCode(l) = l.word
  BY DEF SmtpVerb, SmtpCode, Lines

LEMMA SmtpKindFacts ==
    ASSUME NEW verb
    PROVE  /\ SmtpKind(verb) \in {"upgrade", "auth", "other"}
           /\ (SmtpKind(verb) = "upgrade") <=> (verb = "STARTTLS")
           /\ (SmtpKind(verb) = "auth") <=> (verb = "AUTH")
<1>1. CASE verb = "STARTTLS"
  BY <1>1 DEF SmtpKind
<1>2. CASE verb = "AUTH"
  BY <1>2 DEF SmtpKind
<1>3. CASE verb # "STARTTLS" /\ verb # "AUTH"
  BY <1>3 DEF SmtpKind
<1> QED
  BY <1>1, <1>2, <1>3

(* A client line is read as a command only outside content and exchanges.   *)
SmtpReads(p, l) == p.body = "none" /\ ~p.awaiting /\ l.usable /\ SmtpVerb(l) # NoVerb
EndsBody(l) == l.complete /\ l.word = "."

LEMMA SmtpClientFacts ==
    ASSUME NEW p \in Parsers, NEW l \in Lines, NEW r, r = SmtpClientLine(p, l)
    PROVE  /\ r \in Parsers
           /\ r.outcome = p.outcome
           /\ RefusedIn(r) => RefusedIn(p)
           /\ SmtpReads(p, l) =>
                 r.pending = Append(p.pending, Entry(SmtpVerb(l), SmtpKind(SmtpVerb(l)), 0))
           /\ ~SmtpReads(p, l) => r.pending = p.pending
           /\ r.body = IF EndsBody(l) THEN "none" ELSE p.body
           /\ r.awaiting <=> (p.awaiting /\ p.body # "none")
           /\ p.body = "none" => (r.stopped <=> p.stopped)
<1>1. CASE p.body # "none"
  <2>1. CASE EndsBody(l)
    <3> DEFINE q == AddEvent(p)
    <3>1. r = [q EXCEPT !.body = "none", !.bodyLines = 0]
      BY <1>1, <2>1 DEF SmtpClientLine, SmtpBodyLine, EndsBody
    <3>2. Keeps(p, q)
      BY AddEventFacts
    <3> HIDE DEF q
    <3>5. "none" \in Bodies /\ 0 \in Nat
      BY DEF Bodies
    <3>6. ASSUME NEW b \in Bodies, NEW n \in Nat
          PROVE  [q EXCEPT !.body = b, !.bodyLines = n] \in Parsers
      BY <3>2 DEF Parsers, Keeps
    <3>4. r \in Parsers
      BY <3>1, <3>5, <3>6
    <3>3. /\ SameClaims(q, r) /\ SameEnd(q, r)
          /\ r.pending = q.pending /\ r.body = "none"
          /\ r.awaiting <=> q.awaiting
      BY <3>1, <3>2 DEF Parsers, Keeps, SameClaims, SameEnd
    <3> QED
      BY <1>1, <2>1, <3>2, <3>3, <3>4
         DEF Keeps, SameMode, SameClaims, SameEnd, RefusedIn, SmtpReads
  <2>2. CASE ~EndsBody(l)
    <3> DEFINE n == p.bodyLines + 1
               s == p.bodyLines >= MaxBody
    <3>1. r = [p EXCEPT !.bodyLines = n, !.stopped = s] /\ n \in Nat /\ s \in BOOLEAN
      BY <1>1, <2>2 DEF SmtpClientLine, SmtpBodyLine, Parsers, EndsBody
    <3> HIDE DEF n, s
    <3> QED
      BY <1>1, <2>2, <3>1 DEF Parsers, RefusedIn, SmtpReads
  <2> QED
    BY <2>1, <2>2
<1>2. CASE p.body = "none" /\ p.awaiting
  <2>1. r = [AddEvent(p) EXCEPT !.awaiting = FALSE]
    BY <1>2 DEF SmtpClientLine, Continuation
  <2> QED
    BY <1>2, <2>1, ContinuationFacts DEF SameClaims, RefusedIn, SmtpReads
<1>3. CASE p.body = "none" /\ ~p.awaiting /\ ~SmtpReads(p, l)
  <2>1. r = Unusable(p) \/ r = Foreign(p)
    BY <1>3 DEF SmtpClientLine, SmtpReads
  <2>2. Keeps(p, r)
    BY <2>1, UnusableFacts, ForeignFacts
  <2> QED
    BY <1>3, <2>2 DEF Keeps, SameMode, SameClaims, RefusedIn
<1>4. CASE SmtpReads(p, l)
  <2>1. r = Command(p, SmtpVerb(l), SmtpKind(SmtpVerb(l)), 0)
    BY <1>4 DEF SmtpClientLine, SmtpReads
  <2>2. /\ SmtpVerb(l) \in Words
        /\ SmtpKind(SmtpVerb(l)) \in {"upgrade", "auth", "other"}
    BY <1>4, SmtpVerbFacts, SmtpKindFacts DEF SmtpReads
  <2>3. /\ r \in Parsers /\ SameMode(p, r)
        /\ r.outcome = p.outcome /\ (RefusedIn(r) => RefusedIn(p))
        /\ r.pending = Append(p.pending, Entry(SmtpVerb(l), SmtpKind(SmtpVerb(l)), 0))
    <3>1. 0 \in Nat
      OBVIOUS
    <3> QED
      BY <2>1, <2>2, <3>1, CommandFacts
  <2> QED
    BY <1>4, <2>3 DEF SameMode, SmtpReads
<1> QED
  BY <1>1, <1>2, <1>3, <1>4

(* The last line of a reply, and the two replies that leave the command     *)
(* outstanding.                                                             *)
SmtpFinal(l) == l.usable /\ SmtpCode(l) # NoVerb /\ ~l.more
CallsForContent(p, l) == Head(p.pending).verb = "DATA" /\ SmtpCode(l) = "354"
CallsForSasl(p, l) == IsAuth(Head(p.pending)) /\ SmtpCode(l) = "334"

(* What a server line does to a parser with an outstanding command.          *)
SmtpAnswered(p, code, r) ==
    LET c == Head(p.pending)
    IN  /\ r.pending = Tail(p.pending)
        /\ r.body = p.body /\ r.attempts = p.attempts
        /\ r.stopped <=> p.stopped
        /\ IsUpgrade(c) =>
              /\ r.awaiting <=> p.awaiting
              /\ r.outcome = CASE code = "220" -> "ACCEPTED"
                               [] code = "454" -> "TEMPORARY"
                               [] code \in {"554", "535"} -> "REJECTED"
                               [] OTHER -> p.outcome
              /\ code = "220" => r.halt
        /\ ~IsUpgrade(c) =>
              /\ r.outcome = p.outcome
              /\ r.halt <=> p.halt
              /\ r.awaiting <=> (p.awaiting /\ ~IsAuth(c))

LEMMA SmtpResolveFacts ==
    ASSUME NEW p \in Parsers, NEW code, NEW r, r = SmtpResolve(p, code)
    PROVE  /\ r \in Parsers
           /\ r.pending = p.pending /\ r.body = p.body /\ r.attempts = p.attempts
           /\ r.stopped <=> p.stopped
           /\ r.awaiting <=> p.awaiting
           /\ r.outcome = CASE code = "220" -> "ACCEPTED"
                            [] code = "454" -> "TEMPORARY"
                            [] code \in {"554", "535"} -> "REJECTED"
                            [] OTHER -> p.outcome
           /\ code = "220" => r.halt
<1>1. CASE code = "220"
  <2>1. r = Resolve(p, "ACCEPTED")
    BY <1>1 DEF SmtpResolve
  <2> QED
    BY <1>1, <2>1, ResolveFacts DEF Outcomes, AcceptedIn
<1>2. CASE code = "454"
  <2>1. r = Resolve(p, "TEMPORARY")
    BY <1>2 DEF SmtpResolve
  <2> QED
    BY <1>2, <2>1, ResolveFacts DEF Outcomes, AcceptedIn
<1>3. CASE code \in {"554", "535"}
  <2>1. r = Resolve(p, "REJECTED")
    BY <1>3 DEF SmtpResolve
  <2> QED
    BY <1>3, <2>1, ResolveFacts DEF Outcomes, AcceptedIn
<1>4. CASE code \notin {"220", "454", "554", "535"}
  <2> DEFINE q == AddEvent(p)
             room == Room(p)
  <2>1. r = [q EXCEPT !.response = room, !.unsafe = TRUE] /\ room \in BOOLEAN
    BY <1>4 DEF SmtpResolve, Room
  <2>2. Keeps(p, q)
    BY AddEventFacts
  <2> HIDE DEF q, room
  <2> QED
    BY <1>4, <2>1, <2>2 DEF Parsers, Keeps, SameMode, SameClaims
<1> QED
  BY <1>1, <1>2, <1>3, <1>4

LEMMA SmtpReplyFacts ==
    ASSUME NEW p \in Parsers, NEW code, NEW marks \in Seq(BOOLEAN),
           p.pending # << >>, NEW r, r = SmtpReply(p, code, marks)
    PROVE  LET c == Head(p.pending)
           IN  /\ r \in Parsers
               /\ c.verb = "DATA" /\ code = "354" =>
                     /\ SameClaims(p, r) /\ SameEnd(p, r) /\ r.pending = p.pending
                     /\ r.body = "DATA"
                     /\ r.awaiting <=> p.awaiting
               /\ ~(c.verb = "DATA" /\ code = "354") /\ IsAuth(c) /\ code = "334" =>
                     /\ SameClaims(p, r) /\ SameEnd(p, r) /\ r.pending = p.pending
                     /\ r.body = p.body /\ r.awaiting
               /\ ~(c.verb = "DATA" /\ code = "354") /\ ~(IsAuth(c) /\ code = "334") =>
                     SmtpAnswered(p, code, r)
<1> DEFINE c == Head(p.pending)
           n == p.matched + 1
           rest == Tail(p.pending)
           q == [p EXCEPT !.pending = rest, !.matched = n]
           a == AddEvent(p)
<1>1. /\ c \in Entries /\ rest \in Seq(Entries) /\ n \in Nat
  BY DEF Parsers
<1>2. Keeps(p, a)
  BY AddEventFacts
<1>3. r = IF c.verb = "DATA" /\ code = "354" THEN [a EXCEPT !.body = "DATA", !.bodyLines = 0]
          ELSE IF IsAuth(c) /\ code = "334" THEN [a EXCEPT !.awaiting = TRUE]
          ELSE IF IsUpgrade(c) THEN SmtpResolve(q, code)
          ELSE IF IsAuth(c) THEN [AddEvent(q) EXCEPT !.awaiting = FALSE]
          ELSE IF c.verb = "EHLO" THEN SmtpCapabilities(AddEvent(q), marks)
          ELSE AddEvent(q)
  BY DEF SmtpReply, SmtpFinishAuth
<1> HIDE DEF a, n, rest
<1>4. /\ q \in Parsers /\ SameClaims(p, q) /\ SameMode(p, q) /\ q.pending = rest
  BY <1>1 DEF Parsers, SameClaims, SameMode
<1> HIDE DEF c, q
<1>5. SUFFICES
         /\ r \in Parsers
         /\ c.verb = "DATA" /\ code = "354" =>
               /\ SameClaims(p, r) /\ SameEnd(p, r) /\ r.pending = p.pending
               /\ r.body = "DATA"
               /\ r.awaiting <=> p.awaiting
         /\ ~(c.verb = "DATA" /\ code = "354") /\ IsAuth(c) /\ code = "334" =>
               /\ SameClaims(p, r) /\ SameEnd(p, r) /\ r.pending = p.pending
               /\ r.body = p.body /\ r.awaiting
         /\ ~(c.verb = "DATA" /\ code = "354") /\ ~(IsAuth(c) /\ code = "334") =>
               SmtpAnswered(p, code, r)
  BY DEF c
<1>6. CASE c.verb = "DATA" /\ code = "354"
  <2>1. r = [a EXCEPT !.body = "DATA", !.bodyLines = 0]
    BY <1>3, <1>6
  <2>4. "DATA" \in Bodies /\ 0 \in Nat
    BY DEF Bodies
  <2>5. ASSUME NEW b \in Bodies, NEW n0 \in Nat
        PROVE  [a EXCEPT !.body = b, !.bodyLines = n0] \in Parsers
    BY <1>2 DEF Parsers, Keeps
  <2>2. r \in Parsers
    BY <2>1, <2>4, <2>5
  <2>3. /\ SameClaims(a, r) /\ SameEnd(a, r)
        /\ r.pending = a.pending /\ r.body = "DATA"
        /\ r.awaiting <=> a.awaiting
    BY <1>2, <2>1 DEF Parsers, Keeps, SameClaims, SameEnd
  <2> QED
    BY <1>2, <1>6, <2>2, <2>3 DEF Keeps, SameMode, SameClaims, SameEnd
<1>7. CASE ~(c.verb = "DATA" /\ code = "354") /\ IsAuth(c) /\ code = "334"
  <2>1. r = [a EXCEPT !.awaiting = TRUE]
    BY <1>3, <1>7
  <2> QED
    BY <1>2, <1>7, <2>1 DEF Parsers, Bodies, Keeps, SameMode, SameClaims, SameEnd
<1>8. CASE ~(c.verb = "DATA" /\ code = "354") /\ ~(IsAuth(c) /\ code = "334")
  <2>1. SUFFICES r \in Parsers /\ SmtpAnswered(p, code, r)
    BY <1>8
  <2>2. CASE IsUpgrade(c)
    <3>1. r = SmtpResolve(q, code)
      BY <1>3, <1>8, <2>2
    <3> QED
      BY <1>4, <2>2, <3>1, SmtpResolveFacts DEF SmtpAnswered, SameMode, SameClaims, c, rest
  <2>3. CASE ~IsUpgrade(c) /\ IsAuth(c)
    <3>1. r = [AddEvent(q) EXCEPT !.awaiting = FALSE]
      BY <1>3, <1>8, <2>3
    <3> QED
      BY <1>4, <2>3, <3>1, ContinuationFacts DEF SmtpAnswered, SameMode, SameClaims, c, rest
  <2>4. CASE ~IsUpgrade(c) /\ ~IsAuth(c)
    <3>1. Keeps(q, AddEvent(q))
      BY <1>4, AddEventFacts
    <3>2. Keeps(AddEvent(q), AddEvent(AddEvent(q)))
      BY <3>1, AddEventFacts DEF Keeps
    <3>3. Keeps(AddEvent(AddEvent(q)), Advertise(AddEvent(AddEvent(q))))
      BY <3>2, AdvertiseFacts DEF Keeps
    <3>4. r \in {AddEvent(q), AddEvent(AddEvent(q)), Advertise(AddEvent(AddEvent(q)))}
      BY <1>3, <1>8, <2>4 DEF SmtpCapabilities
    <3>5. Keeps(q, r)
      BY <3>1, <3>2, <3>3, <3>4, KeepsTransitive
    <3> QED
      BY <1>4, <2>4, <3>5 DEF SmtpAnswered, SameMode, SameClaims, Keeps, c, rest
  <2> QED
    BY <2>2, <2>3, <2>4
<1> QED
  BY <1>6, <1>7, <1>8

SmtpCalls(p, code) ==
    /\ p.pending # << >>
    /\ \/ Head(p.pending).verb = "DATA" /\ code = "354"
       \/ IsAuth(Head(p.pending)) /\ code = "334"

LEMMA SmtpServerFacts ==
    ASSUME NEW p \in Parsers, NEW l \in Lines, NEW r, r = SmtpServerLine(p, l)
    PROVE  /\ r \in Parsers
           /\ ~SmtpFinal(l) \/ p.pending = << >> => Keeps(p, r)
           /\ SmtpFinal(l) /\ SmtpCalls(p, l.word) =>
                 /\ SameClaims(p, r) /\ SameEnd(p, r) /\ r.pending = p.pending
                 /\ Head(p.pending).verb = "DATA" /\ l.word = "354" =>
                       r.body = "DATA" /\ (r.awaiting <=> p.awaiting)
                 /\ ~(Head(p.pending).verb = "DATA" /\ l.word = "354") =>
                       r.body = p.body /\ r.awaiting
           /\ SmtpFinal(l) /\ p.pending # << >> /\ ~SmtpCalls(p, l.word) =>
                 SmtpAnswered(p, l.word, r)
<1> DEFINE marks == Append(p.reply, l.offers)
           b == [p EXCEPT !.reply = << >>]
<1>0. /\ l.word \in Words /\ (SmtpCode(l) # NoVerb => SmtpCode(l) = l.word)
      /\ marks \in Seq(BOOLEAN) /\ << >> \in Seq(BOOLEAN)
  BY SmtpVerbFacts DEF Parsers, Lines
<1>1. ASSUME NEW q \in Parsers, NEW s \in Seq(BOOLEAN)
      PROVE  Keeps(q, [q EXCEPT !.reply = s])
  BY <1>1 DEF Parsers, Keeps, SameMode, SameClaims
<1>2. CASE ~l.usable \/ SmtpCode(l) = NoVerb
  <2>1. r = [Unusable(p) EXCEPT !.reply = << >>] \/ r = [Foreign(p) EXCEPT !.reply = << >>]
    BY <1>2 DEF SmtpServerLine
  <2>2. /\ Keeps(p, Unusable(p)) /\ Keeps(p, Foreign(p))
        /\ Unusable(p) \in Parsers /\ Foreign(p) \in Parsers
    BY UnusableFacts, ForeignFacts DEF Keeps
  <2>4. \/ Keeps(Unusable(p), r)
        \/ Keeps(Foreign(p), r)
    BY <1>0, <1>1, <2>1, <2>2
  <2>3. Keeps(p, r)
    BY <2>2, <2>4, KeepsTransitive
  <2> QED
    BY <1>2, <2>3 DEF Keeps, SmtpFinal
<1>3. CASE l.usable /\ SmtpCode(l) # NoVerb /\ l.more
  <2>1. r = [p EXCEPT !.reply = marks]
    BY <1>3 DEF SmtpServerLine
  <2>2. Keeps(p, r)
    BY <1>0, <1>1, <2>1
  <2> QED
    BY <1>3, <2>2 DEF Keeps, SmtpFinal
<1>4. CASE SmtpFinal(l)
  <2>1. r = SmtpReply(b, l.word, marks)
    BY <1>0, <1>4 DEF SmtpServerLine, SmtpFinal
  <2>2. Keeps(p, b) /\ b \in Parsers
    BY <1>0, <1>1 DEF Keeps
  <2> HIDE DEF b, marks
  <2>3. CASE p.pending = << >>
    <3> DEFINE a == AddEvent(b)
               g == a.greeting \/ (b.recognised = 0 /\ l.word \in SmtpGreetings)
    <3>1. Keeps(b, a)
      BY <2>2, AddEventFacts
    <3>2. r = [a EXCEPT !.greeting = g] /\ g \in BOOLEAN
      BY <2>1, <2>2, <2>3 DEF SmtpReply, SmtpUnmatched, Keeps
    <3> HIDE DEF a, g
    <3>3. Keeps(a, r)
      BY <3>1, <3>2 DEF Parsers, Keeps, SameMode, SameClaims
    <3>4. Keeps(p, r)
      BY <2>2, <3>1, <3>3, KeepsTransitive
    <3> QED
      BY <2>3, <3>4 DEF Keeps, SmtpCalls
  <2>4. CASE p.pending # << >>
    <3>1. b.pending = p.pending /\ b.pending # << >>
      BY <2>2, <2>4 DEF Keeps
    <3>2. /\ r \in Parsers
          /\ SmtpCalls(p, l.word) =>
               /\ SameClaims(b, r) /\ SameEnd(b, r) /\ r.pending = b.pending
               /\ Head(p.pending).verb = "DATA" /\ l.word = "354" =>
                     r.body = "DATA" /\ (r.awaiting <=> b.awaiting)
               /\ ~(Head(p.pending).verb = "DATA" /\ l.word = "354") =>
                     r.body = b.body /\ r.awaiting
          /\ ~SmtpCalls(p, l.word) => SmtpAnswered(b, l.word, r)
      BY <1>0, <2>1, <2>2, <3>1, SmtpReplyFacts DEF SmtpCalls
    <3>3. SmtpAnswered(b, l.word, r) => SmtpAnswered(p, l.word, r)
      BY <2>2 DEF SmtpAnswered, Keeps, SameMode, SameClaims
    <3> QED
      BY <1>4, <2>2, <2>4, <3>2, <3>3 DEF Keeps, SameMode, SameClaims, SameEnd
  <2> QED
    BY <2>3, <2>4
<1> QED
  BY <1>2, <1>3, <1>4 DEF SmtpFinal

-----------------------------------------------------------------------------
(* What a line does to the world: its transmission, and what the capture    *)
(* hands to the parser of the protocol that is spoken.                      *)
Truths ==
    [accepted : BOOLEAN, refused : BOOLEAN, requested : BOOLEAN, touched : BOOLEAN,
     pipelined : BOOLEAN, leading : BOOLEAN, skewed : BOOLEAN, stale : BOOLEAN,
     lookalike : BOOLEAN]

P == parser[protocol]

(* What of changes survives in the truth after a step.                      *)
Recorded(changes) ==
    /\ truth' \in Truths
    /\ truth'.accepted <=> changes.accepted
    /\ truth'.refused <=> changes.refused
    /\ truth'.pipelined <=> changes.pipelined
    /\ truth'.lookalike <=> changes.lookalike
    /\ changes.leading => truth'.leading
    /\ changes.skewed => truth'.skewed

(* What the capture makes of a line is not among the changes.               *)
SameCapture(changes) ==
    /\ changes.requested <=> truth.requested
    /\ changes.touched <=> truth.touched
    /\ changes.leading <=> truth.leading
    /\ changes.skewed <=> truth.skewed
    /\ changes.stale <=> truth.stale

Noted(how, d, l) ==
    /\ truth'.requested <=> (truth.requested \/ (how = "clean" /\ IsUpgradeLine(d, l)))
    /\ truth'.touched <=> (truth.touched \/ (how # "clean" /\ HeardUpgradeOutstanding))
    /\ truth'.leading <=> (truth.leading \/ (how = "missed" /\ d \notin seen))
    /\ truth'.skewed <=> (truth.skewed \/ (how # "clean" /\ d = "server" /\ queue # << >>))
    /\ truth'.stale <=>
          (truth.stale \/ (d \in hole /\ InsideMode(protocol) /\ protocol # "POP3"))
    /\ seen' = IF how = "missed" THEN seen ELSE seen \cup {d}
    /\ how = "missed" => hole' = IF d \in seen THEN hole \cup {d} ELSE hole

(* The captured form of a line l that is sent in direction d.               *)
Heard(how, d, l, m) ==
    /\ m.says = l.says /\ m.word = l.word /\ m.tag = l.tag /\ m.literal = l.literal
    /\ m.more <=> l.more
    /\ m.gap <=> (d \in hole)
    /\ m.usable <=> (how = "clean")
    /\ how = "clean" => m.complete
    /\ hole' = IF m.complete THEN hole \ {d} ELSE hole \cup {d}
    /\ P' = Parse(protocol, P, m, d = "client")

(* What all three parsers are handed: nothing, or one captured line.        *)
Overheard(d, l) ==
    \/ parser' = parser
    \/ \E m \in Lines :
          /\ m.says = l.says /\ m.word = l.word
          /\ parser' = [q \in Protocols |-> Parse(q, parser[q], m, d = "client")]

Conveyed(how, d, l) ==
    /\ sent' = sent + 1 /\ sent < MaxLines
    /\ DOMAIN parser' = Protocols /\ hole' \subseteq seen'
    /\ seen' \subseteq seen \cup {d}
    /\ faults' = faults + (IF how = "clean" THEN 0 ELSE 1)
    /\ how # "clean" /\ d = "server" /\ queue # << >> => truth'.skewed
    /\ how = "missed" => P' = P /\ (truth'.leading \/ hole' = hole \cup {d})
    /\ how # "missed" => \E m \in Lines : Heard(how, d, l, m)
    /\ Noted(how, d, l) /\ Overheard(d, l)

LEMMA TransmitFacts ==
    ASSUME NEW how \in Treatments, NEW d \in Directions, NEW l \in Lines,
           l.usable, l.complete, NEW changes \in Truths,
           protocol \in Protocols, protocol' = protocol, faults \in Nat, hole \subseteq seen,
           DOMAIN parser = Protocols, SameCapture(changes), Transmit(how, d, l, changes)
    PROVE  Recorded(changes) /\ Conveyed(how, d, l)
<1>1. ASSUME NEW spoiled \in BOOLEAN, NEW other \in Truths, Note(d, l, other, spoiled)
      PROVE  /\ truth' \in Truths
             /\ truth'.accepted <=> other.accepted
             /\ truth'.refused <=> other.refused
             /\ truth'.pipelined <=> other.pipelined
             /\ truth'.lookalike <=> other.lookalike
             /\ truth'.leading <=> other.leading
             /\ truth'.skewed <=>
                   (other.skewed \/ (spoiled /\ d = "server" /\ queue # << >>))
             /\ truth'.requested <=> (other.requested \/ (~spoiled /\ IsUpgradeLine(d, l)))
             /\ truth'.touched <=> (other.touched \/ (spoiled /\ HeardUpgradeOutstanding))
             /\ truth'.stale <=>
                   (other.stale \/ (d \in hole /\ InsideMode(protocol) /\ protocol # "POP3"))
  <2> DEFINE n1 == other.requested \/ (~spoiled /\ IsUpgradeLine(d, l))
             n2 == other.skewed \/ (spoiled /\ d = "server" /\ queue # << >>)
             n3 == other.touched \/ (spoiled /\ HeardUpgradeOutstanding)
             n4 == other.stale \/ (d \in hole /\ InsideMode(protocol) /\ protocol # "POP3")
  <2>1. /\ truth' = [other EXCEPT !.requested = n1, !.skewed = n2, !.touched = n3,
                                  !.stale = n4]
        /\ n1 \in BOOLEAN /\ n2 \in BOOLEAN /\ n3 \in BOOLEAN /\ n4 \in BOOLEAN
    BY <1>1 DEF Note, Truths
  <2>2. /\ n1 <=> (other.requested \/ (~spoiled /\ IsUpgradeLine(d, l)))
        /\ n2 <=> (other.skewed \/ (spoiled /\ d = "server" /\ queue # << >>))
        /\ n3 <=> (other.touched \/ (spoiled /\ HeardUpgradeOutstanding))
        /\ n4 <=> (other.stale \/ (d \in hole /\ InsideMode(protocol) /\ protocol # "POP3"))
    OBVIOUS
  <2> HIDE DEF n1, n2, n3, n4
  <2>6. ASSUME NEW b1 \in BOOLEAN, NEW b2 \in BOOLEAN, NEW b3 \in BOOLEAN, NEW b4 \in BOOLEAN
        PROVE  [other EXCEPT !.requested = b1, !.skewed = b2, !.touched = b3, !.stale = b4]
                 \in Truths
    BY DEF Truths
  <2>3. truth' \in Truths
    BY <2>1, <2>6
  <2>4. /\ truth'.accepted <=> other.accepted
        /\ truth'.refused <=> other.refused
        /\ truth'.pipelined <=> other.pipelined
    BY <2>1 DEF Truths
  <2>5. /\ truth'.lookalike <=> other.lookalike
        /\ truth'.leading <=> other.leading
        /\ truth'.skewed <=> n2
    BY <2>1 DEF Truths
  <2>7. /\ truth'.requested <=> n1
        /\ truth'.touched <=> n3
        /\ truth'.stale <=> n4
    BY <2>1 DEF Truths
  <2> QED
    BY <2>2, <2>3, <2>4, <2>5, <2>7
<1>2. ASSUME NEW m, Deliver(d, m)
      PROVE  /\ seen' = seen \cup {d} /\ DOMAIN parser' = Protocols
             /\ P' = Parse(protocol, P, [m EXCEPT !.gap = d \in hole], d = "client")
             /\ parser' = [q \in Protocols |->
                             Parse(q, parser[q], [m EXCEPT !.gap = d \in hole], d = "client")]
  BY <1>2 DEF Deliver, P
<1>3. sent' = sent + 1 /\ sent < MaxLines
  BY DEF Transmit
<1>4. CASE how = "clean"
  <2> DEFINE g == d \in hole
             m == [l EXCEPT !.gap = g]
  <2>1. Captured(d, l, changes)
    BY <1>4 DEF Transmit
  <2>2. /\ seen' = seen \cup {d} /\ DOMAIN parser' = Protocols
        /\ P' = Parse(protocol, P, m, d = "client")
        /\ parser' = [q \in Protocols |-> Parse(q, parser[q], m, d = "client")]
        /\ hole' = hole \ {d} /\ faults' = faults
    BY <1>2, <2>1 DEF Captured
  <2>5. g \in BOOLEAN /\ (g <=> (d \in hole))
    OBVIOUS
  <2> HIDE DEF g
  <2>3. m \in Lines
    BY <2>5 DEF Lines
  <2>6. /\ m.says = l.says /\ m.word = l.word /\ m.tag = l.tag /\ m.literal = l.literal
        /\ m.more <=> l.more
        /\ m.gap <=> g
        /\ m.usable /\ m.complete
    BY <2>5 DEF Lines
  <2> HIDE DEF m
  <2>4. Note(d, l, changes, FALSE)
    BY <2>1 DEF Captured
  <2>7. /\ truth' \in Truths
        /\ truth'.accepted <=> changes.accepted
        /\ truth'.refused <=> changes.refused
        /\ truth'.pipelined <=> changes.pipelined
        /\ truth'.lookalike <=> changes.lookalike
        /\ truth'.leading <=> changes.leading
        /\ changes.skewed => truth'.skewed
    BY <1>1, <2>4
  <2>9. Noted(how, d, l)
    <3>1. /\ truth'.leading <=> changes.leading
          /\ truth'.skewed <=> changes.skewed
          /\ truth'.requested <=> (changes.requested \/ IsUpgradeLine(d, l))
          /\ truth'.touched <=> changes.touched
          /\ truth'.stale <=>
                (changes.stale \/ (d \in hole /\ InsideMode(protocol) /\ protocol # "POP3"))
      BY <1>1, <2>4
    <3> QED
      BY <1>4, <2>2, <3>1 DEF Noted, SameCapture
  <2>8. \E w \in Lines : Heard(how, d, l, w)
    BY <1>4, <2>2, <2>3, <2>5, <2>6 DEF Heard
  <2>10. Overheard(d, l)
    BY <2>2, <2>3, <2>6 DEF Overheard
  <2> QED
    BY <1>3, <1>4, <2>2, <2>7, <2>8, <2>9, <2>10 DEF Recorded, Conveyed
<1>5. CASE how = "missed"
  <2>1. Missed(d, l, changes)
    BY <1>5 DEF Transmit
  <2> DEFINE lead == changes.leading \/ d \notin seen
             other == [changes EXCEPT !.leading = lead]
  <2>2. Note(d, l, other, TRUE)
    BY <2>1 DEF Missed
  <2>3. /\ other \in Truths /\ (other.leading <=> (changes.leading \/ d \notin seen))
        /\ other.accepted <=> changes.accepted
        /\ other.refused <=> changes.refused
        /\ other.pipelined <=> changes.pipelined
        /\ other.lookalike <=> changes.lookalike
        /\ other.skewed <=> changes.skewed
    BY DEF Truths
  <2>6. /\ other.requested <=> changes.requested
        /\ other.touched <=> changes.touched
        /\ other.stale <=> changes.stale
    BY DEF Truths
  <2> HIDE DEF other
  <2>4. /\ faults' = faults + 1 /\ seen' = seen /\ parser' = parser
        /\ hole' = IF d \in seen THEN hole \cup {d} ELSE hole
    BY <2>1 DEF Missed
  <2>5. P' = P
    BY <2>4 DEF P
  <2>7. /\ truth' \in Truths
        /\ truth'.accepted <=> other.accepted
        /\ truth'.refused <=> other.refused
        /\ truth'.pipelined <=> other.pipelined
        /\ truth'.lookalike <=> other.lookalike
        /\ truth'.leading <=> other.leading
        /\ truth'.skewed <=> (other.skewed \/ (d = "server" /\ queue # << >>))
    BY <1>1, <2>2, <2>3
  <2>8. /\ truth'.requested <=> other.requested
        /\ truth'.touched <=> (other.touched \/ HeardUpgradeOutstanding)
        /\ truth'.stale <=>
              (other.stale \/ (d \in hole /\ InsideMode(protocol) /\ protocol # "POP3"))
    BY <1>1, <2>2, <2>3
  <2>9. Noted(how, d, l)
    BY <1>5, <2>3, <2>4, <2>6, <2>7, <2>8 DEF Noted, SameCapture
  <2>10. Overheard(d, l)
    BY <2>4 DEF Overheard
  <2> QED
    BY <1>3, <1>5, <2>3, <2>4, <2>5, <2>7, <2>9, <2>10 DEF Recorded, Conveyed
<1>6. CASE how = "spoiled"
  <2>1. PICK whole \in BOOLEAN :
          /\ Deliver(d, [l EXCEPT !.usable = FALSE, !.complete = whole])
          /\ hole' = IF whole THEN hole \ {d} ELSE hole \cup {d}
    BY <1>6 DEF Transmit, Spoiled
  <2>2. faults' = faults + 1 /\ Note(d, l, changes, TRUE)
    BY <1>6 DEF Transmit, Spoiled
  <2> DEFINE g == d \in hole
             k == [l EXCEPT !.usable = FALSE, !.complete = whole]
             m == [k EXCEPT !.gap = g]
  <2>3. /\ seen' = seen \cup {d} /\ DOMAIN parser' = Protocols
        /\ P' = Parse(protocol, P, m, d = "client")
        /\ parser' = [q \in Protocols |-> Parse(q, parser[q], m, d = "client")]
    BY <1>2, <2>1
  <2>5. g \in BOOLEAN /\ (g <=> (d \in hole))
    OBVIOUS
  <2> HIDE DEF g
  <2>6. /\ k \in Lines
        /\ k.says = l.says /\ k.word = l.word /\ k.tag = l.tag /\ k.literal = l.literal
        /\ k.more <=> l.more
        /\ ~k.usable /\ (k.complete <=> whole)
    BY <2>1 DEF Lines
  <2> HIDE DEF k
  <2>4. /\ m \in Lines
        /\ m.says = k.says /\ m.word = k.word /\ m.tag = k.tag /\ m.literal = k.literal
        /\ m.more <=> k.more
        /\ m.gap <=> g
        /\ m.usable <=> k.usable
        /\ m.complete <=> k.complete
    BY <2>5, <2>6 DEF Lines
  <2> HIDE DEF m
  <2>7. /\ truth' \in Truths
        /\ truth'.accepted <=> changes.accepted
        /\ truth'.refused <=> changes.refused
        /\ truth'.pipelined <=> changes.pipelined
        /\ truth'.lookalike <=> changes.lookalike
        /\ truth'.leading <=> changes.leading
        /\ changes.skewed => truth'.skewed
        /\ d = "server" /\ queue # << >> => truth'.skewed
    BY <1>1, <2>2
  <2>9. Noted(how, d, l)
    <3>1. /\ truth'.leading <=> changes.leading
          /\ truth'.skewed <=> (changes.skewed \/ (d = "server" /\ queue # << >>))
          /\ truth'.requested <=> changes.requested
          /\ truth'.touched <=> (changes.touched \/ HeardUpgradeOutstanding)
          /\ truth'.stale <=>
                (changes.stale \/ (d \in hole /\ InsideMode(protocol) /\ protocol # "POP3"))
      BY <1>1, <2>2
    <3> QED
      BY <1>6, <2>3, <3>1 DEF Noted, SameCapture
  <2>8. \E w \in Lines : Heard(how, d, l, w)
    BY <1>6, <2>1, <2>3, <2>4, <2>5, <2>6 DEF Heard
  <2>10. Overheard(d, l)
    BY <2>3, <2>4, <2>6 DEF Overheard
  <2> QED
    BY <1>3, <1>6, <2>1, <2>2, <2>3, <2>7, <2>8, <2>9, <2>10 DEF Recorded, Conveyed
<1> QED
  BY <1>4, <1>5, <1>6 DEF Treatments

-----------------------------------------------------------------------------
(* The state between the lines, and the actions in terms of what they send. *)
Requests == [verb : Words, tag : Nat, heard : BOOLEAN]

DialogueInv ==
    /\ protocol \in Protocols
    /\ phase \in {"greeting", "command", "content", "sasl", "tls"}
    /\ queue \in Seq(Requests)
    /\ \A i \in DOMAIN queue : queue[i].verb \in Commands[protocol]
    /\ truth \in Truths
    /\ sent \in Nat /\ faults \in Nat
    /\ seen \subseteq Directions /\ hole \subseteq seen
    /\ DOMAIN parser = Protocols /\ P \in Parsers
    /\ phase = "greeting" => queue = << >> /\ hole = {} /\ P = NewParser
    /\ Paired => Len(queue) <= 1

SentLine(l, word, tag) ==
    /\ l \in Lines /\ l.says = protocol /\ l.word = word /\ l.tag = tag
    /\ l.usable /\ l.complete

LEMMA LineFacts ==
    ASSUME protocol \in Protocols, NEW word \in Words
    PROVE  /\ SentLine(Line(protocol, word), word, 0)
           /\ ~Line(protocol, word).more
           /\ Line(protocol, word).literal = "none"
  BY DEF SentLine, Line, Lines

LEMMA OfferFacts ==
    ASSUME NEW l \in Lines, NEW offers \in BOOLEAN, NEW word, SentLine(l, word, 0)
    PROVE  /\ SentLine([l EXCEPT !.offers = offers], word, 0)
           /\ [l EXCEPT !.offers = offers].more <=> l.more
           /\ \A tag \in Nat :
                 /\ SentLine([l EXCEPT !.tag = tag, !.offers = offers], word, tag)
                 /\ [l EXCEPT !.tag = tag, !.offers = offers].more <=> l.more
           /\ \A more \in BOOLEAN :
                 /\ SentLine([l EXCEPT !.more = more, !.offers = offers], word, 0)
                 /\ [l EXCEPT !.more = more, !.offers = offers].more <=> more
  BY DEF SentLine, Lines

LEMMA VerbWords ==
    ASSUME protocol \in Protocols
    PROVE  Commands[protocol] \subseteq Words
  BY DEF Protocols, Commands, Words

(* SMTP alone has its reply codes, POP3 alone its status indicators.        *)
Speaks(word) ==
    /\ word \in SmtpCodes => protocol = "SMTP"
    /\ word \in {"+OK", "-ERR"} => protocol = "POP3"

LEMMA GreetFacts ==
    ASSUME DialogueInv, Greet
    PROVE  /\ phase = "greeting" /\ phase' = "command" /\ UNCHANGED <<protocol, queue>>
           /\ Recorded(truth)
           /\ \E how \in Treatments, l \in Lines, word \in {"220", "554", "+OK", "-ERR", "OK"} :
                 /\ SentLine(l, word, 0) /\ ~l.more
                 /\ Conveyed(how, "server", l) /\ Speaks(word)
<1> USE DEF DialogueInv
<1>1. PICK word \in {"220", "554", "+OK", "-ERR", "OK"}, offers \in BOOLEAN, how \in Treatments :
          /\ Speaks(word)
          /\ Transmit(how, "server", [Line(protocol, word) EXCEPT !.offers = offers], truth)
  BY DEF Greet, Protocols, Speaks, SmtpCodes, SmtpGreetings
<1>2. word \in Words /\ "server" \in Directions
  BY DEF Words, Directions
<1> DEFINE l == [Line(protocol, word) EXCEPT !.offers = offers]
<1>3. SentLine(l, word, 0) /\ ~l.more
  <2> DEFINE k == Line(protocol, word)
  <2>1. k \in Lines /\ SentLine(k, word, 0) /\ ~k.more
    BY <1>2, LineFacts DEF SentLine
  <2> HIDE DEF k
  <2>2. /\ SentLine([k EXCEPT !.offers = offers], word, 0)
        /\ [k EXCEPT !.offers = offers].more <=> k.more
    BY <2>1, OfferFacts
  <2> QED
    BY <2>1, <2>2 DEF k
<1>4. phase = "greeting" /\ phase' = "command" /\ UNCHANGED <<protocol, queue>>
  BY DEF Greet
<1> HIDE DEF l
<1>5. Recorded(truth) /\ Conveyed(how, "server", l)
  <2>1. Transmit(how, "server", l, truth)
    BY <1>1 DEF l
  <2>2. SameCapture(truth)
    BY DEF SameCapture
  <2> QED
    BY <1>2, <1>3, <1>4, <2>1, <2>2, TransmitFacts DEF SentLine
<1> QED
  BY <1>1, <1>3, <1>4, <1>5 DEF SentLine

LEMMA SaslResponseFacts ==
    ASSUME DialogueInv, SaslResponse
    PROVE  /\ phase = "sasl" /\ phase' = "command" /\ UNCHANGED <<protocol, queue>>
           /\ Recorded(truth)
           /\ \E how \in Treatments, l \in Lines :
                 SentLine(l, "text", 0) /\ Conveyed(how, "client", l)
<1> USE DEF DialogueInv
<1>1. PICK how \in Treatments : Transmit(how, "client", Line(protocol, "text"), truth)
  BY DEF SaslResponse
<1>2. "text" \in Words /\ "client" \in Directions
  BY DEF Words, Directions
<1> DEFINE l == Line(protocol, "text")
<1>3. SentLine(l, "text", 0)
  BY <1>2, LineFacts
<1>4. phase = "sasl" /\ phase' = "command" /\ UNCHANGED <<protocol, queue>>
  BY DEF SaslResponse
<1> HIDE DEF l
<1>5. Recorded(truth) /\ Conveyed(how, "client", l)
  <2>1. Transmit(how, "client", l, truth)
    BY <1>1 DEF l
  <2>2. SameCapture(truth)
    BY DEF SameCapture
  <2> QED
    BY <1>2, <1>3, <1>4, <2>1, <2>2, TransmitFacts DEF SentLine
<1> QED
  BY <1>3, <1>4, <1>5 DEF SentLine

(* Content is sent by the client in SMTP and by the server elsewhere.       *)
Author == IF protocol = "SMTP" THEN "client" ELSE "server"

LEMMA ContentFacts ==
    ASSUME DialogueInv, Content
    PROVE  /\ phase = "content" /\ UNCHANGED <<protocol, queue>>
           /\ \E how \in Treatments, l \in Lines, word \in Contents :
                 /\ phase' = IF word = "." THEN "command" ELSE "content"
                 /\ Recorded([truth EXCEPT !.lookalike = @ \/ word \in {"STARTTLS", "250"}])
                 /\ SentLine(l, word, 0) /\ ~l.more
                 /\ Conveyed(how, Author, l)
<1> USE DEF DialogueInv
<1>1. PICK word \in Contents, offers \in BOOLEAN, how \in Treatments :
          /\ phase' = IF word = "." THEN "command" ELSE "content"
          /\ Transmit(how, Author,
                [Line(protocol, word) EXCEPT !.offers = offers],
                [truth EXCEPT !.lookalike = @ \/ word \in {"STARTTLS", "250"}])
  BY DEF Content, Author
<1>2. word \in Words /\ Author \in Directions
  BY DEF Words, Directions, Author, Contents
<1> DEFINE l == [Line(protocol, word) EXCEPT !.offers = offers]
           similar == truth.lookalike \/ word \in {"STARTTLS", "250"}
           changes == [truth EXCEPT !.lookalike = similar]
<1>3. SentLine(l, word, 0) /\ ~l.more
  <2> DEFINE k == Line(protocol, word)
  <2>1. k \in Lines /\ SentLine(k, word, 0) /\ ~k.more
    BY <1>2, LineFacts DEF SentLine
  <2> HIDE DEF k
  <2>2. /\ SentLine([k EXCEPT !.offers = offers], word, 0)
        /\ [k EXCEPT !.offers = offers].more <=> k.more
    BY <2>1, OfferFacts
  <2> QED
    BY <2>1, <2>2 DEF k
<1>4. phase = "content" /\ UNCHANGED <<protocol, queue>>
  BY DEF Content
<1>5. similar \in BOOLEAN
  BY DEF Truths
<1>6. Transmit(how, Author, l, changes)
  BY <1>1
<1> HIDE DEF l, similar
<1>7. changes \in Truths /\ SameCapture(changes)
  BY <1>5 DEF Truths, SameCapture
<1>8. Recorded(changes) /\ Conveyed(how, Author, l)
  BY <1>2, <1>3, <1>4, <1>6, <1>7, TransmitFacts DEF SentLine
<1>9. Recorded([truth EXCEPT !.lookalike = @ \/ word \in {"STARTTLS", "250"}])
  BY <1>8 DEF similar
<1> QED
  BY <1>1, <1>3, <1>4, <1>8, <1>9 DEF SentLine

CommandTag == IF protocol = "IMAP" THEN sent + 1 ELSE 0

LEMMA SendCommandFacts ==
    ASSUME DialogueInv, SendCommand
    PROVE  /\ phase = "command" /\ UNCHANGED <<protocol, phase>>
           /\ \E how \in Treatments, l \in Lines, verb \in Commands[protocol] :
                 /\ SentLine(l, verb, CommandTag) /\ (verb # "LOGIN" => l.literal = "none")
                 /\ queue' = Append(queue, [verb |-> verb, tag |-> CommandTag,
                                            heard |-> how = "clean" /\ Following])
                 /\ Recorded([truth EXCEPT !.pipelined = @ \/ queue # << >>])
                 /\ Conveyed(how, "client", l)
<1> USE DEF DialogueInv
<1>0. PICK verb \in Commands[protocol], how \in Treatments : \E l \in CommandLines(verb) :
          /\ queue' = Append(queue, [verb |-> verb, tag |-> l.tag, heard |-> how = "clean" /\ Following])
          /\ Transmit(how, "client", l, [truth EXCEPT !.pipelined = @ \/ queue # << >>])
  BY DEF SendCommand
<1>1. PICK l \in CommandLines(verb) :
          /\ queue' = Append(queue, [verb |-> verb, tag |-> l.tag, heard |-> how = "clean" /\ Following])
          /\ Transmit(how, "client", l, [truth EXCEPT !.pipelined = @ \/ queue # << >>])
  BY <1>0
<1>2. verb \in Words /\ "client" \in Directions /\ CommandTag \in Nat
  BY VerbWords DEF Directions, CommandTag
<1>3. l \in Lines /\ SentLine(l, verb, CommandTag) /\ (verb # "LOGIN" => l.literal = "none")
  <2> DEFINE k == Line(protocol, verb)
             m == [k EXCEPT !.tag = CommandTag]
  <2>1. k \in Lines /\ SentLine(k, verb, 0) /\ k.literal = "none"
    BY <1>2, LineFacts DEF SentLine
  <2>2. \/ l = m
        \/ verb = "LOGIN" /\ \E kind \in {"whole", "huge", "cut"} : l = [m EXCEPT !.literal = kind]
    BY DEF CommandLines, CommandTag
  <2> HIDE DEF k
  <2>3. m \in Lines /\ SentLine(m, verb, CommandTag) /\ m.literal = "none"
    BY <1>2, <2>1 DEF SentLine, Lines
  <2> HIDE DEF m
  <2>4. ASSUME NEW kind \in {"whole", "huge", "cut"}
        PROVE  SentLine([m EXCEPT !.literal = kind], verb, CommandTag)
    BY <2>3 DEF SentLine, Lines
  <2> QED
    BY <2>2, <2>3, <2>4 DEF SentLine
<1> DEFINE grouped == truth.pipelined \/ queue # << >>
           changes == [truth EXCEPT !.pipelined = grouped]
<1>4. grouped \in BOOLEAN /\ Transmit(how, "client", l, changes)
  BY <1>1 DEF Truths
<1> HIDE DEF grouped
<1>5. changes \in Truths /\ SameCapture(changes)
  BY <1>4 DEF Truths, SameCapture
<1>6. phase = "command" /\ UNCHANGED <<protocol, phase>>
  BY DEF SendCommand
<1>7. Recorded(changes) /\ Conveyed(how, "client", l)
  BY <1>2, <1>3, <1>4, <1>5, <1>6, TransmitFacts DEF SentLine
<1>8. Recorded([truth EXCEPT !.pipelined = @ \/ queue # << >>])
  BY <1>7 DEF grouped
<1>9. l.tag = CommandTag
  BY <1>3 DEF SentLine
<1> QED
  BY <1>1, <1>3, <1>6, <1>7, <1>8, <1>9

AsksUpgrade(command) == command.verb = UpgradeVerb[protocol]

LEMMA AnswerFacts ==
    ASSUME DialogueInv, Answer
    PROVE  /\ phase = "command" /\ queue # << >> /\ queue' = Tail(queue)
           /\ protocol' = protocol
           /\ \E how \in Treatments, l \in Lines, word \in Answers(Head(queue).verb) :
                 /\ phase' = IF AsksUpgrade(Head(queue)) /\ word \in Positive THEN "tls"
                             ELSE IF Head(queue).verb \in {"CAPA", "RETR"} /\ word = "+OK"
                               THEN "content"
                             ELSE "command"
                 /\ SentLine(l, word, Head(queue).tag) /\ ~l.more
                 /\ Recorded([truth EXCEPT
                       !.accepted = @ \/ (AsksUpgrade(Head(queue)) /\ word \in Positive),
                       !.refused = @ \/ (AsksUpgrade(Head(queue)) /\ word \notin Positive)])
                 /\ Conveyed(how, "server", l)
<1> USE DEF DialogueInv
<1> DEFINE command == Head(queue)
           upgrade == AsksUpgrade(command)
<1>0. phase = "command" /\ queue # << >> /\ queue' = Tail(queue) /\ protocol' = protocol
  BY DEF Answer
<1>1. PICK word \in Answers(command.verb), offers \in BOOLEAN, how \in Treatments :
          /\ phase' = IF upgrade /\ word \in Positive THEN "tls"
                      ELSE IF command.verb \in {"CAPA", "RETR"} /\ word = "+OK" THEN "content"
                      ELSE "command"
          /\ Transmit(how, "server",
                [Line(protocol, word) EXCEPT !.tag = command.tag, !.offers = offers],
                [truth EXCEPT !.accepted = @ \/ (upgrade /\ word \in Positive),
                              !.refused = @ \/ (upgrade /\ word \notin Positive)])
  BY DEF Answer, AsksUpgrade
<1>2. word \in Words /\ "server" \in Directions /\ command.tag \in Nat
  <2>1. word \in Words
    BY DEF Answers, Words
  <2>2. command \in Requests
    BY <1>0
  <2> QED
    BY <2>1, <2>2 DEF Directions, Requests
<1> DEFINE l == [Line(protocol, word) EXCEPT !.tag = command.tag, !.offers = offers]
           yes == truth.accepted \/ (upgrade /\ word \in Positive)
           no == truth.refused \/ (upgrade /\ word \notin Positive)
           changes == [truth EXCEPT !.accepted = yes, !.refused = no]
<1>3. SentLine(l, word, command.tag) /\ ~l.more
  <2> DEFINE k == Line(protocol, word)
             t == command.tag
  <2>1. k \in Lines /\ SentLine(k, word, 0) /\ ~k.more
    BY <1>2, LineFacts DEF SentLine
  <2>2. t \in Nat
    BY <1>2
  <2> HIDE DEF k, t
  <2>3. /\ SentLine([k EXCEPT !.tag = t, !.offers = offers], word, t)
        /\ [k EXCEPT !.tag = t, !.offers = offers].more <=> k.more
    BY <2>1, <2>2, OfferFacts
  <2> QED
    BY <2>1, <2>3 DEF k, t
<1>5. yes \in BOOLEAN /\ no \in BOOLEAN
  BY DEF Truths
<1>6. Transmit(how, "server", l, changes)
  BY <1>1
<1> HIDE DEF l, yes, no, upgrade, command
<1>7. changes \in Truths /\ SameCapture(changes)
  BY <1>5 DEF Truths, SameCapture
<1>8. Recorded(changes) /\ Conveyed(how, "server", l)
  BY <1>0, <1>2, <1>3, <1>6, <1>7, TransmitFacts DEF SentLine
<1> QED
  BY <1>0, <1>1, <1>3, <1>8 DEF SentLine, yes, no, upgrade, command

Awaited(verb, word, more) ==
    \/ verb = "EHLO" /\ word = "250" /\ more
    \/ verb = "CAPABILITY" /\ word = "CAPABILITY" /\ ~more
    \/ verb = "DATA" /\ word = "354" /\ ~more
    \/ verb = "AUTH" /\ word = "334" /\ ~more
    \/ verb = "AUTHENTICATE" /\ word = "+" /\ ~more

LEMMA InterimFacts ==
    ASSUME DialogueInv, Interim
    PROVE  /\ phase = "command" /\ queue # << >> /\ UNCHANGED <<protocol, queue>>
           /\ Recorded(truth)
           /\ \E how \in Treatments, l \in Lines,
                 word \in {"250", "CAPABILITY", "354", "334", "+"} :
                 /\ Awaited(Head(queue).verb, word, l.more)
                 /\ phase' = CASE word = "354" -> "content"
                               [] word \in {"334", "+"} -> "sasl"
                               [] OTHER -> "command"
                 /\ SentLine(l, word, 0)
                 /\ Conveyed(how, "server", l)
<1> USE DEF DialogueInv
<1>1. PICK w \in {"250", "CAPABILITY", "354", "334", "+"}, m \in BOOLEAN, o \in BOOLEAN,
           how \in Treatments :
          /\ LET verb == Head(queue).verb
             IN  \/ verb = "EHLO" /\ w = "250" /\ m
                 \/ verb = "CAPABILITY" /\ w = "CAPABILITY" /\ ~m
                 \/ verb = "DATA" /\ w = "354" /\ ~m /\ ~o
                 \/ verb = "AUTH" /\ w = "334" /\ ~m /\ ~o
                 \/ verb = "AUTHENTICATE" /\ w = "+" /\ ~m /\ ~o
          /\ phase' = CASE w = "354" -> "content"
                        [] w \in {"334", "+"} -> "sasl"
                        [] OTHER -> "command"
          /\ Transmit(how, "server", [Line(protocol, w) EXCEPT !.more = m, !.offers = o], truth)
  BY Zenon DEF Interim
<1> DEFINE l == [Line(protocol, w) EXCEPT !.more = m, !.offers = o]
<1>2. w \in Words /\ "server" \in Directions
  BY DEF Words, Directions
<1>3. SentLine(l, w, 0) /\ (l.more <=> m)
  <2> DEFINE k == Line(protocol, w)
  <2>1. k \in Lines /\ SentLine(k, w, 0)
    BY <1>2, LineFacts DEF SentLine
  <2> HIDE DEF k
  <2>2. /\ SentLine([k EXCEPT !.more = m, !.offers = o], w, 0)
        /\ [k EXCEPT !.more = m, !.offers = o].more <=> m
    BY <2>1, OfferFacts
  <2> QED
    BY <2>2 DEF k
<1>4. phase = "command" /\ queue # << >> /\ UNCHANGED <<protocol, queue>>
  BY DEF Interim
<1>5. Transmit(how, "server", l, truth)
  BY <1>1
<1> HIDE DEF l
<1>8. SameCapture(truth)
  BY DEF SameCapture
<1>6. Recorded(truth) /\ Conveyed(how, "server", l)
  BY <1>2, <1>3, <1>4, <1>5, <1>8, TransmitFacts DEF SentLine
<1>7. Awaited(Head(queue).verb, w, l.more)
  BY <1>1, <1>3 DEF Awaited
<1> QED
  BY <1>1, <1>3, <1>4, <1>6, <1>7 DEF SentLine

-----------------------------------------------------------------------------
(* What the SMTP parser makes of a line that was sent.                      *)
AfterHole(p, gap, q) ==
    /\ q \in Parsers /\ SameClaims(p, q) /\ SameMode(p, q)
    /\ q.pending = IF gap THEN << >> ELSE p.pending

LEMMA SmtpParseFacts ==
    ASSUME NEW p \in Parsers, NEW m \in Lines
    PROVE  /\ Ended(p) => SmtpParse(p, m, TRUE) = p /\ SmtpParse(p, m, FALSE) = p
           /\ ~Ended(p) => \E q : /\ AfterHole(p, m.gap, q)
                                  /\ SmtpParse(p, m, TRUE) = SmtpClientLine(q, m)
                                  /\ SmtpParse(p, m, FALSE) = SmtpServerLine(q, m)
<1> DEFINE q == IF m.gap THEN NoteGap(p) ELSE p
<1>1. AfterHole(p, m.gap, q)
  BY GapFacts DEF AfterHole
<1>2. /\ Ended(p) => SmtpParse(p, m, TRUE) = p /\ SmtpParse(p, m, FALSE) = p
      /\ ~Ended(p) => SmtpParse(p, m, TRUE) = SmtpClientLine(q, m)
      /\ ~Ended(p) => SmtpParse(p, m, FALSE) = SmtpServerLine(q, m)
  BY DEF SmtpParse, Ended
<1> HIDE DEF q
<1> QED
  BY <1>1, <1>2

LEMMA SmtpClientStep ==
    ASSUME DialogueInv, protocol = "SMTP", protocol' = protocol,
           NEW how \in Treatments, NEW l \in Lines, NEW word, NEW tag,
           SentLine(l, word, tag), Conveyed(how, "client", l)
    PROVE  /\ P' \in Parsers
           /\ P'.outcome = P.outcome /\ (RefusedIn(P') => RefusedIn(P))
           /\ Ended(P) => P' = P
           /\ P'.pending # P.pending /\ P'.pending # << >> =>
                 /\ how = "clean" /\ word \notin {".", "text"} /\ P.body = "none" /\ ~P.awaiting
                 /\ P'.pending \in {<<Entry(word, SmtpKind(word), 0)>>,
                                    Append(P.pending, Entry(word, SmtpKind(word), 0))}
           /\ how = "clean" /\ hole = {} /\ ~Ended(P) =>
                 /\ hole' = {}
                 /\ P'.body = IF word = "." THEN "none" ELSE P.body
                 /\ P'.awaiting <=> (P.awaiting /\ P.body # "none")
                 /\ IF P.body = "none" /\ ~P.awaiting /\ word \notin {".", "text"}
                      THEN P'.pending = Append(P.pending, Entry(word, SmtpKind(word), 0))
                      ELSE P'.pending = P.pending
<1> USE DEF DialogueInv
<1>1. CASE how = "missed"
  <2>1. P' = P
    BY <1>1 DEF Conveyed
  <2> QED
    BY <1>1, <2>1
<1>2. CASE how # "missed"
  <2>1. PICK m \in Lines : Heard(how, "client", l, m)
    BY <1>2 DEF Conveyed
  <2>2. P' = SmtpParse(P, m, TRUE)
    BY <2>1 DEF Heard, Parse
  <2>3. CASE Ended(P)
    <3>1. P' = P
      BY <2>2, <2>3, SmtpParseFacts
    <3> QED
      BY <2>3, <3>1
  <2>4. CASE ~Ended(P)
    <3>1. PICK q : AfterHole(P, m.gap, q) /\ P' = SmtpClientLine(q, m)
      BY <2>2, <2>4, SmtpParseFacts
    <3> DEFINE r == P'
    <3>2. /\ r \in Parsers
          /\ r.outcome = q.outcome
          /\ RefusedIn(r) => RefusedIn(q)
          /\ SmtpReads(q, m) =>
                r.pending = Append(q.pending, Entry(SmtpVerb(m), SmtpKind(SmtpVerb(m)), 0))
          /\ ~SmtpReads(q, m) => r.pending = q.pending
          /\ r.body = IF EndsBody(m) THEN "none" ELSE q.body
          /\ r.awaiting <=> (q.awaiting /\ q.body # "none")
      BY <3>1, SmtpClientFacts DEF AfterHole
    <3>3. /\ m.says = "SMTP" /\ m.word = word
          /\ m.gap <=> ("client" \in hole)
          /\ m.usable <=> (how = "clean")
          /\ how = "clean" => m.complete
          /\ hole' = hole \ {"client"} \/ (~m.complete /\ hole' = hole \cup {"client"})
      BY <2>1 DEF Heard, SentLine
    <3>4. /\ SmtpVerb(m) # NoVerb => SmtpVerb(m) = word
          /\ (SmtpVerb(m) # NoVerb) <=> (word \notin {".", "text"})
      <4>1. word \in Words /\ NoVerb \notin Words
        BY <3>3 DEF Lines, Words, NoVerb
      <4> QED
        BY <3>3, <4>1 DEF SmtpVerb
    <3>5. SmtpReads(q, m) <=> (P.body = "none" /\ ~P.awaiting /\ how = "clean"
                                 /\ word \notin {".", "text"})
      BY <3>1, <3>3, <3>4 DEF SmtpReads, AfterHole, SameMode
    <3>6. /\ q.pending = IF m.gap THEN << >> ELSE P.pending
          /\ q.outcome = P.outcome /\ (RefusedIn(q) <=> RefusedIn(P))
          /\ q.body = P.body
          /\ q.awaiting <=> P.awaiting
      BY <3>1 DEF AfterHole, SameMode, SameClaims, RefusedIn
    <3>7. Append(<< >>, Entry(word, SmtpKind(word), 0)) = <<Entry(word, SmtpKind(word), 0)>>
      OBVIOUS
    <3> HIDE DEF r
    <3>8. /\ r \in Parsers
          /\ r.outcome = P.outcome /\ (RefusedIn(r) => RefusedIn(P))
      BY <3>2, <3>6
    <3>9. r.pending # P.pending /\ r.pending # << >> =>
             /\ how = "clean" /\ word \notin {".", "text"} /\ P.body = "none" /\ ~P.awaiting
             /\ r.pending \in {<<Entry(word, SmtpKind(word), 0)>>,
                                Append(P.pending, Entry(word, SmtpKind(word), 0))}
      BY <3>2, <3>4, <3>5, <3>6, <3>7
    <3>10. ASSUME how = "clean", hole = {}
           PROVE  /\ hole' = {}
                  /\ r.body = IF word = "." THEN "none" ELSE P.body
                  /\ r.awaiting <=> (P.awaiting /\ P.body # "none")
                  /\ IF P.body = "none" /\ ~P.awaiting /\ word \notin {".", "text"}
                       THEN r.pending = Append(P.pending, Entry(word, SmtpKind(word), 0))
                       ELSE r.pending = P.pending
      <4>1. ~m.gap /\ m.usable /\ m.complete /\ hole' = {}
        BY <3>3, <3>10
      <4>2. EndsBody(m) <=> word = "."
        BY <3>3, <4>1 DEF EndsBody
      <4> QED
        BY <3>2, <3>4, <3>5, <3>6, <3>10, <4>1, <4>2
    <3> QED
      BY <2>4, <3>8, <3>9, <3>10 DEF r
  <2> QED
    BY <2>3, <2>4
<1> QED
  BY <1>1, <1>2

(* A server line that was captured ends a reply, goes on with one, or       *)
(* answers nothing that the parser knows of.                                *)
SmtpHears(q, l, r) ==
    /\ l.more \/ q.pending = << >> \/ l.word \notin SmtpCodes => Keeps(q, r)
    /\ ~l.more /\ l.word \in SmtpCodes /\ SmtpCalls(q, l.word) =>
          /\ SameClaims(q, r) /\ SameEnd(q, r) /\ r.pending = q.pending
          /\ Head(q.pending).verb = "DATA" /\ l.word = "354" =>
                r.body = "DATA" /\ (r.awaiting <=> q.awaiting)
          /\ ~(Head(q.pending).verb = "DATA" /\ l.word = "354") =>
                r.body = q.body /\ r.awaiting
    /\ ~l.more /\ l.word \in SmtpCodes /\ q.pending # << >> /\ ~SmtpCalls(q, l.word) =>
          SmtpAnswered(q, l.word, r)

LEMMA SmtpServerStep ==
    ASSUME DialogueInv, protocol = "SMTP", protocol' = protocol,
           NEW how \in Treatments, NEW l \in Lines, Conveyed(how, "server", l)
    PROVE  /\ P' \in Parsers
           /\ Ended(P) \/ how = "missed" => P' = P
           /\ ~Ended(P) /\ how # "clean" =>
                 /\ SameClaims(P, P') /\ SameMode(P, P')
                 /\ P'.pending \in {<< >>, P.pending}
           /\ ~Ended(P) /\ how = "clean" =>
                 \E q : /\ AfterHole(P, "server" \in hole, q) /\ SmtpHears(q, l, P')
                        /\ hole' = hole \ {"server"}
<1> USE DEF DialogueInv
<1>1. CASE how = "missed"
  <2>1. P' = P
    BY <1>1 DEF Conveyed
  <2> QED
    BY <1>1, <2>1 DEF SameClaims, SameMode
<1>2. CASE how # "missed"
  <2>1. PICK m \in Lines : Heard(how, "server", l, m)
    BY <1>2 DEF Conveyed
  <2>2. P' = SmtpParse(P, m, FALSE)
    BY <2>1 DEF Heard, Parse
  <2>3. CASE Ended(P)
    <3>1. P' = P
      BY <2>2, <2>3, SmtpParseFacts
    <3> QED
      BY <2>3, <3>1
  <2>4. CASE ~Ended(P)
    <3>1. PICK q : AfterHole(P, m.gap, q) /\ P' = SmtpServerLine(q, m)
      BY <2>2, <2>4, SmtpParseFacts
    <3> DEFINE r == P'
    <3>2. /\ r \in Parsers
          /\ ~SmtpFinal(m) \/ q.pending = << >> => Keeps(q, r)
          /\ SmtpFinal(m) /\ SmtpCalls(q, m.word) =>
                /\ SameClaims(q, r) /\ SameEnd(q, r) /\ r.pending = q.pending
                /\ Head(q.pending).verb = "DATA" /\ m.word = "354" =>
                      r.body = "DATA" /\ (r.awaiting <=> q.awaiting)
                /\ ~(Head(q.pending).verb = "DATA" /\ m.word = "354") =>
                      r.body = q.body /\ r.awaiting
          /\ SmtpFinal(m) /\ q.pending # << >> /\ ~SmtpCalls(q, m.word) =>
                SmtpAnswered(q, m.word, r)
      BY <3>1, SmtpServerFacts DEF AfterHole
    <3>3. /\ m.word = l.word
          /\ m.more <=> l.more
          /\ m.gap <=> ("server" \in hole)
          /\ m.usable <=> (how = "clean")
          /\ how = "clean" => hole' = hole \ {"server"}
      BY <2>1 DEF Heard
    <3>4. SmtpFinal(m) <=> (how = "clean" /\ l.word \in SmtpCodes /\ ~l.more)
      <4>1. m.word \in Words /\ NoVerb \notin Words
        BY DEF Lines, Words, NoVerb
      <4> QED
        BY <3>3, <4>1 DEF SmtpFinal, SmtpCode
    <3> HIDE DEF r
    <3>5. CASE how # "clean"
      <4>1. Keeps(q, r)
        BY <3>2, <3>4, <3>5
      <4>2. SameClaims(P, r) /\ SameMode(P, r) /\ r.pending \in {<< >>, P.pending}
        BY <3>1, <4>1 DEF AfterHole, Keeps, SameClaims, SameMode
      <4> QED
        BY <1>2, <2>4, <3>2, <3>5, <4>2 DEF r
    <3>6. CASE how = "clean"
      <4>1. SmtpHears(q, l, r)
        BY <3>2, <3>3, <3>4, <3>6 DEF SmtpHears
      <4>2. AfterHole(P, "server" \in hole, q)
        BY <3>1, <3>3 DEF AfterHole
      <4> QED
        BY <1>2, <2>4, <3>2, <3>3, <3>6, <4>1, <4>2 DEF r
    <3> QED
      BY <3>5, <3>6
  <2> QED
    BY <2>3, <2>4
<1> QED
  BY <1>1, <1>2

-----------------------------------------------------------------------------
(* The SMTP parser and the dialogue it follows.  As long as answers pair    *)
(* with commands, what it holds outstanding is the command that waits for   *)
(* its answer, or nothing; in a faultless capture it is also always in the  *)
(* mode of the dialogue, so that content is never read as a command.        *)
Trusted == Paired /\ (truth.lookalike => faults = 0)

Awaits(p, Kind(_)) ==
    \/ p.pending = << >>
    \/ /\ queue # << >>
       /\ p.pending = <<Entry(Head(queue).verb, Kind(Head(queue).verb), 0)>>

InStep(p) ==
    /\ p.body # "none" <=> phase = "content"
    /\ p.awaiting <=> phase = "sasl"
    /\ p.pending = << >> <=> queue = << >>
    /\ hole = {}

SmtpInv ==
    protocol = "SMTP" =>
      /\ AcceptedIn(P) => truth.accepted
      /\ Trusted /\ RefusedIn(P) => truth.refused
      /\ Trusted /\ ~Ended(P) => Awaits(P, SmtpKind) /\ (faults = 0 => InStep(P))

SmtpGoal ==
    /\ P' \in Parsers
    /\ AcceptedIn(P') => truth'.accepted
    /\ Trusted' /\ RefusedIn(P') => truth'.refused
    /\ Trusted' /\ ~Ended(P') =>
          (Awaits(P, SmtpKind))' /\ (faults' = 0 => InStep(P)')

LEMMA NewParserInStep ==
    ASSUME DialogueInv, phase = "greeting"
    PROVE  /\ queue = << >> /\ hole = {} /\ P.pending = << >> /\ P.body = "none"
           /\ ~P.awaiting /\ ~Ended(P) /\ ~AcceptedIn(P) /\ ~RefusedIn(P)
  BY NewParserFacts DEF DialogueInv, Ended

LEMMA SmtpGreet ==
    ASSUME DialogueInv, SmtpInv, protocol = "SMTP", Greet
    PROVE  SmtpGoal
<1>1. /\ phase = "greeting" /\ phase' = "command" /\ protocol' = protocol /\ queue' = queue
      /\ Recorded(truth)
  BY GreetFacts
<1>2. PICK how \in Treatments, l \in Lines : Conveyed(how, "server", l)
  BY GreetFacts
<1>3. /\ queue = << >> /\ hole = {} /\ P.pending = << >> /\ P.body = "none"
      /\ ~P.awaiting /\ ~Ended(P) /\ ~AcceptedIn(P) /\ ~RefusedIn(P)
  BY <1>1, NewParserInStep
<1>4. SameClaims(P, P') /\ SameMode(P, P') /\ P'.pending = << >> /\ P' \in Parsers
  <2>1. CASE how = "missed"
    BY <1>1, <1>2, <1>3, <2>1 DEF Conveyed, SameClaims, SameMode, DialogueInv
  <2>2. CASE how # "clean"
    BY <1>1, <1>2, <1>3, <2>2, SmtpServerStep
  <2>3. CASE how = "clean"
    <3>1. PICK q : AfterHole(P, "server" \in hole, q) /\ SmtpHears(q, l, P')
      BY <1>1, <1>2, <1>3, <2>3, SmtpServerStep
    <3>2. q.pending = << >> /\ Keeps(q, P')
      BY <1>3, <3>1 DEF AfterHole, SmtpHears
    <3> QED
      BY <3>1, <3>2 DEF AfterHole, Keeps, SameClaims, SameMode
  <2> QED
    BY <2>2, <2>3
<1>5. faults' = 0 => hole' = {}
  <2>1. faults' = 0 => how = "clean"
    BY <1>2 DEF Conveyed, DialogueInv
  <2>2. how = "clean" => hole' = hole \ {"server"}
    BY <1>2, <1>1, <1>3, SmtpServerStep
  <2> QED
    BY <1>3, <2>1, <2>2
<1> DEFINE r == P'
<1>6. /\ r \in Parsers /\ ~AcceptedIn(r) /\ ~RefusedIn(r) /\ r.body = "none" /\ ~r.awaiting
      /\ r.pending = << >>
  BY <1>3, <1>4 DEF SameClaims, SameMode, AcceptedIn, RefusedIn
<1> QED
  BY <1>1, <1>3, <1>5, <1>6 DEF SmtpGoal, Awaits, InStep

LEMMA SmtpSaslResponse ==
    ASSUME DialogueInv, SmtpInv, protocol = "SMTP", SaslResponse
    PROVE  SmtpGoal
<1>1. /\ phase = "sasl" /\ phase' = "command" /\ protocol' = protocol /\ queue' = queue
      /\ Recorded(truth)
  BY SaslResponseFacts
<1>2. PICK how \in Treatments, l \in Lines : SentLine(l, "text", 0) /\ Conveyed(how, "client", l)
  BY SaslResponseFacts
<1>3. /\ P' \in Parsers
      /\ P'.outcome = P.outcome /\ (RefusedIn(P') => RefusedIn(P))
      /\ Ended(P) => P' = P
      /\ P'.pending \in {P.pending, << >>}
      /\ how = "clean" /\ hole = {} /\ ~Ended(P) =>
            /\ hole' = {} /\ P'.body = P.body
            /\ P'.awaiting <=> (P.awaiting /\ P.body # "none")
            /\ P'.pending = P.pending
  BY <1>1, <1>2, SmtpClientStep
<1>4. (faults' = 0 => how = "clean" /\ faults = 0) /\ (Trusted' => Trusted)
  BY <1>1, <1>2 DEF Conveyed, DialogueInv, Recorded, Trusted, Paired, Truths
<1>5. Trusted' /\ ~Ended(P') => (Awaits(P, SmtpKind))' /\ (faults' = 0 => InStep(P)')
  <2> SUFFICES ASSUME Trusted', ~Ended(P') PROVE (Awaits(P, SmtpKind))' /\ (faults' = 0 => InStep(P)')
    OBVIOUS
  <2>1. ~Ended(P) /\ Awaits(P, SmtpKind) /\ (faults = 0 => InStep(P))
    BY <1>3, <1>4 DEF SmtpInv
  <2>2. (Awaits(P, SmtpKind))'
    BY <1>1, <1>3, <2>1 DEF Awaits
  <2>3. faults' = 0 => InStep(P)'
    BY <1>1, <1>3, <1>4, <2>1 DEF InStep
  <2> QED
    BY <2>2, <2>3
<1> QED
  BY <1>1, <1>3, <1>4, <1>5 DEF SmtpGoal, SmtpInv, Recorded, AcceptedIn

(* What a line of content leaves of the truth.                              *)
LEMMA ContentTruth ==
    ASSUME DialogueInv, NEW word,
           Recorded([truth EXCEPT !.lookalike = @ \/ word \in {"STARTTLS", "250"}])
    PROVE  /\ truth' \in Truths
           /\ truth'.accepted <=> truth.accepted
           /\ truth'.refused <=> truth.refused
           /\ truth'.pipelined <=> truth.pipelined
           /\ truth.leading => truth'.leading
           /\ truth.skewed => truth'.skewed
           /\ truth'.lookalike <=> (truth.lookalike \/ word \in {"STARTTLS", "250"})
<1> DEFINE similar == truth.lookalike \/ word \in {"STARTTLS", "250"}
           changes == [truth EXCEPT !.lookalike = similar]
<1>1. Recorded(changes) /\ similar \in BOOLEAN
  BY DEF DialogueInv, Truths
<1> HIDE DEF similar
<1>2. /\ changes.accepted <=> truth.accepted
      /\ changes.refused <=> truth.refused
      /\ changes.pipelined <=> truth.pipelined
      /\ changes.leading <=> truth.leading
      /\ changes.skewed <=> truth.skewed
      /\ changes.lookalike <=> similar
  BY <1>1 DEF DialogueInv, Truths
<1> HIDE DEF changes
<1> QED
  BY <1>1, <1>2 DEF Recorded, similar

LEMMA SmtpContent ==
    ASSUME DialogueInv, SmtpInv, protocol = "SMTP", Content
    PROVE  SmtpGoal
<1>1. phase = "content" /\ protocol' = protocol /\ queue' = queue
  BY ContentFacts
<1>2. PICK how \in Treatments, l \in Lines, word \in Contents :
         /\ phase' = IF word = "." THEN "command" ELSE "content"
         /\ Recorded([truth EXCEPT !.lookalike = @ \/ word \in {"STARTTLS", "250"}])
         /\ SentLine(l, word, 0)
         /\ Conveyed(how, "client", l)
  BY ContentFacts DEF Author
<1>3. /\ truth' \in Truths
      /\ truth'.accepted <=> truth.accepted
      /\ truth'.refused <=> truth.refused
      /\ truth'.pipelined <=> truth.pipelined
      /\ truth.leading => truth'.leading
      /\ truth.skewed => truth'.skewed
      /\ truth'.lookalike <=> (truth.lookalike \/ word \in {"STARTTLS", "250"})
  BY <1>2, ContentTruth
<1>4. /\ P' \in Parsers
      /\ P'.outcome = P.outcome /\ (RefusedIn(P') => RefusedIn(P))
      /\ Ended(P) => P' = P
      /\ P'.pending # P.pending /\ P'.pending # << >> =>
            how = "clean" /\ word \notin {".", "text"} /\ P.body = "none"
      /\ how = "clean" /\ hole = {} /\ ~Ended(P) =>
            /\ hole' = {}
            /\ P'.body = IF word = "." THEN "none" ELSE P.body
            /\ P'.awaiting <=> (P.awaiting /\ P.body # "none")
            /\ P.body # "none" => P'.pending = P.pending
  BY <1>1, <1>2, SmtpClientStep
<1>5. /\ faults' = 0 => how = "clean" /\ faults = 0
      /\ Trusted' => Trusted
      /\ Trusted' /\ word \in {"STARTTLS", "250"} => faults' = 0
  BY <1>2, <1>3 DEF Conveyed, DialogueInv, Trusted, Paired, Truths
<1>6. Trusted' /\ ~Ended(P') => (Awaits(P, SmtpKind))' /\ (faults' = 0 => InStep(P)')
  <2> SUFFICES ASSUME Trusted', ~Ended(P') PROVE (Awaits(P, SmtpKind))' /\ (faults' = 0 => InStep(P)')
    OBVIOUS
  <2>1. ~Ended(P) /\ Awaits(P, SmtpKind) /\ (faults = 0 => InStep(P))
    BY <1>4, <1>5 DEF SmtpInv
  <2>2. P'.pending \in {P.pending, << >>}
    <3>1. CASE word \in {".", "text"}
      BY <1>4, <3>1
    <3>2. CASE word \in {"STARTTLS", "250"}
      <4>1. faults = 0 /\ P.body # "none"
        BY <1>1, <1>5, <2>1, <3>2 DEF InStep
      <4> QED
        BY <1>4, <4>1
    <3> QED
      BY <3>1, <3>2 DEF Contents
  <2>3. (Awaits(P, SmtpKind))'
    BY <1>1, <2>1, <2>2 DEF Awaits
  <2>4. faults' = 0 => InStep(P)'
    <3> SUFFICES ASSUME faults' = 0 PROVE InStep(P)'
      OBVIOUS
    <3>1. how = "clean" /\ InStep(P)
      BY <1>5, <2>1
    <3>2. hole = {} /\ P.body # "none" /\ ~P.awaiting
      BY <1>1, <3>1 DEF InStep
    <3> QED
      BY <1>1, <1>2, <1>4, <2>1, <3>1, <3>2 DEF InStep
  <2> QED
    BY <2>3, <2>4
<1> QED
  BY <1>3, <1>4, <1>5, <1>6 DEF SmtpGoal, SmtpInv, AcceptedIn

(* What pipelining leaves of the truth.                                     *)
LEMMA GroupFacts ==
    ASSUME DialogueInv, Recorded([truth EXCEPT !.pipelined = @ \/ queue # << >>])
    PROVE  /\ truth' \in Truths
           /\ truth'.accepted <=> truth.accepted
           /\ truth'.refused <=> truth.refused
           /\ truth'.pipelined <=> (truth.pipelined \/ queue # << >>)
           /\ truth.leading => truth'.leading
           /\ truth.skewed => truth'.skewed
           /\ truth'.lookalike <=> truth.lookalike
<1> DEFINE grouped == truth.pipelined \/ queue # << >>
           changes == [truth EXCEPT !.pipelined = grouped]
<1>1. Recorded(changes) /\ grouped \in BOOLEAN
  BY DEF DialogueInv, Truths
<1> HIDE DEF grouped
<1>2. /\ changes.accepted <=> truth.accepted
      /\ changes.refused <=> truth.refused
      /\ changes.pipelined <=> grouped
      /\ changes.leading <=> truth.leading
      /\ changes.skewed <=> truth.skewed
      /\ changes.lookalike <=> truth.lookalike
  BY <1>1 DEF DialogueInv, Truths
<1> HIDE DEF changes
<1> QED
  BY <1>1, <1>2 DEF Recorded, grouped

(* What an answer leaves of the truth.                                      *)
LEMMA AnswerTruth ==
    ASSUME DialogueInv, NEW yes \in BOOLEAN, NEW no \in BOOLEAN,
           Recorded([truth EXCEPT !.accepted = @ \/ yes, !.refused = @ \/ no])
    PROVE  /\ truth' \in Truths
           /\ truth'.accepted <=> (truth.accepted \/ yes)
           /\ truth'.refused <=> (truth.refused \/ no)
           /\ truth'.pipelined <=> truth.pipelined
           /\ truth.leading => truth'.leading
           /\ truth.skewed => truth'.skewed
           /\ truth'.lookalike <=> truth.lookalike
<1> DEFINE a == truth.accepted \/ yes
           b == truth.refused \/ no
           changes == [truth EXCEPT !.accepted = a, !.refused = b]
<1>1. Recorded(changes) /\ a \in BOOLEAN /\ b \in BOOLEAN
  BY DEF DialogueInv, Truths
<1> HIDE DEF a, b
<1>2. /\ changes.accepted <=> a
      /\ changes.refused <=> b
      /\ changes.pipelined <=> truth.pipelined
      /\ changes.leading <=> truth.leading
      /\ changes.skewed <=> truth.skewed
      /\ changes.lookalike <=> truth.lookalike
  BY <1>1 DEF DialogueInv, Truths
<1> HIDE DEF changes
<1> QED
  BY <1>1, <1>2 DEF Recorded, a, b

LEMMA SmtpSendCommand ==
    ASSUME DialogueInv, SmtpInv, protocol = "SMTP", SendCommand
    PROVE  SmtpGoal
<1>1. phase = "command" /\ phase' = phase /\ protocol' = protocol
  BY SendCommandFacts
<1>2. PICK how \in Treatments, l \in Lines, verb \in Commands[protocol] :
         /\ SentLine(l, verb, CommandTag)
         /\ queue' = Append(queue, [verb |-> verb, tag |-> CommandTag,
                                    heard |-> how = "clean" /\ Following])
         /\ Recorded([truth EXCEPT !.pipelined = @ \/ queue # << >>])
         /\ Conveyed(how, "client", l)
  BY SendCommandFacts
<1>3. /\ truth' \in Truths
      /\ truth'.accepted <=> truth.accepted
      /\ truth'.refused <=> truth.refused
      /\ truth'.pipelined <=> (truth.pipelined \/ queue # << >>)
      /\ truth.leading => truth'.leading
      /\ truth.skewed => truth'.skewed
      /\ truth'.lookalike <=> truth.lookalike
  BY <1>2, GroupFacts
<1> DEFINE e == Entry(verb, SmtpKind(verb), 0)
           r == P'
<1>4. /\ r \in Parsers
      /\ r.outcome = P.outcome /\ (RefusedIn(r) => RefusedIn(P))
      /\ Ended(P) => r = P
      /\ r.pending # P.pending /\ r.pending # << >> => r.pending \in {<<e>>, Append(P.pending, e)}
      /\ how = "clean" /\ hole = {} /\ ~Ended(P) =>
            /\ hole' = {}
            /\ r.body = IF verb = "." THEN "none" ELSE P.body
            /\ r.awaiting <=> (P.awaiting /\ P.body # "none")
            /\ IF P.body = "none" /\ ~P.awaiting /\ verb \notin {".", "text"}
                 THEN r.pending = Append(P.pending, e)
                 ELSE r.pending = P.pending
  BY <1>1, <1>2, SmtpClientStep
<1>5. verb \notin {".", "text"}
  BY <1>2 DEF Commands
<1>6. /\ faults' = 0 => how = "clean" /\ faults = 0
      /\ Trusted' => Trusted /\ queue = << >>
  BY <1>2, <1>3 DEF Conveyed, DialogueInv, Trusted, Paired, Truths
<1>7. Append(<< >>, e) = <<e>>
  OBVIOUS
<1>8. ASSUME queue = << >>
      PROVE  queue' # << >> /\ Head(queue').verb = verb
  <2>1. queue' = <<[verb |-> verb, tag |-> CommandTag, heard |-> how = "clean" /\ Following]>>
    BY <1>2, <1>8
  <2> QED
    BY <2>1
<1> HIDE DEF r, e
<1>9. Trusted' /\ ~Ended(r) => (Awaits(P, SmtpKind))' /\ (faults' = 0 => InStep(P)')
  <2> SUFFICES ASSUME Trusted', ~Ended(r)
               PROVE  (Awaits(P, SmtpKind))' /\ (faults' = 0 => InStep(P)')
    OBVIOUS
  <2>1. ~Ended(P) /\ Awaits(P, SmtpKind) /\ (faults = 0 => InStep(P)) /\ queue = << >>
    BY <1>4, <1>6 DEF SmtpInv
  <2>2. P.pending = << >>
    BY <2>1 DEF Awaits
  <2>3. r.pending \in {<< >>, <<e>>}
    BY <1>4, <1>7, <2>2
  <2>4. (Awaits(P, SmtpKind))'
    BY <1>8, <2>1, <2>3 DEF Awaits, r, e
  <2>5. faults' = 0 => InStep(P)'
    <3> SUFFICES ASSUME faults' = 0 PROVE InStep(P)'
      OBVIOUS
    <3>1. hole = {} /\ P.body = "none" /\ ~P.awaiting /\ how = "clean"
      BY <1>1, <1>6, <2>1 DEF InStep
    <3>2. r.pending = <<e>> /\ r.body = "none" /\ ~r.awaiting /\ hole' = {}
      BY <1>4, <1>5, <1>7, <2>1, <2>2, <3>1
    <3>3. r.pending # << >> /\ queue' # << >>
      BY <1>8, <2>1, <3>2
    <3> QED
      BY <1>1, <3>2, <3>3 DEF InStep, r
  <2> QED
    BY <2>4, <2>5
<1> QED
  BY <1>3, <1>4, <1>6, <1>9 DEF SmtpGoal, SmtpInv, AcceptedIn, r

LEMMA SmtpAnswer ==
    ASSUME DialogueInv, SmtpInv, protocol = "SMTP", Answer
    PROVE  SmtpGoal
<1> DEFINE c == Head(queue)
           yes(word) == AsksUpgrade(c) /\ word \in Positive
           no(word) == AsksUpgrade(c) /\ word \notin Positive
           r == P'
<1>1. phase = "command" /\ queue # << >> /\ queue' = Tail(queue) /\ protocol' = protocol
  BY AnswerFacts
<1>2. PICK how \in Treatments, l \in Lines, word \in Answers(c.verb) :
         /\ phase' = IF AsksUpgrade(c) /\ word \in Positive THEN "tls"
                     ELSE IF c.verb \in {"CAPA", "RETR"} /\ word = "+OK" THEN "content"
                     ELSE "command"
         /\ SentLine(l, word, c.tag) /\ ~l.more
         /\ Recorded([truth EXCEPT !.accepted = @ \/ yes(word), !.refused = @ \/ no(word)])
         /\ Conveyed(how, "server", l)
  BY AnswerFacts
<1>3. /\ truth' \in Truths
      /\ truth'.accepted <=> (truth.accepted \/ yes(word))
      /\ truth'.refused <=> (truth.refused \/ no(word))
      /\ truth'.pipelined <=> truth.pipelined
      /\ truth.leading => truth'.leading
      /\ truth.skewed => truth'.skewed
      /\ truth'.lookalike <=> truth.lookalike
  <2> DEFINE y == yes(word)
             n == no(word)
  <2>1. y \in BOOLEAN /\ n \in BOOLEAN
    OBVIOUS
  <2>2. Recorded([truth EXCEPT !.accepted = @ \/ y, !.refused = @ \/ n])
    BY <1>2
  <2> HIDE DEF y, n
  <2>3. /\ truth' \in Truths
        /\ truth'.accepted <=> (truth.accepted \/ y)
        /\ truth'.refused <=> (truth.refused \/ n)
        /\ truth'.pipelined <=> truth.pipelined
        /\ truth.leading => truth'.leading
        /\ truth.skewed => truth'.skewed
        /\ truth'.lookalike <=> truth.lookalike
    BY <2>1, <2>2, AnswerTruth
  <2> QED
    BY <2>3 DEF y, n
<1>4. /\ c.verb \in Commands["SMTP"]
      /\ AsksUpgrade(c) <=> c.verb = "STARTTLS"
  <2>1. c = queue[1] /\ 1 \in DOMAIN queue
    BY <1>1 DEF DialogueInv
  <2> QED
    BY <2>1 DEF DialogueInv, AsksUpgrade, UpgradeVerb
<1>5. /\ word \in SmtpCodes /\ l.word = word
      /\ c.verb = "STARTTLS" => word \in {"220", "454", "554"}
      /\ c.verb # "STARTTLS" => word # "220"
      /\ word # "354" /\ word # "334"
      /\ phase' \in {"command", "tls"}
  BY <1>2, <1>4 DEF Answers, Commands, SmtpCodes, SmtpGreetings, SentLine
<1>6. r \in Parsers
  BY <1>1, <1>2, SmtpServerStep
<1>7. /\ faults' = 0 => how = "clean" /\ faults = 0
      /\ Trusted' => Trusted /\ how = "clean"
  BY <1>1, <1>2, <1>3 DEF Conveyed, DialogueInv, Trusted, Paired, Truths
<1> HIDE DEF c, r, yes, no
<1>8. CASE Ended(P)
  <2>1. r = P
    BY <1>1, <1>2, <1>8, SmtpServerStep DEF r
  <2> QED
    BY <1>3, <1>6, <1>7, <1>8, <2>1 DEF SmtpGoal, SmtpInv, AcceptedIn, r
<1>9. CASE ~Ended(P) /\ how # "clean"
  <2>1. SameClaims(P, r)
    BY <1>1, <1>2, <1>9, SmtpServerStep DEF r, SameClaims
  <2> QED
    BY <1>3, <1>6, <1>7, <1>9, <2>1 DEF SmtpGoal, SmtpInv, AcceptedIn, SameClaims, r
<1>10. CASE ~Ended(P) /\ how = "clean"
  <2>1. PICK q : /\ AfterHole(P, "server" \in hole, q) /\ SmtpHears(q, l, r)
                 /\ hole' = hole \ {"server"}
    BY <1>1, <1>2, <1>10, SmtpServerStep DEF r
  <2>2. ~SmtpCalls(q, l.word)
    BY <1>5 DEF SmtpCalls
  <2>3. /\ q.pending = << >> => Keeps(q, r)
        /\ q.pending # << >> => SmtpAnswered(q, word, r)
    BY <1>2, <1>5, <2>1, <2>2 DEF SmtpHears
  <2>4. AcceptedIn(r) => truth'.accepted
    <3>1. AcceptedIn(r) => AcceptedIn(q) \/ word = "220"
      BY <1>5, <2>3 DEF SmtpAnswered, Keeps, SameClaims, AcceptedIn
    <3>2. AcceptedIn(q) => AcceptedIn(P)
      BY <2>1 DEF AfterHole, SameClaims, AcceptedIn
    <3>3. word = "220" => yes(word)
      BY <1>4, <1>5 DEF yes, Positive
    <3> QED
      BY <1>3, <3>1, <3>2, <3>3 DEF SmtpInv
  <2>5. ASSUME Trusted'
        PROVE  /\ RefusedIn(r) => truth'.refused
               /\ r.pending = << >> /\ r.body = P.body /\ (r.awaiting => P.awaiting)
    <3>1. Trusted /\ Awaits(P, SmtpKind)
      BY <1>7, <1>10, <2>5 DEF SmtpInv
    <3>2. /\ RefusedIn(q) <=> RefusedIn(P)
          /\ q.body = P.body /\ q.attempts = P.attempts
          /\ q.awaiting <=> P.awaiting
          /\ q.pending = << >> \/ q.pending = P.pending
      BY <2>1 DEF AfterHole, SameClaims, SameMode, RefusedIn
    <3>3. CASE q.pending = << >>
      <4>1. SameClaims(q, r) /\ SameMode(q, r) /\ r.pending = << >>
        BY <2>3, <3>3 DEF Keeps
      <4> QED
        BY <1>3, <3>1, <3>2, <4>1 DEF SmtpInv, SameClaims, SameMode, RefusedIn
    <3>4. CASE q.pending # << >>
      <4> DEFINE e == Entry(c.verb, SmtpKind(c.verb), 0)
      <4>1. q.pending = <<e>>
        BY <3>1, <3>2, <3>4 DEF Awaits, c
      <4>2. Head(q.pending) = e /\ Tail(q.pending) = << >>
        BY <4>1
      <4>3. /\ IsUpgrade(e) <=> c.verb = "STARTTLS"
        BY SmtpKindFacts DEF IsUpgrade, Entry
      <4> HIDE DEF e
      <4>4. SmtpAnswered(q, word, r)
        BY <2>3, <3>4
      <4>5. /\ r.pending = << >> /\ r.body = q.body /\ r.attempts = q.attempts
            /\ r.awaiting => q.awaiting
            /\ ~IsUpgrade(e) => r.outcome = q.outcome
        BY <4>2, <4>4 DEF SmtpAnswered
      <4>6. RefusedIn(r) => RefusedIn(q) \/ (c.verb = "STARTTLS" /\ word # "220")
        <5>1. CASE ~IsUpgrade(e)
          BY <4>5, <5>1 DEF RefusedIn
        <5>2. CASE IsUpgrade(e) /\ word = "220"
          <6>1. r.outcome = "ACCEPTED"
            BY <4>2, <4>4, <5>2 DEF SmtpAnswered
          <6> QED
            BY <4>5, <6>1 DEF RefusedIn
        <5> QED
          BY <4>3, <5>1, <5>2
      <4>7. c.verb = "STARTTLS" /\ word # "220" => no(word)
        BY <1>4, <1>5 DEF no, Positive
      <4> QED
        BY <1>3, <3>1, <3>2, <4>5, <4>6, <4>7 DEF SmtpInv
    <3> QED
      BY <3>3, <3>4
  <2>6. ASSUME Trusted', faults' = 0
        PROVE  InStep(P)'
    <3>1. InStep(P) /\ hole = {}
      BY <1>7, <1>10, <2>6 DEF SmtpInv, InStep
    <3>2. r.pending = << >> /\ r.body = "none" /\ ~r.awaiting /\ hole' = {}
      BY <1>1, <2>1, <2>5, <2>6, <3>1 DEF InStep
    <3>3. queue' = << >>
      <4>1. Len(queue) <= 1
        BY <1>7, <2>6 DEF DialogueInv, Trusted
      <4> QED
        BY <1>1, <4>1 DEF DialogueInv
    <3>4. phase' # "content" /\ phase' # "sasl"
      BY <1>5
    <3> QED
      BY <3>2, <3>3, <3>4 DEF InStep, r
  <2>7. Trusted' => (Awaits(P, SmtpKind))'
    BY <2>5 DEF Awaits, r
  <2> QED
    BY <1>6, <2>4, <2>5, <2>6, <2>7 DEF SmtpGoal, r
<1> QED
  BY <1>8, <1>9, <1>10

LEMMA SmtpInterim ==
    ASSUME DialogueInv, SmtpInv, protocol = "SMTP", Interim
    PROVE  SmtpGoal
<1> DEFINE c == Head(queue)
           r == P'
<1>1. /\ phase = "command" /\ queue # << >> /\ protocol' = protocol /\ queue' = queue
      /\ Recorded(truth)
  BY InterimFacts
<1>2. PICK how \in Treatments, l \in Lines, word \in {"250", "CAPABILITY", "354", "334", "+"} :
         /\ Awaited(c.verb, word, l.more)
         /\ phase' = CASE word = "354" -> "content"
                       [] word \in {"334", "+"} -> "sasl"
                       [] OTHER -> "command"
         /\ SentLine(l, word, 0)
         /\ Conveyed(how, "server", l)
  BY InterimFacts
<1>3. c.verb \in Commands["SMTP"]
  <2>1. c = queue[1] /\ 1 \in DOMAIN queue
    BY <1>1 DEF DialogueInv
  <2> QED
    BY <2>1 DEF DialogueInv
<1>4. /\ \/ c.verb = "EHLO" /\ word = "250" /\ l.more /\ phase' = "command"
         \/ c.verb = "DATA" /\ word = "354" /\ ~l.more /\ phase' = "content"
         \/ c.verb = "AUTH" /\ word = "334" /\ ~l.more /\ phase' = "sasl"
      /\ word \in SmtpCodes /\ l.word = word
  BY <1>2, <1>3 DEF Awaited, Commands, SmtpCodes, SmtpGreetings, SentLine
<1>5. r \in Parsers
  BY <1>1, <1>2, SmtpServerStep
<1>6. /\ faults' = 0 => how = "clean" /\ faults = 0
      /\ Trusted' => Trusted /\ how = "clean"
      /\ truth'.accepted <=> truth.accepted
      /\ truth'.refused <=> truth.refused
  BY <1>1, <1>2 DEF Conveyed, DialogueInv, Trusted, Paired, Truths, Recorded
<1> HIDE DEF c, r
<1>7. CASE Ended(P)
  <2>1. r = P
    BY <1>1, <1>2, <1>7, SmtpServerStep DEF r
  <2> QED
    BY <1>5, <1>6, <1>7, <2>1 DEF SmtpGoal, SmtpInv, AcceptedIn, r
<1>8. CASE ~Ended(P) /\ how # "clean"
  <2>1. SameClaims(P, r)
    BY <1>1, <1>2, <1>8, SmtpServerStep DEF r, SameClaims
  <2> QED
    BY <1>5, <1>6, <1>8, <2>1 DEF SmtpGoal, SmtpInv, AcceptedIn, SameClaims, r
<1>9. CASE ~Ended(P) /\ how = "clean"
  <2>1. PICK q : /\ AfterHole(P, "server" \in hole, q) /\ SmtpHears(q, l, r)
                 /\ hole' = hole \ {"server"}
    BY <1>1, <1>2, <1>9, SmtpServerStep DEF r
  <2>2. /\ q.outcome = P.outcome /\ q.attempts = P.attempts /\ q.body = P.body
        /\ q.awaiting <=> P.awaiting
        /\ q.pending = IF "server" \in hole THEN << >> ELSE P.pending
    BY <2>1 DEF AfterHole, SameClaims, SameMode
  <2>3. Keeps(q, r) \/ SmtpCalls(q, word) \/ SmtpAnswered(q, word, r)
    BY <1>4, <2>1 DEF SmtpHears
  <2>4. CASE l.more \/ q.pending = << >>
    <3>1. Keeps(q, r)
      BY <2>1, <2>4 DEF SmtpHears
    <3>2. /\ r.outcome = P.outcome /\ r.attempts = P.attempts /\ r.body = P.body
          /\ r.awaiting <=> P.awaiting
          /\ r.pending = q.pending
      BY <2>2, <3>1 DEF Keeps, SameClaims, SameMode
    <3>3. ASSUME Trusted'
          PROVE  (Awaits(P, SmtpKind))' /\ (faults' = 0 => InStep(P)')
      <4>1. Awaits(P, SmtpKind) /\ (faults = 0 => InStep(P))
        BY <1>6, <1>9, <3>3 DEF SmtpInv
      <4>2. (Awaits(P, SmtpKind))'
        BY <1>1, <2>2, <3>2, <4>1 DEF Awaits, r
      <4>3. ASSUME faults' = 0 PROVE InStep(P)'
        <5>1. InStep(P) /\ hole = {} /\ q.pending = P.pending /\ P.pending # << >>
          BY <1>1, <1>6, <2>2, <4>1, <4>3 DEF InStep
        <5>2. l.more /\ phase' = "command"
          BY <1>4, <2>4, <5>1
        <5> QED
          BY <1>1, <2>1, <3>2, <5>1, <5>2 DEF InStep, r
      <4> QED
        BY <4>2, <4>3
    <3> QED
      BY <1>5, <1>6, <3>2, <3>3 DEF SmtpGoal, SmtpInv, AcceptedIn, RefusedIn, r
  <2>5. CASE ~l.more /\ q.pending # << >>
    <3>1. CASE ~SmtpCalls(q, word)
      <4>1. SmtpAnswered(q, word, r)
        BY <1>4, <2>1, <2>5, <3>1 DEF SmtpHears
      <4>2. word \in {"354", "334"}
        BY <1>4, <2>5
      <4>3. r.outcome = P.outcome /\ r.attempts = P.attempts
        BY <2>2, <4>1, <4>2 DEF SmtpAnswered
      <4>4. ~Trusted'
        <5> SUFFICES ASSUME Trusted' PROVE FALSE
          OBVIOUS
        <5> DEFINE e == Entry(c.verb, SmtpKind(c.verb), 0)
        <5>1. q.pending = <<e>>
          BY <1>6, <1>9, <2>2, <2>5 DEF SmtpInv, Awaits, c
        <5>2. Head(q.pending) = e
          BY <5>1
        <5>3. e.verb = c.verb /\ (c.verb = "AUTH" => IsAuth(e))
          BY SmtpKindFacts DEF Entry, IsAuth
        <5> QED
          BY <1>4, <2>5, <3>1, <5>2, <5>3 DEF SmtpCalls
      <4> QED
        BY <1>5, <1>6, <4>3, <4>4 DEF SmtpGoal, SmtpInv, AcceptedIn, RefusedIn, r
    <3>2. CASE SmtpCalls(q, word)
      <4>1. /\ SameClaims(q, r) /\ r.pending = q.pending
            /\ Head(q.pending).verb = "DATA" /\ word = "354" =>
                  r.body = "DATA" /\ (r.awaiting <=> q.awaiting)
            /\ ~(Head(q.pending).verb = "DATA" /\ word = "354") =>
                  r.body = q.body /\ r.awaiting
        BY <1>4, <2>1, <2>5, <3>2 DEF SmtpHears
      <4>2. r.outcome = P.outcome /\ r.attempts = P.attempts /\ r.pending = P.pending
        BY <2>2, <2>5, <4>1 DEF SameClaims
      <4>3. ASSUME Trusted'
            PROVE  (Awaits(P, SmtpKind))' /\ (faults' = 0 => InStep(P)')
        <5>1. Awaits(P, SmtpKind) /\ (faults = 0 => InStep(P))
          BY <1>6, <1>9, <4>3 DEF SmtpInv
        <5>2. (Awaits(P, SmtpKind))'
          BY <1>1, <4>2, <5>1 DEF Awaits, r
        <5>3. Head(q.pending).verb = c.verb
          <6>1. q.pending = <<Entry(c.verb, SmtpKind(c.verb), 0)>>
            BY <2>2, <2>5, <5>1 DEF Awaits, c
          <6> QED
            BY <6>1 DEF Entry
        <5>4. ASSUME faults' = 0 PROVE InStep(P)'
          <6>1. InStep(P) /\ hole = {} /\ P.body = "none" /\ ~P.awaiting
            BY <1>1, <1>6, <5>1, <5>4 DEF InStep
          <6>2. hole' = {}
            BY <2>1, <6>1
          <6>3. CASE word = "354"
            <7>1. r.body = "DATA" /\ ~r.awaiting /\ phase' = "content"
              BY <1>4, <2>2, <4>1, <5>3, <6>1, <6>3
            <7> QED
              BY <1>1, <4>2, <6>1, <6>2, <7>1 DEF InStep, r
          <6>4. CASE word # "354"
            <7>1. r.body = "none" /\ r.awaiting /\ phase' = "sasl"
              BY <1>4, <2>2, <2>5, <4>1, <6>1, <6>4
            <7> QED
              BY <1>1, <4>2, <6>1, <6>2, <7>1 DEF InStep, r
          <6> QED
            BY <6>3, <6>4
        <5> QED
          BY <5>2, <5>4
      <4> QED
        BY <1>5, <1>6, <4>2, <4>3 DEF SmtpGoal, SmtpInv, AcceptedIn, RefusedIn, r
    <3> QED
      BY <3>1, <3>2
  <2> QED
    BY <2>4, <2>5
<1> QED
  BY <1>7, <1>8, <1>9

LEMMA SmtpStep ==
    ASSUME DialogueInv, SmtpInv, protocol = "SMTP", Next
    PROVE  SmtpGoal
  BY SmtpGreet, SmtpSaslResponse, SmtpContent, SmtpSendCommand, SmtpAnswer, SmtpInterim DEF Next

-----------------------------------------------------------------------------
(* The POP3 parser.                                                         *)
LEMMA Pop3KindFacts ==
    ASSUME NEW verb
    PROVE  /\ Pop3Kind(verb) \in {"upgrade", "auth", "other"}
           /\ (Pop3Kind(verb) = "upgrade") <=> (verb = "STLS")
<1>1. CASE verb = "STLS"
  BY <1>1 DEF Pop3Kind
<1>2. CASE verb \in {"USER", "AUTH"}
  BY <1>2 DEF Pop3Kind
<1>3. CASE verb \notin {"STLS", "USER", "AUTH"}
  BY <1>3 DEF Pop3Kind
<1> QED
  BY <1>1, <1>2, <1>3

LEMMA Pop3ClientFacts ==
    ASSUME NEW p \in Parsers, NEW l \in Lines, NEW r, r = Pop3ClientLine(p, l)
    PROVE  /\ r \in Parsers /\ SameMode(p, r)
           /\ r.outcome = p.outcome
           /\ RefusedIn(r) => RefusedIn(p)
           /\ \/ r.pending = p.pending
              \/ /\ l.usable /\ Pop3Verb(l) = l.word
                 /\ r.pending = Append(p.pending, Entry(l.word, Pop3Kind(l.word), 0))
<1>1. CASE ~l.usable \/ Pop3Verb(l) = NoVerb
  <2>1. r = Unusable(p) \/ r = Foreign(p)
    BY <1>1 DEF Pop3ClientLine
  <2>2. Keeps(p, r)
    BY <2>1, UnusableFacts, ForeignFacts
  <2> QED
    BY <2>2 DEF Keeps, SameClaims, RefusedIn
<1>2. CASE l.usable /\ Pop3Verb(l) # NoVerb
  <2>1. Pop3Verb(l) = l.word /\ l.word \in Words
    BY <1>2 DEF Pop3Verb, Lines
  <2>2. r = Command(p, l.word, Pop3Kind(l.word), 0)
    BY <1>2, <2>1 DEF Pop3ClientLine
  <2>3. /\ r \in Parsers /\ SameMode(p, r)
        /\ r.outcome = p.outcome /\ (RefusedIn(r) => RefusedIn(p))
        /\ r.pending = Append(p.pending, Entry(l.word, Pop3Kind(l.word), 0))
    <3> DEFINE v == l.word
               k == Pop3Kind(v)
    <3>1. 0 \in Nat /\ k \in {"upgrade", "auth", "other"}
      BY Pop3KindFacts
    <3>2. v \in Words /\ r = Command(p, v, k, 0)
      BY <2>1, <2>2
    <3> HIDE DEF v, k
    <3>3. /\ r \in Parsers /\ SameMode(p, r)
          /\ r.outcome = p.outcome /\ (RefusedIn(r) => RefusedIn(p))
          /\ r.pending = Append(p.pending, Entry(v, k, 0))
      BY <3>1, <3>2, CommandFacts
    <3> QED
      BY <3>3 DEF v, k
  <2> QED
    BY <1>2, <2>1, <2>3
<1> QED
  BY <1>1, <1>2

LEMMA MultilineFacts ==
    ASSUME NEW p \in Parsers, NEW l \in Lines, NEW r, r = MultilineLine(p, l)
    PROVE  /\ r \in Parsers /\ SameClaims(p, r) /\ r.pending = p.pending
           /\ r.body = IF EndsBody(l) THEN "none" ELSE p.body
<1>1. CASE EndsBody(l)
  <2> DEFINE a == [p EXCEPT !.body = "none", !.bodyLines = 0]
             b == AddEvent(a)
             q == [b EXCEPT !.reply = << >>]
  <2>1. "none" \in Bodies /\ 0 \in Nat /\ << >> \in Seq(BOOLEAN)
    BY DEF Bodies
  <2>2. ASSUME NEW x \in Bodies, NEW n \in Nat
        PROVE  /\ [p EXCEPT !.body = x, !.bodyLines = n] \in Parsers
               /\ SameClaims(p, [p EXCEPT !.body = x, !.bodyLines = n])
               /\ [p EXCEPT !.body = x, !.bodyLines = n].pending = p.pending
               /\ [p EXCEPT !.body = x, !.bodyLines = n].body = x
    BY <2>2 DEF Parsers, SameClaims
  <2>3. a \in Parsers /\ SameClaims(p, a) /\ a.pending = p.pending /\ a.body = "none"
    BY <2>1, <2>2
  <2>4. r \in {q, Advertise(q)}
    BY <1>1 DEF MultilineLine, RecordCapa, EndsBody
  <2> HIDE DEF a
  <2>5. Keeps(a, b)
    BY <2>3, AddEventFacts
  <2> HIDE DEF b
  <2>6. ASSUME NEW s \in Seq(BOOLEAN) PROVE Keeps(b, [b EXCEPT !.reply = s])
    BY <2>5, <2>6 DEF Parsers, Keeps, SameMode, SameClaims
  <2>7. Keeps(b, q)
    BY <2>1, <2>6
  <2> HIDE DEF q
  <2>8. Keeps(q, Advertise(q))
    BY <2>7, AdvertiseFacts DEF Keeps
  <2>9. Keeps(a, r)
    BY <2>4, <2>5, <2>7, <2>8, KeepsTransitive
  <2> QED
    BY <1>1, <2>3, <2>9 DEF Keeps, SameMode, SameClaims
<1>2. CASE ~EndsBody(l) /\ p.body = "CAPA"
  <2> DEFINE s == Append(p.reply, l.offers)
  <2>1. r = [p EXCEPT !.reply = s] /\ s \in Seq(BOOLEAN)
    BY <1>2 DEF MultilineLine, EndsBody, Parsers, Lines
  <2> HIDE DEF s
  <2> QED
    BY <1>2, <2>1 DEF Parsers, SameClaims
<1>3. CASE ~EndsBody(l) /\ p.body # "CAPA"
  <2> DEFINE n == p.bodyLines + 1
             s == p.bodyLines >= MaxBody
  <2>1. r = [p EXCEPT !.bodyLines = n, !.stopped = s] /\ n \in Nat /\ s \in BOOLEAN
    BY <1>3 DEF MultilineLine, EndsBody, Parsers
  <2> HIDE DEF n, s
  <2> QED
    BY <1>3, <2>1 DEF Parsers, SameClaims
<1> QED
  BY <1>1, <1>2, <1>3

(* A final answer to an outstanding command.                                *)
Statuses == {"+OK", "-ERR"}

Pop3Answered(p, status, r) ==
    LET c == Head(p.pending)
    IN  /\ r.pending = Tail(p.pending) /\ r.attempts = p.attempts
        /\ IsUpgrade(c) =>
              /\ r.body = p.body
              /\ r.outcome = IF status = "+OK" THEN "ACCEPTED" ELSE "REJECTED"
        /\ ~IsUpgrade(c) =>
              /\ r.outcome = p.outcome
              /\ r.body = IF status = "+OK" /\ c.verb \in {"CAPA", "RETR"}
                            THEN c.verb ELSE p.body

LEMMA Pop3StatusFacts ==
    ASSUME NEW p \in Parsers, NEW status \in Statuses, NEW r, r = Pop3Status(p, status)
    PROVE  /\ r \in Parsers
           /\ p.pending = << >> => Keeps(p, r)
           /\ p.pending # << >> => Pop3Answered(p, status, r)
<1>1. CASE p.pending = << >>
  <2> DEFINE a == AddEvent(p)
             g == a.greeting \/ (p.recognised = 0 /\ status = "+OK")
  <2>1. Keeps(p, a)
    BY AddEventFacts
  <2>2. r = [a EXCEPT !.greeting = g] /\ g \in BOOLEAN
    BY <1>1, <2>1 DEF Pop3Status, Pop3Unmatched, Keeps
  <2> HIDE DEF a, g
  <2>3. Keeps(a, r)
    BY <2>1, <2>2 DEF Parsers, Keeps, SameMode, SameClaims
  <2>4. Keeps(p, r)
    BY <2>1, <2>3, KeepsTransitive
  <2> QED
    BY <1>1, <2>4 DEF Keeps
<1>2. CASE p.pending # << >>
  <2> DEFINE c == Head(p.pending)
             n == p.matched + 1
             rest == Tail(p.pending)
             q == [p EXCEPT !.pending = rest, !.matched = n]
  <2>1. /\ c \in Entries /\ rest \in Seq(Entries) /\ n \in Nat
    BY <1>2 DEF Parsers
  <2>2. r = IF IsUpgrade(c) THEN Pop3Resolve(q, status)
            ELSE IF status = "+OK" /\ c.verb \in {"CAPA", "RETR"}
              THEN [q EXCEPT !.body = c.verb, !.bodyLines = 0]
            ELSE IF IsAuth(c) THEN [AddEvent(q) EXCEPT !.awaiting = FALSE]
            ELSE AddEvent(q)
    BY <1>2 DEF Pop3Status, Pop3FinishAuth
  <2> HIDE DEF n, rest
  <2>3. /\ q \in Parsers /\ SameClaims(p, q) /\ SameMode(p, q) /\ q.pending = rest
    BY <2>1 DEF Parsers, SameClaims, SameMode
  <2> HIDE DEF c, q
  <2>4. SUFFICES r \in Parsers /\ Pop3Answered(p, status, r)
    BY <1>2
  <2>5. CASE IsUpgrade(c)
    <3> DEFINE o == IF status = "+OK" THEN "ACCEPTED" ELSE "REJECTED"
    <3>1. r = Resolve(q, o) /\ o \in Outcomes \ {"none"}
      BY <2>2, <2>5 DEF Pop3Resolve, Outcomes
    <3> HIDE DEF o
    <3>2. /\ r \in Parsers /\ r.outcome = o /\ r.attempts = q.attempts
          /\ r.pending = q.pending /\ r.body = q.body
      BY <2>3, <3>1, ResolveFacts
    <3> QED
      BY <2>3, <2>5, <3>2 DEF Pop3Answered, SameMode, SameClaims, c, rest, o
  <2>6. CASE ~IsUpgrade(c) /\ status = "+OK" /\ c.verb \in {"CAPA", "RETR"}
    <3>1. r = [q EXCEPT !.body = c.verb, !.bodyLines = 0]
      BY <2>2, <2>6
    <3>3. c.verb \in Bodies /\ 0 \in Nat
      BY <2>6 DEF Bodies
    <3>4. r \in Parsers /\ SameClaims(q, r) /\ r.pending = q.pending /\ r.body = c.verb
      <4> DEFINE x == c.verb
                 k == 0
      <4>1. x \in Bodies /\ k \in Nat /\ r = [q EXCEPT !.body = x, !.bodyLines = k]
        BY <3>1, <3>3
      <4> HIDE DEF x, k
      <4>2. r \in Parsers /\ SameClaims(q, r) /\ r.pending = q.pending /\ r.body = x
        BY <2>3, <4>1 DEF Parsers, SameClaims
      <4> QED
        BY <4>2 DEF x
    <3> QED
      BY <2>3, <2>6, <3>4 DEF Pop3Answered, SameClaims, c, rest
  <2>7. CASE ~IsUpgrade(c) /\ ~(status = "+OK" /\ c.verb \in {"CAPA", "RETR"}) /\ IsAuth(c)
    <3>1. r = [AddEvent(q) EXCEPT !.awaiting = FALSE]
      BY <2>2, <2>7
    <3> QED
      BY <2>3, <2>7, <3>1, ContinuationFacts
         DEF Pop3Answered, SameMode, SameClaims, c, rest
  <2>8. CASE ~IsUpgrade(c) /\ ~(status = "+OK" /\ c.verb \in {"CAPA", "RETR"}) /\ ~IsAuth(c)
    <3>1. Keeps(q, r)
      BY <2>2, <2>3, <2>8, AddEventFacts
    <3> QED
      BY <2>3, <2>8, <3>1 DEF Pop3Answered, SameMode, SameClaims, Keeps, c, rest
  <2> QED
    BY <2>5, <2>6, <2>7, <2>8
<1> QED
  BY <1>1, <1>2

LEMMA Pop3ServerFacts ==
    ASSUME NEW p \in Parsers, NEW l \in Lines, NEW r, r = Pop3ServerLine(p, l)
    PROVE  /\ r \in Parsers
           /\ p.body # "none" =>
                 /\ SameClaims(p, r) /\ r.pending = p.pending
                 /\ r.body = IF EndsBody(l) THEN "none" ELSE p.body
           /\ p.body = "none" /\ (~l.usable \/ l.word \notin Statuses \/ p.pending = << >>) =>
                 Keeps(p, r)
           /\ p.body = "none" /\ l.usable /\ l.word \in Statuses /\ p.pending # << >> =>
                 Pop3Answered(p, l.word, r)
<1>1. CASE p.body # "none"
  <2>1. r = MultilineLine(p, l)
    BY <1>1 DEF Pop3ServerLine
  <2> QED
    BY <1>1, <2>1, MultilineFacts
<1>2. CASE p.body = "none" /\ (~l.usable \/ l.word \notin Statuses)
  <2>1. r = Unusable(p) \/ r = Foreign(p)
    BY <1>2 DEF Pop3ServerLine, Statuses
  <2>2. Keeps(p, r)
    BY <2>1, UnusableFacts, ForeignFacts
  <2> QED
    BY <1>2, <2>2 DEF Keeps
<1>3. CASE p.body = "none" /\ l.usable /\ l.word \in Statuses
  <2>1. r = Pop3Status(p, l.word)
    BY <1>3 DEF Pop3ServerLine, Statuses
  <2> QED
    BY <1>3, <2>1, Pop3StatusFacts
<1> QED
  BY <1>1, <1>2, <1>3

(* A hole ends a multiline response as well.                                *)
AfterPop3Hole(p, gap, q) ==
    /\ q \in Parsers /\ SameClaims(p, q)
    /\ q.pending = IF gap THEN << >> ELSE p.pending
    /\ q.body = IF gap THEN "none" ELSE p.body

LEMMA AbandonFacts ==
    ASSUME NEW p \in Parsers
    PROVE  /\ AbandonMultiline(p) \in Parsers /\ SameClaims(p, AbandonMultiline(p))
           /\ AbandonMultiline(p).pending = p.pending
           /\ AbandonMultiline(p).body = "none"
<1>1. CASE p.body = "none"
  BY <1>1 DEF AbandonMultiline, SameClaims
<1>2. CASE p.body # "none"
  <2> DEFINE a == AddEvent(p)
  <2>1. AbandonMultiline(p) = [a EXCEPT !.body = "none", !.reply = << >>]
    BY <1>2 DEF AbandonMultiline
  <2>2. Keeps(p, a)
    BY AddEventFacts
  <2> HIDE DEF a
  <2>4. "none" \in Bodies /\ << >> \in Seq(BOOLEAN)
    BY DEF Bodies
  <2>5. /\ AbandonMultiline(p) \in Parsers /\ SameClaims(a, AbandonMultiline(p))
        /\ AbandonMultiline(p).pending = a.pending
        /\ AbandonMultiline(p).body = "none"
    <3> DEFINE x == "none"
               s == << >>
    <3>1. x \in Bodies /\ s \in Seq(BOOLEAN) /\ x = "none"
      BY <2>4
    <3>2. AbandonMultiline(p) = [a EXCEPT !.body = x, !.reply = s]
      BY <2>1
    <3> DEFINE r == AbandonMultiline(p)
    <3> HIDE DEF x, s, r
    <3>3. r = [a EXCEPT !.body = x, !.reply = s]
      BY <3>2 DEF r
    <3>4. r \in Parsers /\ SameClaims(a, r) /\ r.pending = a.pending /\ r.body = x
      BY <2>2, <3>1, <3>3 DEF Parsers, Keeps, SameClaims
    <3> QED
      BY <3>1, <3>4 DEF r
  <2> QED
    BY <2>2, <2>5 DEF Keeps, SameClaims
<1> QED
  BY <1>1, <1>2

LEMMA Pop3ParseFacts ==
    ASSUME NEW p \in Parsers, NEW m \in Lines
    PROVE  /\ Ended(p) => Pop3Parse(p, m, TRUE) = p /\ Pop3Parse(p, m, FALSE) = p
           /\ ~Ended(p) => \E q : /\ AfterPop3Hole(p, m.gap, q)
                                  /\ Pop3Parse(p, m, TRUE) = Pop3ClientLine(q, m)
                                  /\ Pop3Parse(p, m, FALSE) = Pop3ServerLine(q, m)
<1> DEFINE q == IF m.gap THEN AbandonMultiline(NoteGap(p)) ELSE p
<1>1. AfterPop3Hole(p, m.gap, q)
  <2>1. CASE m.gap
    <3> DEFINE g == NoteGap(p)
    <3>1. g \in Parsers /\ SameClaims(p, g) /\ g.pending = << >>
      BY NoteGapFacts
    <3>2. q = AbandonMultiline(g)
      BY <2>1
    <3> HIDE DEF g, q
    <3> QED
      BY <2>1, <3>1, <3>2, AbandonFacts DEF AfterPop3Hole, SameClaims
  <2>2. CASE ~m.gap
    BY <2>2 DEF AfterPop3Hole, SameClaims
  <2> QED
    BY <2>1, <2>2
<1>2. /\ Ended(p) => Pop3Parse(p, m, TRUE) = p /\ Pop3Parse(p, m, FALSE) = p
      /\ ~Ended(p) => Pop3Parse(p, m, TRUE) = Pop3ClientLine(q, m)
      /\ ~Ended(p) => Pop3Parse(p, m, FALSE) = Pop3ServerLine(q, m)
  BY DEF Pop3Parse, Ended
<1> HIDE DEF q
<1> QED
  BY <1>1, <1>2

LEMMA Pop3ClientStep ==
    ASSUME DialogueInv, protocol = "POP3", protocol' = protocol,
           NEW how \in Treatments, NEW l \in Lines, NEW word, NEW tag,
           SentLine(l, word, tag), Conveyed(how, "client", l)
    PROVE  /\ P' \in Parsers
           /\ P'.outcome = P.outcome /\ (RefusedIn(P') => RefusedIn(P))
           /\ Ended(P) => P' = P
           /\ P'.body \in {"none", P.body}
           /\ P'.pending \in {<< >>, P.pending, <<Entry(word, Pop3Kind(word), 0)>>,
                              Append(P.pending, Entry(word, Pop3Kind(word), 0))}
           /\ truth'.leading \/ ("server" \in hole => "server" \in hole')
<1> USE DEF DialogueInv
<1>1. CASE how = "missed"
  <2>1. P' = P /\ (truth'.leading \/ hole' = hole \cup {"client"})
    BY <1>1 DEF Conveyed
  <2> QED
    BY <1>1, <2>1
<1>2. CASE how # "missed"
  <2>1. PICK m \in Lines : Heard(how, "client", l, m)
    BY <1>2 DEF Conveyed
  <2>2. P' = Pop3Parse(P, m, TRUE)
    BY <2>1 DEF Heard, Parse
  <2>3. "server" \in hole => "server" \in hole'
    BY <2>1 DEF Heard
  <2>4. CASE Ended(P)
    <3>1. P' = P
      BY <2>2, <2>4, Pop3ParseFacts
    <3> QED
      BY <2>3, <2>4, <3>1
  <2>5. CASE ~Ended(P)
    <3>1. PICK q : AfterPop3Hole(P, m.gap, q) /\ P' = Pop3ClientLine(q, m)
      BY <2>2, <2>5, Pop3ParseFacts
    <3> DEFINE r == P'
    <3>2. /\ r \in Parsers /\ SameMode(q, r)
          /\ r.outcome = q.outcome
          /\ RefusedIn(r) => RefusedIn(q)
          /\ \/ r.pending = q.pending
             \/ r.pending = Append(q.pending, Entry(m.word, Pop3Kind(m.word), 0))
      BY <3>1, Pop3ClientFacts DEF AfterPop3Hole
    <3>3. m.word = word
      BY <2>1 DEF Heard, SentLine
    <3> HIDE DEF r
    <3>4. /\ q.pending \in {<< >>, P.pending} /\ q.body \in {"none", P.body}
          /\ q.outcome = P.outcome /\ (RefusedIn(q) => RefusedIn(P))
      BY <3>1 DEF AfterPop3Hole, SameClaims, RefusedIn
    <3>5. Append(<< >>, Entry(word, Pop3Kind(word), 0)) = <<Entry(word, Pop3Kind(word), 0)>>
      OBVIOUS
    <3>6. r.body = q.body
      BY <3>2 DEF SameMode
    <3> QED
      BY <2>3, <2>5, <3>2, <3>3, <3>4, <3>5, <3>6 DEF r
  <2> QED
    BY <2>4, <2>5
<1> QED
  BY <1>1, <1>2

(* A captured server line belongs to a multiline response, or is a final    *)
(* answer, or answers nothing that the parser knows of.                     *)
LEMMA Pop3ServerStep ==
    ASSUME DialogueInv, protocol = "POP3", protocol' = protocol,
           NEW how \in Treatments, NEW l \in Lines, NEW word, NEW tag,
           SentLine(l, word, tag), Conveyed(how, "server", l)
    PROVE  /\ P' \in Parsers
           /\ Ended(P) \/ how = "missed" => P' = P
           /\ how = "missed" => truth'.leading \/ "server" \in hole'
           /\ ~Ended(P) /\ how # "missed" =>
                \E q : /\ AfterPop3Hole(P, "server" \in hole, q)
                       /\ q.body # "none" =>
                             /\ SameClaims(q, P') /\ P'.pending = q.pending
                             /\ word = "." => P'.body = "none" \/ "server" \in hole'
                       /\ q.body = "none"
                            /\ (how # "clean" \/ word \notin Statuses \/ q.pending = << >>) =>
                             Keeps(q, P')
                       /\ q.body = "none" /\ how = "clean" /\ word \in Statuses
                            /\ q.pending # << >> =>
                             Pop3Answered(q, word, P')
<1> USE DEF DialogueInv
<1>1. CASE how = "missed"
  <2>1. P' = P /\ (truth'.leading \/ hole' = hole \cup {"server"})
    BY <1>1 DEF Conveyed
  <2> QED
    BY <1>1, <2>1
<1>2. CASE how # "missed"
  <2>1. PICK m \in Lines : Heard(how, "server", l, m)
    BY <1>2 DEF Conveyed
  <2>2. P' = Pop3Parse(P, m, FALSE)
    BY <2>1 DEF Heard, Parse
  <2>3. CASE Ended(P)
    <3>1. P' = P
      BY <2>2, <2>3, Pop3ParseFacts
    <3> QED
      BY <1>2, <2>3, <3>1
  <2>4. CASE ~Ended(P)
    <3>1. PICK q : AfterPop3Hole(P, m.gap, q) /\ P' = Pop3ServerLine(q, m)
      BY <2>2, <2>4, Pop3ParseFacts
    <3> DEFINE r == P'
    <3>2. /\ r \in Parsers
          /\ q.body # "none" =>
                /\ SameClaims(q, r) /\ r.pending = q.pending
                /\ r.body = IF EndsBody(m) THEN "none" ELSE q.body
          /\ q.body = "none" /\ (~m.usable \/ m.word \notin Statuses \/ q.pending = << >>) =>
                Keeps(q, r)
          /\ q.body = "none" /\ m.usable /\ m.word \in Statuses /\ q.pending # << >> =>
                Pop3Answered(q, m.word, r)
      BY <3>1, Pop3ServerFacts DEF AfterPop3Hole
    <3>3. /\ m.word = word
          /\ m.gap <=> ("server" \in hole)
          /\ m.usable <=> (how = "clean")
          /\ m.complete \/ "server" \in hole'
      BY <2>1 DEF Heard, SentLine
    <3> HIDE DEF r
    <3>4. AfterPop3Hole(P, "server" \in hole, q)
      BY <3>1, <3>3 DEF AfterPop3Hole
    <3>5. q.body # "none" /\ word = "." => r.body = "none" \/ "server" \in hole'
      BY <3>2, <3>3 DEF EndsBody
    <3> QED
      BY <1>2, <2>4, <3>2, <3>3, <3>4, <3>5 DEF r
  <2> QED
    BY <2>3, <2>4
<1> QED
  BY <1>1, <1>2

-----------------------------------------------------------------------------
(* The POP3 parser and the dialogue it follows.  While answers pair with    *)
(* commands, a multiline response that has ended leaves the parser waiting  *)
(* for its "." only if a hole stands before the next line of the server.    *)
Pop3Inv ==
    protocol = "POP3" =>
      /\ phase # "sasl"
      /\ Paired =>
           /\ AcceptedIn(P) => truth.accepted
           /\ RefusedIn(P) => truth.refused
           /\ phase = "content" => queue = << >>
           /\ ~Ended(P) =>
                /\ Awaits(P, Pop3Kind)
                /\ P.body # "none" => phase = "content" \/ "server" \in hole

Pop3Goal ==
    /\ P' \in Parsers
    /\ phase' # "sasl"
    /\ Paired' =>
         /\ AcceptedIn(P') => truth'.accepted
         /\ RefusedIn(P') => truth'.refused
         /\ phase' = "content" => queue' = << >>
         /\ ~Ended(P') =>
              /\ (Awaits(P, Pop3Kind))'
              /\ P'.body # "none" => phase' = "content" \/ "server" \in hole'

LEMMA Pop3Greet ==
    ASSUME DialogueInv, Pop3Inv, protocol = "POP3", Greet
    PROVE  Pop3Goal
<1>1. /\ phase = "greeting" /\ phase' = "command" /\ protocol' = protocol /\ queue' = queue
      /\ Recorded(truth)
  BY GreetFacts
<1>2. PICK how \in Treatments, l \in Lines, word \in {"220", "554", "+OK", "-ERR", "OK"} :
         SentLine(l, word, 0) /\ Conveyed(how, "server", l)
  BY GreetFacts
<1>3. /\ queue = << >> /\ hole = {} /\ P.pending = << >> /\ P.body = "none"
      /\ ~Ended(P) /\ ~AcceptedIn(P) /\ ~RefusedIn(P)
  BY <1>1, NewParserInStep
<1> DEFINE r == P'
<1>4. r \in Parsers
  BY <1>1, <1>2, Pop3ServerStep
<1>5. SameClaims(P, r) /\ r.pending = << >> /\ r.body = "none"
  <2>1. CASE how = "missed"
    BY <1>1, <1>2, <1>3, <2>1 DEF Conveyed, SameClaims
  <2>2. CASE how # "missed"
    <3>1. PICK q : /\ AfterPop3Hole(P, "server" \in hole, q)
                   /\ q.body = "none"
                        /\ (how # "clean" \/ word \notin Statuses \/ q.pending = << >>) =>
                         Keeps(q, r)
      BY <1>1, <1>2, <1>3, <2>2, Pop3ServerStep
    <3>2. q.pending = << >> /\ q.body = "none" /\ SameClaims(P, q)
      BY <1>3, <3>1 DEF AfterPop3Hole
    <3>3. Keeps(q, r)
      BY <3>1, <3>2
    <3> QED
      BY <3>2, <3>3 DEF Keeps, SameClaims, SameMode
  <2> QED
    BY <2>1, <2>2
<1> QED
  BY <1>1, <1>3, <1>4, <1>5 DEF Pop3Goal, Awaits, SameClaims, AcceptedIn, RefusedIn

LEMMA Pop3Content ==
    ASSUME DialogueInv, Pop3Inv, protocol = "POP3", Content
    PROVE  Pop3Goal
<1>1. phase = "content" /\ protocol' = protocol /\ queue' = queue
  BY ContentFacts
<1>2. PICK how \in Treatments, l \in Lines, word \in Contents :
         /\ phase' = IF word = "." THEN "command" ELSE "content"
         /\ Recorded([truth EXCEPT !.lookalike = @ \/ word \in {"STARTTLS", "250"}])
         /\ SentLine(l, word, 0)
         /\ Conveyed(how, "server", l)
  BY ContentFacts DEF Author
<1>3. /\ truth'.accepted <=> truth.accepted
      /\ truth'.refused <=> truth.refused
      /\ Paired' => Paired /\ ~truth'.leading
  BY <1>2, ContentTruth DEF Paired
<1> DEFINE r == P'
<1>4. r \in Parsers
  BY <1>1, <1>2, Pop3ServerStep
<1>5. CASE Ended(P)
  <2>1. r = P
    BY <1>1, <1>2, <1>5, Pop3ServerStep
  <2> HIDE DEF r
  <2> QED
    BY <1>1, <1>2, <1>3, <1>4, <1>5, <2>1 DEF Pop3Goal, Pop3Inv, AcceptedIn, r
<1>6. CASE ~Ended(P) /\ how = "missed"
  <2>1. r = P /\ (truth'.leading \/ "server" \in hole')
    BY <1>1, <1>2, <1>6, Pop3ServerStep
  <2> HIDE DEF r
  <2> QED
    BY <1>1, <1>2, <1>3, <1>4, <1>6, <2>1 DEF Pop3Goal, Pop3Inv, AcceptedIn, Awaits, r
<1>7. CASE ~Ended(P) /\ how # "missed"
  <2>1. word \notin Statuses
    BY DEF Contents, Statuses
  <2>2. PICK q : /\ AfterPop3Hole(P, "server" \in hole, q)
                 /\ q.body # "none" =>
                       /\ SameClaims(q, r) /\ r.pending = q.pending
                       /\ word = "." => r.body = "none" \/ "server" \in hole'
                 /\ q.body = "none"
                      /\ (how # "clean" \/ word \notin Statuses \/ q.pending = << >>) =>
                       Keeps(q, r)
    BY <1>1, <1>2, <1>7, Pop3ServerStep
  <2> HIDE DEF r
  <2>3. /\ SameClaims(q, r) /\ r.pending = q.pending
        /\ word = "." => r.body = "none" \/ "server" \in hole'
    BY <2>1, <2>2 DEF Keeps, SameMode
  <2>4. SameClaims(P, r) /\ r.pending \in {<< >>, P.pending}
    BY <2>2, <2>3 DEF AfterPop3Hole, SameClaims
  <2> QED
    BY <1>1, <1>2, <1>3, <1>4, <1>7, <2>3, <2>4
       DEF Pop3Goal, Pop3Inv, AcceptedIn, RefusedIn, SameClaims, Awaits, r
<1> QED
  BY <1>5, <1>6, <1>7

LEMMA Pop3SendCommand ==
    ASSUME DialogueInv, Pop3Inv, protocol = "POP3", SendCommand
    PROVE  Pop3Goal
<1>1. phase = "command" /\ phase' = phase /\ protocol' = protocol
  BY SendCommandFacts
<1>2. PICK how \in Treatments, l \in Lines, verb \in Commands[protocol] :
         /\ SentLine(l, verb, CommandTag)
         /\ queue' = Append(queue, [verb |-> verb, tag |-> CommandTag,
                                    heard |-> how = "clean" /\ Following])
         /\ Recorded([truth EXCEPT !.pipelined = @ \/ queue # << >>])
         /\ Conveyed(how, "client", l)
  BY SendCommandFacts
<1>3. /\ truth'.accepted <=> truth.accepted
      /\ truth'.refused <=> truth.refused
      /\ Paired' => Paired /\ queue = << >> /\ ~truth'.leading
  BY <1>2, GroupFacts DEF Paired
<1> DEFINE e == Entry(verb, Pop3Kind(verb), 0)
           r == P'
<1>4. /\ r \in Parsers
      /\ r.outcome = P.outcome /\ (RefusedIn(r) => RefusedIn(P))
      /\ Ended(P) => r = P
      /\ r.body \in {"none", P.body}
      /\ r.pending \in {<< >>, P.pending, <<e>>, Append(P.pending, e)}
      /\ truth'.leading \/ ("server" \in hole => "server" \in hole')
  BY <1>1, <1>2, Pop3ClientStep
<1>5. ASSUME queue = << >>
      PROVE  queue' # << >> /\ Head(queue').verb = verb
  <2>1. queue' = <<[verb |-> verb, tag |-> CommandTag, heard |-> how = "clean" /\ Following]>>
    BY <1>2, <1>5
  <2> QED
    BY <2>1
<1>6. Append(<< >>, e) = <<e>>
  OBVIOUS
<1> HIDE DEF r, e
<1>7. ASSUME Paired', ~Ended(r)
      PROVE  /\ (Awaits(P, Pop3Kind))'
             /\ r.body # "none" => phase' = "content" \/ "server" \in hole'
  <2>1. /\ ~Ended(P) /\ Awaits(P, Pop3Kind) /\ queue = << >>
        /\ P.body # "none" => phase = "content" \/ "server" \in hole
    BY <1>3, <1>4, <1>7 DEF Pop3Inv
  <2>2. r.pending \in {<< >>, <<e>>}
    BY <1>4, <1>6, <2>1 DEF Awaits
  <2>3. (Awaits(P, Pop3Kind))'
    BY <1>5, <2>1, <2>2 DEF Awaits, r, e
  <2> QED
    BY <1>1, <1>3, <1>4, <1>7, <2>1, <2>3
<1> QED
  BY <1>1, <1>3, <1>4, <1>7 DEF Pop3Goal, Pop3Inv, AcceptedIn, r

LEMMA Pop3Answer ==
    ASSUME DialogueInv, Pop3Inv, protocol = "POP3", Answer
    PROVE  Pop3Goal
<1> DEFINE c == Head(queue)
           yes(word) == AsksUpgrade(c) /\ word \in Positive
           no(word) == AsksUpgrade(c) /\ word \notin Positive
           r == P'
<1>1. phase = "command" /\ queue # << >> /\ queue' = Tail(queue) /\ protocol' = protocol
  BY AnswerFacts
<1>2. PICK how \in Treatments, l \in Lines, word \in Answers(c.verb) :
         /\ phase' = IF AsksUpgrade(c) /\ word \in Positive THEN "tls"
                     ELSE IF c.verb \in {"CAPA", "RETR"} /\ word = "+OK" THEN "content"
                     ELSE "command"
         /\ SentLine(l, word, c.tag)
         /\ Recorded([truth EXCEPT !.accepted = @ \/ yes(word), !.refused = @ \/ no(word)])
         /\ Conveyed(how, "server", l)
  BY AnswerFacts
<1>3. /\ truth'.accepted <=> (truth.accepted \/ yes(word))
      /\ truth'.refused <=> (truth.refused \/ no(word))
      /\ Paired' => Paired
  <2> DEFINE y == yes(word)
             n == no(word)
  <2>1. y \in BOOLEAN /\ n \in BOOLEAN
    OBVIOUS
  <2>2. Recorded([truth EXCEPT !.accepted = @ \/ y, !.refused = @ \/ n])
    BY <1>2
  <2> HIDE DEF y, n
  <2>3. /\ truth'.accepted <=> (truth.accepted \/ y)
        /\ truth'.refused <=> (truth.refused \/ n)
        /\ truth'.pipelined <=> truth.pipelined
        /\ truth.leading => truth'.leading
        /\ truth.skewed => truth'.skewed
    BY <2>1, <2>2, AnswerTruth
  <2> QED
    BY <2>3 DEF y, n, Paired
<1>4. Paired' => how = "clean"
  BY <1>1, <1>2 DEF Conveyed, Paired
<1>5. /\ AsksUpgrade(c) <=> c.verb = "STLS"
      /\ word \in Statuses
  <2>1. AsksUpgrade(c) <=> c.verb = "STLS"
    BY DEF AsksUpgrade, UpgradeVerb
  <2>2. Answers(c.verb) = Statuses
    BY DEF Answers, Statuses
  <2> QED
    BY <1>2, <2>1, <2>2
<1>6. r \in Parsers /\ phase' # "sasl"
  BY <1>1, <1>2, Pop3ServerStep
<1>7. Paired' => queue' = << >>
  <2>1. Paired' => Len(queue) <= 1
    BY <1>3 DEF DialogueInv
  <2> QED
    BY <1>1, <2>1 DEF DialogueInv
<1> HIDE DEF c, r, yes, no
<1>8. CASE Ended(P)
  <2>1. r = P
    BY <1>1, <1>2, <1>8, Pop3ServerStep DEF r
  <2> QED
    BY <1>3, <1>6, <1>7, <1>8, <2>1 DEF Pop3Goal, Pop3Inv, AcceptedIn, r
<1>9. CASE ~Ended(P)
  <2> SUFFICES ASSUME Paired'
               PROVE  /\ AcceptedIn(r) => truth'.accepted
                      /\ RefusedIn(r) => truth'.refused
                      /\ r.pending = << >>
                      /\ r.body # "none" => phase' = "content"
    BY <1>6, <1>7 DEF Pop3Goal, Awaits, r
  <2>1. /\ Paired /\ Awaits(P, Pop3Kind) /\ how = "clean"
        /\ P.body # "none" => "server" \in hole
        /\ AcceptedIn(P) => truth.accepted
        /\ RefusedIn(P) => truth.refused
    BY <1>1, <1>3, <1>4, <1>9 DEF Pop3Inv
  <2>2. PICK q : /\ AfterPop3Hole(P, "server" \in hole, q)
                 /\ q.body = "none"
                      /\ (how # "clean" \/ word \notin Statuses \/ q.pending = << >>) =>
                       Keeps(q, r)
                 /\ q.body = "none" /\ how = "clean" /\ word \in Statuses
                      /\ q.pending # << >> =>
                       Pop3Answered(q, word, r)
    BY <1>1, <1>2, <1>9, <2>1, Pop3ServerStep DEF r
  <2>3. /\ q.body = "none" /\ q.outcome = P.outcome /\ q.attempts = P.attempts
        /\ q.pending \in {<< >>, P.pending}
    BY <2>1, <2>2 DEF AfterPop3Hole, SameClaims
  <2>4. CASE q.pending = << >>
    <3>1. Keeps(q, r)
      BY <2>2, <2>3, <2>4
    <3> QED
      BY <1>3, <2>1, <2>3, <2>4, <3>1
         DEF Keeps, SameClaims, SameMode, AcceptedIn, RefusedIn
  <2>5. CASE q.pending # << >>
    <3> DEFINE e == Entry(c.verb, Pop3Kind(c.verb), 0)
    <3>1. q.pending = <<e>>
      BY <2>1, <2>3, <2>5 DEF Awaits, c
    <3>2. Head(q.pending) = e /\ Tail(q.pending) = << >>
      BY <3>1
    <3>3. (IsUpgrade(e) <=> c.verb = "STLS") /\ e.verb = c.verb
      BY Pop3KindFacts DEF IsUpgrade, Entry
    <3> HIDE DEF e
    <3>4. Pop3Answered(q, word, r)
      BY <1>5, <2>1, <2>2, <2>3, <2>5
    <3>5. CASE IsUpgrade(e)
      <4>1. /\ r.pending = << >> /\ r.body = "none" /\ r.attempts = q.attempts
            /\ r.outcome = IF word = "+OK" THEN "ACCEPTED" ELSE "REJECTED"
        BY <2>3, <3>2, <3>4, <3>5 DEF Pop3Answered
      <4>2. IF word = "+OK" THEN yes(word) ELSE no(word)
        BY <1>5, <3>3, <3>5 DEF yes, no, Positive, Statuses
      <4> QED
        BY <1>3, <2>1, <2>3, <4>1, <4>2 DEF AcceptedIn, RefusedIn
    <3>6. CASE ~IsUpgrade(e)
      <4>1. /\ r.pending = << >> /\ r.attempts = q.attempts /\ r.outcome = q.outcome
            /\ r.body # "none" => word = "+OK" /\ c.verb \in {"CAPA", "RETR"}
        BY <2>3, <3>2, <3>3, <3>4, <3>6 DEF Pop3Answered
      <4>2. word = "+OK" /\ c.verb \in {"CAPA", "RETR"} => phase' = "content"
        BY <1>2, <1>5, <3>3, <3>6
      <4> QED
        BY <1>3, <2>1, <2>3, <4>1, <4>2 DEF AcceptedIn, RefusedIn
    <3> QED
      BY <3>5, <3>6
  <2> QED
    BY <2>4, <2>5
<1> QED
  BY <1>8, <1>9

(* The server of POP3 has no interim answers.                               *)
LEMMA Pop3Step ==
    ASSUME DialogueInv, Pop3Inv, protocol = "POP3", Next
    PROVE  Pop3Goal
<1>1. ~Interim
  <2> SUFFICES ASSUME Interim PROVE FALSE
    OBVIOUS
  <2>1. /\ queue # << >>
        /\ \E word, more : Awaited(Head(queue).verb, word, more)
    BY InterimFacts
  <2>2. Head(queue) = queue[1] /\ 1 \in DOMAIN queue
    BY <2>1 DEF DialogueInv
  <2>3. Head(queue).verb \in Commands["POP3"]
    BY <2>2 DEF DialogueInv
  <2> QED
    BY <2>1, <2>3 DEF Awaited, Commands
<1>2. ~SaslResponse
  BY DEF SaslResponse, Pop3Inv
<1> QED
  BY <1>1, <1>2, Pop3Greet, Pop3Content, Pop3SendCommand, Pop3Answer DEF Next

-----------------------------------------------------------------------------
(* The IMAP parser.  A tag names the command an answer belongs to, so all   *)
(* that matters is which commands are outstanding, in any order.            *)
Within(s, t) == \A j \in DOMAIN s : \E i \in DOMAIN t : s[j] = t[i]

LEMMA ImapKindFacts ==
    ASSUME NEW verb
    PROVE  /\ ImapKind(verb) \in {"upgrade", "auth", "other"}
           /\ (ImapKind(verb) = "upgrade") <=> (verb = "STARTTLS")
<1>1. CASE verb = "STARTTLS"
  BY <1>1 DEF ImapKind
<1>2. CASE verb \in {"LOGIN", "AUTHENTICATE"}
  BY <1>2 DEF ImapKind
<1>3. CASE verb \notin {"STARTTLS", "LOGIN", "AUTHENTICATE"}
  BY <1>3 DEF ImapKind
<1> QED
  BY <1>1, <1>2, <1>3

LEMMA LiteralFacts ==
    ASSUME NEW p \in Parsers, NEW l, NEW r, r = ConsumeLiteral(p, l)
    PROVE  r \in Parsers /\ SameClaims(p, r) /\ r.pending = p.pending
<1> DEFINE q == AddEvent(p)
<1>1. Keeps(p, q) /\ q \in Parsers
  BY AddEventFacts DEF Keeps
<1>2. \/ r = [p EXCEPT !.stopped = TRUE]
      \/ r = [q EXCEPT !.stopped = TRUE, !.unsafe = TRUE]
      \/ r = q
      \/ r = p
  <2>1. CASE l.literal = "huge"
    BY <2>1 DEF ConsumeLiteral
  <2>2. CASE l.literal = "cut"
    BY <2>2 DEF ConsumeLiteral
  <2>3. CASE l.literal = "whole"
    BY <2>3 DEF ConsumeLiteral
  <2>4. CASE l.literal \notin {"huge", "cut", "whole"}
    BY <2>4 DEF ConsumeLiteral
  <2> QED
    BY <2>1, <2>2, <2>3, <2>4
<1> HIDE DEF q
<1>3. CASE r = [p EXCEPT !.stopped = TRUE]
  BY <1>3 DEF Parsers, SameClaims
<1>4. CASE r = [q EXCEPT !.stopped = TRUE, !.unsafe = TRUE]
  <2>1. r \in Parsers /\ SameClaims(q, r) /\ r.pending = q.pending
    BY <1>1, <1>4 DEF Parsers, SameClaims
  <2> QED
    BY <1>1, <2>1 DEF Keeps, SameClaims
<1>5. CASE r = q \/ r = p
  BY <1>1, <1>5 DEF Keeps, SameClaims
<1> QED
  BY <1>2, <1>3, <1>4, <1>5

LEMMA ImapClientFacts ==
    ASSUME NEW p \in Parsers, NEW l \in Lines, l.says = "IMAP", NEW r, r = ImapClientLine(p, l)
    PROVE  /\ r \in Parsers
           /\ r.outcome = p.outcome
           /\ RefusedIn(r) => RefusedIn(p)
           /\ \/ r.pending = p.pending
              \/ r.pending = Append(p.pending, Entry(l.word, ImapKind(l.word), l.tag))
<1>1. CASE p.awaiting
  <2>1. r = [AddEvent(p) EXCEPT !.awaiting = FALSE]
    BY <1>1 DEF ImapClientLine, Continuation
  <2> QED
    BY <2>1, ContinuationFacts DEF SameClaims, RefusedIn
<1>2. CASE ~p.awaiting /\ ~l.usable
  <2>1. Keeps(p, r)
    BY <1>2, UnusableFacts DEF ImapClientLine
  <2> QED
    BY <2>1 DEF Keeps, SameClaims, RefusedIn
<1>3. CASE ~p.awaiting /\ l.usable
  <2> DEFINE v == l.word
             k == ImapKind(v)
             t == l.tag
  <2>1. v \in Words /\ t \in Nat /\ k \in {"upgrade", "auth", "other"}
    BY ImapKindFacts DEF Lines
  <2>2. ImapVerb(l) = v /\ ImapVerb(l) # NoVerb
    BY <2>1 DEF ImapVerb, NoVerb, Words
  <2>3. PICK q : q = Command(p, v, k, t) /\ r = ConsumeLiteral(q, l)
    BY <1>3, <2>2 DEF ImapClientLine
  <2> HIDE DEF v, k, t
  <2>4. /\ q \in Parsers /\ SameMode(p, q)
        /\ q.outcome = p.outcome /\ (RefusedIn(q) => RefusedIn(p))
        /\ q.pending = Append(p.pending, Entry(v, k, t))
    BY <2>1, <2>3, CommandFacts
  <2>5. r \in Parsers /\ SameClaims(q, r) /\ r.pending = q.pending
    BY <2>3, <2>4, LiteralFacts
  <2> QED
    BY <2>4, <2>5 DEF SameClaims, RefusedIn, v, k, t
<1> QED
  BY <1>1, <1>2, <1>3

LEMMA CapabilityFacts ==
    ASSUME NEW p \in Parsers, NEW offered, NEW r, r = NoteCapabilities(p, offered)
    PROVE  Keeps(p, r)
<1>1. \/ r = p
      \/ r = [p EXCEPT !.upgradeSeen = TRUE]
      \/ r = Advertise(p)
  BY DEF NoteCapabilities
<1>2. Keeps(p, p) /\ Keeps(p, [p EXCEPT !.upgradeSeen = TRUE])
  BY DEF Keeps, SameMode, SameClaims, Parsers
<1> QED
  BY <1>1, <1>2, AdvertiseFacts

LEMMA UntaggedFacts ==
    ASSUME NEW p \in Parsers, NEW l, NEW r, r = Untagged(p, l)
    PROVE  r \in Parsers /\ SameClaims(p, r) /\ r.pending = p.pending
<1> DEFINE first == ~p.greeting /\ p.recognised = 0 /\ l.word = "OK"
           a == AddEvent(p)
           q == NoteCapabilities(a, l.offers /\ (first \/ l.word = "CAPABILITY"))
           g == q.greeting \/ first
<1>1. Keeps(p, a) /\ a \in Parsers
  BY AddEventFacts DEF Keeps
<1>2. Keeps(a, q) /\ q \in Parsers
  BY <1>1, CapabilityFacts DEF Keeps
<1>3. r = [q EXCEPT !.greeting = g] /\ g \in BOOLEAN
  BY <1>2 DEF Untagged
<1> HIDE DEF q, a, g
<1>4. r \in Parsers /\ SameClaims(q, r) /\ r.pending = q.pending
  BY <1>2, <1>3 DEF Parsers, SameClaims
<1> QED
  BY <1>1, <1>2, <1>4 DEF Keeps, SameClaims

(* A tagged answer completes the first command of its tag, and drops what   *)
(* stood before it.                                                         *)
ImapAnswered(p, word, tag, r) ==
    /\ r \in Parsers /\ r.attempts = p.attempts /\ Within(r.pending, p.pending)
    /\ \/ r.outcome = p.outcome
       \/ /\ tag # 0
          /\ \E i \in DOMAIN p.pending : IsUpgrade(p.pending[i]) /\ p.pending[i].tag = tag
          /\ r.outcome = IF word = "OK" THEN "ACCEPTED" ELSE "REJECTED"

LEMMA KeepsAnswered ==
    ASSUME NEW p \in Parsers, NEW r \in Parsers, SameClaims(p, r), r.pending = p.pending,
           NEW word, NEW tag
    PROVE  ImapAnswered(p, word, tag, r)
  BY DEF ImapAnswered, SameClaims, Within

LEMMA LeastIndex ==
    ASSUME NEW X \in SUBSET Nat, X # {}
    PROVE  \E x \in X : \A y \in X : x <= y
<1> DEFINE R == OpToRel(<, Nat)
<1>1. \A a, b \in Nat : a < b => <<a, b>> \in R
  BY DEF OpToRel
<1>2. IsWellFoundedOn(R, Nat)
  BY NatLessThanWellFounded
<1> HIDE DEF R
<1>3. PICK x \in X : \A y \in X : ~(<<y, x>> \in R)
  BY <1>2, WFMin, Zenon
<1>4. \A y \in X : x <= y
  <2> SUFFICES ASSUME NEW y \in X, ~(x <= y) PROVE FALSE
    OBVIOUS
  <2>1. x \in Nat /\ y \in Nat /\ y < x
    OBVIOUS
  <2> QED
    BY <2>1, <1>1, <1>3
<1> QED
  BY <1>4

LEMMA CompleteCommandFacts ==
    ASSUME NEW p \in Parsers, NEW l \in Lines, l.tag # 0, NEW r, r = CompleteCommand(p, l)
    PROVE  ImapAnswered(p, l.word, l.tag, r)
<1> DEFINE matching == {i \in DOMAIN p.pending : p.pending[i].tag = l.tag}
<1>1. CASE matching = {}
  <2>1. Keeps(p, r)
    BY <1>1, AddEventFacts DEF CompleteCommand
  <2> QED
    BY <2>1, KeepsAnswered DEF Keeps
<1>2. CASE matching # {}
  <2> DEFINE i == CHOOSE m \in matching : \A n \in matching : m <= n
             s == SubSeq(p.pending, i + 1, Len(p.pending))
             n == p.matched + 1
             q == [p EXCEPT !.pending = s, !.matched = n]
  <2>1. i \in DOMAIN p.pending /\ p.pending[i].tag = l.tag
    <3>1. matching \in SUBSET Nat
      BY DEF Parsers
    <3>2. \E m \in matching : \A k \in matching : m <= k
      BY <1>2, <3>1, LeastIndex
    <3> QED
      BY <3>2
  <2>2. r = IF IsUpgrade(p.pending[i]) THEN ImapResolve(q, l.word)
            ELSE IF IsAuth(p.pending[i]) THEN ImapFinishAuth(q)
            ELSE AddEvent(NoteCapabilities(q, l.offers /\ p.pending[i].verb = "CAPABILITY"))
    BY <1>2 DEF CompleteCommand
  <2> HIDE DEF i
  <2>3. s \in Seq(Entries) /\ Within(s, p.pending) /\ n \in Nat
    <3> DEFINE t == p.pending
    <3>1. t \in Seq(Entries) /\ i \in 1..Len(t) /\ n \in Nat
      BY <2>1 DEF Parsers
    <3> HIDE DEF t
    <3>2. SubSeq(t, i + 1, Len(t)) \in Seq(Entries)
      BY <3>1
    <3>3. Within(SubSeq(t, i + 1, Len(t)), t)
      BY <3>1 DEF Within
    <3> QED
      BY <3>1, <3>2, <3>3 DEF t
  <2> HIDE DEF s, n
  <2>4. q \in Parsers /\ SameClaims(p, q) /\ q.pending = s
    BY <2>3 DEF Parsers, SameClaims
  <2> HIDE DEF q
  <2>5. CASE IsUpgrade(p.pending[i])
    <3> DEFINE o == IF l.word = "OK" THEN "ACCEPTED" ELSE "REJECTED"
    <3>1. r = Resolve(q, o) /\ o \in Outcomes \ {"none"}
      BY <2>2, <2>5 DEF ImapResolve, Outcomes
    <3> HIDE DEF o
    <3>2. /\ r \in Parsers /\ r.outcome = o /\ r.attempts = q.attempts
          /\ r.pending = q.pending
      BY <2>4, <3>1, ResolveFacts
    <3> QED
      BY <2>1, <2>3, <2>4, <2>5, <3>2 DEF ImapAnswered, SameClaims, o
  <2>6. CASE ~IsUpgrade(p.pending[i])
    <3>1. r \in Parsers /\ SameClaims(q, r) /\ r.pending = q.pending
      <4>1. CASE IsAuth(p.pending[i])
        <5>1. r = [AddEvent(q) EXCEPT !.awaiting = FALSE]
          BY <2>2, <2>6, <4>1 DEF ImapFinishAuth
        <5> QED
          BY <2>4, <5>1, ContinuationFacts
      <4>2. CASE ~IsAuth(p.pending[i])
        <5>1. PICK u : Keeps(q, u) /\ r = AddEvent(u)
          BY <2>2, <2>4, <2>6, <4>2, CapabilityFacts
        <5>2. u \in Parsers /\ Keeps(u, r)
          BY <5>1, AddEventFacts DEF Keeps
        <5> QED
          BY <5>1, <5>2 DEF Keeps, SameClaims
      <4> QED
        BY <4>1, <4>2
    <3> QED
      BY <2>3, <2>4, <3>1 DEF ImapAnswered, SameClaims
  <2> QED
    BY <2>5, <2>6
<1> QED
  BY <1>1, <1>2

LEMMA ImapServerFacts ==
    ASSUME NEW p \in Parsers, NEW l \in Lines, l.says = "IMAP", NEW r, r = ImapServerLine(p, l)
    PROVE  ImapAnswered(p, l.word, l.tag, r)
<1>1. CASE ~l.usable
  <2>1. Keeps(p, r)
    BY <1>1, UnusableFacts DEF ImapServerLine
  <2> QED
    BY <2>1, KeepsAnswered DEF Keeps
<1>2. CASE l.usable /\ l.word = "+"
  <2> DEFINE a == AddEvent(p)
             w == a.awaiting \/ Outstanding(p, IsAuth)
             q == [a EXCEPT !.awaiting = w]
  <2>1. Keeps(p, a) /\ a \in Parsers
    BY AddEventFacts DEF Keeps
  <2>2. r = ConsumeLiteral(q, l)
    BY <1>2 DEF ImapServerLine
  <2>3. w \in BOOLEAN
    OBVIOUS
  <2> HIDE DEF a, w
  <2>4. q \in Parsers /\ SameClaims(a, q) /\ q.pending = a.pending
    BY <2>1, <2>3 DEF Parsers, SameClaims
  <2> HIDE DEF q
  <2>5. r \in Parsers /\ SameClaims(q, r) /\ r.pending = q.pending
    BY <2>2, <2>4, LiteralFacts
  <2>6. r \in Parsers /\ SameClaims(p, r) /\ r.pending = p.pending
    BY <2>1, <2>4, <2>5 DEF Keeps, SameClaims
  <2> QED
    BY <2>6, KeepsAnswered
<1>3. CASE l.usable /\ l.word # "+" /\ l.tag = 0
  <2> DEFINE q == Untagged(p, l)
  <2>1. r = ConsumeLiteral(q, l)
    BY <1>3 DEF ImapServerLine
  <2>2. q \in Parsers /\ SameClaims(p, q) /\ q.pending = p.pending
    BY UntaggedFacts
  <2> HIDE DEF q
  <2>3. r \in Parsers /\ SameClaims(q, r) /\ r.pending = q.pending
    BY <2>1, <2>2, LiteralFacts
  <2>4. r \in Parsers /\ SameClaims(p, r) /\ r.pending = p.pending
    BY <2>2, <2>3 DEF SameClaims
  <2> QED
    BY <2>4, KeepsAnswered
<1>4. CASE l.usable /\ l.word # "+" /\ l.tag # 0
  <2>1. r = CompleteCommand(p, l)
    BY <1>4 DEF ImapServerLine
  <2> QED
    BY <1>4, <2>1, CompleteCommandFacts
<1> QED
  BY <1>1, <1>2, <1>3, <1>4

LEMMA ImapParseFacts ==
    ASSUME NEW p \in Parsers, NEW m \in Lines
    PROVE  \/ ImapParse(p, m, TRUE) = p /\ ImapParse(p, m, FALSE) = p
           \/ \E q : /\ AfterHole(p, m.gap, q)
                     /\ ImapParse(p, m, TRUE) = ImapClientLine(q, m)
                     /\ ImapParse(p, m, FALSE) = ImapServerLine(q, m)
<1> DEFINE q == IF m.gap THEN NoteGap(p) ELSE p
<1>1. AfterHole(p, m.gap, q)
  BY GapFacts DEF AfterHole
<1>2. /\ Ended(p) => ImapParse(p, m, TRUE) = p /\ ImapParse(p, m, FALSE) = p
      /\ ~Ended(p) => ImapParse(p, m, TRUE) = ImapClientLine(q, m)
      /\ ~Ended(p) => ImapParse(p, m, FALSE) = ImapServerLine(q, m)
  BY DEF ImapParse, Ended
<1> HIDE DEF q
<1> QED
  BY <1>1, <1>2

LEMMA ImapClientStep ==
    ASSUME DialogueInv, protocol = "IMAP", protocol' = protocol,
           NEW how \in Treatments, NEW l \in Lines, NEW word, NEW tag,
           SentLine(l, word, tag), Conveyed(how, "client", l)
    PROVE  /\ P' \in Parsers
           /\ P'.outcome = P.outcome /\ (RefusedIn(P') => RefusedIn(P))
           /\ \A j \in DOMAIN P'.pending :
                 \/ \E i \in DOMAIN P.pending : P'.pending[j] = P.pending[i]
                 \/ P'.pending[j] = Entry(word, ImapKind(word), tag)
<1> USE DEF DialogueInv
<1>1. CASE P' = P
  BY <1>1
<1>2. CASE P' # P
  <2>1. PICK m \in Lines : Heard(how, "client", l, m)
    BY <1>2 DEF Conveyed
  <2>2. P' = ImapParse(P, m, TRUE)
    BY <2>1 DEF Heard, Parse
  <2>3. PICK q : AfterHole(P, m.gap, q) /\ P' = ImapClientLine(q, m)
    BY <1>2, <2>2, ImapParseFacts
  <2>4. m.says = "IMAP" /\ m.word = word /\ m.tag = tag
    BY <2>1 DEF Heard, SentLine
  <2> DEFINE e == Entry(word, ImapKind(word), tag)
             r == P'
  <2>5. /\ r \in Parsers /\ r.outcome = q.outcome /\ (RefusedIn(r) => RefusedIn(q))
        /\ r.pending = q.pending \/ r.pending = Append(q.pending, e)
    BY <2>3, <2>4, ImapClientFacts DEF AfterHole
  <2> HIDE DEF r, e
  <2>6. /\ q.outcome = P.outcome /\ (RefusedIn(q) => RefusedIn(P))
        /\ q.pending = << >> \/ q.pending = P.pending
        /\ q.pending \in Seq(Entries)
    BY <2>3 DEF AfterHole, SameClaims, RefusedIn, Parsers
  <2>7. \A j \in DOMAIN r.pending :
           \/ \E i \in DOMAIN P.pending : r.pending[j] = P.pending[i]
           \/ r.pending[j] = e
    <3> DEFINE t == q.pending
    <3>1. \A j \in DOMAIN Append(t, e) : (j \in DOMAIN t /\ Append(t, e)[j] = t[j]) \/ Append(t, e)[j] = e
      <4>1. t \in Seq(Entries)
        BY <2>6
      <4> HIDE DEF t
      <4> QED
        BY <4>1
    <3> QED
      BY <2>5, <2>6, <3>1
  <2> QED
    BY <2>5, <2>6, <2>7 DEF r, e
<1> QED
  BY <1>1, <1>2

LEMMA ImapServerStep ==
    ASSUME DialogueInv, protocol = "IMAP", protocol' = protocol,
           NEW how \in Treatments, NEW l \in Lines, NEW word, NEW tag,
           SentLine(l, word, tag), Conveyed(how, "server", l)
    PROVE  ImapAnswered(P, word, tag, P')
<1> USE DEF DialogueInv
<1>1. CASE P' = P
  BY <1>1, KeepsAnswered DEF SameClaims
<1>2. CASE P' # P
  <2>1. PICK m \in Lines : Heard(how, "server", l, m)
    BY <1>2 DEF Conveyed
  <2>2. P' = ImapParse(P, m, FALSE)
    BY <2>1 DEF Heard, Parse
  <2>3. PICK q : AfterHole(P, m.gap, q) /\ P' = ImapServerLine(q, m)
    BY <1>2, <2>2, ImapParseFacts
  <2>4. m.says = "IMAP" /\ m.word = word /\ m.tag = tag
    BY <2>1 DEF Heard, SentLine
  <2> DEFINE r == P'
  <2>5. ImapAnswered(q, word, tag, r)
    BY <2>3, <2>4, ImapServerFacts DEF AfterHole
  <2> HIDE DEF r
  <2>6. /\ SameClaims(P, q) /\ (q.pending = << >> \/ q.pending = P.pending)
    BY <2>3 DEF AfterHole
  <2>7. ImapAnswered(P, word, tag, r)
    BY <2>5, <2>6 DEF ImapAnswered, SameClaims, Within
  <2> QED
    BY <2>7 DEF r
<1> QED
  BY <1>1, <1>2

(* The IMAP parser and the dialogue it follows.  Tags are handed out in     *)
(* order, and a command that the parser holds as an upgrade is one: the     *)
(* command of its tag, if it is still unanswered, asks for the upgrade.     *)
TrueTag(e, last, open) ==
    /\ e.tag <= last
    /\ IsUpgrade(e) => \A j \in DOMAIN open :
                         open[j].tag = e.tag => open[j].verb = "STARTTLS"

ImapInv ==
    protocol = "IMAP" =>
      /\ AcceptedIn(P) => truth.accepted
      /\ RefusedIn(P) => truth.refused
      /\ \A j \in DOMAIN queue : queue[j].tag \in 1..sent
      /\ \A i \in DOMAIN P.pending : TrueTag(P.pending[i], sent, queue)

ImapGoal ==
    /\ P' \in Parsers
    /\ AcceptedIn(P') => truth'.accepted
    /\ RefusedIn(P') => truth'.refused
    /\ \A j \in DOMAIN queue' : queue'[j].tag \in 1..sent'
    /\ \A i \in DOMAIN P'.pending : TrueTag(P'.pending[i], sent', queue')

LEMMA PendingTags ==
    ASSUME DialogueInv, NEW i \in DOMAIN P.pending
    PROVE  P.pending[i].tag \in Nat
<1>1. P.pending \in Seq(Entries)
  BY DEF DialogueInv, Parsers
<1>2. P.pending[i] \in Entries
  BY <1>1
<1> QED
  BY <1>2 DEF Entries

(* Server lines other than answers resolve nothing.                         *)
LEMMA ImapTold ==
    ASSUME DialogueInv, ImapInv, protocol = "IMAP", UNCHANGED <<protocol, queue>>,
           truth'.accepted <=> truth.accepted, truth'.refused <=> truth.refused,
           NEW how \in Treatments, NEW l \in Lines, NEW word,
           SentLine(l, word, 0), Conveyed(how, "server", l)
    PROVE  ImapGoal
<1> DEFINE r == P'
<1>1. ImapAnswered(P, word, 0, r)
  BY ImapServerStep
<1>2. sent' = sent + 1 /\ sent \in Nat /\ queue \in Seq(Requests)
  BY DEF Conveyed, DialogueInv
<1> HIDE DEF r
<1>3. r \in Parsers /\ r.outcome = P.outcome /\ r.attempts = P.attempts
  BY <1>1 DEF ImapAnswered
<1>4. ASSUME NEW j \in DOMAIN queue'
      PROVE  queue'[j].tag \in 1..sent'
  BY <1>2, <1>4 DEF ImapInv
<1>5. ASSUME NEW i \in DOMAIN r.pending
      PROVE  TrueTag(r.pending[i], sent', queue')
  <2>1. PICK k \in DOMAIN P.pending : r.pending[i] = P.pending[k]
    BY <1>1 DEF ImapAnswered, Within
  <2>2. TrueTag(P.pending[k], sent, queue) /\ P.pending[k].tag \in Nat
    BY <2>1, PendingTags DEF ImapInv
  <2>3. TrueTag(r.pending[i], sent, queue) /\ r.pending[i].tag \in Nat
    BY <2>1, <2>2
  <2> QED
    BY <1>2, <2>3 DEF TrueTag, r
<1> QED
  BY <1>3, <1>4, <1>5 DEF ImapGoal, ImapInv, AcceptedIn, RefusedIn, r

LEMMA ImapGreet ==
    ASSUME DialogueInv, ImapInv, protocol = "IMAP", Greet
    PROVE  ImapGoal
<1>1. protocol' = protocol /\ queue' = queue /\ Recorded(truth)
  BY GreetFacts
<1>2. PICK how \in Treatments, l \in Lines, word \in {"220", "554", "+OK", "-ERR", "OK"} :
         SentLine(l, word, 0) /\ Conveyed(how, "server", l)
  BY GreetFacts
<1> QED
  BY <1>1, <1>2, ImapTold DEF Recorded

LEMMA ImapInterim ==
    ASSUME DialogueInv, ImapInv, protocol = "IMAP", Interim
    PROVE  ImapGoal
<1>1. UNCHANGED <<protocol, queue>> /\ Recorded(truth)
  BY InterimFacts
<1>2. PICK how \in Treatments, l \in Lines, word \in {"250", "CAPABILITY", "354", "334", "+"} :
         SentLine(l, word, 0) /\ Conveyed(how, "server", l)
  BY InterimFacts
<1> QED
  BY <1>1, <1>2, ImapTold DEF Recorded

LEMMA ImapContent ==
    ASSUME DialogueInv, ImapInv, protocol = "IMAP", Content
    PROVE  ImapGoal
<1>1. UNCHANGED <<protocol, queue>>
  BY ContentFacts
<1>2. PICK how \in Treatments, l \in Lines, word \in Contents :
         /\ Recorded([truth EXCEPT !.lookalike = @ \/ word \in {"STARTTLS", "250"}])
         /\ SentLine(l, word, 0) /\ Conveyed(how, "server", l)
  BY ContentFacts DEF Author
<1> QED
  BY <1>1, <1>2, ContentTruth, ImapTold

LEMMA ImapSaslResponse ==
    ASSUME DialogueInv, ImapInv, protocol = "IMAP", SaslResponse
    PROVE  ImapGoal
<1>1. protocol' = protocol /\ queue' = queue /\ Recorded(truth)
  BY SaslResponseFacts
<1>2. PICK how \in Treatments, l \in Lines : SentLine(l, "text", 0) /\ Conveyed(how, "client", l)
  BY SaslResponseFacts
<1> DEFINE r == P'
           e == Entry("text", ImapKind("text"), 0)
<1>3. /\ r \in Parsers /\ r.outcome = P.outcome /\ (RefusedIn(r) => RefusedIn(P))
      /\ \A j \in DOMAIN r.pending :
            (\E i \in DOMAIN P.pending : r.pending[j] = P.pending[i]) \/ r.pending[j] = e
  BY <1>1, <1>2, ImapClientStep
<1>4. sent' = sent + 1 /\ sent \in Nat /\ queue \in Seq(Requests)
  BY <1>2 DEF Conveyed, DialogueInv
<1>5. e.tag = 0 /\ ~IsUpgrade(e)
  BY ImapKindFacts DEF Entry, IsUpgrade
<1> HIDE DEF r, e
<1>6. ASSUME NEW j \in DOMAIN queue'
      PROVE  queue'[j].tag \in 1..sent'
  BY <1>1, <1>4, <1>6 DEF ImapInv
<1>7. ASSUME NEW i \in DOMAIN r.pending
      PROVE  TrueTag(r.pending[i], sent', queue')
  <2>1. CASE r.pending[i] = e
    BY <1>4, <1>5, <2>1 DEF TrueTag, r
  <2>2. CASE \E k \in DOMAIN P.pending : r.pending[i] = P.pending[k]
    <3>1. PICK k \in DOMAIN P.pending : r.pending[i] = P.pending[k]
      BY <2>2
    <3>2. TrueTag(P.pending[k], sent, queue) /\ P.pending[k].tag \in Nat
      BY <3>1, PendingTags DEF ImapInv
    <3>3. TrueTag(r.pending[i], sent, queue) /\ r.pending[i].tag \in Nat
      BY <3>1, <3>2
    <3> QED
      BY <1>1, <1>4, <3>3 DEF TrueTag, r
  <2> QED
    BY <1>3, <2>1, <2>2
<1> QED
  BY <1>1, <1>3, <1>6, <1>7 DEF ImapGoal, ImapInv, Recorded, AcceptedIn, r

LEMMA ImapSendCommand ==
    ASSUME DialogueInv, ImapInv, protocol = "IMAP", SendCommand
    PROVE  ImapGoal
<1>1. protocol' = protocol
  BY SendCommandFacts
<1>2. PICK how \in Treatments, l \in Lines, verb \in Commands[protocol] :
         /\ SentLine(l, verb, CommandTag)
         /\ queue' = Append(queue, [verb |-> verb, tag |-> CommandTag,
                                    heard |-> how = "clean" /\ Following])
         /\ Recorded([truth EXCEPT !.pipelined = @ \/ queue # << >>])
         /\ Conveyed(how, "client", l)
  BY SendCommandFacts
<1>3. /\ truth'.accepted <=> truth.accepted
      /\ truth'.refused <=> truth.refused
  BY <1>2, GroupFacts
<1> DEFINE r == P'
           n == sent + 1
           e == Entry(verb, ImapKind(verb), n)
           c == [verb |-> verb, tag |-> n, heard |-> how = "clean" /\ Following]
<1>4. sent' = n /\ sent \in Nat /\ n \in Nat /\ CommandTag = n /\ queue \in Seq(Requests)
  BY <1>2 DEF Conveyed, DialogueInv, CommandTag
<1>5. /\ r \in Parsers /\ r.outcome = P.outcome /\ (RefusedIn(r) => RefusedIn(P))
      /\ \A j \in DOMAIN r.pending :
            (\E i \in DOMAIN P.pending : r.pending[j] = P.pending[i]) \/ r.pending[j] = e
  BY <1>1, <1>2, <1>4, ImapClientStep
<1>6. e.tag = n /\ (IsUpgrade(e) <=> verb = "STARTTLS") /\ c.tag = n /\ c.verb = verb
  BY ImapKindFacts DEF Entry, IsUpgrade
<1>7. queue' = Append(queue, c)
  BY <1>2, <1>4
<1> HIDE DEF r, e, c
<1>8. ASSUME NEW j \in DOMAIN queue'
      PROVE  (j \in DOMAIN queue /\ queue'[j] = queue[j]) \/ queue'[j] = c
  BY <1>4, <1>7, <1>8
<1>9. ASSUME NEW j \in DOMAIN queue
      PROVE  queue[j].tag \in 1..sent
  BY <1>9 DEF ImapInv
<1>10. ASSUME NEW j \in DOMAIN queue'
       PROVE  queue'[j].tag \in 1..sent'
  BY <1>4, <1>6, <1>8, <1>9
<1>11. ASSUME NEW i \in DOMAIN r.pending
       PROVE  TrueTag(r.pending[i], sent', queue')
  <2>1. CASE r.pending[i] = e
    <3>1. ASSUME NEW j \in DOMAIN queue', queue'[j].tag = n, verb = "STARTTLS"
          PROVE  queue'[j].verb = "STARTTLS"
      <4>1. CASE queue'[j] = c
        BY <1>6, <3>1, <4>1
      <4>2. CASE j \in DOMAIN queue /\ queue'[j] = queue[j]
        BY <1>4, <1>9, <3>1, <4>2
      <4> QED
        BY <1>8, <4>1, <4>2
    <3> QED
      BY <1>4, <1>6, <2>1, <3>1 DEF TrueTag, r
  <2>2. CASE \E k \in DOMAIN P.pending : r.pending[i] = P.pending[k]
    <3>1. PICK k \in DOMAIN P.pending : r.pending[i] = P.pending[k]
      BY <2>2
    <3>2. TrueTag(P.pending[k], sent, queue) /\ P.pending[k].tag \in Nat
      BY <3>1, PendingTags DEF ImapInv
    <3> DEFINE u == r.pending[i]
    <3>3. TrueTag(u, sent, queue) /\ u.tag \in Nat /\ u.tag <= sent
      BY <3>1, <3>2 DEF TrueTag
    <3> HIDE DEF u
    <3>4. ASSUME NEW j \in DOMAIN queue', queue'[j].tag = u.tag, IsUpgrade(u)
          PROVE  queue'[j].verb = "STARTTLS"
      <4>1. CASE queue'[j] = c
        BY <1>4, <1>6, <3>3, <3>4, <4>1
      <4>2. CASE j \in DOMAIN queue /\ queue'[j] = queue[j]
        BY <3>3, <3>4, <4>2 DEF TrueTag
      <4> QED
        BY <1>8, <4>1, <4>2
    <3>5. u.tag <= sent'
      BY <1>4, <3>3
    <3> QED
      BY <3>4, <3>5 DEF TrueTag, r, u
  <2> QED
    BY <1>5, <2>1, <2>2
<1> QED
  BY <1>3, <1>5, <1>10, <1>11 DEF ImapGoal, ImapInv, AcceptedIn, r

LEMMA ImapAnswer ==
    ASSUME DialogueInv, ImapInv, protocol = "IMAP", Answer
    PROVE  ImapGoal
<1> DEFINE c == Head(queue)
           yes(word) == AsksUpgrade(c) /\ word \in Positive
           no(word) == AsksUpgrade(c) /\ word \notin Positive
           r == P'
<1>1. queue # << >> /\ queue' = Tail(queue) /\ protocol' = protocol
  BY AnswerFacts
<1>2. PICK how \in Treatments, l \in Lines, word \in Answers(c.verb) :
         /\ SentLine(l, word, c.tag)
         /\ Recorded([truth EXCEPT !.accepted = @ \/ yes(word), !.refused = @ \/ no(word)])
         /\ Conveyed(how, "server", l)
  BY AnswerFacts
<1>3. /\ truth'.accepted <=> (truth.accepted \/ yes(word))
      /\ truth'.refused <=> (truth.refused \/ no(word))
  <2> DEFINE y == yes(word)
             n == no(word)
  <2>1. y \in BOOLEAN /\ n \in BOOLEAN
    OBVIOUS
  <2>2. Recorded([truth EXCEPT !.accepted = @ \/ y, !.refused = @ \/ n])
    BY <1>2
  <2> HIDE DEF y, n
  <2>3. /\ truth'.accepted <=> (truth.accepted \/ y)
        /\ truth'.refused <=> (truth.refused \/ n)
    BY <2>1, <2>2, AnswerTruth
  <2> QED
    BY <2>3 DEF y, n
<1>4. /\ AsksUpgrade(c) <=> c.verb = "STARTTLS"
      /\ word \in {"OK", "NO"}
  <2>1. AsksUpgrade(c) <=> c.verb = "STARTTLS"
    BY DEF AsksUpgrade, UpgradeVerb
  <2>2. Answers(c.verb) = {"OK", "NO"}
    BY DEF Answers
  <2> QED
    BY <1>2, <2>1, <2>2
<1>5. sent' = sent + 1 /\ sent \in Nat /\ queue \in Seq(Requests)
  BY <1>2 DEF Conveyed, DialogueInv
<1>6. 1 \in DOMAIN queue /\ c = queue[1] /\ c.tag \in Nat
  <2>1. 1 \in DOMAIN queue /\ c = queue[1] /\ c \in Requests
    BY <1>1, <1>5
  <2> QED
    BY <1>5, <2>1 DEF Requests
<1>7. ImapAnswered(P, word, c.tag, r)
  BY <1>1, <1>2, <1>6, ImapServerStep
<1> HIDE DEF c, r, yes, no
<1>8. ASSUME NEW j \in DOMAIN queue'
      PROVE  j + 1 \in DOMAIN queue /\ queue'[j] = queue[j + 1]
  BY <1>1, <1>5, <1>8
<1>9. ASSUME NEW j \in DOMAIN queue'
      PROVE  queue'[j].tag \in 1..sent'
  <2>1. queue[j + 1].tag \in 1..sent
    BY <1>8 DEF ImapInv
  <2> QED
    BY <1>5, <1>8, <2>1
<1>10. ASSUME NEW i \in DOMAIN r.pending
       PROVE  TrueTag(r.pending[i], sent', queue')
  <2>1. PICK k \in DOMAIN P.pending : r.pending[i] = P.pending[k]
    BY <1>7 DEF ImapAnswered, Within
  <2>2. TrueTag(P.pending[k], sent, queue) /\ P.pending[k].tag \in Nat
    BY <2>1, PendingTags DEF ImapInv
  <2> DEFINE u == r.pending[i]
  <2>3. TrueTag(u, sent, queue) /\ u.tag \in Nat
    BY <2>1, <2>2
  <2> HIDE DEF u
  <2>4. u.tag <= sent'
    BY <1>5, <2>3 DEF TrueTag
  <2>5. ASSUME NEW j \in DOMAIN queue', queue'[j].tag = u.tag, IsUpgrade(u)
        PROVE  queue'[j].verb = "STARTTLS"
    BY <1>8, <2>3, <2>5 DEF TrueTag
  <2> QED
    BY <2>4, <2>5 DEF TrueTag, r, u
<1>11. /\ r \in Parsers
       /\ AcceptedIn(r) => truth'.accepted
       /\ RefusedIn(r) => truth'.refused
  <2>1. r \in Parsers /\ r.attempts = P.attempts
    BY <1>7 DEF ImapAnswered
  <2>2. CASE r.outcome = P.outcome
    BY <1>3, <2>1, <2>2 DEF ImapInv, AcceptedIn, RefusedIn
  <2>3. CASE r.outcome # P.outcome
    <3>1. PICK i \in DOMAIN P.pending : IsUpgrade(P.pending[i]) /\ P.pending[i].tag = c.tag
      BY <1>7, <2>3 DEF ImapAnswered
    <3>2. TrueTag(P.pending[i], sent, queue)
      BY <3>1 DEF ImapInv
    <3>3. c.verb = "STARTTLS"
      BY <1>6, <3>1, <3>2 DEF TrueTag
    <3>4. r.outcome = IF word = "OK" THEN "ACCEPTED" ELSE "REJECTED"
      BY <1>7, <2>3 DEF ImapAnswered
    <3>5. IF word = "OK" THEN yes(word) ELSE no(word)
      BY <1>4, <3>3 DEF yes, no, Positive
    <3>6. CASE word = "OK"
      BY <1>3, <2>1, <3>4, <3>5, <3>6 DEF ImapInv, AcceptedIn, RefusedIn
    <3>7. CASE word # "OK"
      BY <1>3, <2>1, <3>4, <3>5, <3>7 DEF AcceptedIn
    <3> QED
      BY <3>6, <3>7
  <2> QED
    BY <2>2, <2>3
<1> QED
  BY <1>9, <1>10, <1>11 DEF ImapGoal, r

LEMMA ImapStep ==
    ASSUME DialogueInv, ImapInv, protocol = "IMAP", Next
    PROVE  ImapGoal
  BY ImapGreet, ImapInterim, ImapContent, ImapSaslResponse, ImapSendCommand, ImapAnswer DEF Next

-----------------------------------------------------------------------------
(* The dialogue itself.                                                     *)
LEMMA DialogueFrame ==
    ASSUME DialogueInv, protocol' = protocol,
           NEW how \in Treatments, NEW d \in Directions, NEW l, Conveyed(how, d, l),
           truth' \in Truths, P' \in Parsers,
           phase' \in {"command", "content", "sasl", "tls"},
           queue' \in Seq(Requests),
           \A i \in DOMAIN queue' : queue'[i].verb \in Commands[protocol],
           Paired' => Len(queue') <= 1
    PROVE  DialogueInv'
<1>1. sent' \in Nat /\ faults' \in Nat
  BY DEF Conveyed, DialogueInv
<1>2. seen' \subseteq Directions /\ hole' \subseteq seen' /\ DOMAIN parser' = Protocols
  BY DEF Conveyed, DialogueInv
<1>3. phase' # "greeting"
  OBVIOUS
<1> QED
  BY <1>1, <1>2, <1>3 DEF DialogueInv

LEMMA DialogueStep ==
    ASSUME DialogueInv, Next, P' \in Parsers
    PROVE  DialogueInv' /\ protocol' = protocol
<1> DEFINE Later == {"command", "content", "sasl", "tls"}
<1>1. queue \in Seq(Requests) /\ (\A i \in DOMAIN queue : queue[i].verb \in Commands[protocol])
  BY DEF DialogueInv
<1>2. "client" \in Directions /\ "server" \in Directions /\ Author \in Directions
  BY DEF Directions, Author
<1>3. ASSUME Recorded(truth)
      PROVE  truth' \in Truths /\ (Paired' => Paired)
  BY <1>3 DEF Recorded, Paired
<1>4. Paired => Len(queue) <= 1
  BY DEF DialogueInv
<1>5. CASE Greet
  <2>1. phase' = "command" /\ protocol' = protocol /\ queue' = queue /\ Recorded(truth)
    BY <1>5, GreetFacts
  <2>2. PICK how \in Treatments, l \in Lines : Conveyed(how, "server", l)
    BY <1>5, GreetFacts
  <2> QED
    BY <1>1, <1>2, <1>3, <1>4, <2>1, <2>2, DialogueFrame
<1>6. CASE SaslResponse
  <2>1. phase' = "command" /\ protocol' = protocol /\ queue' = queue /\ Recorded(truth)
    BY <1>6, SaslResponseFacts
  <2>2. PICK how \in Treatments, l \in Lines : Conveyed(how, "client", l)
    BY <1>6, SaslResponseFacts
  <2> QED
    BY <1>1, <1>2, <1>3, <1>4, <2>1, <2>2, DialogueFrame
<1>7. CASE Content
  <2>1. protocol' = protocol /\ queue' = queue
    BY <1>7, ContentFacts
  <2>2. PICK how \in Treatments, l \in Lines, word \in Contents :
           /\ phase' = IF word = "." THEN "command" ELSE "content"
           /\ Recorded([truth EXCEPT !.lookalike = @ \/ word \in {"STARTTLS", "250"}])
           /\ Conveyed(how, Author, l)
    BY <1>7, ContentFacts
  <2>3. truth' \in Truths /\ (Paired' => Paired)
    BY <2>2, ContentTruth DEF Paired
  <2>4. phase' \in Later
    BY <2>2
  <2> QED
    BY <1>1, <1>2, <1>4, <2>1, <2>2, <2>3, <2>4, DialogueFrame
<1>8. CASE Interim
  <2>1. protocol' = protocol /\ queue' = queue /\ Recorded(truth)
    BY <1>8, InterimFacts
  <2>2. PICK how \in Treatments, l \in Lines,
             word \in {"250", "CAPABILITY", "354", "334", "+"} :
           /\ phase' = CASE word = "354" -> "content"
                         [] word \in {"334", "+"} -> "sasl"
                         [] OTHER -> "command"
           /\ Conveyed(how, "server", l)
    BY <1>8, InterimFacts
  <2>3. phase' \in Later
    BY <2>2
  <2> QED
    BY <1>1, <1>2, <1>3, <1>4, <2>1, <2>2, <2>3, DialogueFrame
<1>9. CASE SendCommand
  <2>1. phase' = "command" /\ protocol' = protocol
    BY <1>9, SendCommandFacts
  <2>2. PICK how \in Treatments, l \in Lines, verb \in Commands[protocol] :
           /\ queue' = Append(queue, [verb |-> verb, tag |-> CommandTag,
                                      heard |-> how = "clean" /\ Following])
           /\ Recorded([truth EXCEPT !.pipelined = @ \/ queue # << >>])
           /\ Conveyed(how, "client", l)
    BY <1>9, SendCommandFacts
  <2> DEFINE c == [verb |-> verb, tag |-> CommandTag, heard |-> how = "clean" /\ Following]
  <2>3. c \in Requests /\ c.verb = verb
    <3>1. verb \in Words
      BY VerbWords DEF DialogueInv
    <3>2. CommandTag \in Nat
      BY DEF CommandTag, DialogueInv
    <3> QED
      BY <3>1, <3>2 DEF Requests
  <2>4. queue' = Append(queue, c)
    BY <2>2
  <2> HIDE DEF c
  <2>5. queue' \in Seq(Requests) /\ (\A i \in DOMAIN queue' : queue'[i].verb \in Commands[protocol])
    BY <1>1, <2>3, <2>4
  <2>6. truth' \in Truths /\ (truth'.pipelined <=> (truth.pipelined \/ queue # << >>))
    BY <2>2, GroupFacts
  <2>7. Paired' => Len(queue') <= 1
    <3>1. Paired' => queue = << >>
      BY <2>6 DEF Paired
    <3>2. queue = << >> => Len(queue') = 1
      BY <2>4
    <3> QED
      BY <3>1, <3>2
  <2> QED
    BY <1>2, <2>1, <2>2, <2>5, <2>6, <2>7, DialogueFrame
<1>10. CASE Answer
  <2> DEFINE c == Head(queue)
             yes(word) == AsksUpgrade(c) /\ word \in Positive
             no(word) == AsksUpgrade(c) /\ word \notin Positive
  <2>1. queue # << >> /\ queue' = Tail(queue) /\ protocol' = protocol
    BY <1>10, AnswerFacts
  <2>2. PICK how \in Treatments, l \in Lines, word \in Answers(c.verb) :
           /\ phase' = IF AsksUpgrade(c) /\ word \in Positive THEN "tls"
                       ELSE IF c.verb \in {"CAPA", "RETR"} /\ word = "+OK" THEN "content"
                       ELSE "command"
           /\ Recorded([truth EXCEPT !.accepted = @ \/ yes(word), !.refused = @ \/ no(word)])
           /\ Conveyed(how, "server", l)
    BY <1>10, AnswerFacts
  <2>3. truth' \in Truths /\ (Paired' => Paired)
    <3> DEFINE y == yes(word)
               n == no(word)
    <3>1. y \in BOOLEAN /\ n \in BOOLEAN
      OBVIOUS
    <3>2. Recorded([truth EXCEPT !.accepted = @ \/ y, !.refused = @ \/ n])
      BY <2>2
    <3> HIDE DEF y, n
    <3> QED
      BY <3>1, <3>2, AnswerTruth DEF Paired
  <2>4. phase' \in Later
    BY <2>2
  <2>5. /\ queue' \in Seq(Requests) /\ Len(queue') <= Len(queue)
        /\ \A i \in DOMAIN queue' : queue'[i].verb \in Commands[protocol]
    BY <1>1, <2>1
  <2>6. Paired' => Len(queue') <= 1
    BY <1>1, <1>4, <2>3, <2>5
  <2> QED
    BY <1>2, <2>1, <2>2, <2>3, <2>4, <2>5, <2>6, DialogueFrame
<1> QED
  BY <1>5, <1>6, <1>7, <1>8, <1>9, <1>10 DEF Next

-----------------------------------------------------------------------------
(* The inductive invariant, one part for each protocol.                     *)
MailInv == DialogueInv /\ SmtpInv /\ Pop3Inv /\ ImapInv

LEMMA MailInit ==
    ASSUME Init
    PROVE  MailInv
<1>1. P = NewParser /\ protocol \in Protocols /\ DOMAIN parser = Protocols
  BY DEF Init, P
<1>2. truth \in Truths
  BY DEF Init, NoTruth, Truths
<1>3. queue = << >> /\ queue \in Seq(Requests) /\ DOMAIN queue = {} /\ Len(queue) = 0
  BY DEF Init
<1>4. /\ phase \in {"greeting", "command"} /\ sent = 0 /\ faults = 0
      /\ seen = {} /\ hole = {}
  BY DEF Init
<1>5. /\ P \in Parsers /\ ~AcceptedIn(P) /\ ~RefusedIn(P) /\ P.pending = << >>
      /\ P.body = "none" /\ ~P.awaiting
  BY <1>1, NewParserFacts
<1>6. DialogueInv
  BY <1>1, <1>2, <1>3, <1>4, <1>5 DEF DialogueInv
<1>7. SmtpInv
  BY <1>3, <1>4, <1>5 DEF SmtpInv, Awaits, InStep
<1>8. Pop3Inv
  BY <1>3, <1>4, <1>5 DEF Pop3Inv, Awaits
<1>9. ImapInv
  BY <1>3, <1>5 DEF ImapInv
<1> QED
  BY <1>6, <1>7, <1>8, <1>9 DEF MailInv

LEMMA MailNext ==
    ASSUME MailInv, Next
    PROVE  MailInv'
<1>1. DialogueInv /\ SmtpInv /\ Pop3Inv /\ ImapInv
  BY DEF MailInv
<1>2. protocol \in {"SMTP", "IMAP", "POP3"}
  BY <1>1 DEF DialogueInv, Protocols
<1>3. CASE protocol = "SMTP"
  <2>1. SmtpGoal
    BY <1>1, <1>3, SmtpStep
  <2>2. DialogueInv' /\ protocol' = protocol
    BY <1>1, <2>1, DialogueStep DEF SmtpGoal
  <2>3. SmtpInv'
    BY <2>1 DEF SmtpGoal, SmtpInv
  <2>4. Pop3Inv' /\ ImapInv'
    BY <1>3, <2>2 DEF Pop3Inv, ImapInv
  <2> QED
    BY <2>2, <2>3, <2>4 DEF MailInv
<1>4. CASE protocol = "POP3"
  <2>1. Pop3Goal
    BY <1>1, <1>4, Pop3Step
  <2>2. DialogueInv' /\ protocol' = protocol
    BY <1>1, <2>1, DialogueStep DEF Pop3Goal
  <2>3. Pop3Inv'
    BY <2>1 DEF Pop3Goal, Pop3Inv
  <2>4. SmtpInv' /\ ImapInv'
    BY <1>4, <2>2 DEF SmtpInv, ImapInv
  <2> QED
    BY <2>2, <2>3, <2>4 DEF MailInv
<1>5. CASE protocol = "IMAP"
  <2>1. ImapGoal
    BY <1>1, <1>5, ImapStep
  <2>2. DialogueInv' /\ protocol' = protocol
    BY <1>1, <2>1, DialogueStep DEF ImapGoal
  <2>3. ImapInv'
    BY <2>1 DEF ImapGoal, ImapInv
  <2>4. SmtpInv' /\ Pop3Inv'
    BY <1>5, <2>2 DEF SmtpInv, Pop3Inv
  <2> QED
    BY <2>2, <2>3, <2>4 DEF MailInv
<1> QED
  BY <1>2, <1>3, <1>4, <1>5

LEMMA MailStutters ==
    ASSUME MailInv, UNCHANGED vars
    PROVE  MailInv'
<1>1. /\ protocol' = protocol /\ phase' = phase /\ queue' = queue /\ truth' = truth
      /\ sent' = sent /\ faults' = faults /\ seen' = seen /\ hole' = hole
      /\ P' = P /\ parser' = parser
  BY DEF vars, P
<1>2. DialogueInv'
  BY <1>1 DEF MailInv, DialogueInv, Paired
<1>3. SmtpInv'
  BY <1>1 DEF MailInv, SmtpInv, Trusted, Paired, Awaits, InStep
<1>4. Pop3Inv'
  BY <1>1 DEF MailInv, Pop3Inv, Paired, Awaits
<1>5. ImapInv'
  BY <1>1 DEF MailInv, ImapInv
<1> QED
  BY <1>2, <1>3, <1>4, <1>5 DEF MailInv

(* Whatever a client and a server of one protocol say to each other, and    *)
(* however the capture loses or spoils their lines, the parser of that      *)
(* protocol stays as close to the dialogue as the parts of MailInv state.   *)
THEOREM MailInductive == Spec => []MailInv
<1>1. Init => MailInv
  BY MailInit
<1>2. MailInv /\ [Next]_vars => MailInv'
  BY MailNext, MailStutters
<1> QED
  BY <1>1, <1>2, PTL DEF Spec

(* "The engine will not claim a successful negotiation it did not see": an  *)
(* upgrade that _upgrade_state (protocols/base.py) reports as accepted was  *)
(* accepted by the server, for any number of lines, holes, spoiled lines    *)
(* and pipelined commands; in POP3, while answers pair with commands.       *)
THEOREM AcceptanceIsTrue == Spec => []AcceptedIsTrue
<1>1. MailInv => AcceptedIsTrue
  <2> SUFFICES ASSUME MailInv, Report \in Accepted, protocol = "POP3" => Paired
               PROVE  truth.accepted
    BY DEF AcceptedIsTrue
  <2>1. P \in Parsers /\ protocol \in {"SMTP", "IMAP", "POP3"}
    BY DEF MailInv, DialogueInv, Protocols
  <2>2. AcceptedIn(P)
    <3>1. UpgradeState(P) = "UPGRADE_ACCEPTED"
      BY <2>1, UpgradeStateFacts DEF Report, Accepted, UpgradeReport, UpgradeStates, P
    <3> QED
      BY <2>1, <3>1, UpgradeStateFacts DEF AcceptedIn
  <2> QED
    BY <2>1, <2>2 DEF MailInv, SmtpInv, Pop3Inv, ImapInv
<1> QED
  BY <1>1, MailInductive, PTL

(* An upgrade reported as rejected, and a login stored as made after a      *)
(* rejection (record_auth, protocols/base.py), had one: in IMAP always, in  *)
(* POP3 and SMTP while answers pair with commands, in SMTP also unless a    *)
(* faulty capture let a message that quotes a dialogue be read as one.      *)
THEOREM RejectionIsTrue == Spec => []RejectedIsTrue
<1>1. MailInv => RejectedIsTrue
  <2> SUFFICES ASSUME MailInv,
                      Report = "UPGRADE_REJECTED" \/ "UPGRADE_REJECTED" \in P.attempts,
                      protocol # "IMAP" => Paired /\ (truth.lookalike => faults = 0)
               PROVE  truth.refused
    BY DEF RejectedIsTrue, P
  <2>1. P \in Parsers /\ protocol \in {"SMTP", "IMAP", "POP3"}
    BY DEF MailInv, DialogueInv, Protocols
  <2>2. RefusedIn(P)
    <3>1. CASE "UPGRADE_REJECTED" \in P.attempts
      BY <3>1 DEF RefusedIn
    <3>2. CASE Report = "UPGRADE_REJECTED"
      <4>1. UpgradeState(P) = "UPGRADE_REJECTED"
        BY <3>2 DEF Report, UpgradeReport, P
      <4> QED
        BY <2>1, <4>1, UpgradeStateFacts DEF RefusedIn
    <3> QED
      BY <3>1, <3>2
  <2> QED
    BY <2>1, <2>2 DEF MailInv, SmtpInv, Pop3Inv, ImapInv, Trusted
<1> QED
  BY <1>1, MailInductive, PTL

-----------------------------------------------------------------------------
(* What the report needs of a parser's books: a parser that holds an        *)
(* upgrade command, or has ended with its acceptance, has seen an upgrade   *)
(* and, while it has room for events, remembers the request.  No operation  *)
(* takes back that a negotiation is unsafe or that an upgrade was seen.     *)
Asking(p) == \E i \in DOMAIN p.pending : IsUpgrade(p.pending[i])

Books(p) ==
    /\ p.halt \/ Asking(p) => p.upgradeSeen /\ (Room(p) => p.requested)
    /\ AcceptedIn(p) <=> p.halt

Moves(p, r) ==
    /\ p.unsafe => r.unsafe
    /\ p.upgradeSeen => r.upgradeSeen
    /\ Books(p) => Books(r)

LEMMA MovesTransitive ==
    ASSUME NEW p, NEW q, NEW r, Moves(p, q), Moves(q, r)
    PROVE  Moves(p, r)
  BY DEF Moves

LEMMA MovesBy ==
    ASSUME NEW p \in Parsers, NEW r \in Parsers,
           p.events <= r.events,
           p.unsafe => r.unsafe,
           p.upgradeSeen => r.upgradeSeen,
           r.requested <=> p.requested,
           r.halt => p.halt \/ Asking(p),
           Asking(r) => Asking(p),
           (AcceptedIn(p) <=> p.halt) => (AcceptedIn(r) <=> r.halt)
    PROVE  Moves(p, r)
<1>1. Room(r) => Room(p)
  BY LimitsAssumption DEF Room, Parsers
<1> QED
  BY <1>1 DEF Moves, Books

(* Operations that leave the books alone.                                   *)
SameBooks(p, r) ==
    /\ r.events = p.events /\ r.pending = p.pending /\ r.outcome = p.outcome
    /\ r.unsafe <=> p.unsafe
    /\ r.upgradeSeen <=> p.upgradeSeen
    /\ r.requested <=> p.requested
    /\ r.halt <=> p.halt

LEMMA SameBooksMoves ==
    ASSUME NEW p \in Parsers, NEW r \in Parsers, SameBooks(p, r)
    PROVE  Moves(p, r)
<1>1. p.events <= r.events
  BY DEF SameBooks, Parsers
<1>2. Asking(r) <=> Asking(p)
  BY DEF SameBooks, Asking
<1>3. AcceptedIn(p) <=> AcceptedIn(r)
  BY DEF SameBooks, AcceptedIn
<1> QED
  BY <1>1, <1>2, <1>3, MovesBy DEF SameBooks

LEMMA AddEventMoves ==
    ASSUME NEW p \in Parsers
    PROVE  /\ Moves(p, AddEvent(p)) /\ AddEvent(p) \in Parsers
           /\ AddEvent(p).pending = p.pending /\ AddEvent(p).events >= p.events
           /\ AddEvent(p).outcome = p.outcome
           /\ AddEvent(p).unsafe <=> p.unsafe
           /\ AddEvent(p).upgradeSeen <=> p.upgradeSeen
           /\ AddEvent(p).requested <=> p.requested
           /\ AddEvent(p).halt <=> p.halt
<1> DEFINE n == p.events + 1
           a == AddEvent(p)
<1>1. n \in Nat /\ n >= p.events /\ p.events \in Nat
  BY DEF Parsers
<1>2. a = [p EXCEPT !.events = n] \/ a = p
  BY DEF AddEvent
<1>3. a \in Parsers
  BY AddEventFacts DEF Keeps
<1> HIDE DEF n, a
<1>4. /\ a.pending = p.pending /\ a.events >= p.events
      /\ a.outcome = p.outcome
      /\ a.unsafe <=> p.unsafe
      /\ a.upgradeSeen <=> p.upgradeSeen
      /\ a.requested <=> p.requested
      /\ a.halt <=> p.halt
  BY <1>1, <1>2 DEF Parsers
<1>5. Asking(a) <=> Asking(p)
  BY <1>4 DEF Asking
<1>6. Moves(p, a)
  BY <1>1, <1>3, <1>4, <1>5, MovesBy DEF AcceptedIn, Parsers
<1> QED
  BY <1>3, <1>4, <1>6 DEF a

LEMMA NoteGapMoves ==
    ASSUME NEW p \in Parsers
    PROVE  Moves(p, NoteGap(p)) /\ (Asking(p) => NoteGap(p).unsafe)
<1> DEFINE a == AddEvent(p)
           u == a.unsafe \/ Outstanding(p, IsUpgrade)
           r == NoteGap(p)
<1>1. r = [a EXCEPT !.gapSeen = TRUE, !.unsafe = u, !.pending = << >>]
  BY AddEventMoves DEF NoteGap
<1>2. u \in BOOLEAN /\ (u <=> (p.unsafe \/ Asking(p)))
  BY AddEventMoves DEF Asking, Outstanding
<1>3. r \in Parsers /\ r.pending = << >>
  BY NoteGapFacts
<1>4. a \in Parsers /\ Moves(p, a)
  BY AddEventMoves
<1> HIDE DEF a, u, r
<1>5. /\ r.unsafe <=> u
      /\ r.upgradeSeen <=> a.upgradeSeen
      /\ r.requested <=> a.requested
      /\ r.halt <=> a.halt
      /\ r.events = a.events /\ r.outcome = a.outcome
  BY <1>1, <1>2, <1>4 DEF Parsers
<1>6. ~Asking(r)
  BY <1>3 DEF Asking
<1>7. a.unsafe => u
  BY DEF u
<1>9. a.events <= r.events /\ (AcceptedIn(r) <=> AcceptedIn(a))
  BY <1>4, <1>5 DEF AcceptedIn, Parsers
<1>8. Moves(a, r)
  BY <1>3, <1>4, <1>5, <1>6, <1>7, <1>9, MovesBy
<1> QED
  BY <1>2, <1>4, <1>5, <1>8, MovesTransitive DEF r

LEMMA UnusableMoves ==
    ASSUME NEW p \in Parsers
    PROVE  Moves(p, Unusable(p)) /\ (Asking(p) => Unusable(p).unsafe)
<1> DEFINE a == AddEvent(p)
           u == a.unsafe \/ Outstanding(p, IsUpgrade) \/ p.requested
           r == Unusable(p)
<1>1. r = [a EXCEPT !.unsafe = u]
  BY AddEventMoves DEF Unusable
<1>2. u \in BOOLEAN /\ (Asking(p) => u) /\ (a.unsafe => u)
  BY DEF Asking, Outstanding
<1>3. r \in Parsers /\ a \in Parsers /\ Moves(p, a)
  BY UnusableFacts, AddEventMoves DEF Keeps
<1> HIDE DEF a, u, r
<1>4. /\ r.unsafe <=> u
      /\ r.upgradeSeen <=> a.upgradeSeen
      /\ r.requested <=> a.requested
      /\ r.halt <=> a.halt
      /\ r.events = a.events /\ r.outcome = a.outcome /\ r.pending = a.pending
  BY <1>1, <1>2, <1>3 DEF Parsers
<1>5. Asking(r) <=> Asking(a)
  BY <1>4 DEF Asking
<1>7. a.events <= r.events /\ (AcceptedIn(r) <=> AcceptedIn(a))
  BY <1>3, <1>4 DEF AcceptedIn, Parsers
<1>6. Moves(a, r)
  BY <1>2, <1>3, <1>4, <1>5, <1>7, MovesBy
<1> QED
  BY <1>2, <1>3, <1>4, <1>6, MovesTransitive DEF r

LEMMA ForeignMoves ==
    ASSUME NEW p \in Parsers
    PROVE  Moves(p, Foreign(p))
<1> DEFINE a == AddEvent(p)
           n == a.foreign + 1
           r == Foreign(p)
<1>1. a \in Parsers /\ r \in Parsers /\ Moves(p, a)
  BY AddEventMoves, ForeignFacts DEF Keeps
<1>2. r = [a EXCEPT !.foreign = n]
  BY <1>1 DEF Foreign
<1> HIDE DEF a, n, r
<1>3. SameBooks(a, r)
  BY <1>1, <1>2 DEF Parsers, SameBooks
<1> QED
  BY <1>1, <1>3, SameBooksMoves, MovesTransitive DEF r

(* An offer is an upgrade seen.                                             *)
LEMMA AdvertiseMoves ==
    ASSUME NEW p \in Parsers
    PROVE  /\ Moves(p, Advertise(p))
           /\ Moves(p, [p EXCEPT !.upgradeSeen = TRUE])
<1>1. ASSUME NEW a \in Parsers, NEW b \in BOOLEAN,
             NEW r \in Parsers, r = [a EXCEPT !.upgradeSeen = TRUE, !.advertised = b]
      PROVE  Moves(a, r)
  <2>1. /\ r.unsafe <=> a.unsafe
        /\ r.upgradeSeen
        /\ r.requested <=> a.requested
        /\ r.halt <=> a.halt
        /\ r.events = a.events /\ r.outcome = a.outcome /\ r.pending = a.pending
    BY <1>1 DEF Parsers
  <2>2. Asking(r) <=> Asking(a)
    BY <2>1 DEF Asking
  <2>3. a.events <= r.events /\ (AcceptedIn(r) <=> AcceptedIn(a))
    BY <2>1 DEF AcceptedIn, Parsers
  <2> QED
    BY <1>1, <2>1, <2>2, <2>3, MovesBy
<1>2. Moves(p, Advertise(p))
  <2> DEFINE a == AddEvent(p)
             b == Room(p)
             r == Advertise(p)
  <2>1. a \in Parsers /\ r \in Parsers /\ Moves(p, a)
    BY AddEventMoves, AdvertiseFacts DEF Keeps
  <2>2. r = [a EXCEPT !.upgradeSeen = TRUE, !.advertised = b] /\ b \in BOOLEAN
    BY DEF Advertise, Room
  <2> HIDE DEF a, b, r
  <2>3. Moves(a, r)
    BY <1>1, <2>1, <2>2
  <2> QED
    BY <2>1, <2>3, MovesTransitive DEF r
<1>3. Moves(p, [p EXCEPT !.upgradeSeen = TRUE])
  <2> DEFINE b == p.advertised
             r == [p EXCEPT !.upgradeSeen = TRUE]
  <2>1. b \in BOOLEAN /\ r \in Parsers /\ r = [p EXCEPT !.upgradeSeen = TRUE, !.advertised = b]
    BY DEF Parsers
  <2> HIDE DEF b, r
  <2> QED
    BY <1>1, <2>1 DEF r
<1> QED
  BY <1>2, <1>3

(* The end of a wait for a SASL response.                                   *)
LEMMA ContinuationMoves ==
    ASSUME NEW p \in Parsers, NEW b \in BOOLEAN, NEW r, r = [AddEvent(p) EXCEPT !.awaiting = b]
    PROVE  Moves(p, r)
<1> DEFINE a == AddEvent(p)
<1>1. a \in Parsers /\ Moves(p, a) /\ r = [a EXCEPT !.awaiting = b]
  BY AddEventMoves
<1> HIDE DEF a
<1>2. r \in Parsers /\ SameBooks(a, r)
  BY <1>1 DEF Parsers, SameBooks
<1> QED
  BY <1>1, <1>2, SameBooksMoves, MovesTransitive

LEMMA AppendFacts ==
    ASSUME NEW t \in Seq(Entries), NEW e
    PROVE  /\ Append(t, e) # << >> /\ Len(Append(t, e)) = Len(t) + 1
           /\ Append(t, e)[Len(t) + 1] = e
           /\ \A i \in DOMAIN t : i \in DOMAIN Append(t, e) /\ Append(t, e)[i] = t[i]
           /\ \A i \in DOMAIN Append(t, e) :
                 (i \in DOMAIN t /\ Append(t, e)[i] = t[i]) \/ Append(t, e)[i] = e
  OBVIOUS

LEMMA CommandMoves ==
    ASSUME NEW p \in Parsers, NEW verb \in Words,
           NEW kind \in {"upgrade", "auth", "other"}, NEW tag, tag \in Nat,
           NEW r, r = Command(p, verb, kind, tag)
    PROVE  Moves(p, r) /\ (kind = "upgrade" => r.upgradeSeen)
<1> DEFINE a == AddEvent(p)
           e == Entry(verb, kind, tag)
           n == a.recognised + 1
           s == Append(a.pending, e)
           q == [a EXCEPT !.recognised = n, !.pending = s]
           room == Room(p)
           state == UpgradeState(q)
<1>1. a \in Parsers /\ Moves(p, a) /\ a.events >= p.events
  BY AddEventMoves
<1>2. r \in Parsers
  BY CommandFacts
<1>3. r = IF kind = "upgrade" THEN [q EXCEPT !.upgradeSeen = TRUE, !.requested = room]
          ELSE IF kind = "auth" THEN [q EXCEPT !.attempts = @ \cup {state}]
          ELSE q
  BY <1>1 DEF Command, RecordAuth, Entry
<1>4. n \in Nat /\ s \in Seq(Entries) /\ room \in BOOLEAN /\ (room <=> Room(p))
  BY <1>1 DEF Parsers, Entries, Entry, Room
<1>5. (\E i \in DOMAIN s : IsUpgrade(s[i])) => Asking(a) \/ kind = "upgrade"
  <2> SUFFICES ASSUME NEW i \in DOMAIN s, IsUpgrade(s[i]), kind # "upgrade"
               PROVE  Asking(a)
    OBVIOUS
  <2>1. a.pending \in Seq(Entries)
    BY <1>1 DEF Parsers
  <2>2. ~IsUpgrade(e)
    BY DEF IsUpgrade, Entry
  <2>3. (i \in DOMAIN a.pending /\ s[i] = a.pending[i]) \/ s[i] = e
    BY <2>1, AppendFacts
  <2> QED
    BY <2>2, <2>3 DEF Asking
<1> HIDE DEF a, n, s, room, e
<1>6. /\ q \in Parsers /\ q.events = a.events /\ q.outcome = a.outcome /\ q.pending = s
      /\ q.unsafe <=> a.unsafe
      /\ q.upgradeSeen <=> a.upgradeSeen
      /\ q.requested <=> a.requested
      /\ q.halt <=> a.halt
  BY <1>1, <1>4 DEF Parsers
<1> HIDE DEF q
<1>7. CASE kind = "upgrade"
  <2>1. r = [q EXCEPT !.upgradeSeen = TRUE, !.requested = room]
    BY <1>3, <1>7
  <2>2. /\ r.upgradeSeen
        /\ r.requested <=> room
        /\ r.unsafe <=> a.unsafe
        /\ r.halt <=> a.halt
        /\ r.events = a.events /\ r.outcome = a.outcome
    BY <1>4, <1>6, <2>1 DEF Parsers
  <2>3. Room(r) => Room(p)
    BY <1>1, <2>2, LimitsAssumption DEF Room, Parsers
  <2>4. AcceptedIn(r) <=> AcceptedIn(a)
    BY <2>2 DEF AcceptedIn
  <2>5. Moves(a, r)
    BY <1>4, <2>2, <2>3, <2>4 DEF Moves, Books
  <2> QED
    BY <1>1, <2>2, <2>5, MovesTransitive
<1>8. CASE kind # "upgrade"
  <2>1. /\ r.upgradeSeen <=> a.upgradeSeen
        /\ r.requested <=> a.requested
        /\ r.unsafe <=> a.unsafe
        /\ r.halt <=> a.halt
        /\ r.events = a.events /\ r.outcome = a.outcome /\ r.pending = s
    <3>1. CASE kind = "auth"
      <4> DEFINE more == q.attempts \cup {state}
      <4>1. r = [q EXCEPT !.attempts = more]
        BY <1>3, <3>1
      <4> HIDE DEF more
      <4> QED
        BY <1>6, <4>1 DEF Parsers
    <3>2. CASE kind = "other"
      BY <1>3, <1>6, <3>2
    <3> QED
      BY <1>8, <3>1, <3>2
  <2>2. Asking(r) => Asking(a)
    BY <1>5, <1>8, <2>1 DEF Asking
  <2>3. a.events <= r.events /\ (AcceptedIn(r) <=> AcceptedIn(a))
    BY <1>1, <2>1 DEF AcceptedIn, Parsers
  <2>4. Moves(a, r)
    BY <1>1, <1>2, <2>1, <2>2, <2>3, MovesBy
  <2> QED
    BY <1>1, <1>8, <2>4, MovesTransitive
<1> QED
  BY <1>7, <1>8

(* A command leaves the queue, and the answer to an upgrade command.        *)
Popped(p, q) ==
    /\ q.events = p.events /\ q.outcome = p.outcome
    /\ q.unsafe <=> p.unsafe
    /\ q.upgradeSeen <=> p.upgradeSeen
    /\ q.requested <=> p.requested
    /\ q.halt <=> p.halt
    /\ Asking(q) => Asking(p)

LEMMA PoppedMoves ==
    ASSUME NEW p \in Parsers, NEW q \in Parsers, Popped(p, q)
    PROVE  Moves(p, q)
<1>1. p.events <= q.events /\ (AcceptedIn(p) <=> AcceptedIn(q))
  BY DEF Popped, Parsers, AcceptedIn
<1> QED
  BY <1>1, MovesBy DEF Popped

LEMMA ResolveMoves ==
    ASSUME NEW p \in Parsers, NEW q \in Parsers, Popped(p, q), Asking(p),
           NEW outcome \in Outcomes \ {"none"}
    PROVE  Moves(p, Resolve(q, outcome))
<1> DEFINE a == AddEvent(q)
           room == Room(q)
           h == outcome = "ACCEPTED"
           r == Resolve(q, outcome)
<1>1. /\ a \in Parsers /\ a.pending = q.pending /\ a.events >= q.events
      /\ a.unsafe <=> q.unsafe
      /\ a.upgradeSeen <=> q.upgradeSeen
      /\ a.requested <=> q.requested
  BY AddEventMoves
<1>2. /\ r = [a EXCEPT !.outcome = outcome, !.response = room, !.halt = h]
      /\ room \in BOOLEAN /\ h \in BOOLEAN
  BY DEF Resolve, Room
<1>3. r \in Parsers /\ (r.halt <=> AcceptedIn(r)) /\ r.pending = q.pending
  BY ResolveFacts
<1> HIDE DEF a, room, h, r
<1>4. /\ r.unsafe <=> a.unsafe
      /\ r.upgradeSeen <=> a.upgradeSeen
      /\ r.requested <=> a.requested
      /\ r.events = a.events
  BY <1>1, <1>2 DEF Parsers
<1>5. Asking(r) <=> Asking(q)
  BY <1>3 DEF Asking
<1>6. p.events <= r.events
  BY <1>1, <1>4 DEF Popped, Parsers
<1>7. Moves(p, r)
  BY <1>1, <1>3, <1>4, <1>5, <1>6, MovesBy DEF Popped
<1> QED
  BY <1>7 DEF r

(* What is left of a queue asks for an upgrade only if the queue did.       *)
LEMMA RestAsks ==
    ASSUME NEW p \in Parsers, p.pending # << >>
    PROVE  /\ Head(p.pending) \in Entries /\ Tail(p.pending) \in Seq(Entries)
           /\ IsUpgrade(Head(p.pending)) => Asking(p)
           /\ (\E i \in DOMAIN Tail(p.pending) : IsUpgrade(Tail(p.pending)[i])) => Asking(p)
<1> DEFINE s == p.pending
<1>1. s \in Seq(Entries) /\ s # << >>
  BY DEF Parsers
<1> HIDE DEF s
<1>2. Head(s) \in Entries /\ Tail(s) \in Seq(Entries) /\ Head(s) = s[1] /\ 1 \in DOMAIN s
  BY <1>1
<1>3. ASSUME NEW i \in DOMAIN Tail(s)
      PROVE  i + 1 \in DOMAIN s /\ Tail(s)[i] = s[i + 1]
  BY <1>1, <1>3
<1> QED
  BY <1>2, <1>3 DEF s, Asking

LEMMA PopFacts ==
    ASSUME NEW p \in Parsers, p.pending # << >>,
           NEW q, q = [p EXCEPT !.pending = Tail(@), !.matched = @ + 1]
    PROVE  q \in Parsers /\ Popped(p, q) /\ Moves(p, q)
<1> DEFINE s == Tail(p.pending)
           n == p.matched + 1
<1>1. /\ q = [p EXCEPT !.pending = s, !.matched = n] /\ s \in Seq(Entries) /\ n \in Nat
      /\ (\E i \in DOMAIN s : IsUpgrade(s[i])) => Asking(p)
  BY RestAsks DEF Parsers
<1> HIDE DEF s, n
<1>2. /\ q \in Parsers /\ q.pending = s
      /\ q.events = p.events /\ q.outcome = p.outcome
      /\ q.unsafe <=> p.unsafe
      /\ q.upgradeSeen <=> p.upgradeSeen
      /\ q.requested <=> p.requested
      /\ q.halt <=> p.halt
  BY <1>1 DEF Parsers
<1>3. Asking(q) => Asking(p)
  BY <1>1, <1>2 DEF Asking
<1>4. Popped(p, q)
  BY <1>2, <1>3 DEF Popped
<1> QED
  BY <1>2, <1>4, PoppedMoves

(* Changes of the mode, of the lines counted or collected, of the greeting. *)
LEMMA ModeMoves ==
    ASSUME NEW p \in Parsers
    PROVE  \A r :
             /\ (\E b \in Bodies, n \in Nat : r = [p EXCEPT !.body = b, !.bodyLines = n])
                  => Moves(p, r)
             /\ (\E b \in Bodies, s \in Seq(BOOLEAN) : r = [p EXCEPT !.body = b, !.reply = s])
                  => Moves(p, r)
             /\ (\E n \in Nat, yes \in BOOLEAN : r = [p EXCEPT !.bodyLines = n, !.stopped = yes])
                  => Moves(p, r)
             /\ (\E yes \in BOOLEAN : r = [p EXCEPT !.stopped = yes]) => Moves(p, r)
             /\ (\E s \in Seq(BOOLEAN) : r = [p EXCEPT !.reply = s]) => Moves(p, r)
             /\ (\E yes \in BOOLEAN : r = [p EXCEPT !.greeting = yes]) => Moves(p, r)
<1>1. ASSUME NEW b \in Bodies, NEW n \in Nat, NEW r, r = [p EXCEPT !.body = b, !.bodyLines = n]
      PROVE  Moves(p, r)
  <2>1. r \in Parsers /\ SameBooks(p, r)
    BY <1>1 DEF Parsers, SameBooks
  <2> QED
    BY <2>1, SameBooksMoves
<1>2. ASSUME NEW b \in Bodies, NEW s \in Seq(BOOLEAN), NEW r, r = [p EXCEPT !.body = b, !.reply = s]
      PROVE  Moves(p, r)
  <2>1. r \in Parsers /\ SameBooks(p, r)
    BY <1>2 DEF Parsers, SameBooks
  <2> QED
    BY <2>1, SameBooksMoves
<1>3. ASSUME NEW n \in Nat, NEW yes \in BOOLEAN, NEW r, r = [p EXCEPT !.bodyLines = n, !.stopped = yes]
      PROVE  Moves(p, r)
  <2>1. r \in Parsers /\ SameBooks(p, r)
    BY <1>3 DEF Parsers, SameBooks
  <2> QED
    BY <2>1, SameBooksMoves
<1>4. ASSUME NEW yes \in BOOLEAN, NEW r, r = [p EXCEPT !.stopped = yes]
      PROVE  Moves(p, r)
  <2>1. r \in Parsers /\ SameBooks(p, r)
    BY <1>4 DEF Parsers, SameBooks
  <2> QED
    BY <2>1, SameBooksMoves
<1>5. ASSUME NEW s \in Seq(BOOLEAN), NEW r, r = [p EXCEPT !.reply = s]
      PROVE  Moves(p, r)
  <2>1. r \in Parsers /\ SameBooks(p, r)
    BY <1>5 DEF Parsers, SameBooks
  <2> QED
    BY <2>1, SameBooksMoves
<1>6. ASSUME NEW yes \in BOOLEAN, NEW r, r = [p EXCEPT !.greeting = yes]
      PROVE  Moves(p, r)
  <2>1. r \in Parsers /\ SameBooks(p, r)
    BY <1>6 DEF Parsers, SameBooks
  <2> QED
    BY <2>1, SameBooksMoves
<1> QED
  BY <1>1, <1>2, <1>3, <1>4, <1>5, <1>6

-----------------------------------------------------------------------------
(* The SMTP parser.                                                         *)
LEMMA SmtpClientMoves ==
    ASSUME NEW p \in Parsers, NEW l \in Lines, NEW r, r = SmtpClientLine(p, l)
    PROVE  /\ Moves(p, r)
           /\ r.halt <=> p.halt
           /\ SmtpReads(p, l) /\ SmtpVerb(l) = "STARTTLS" => r.upgradeSeen
<1>1. CASE p.body # "none"
  <2>1. r = IF l.complete /\ l.word = "."
              THEN [AddEvent(p) EXCEPT !.body = "none", !.bodyLines = 0]
              ELSE [p EXCEPT !.bodyLines = @ + 1, !.stopped = p.bodyLines >= MaxBody]
    BY <1>1 DEF SmtpClientLine, SmtpBodyLine
  <2>2. CASE l.complete /\ l.word = "."
    <3> DEFINE a == AddEvent(p)
               b == "none"
               n == 0
    <3>1. a \in Parsers /\ Moves(p, a) /\ (a.halt <=> p.halt)
      BY AddEventMoves
    <3>2. b \in Bodies /\ n \in Nat /\ r = [a EXCEPT !.body = b, !.bodyLines = n]
      BY <2>1, <2>2 DEF Bodies
    <3> HIDE DEF a, b, n
    <3>3. Moves(a, r) /\ (r.halt <=> a.halt)
      <4>1. << >> \in Seq(BOOLEAN) /\ TRUE \in BOOLEAN
        OBVIOUS
      <4>2. Moves(a, r)
        BY <3>1, <3>2, <4>1, ModeMoves
      <4>3. r.halt <=> a.halt
        BY <3>1, <3>2 DEF Parsers
      <4> QED
        BY <4>2, <4>3
    <3> QED
      BY <1>1, <3>1, <3>3, MovesTransitive DEF SmtpReads
  <2>3. CASE ~(l.complete /\ l.word = ".")
    <3> DEFINE n == p.bodyLines + 1
               s == p.bodyLines >= MaxBody
    <3>1. r = [p EXCEPT !.bodyLines = n, !.stopped = s] /\ n \in Nat /\ s \in BOOLEAN
      BY <2>1, <2>3 DEF Parsers
    <3> HIDE DEF n, s
    <3>2. r.halt <=> p.halt
      BY <3>1 DEF Parsers
    <3>3. "none" \in Bodies /\ << >> \in Seq(BOOLEAN)
      BY DEF Bodies
    <3>4. Moves(p, r)
      BY <3>1, <3>3, ModeMoves
    <3> QED
      BY <1>1, <3>2, <3>4 DEF SmtpReads
  <2> QED
    BY <2>2, <2>3
<1>2. CASE p.body = "none" /\ p.awaiting
  <2>1. r = [AddEvent(p) EXCEPT !.awaiting = FALSE]
    BY <1>2 DEF SmtpClientLine, Continuation
  <2>2. FALSE \in BOOLEAN
    OBVIOUS
  <2>3. Moves(p, r)
    BY <2>1, <2>2, ContinuationMoves
  <2>4. r.halt <=> p.halt
    BY <2>1, ContinuationFacts
  <2> QED
    BY <1>2, <2>3, <2>4 DEF SmtpReads
<1>3. CASE p.body = "none" /\ ~p.awaiting /\ ~SmtpReads(p, l)
  <2>1. r = Unusable(p) \/ r = Foreign(p)
    BY <1>3 DEF SmtpClientLine, SmtpReads
  <2> QED
    BY <1>3, <2>1, UnusableFacts, ForeignFacts, UnusableMoves, ForeignMoves DEF Keeps, SameMode
<1>4. CASE SmtpReads(p, l)
  <2>1. r = Command(p, SmtpVerb(l), SmtpKind(SmtpVerb(l)), 0)
    BY <1>4 DEF SmtpClientLine, SmtpReads
  <2>2. /\ SmtpVerb(l) \in Words
        /\ SmtpKind(SmtpVerb(l)) \in {"upgrade", "auth", "other"}
        /\ SmtpVerb(l) = "STARTTLS" => SmtpKind(SmtpVerb(l)) = "upgrade"
        /\ 0 \in Nat
    BY <1>4, SmtpVerbFacts, SmtpKindFacts DEF SmtpReads
  <2>3. /\ Moves(p, r) /\ SameMode(p, r)
        /\ SmtpKind(SmtpVerb(l)) = "upgrade" => r.upgradeSeen
    BY <2>1, <2>2, CommandFacts, CommandMoves
  <2> QED
    BY <2>2, <2>3 DEF SameMode
<1> QED
  BY <1>1, <1>2, <1>3, <1>4

LEMMA SmtpResolveMoves ==
    ASSUME NEW p \in Parsers, NEW q \in Parsers, Popped(p, q), Asking(p),
           NEW code, NEW r, r = SmtpResolve(q, code)
    PROVE  Moves(p, r)
<1>1. CASE code \in {"220", "454", "554", "535"}
  <2>1. PICK o \in Outcomes \ {"none"} : r = Resolve(q, o)
    <3>1. CASE code = "220"
      BY <3>1 DEF SmtpResolve, Outcomes
    <3>2. CASE code = "454"
      BY <3>2 DEF SmtpResolve, Outcomes
    <3>3. CASE code \in {"554", "535"}
      BY <3>3 DEF SmtpResolve, Outcomes
    <3> QED
      BY <1>1, <3>1, <3>2, <3>3
  <2> QED
    BY <2>1, ResolveMoves
<1>2. CASE code \notin {"220", "454", "554", "535"}
  <2> DEFINE a == AddEvent(q)
             room == Room(q)
  <2>1. r = [a EXCEPT !.response = room, !.unsafe = TRUE] /\ room \in BOOLEAN
    BY <1>2 DEF SmtpResolve, Room
  <2>2. a \in Parsers /\ Moves(q, a) /\ Moves(p, q)
    BY AddEventMoves, PoppedMoves
  <2> HIDE DEF a, room
  <2>3. /\ r \in Parsers /\ r.unsafe /\ r.pending = a.pending
        /\ r.events = a.events /\ r.outcome = a.outcome
        /\ r.upgradeSeen <=> a.upgradeSeen
        /\ r.requested <=> a.requested
        /\ r.halt <=> a.halt
    BY <2>1, <2>2 DEF Parsers
  <2>4. a.events <= r.events /\ (AcceptedIn(r) <=> AcceptedIn(a)) /\ (Asking(r) <=> Asking(a))
    BY <2>2, <2>3 DEF AcceptedIn, Asking, Parsers
  <2>5. Moves(a, r)
    BY <2>2, <2>3, <2>4, MovesBy
  <2> QED
    BY <2>2, <2>5, MovesTransitive
<1> QED
  BY <1>1, <1>2

LEMMA SmtpReplyMoves ==
    ASSUME NEW p \in Parsers, NEW code, NEW marks \in Seq(BOOLEAN),
           p.pending # << >>, NEW r, r = SmtpReply(p, code, marks)
    PROVE  Moves(p, r)
<1> DEFINE c == Head(p.pending)
           q == [p EXCEPT !.pending = Tail(@), !.matched = @ + 1]
           a == AddEvent(p)
<1>1. q \in Parsers /\ Popped(p, q) /\ Moves(p, q)
  BY PopFacts
<1>2. IsUpgrade(c) => Asking(p)
  BY RestAsks
<1>3. a \in Parsers /\ Moves(p, a)
  BY AddEventMoves
<1>4. r = IF c.verb = "DATA" /\ code = "354" THEN [a EXCEPT !.body = "DATA", !.bodyLines = 0]
          ELSE IF IsAuth(c) /\ code = "334" THEN [a EXCEPT !.awaiting = TRUE]
          ELSE IF IsUpgrade(c) THEN SmtpResolve(q, code)
          ELSE IF IsAuth(c) THEN [AddEvent(q) EXCEPT !.awaiting = FALSE]
          ELSE IF c.verb = "EHLO" THEN SmtpCapabilities(AddEvent(q), marks)
          ELSE AddEvent(q)
  BY DEF SmtpReply, SmtpFinishAuth
<1> HIDE DEF c, q
<1>5. CASE r = [a EXCEPT !.body = "DATA", !.bodyLines = 0]
  <2> DEFINE b == "DATA"
             n == 0
  <2>1. b \in Bodies /\ n \in Nat /\ r = [a EXCEPT !.body = b, !.bodyLines = n]
        /\ << >> \in Seq(BOOLEAN) /\ TRUE \in BOOLEAN
    BY <1>5 DEF Bodies
  <2> HIDE DEF b, n, a
  <2>2. Moves(a, r)
    BY <1>3, <2>1, ModeMoves
  <2> QED
    BY <1>3, <2>2, MovesTransitive
<1>6. CASE r = [a EXCEPT !.awaiting = TRUE]
  BY <1>6, ContinuationMoves
<1>7. CASE IsUpgrade(c) /\ r = SmtpResolve(q, code)
  BY <1>1, <1>2, <1>7, SmtpResolveMoves
<1>8. CASE r = [AddEvent(q) EXCEPT !.awaiting = FALSE]
  BY <1>1, <1>8, ContinuationMoves, MovesTransitive
<1>9. CASE r = SmtpCapabilities(AddEvent(q), marks) \/ r = AddEvent(q)
  <2> DEFINE b == AddEvent(q)
             d == AddEvent(b)
  <2>1. b \in Parsers /\ Moves(q, b)
    BY <1>1, AddEventMoves
  <2>2. d \in Parsers /\ Moves(b, d)
    BY <2>1, AddEventMoves
  <2>3. Moves(d, Advertise(d))
    BY <2>2, AdvertiseMoves
  <2>4. r \in {b, d, Advertise(d)}
    BY <1>9 DEF SmtpCapabilities
  <2> HIDE DEF b, d
  <2> QED
    BY <1>1, <2>1, <2>2, <2>3, <2>4, MovesTransitive
<1> QED
  BY <1>4, <1>5, <1>6, <1>7, <1>8, <1>9

LEMMA SmtpServerMoves ==
    ASSUME NEW p \in Parsers, NEW l \in Lines, NEW r, r = SmtpServerLine(p, l)
    PROVE  /\ Moves(p, r)
           /\ ~l.usable /\ Asking(p) => r.unsafe
<1> DEFINE marks == Append(p.reply, l.offers)
           b == [p EXCEPT !.reply = << >>]
<1>0. /\ marks \in Seq(BOOLEAN) /\ << >> \in Seq(BOOLEAN)
      /\ "none" \in Bodies /\ 0 \in Nat /\ TRUE \in BOOLEAN
  BY DEF Parsers, Lines, Bodies
<1>1. ASSUME NEW q \in Parsers, NEW s \in Seq(BOOLEAN), NEW w, w = [q EXCEPT !.reply = s]
      PROVE  w \in Parsers /\ Moves(q, w) /\ (w.unsafe <=> q.unsafe) /\ w.pending = q.pending
  <2>1. w \in Parsers /\ (w.unsafe <=> q.unsafe) /\ w.pending = q.pending
    BY <1>1 DEF Parsers
  <2> QED
    BY <1>0, <1>1, <2>1, ModeMoves
<1>2. CASE ~l.usable
  <2> DEFINE u == Unusable(p)
  <2>1. u \in Parsers /\ Moves(p, u) /\ (Asking(p) => u.unsafe)
    BY UnusableFacts, UnusableMoves DEF Keeps
  <2>2. r = [u EXCEPT !.reply = << >>]
    BY <1>2 DEF SmtpServerLine
  <2> HIDE DEF u
  <2>3. Moves(u, r) /\ (r.unsafe <=> u.unsafe)
    BY <1>0, <1>1, <2>1, <2>2
  <2> QED
    BY <2>1, <2>3, MovesTransitive
<1>3. CASE l.usable /\ SmtpCode(l) = NoVerb
  <2> DEFINE u == Foreign(p)
  <2>1. u \in Parsers /\ Moves(p, u)
    BY ForeignFacts, ForeignMoves DEF Keeps
  <2>2. r = [u EXCEPT !.reply = << >>]
    BY <1>3 DEF SmtpServerLine
  <2> HIDE DEF u
  <2>3. Moves(u, r)
    BY <1>0, <1>1, <2>1, <2>2
  <2> QED
    BY <1>3, <2>1, <2>3, MovesTransitive
<1>4. CASE l.usable /\ SmtpCode(l) # NoVerb /\ l.more
  <2>1. r = [p EXCEPT !.reply = marks]
    BY <1>4 DEF SmtpServerLine
  <2> QED
    BY <1>0, <1>1, <1>4, <2>1
<1>5. CASE l.usable /\ SmtpCode(l) # NoVerb /\ ~l.more
  <2>1. r = SmtpReply(b, SmtpCode(l), marks)
    BY <1>5 DEF SmtpServerLine
  <2>2. b \in Parsers /\ Moves(p, b)
    BY <1>0, <1>1
  <2> HIDE DEF b, marks
  <2>3. Moves(b, r)
    <3>1. CASE b.pending # << >>
      BY <1>0, <2>1, <2>2, <3>1, SmtpReplyMoves
    <3>2. CASE b.pending = << >>
      <4> DEFINE a == AddEvent(b)
                 g == a.greeting \/ (b.recognised = 0 /\ SmtpCode(l) \in SmtpGreetings)
      <4>1. a \in Parsers /\ Moves(b, a)
        BY <2>2, AddEventMoves
      <4>2. r = [a EXCEPT !.greeting = g] /\ g \in BOOLEAN
        BY <2>1, <3>2, <4>1 DEF SmtpReply, SmtpUnmatched
      <4> HIDE DEF a, g
      <4>3. Moves(a, r)
        BY <1>0, <4>1, <4>2, ModeMoves
      <4> QED
        BY <4>1, <4>3, MovesTransitive
    <3> QED
      BY <3>1, <3>2
  <2> QED
    BY <1>5, <2>2, <2>3, MovesTransitive
<1> QED
  BY <1>2, <1>3, <1>4, <1>5

-----------------------------------------------------------------------------
(* The IMAP parser.                                                         *)
(* No mode begins.                                                          *)
Calm(p, r) == r.body = p.body /\ (r.awaiting => p.awaiting)

LEMMA LiteralMoves ==
    ASSUME NEW p \in Parsers, NEW l, NEW r, r = ConsumeLiteral(p, l)
    PROVE  /\ Moves(p, r) /\ Calm(p, r)
           /\ r.halt <=> p.halt
           /\ l.literal = "none" => r = p
<1> DEFINE a == AddEvent(p)
<1>0. l.literal = "none" => r = p
  BY DEF ConsumeLiteral
<1>1. /\ a \in Parsers /\ Moves(p, a) /\ Calm(p, a)
      /\ a.halt <=> p.halt
  BY AddEventMoves, AddEventFacts DEF Keeps, SameMode, Calm
<1>2. TRUE \in BOOLEAN /\ << >> \in Seq(BOOLEAN) /\ "none" \in Bodies /\ 0 \in Nat
  BY DEF Bodies
<1>3. Moves(p, p)
  BY DEF Moves
<1> HIDE DEF a
<1>4. CASE r = [p EXCEPT !.stopped = TRUE]
  <2>1. Moves(p, r)
    BY <1>2, <1>4, ModeMoves
  <2>2. (r.halt <=> p.halt) /\ Calm(p, r)
    BY <1>4 DEF Parsers, Calm
  <2> QED
    BY <1>0, <2>1, <2>2
<1>5. CASE r = [a EXCEPT !.stopped = TRUE, !.unsafe = TRUE]
  <2>1. /\ r \in Parsers /\ r.unsafe
        /\ r.events = a.events /\ r.pending = a.pending /\ r.outcome = a.outcome
        /\ r.upgradeSeen <=> a.upgradeSeen
        /\ r.requested <=> a.requested
        /\ r.halt <=> a.halt
        /\ Calm(a, r)
    BY <1>1, <1>5 DEF Parsers, Calm
  <2>2. /\ a.events <= r.events /\ (AcceptedIn(r) <=> AcceptedIn(a))
        /\ Asking(r) <=> Asking(a)
    BY <1>1, <2>1 DEF Parsers, AcceptedIn, Asking
  <2>3. Moves(a, r)
    BY <1>1, <2>1, <2>2, MovesBy
  <2>4. Moves(p, r)
    BY <1>1, <2>3, MovesTransitive
  <2>5. Calm(p, r)
    BY <1>1, <2>1 DEF Calm
  <2> QED
    BY <1>0, <1>1, <2>1, <2>4, <2>5
<1>6. r \in {p, a, [p EXCEPT !.stopped = TRUE], [a EXCEPT !.stopped = TRUE, !.unsafe = TRUE]}
  BY DEF ConsumeLiteral, a
<1>7. Calm(p, p)
  BY DEF Calm
<1> QED
  BY <1>0, <1>1, <1>3, <1>4, <1>5, <1>6, <1>7

ImapReads(p, l) == ~p.awaiting /\ l.usable

LEMMA ImapClientMoves ==
    ASSUME NEW p \in Parsers, NEW l \in Lines, l.says = "IMAP", NEW r, r = ImapClientLine(p, l)
    PROVE  /\ Moves(p, r) /\ r.body = p.body /\ ~r.awaiting
           /\ r.halt <=> p.halt
           /\ ImapReads(p, l) /\ l.word = "STARTTLS" =>
                 /\ r.upgradeSeen
                 /\ l.literal = "none" =>
                       /\ r.stopped <=> p.stopped
                       /\ r.pending = Append(p.pending, Entry(l.word, "upgrade", l.tag))
<1>1. CASE p.awaiting
  <2>1. r = [AddEvent(p) EXCEPT !.awaiting = FALSE] /\ FALSE \in BOOLEAN
    BY <1>1 DEF ImapClientLine, Continuation
  <2>2. Moves(p, r)
    BY <2>1, ContinuationMoves
  <2>3. (r.halt <=> p.halt) /\ r.body = p.body /\ ~r.awaiting
    BY <2>1, ContinuationFacts
  <2> QED
    BY <1>1, <2>2, <2>3 DEF ImapReads
<1>2. CASE ~p.awaiting /\ ~l.usable
  <2>1. r = Unusable(p)
    BY <1>2 DEF ImapClientLine
  <2> QED
    BY <1>2, <2>1, UnusableFacts, UnusableMoves DEF Keeps, SameMode, ImapReads
<1>3. CASE ~p.awaiting /\ l.usable /\ l.word = NoVerb
  <2>1. FALSE
    BY <1>3 DEF Lines, Words, NoVerb
  <2> QED
    BY <2>1
<1>4. CASE ~p.awaiting /\ l.usable /\ l.word # NoVerb
  <2> DEFINE kind == ImapKind(l.word)
             q == Command(p, l.word, kind, l.tag)
  <2>1. r = ConsumeLiteral(q, l)
    BY <1>4 DEF ImapClientLine, ImapVerb
  <2>2. /\ l.word \in Words /\ kind \in {"upgrade", "auth", "other"} /\ l.tag \in Nat
        /\ l.word = "STARTTLS" => kind = "upgrade"
    BY ImapKindFacts DEF Lines
  <2> HIDE DEF kind
  <2>3. /\ q \in Parsers /\ SameMode(p, q) /\ Moves(p, q)
        /\ kind = "upgrade" => q.upgradeSeen
        /\ q.pending = Append(p.pending, Entry(l.word, kind, l.tag))
    <3>1. q = Command(p, l.word, kind, l.tag)
      OBVIOUS
    <3> HIDE DEF q
    <3>2. q \in Parsers /\ SameMode(p, q) /\ q.pending = Append(p.pending, Entry(l.word, kind, l.tag))
      BY <2>2, <3>1, CommandFacts
    <3>3. Moves(p, q) /\ (kind = "upgrade" => q.upgradeSeen)
      BY <2>2, <3>1, CommandMoves
    <3> QED
      BY <3>2, <3>3
  <2> HIDE DEF q
  <2>4. /\ Moves(q, r) /\ Calm(q, r)
        /\ r.halt <=> q.halt
        /\ l.literal = "none" => r = q
    BY <2>1, <2>3, LiteralMoves
  <2>5. Moves(p, r)
    BY <2>3, <2>4, MovesTransitive
  <2>6. r.body = p.body /\ ~r.awaiting /\ (r.halt <=> p.halt)
    BY <1>4, <2>3, <2>4 DEF SameMode, Calm
  <2>7. q.upgradeSeen => r.upgradeSeen
    BY <2>4 DEF Moves
  <2> QED
    BY <2>2, <2>3, <2>4, <2>5, <2>6, <2>7 DEF SameMode
<1> QED
  BY <1>1, <1>2, <1>3, <1>4

LEMMA CapabilityMoves ==
    ASSUME NEW p \in Parsers, NEW offered, NEW r, r = NoteCapabilities(p, offered)
    PROVE  Moves(p, r)
<1>1. Moves(p, p)
  BY DEF Moves
<1> QED
  BY <1>1, AdvertiseMoves DEF NoteCapabilities

LEMMA UntaggedMoves ==
    ASSUME NEW p \in Parsers, NEW l, NEW r, r = Untagged(p, l)
    PROVE  Moves(p, r) /\ Calm(p, r)
<1> DEFINE first == ~p.greeting /\ p.recognised = 0 /\ l.word = "OK"
           a == AddEvent(p)
           c == NoteCapabilities(a, l.offers /\ (first \/ l.word = "CAPABILITY"))
           g == c.greeting \/ first
<1>1. a \in Parsers /\ Moves(p, a) /\ Calm(p, a)
  BY AddEventMoves, AddEventFacts DEF Keeps, SameMode, Calm
<1>2. c \in Parsers /\ Moves(a, c) /\ Calm(a, c)
  BY <1>1, CapabilityFacts, CapabilityMoves DEF Keeps, SameMode, Calm
<1>3. r = [c EXCEPT !.greeting = g]
  BY <1>2 DEF Untagged
<1>4. g \in BOOLEAN
  BY <1>2 DEF Parsers
<1> HIDE DEF first, a, c, g
<1>5. Moves(c, r)
  <2>1. TRUE \in BOOLEAN /\ << >> \in Seq(BOOLEAN) /\ "none" \in Bodies /\ 0 \in Nat
    BY DEF Bodies
  <2> QED
    BY <1>2, <1>3, <1>4, <2>1, ModeMoves
<1>6. Calm(c, r)
  BY <1>2, <1>3 DEF Parsers, Calm
<1>7. Calm(p, r)
  BY <1>1, <1>2, <1>6 DEF Calm
<1> QED
  BY <1>1, <1>2, <1>5, <1>7, MovesTransitive

(* An answer leaves the last command outstanding unless it is its own.      *)
LastStays(p, tag, r) ==
    p.pending # << >> /\ p.pending[Len(p.pending)].tag # tag
    => r.pending # << >> /\ r.pending[Len(r.pending)] = p.pending[Len(p.pending)]

LEMMA CompleteCommandMoves ==
    ASSUME NEW p \in Parsers, NEW l \in Lines, NEW r, r = CompleteCommand(p, l)
    PROVE  Moves(p, r) /\ Calm(p, r) /\ LastStays(p, l.tag, r)
<1> DEFINE matching == {i \in DOMAIN p.pending : p.pending[i].tag = l.tag}
<1>1. CASE matching = {}
  <2>1. r = AddEvent(p)
    BY <1>1 DEF CompleteCommand
  <2> QED
    BY <2>1, AddEventMoves, AddEventFacts DEF Keeps, SameMode, Calm, LastStays
<1>2. CASE matching # {}
  <2> DEFINE i == CHOOSE m \in matching : \A n \in matching : m <= n
             t == p.pending
             s == SubSeq(t, i + 1, Len(t))
             n == p.matched + 1
             q == [p EXCEPT !.pending = s, !.matched = n]
  <2>1. i \in DOMAIN t /\ t[i].tag = l.tag
    <3>1. matching \in SUBSET Nat
      BY DEF Parsers
    <3>2. \E m \in matching : \A k \in matching : m <= k
      BY <1>2, <3>1, LeastIndex
    <3> QED
      BY <3>2
  <2>2. r = IF IsUpgrade(t[i]) THEN ImapResolve(q, l.word)
            ELSE IF IsAuth(t[i]) THEN ImapFinishAuth(q)
            ELSE AddEvent(NoteCapabilities(q, l.offers /\ t[i].verb = "CAPABILITY"))
    BY <1>2 DEF CompleteCommand
  <2> HIDE DEF i
  <2>3. t \in Seq(Entries) /\ i \in 1..Len(t) /\ n \in Nat
    BY <2>1 DEF Parsers
  <2> HIDE DEF t
  <2>4. s \in Seq(Entries) /\ Len(s) = Len(t) - i
        /\ \A k \in 1..Len(s) : i + k \in DOMAIN t /\ s[k] = t[i + k]
    BY <2>3
  <2> HIDE DEF s, n
  <2>5. /\ q \in Parsers /\ q.pending = s /\ q.body = p.body
        /\ q.events = p.events /\ q.outcome = p.outcome
        /\ q.unsafe <=> p.unsafe
        /\ q.upgradeSeen <=> p.upgradeSeen
        /\ q.requested <=> p.requested
        /\ q.halt <=> p.halt
        /\ q.awaiting <=> p.awaiting
    BY <2>3, <2>4 DEF Parsers
  <2> HIDE DEF q
  <2>6. Popped(p, q) /\ Calm(p, q) /\ (IsUpgrade(t[i]) => Asking(p))
    <3>1. Asking(q) => Asking(p)
      BY <2>4, <2>5 DEF Asking, t
    <3>2. IsUpgrade(t[i]) => Asking(p)
      BY <2>1 DEF Asking, t
    <3> QED
      BY <2>5, <3>1, <3>2 DEF Popped, Calm
  <2>7. LastStays(p, l.tag, q)
    <3> SUFFICES ASSUME t # << >>, t[Len(t)].tag # l.tag
                 PROVE  s # << >> /\ s[Len(s)] = t[Len(t)]
      BY <2>5 DEF LastStays, t
    <3>1. i # Len(t)
      BY <2>1
    <3>2. Len(s) \in 1..Len(s) /\ i + Len(s) = Len(t)
      BY <2>3, <2>4, <3>1
    <3> QED
      BY <2>4, <3>2
  <2>8. q \in Parsers /\ Moves(p, q)
    BY <2>5, <2>6, PoppedMoves
  <2>9. ASSUME Moves(q, r) \/ Moves(p, r), Calm(q, r), r.pending = q.pending
        PROVE  Moves(p, r) /\ Calm(p, r) /\ LastStays(p, l.tag, r)
    <3>1. Moves(p, r)
      BY <2>8, <2>9, MovesTransitive
    <3> QED
      BY <2>6, <2>7, <2>9, <3>1 DEF Calm, LastStays
  <2>10. CASE IsUpgrade(t[i])
    <3> DEFINE o == IF l.word = "OK" THEN "ACCEPTED" ELSE "REJECTED"
    <3>1. r = Resolve(q, o) /\ o \in Outcomes \ {"none"}
      BY <2>2, <2>10 DEF ImapResolve, Outcomes
    <3> HIDE DEF o
    <3>2. Moves(p, r)
      BY <2>5, <2>6, <2>10, <3>1, ResolveMoves
    <3>3. Calm(q, r) /\ r.pending = q.pending
      BY <2>8, <3>1, ResolveFacts DEF Calm
    <3> QED
      BY <2>9, <3>2, <3>3
  <2>11. CASE ~IsUpgrade(t[i]) /\ IsAuth(t[i])
    <3>1. r = [AddEvent(q) EXCEPT !.awaiting = FALSE] /\ FALSE \in BOOLEAN
      BY <2>2, <2>11 DEF ImapFinishAuth
    <3>2. Moves(q, r)
      BY <2>8, <3>1, ContinuationMoves
    <3>3. Calm(q, r) /\ r.pending = q.pending
      BY <2>8, <3>1, ContinuationFacts DEF Calm
    <3> QED
      BY <2>9, <3>2, <3>3
  <2>12. CASE ~IsUpgrade(t[i]) /\ ~IsAuth(t[i])
    <3> DEFINE u == NoteCapabilities(q, l.offers /\ t[i].verb = "CAPABILITY")
    <3>1. r = AddEvent(u)
      BY <2>2, <2>12
    <3>2. Keeps(q, u) /\ Moves(q, u)
      BY <2>8, CapabilityFacts, CapabilityMoves
    <3> HIDE DEF u
    <3>3. Keeps(u, r) /\ Moves(u, r)
      BY <3>1, <3>2, AddEventFacts, AddEventMoves DEF Keeps
    <3>4. Moves(q, r) /\ Keeps(q, r)
      BY <3>2, <3>3, MovesTransitive, KeepsTransitive
    <3>5. Calm(q, r) /\ r.pending = q.pending
      BY <3>4 DEF Keeps, SameMode, Calm
    <3> QED
      BY <2>9, <3>4, <3>5
  <2> QED
    BY <2>10, <2>11, <2>12
<1> QED
  BY <1>1, <1>2

LEMMA ImapServerMoves ==
    ASSUME NEW p \in Parsers, NEW l \in Lines, l.says = "IMAP", NEW r, r = ImapServerLine(p, l)
    PROVE  /\ Moves(p, r) /\ LastStays(p, l.tag, r)
           /\ r.body = p.body
           /\ r.awaiting => p.awaiting \/ (l.word = "+" /\ p.pending # << >>)
           /\ ~l.usable /\ Asking(p) => r.unsafe
<1>1. CASE ~l.usable
  <2>1. r = Unusable(p)
    BY <1>1 DEF ImapServerLine
  <2> QED
    BY <2>1, UnusableFacts, UnusableMoves DEF Keeps, SameMode, LastStays
<1>2. CASE l.usable /\ l.word = "+"
  <2> DEFINE w == AddEvent(p).awaiting \/ Outstanding(p, IsAuth)
             q == [AddEvent(p) EXCEPT !.awaiting = w]
  <2>1. r = ConsumeLiteral(q, l)
    BY <1>2 DEF ImapServerLine
  <2>2. w \in BOOLEAN
    OBVIOUS
  <2>3. Keeps(p, AddEvent(p)) /\ AddEvent(p) \in Parsers
    BY AddEventFacts DEF Keeps
  <2>8. w => p.awaiting \/ p.pending # << >>
    BY <2>3 DEF Keeps, SameMode, Outstanding
  <2> HIDE DEF w
  <2>4. /\ q \in Parsers /\ q.pending = p.pending /\ q.body = p.body
        /\ q.awaiting <=> w
    BY <2>2, <2>3 DEF Parsers, Keeps, SameMode
  <2>5. Moves(p, q)
    BY <2>2, ContinuationMoves
  <2> HIDE DEF q
  <2>6. Moves(q, r) /\ Calm(q, r) /\ r.pending = q.pending
    BY <2>1, <2>4, LiteralMoves, LiteralFacts
  <2>7. Moves(p, r)
    BY <2>5, <2>6, MovesTransitive
  <2> QED
    BY <1>2, <2>4, <2>6, <2>7, <2>8 DEF Calm, LastStays
<1>3. CASE l.usable /\ l.word # "+" /\ l.tag = 0
  <2> DEFINE q == Untagged(p, l)
  <2>1. r = ConsumeLiteral(q, l)
    BY <1>3 DEF ImapServerLine
  <2>2. q \in Parsers /\ q.pending = p.pending /\ Moves(p, q) /\ Calm(p, q)
    BY UntaggedFacts, UntaggedMoves
  <2> HIDE DEF q
  <2>3. Moves(q, r) /\ Calm(q, r) /\ r.pending = q.pending
    <3>1. Moves(q, r) /\ Calm(q, r)
      BY <2>1, <2>2, LiteralMoves
    <3> QED
      BY <2>1, <2>2, <3>1, LiteralFacts
  <2>4. Moves(p, r)
    BY <2>2, <2>3, MovesTransitive
  <2> QED
    BY <1>3, <2>2, <2>3, <2>4 DEF Calm, LastStays
<1>4. CASE l.usable /\ l.word # "+" /\ l.tag # 0
  <2>1. r = CompleteCommand(p, l)
    BY <1>4 DEF ImapServerLine
  <2> QED
    BY <1>4, <2>1, CompleteCommandMoves DEF Calm
<1> QED
  BY <1>1, <1>2, <1>3, <1>4

-----------------------------------------------------------------------------
(* The POP3 parser.                                                         *)
LEMMA Pop3ClientMoves ==
    ASSUME NEW p \in Parsers, NEW l \in Lines, l.says = "POP3", NEW r, r = Pop3ClientLine(p, l)
    PROVE  /\ Moves(p, r)
           /\ r.halt <=> p.halt
           /\ l.usable /\ l.word = "STLS" =>
                 /\ r.upgradeSeen
                 /\ r.stopped <=> p.stopped
                 /\ r.pending = Append(p.pending, Entry(l.word, "upgrade", 0))
<1>1. CASE ~l.usable
  <2>1. r = Unusable(p)
    BY <1>1 DEF Pop3ClientLine
  <2> QED
    BY <1>1, <2>1, UnusableFacts, UnusableMoves DEF Keeps, SameMode
<1>2. CASE l.usable /\ Pop3Verb(l) = NoVerb
  <2>1. r = Foreign(p) /\ l.word # "STLS"
    BY <1>2 DEF Pop3ClientLine, Pop3Verb, Pop3Verbs, NoVerb
  <2> QED
    BY <2>1, ForeignFacts, ForeignMoves DEF Keeps, SameMode
<1>3. CASE l.usable /\ Pop3Verb(l) # NoVerb
  <2> DEFINE kind == Pop3Kind(l.word)
  <2>1. Pop3Verb(l) = l.word
    BY <1>3 DEF Pop3Verb
  <2>2. r = Command(p, l.word, kind, 0)
    BY <1>3, <2>1 DEF Pop3ClientLine
  <2>3. /\ l.word \in Words /\ kind \in {"upgrade", "auth", "other"} /\ 0 \in Nat
        /\ l.word = "STLS" => kind = "upgrade"
    BY Pop3KindFacts DEF Lines
  <2> HIDE DEF kind
  <2>4. r \in Parsers /\ SameMode(p, r) /\ r.pending = Append(p.pending, Entry(l.word, kind, 0))
    BY <2>2, <2>3, CommandFacts
  <2>5. Moves(p, r) /\ (kind = "upgrade" => r.upgradeSeen)
    BY <2>2, <2>3, CommandMoves
  <2> QED
    BY <2>3, <2>4, <2>5 DEF SameMode
<1> QED
  BY <1>1, <1>2, <1>3

LEMMA MultilineMoves ==
    ASSUME NEW p \in Parsers, NEW l \in Lines, NEW r, r = MultilineLine(p, l)
    PROVE  Moves(p, r)
<1>0. /\ TRUE \in BOOLEAN /\ << >> \in Seq(BOOLEAN) /\ "none" \in Bodies /\ 0 \in Nat
  BY DEF Bodies
<1>1. CASE EndsBody(l)
  <2> DEFINE a == [p EXCEPT !.body = "none", !.bodyLines = 0]
             b == AddEvent(a)
             q == [b EXCEPT !.reply = << >>]
  <2>1. r = RecordCapa(a)
    BY <1>1 DEF MultilineLine, EndsBody
  <2>2. a \in Parsers
    BY <1>0 DEF Parsers
  <2>3. Moves(p, a)
    BY <1>0, ModeMoves
  <2>4. r = Advertise(q) \/ r = q
    BY <2>1 DEF RecordCapa
  <2> HIDE DEF a
  <2>5. b \in Parsers /\ Moves(a, b)
    BY <2>2, AddEventMoves
  <2> HIDE DEF b
  <2>6. q \in Parsers
    BY <2>5, <1>0 DEF Parsers
  <2>7. Moves(b, q)
    BY <1>0, <2>5, ModeMoves
  <2> HIDE DEF q
  <2>8. Moves(q, r)
    <3>1. Moves(q, q)
      BY DEF Moves
    <3> QED
      BY <2>4, <2>6, <3>1, AdvertiseMoves
  <2>9. Moves(p, b)
    BY <2>3, <2>5, MovesTransitive
  <2>10. Moves(p, q)
    BY <2>7, <2>9, MovesTransitive
  <2> QED
    BY <2>8, <2>10, MovesTransitive
<1>2. CASE ~EndsBody(l) /\ p.body = "CAPA"
  <2> DEFINE s == Append(p.reply, l.offers)
  <2>1. r = [p EXCEPT !.reply = s] /\ s \in Seq(BOOLEAN)
    BY <1>2 DEF MultilineLine, EndsBody, Parsers, Lines
  <2> HIDE DEF s
  <2> QED
    BY <1>0, <2>1, ModeMoves
<1>3. CASE ~EndsBody(l) /\ p.body # "CAPA"
  <2> DEFINE n == p.bodyLines + 1
             s == p.bodyLines >= MaxBody
  <2>1. r = [p EXCEPT !.bodyLines = n, !.stopped = s] /\ n \in Nat /\ s \in BOOLEAN
    BY <1>3 DEF MultilineLine, EndsBody, Parsers
  <2> HIDE DEF n, s
  <2> QED
    BY <1>0, <2>1, ModeMoves
<1> QED
  BY <1>1, <1>2, <1>3

LEMMA AbandonMoves ==
    ASSUME NEW p \in Parsers, NEW r, r = AbandonMultiline(p)
    PROVE  Moves(p, r)
<1> DEFINE a == AddEvent(p)
<1>1. a \in Parsers /\ Moves(p, a)
  BY AddEventMoves
<1>2. r = p \/ r = [a EXCEPT !.body = "none", !.reply = << >>]
  BY DEF AbandonMultiline
<1> HIDE DEF a
<1>3. CASE r = p
  BY <1>3 DEF Moves
<1>4. CASE r = [a EXCEPT !.body = "none", !.reply = << >>]
  <2>1. /\ TRUE \in BOOLEAN /\ << >> \in Seq(BOOLEAN) /\ "none" \in Bodies /\ 0 \in Nat
    BY DEF Bodies
  <2>2. Moves(a, r)
    BY <1>1, <1>4, <2>1, ModeMoves
  <2> QED
    BY <1>1, <2>2, MovesTransitive
<1> QED
  BY <1>2, <1>3, <1>4

LEMMA Pop3StatusMoves ==
    ASSUME NEW p \in Parsers, NEW status \in Statuses, NEW r, r = Pop3Status(p, status)
    PROVE  Moves(p, r)
<1>0. TRUE \in BOOLEAN /\ << >> \in Seq(BOOLEAN) /\ "none" \in Bodies /\ 0 \in Nat
  BY DEF Bodies
<1>1. CASE p.pending = << >>
  <2> DEFINE a == AddEvent(p)
             g == a.greeting \/ (p.recognised = 0 /\ status = "+OK")
  <2>1. a \in Parsers /\ Moves(p, a)
    BY AddEventMoves
  <2>2. r = [a EXCEPT !.greeting = g] /\ g \in BOOLEAN
    BY <1>1, <2>1 DEF Pop3Status, Pop3Unmatched, Parsers
  <2> HIDE DEF a, g
  <2>3. Moves(a, r)
    BY <1>0, <2>1, <2>2, ModeMoves
  <2> QED
    BY <2>1, <2>3, MovesTransitive
<1>2. CASE p.pending # << >>
  <2> DEFINE c == Head(p.pending)
             q == [p EXCEPT !.pending = Tail(@), !.matched = @ + 1]
  <2>1. q \in Parsers /\ Popped(p, q) /\ Moves(p, q)
    BY <1>2, PopFacts
  <2>2. c \in Entries /\ (IsUpgrade(c) => Asking(p))
    BY <1>2, RestAsks
  <2>3. r = IF IsUpgrade(c) THEN Pop3Resolve(q, status)
            ELSE IF status = "+OK" /\ c.verb \in {"CAPA", "RETR"}
              THEN [q EXCEPT !.body = c.verb, !.bodyLines = 0]
            ELSE IF IsAuth(c) THEN Pop3FinishAuth(q)
            ELSE AddEvent(q)
    BY <1>2 DEF Pop3Status
  <2> HIDE DEF c, q
  <2>4. CASE IsUpgrade(c)
    <3> DEFINE o == IF status = "+OK" THEN "ACCEPTED" ELSE "REJECTED"
    <3>1. r = Resolve(q, o) /\ o \in Outcomes \ {"none"}
      BY <2>3, <2>4 DEF Pop3Resolve, Outcomes
    <3> HIDE DEF o
    <3> QED
      BY <2>1, <2>2, <2>4, <3>1, ResolveMoves
  <2>5. CASE ~IsUpgrade(c) /\ status = "+OK" /\ c.verb \in {"CAPA", "RETR"}
    <3> DEFINE b == c.verb
               n == 0
    <3>1. b \in Bodies /\ n \in Nat /\ r = [q EXCEPT !.body = b, !.bodyLines = n]
      BY <2>3, <2>5 DEF Bodies
    <3> HIDE DEF b, n
    <3>2. Moves(q, r)
      BY <1>0, <2>1, <3>1, ModeMoves
    <3> QED
      BY <2>1, <3>2, MovesTransitive
  <2>6. CASE r = [AddEvent(q) EXCEPT !.awaiting = FALSE]
    <3>1. Moves(q, r)
      BY <2>1, <2>6, ContinuationMoves
    <3> QED
      BY <2>1, <3>1, MovesTransitive
  <2>7. CASE r = AddEvent(q)
    <3>1. Moves(q, r)
      BY <2>1, <2>7, AddEventMoves
    <3> QED
      BY <2>1, <3>1, MovesTransitive
  <2> QED
    BY <2>3, <2>4, <2>5, <2>6, <2>7 DEF Pop3FinishAuth
<1> QED
  BY <1>1, <1>2

LEMMA Pop3ServerMoves ==
    ASSUME NEW p \in Parsers, NEW l \in Lines, NEW r, r = Pop3ServerLine(p, l)
    PROVE  /\ Moves(p, r)
           /\ ~l.usable /\ p.body = "none" /\ Asking(p) => r.unsafe
<1>1. CASE p.body # "none"
  BY <1>1, MultilineMoves DEF Pop3ServerLine
<1>2. CASE p.body = "none" /\ ~l.usable
  BY <1>2, UnusableMoves DEF Pop3ServerLine
<1>3. CASE p.body = "none" /\ l.usable /\ l.word \notin Statuses
  BY <1>3, ForeignMoves DEF Pop3ServerLine, Statuses
<1>4. CASE p.body = "none" /\ l.usable /\ l.word \in Statuses
  BY <1>4, Pop3StatusMoves DEF Pop3ServerLine, Statuses
<1> QED
  BY <1>1, <1>2, <1>3, <1>4

-----------------------------------------------------------------------------
(* The hole before a line.                                                  *)
Holed(p, gap, q) ==
    /\ q \in Parsers /\ Moves(p, q)
    /\ q.halt <=> p.halt
    /\ q.stopped <=> p.stopped
    /\ gap /\ Asking(p) => q.unsafe
    /\ ~gap => q = p

LEMMA HoleMoves ==
    ASSUME NEW p \in Parsers, NEW m \in Lines, NEW q, q = IF m.gap THEN NoteGap(p) ELSE p
    PROVE  Holed(p, m.gap, q)
<1>1. CASE m.gap
  BY <1>1, NoteGapMoves, NoteGapFacts DEF Holed, SameMode
<1>2. CASE ~m.gap
  BY <1>2 DEF Holed, Moves
<1> QED
  BY <1>1, <1>2

LEMMA Pop3HoleMoves ==
    ASSUME NEW p \in Parsers, NEW m \in Lines,
           NEW q, q = IF m.gap THEN AbandonMultiline(NoteGap(p)) ELSE p
    PROVE  Holed(p, m.gap, q)
<1>1. CASE m.gap
  <2> DEFINE g == NoteGap(p)
             a == AddEvent(g)
  <2>1. g \in Parsers /\ Moves(p, g) /\ SameMode(p, g) /\ (Asking(p) => g.unsafe)
    BY NoteGapMoves, NoteGapFacts
  <2>2. q = AbandonMultiline(g)
    BY <1>1
  <2> HIDE DEF g
  <2>3. q \in Parsers /\ Moves(g, q)
    BY <2>1, <2>2, AbandonFacts, AbandonMoves
  <2>4. SameEnd(g, q)
    <3>1. Keeps(g, a)
      BY <2>1, AddEventFacts
    <3>2. q = g \/ q = [a EXCEPT !.body = "none", !.reply = << >>]
      BY <2>2 DEF AbandonMultiline
    <3> HIDE DEF a
    <3>3. CASE q = g
      BY <3>3 DEF SameEnd
    <3>4. CASE q = [a EXCEPT !.body = "none", !.reply = << >>]
      <4>1. SameEnd(a, q)
        BY <3>1, <3>4 DEF Keeps, Parsers, SameEnd
      <4> QED
        BY <3>1, <4>1 DEF Keeps, SameMode, SameEnd
    <3> QED
      BY <3>2, <3>3, <3>4
  <2>5. Moves(p, q)
    BY <2>1, <2>3, MovesTransitive
  <2> QED
    BY <1>1, <2>1, <2>3, <2>4, <2>5 DEF Holed, SameMode, SameEnd, Moves
<1>2. CASE ~m.gap
  BY <1>2 DEF Holed, Moves
<1> QED
  BY <1>1, <1>2

(* What the parser of the protocol that is spoken makes of a line.          *)
LineParse(q, m, fromClient) ==
    IF fromClient
      THEN CASE protocol = "SMTP" -> SmtpClientLine(q, m)
             [] protocol = "IMAP" -> ImapClientLine(q, m)
             [] protocol = "POP3" -> Pop3ClientLine(q, m)
      ELSE CASE protocol = "SMTP" -> SmtpServerLine(q, m)
             [] protocol = "IMAP" -> ImapServerLine(q, m)
             [] protocol = "POP3" -> Pop3ServerLine(q, m)

LEMMA LineParsed ==
    ASSUME DialogueInv, protocol' = protocol, ~Ended(P),
           NEW how \in Treatments, how # "missed",
           NEW d \in Directions, NEW l \in Lines, Conveyed(how, d, l)
    PROVE  \E m \in Lines, q \in Parsers :
              /\ Heard(how, d, l, m) /\ Holed(P, d \in hole, q)
              /\ IF protocol = "POP3" THEN AfterPop3Hole(P, d \in hole, q)
                                      ELSE AfterHole(P, d \in hole, q)
              /\ P' = LineParse(q, m, d = "client")
<1>1. PICK m \in Lines : Heard(how, d, l, m)
  BY DEF Conveyed
<1> DEFINE g == IF m.gap THEN NoteGap(P) ELSE P
           a == IF m.gap THEN AbandonMultiline(NoteGap(P)) ELSE P
<1>2. P \in Parsers /\ protocol \in {"SMTP", "IMAP", "POP3"}
  BY DEF DialogueInv, Protocols
<1>3. P' = Parse(protocol, P, m, d = "client") /\ (m.gap <=> (d \in hole))
  BY <1>1 DEF Heard
<1>4. m.gap \in BOOLEAN
  BY DEF Lines
<1>5. CASE protocol = "POP3"
  <2>1. P' = LineParse(a, m, d = "client")
    BY <1>3, <1>5 DEF Parse, Pop3Parse, LineParse, Ended
  <2>2. Holed(P, m.gap, a)
    BY <1>2, Pop3HoleMoves
  <2>3. AfterPop3Hole(P, m.gap, a)
    <3>1. CASE m.gap
      <4> DEFINE n == NoteGap(P)
      <4>1. n \in Parsers /\ SameClaims(P, n) /\ n.pending = << >>
        BY <1>2, NoteGapFacts
      <4>2. a = AbandonMultiline(n)
        BY <3>1
      <4> HIDE DEF n, a
      <4> QED
        BY <3>1, <4>1, <4>2, AbandonFacts DEF AfterPop3Hole, SameClaims
    <3>2. CASE ~m.gap
      BY <1>2, <3>2 DEF AfterPop3Hole, SameClaims
    <3> QED
      BY <3>1, <3>2
  <2> HIDE DEF a
  <2>4. Holed(P, d \in hole, a) /\ AfterPop3Hole(P, d \in hole, a)
    BY <1>3, <2>2, <2>3 DEF Holed, AfterPop3Hole
  <2> QED
    BY <1>1, <1>5, <2>1, <2>4 DEF Holed
<1>6. CASE protocol # "POP3"
  <2>1. P' = LineParse(g, m, d = "client")
    <3>1. CASE protocol = "SMTP"
      BY <1>3, <3>1 DEF Parse, SmtpParse, LineParse, Ended
    <3>2. CASE protocol = "IMAP"
      BY <1>3, <3>2 DEF Parse, ImapParse, LineParse, Ended
    <3> QED
      BY <1>2, <1>6, <3>1, <3>2
  <2>2. Holed(P, m.gap, g)
    BY <1>2, HoleMoves
  <2>3. AfterHole(P, m.gap, g)
    BY <1>2, GapFacts DEF AfterHole
  <2> HIDE DEF g
  <2>4. Holed(P, d \in hole, g) /\ AfterHole(P, d \in hole, g)
    BY <1>3, <2>2, <2>3 DEF Holed, AfterHole
  <2> QED
    BY <1>1, <1>6, <2>1, <2>4 DEF Holed
<1> QED
  BY <1>5, <1>6

LEMMA AppendAsks ==
    ASSUME NEW p \in Parsers, NEW q \in Parsers, NEW e, q.pending = Append(p.pending, e)
    PROVE  /\ Asking(p) => Asking(q)
           /\ q.pending # << >> /\ q.pending[Len(q.pending)] = e
<1> DEFINE t == p.pending
           s == Append(t, e)
<1>1. t \in Seq(Entries) /\ q.pending = s
  BY DEF Parsers
<1>2. /\ s # << >> /\ Len(s) = Len(t) + 1 /\ s[Len(t) + 1] = e
      /\ \A i \in DOMAIN t : i \in DOMAIN s /\ s[i] = t[i]
  BY <1>1, AppendFacts
<1> HIDE DEF s
<1> QED
  BY <1>1, <1>2 DEF Asking

-----------------------------------------------------------------------------
(* What a client line may do to the parser that follows the dialogue.       *)
AnswerTag(tag) == IF protocol = "IMAP" THEN tag ELSE 0

LastIsUpgrade(p, tag) ==
    /\ p.pending # << >>
    /\ IsUpgrade(p.pending[Len(p.pending)])
    /\ p.pending[Len(p.pending)].tag = tag

ClientEffect(p, how, word, tag, plain, r) ==
    /\ r \in Parsers /\ Moves(p, r)
    /\ r.halt <=> p.halt
    /\ "client" \in hole /\ Asking(p) => r.unsafe
    /\ "client" \notin hole /\ Asking(p) => Asking(r)
    /\ /\ how = "clean" /\ word = UpgradeVerb[protocol] /\ plain
       /\ protocol # "POP3" => p.body = "none" /\ ~p.awaiting
       => /\ r.upgradeSeen /\ (r.stopped <=> p.stopped)
          /\ LastIsUpgrade(r, AnswerTag(tag))
    /\ protocol # "POP3" /\ (protocol = "IMAP" => p.body = "none") =>
          /\ r.body # "none" => p.body # "none" /\ (word # "." \/ "client" \in hole')
          /\ r.awaiting => p.awaiting /\ p.body # "none"
          /\ protocol = "IMAP" => r.body = "none"

LEMMA SmtpClientEffect ==
    ASSUME DialogueInv, protocol = "SMTP", NEW p \in Parsers, NEW q \in Parsers,
           NEW how \in Treatments, NEW l \in Lines, NEW m \in Lines, NEW word, NEW tag,
           SentLine(l, word, tag), Heard(how, "client", l, m),
           Holed(p, "client" \in hole, q), AfterHole(p, "client" \in hole, q),
           NEW r, r = SmtpClientLine(q, m)
    PROVE  ClientEffect(p, how, word, tag, l.literal = "none", r)
<1>1. /\ r \in Parsers
      /\ SmtpReads(q, m) =>
            r.pending = Append(q.pending, Entry(SmtpVerb(m), SmtpKind(SmtpVerb(m)), 0))
      /\ ~SmtpReads(q, m) => r.pending = q.pending
      /\ r.body = IF EndsBody(m) THEN "none" ELSE q.body
      /\ r.awaiting <=> (q.awaiting /\ q.body # "none")
      /\ q.body = "none" => (r.stopped <=> q.stopped)
  BY SmtpClientFacts
<1>2. /\ Moves(q, r)
      /\ r.halt <=> q.halt
      /\ SmtpReads(q, m) /\ SmtpVerb(m) = "STARTTLS" => r.upgradeSeen
  BY SmtpClientMoves
<1>3. /\ Moves(p, q)
      /\ q.halt <=> p.halt
      /\ q.stopped <=> p.stopped
      /\ "client" \in hole /\ Asking(p) => q.unsafe
      /\ "client" \notin hole => q = p
      /\ q.body = p.body
      /\ q.awaiting <=> p.awaiting
  BY DEF Holed, AfterHole, SameMode
<1>4. /\ m.says = "SMTP" /\ m.word = word
      /\ m.usable <=> (how = "clean")
      /\ m.complete \/ "client" \in hole'
  BY DEF Heard, SentLine
<1>5. Moves(p, r) /\ (r.halt <=> p.halt)
  BY <1>2, <1>3, MovesTransitive
<1>6. "client" \in hole /\ Asking(p) => r.unsafe
  BY <1>2, <1>3 DEF Moves
<1>7. Asking(q) => Asking(r)
  <2>1. CASE SmtpReads(q, m)
    BY <1>1, <2>1, AppendAsks
  <2>2. CASE ~SmtpReads(q, m)
    BY <1>1, <2>2 DEF Asking
  <2> QED
    BY <2>1, <2>2
<1>8. ASSUME how = "clean", word = "STARTTLS", p.body = "none", ~p.awaiting
      PROVE  r.upgradeSeen /\ (r.stopped <=> p.stopped) /\ LastIsUpgrade(r, 0)
  <2>1. SmtpVerb(m) = "STARTTLS"
    BY <1>4, <1>8 DEF SmtpVerb
  <2>2. SmtpReads(q, m)
    BY <1>3, <1>4, <1>8, <2>1 DEF SmtpReads, NoVerb
  <2> DEFINE e == Entry("STARTTLS", "upgrade", 0)
  <2>3. r.pending = Append(q.pending, e)
    BY <1>1, <2>1, <2>2, SmtpKindFacts
  <2>4. IsUpgrade(e) /\ e.tag = 0
    BY DEF IsUpgrade, Entry
  <2> HIDE DEF e
  <2>5. LastIsUpgrade(r, 0)
    BY <1>1, <2>3, <2>4, AppendAsks DEF LastIsUpgrade
  <2> QED
    BY <1>1, <1>2, <1>3, <1>8, <2>1, <2>2, <2>5
<1>9. /\ r.body # "none" => p.body # "none" /\ (word # "." \/ "client" \in hole')
      /\ r.awaiting => p.awaiting /\ p.body # "none"
  BY <1>1, <1>3, <1>4 DEF EndsBody
<1> QED
  BY <1>1, <1>3, <1>5, <1>6, <1>7, <1>8, <1>9 DEF ClientEffect, AnswerTag, UpgradeVerb

LEMMA ImapClientEffect ==
    ASSUME DialogueInv, protocol = "IMAP", NEW p \in Parsers, NEW q \in Parsers,
           NEW how \in Treatments, NEW l \in Lines, NEW m \in Lines, NEW word, NEW tag,
           SentLine(l, word, tag), Heard(how, "client", l, m),
           Holed(p, "client" \in hole, q), AfterHole(p, "client" \in hole, q),
           NEW r, r = ImapClientLine(q, m)
    PROVE  ClientEffect(p, how, word, tag, l.literal = "none", r)
<1>4. /\ m.says = "IMAP" /\ m.word = word /\ m.tag = tag /\ m.literal = l.literal
      /\ m.usable <=> (how = "clean")
  BY DEF Heard, SentLine
<1>1. /\ r \in Parsers
      /\ \/ r.pending = q.pending
         \/ r.pending = Append(q.pending, Entry(m.word, ImapKind(m.word), m.tag))
  BY <1>4, ImapClientFacts
<1>2. /\ Moves(q, r) /\ r.body = q.body /\ ~r.awaiting
      /\ r.halt <=> q.halt
      /\ ImapReads(q, m) /\ m.word = "STARTTLS" =>
            /\ r.upgradeSeen
            /\ m.literal = "none" =>
                  /\ r.stopped <=> q.stopped
                  /\ r.pending = Append(q.pending, Entry(m.word, "upgrade", m.tag))
  BY <1>4, ImapClientMoves
<1>3. /\ Moves(p, q)
      /\ q.halt <=> p.halt
      /\ q.stopped <=> p.stopped
      /\ "client" \in hole /\ Asking(p) => q.unsafe
      /\ "client" \notin hole => q = p
      /\ q.body = p.body
      /\ q.awaiting <=> p.awaiting
  BY DEF Holed, AfterHole, SameMode
<1>5. Moves(p, r) /\ (r.halt <=> p.halt)
  BY <1>2, <1>3, MovesTransitive
<1>6. "client" \in hole /\ Asking(p) => r.unsafe
  BY <1>2, <1>3 DEF Moves
<1>7. Asking(q) => Asking(r)
  <2>1. CASE r.pending = q.pending
    BY <2>1 DEF Asking
  <2>2. CASE r.pending # q.pending
    BY <1>1, <2>2, AppendAsks
  <2> QED
    BY <2>1, <2>2
<1>8. ASSUME how = "clean", word = "STARTTLS", l.literal = "none", ~p.awaiting
      PROVE  r.upgradeSeen /\ (r.stopped <=> p.stopped) /\ LastIsUpgrade(r, tag)
  <2>1. ImapReads(q, m)
    BY <1>3, <1>4, <1>8 DEF ImapReads
  <2> DEFINE e == Entry("STARTTLS", "upgrade", tag)
  <2>2. r.pending = Append(q.pending, e)
    BY <1>2, <1>4, <1>8, <2>1
  <2>3. IsUpgrade(e) /\ e.tag = tag
    BY DEF IsUpgrade, Entry
  <2> HIDE DEF e
  <2>4. LastIsUpgrade(r, tag)
    BY <1>1, <2>2, <2>3, AppendAsks DEF LastIsUpgrade
  <2> QED
    BY <1>2, <1>3, <1>4, <1>8, <2>1, <2>4
<1> QED
  BY <1>1, <1>2, <1>3, <1>5, <1>6, <1>7, <1>8 DEF ClientEffect, AnswerTag, UpgradeVerb

LEMMA Pop3ClientEffect ==
    ASSUME DialogueInv, protocol = "POP3", NEW p \in Parsers, NEW q \in Parsers,
           NEW how \in Treatments, NEW l \in Lines, NEW m \in Lines, NEW word, NEW tag,
           SentLine(l, word, tag), Heard(how, "client", l, m),
           Holed(p, "client" \in hole, q),
           NEW r, r = Pop3ClientLine(q, m)
    PROVE  ClientEffect(p, how, word, tag, l.literal = "none", r)
<1>4. /\ m.says = "POP3" /\ m.word = word
      /\ m.usable <=> (how = "clean")
  BY DEF Heard, SentLine
<1>1. /\ r \in Parsers
      /\ \/ r.pending = q.pending
         \/ r.pending = Append(q.pending, Entry(m.word, Pop3Kind(m.word), 0))
  BY Pop3ClientFacts
<1>2. /\ Moves(q, r)
      /\ r.halt <=> q.halt
      /\ m.usable /\ m.word = "STLS" =>
            /\ r.upgradeSeen
            /\ r.stopped <=> q.stopped
            /\ r.pending = Append(q.pending, Entry(m.word, "upgrade", 0))
  BY <1>4, Pop3ClientMoves
<1>3. /\ Moves(p, q)
      /\ q.halt <=> p.halt
      /\ q.stopped <=> p.stopped
      /\ "client" \in hole /\ Asking(p) => q.unsafe
      /\ "client" \notin hole => q = p
  BY DEF Holed
<1>5. Moves(p, r) /\ (r.halt <=> p.halt)
  BY <1>2, <1>3, MovesTransitive
<1>6. "client" \in hole /\ Asking(p) => r.unsafe
  BY <1>2, <1>3 DEF Moves
<1>7. Asking(q) => Asking(r)
  <2>1. CASE r.pending = q.pending
    BY <2>1 DEF Asking
  <2>2. CASE r.pending # q.pending
    BY <1>1, <2>2, AppendAsks
  <2> QED
    BY <2>1, <2>2
<1>8. ASSUME how = "clean", word = "STLS"
      PROVE  r.upgradeSeen /\ (r.stopped <=> p.stopped) /\ LastIsUpgrade(r, 0)
  <2> DEFINE e == Entry("STLS", "upgrade", 0)
  <2>1. r.pending = Append(q.pending, e)
    BY <1>2, <1>4, <1>8
  <2>2. IsUpgrade(e) /\ e.tag = 0
    BY DEF IsUpgrade, Entry
  <2> HIDE DEF e
  <2>4. r \in Parsers
    BY <1>1
  <2>5. r.pending # << >> /\ r.pending[Len(r.pending)] = e
    BY <2>1, <2>4, AppendAsks
  <2>3. LastIsUpgrade(r, 0)
    BY <2>2, <2>5 DEF LastIsUpgrade
  <2> QED
    BY <1>2, <1>3, <1>4, <1>8, <2>3
<1> QED
  BY <1>1, <1>3, <1>5, <1>6, <1>7, <1>8 DEF ClientEffect, AnswerTag, UpgradeVerb

LEMMA ClientStep ==
    ASSUME DialogueInv, protocol' = protocol, ~Ended(P),
           NEW how \in Treatments, how # "missed", NEW l \in Lines, NEW word, NEW tag,
           SentLine(l, word, tag), Conveyed(how, "client", l)
    PROVE  ClientEffect(P, how, word, tag, l.literal = "none", P')
<1>1. PICK m \in Lines, q \in Parsers :
         /\ Heard(how, "client", l, m) /\ Holed(P, "client" \in hole, q)
         /\ IF protocol = "POP3" THEN AfterPop3Hole(P, "client" \in hole, q)
                                 ELSE AfterHole(P, "client" \in hole, q)
         /\ P' = LineParse(q, m, "client" = "client")
  BY LineParsed DEF Directions
<1>2. P \in Parsers /\ protocol \in {"SMTP", "IMAP", "POP3"}
  BY DEF DialogueInv, Protocols
<1> DEFINE r == P'
<1>3. CASE protocol = "SMTP"
  <2>1. r = SmtpClientLine(q, m)
    BY <1>1, <1>3 DEF LineParse
  <2> HIDE DEF r
  <2>2. ClientEffect(P, how, word, tag, l.literal = "none", r)
    BY <1>1, <1>2, <1>3, <2>1, SmtpClientEffect
  <2> QED
    BY <2>2 DEF r
<1>4. CASE protocol = "IMAP"
  <2>1. r = ImapClientLine(q, m)
    BY <1>1, <1>4 DEF LineParse
  <2> HIDE DEF r
  <2>2. ClientEffect(P, how, word, tag, l.literal = "none", r)
    BY <1>1, <1>2, <1>4, <2>1, ImapClientEffect
  <2> QED
    BY <2>2 DEF r
<1>5. CASE protocol = "POP3"
  <2>1. r = Pop3ClientLine(q, m)
    BY <1>1, <1>5 DEF LineParse
  <2> HIDE DEF r
  <2>2. ClientEffect(P, how, word, tag, l.literal = "none", r)
    BY <1>1, <1>2, <1>5, <2>1, Pop3ClientEffect
  <2> QED
    BY <2>2 DEF r
<1> QED
  BY <1>2, <1>3, <1>4, <1>5

-----------------------------------------------------------------------------
(* What a server line may do to the parser that follows the dialogue.       *)
Busy(p) == p.body # "none" \/ p.awaiting \/ p.pending # << >>

ServerEffect(p, how, word, tag, r) ==
    /\ r \in Parsers /\ Moves(p, r)
    /\ "server" \in hole /\ Asking(p) => r.unsafe
    /\ how # "clean" /\ Asking(p) /\ (protocol = "POP3" => p.body = "none") => r.unsafe
    /\ protocol = "IMAP" => r.body = p.body /\ ("server" \notin hole => LastStays(p, tag, r))
    /\ protocol # "POP3" =>
          /\ r.body # "none" => p.body # "none" \/ word = "354"
          /\ r.awaiting => p.awaiting \/ word \in {"334", "+"}
          /\ Busy(r) => Busy(p)

LEMMA SmtpServerEffect ==
    ASSUME DialogueInv, protocol = "SMTP", NEW p \in Parsers, NEW q \in Parsers,
           NEW how \in Treatments, NEW l \in Lines, NEW m \in Lines, NEW word, NEW tag,
           SentLine(l, word, tag), Heard(how, "server", l, m),
           Holed(p, "server" \in hole, q), AfterHole(p, "server" \in hole, q),
           NEW r, r = SmtpServerLine(q, m)
    PROVE  ServerEffect(p, how, word, tag, r)
<1>1. /\ r \in Parsers
      /\ ~SmtpFinal(m) \/ q.pending = << >> => Keeps(q, r)
      /\ SmtpFinal(m) /\ SmtpCalls(q, m.word) =>
            /\ SameClaims(q, r) /\ SameEnd(q, r) /\ r.pending = q.pending
            /\ Head(q.pending).verb = "DATA" /\ m.word = "354" =>
                  r.body = "DATA" /\ (r.awaiting <=> q.awaiting)
            /\ ~(Head(q.pending).verb = "DATA" /\ m.word = "354") =>
                  r.body = q.body /\ r.awaiting
      /\ SmtpFinal(m) /\ q.pending # << >> /\ ~SmtpCalls(q, m.word) =>
            SmtpAnswered(q, m.word, r)
  BY SmtpServerFacts
<1>2. Moves(q, r) /\ (~m.usable /\ Asking(q) => r.unsafe)
  BY SmtpServerMoves
<1>3. /\ Moves(p, q)
      /\ "server" \in hole /\ Asking(p) => q.unsafe
      /\ "server" \notin hole => q = p
      /\ q.body = p.body
      /\ q.awaiting <=> p.awaiting
      /\ q.pending # << >> => p.pending # << >>
  BY DEF Holed, AfterHole, SameMode
<1>4. m.word = word /\ (m.usable <=> (how = "clean"))
  BY DEF Heard, SentLine
<1>5. Moves(p, r)
  BY <1>2, <1>3, MovesTransitive
<1>6. "server" \in hole /\ Asking(p) => r.unsafe
  BY <1>2, <1>3 DEF Moves
<1>7. how # "clean" /\ Asking(p) => r.unsafe
  BY <1>2, <1>3, <1>4, <1>6
<1>8. /\ r.body # "none" => q.body # "none" \/ (word = "354" /\ q.pending # << >>)
      /\ r.awaiting => q.awaiting \/ (word = "334" /\ q.pending # << >>)
      /\ r.pending # << >> => q.pending # << >>
  <2>1. CASE ~SmtpFinal(m) \/ q.pending = << >>
    BY <1>1, <2>1 DEF Keeps, SameMode
  <2>2. CASE SmtpFinal(m) /\ SmtpCalls(q, m.word)
    BY <1>1, <1>4, <2>2 DEF SmtpCalls
  <2>3. CASE SmtpFinal(m) /\ q.pending # << >> /\ ~SmtpCalls(q, m.word)
    BY <1>1, <2>3 DEF SmtpAnswered
  <2> QED
    BY <2>1, <2>2, <2>3
<1>9. /\ r.body # "none" => p.body # "none" \/ word = "354"
      /\ r.awaiting => p.awaiting \/ word \in {"334", "+"}
      /\ Busy(r) => Busy(p)
  BY <1>3, <1>8 DEF Busy
<1> QED
  BY <1>1, <1>5, <1>6, <1>7, <1>9 DEF ServerEffect

LEMMA ImapServerEffect ==
    ASSUME DialogueInv, protocol = "IMAP", NEW p \in Parsers, NEW q \in Parsers,
           NEW how \in Treatments, NEW l \in Lines, NEW m \in Lines, NEW word, NEW tag,
           SentLine(l, word, tag), Heard(how, "server", l, m),
           Holed(p, "server" \in hole, q), AfterHole(p, "server" \in hole, q),
           NEW r, r = ImapServerLine(q, m)
    PROVE  ServerEffect(p, how, word, tag, r)
<1>4. m.says = "IMAP" /\ m.word = word /\ m.tag = tag /\ (m.usable <=> (how = "clean"))
  BY DEF Heard, SentLine
<1>1. r \in Parsers /\ Within(r.pending, q.pending)
  BY <1>4, ImapServerFacts DEF ImapAnswered
<1>2. /\ Moves(q, r) /\ LastStays(q, tag, r)
      /\ r.body = q.body
      /\ r.awaiting => q.awaiting \/ (word = "+" /\ q.pending # << >>)
      /\ ~m.usable /\ Asking(q) => r.unsafe
  BY <1>4, ImapServerMoves
<1>3. /\ Moves(p, q)
      /\ "server" \in hole /\ Asking(p) => q.unsafe
      /\ "server" \notin hole => q = p
      /\ q.body = p.body
      /\ q.awaiting <=> p.awaiting
      /\ q.pending # << >> => p.pending # << >>
  BY DEF Holed, AfterHole, SameMode
<1>5. Moves(p, r)
  BY <1>2, <1>3, MovesTransitive
<1>6. "server" \in hole /\ Asking(p) => r.unsafe
  BY <1>2, <1>3 DEF Moves
<1>7. how # "clean" /\ Asking(p) => r.unsafe
  BY <1>2, <1>3, <1>4, <1>6
<1>8. r.pending # << >> => q.pending # << >>
  <2> DEFINE t == q.pending
             s == r.pending
  <2>1. s \in Seq(Entries) /\ Within(s, t)
    BY <1>1 DEF Parsers
  <2> SUFFICES ASSUME t = << >>, s # << >>
               PROVE  FALSE
    OBVIOUS
  <2> HIDE DEF s, t
  <2>2. 1 \in DOMAIN s /\ DOMAIN t = {}
    BY <2>1
  <2> QED
    BY <2>1, <2>2 DEF Within
<1>9. /\ r.awaiting => p.awaiting \/ word \in {"334", "+"}
      /\ Busy(r) => Busy(p)
  BY <1>2, <1>3, <1>8 DEF Busy
<1> QED
  BY <1>1, <1>2, <1>3, <1>5, <1>6, <1>7, <1>9 DEF ServerEffect

LEMMA Pop3ServerEffect ==
    ASSUME DialogueInv, protocol = "POP3", NEW p \in Parsers, NEW q \in Parsers,
           NEW how \in Treatments, NEW l \in Lines, NEW m \in Lines, NEW word, NEW tag,
           SentLine(l, word, tag), Heard(how, "server", l, m),
           Holed(p, "server" \in hole, q),
           NEW r, r = Pop3ServerLine(q, m)
    PROVE  ServerEffect(p, how, word, tag, r)
<1>1. r \in Parsers
  BY Pop3ServerFacts
<1>2. Moves(q, r) /\ (~m.usable /\ q.body = "none" /\ Asking(q) => r.unsafe)
  BY Pop3ServerMoves
<1>3. /\ Moves(p, q)
      /\ "server" \in hole /\ Asking(p) => q.unsafe
      /\ "server" \notin hole => q = p
  BY DEF Holed
<1>4. m.usable <=> (how = "clean")
  BY DEF Heard
<1>5. Moves(p, r)
  BY <1>2, <1>3, MovesTransitive
<1>6. "server" \in hole /\ Asking(p) => r.unsafe
  BY <1>2, <1>3 DEF Moves
<1>7. how # "clean" /\ Asking(p) /\ p.body = "none" => r.unsafe
  BY <1>2, <1>3, <1>4, <1>6
<1> QED
  BY <1>1, <1>5, <1>6, <1>7 DEF ServerEffect

LEMMA ServerStep ==
    ASSUME DialogueInv, protocol' = protocol, ~Ended(P),
           NEW how \in Treatments, how # "missed", NEW l \in Lines, NEW word, NEW tag,
           SentLine(l, word, tag), Conveyed(how, "server", l)
    PROVE  ServerEffect(P, how, word, tag, P')
<1>1. PICK m \in Lines, q \in Parsers :
         /\ Heard(how, "server", l, m) /\ Holed(P, "server" \in hole, q)
         /\ IF protocol = "POP3" THEN AfterPop3Hole(P, "server" \in hole, q)
                                 ELSE AfterHole(P, "server" \in hole, q)
         /\ P' = LineParse(q, m, "server" = "client")
  BY LineParsed DEF Directions
<1>2. P \in Parsers /\ protocol \in {"SMTP", "IMAP", "POP3"}
  BY DEF DialogueInv, Protocols
<1> DEFINE r == P'
<1>3. CASE protocol = "SMTP"
  <2>1. r = SmtpServerLine(q, m)
    BY <1>1, <1>3 DEF LineParse
  <2> HIDE DEF r
  <2>2. ServerEffect(P, how, word, tag, r)
    BY <1>1, <1>2, <1>3, <2>1, SmtpServerEffect
  <2> QED
    BY <2>2 DEF r
<1>4. CASE protocol = "IMAP"
  <2>1. r = ImapServerLine(q, m)
    BY <1>1, <1>4 DEF LineParse
  <2> HIDE DEF r
  <2>2. ServerEffect(P, how, word, tag, r)
    BY <1>1, <1>2, <1>4, <2>1, ImapServerEffect
  <2> QED
    BY <2>2 DEF r
<1>5. CASE protocol = "POP3"
  <2>1. r = Pop3ServerLine(q, m)
    BY <1>1, <1>5 DEF LineParse
  <2> HIDE DEF r
  <2>2. ServerEffect(P, how, word, tag, r)
    BY <1>1, <1>2, <1>5, <2>1, Pop3ServerEffect
  <2> QED
    BY <2>2 DEF r
<1> QED
  BY <1>2, <1>3, <1>4, <1>5

-----------------------------------------------------------------------------
(* What keeps an upgrade command from being missed, and a touched           *)
(* negotiation from being claimed.  BooksInv: the books are in order.       *)
(* QueueInv: nothing follows a command that waits for its answer.           *)
(* HeardInv: a captured upgrade command is the last one that the parser     *)
(* holds.  TouchInv: once a fault met it, the negotiation is unsafe, or a   *)
(* hole in front of the server's next line will make it so.  ModeInv: a     *)
(* mode that outlives its phase has a hole in front of the client's next    *)
(* line.  ReqInv: a captured upgrade command was seen.                      *)
Relevant == ~truth.leading /\ (protocol # "IMAP" => ~truth.pipelined)
Still(p) == p.stopped /\ ~p.halt
Settled(p) == p.unsafe \/ Still(p)

BooksInv == Books(P)

QueueInv ==
    /\ \A i \in DOMAIN queue : i < Len(queue) => queue[i].verb \notin Waits
    /\ ~truth.pipelined => Len(queue) <= 1
    /\ protocol = "IMAP" =>
          \A i, j \in DOMAIN queue : i < j => queue[i].tag < queue[j].tag
    /\ truth.accepted => phase = "tls"

HeardInv ==
    Relevant /\ HeardUpgradeOutstanding =>
      /\ phase = "command"
      /\ protocol = "POP3" => ~truth.skewed
      /\ Settled(P) \/ (~Ended(P) /\ LastIsUpgrade(P, queue[Len(queue)].tag))

TouchInv ==
    Relevant /\ truth.touched =>
      Settled(P) \/ (~Ended(P) /\ Asking(P) /\ "server" \in hole)

ModeInv ==
    protocol # "POP3" =>
      /\ protocol = "IMAP" => P.body = "none"
      /\ Busy(P) => "client" \in seen
      /\ ~truth.stale /\ ~Ended(P) =>
           /\ P.body # "none" => phase = "content" \/ "client" \in hole
           /\ P.awaiting => phase = "sasl" \/ "client" \in hole

ReqInv == truth.requested /\ ~truth.stale /\ ~P.stopped => P.upgradeSeen

ClaimInv == BooksInv /\ QueueInv /\ HeardInv /\ TouchInv /\ ModeInv /\ ReqInv

LEMMA LastAsks ==
    ASSUME NEW p \in Parsers, NEW tag, LastIsUpgrade(p, tag)
    PROVE  Asking(p)
<1> DEFINE s == p.pending
<1>1. s \in Seq(Entries) /\ s # << >> /\ IsUpgrade(s[Len(s)])
  BY DEF LastIsUpgrade, Parsers
<1> HIDE DEF s
<1>2. Len(s) \in DOMAIN s
  BY <1>1
<1> QED
  BY <1>1, <1>2 DEF Asking, s

(* A line that was missed, or comes after the end, changes no parser; what  *)
(* was said of the truth stays said.                                        *)
LEMMA LineFrame ==
    ASSUME DialogueInv, protocol' = protocol,
           NEW how \in Treatments, NEW d \in Directions, NEW l \in Lines,
           Conveyed(how, d, l)
    PROVE  /\ how = "missed" \/ Ended(P) => P' = P
           /\ truth.leading => truth'.leading
           /\ truth.skewed => truth'.skewed
           /\ truth.stale => truth'.stale
           /\ truth.requested => truth'.requested
           /\ truth.touched => truth'.touched
           /\ seen \subseteq seen'
           /\ how # "missed" => d \in seen'
           /\ hole \ {d} \subseteq hole'
           /\ how = "missed" /\ d \in seen => d \in hole'
           /\ how = "missed" => hole \subseteq hole'
<1>1. /\ truth.leading => truth'.leading
      /\ truth.skewed => truth'.skewed
      /\ truth.stale => truth'.stale
      /\ truth.requested => truth'.requested
      /\ truth.touched => truth'.touched
      /\ seen \subseteq seen'
      /\ how # "missed" => d \in seen'
  BY DEF Conveyed, Noted
<1>2. how = "missed" => /\ P' = P /\ hole \subseteq hole'
                        /\ d \in seen => d \in hole'
  BY DEF Conveyed, Noted
<1>3. CASE how = "missed"
  BY <1>1, <1>2, <1>3
<1>4. CASE how # "missed"
  <2>1. PICK m \in Lines : Heard(how, d, l, m)
    BY <1>4 DEF Conveyed
  <2>2. hole \ {d} \subseteq hole'
    BY <2>1 DEF Heard
  <2>3. Ended(P) => P' = P
    <3>1. protocol \in {"SMTP", "IMAP", "POP3"}
      BY DEF DialogueInv, Protocols
    <3>2. P' = Parse(protocol, P, m, d = "client")
      BY <2>1 DEF Heard
    <3> QED
      BY <3>1, <3>2 DEF Parse, SmtpParse, ImapParse, Pop3Parse, Ended
  <2> QED
    BY <1>1, <1>4, <2>2, <2>3
<1> QED
  BY <1>3, <1>4

LEMMA StaysRelevant ==
    ASSUME DialogueInv, protocol' = protocol,
           NEW how \in Treatments, NEW d \in Directions, NEW l \in Lines,
           Conveyed(how, d, l), truth.pipelined => truth'.pipelined
    PROVE  Relevant' => Relevant
  BY LineFrame DEF Relevant

LEMMA BooksStep ==
    ASSUME DialogueInv, BooksInv, protocol' = protocol,
           NEW how \in Treatments, NEW d \in Directions, NEW l \in Lines, NEW word, NEW tag,
           SentLine(l, word, tag), Conveyed(how, d, l)
    PROVE  BooksInv'
<1> DEFINE r == P'
<1>1. CASE how = "missed" \/ Ended(P)
  <2>1. r = P
    BY <1>1, LineFrame
  <2>2. Books(r)
    BY <2>1 DEF BooksInv
  <2> QED
    BY <2>2 DEF BooksInv, Books, Asking, AcceptedIn, Room
<1>2. CASE how # "missed" /\ ~Ended(P)
  <2>1. CASE d = "client"
    <3>1. Moves(P, r)
      BY <1>2, <2>1, ClientStep DEF ClientEffect
    <3>2. Books(r)
      BY <3>1 DEF BooksInv, Moves
    <3> QED
      BY <3>2 DEF BooksInv, Books, Asking, AcceptedIn, Room
  <2>2. CASE d = "server"
    <3>1. Moves(P, r)
      BY <1>2, <2>2, ServerStep DEF ServerEffect
    <3>2. Books(r)
      BY <3>1 DEF BooksInv, Moves
    <3> QED
      BY <3>2 DEF BooksInv, Books, Asking, AcceptedIn, Room
  <2> QED
    BY <2>1, <2>2 DEF Directions
<1> QED
  BY <1>1, <1>2

Touches(r) == Settled(r) \/ (~Ended(r) /\ Asking(r) /\ "server" \in hole')

LEMMA TouchGoal ==
    ASSUME Relevant' /\ truth'.touched => Touches(P')
    PROVE  TouchInv'
  BY DEF TouchInv, Touches, Settled, Still, Ended, Asking

LEMMA ClientTouch ==
    ASSUME DialogueInv, TouchInv, protocol' = protocol,
           NEW how \in Treatments, NEW l \in Lines, NEW word, NEW tag,
           SentLine(l, word, tag), Conveyed(how, "client", l),
           truth.pipelined => truth'.pipelined,
           Relevant => ~HeardUpgradeOutstanding
    PROVE  TouchInv'
<1> DEFINE r == P'
<1>0. "client" \in Directions
  BY DEF Directions
<1> SUFFICES ASSUME Relevant', truth'.touched
             PROVE  Touches(r)
  BY TouchGoal
<1>1. Relevant
  BY <1>0, StaysRelevant
<1>2. truth.touched
  BY <1>1 DEF Conveyed, Noted
<1>3. Settled(P) \/ (~Ended(P) /\ Asking(P) /\ "server" \in hole)
  BY <1>1, <1>2 DEF TouchInv
<1>4. "server" \in hole => "server" \in hole'
  BY <1>0, LineFrame
<1>5. CASE how = "missed" \/ Ended(P)
  <2>1. r = P
    BY <1>0, <1>5, LineFrame
  <2> QED
    BY <1>3, <1>4, <2>1 DEF Touches
<1>6. CASE how # "missed" /\ ~Ended(P)
  <2>1. /\ Moves(P, r)
        /\ r.halt <=> P.halt
        /\ "client" \in hole /\ Asking(P) => r.unsafe
        /\ "client" \notin hole /\ Asking(P) => Asking(r)
    BY <1>6, ClientStep DEF ClientEffect
  <2> HIDE DEF r
  <2>2. P.unsafe => r.unsafe
    BY <2>1 DEF Moves
  <2>3. ~Still(P)
    BY <1>6 DEF Still, Ended
  <2> QED
    BY <1>3, <1>4, <1>6, <2>1, <2>2, <2>3 DEF Touches, Settled, Still, Ended
<1> QED
  BY <1>5, <1>6

LEMMA ServerTouch ==
    ASSUME DialogueInv, Pop3Inv, TouchInv, HeardInv, protocol' = protocol,
           NEW how \in Treatments, NEW l \in Lines, NEW word, NEW tag,
           SentLine(l, word, tag), Conveyed(how, "server", l),
           truth.pipelined => truth'.pipelined
    PROVE  TouchInv'
<1> DEFINE r == P'
<1>0. "server" \in Directions /\ P \in Parsers
  BY DEF Directions, DialogueInv
<1> SUFFICES ASSUME Relevant', truth'.touched
             PROVE  Touches(r)
  BY TouchGoal
<1>1. Relevant /\ ~truth'.leading
  BY <1>0, StaysRelevant DEF Relevant
<1>2. how = "missed" => "server" \in hole'
  BY <1>1 DEF Conveyed
<1>3. \/ Settled(P)
      \/ ~Ended(P) /\ Asking(P) /\ "server" \in hole
      \/ /\ how # "clean" /\ ~Ended(P) /\ Asking(P)
         /\ protocol = "POP3" => P.body = "none" \/ "server" \in hole
  <2>1. CASE truth.touched
    BY <1>1, <2>1 DEF TouchInv
  <2>2. CASE ~truth.touched
    <3>1. how # "clean" /\ HeardUpgradeOutstanding
      BY <2>2 DEF Conveyed, Noted
    <3>2. /\ phase = "command"
          /\ protocol = "POP3" => ~truth.skewed
          /\ Settled(P) \/ (~Ended(P) /\ LastIsUpgrade(P, queue[Len(queue)].tag))
      BY <1>1, <3>1 DEF HeardInv
    <3>3. LastIsUpgrade(P, queue[Len(queue)].tag) => Asking(P)
      BY <1>0, LastAsks
    <3>4. protocol = "POP3" /\ ~Ended(P) => P.body = "none" \/ "server" \in hole
      BY <1>1, <3>2 DEF Relevant, Paired, Pop3Inv
    <3> QED
      BY <3>1, <3>2, <3>3, <3>4
  <2> QED
    BY <2>1, <2>2
<1>4. CASE Ended(P)
  <2>1. r = P
    BY <1>0, <1>4, LineFrame
  <2> QED
    BY <1>3, <1>4, <2>1 DEF Touches
<1>5. CASE how = "missed" /\ ~Ended(P)
  <2>1. r = P
    BY <1>0, <1>5, LineFrame
  <2> QED
    BY <1>2, <1>3, <1>5, <2>1 DEF Touches
<1>6. CASE how # "missed" /\ ~Ended(P)
  <2>1. /\ Moves(P, r)
        /\ "server" \in hole /\ Asking(P) => r.unsafe
        /\ how # "clean" /\ Asking(P) /\ (protocol = "POP3" => P.body = "none") => r.unsafe
    BY <1>6, ServerStep DEF ServerEffect
  <2> HIDE DEF r
  <2>2. P.unsafe => r.unsafe
    BY <2>1 DEF Moves
  <2>3. ~Still(P)
    BY <1>6 DEF Still, Ended
  <2>4. r.unsafe
    BY <1>3, <1>6, <2>1, <2>2, <2>3 DEF Settled
  <2> QED
    BY <2>4 DEF Touches, Settled
<1> QED
  BY <1>4, <1>5, <1>6

Modes(r) ==
    /\ protocol = "IMAP" => r.body = "none"
    /\ Busy(r) => "client" \in seen'
    /\ ~truth'.stale /\ ~Ended(r) =>
         /\ r.body # "none" => phase' = "content" \/ "client" \in hole'
         /\ r.awaiting => phase' = "sasl" \/ "client" \in hole'

LEMMA ModeGoal ==
    ASSUME protocol' = protocol, protocol # "POP3" => Modes(P')
    PROVE  ModeInv'
  BY DEF ModeInv, Modes, Busy, Ended

LEMMA ClientMode ==
    ASSUME DialogueInv, ModeInv, protocol' = protocol,
           NEW how \in Treatments, NEW l \in Lines, NEW word, NEW tag,
           SentLine(l, word, tag), Conveyed(how, "client", l),
           phase = "content" /\ phase' # "content" => word = "."
    PROVE  ModeInv'
<1> DEFINE r == P'
<1>0. "client" \in Directions
  BY DEF Directions
<1> SUFFICES ASSUME protocol # "POP3"
             PROVE  Modes(r)
  BY ModeGoal
<1>1. CASE how = "missed"
  <2>1. r = P /\ seen \subseteq seen' /\ ("client" \in seen => "client" \in hole')
    BY <1>0, <1>1, LineFrame
  <2>2. Busy(P) => "client" \in seen
    BY DEF ModeInv
  <2>3. protocol = "IMAP" => P.body = "none"
    BY DEF ModeInv
  <2> QED
    BY <2>1, <2>2, <2>3 DEF Modes, Busy
<1>2. CASE how # "missed" /\ Ended(P)
  <2>1. r = P /\ "client" \in seen'
    BY <1>0, <1>2, LineFrame
  <2> QED
    BY <1>2, <2>1 DEF Modes, ModeInv
<1>3. CASE how # "missed" /\ ~Ended(P)
  <2>1. /\ r.body # "none" => P.body # "none" /\ (word # "." \/ "client" \in hole')
        /\ r.awaiting => P.awaiting /\ P.body # "none"
        /\ protocol = "IMAP" => r.body = "none"
    BY <1>3, ClientStep DEF ClientEffect, ModeInv
  <2>2. "client" \in seen'
    BY <1>0, <1>3, LineFrame
  <2> HIDE DEF r
  <2>3. ASSUME ~truth'.stale, P.body # "none" \/ P.awaiting
        PROVE  /\ P.body # "none" => phase = "content"
               /\ P.awaiting => phase = "sasl"
    <3>1. ~truth.stale /\ ~("client" \in hole)
      BY <2>3 DEF Conveyed, Noted, InsideMode, P
    <3> QED
      BY <1>3, <3>1 DEF ModeInv
  <2> QED
    BY <2>1, <2>2, <2>3 DEF Modes
<1> QED
  BY <1>1, <1>2, <1>3

LEMMA ServerMode ==
    ASSUME DialogueInv, ModeInv, protocol' = protocol,
           NEW how \in Treatments, NEW l \in Lines, NEW word, NEW tag,
           SentLine(l, word, tag), Conveyed(how, "server", l),
           phase # "sasl", protocol = "SMTP" => phase # "content",
           word = "354" => phase' = "content",
           word \in {"334", "+"} => phase' = "sasl"
    PROVE  ModeInv'
<1> DEFINE r == P'
<1>0. "server" \in Directions /\ protocol \in {"SMTP", "IMAP", "POP3"}
  BY DEF Directions, Protocols, DialogueInv
<1> SUFFICES ASSUME protocol # "POP3"
             PROVE  Modes(r)
  BY ModeGoal
<1>1. /\ seen \subseteq seen' /\ ("client" \in hole => "client" \in hole')
      /\ truth.stale => truth'.stale
  BY <1>0, LineFrame
<1>2. /\ protocol = "IMAP" => P.body = "none"
      /\ Busy(P) => "client" \in seen
      /\ ~truth.stale /\ ~Ended(P) =>
           /\ P.body # "none" => phase = "content" \/ "client" \in hole
           /\ P.awaiting => phase = "sasl" \/ "client" \in hole
  BY DEF ModeInv
<1>3. CASE how = "missed" \/ Ended(P)
  <2>1. r = P
    BY <1>0, <1>3, LineFrame
  <2> QED
    BY <1>0, <1>1, <1>2, <2>1 DEF Modes
<1>4. CASE how # "missed" /\ ~Ended(P)
  <2>1. /\ r.body # "none" => P.body # "none" \/ word = "354"
        /\ r.awaiting => P.awaiting \/ word \in {"334", "+"}
        /\ Busy(r) => Busy(P)
        /\ protocol = "IMAP" => r.body = P.body
    BY <1>4, ServerStep DEF ServerEffect
  <2> HIDE DEF r
  <2> QED
    BY <1>0, <1>1, <1>2, <1>4, <2>1 DEF Modes
<1> QED
  BY <1>3, <1>4

LEMMA ReqStep ==
    ASSUME DialogueInv, BooksInv, ModeInv, ReqInv, protocol' = protocol,
           NEW how \in Treatments, NEW d \in Directions, NEW l \in Lines, NEW word, NEW tag,
           SentLine(l, word, tag), Conveyed(how, d, l),
           phase = "command" /\ word = UpgradeVerb[protocol] => l.literal = "none"
    PROVE  ReqInv'
<1> DEFINE r == P'
<1> SUFFICES ASSUME truth'.requested, ~truth'.stale, ~r.stopped
             PROVE  r.upgradeSeen
  BY DEF ReqInv
<1>1. ~truth.stale
  BY LineFrame
<1>2. l.word = word
  BY DEF SentLine
<1>3. CASE how = "missed" \/ Ended(P)
  <2>1. r = P
    BY <1>3, LineFrame
  <2>2. CASE P.halt
    BY <2>1, <2>2 DEF BooksInv, Books
  <2>3. CASE ~P.halt
    <3>1. how = "missed" \/ P.stopped
      BY <1>3, <2>3 DEF Ended
    <3>2. how = "missed"
      BY <2>1, <3>1
    <3>3. truth.requested
      BY <3>2 DEF Conveyed, Noted
    <3> QED
      BY <1>1, <2>1, <3>3 DEF ReqInv
  <2> QED
    BY <2>2, <2>3
<1>4. CASE how # "missed" /\ ~Ended(P)
  <2>1. P.upgradeSeen => r.upgradeSeen
    <3>1. CASE d = "client"
      BY <1>4, <3>1, ClientStep DEF ClientEffect, Moves
    <3>2. CASE d = "server"
      BY <1>4, <3>2, ServerStep DEF ServerEffect, Moves
    <3> QED
      BY <3>1, <3>2 DEF Directions
  <2>2. CASE truth.requested
    BY <1>1, <1>4, <2>1, <2>2 DEF ReqInv, Ended
  <2>3. CASE ~truth.requested
    <3>1. how = "clean" /\ IsUpgradeLine(d, l)
      BY <2>3 DEF Conveyed, Noted
    <3>2. d = "client" /\ phase = "command" /\ word = UpgradeVerb[protocol]
      BY <1>2, <3>1 DEF IsUpgradeLine
    <3>3. protocol # "POP3" => P.body = "none" /\ ~P.awaiting
      <4> SUFFICES ASSUME protocol # "POP3", P.body # "none" \/ P.awaiting
                   PROVE  FALSE
        OBVIOUS
      <4>1. "client" \notin hole
        BY <3>2 DEF Conveyed, Noted, InsideMode, P
      <4> QED
        BY <1>1, <1>4, <3>2, <4>1 DEF ModeInv
    <3>4. l.literal = "none"
      BY <3>2
    <3>5. ClientEffect(P, how, word, tag, l.literal = "none", r)
      BY <1>4, <3>2, ClientStep
    <3> HIDE DEF r
    <3> QED
      BY <3>1, <3>2, <3>3, <3>4, <3>5 DEF ClientEffect
  <2> QED
    BY <2>2, <2>3
<1> QED
  BY <1>3, <1>4

(* The queue.                                                               *)
LEMMA QueueSame ==
    ASSUME DialogueInv, QueueInv, protocol' = protocol, queue' = queue, phase # "tls",
           truth'.pipelined <=> truth.pipelined, truth'.accepted <=> truth.accepted
    PROVE  QueueInv'
  BY DEF QueueInv

LEMMA QueueSend ==
    ASSUME DialogueInv, ImapInv, QueueInv, protocol' = protocol, phase # "tls",
           NEW c \in Requests, queue' = Append(queue, c),
           protocol = "IMAP" => c.tag = sent + 1,
           \A i \in DOMAIN queue : queue[i].verb \notin Waits,
           truth'.pipelined <=> (truth.pipelined \/ queue # << >>),
           truth'.accepted <=> truth.accepted
    PROVE  QueueInv' /\ queue'[Len(queue')] = c
<1> DEFINE s == queue'
<1>1. queue \in Seq(Requests) /\ sent \in Nat
  BY DEF DialogueInv
<1>2. /\ s \in Seq(Requests) /\ Len(s) = Len(queue) + 1 /\ s[Len(s)] = c
      /\ \A i \in DOMAIN s : i # Len(s) => i \in DOMAIN queue /\ s[i] = queue[i]
      /\ DOMAIN s = 1..Len(s)
  BY <1>1
<1> HIDE DEF s
<1>3. \A i \in DOMAIN s : i < Len(s) => s[i].verb \notin Waits
  BY <1>2
<1>4. ~truth'.pipelined => Len(s) <= 1
  BY <1>1, <1>2
<1>5. ASSUME protocol = "IMAP", NEW i \in DOMAIN s, NEW j \in DOMAIN s, i < j
      PROVE  s[i].tag < s[j].tag
  <2>1. i # Len(s) /\ i \in DOMAIN queue /\ s[i] = queue[i]
    BY <1>2, <1>5
  <2>2. CASE j = Len(s)
    <3>1. queue[i].tag \in 1..sent
      BY <1>5, <2>1 DEF ImapInv
    <3> QED
      BY <1>1, <1>2, <1>5, <2>1, <2>2, <3>1
  <2>3. CASE j # Len(s)
    <3>1. j \in DOMAIN queue /\ s[j] = queue[j]
      BY <1>2, <2>3
    <3> QED
      BY <1>5, <2>1, <3>1 DEF QueueInv
  <2> QED
    BY <2>2, <2>3
<1>6. ~truth'.accepted
  BY DEF QueueInv
<1> QED
  BY <1>2, <1>3, <1>4, <1>5, <1>6 DEF QueueInv, s

LEMMA QueueAnswer ==
    ASSUME DialogueInv, QueueInv, protocol' = protocol, phase # "tls",
           queue # << >>, queue' = Tail(queue),
           truth'.pipelined <=> truth.pipelined, truth'.accepted => phase' = "tls"
    PROVE  QueueInv'
<1> DEFINE s == queue'
<1>1. queue \in Seq(Requests)
  BY DEF DialogueInv
<1>2. /\ s \in Seq(Requests) /\ Len(s) = Len(queue) - 1 /\ Len(queue) \in Nat
      /\ \A i \in DOMAIN s : i + 1 \in DOMAIN queue /\ s[i] = queue[i + 1]
      /\ DOMAIN s = 1..Len(s) /\ DOMAIN queue = 1..Len(queue)
  BY <1>1
<1> HIDE DEF s
<1>3. ASSUME NEW i \in DOMAIN s, i < Len(s)
      PROVE  s[i].verb \notin Waits
  <2>1. i + 1 \in DOMAIN queue /\ i + 1 < Len(queue)
    BY <1>2, <1>3
  <2> QED
    BY <1>2, <2>1 DEF QueueInv
<1>4. ~truth'.pipelined => Len(s) <= 1
  BY <1>2 DEF QueueInv
<1>5. ASSUME protocol = "IMAP", NEW i \in DOMAIN s, NEW j \in DOMAIN s, i < j
      PROVE  s[i].tag < s[j].tag
  <2>1. i + 1 \in DOMAIN queue /\ j + 1 \in DOMAIN queue /\ i + 1 < j + 1
    BY <1>2, <1>5
  <2> QED
    BY <1>2, <1>5, <2>1 DEF QueueInv
<1> QED
  BY <1>3, <1>4, <1>5 DEF QueueInv, s

(* The upgrade command that was heard.                                      *)
LEMMA HeardGoal ==
    ASSUME DialogueInv, protocol' = protocol,
           Relevant' /\ HeardUpgradeOutstanding' =>
             /\ phase' = "command"
             /\ protocol = "POP3" => ~truth'.skewed
             /\ Settled(P') \/ (~Ended(P') /\ LastIsUpgrade(P', queue'[Len(queue')].tag))
    PROVE  HeardInv'
  BY DEF HeardInv, Settled, Still, Ended, LastIsUpgrade

LEMMA HeardSend ==
    ASSUME DialogueInv, protocol' = protocol, phase' = "command",
           NEW how \in Treatments, NEW l \in Lines, NEW verb, NEW c \in Requests,
           SentLine(l, verb, CommandTag), Conveyed(how, "client", l),
           verb # "LOGIN" => l.literal = "none",
           c.verb = verb, c.tag = CommandTag, c.heard => how = "clean" /\ Following,
           queue' = Append(queue, c), queue'[Len(queue')] = c,
           \A i \in DOMAIN queue : queue[i].verb \notin Waits
    PROVE  HeardInv'
<1> DEFINE r == P'
<1>1. queue \in Seq(Requests) /\ protocol \in {"SMTP", "IMAP", "POP3"}
  BY DEF DialogueInv, Protocols
<1>2. UpgradeVerb[protocol] \in Waits /\ UpgradeVerb[protocol] # "LOGIN"
  BY <1>1 DEF UpgradeVerb, Waits
<1> SUFFICES ASSUME HeardUpgradeOutstanding'
             PROVE  /\ protocol = "POP3" => ~truth'.skewed
                    /\ ~Ended(r) /\ LastIsUpgrade(r, CommandTag)
  BY HeardGoal
<1>3. PICK i \in DOMAIN queue' : queue'[i].verb = UpgradeVerb[protocol] /\ queue'[i].heard
  BY DEF HeardUpgradeOutstanding
<1>4. (i \in DOMAIN queue /\ queue'[i] = queue[i]) \/ queue'[i] = c
  BY <1>1, <1>3
<1>5. queue'[i] = c
  BY <1>2, <1>3, <1>4
<1>6. how = "clean" /\ Following /\ verb = UpgradeVerb[protocol] /\ l.literal = "none"
  BY <1>2, <1>3, <1>5
<1>7. /\ ~Ended(P)
      /\ protocol = "POP3" => ~truth.skewed
      /\ protocol # "POP3" => P.body = "none" /\ ~P.awaiting
  BY <1>6 DEF Following, InsideMode, Ended, P
<1>8. ClientEffect(P, how, verb, CommandTag, l.literal = "none", r)
  BY <1>6, <1>7, ClientStep
<1> HIDE DEF r
<1>9. /\ r.halt <=> P.halt
      /\ r.stopped <=> P.stopped
      /\ LastIsUpgrade(r, AnswerTag(CommandTag))
  BY <1>6, <1>7, <1>8 DEF ClientEffect
<1>10. AnswerTag(CommandTag) = CommandTag
  BY DEF AnswerTag, CommandTag
<1>11. truth'.skewed <=> truth.skewed
  BY <1>6 DEF Conveyed, Noted
<1> QED
  BY <1>7, <1>9, <1>10, <1>11 DEF Ended

(* While a heard upgrade command waits for its answer, the server says      *)
(* nothing else in SMTP and POP3; in IMAP it may, with other tags.          *)
LEMMA HeardLast ==
    ASSUME DialogueInv, QueueInv, HeardUpgradeOutstanding
    PROVE  queue # << >> /\ AsksUpgrade(queue[Len(queue)])
<1>1. queue \in Seq(Requests) /\ protocol \in {"SMTP", "IMAP", "POP3"}
  BY DEF DialogueInv, Protocols
<1>2. UpgradeVerb[protocol] \in Waits
  BY <1>1 DEF UpgradeVerb, Waits
<1>3. PICK i \in DOMAIN queue : queue[i].verb = UpgradeVerb[protocol]
  BY DEF HeardUpgradeOutstanding
<1>4. i = Len(queue)
  BY <1>1, <1>2, <1>3 DEF QueueInv
<1> QED
  BY <1>1, <1>3, <1>4 DEF AsksUpgrade

LEMMA HeardStay ==
    ASSUME MailInv, HeardInv, QueueInv', BooksInv', ImapInv', protocol = "IMAP",
           protocol' = protocol, Relevant, HeardUpgradeOutstanding,
           phase' = "command", queue'[Len(queue')] = queue[Len(queue)],
           NEW how \in Treatments, NEW l \in Lines, NEW word, NEW tag,
           SentLine(l, word, tag), Conveyed(how, "server", l),
           tag # queue[Len(queue)].tag
    PROVE  Settled(P') \/ (~Ended(P') /\ LastIsUpgrade(P', queue'[Len(queue')].tag))
<1> DEFINE r == P'
           n == queue[Len(queue)].tag
<1>0. DialogueInv /\ P \in Parsers /\ "server" \in Directions
  BY DEF MailInv, DialogueInv, Directions
<1>1. Settled(P) \/ (~Ended(P) /\ LastIsUpgrade(P, n))
  BY DEF HeardInv
<1>2. CASE how = "missed" \/ Ended(P)
  <2>1. r = P
    BY <1>0, <1>2, LineFrame
  <2> QED
    BY <1>1, <2>1
<1>3. CASE how # "missed" /\ ~Ended(P)
  <2>1. ServerEffect(P, how, word, tag, r)
    BY <1>0, <1>3, ServerStep
  <2>2. ~r.halt
    <3> SUFFICES ASSUME r.halt PROVE FALSE
      OBVIOUS
    <3>1. r.outcome = "ACCEPTED"
      BY DEF BooksInv, Books, AcceptedIn
    <3>2. truth'.accepted
      BY <3>1 DEF ImapInv, AcceptedIn
    <3> QED
      BY <3>2 DEF QueueInv
  <2> HIDE DEF r
  <2>3. CASE P.unsafe \/ "server" \in hole
    <3>1. "server" \in hole => P.unsafe \/ Asking(P)
      BY <1>0, <1>1, <1>3, LastAsks DEF Settled, Still, Ended
    <3>2. r.unsafe
      BY <2>1, <2>3, <3>1 DEF ServerEffect, Moves
    <3> QED
      BY <3>2 DEF Settled, r
  <2>4. CASE ~P.unsafe /\ "server" \notin hole
    <3>1. LastIsUpgrade(P, n)
      BY <1>1, <1>3, <2>4 DEF Settled, Still, Ended
    <3>2. LastStays(P, tag, r)
      BY <2>1, <2>4 DEF ServerEffect
    <3>3. LastIsUpgrade(r, n)
      BY <3>1, <3>2 DEF LastStays, LastIsUpgrade
    <3> QED
      BY <2>2, <3>3 DEF Settled, Still, Ended, r
  <2> QED
    BY <2>3, <2>4
<1> QED
  BY <1>2, <1>3

LEMMA HeardQuiet ==
    ASSUME DialogueInv, HeardInv, protocol' = protocol, queue' = queue,
           phase # "command", Relevant' => Relevant
    PROVE  HeardInv' /\ (Relevant => ~HeardUpgradeOutstanding)
<1>1. Relevant => ~HeardUpgradeOutstanding
  BY DEF HeardInv
<1>2. HeardUpgradeOutstanding' => HeardUpgradeOutstanding
  BY DEF HeardUpgradeOutstanding
<1> QED
  BY <1>1, <1>2, HeardGoal

-----------------------------------------------------------------------------
(* The actions.                                                             *)
LEMMA ClaimGreet ==
    ASSUME MailInv, ClaimInv, Greet
    PROVE  ClaimInv'
<1>1. DialogueInv /\ Pop3Inv /\ BooksInv /\ QueueInv /\ HeardInv /\ TouchInv /\ ModeInv /\ ReqInv
  BY DEF MailInv, ClaimInv
<1>2. /\ phase = "greeting" /\ protocol' = protocol /\ queue' = queue
      /\ truth'.accepted <=> truth.accepted
      /\ truth'.pipelined <=> truth.pipelined
  BY <1>1, GreetFacts DEF Recorded
<1>3. PICK how \in Treatments, l \in Lines, word \in {"220", "554", "+OK", "-ERR", "OK"} :
         SentLine(l, word, 0) /\ Conveyed(how, "server", l)
  BY <1>1, GreetFacts
<1>4. "server" \in Directions
  BY DEF Directions
<1>5. BooksInv'
  BY <1>1, <1>2, <1>3, <1>4, BooksStep
<1>6. QueueInv'
  BY <1>1, <1>2, QueueSame
<1>7. Relevant' => Relevant
  BY <1>1, <1>2, <1>3, <1>4, StaysRelevant
<1>8. HeardInv'
  BY <1>1, <1>2, <1>7, HeardQuiet
<1>9. TouchInv'
  BY <1>1, <1>2, <1>3, ServerTouch
<1>10. ModeInv'
  BY <1>1, <1>2, <1>3, ServerMode
<1>11. ReqInv'
  BY <1>1, <1>2, <1>3, <1>4, ReqStep
<1> QED
  BY <1>5, <1>6, <1>8, <1>9, <1>10, <1>11 DEF ClaimInv

LEMMA ClaimSaslResponse ==
    ASSUME MailInv, ClaimInv, SaslResponse
    PROVE  ClaimInv'
<1>1. DialogueInv /\ BooksInv /\ QueueInv /\ HeardInv /\ TouchInv /\ ModeInv /\ ReqInv
  BY DEF MailInv, ClaimInv
<1>2. /\ phase = "sasl" /\ protocol' = protocol /\ queue' = queue
      /\ truth'.accepted <=> truth.accepted
      /\ truth'.pipelined <=> truth.pipelined
  BY <1>1, SaslResponseFacts DEF Recorded
<1>3. PICK how \in Treatments, l \in Lines : SentLine(l, "text", 0) /\ Conveyed(how, "client", l)
  BY <1>1, SaslResponseFacts
<1>4. "client" \in Directions
  BY DEF Directions
<1>5. BooksInv'
  BY <1>1, <1>2, <1>3, <1>4, BooksStep
<1>6. QueueInv'
  BY <1>1, <1>2, QueueSame
<1>7. Relevant' => Relevant
  BY <1>1, <1>2, <1>3, <1>4, StaysRelevant
<1>8. HeardInv' /\ (Relevant => ~HeardUpgradeOutstanding)
  BY <1>1, <1>2, <1>7, HeardQuiet
<1>9. TouchInv'
  BY <1>1, <1>2, <1>3, <1>8, ClientTouch
<1>10. ModeInv'
  BY <1>1, <1>2, <1>3, ClientMode
<1>11. ReqInv'
  BY <1>1, <1>2, <1>3, <1>4, ReqStep
<1> QED
  BY <1>5, <1>6, <1>8, <1>9, <1>10, <1>11 DEF ClaimInv

LEMMA ClaimContent ==
    ASSUME MailInv, ClaimInv, Content
    PROVE  ClaimInv'
<1>1. /\ DialogueInv /\ Pop3Inv /\ BooksInv /\ QueueInv /\ HeardInv /\ TouchInv
      /\ ModeInv /\ ReqInv
  BY DEF MailInv, ClaimInv
<1>2. phase = "content" /\ protocol' = protocol /\ queue' = queue
  BY <1>1, ContentFacts
<1>3. PICK how \in Treatments, l \in Lines, word \in Contents :
         /\ phase' = IF word = "." THEN "command" ELSE "content"
         /\ Recorded([truth EXCEPT !.lookalike = @ \/ word \in {"STARTTLS", "250"}])
         /\ SentLine(l, word, 0) /\ Conveyed(how, Author, l)
  BY <1>1, ContentFacts
<1>4. Author \in Directions
  BY DEF Directions, Author
<1>0. /\ truth'.accepted <=> truth.accepted
      /\ truth'.pipelined <=> truth.pipelined
  BY <1>1, <1>3, ContentTruth
<1>5. BooksInv'
  BY <1>1, <1>2, <1>3, <1>4, BooksStep
<1>6. QueueInv'
  BY <1>0, <1>1, <1>2, QueueSame
<1>7. Relevant' => Relevant
  BY <1>0, <1>1, <1>2, <1>3, <1>4, StaysRelevant
<1>8. HeardInv' /\ (Relevant => ~HeardUpgradeOutstanding)
  BY <1>1, <1>2, <1>7, HeardQuiet
<1>9. TouchInv' /\ ModeInv'
  <2>1. CASE protocol = "SMTP"
    <3>1. Conveyed(how, "client", l)
      BY <1>3, <2>1 DEF Author
    <3>2. TouchInv'
      BY <1>0, <1>1, <1>2, <1>3, <1>8, <3>1, ClientTouch
    <3>3. ModeInv'
      BY <1>1, <1>2, <1>3, <3>1, ClientMode
    <3> QED
      BY <3>2, <3>3
  <2>2. CASE protocol # "SMTP"
    <3>1. Conveyed(how, "server", l)
      BY <1>3, <2>2 DEF Author
    <3>2. TouchInv'
      BY <1>0, <1>1, <1>2, <1>3, <3>1, ServerTouch
    <3>3. ModeInv'
      BY <1>1, <1>2, <1>3, <2>2, <3>1, ServerMode DEF Contents
    <3> QED
      BY <3>2, <3>3
  <2> QED
    BY <2>1, <2>2
<1>11. ReqInv'
  BY <1>1, <1>2, <1>3, <1>4, ReqStep
<1> QED
  BY <1>5, <1>6, <1>8, <1>9, <1>11 DEF ClaimInv

LEMMA ClaimSendCommand ==
    ASSUME MailInv, ClaimInv, SendCommand
    PROVE  ClaimInv'
<1>1. /\ DialogueInv /\ ImapInv /\ BooksInv /\ QueueInv /\ HeardInv /\ TouchInv
      /\ ModeInv /\ ReqInv
  BY DEF MailInv, ClaimInv
<1>2. phase = "command" /\ phase' = phase /\ protocol' = protocol
  BY <1>1, SendCommandFacts
<1>3. PICK how \in Treatments, l \in Lines, verb \in Commands[protocol] :
         /\ SentLine(l, verb, CommandTag) /\ (verb # "LOGIN" => l.literal = "none")
         /\ queue' = Append(queue, [verb |-> verb, tag |-> CommandTag,
                                    heard |-> how = "clean" /\ Following])
         /\ Recorded([truth EXCEPT !.pipelined = @ \/ queue # << >>])
         /\ Conveyed(how, "client", l)
  BY <1>1, SendCommandFacts
<1>4. \A i \in DOMAIN queue : queue[i].verb \notin Waits
  BY DEF SendCommand
<1>5. /\ truth'.accepted <=> truth.accepted
      /\ truth'.pipelined <=> (truth.pipelined \/ queue # << >>)
  BY <1>1, <1>3, GroupFacts
<1>6. PICK heard \in BOOLEAN : heard <=> (how = "clean" /\ Following)
  OBVIOUS
<1> DEFINE c == [verb |-> verb, tag |-> CommandTag, heard |-> heard]
<1>7. c \in Requests /\ "client" \in Directions /\ protocol \in {"SMTP", "IMAP", "POP3"}
  BY <1>1, VerbWords DEF Requests, CommandTag, Directions, DialogueInv, Protocols
<1>8. queue' = Append(queue, c)
  BY <1>3, <1>6
<1>9. c.verb = verb /\ c.tag = CommandTag /\ (c.heard => how = "clean" /\ Following)
  BY <1>6
<1> HIDE DEF c
<1>10. BooksInv'
  BY <1>1, <1>2, <1>3, <1>7, BooksStep
<1>11. QueueInv' /\ queue'[Len(queue')] = c
  <2>1. protocol = "IMAP" => c.tag = sent + 1
    BY <1>9 DEF CommandTag
  <2> QED
    BY <1>1, <1>2, <1>4, <1>5, <1>7, <1>8, <2>1, QueueSend
<1>12. HeardInv'
  BY <1>1, <1>2, <1>3, <1>4, <1>7, <1>8, <1>9, <1>11, HeardSend
<1>13. Relevant => ~HeardUpgradeOutstanding
  BY <1>4, <1>7 DEF HeardUpgradeOutstanding, UpgradeVerb, Waits
<1>14. TouchInv'
  BY <1>1, <1>2, <1>3, <1>5, <1>13, ClientTouch
<1>15. ModeInv'
  BY <1>1, <1>2, <1>3, ClientMode
<1>16. ReqInv'
  <2>1. UpgradeVerb[protocol] # "LOGIN"
    BY <1>7 DEF UpgradeVerb
  <2> QED
    BY <1>1, <1>2, <1>3, <1>7, <2>1, ReqStep
<1> QED
  BY <1>10, <1>11, <1>12, <1>14, <1>15, <1>16 DEF ClaimInv

(* Only in IMAP does the server say anything before the answer to a heard   *)
(* upgrade command, and then about an earlier command, or about none.       *)
LEMMA Ahead ==
    ASSUME DialogueInv, QueueInv, queue # << >>
    PROVE  /\ Head(queue) = queue[1] /\ 1 \in DOMAIN queue
           /\ queue[1].verb \in Commands[protocol]
           /\ ~AsksUpgrade(queue[1]) /\ HeardUpgradeOutstanding =>
                 /\ truth.pipelined /\ 1 < Len(queue)
                 /\ queue[1].verb \notin Waits
<1>1. queue \in Seq(Requests) /\ 1 \in DOMAIN queue /\ Head(queue) = queue[1]
  BY DEF DialogueInv
<1>2. queue[1].verb \in Commands[protocol]
  BY <1>1 DEF DialogueInv
<1>3. ASSUME ~AsksUpgrade(queue[1]), HeardUpgradeOutstanding
      PROVE  truth.pipelined /\ 1 < Len(queue) /\ queue[1].verb \notin Waits
  <2>1. AsksUpgrade(queue[Len(queue)])
    BY <1>3, HeardLast
  <2>2. 1 < Len(queue)
    BY <1>1, <1>3, <2>1
  <2> QED
    BY <1>1, <2>2 DEF QueueInv
<1> QED
  BY <1>1, <1>2, <1>3

LEMMA ClaimInterim ==
    ASSUME MailInv, MailInv', ClaimInv, Interim
    PROVE  ClaimInv'
<1>1. /\ DialogueInv /\ Pop3Inv /\ ImapInv /\ BooksInv /\ QueueInv /\ HeardInv
      /\ TouchInv /\ ModeInv /\ ReqInv /\ ImapInv'
  BY DEF MailInv, ClaimInv
<1>2. /\ phase = "command" /\ queue # << >> /\ protocol' = protocol /\ queue' = queue
      /\ truth'.accepted <=> truth.accepted
      /\ truth'.pipelined <=> truth.pipelined
  BY <1>1, InterimFacts DEF Recorded
<1>3. PICK how \in Treatments, l \in Lines, word \in {"250", "CAPABILITY", "354", "334", "+"} :
         /\ Awaited(Head(queue).verb, word, l.more)
         /\ phase' = CASE word = "354" -> "content"
                       [] word \in {"334", "+"} -> "sasl"
                       [] OTHER -> "command"
         /\ SentLine(l, word, 0) /\ Conveyed(how, "server", l)
  BY <1>1, InterimFacts
<1>4. "server" \in Directions /\ protocol \in {"SMTP", "IMAP", "POP3"}
  BY <1>1 DEF Directions, DialogueInv, Protocols
<1>5. BooksInv'
  BY <1>1, <1>2, <1>3, <1>4, BooksStep
<1>6. QueueInv'
  BY <1>1, <1>2, QueueSame
<1>7. Relevant' => Relevant
  BY <1>1, <1>2, <1>3, <1>4, StaysRelevant
<1>8. HeardInv'
  <2> SUFFICES ASSUME Relevant', HeardUpgradeOutstanding'
               PROVE  /\ phase' = "command"
                      /\ protocol = "POP3" => ~truth'.skewed
                      /\ Settled(P') \/ (~Ended(P') /\ LastIsUpgrade(P', queue'[Len(queue')].tag))
    BY <1>1, <1>2, HeardGoal
  <2>1. Relevant /\ HeardUpgradeOutstanding
    BY <1>2, <1>7 DEF HeardUpgradeOutstanding
  <2>2. /\ Head(queue) = queue[1] /\ queue[1].verb \in Commands[protocol]
        /\ ~AsksUpgrade(queue[1]) => truth.pipelined /\ queue[1].verb \notin Waits
    BY <1>1, <1>2, <2>1, Ahead
  <2>3. ~AsksUpgrade(queue[1])
    BY <1>3, <1>4, <2>2 DEF AsksUpgrade, UpgradeVerb, Awaited
  <2>4. protocol = "IMAP"
    BY <2>1, <2>2, <2>3 DEF Relevant
  <2>5. word = "CAPABILITY" /\ phase' = "command"
    BY <1>3, <2>2, <2>3, <2>4 DEF Awaited, Commands, Waits
  <2>6. 0 # queue[Len(queue)].tag
    <3>1. queue \in Seq(Requests) /\ Len(queue) \in DOMAIN queue /\ sent \in Nat
      BY <1>1, <1>2 DEF DialogueInv
    <3> QED
      BY <1>1, <2>4, <3>1 DEF ImapInv
  <2>7. Settled(P') \/ (~Ended(P') /\ LastIsUpgrade(P', queue'[Len(queue')].tag))
    BY <1>1, <1>2, <1>3, <1>5, <1>6, <2>1, <2>4, <2>5, <2>6, HeardStay
  <2> QED
    BY <2>4, <2>5, <2>7
<1>9. TouchInv'
  BY <1>1, <1>2, <1>3, ServerTouch
<1>10. ModeInv'
  <2>1. /\ word = "354" => phase' = "content"
        /\ word \in {"334", "+"} => phase' = "sasl"
    BY <1>3
  <2> QED
    BY <1>1, <1>2, <1>3, <2>1, ServerMode
<1>11. ReqInv'
  <2>1. word # UpgradeVerb[protocol]
    BY <1>3, <1>4 DEF UpgradeVerb
  <2> QED
    BY <1>1, <1>2, <1>3, <1>4, <2>1, ReqStep
<1> QED
  BY <1>5, <1>6, <1>8, <1>9, <1>10, <1>11 DEF ClaimInv

LEMMA ClaimAnswer ==
    ASSUME MailInv, MailInv', ClaimInv, Answer
    PROVE  ClaimInv'
<1> DEFINE c == Head(queue)
           yes(word) == AsksUpgrade(c) /\ word \in Positive
           no(word) == AsksUpgrade(c) /\ word \notin Positive
<1>1. /\ DialogueInv /\ Pop3Inv /\ ImapInv /\ BooksInv /\ QueueInv /\ HeardInv
      /\ TouchInv /\ ModeInv /\ ReqInv /\ ImapInv'
  BY DEF MailInv, ClaimInv
<1>2. phase = "command" /\ queue # << >> /\ queue' = Tail(queue) /\ protocol' = protocol
  BY <1>1, AnswerFacts
<1>3. PICK how \in Treatments, l \in Lines, word \in Answers(c.verb) :
         /\ phase' = IF AsksUpgrade(c) /\ word \in Positive THEN "tls"
                     ELSE IF c.verb \in {"CAPA", "RETR"} /\ word = "+OK" THEN "content"
                     ELSE "command"
         /\ SentLine(l, word, c.tag)
         /\ Recorded([truth EXCEPT !.accepted = @ \/ yes(word), !.refused = @ \/ no(word)])
         /\ Conveyed(how, "server", l)
  BY <1>1, AnswerFacts
<1>4. /\ truth'.accepted <=> (truth.accepted \/ yes(word))
      /\ truth'.pipelined <=> truth.pipelined
  <2> DEFINE y == yes(word)
             n == no(word)
  <2>1. y \in BOOLEAN /\ n \in BOOLEAN
    OBVIOUS
  <2>2. Recorded([truth EXCEPT !.accepted = @ \/ y, !.refused = @ \/ n])
    BY <1>3
  <2> HIDE DEF y, n
  <2>3. /\ truth'.accepted <=> (truth.accepted \/ y)
        /\ truth'.pipelined <=> truth.pipelined
    BY <1>1, <2>1, <2>2, AnswerTruth
  <2> QED
    BY <2>3 DEF y
<1>5. "server" \in Directions /\ protocol \in {"SMTP", "IMAP", "POP3"}
  BY <1>1 DEF Directions, DialogueInv, Protocols
<1>6. word \notin {"354", "334", "+", "STARTTLS", "STLS"}
  BY <1>3 DEF Answers
<1>7. truth'.accepted => phase' = "tls"
  BY <1>1, <1>2, <1>3, <1>4 DEF QueueInv
<1>8. BooksInv'
  BY <1>1, <1>2, <1>3, <1>5, BooksStep
<1>9. QueueInv'
  BY <1>1, <1>2, <1>4, <1>7, QueueAnswer
<1>10. Relevant' => Relevant
  BY <1>1, <1>2, <1>3, <1>4, <1>5, StaysRelevant
<1>11. HeardInv'
  <2> SUFFICES ASSUME Relevant', HeardUpgradeOutstanding'
               PROVE  /\ phase' = "command"
                      /\ protocol = "POP3" => ~truth'.skewed
                      /\ Settled(P') \/ (~Ended(P') /\ LastIsUpgrade(P', queue'[Len(queue')].tag))
    BY <1>1, <1>2, HeardGoal
  <2>1. /\ queue \in Seq(Requests) /\ Len(queue) \in Nat
        /\ \A i \in DOMAIN queue' : i + 1 \in DOMAIN queue /\ queue'[i] = queue[i + 1]
        /\ Len(queue') = Len(queue) - 1 /\ DOMAIN queue' = 1..Len(queue')
    BY <1>1, <1>2 DEF DialogueInv
  <2>2. PICK i \in DOMAIN queue' : queue'[i].verb = UpgradeVerb[protocol] /\ queue'[i].heard
    BY <1>2 DEF HeardUpgradeOutstanding
  <2>3. i + 1 \in DOMAIN queue /\ queue[i + 1] = queue'[i] /\ i \in 1..Len(queue')
    BY <2>1, <2>2
  <2>4. Relevant /\ HeardUpgradeOutstanding
    BY <1>10, <2>2, <2>3 DEF HeardUpgradeOutstanding
  <2>5. 1 < Len(queue) /\ 1 \in DOMAIN queue /\ Len(queue) \in DOMAIN queue
    BY <2>1, <2>3
  <2>6. c = queue[1] /\ c.verb \in Commands[protocol] /\ c.verb \notin Waits
    BY <1>1, <1>2, <2>5, Ahead DEF QueueInv
  <2>7. truth.pipelined /\ protocol = "IMAP"
    BY <1>1, <2>1, <2>4, <2>5 DEF QueueInv, Relevant
  <2>8. ~AsksUpgrade(c) /\ c.verb \notin {"CAPA", "RETR"}
    BY <2>6, <2>7 DEF AsksUpgrade, UpgradeVerb, Waits, Commands
  <2>9. phase' = "command"
    BY <1>3, <2>8
  <2>10. queue'[Len(queue')] = queue[Len(queue)]
    BY <2>1, <2>5
  <2>11. c.tag # queue[Len(queue)].tag
    <3>1. c.tag < queue[Len(queue)].tag
      BY <1>1, <2>5, <2>6, <2>7 DEF QueueInv
    <3>2. c.tag \in Nat
      <4>1. queue[1] \in Requests
        BY <2>1, <2>5
      <4>2. c \in Requests
        BY <2>6, <4>1
      <4> HIDE DEF c
      <4> QED
        BY <4>2 DEF Requests
    <3> QED
      BY <3>1, <3>2
  <2>12. Settled(P') \/ (~Ended(P') /\ LastIsUpgrade(P', queue'[Len(queue')].tag))
    BY <1>1, <1>2, <1>3, <1>8, <1>9, <2>4, <2>7, <2>9, <2>10, <2>11, HeardStay
  <2> QED
    BY <2>7, <2>9, <2>12
<1>12. TouchInv'
  BY <1>1, <1>2, <1>3, <1>4, ServerTouch
<1>13. ModeInv'
  BY <1>1, <1>2, <1>3, <1>6, ServerMode
<1>14. ReqInv'
  <2>1. word # UpgradeVerb[protocol]
    BY <1>5, <1>6 DEF UpgradeVerb
  <2> QED
    BY <1>1, <1>2, <1>3, <1>5, <2>1, ReqStep
<1> QED
  BY <1>8, <1>9, <1>11, <1>12, <1>13, <1>14 DEF ClaimInv

LEMMA ClaimInit ==
    ASSUME Init
    PROVE  ClaimInv
<1>1. /\ P = NewParser /\ queue = << >> /\ DOMAIN queue = {} /\ Len(queue) = 0
      /\ truth = NoTruth
  BY DEF Init, P
<1>2. /\ ~Asking(P) /\ ~P.halt /\ ~AcceptedIn(P) /\ ~Busy(P) /\ P.body = "none"
      /\ ~P.awaiting
  BY <1>1 DEF NewParser, Asking, AcceptedIn, Busy
<1>3. ~truth.accepted /\ ~truth.touched /\ ~truth.requested
  BY <1>1 DEF NoTruth
<1>4. BooksInv /\ QueueInv /\ TouchInv /\ ModeInv /\ ReqInv
  BY <1>1, <1>2, <1>3 DEF BooksInv, Books, QueueInv, TouchInv, ModeInv, ReqInv
<1>5. HeardInv
  BY <1>1 DEF HeardInv, HeardUpgradeOutstanding
<1> QED
  BY <1>4, <1>5 DEF ClaimInv

LEMMA ClaimStutters ==
    ASSUME ClaimInv, UNCHANGED vars
    PROVE  ClaimInv'
<1>1. /\ protocol' = protocol /\ phase' = phase /\ queue' = queue /\ truth' = truth
      /\ seen' = seen /\ hole' = hole /\ P' = P
  BY DEF vars, P
<1>2. BooksInv' /\ QueueInv' /\ ReqInv'
  BY <1>1 DEF ClaimInv, BooksInv, Books, Asking, AcceptedIn, Room, QueueInv, ReqInv
<1>3. HeardInv' /\ TouchInv'
  BY <1>1 DEF ClaimInv, HeardInv, TouchInv, Relevant, HeardUpgradeOutstanding, Settled,
              Still, Ended, LastIsUpgrade, Asking
<1>4. ModeInv'
  BY <1>1 DEF ClaimInv, ModeInv, Busy, Ended
<1> QED
  BY <1>2, <1>3, <1>4 DEF ClaimInv

(* However the capture loses or spoils lines, a captured upgrade command    *)
(* stays the last one the parser holds until it is answered, touched or     *)
(* the parser has given up on it.                                           *)
THEOREM ClaimInductive == Spec => [](MailInv /\ ClaimInv)
<1>1. Init => MailInv /\ ClaimInv
  BY MailInit, ClaimInit
<1>2. MailInv /\ ClaimInv /\ [Next]_vars => (MailInv /\ ClaimInv)'
  <2>1. ASSUME MailInv, ClaimInv, Next
        PROVE  MailInv' /\ ClaimInv'
    <3>1. MailInv'
      BY <2>1, MailNext
    <3>2. ClaimInv'
      BY <2>1, <3>1, ClaimGreet, ClaimSaslResponse, ClaimContent, ClaimSendCommand,
         ClaimInterim, ClaimAnswer DEF Next
    <3> QED
      BY <3>1, <3>2
  <2>2. ASSUME MailInv, ClaimInv, UNCHANGED vars
        PROVE  MailInv' /\ ClaimInv'
    BY <2>2, MailStutters, ClaimStutters
  <2> QED
    BY <2>1, <2>2
<1> QED
  BY <1>1, <1>2, PTL DEF Spec

(* An upgrade command that was captured is recognised, for any number of    *)
(* lines, holes and spoiled lines: no content, capability list or SASL      *)
(* exchange that is over keeps the parser from reading it as a command.     *)
THEOREM RequestIsNotMissed == Spec => []RequestNotMissed
<1>1. ClaimInv => RequestNotMissed
  BY DEF ClaimInv, ReqInv, RequestNotMissed, P
<1> QED
  BY <1>1, ClaimInductive, PTL

(* "Any gap or ambiguity touching the negotiation downgrades the result to  *)
(* INCOMPLETE rather than claiming success": while a parser has room for    *)
(* events, a fault that met a heard upgrade command keeps _upgrade_state    *)
(* (protocols/base.py) from reporting any acceptance, for any number of     *)
(* lines, faults and outstanding commands.                                  *)
THEOREM TouchedIsNeverClaimed == Spec => []TouchedNeverClaimed
<1>1. MailInv /\ ClaimInv => TouchedNeverClaimed
  <2> SUFFICES ASSUME MailInv, ClaimInv, truth.touched, Relevant, Room(P),
                      Report \in Accepted
               PROVE  FALSE
    BY DEF TouchedNeverClaimed, Relevant, P
  <2>1. P \in Parsers
    BY DEF MailInv, DialogueInv
  <2>2. UpgradeState(P) = "UPGRADE_ACCEPTED"
    BY <2>1, UpgradeStateFacts DEF Report, Accepted, UpgradeReport, UpgradeStates, P
  <2>3. P.halt
    BY <2>1, <2>2, UpgradeStateFacts DEF ClaimInv, BooksInv, Books, AcceptedIn
  <2>4. P.requested
    BY <2>3 DEF ClaimInv, BooksInv, Books
  <2>5. P.unsafe
    BY <2>3 DEF ClaimInv, TouchInv, Settled, Still, Ended
  <2>6. UpgradeState(P) = "INCOMPLETE"
    BY <2>4, <2>5 DEF UpgradeState
  <2> QED
    BY <2>2, <2>6
<1> QED
  BY <1>1, ClaimInductive, PTL

-----------------------------------------------------------------------------
(* The parsers of the other protocols.  A parser counts an answered command *)
(* only at a line of its own grammar, and the server sends none of those.   *)
Unmatched(p, r) == r \in Parsers /\ r.matched = p.matched

LEMMA UnmatchedTransitive ==
    ASSUME NEW p, NEW q, NEW r, Unmatched(p, q), Unmatched(q, r)
    PROVE  Unmatched(p, r)
  BY DEF Unmatched

LEMMA AddEventUnmatched ==
    ASSUME NEW p \in Parsers
    PROVE  Unmatched(p, AddEvent(p))
<1>1. AddEvent(p) \in Parsers
  BY AddEventFacts DEF Keeps
<1>2. AddEvent(p).matched = p.matched
  BY DEF AddEvent, Parsers
<1> QED
  BY <1>1, <1>2 DEF Unmatched

LEMMA SimpleUnmatched ==
    ASSUME NEW p \in Parsers
    PROVE  /\ Unmatched(p, NoteGap(p))
           /\ Unmatched(p, Unusable(p))
           /\ Unmatched(p, Foreign(p))
           /\ Unmatched(p, [AddEvent(p) EXCEPT !.awaiting = FALSE])
           /\ Unmatched(p, AbandonMultiline(p))
<1> DEFINE a == AddEvent(p)
<1>1. a \in Parsers /\ a.matched = p.matched
  BY AddEventUnmatched DEF Unmatched
<1>2. /\ NoteGap(p) \in Parsers /\ Unusable(p) \in Parsers /\ Foreign(p) \in Parsers
      /\ [a EXCEPT !.awaiting = FALSE] \in Parsers /\ AbandonMultiline(p) \in Parsers
  BY NoteGapFacts, UnusableFacts, ForeignFacts, ContinuationFacts, AbandonFacts DEF Keeps
<1>3. /\ NoteGap(p) = [a EXCEPT !.gapSeen = TRUE, !.unsafe = @ \/ Outstanding(p, IsUpgrade),
                                !.pending = << >>]
      /\ Unusable(p) = [a EXCEPT !.unsafe = @ \/ Outstanding(p, IsUpgrade) \/ p.requested]
      /\ Foreign(p) = [a EXCEPT !.foreign = @ + 1]
      /\ AbandonMultiline(p) = IF p.body = "none" THEN p
                               ELSE [a EXCEPT !.body = "none", !.reply = << >>]
  BY DEF NoteGap, Unusable, Foreign, AbandonMultiline
<1> HIDE DEF a
<1>4. NoteGap(p).matched = p.matched
  BY <1>1, <1>3 DEF Parsers
<1>5. Unusable(p).matched = p.matched
  BY <1>1, <1>3 DEF Parsers
<1>6. Foreign(p).matched = p.matched
  BY <1>1, <1>3 DEF Parsers
<1>7. [a EXCEPT !.awaiting = FALSE].matched = p.matched
  BY <1>1 DEF Parsers
<1>8. AbandonMultiline(p).matched = p.matched
  BY <1>1, <1>3 DEF Parsers
<1>9. /\ Unmatched(p, NoteGap(p)) /\ Unmatched(p, Unusable(p)) /\ Unmatched(p, Foreign(p))
      /\ Unmatched(p, [a EXCEPT !.awaiting = FALSE]) /\ Unmatched(p, AbandonMultiline(p))
  BY <1>2, <1>4, <1>5, <1>6, <1>7, <1>8 DEF Unmatched
<1> QED
  BY <1>9 DEF a

LEMMA CommandUnmatched ==
    ASSUME NEW p \in Parsers, NEW verb \in Words,
           NEW kind \in {"upgrade", "auth", "other"}, NEW tag, tag \in Nat
    PROVE  Unmatched(p, Command(p, verb, kind, tag))
<1> DEFINE r == Command(p, verb, kind, tag)
           a == AddEvent(p)
           e == [verb |-> verb, kind |-> kind, tag |-> tag]
           q == [a EXCEPT !.recognised = @ + 1, !.pending = Append(@, e)]
<1>1. r \in Parsers
  <2> HIDE DEF r
  <2> QED
    BY CommandFacts DEF r
<1>2. a \in Parsers /\ a.matched = p.matched
  BY AddEventUnmatched DEF Unmatched
<1>3. e \in Entries
  BY DEF Entries
<1>4. r = IF kind = "upgrade" THEN [q EXCEPT !.upgradeSeen = TRUE, !.requested = Room(p)]
          ELSE IF kind = "auth" THEN RecordAuth(q) ELSE q
  BY DEF Command
<1> HIDE DEF a, e
<1>5. q.matched = a.matched
  BY <1>2, <1>3 DEF Parsers
<1>6. q \in Parsers
  <2> DEFINE s == Append(a.pending, e)
             n == a.recognised + 1
  <2>1. s \in Seq(Entries) /\ n \in Nat
    BY <1>2, <1>3 DEF Parsers
  <2>2. q = [a EXCEPT !.recognised = n, !.pending = s]
    OBVIOUS
  <2> HIDE DEF s, n, q
  <2> QED
    BY <1>2, <2>1, <2>2 DEF Parsers
<1> HIDE DEF q
<1>7. /\ [q EXCEPT !.upgradeSeen = TRUE, !.requested = Room(p)].matched = q.matched
      /\ RecordAuth(q).matched = q.matched
  BY <1>6 DEF Parsers, RecordAuth
<1> QED
  BY <1>1, <1>2, <1>4, <1>5, <1>7 DEF Unmatched

LEMMA LiteralUnmatched ==
    ASSUME NEW p \in Parsers, NEW l
    PROVE  Unmatched(p, ConsumeLiteral(p, l))
<1> DEFINE r == ConsumeLiteral(p, l)
           q == AddEvent(p)
<1>1. r \in Parsers
  <2> HIDE DEF r
  <2> QED
    BY LiteralFacts DEF r
<1>2. Unmatched(p, q) /\ q \in Parsers
  BY AddEventUnmatched DEF Unmatched
<1>3. \/ r = [p EXCEPT !.stopped = TRUE]
      \/ r = [q EXCEPT !.stopped = TRUE, !.unsafe = TRUE]
      \/ r = q
      \/ r = p
  <2>1. CASE l.literal = "huge"
    BY <2>1 DEF ConsumeLiteral
  <2>2. CASE l.literal = "cut"
    BY <2>2 DEF ConsumeLiteral
  <2>3. CASE l.literal = "whole"
    BY <2>3 DEF ConsumeLiteral
  <2>4. CASE l.literal \notin {"huge", "cut", "whole"}
    BY <2>4 DEF ConsumeLiteral
  <2> QED
    BY <2>1, <2>2, <2>3, <2>4
<1> HIDE DEF r, q
<1>4. [p EXCEPT !.stopped = TRUE].matched = p.matched
  BY DEF Parsers
<1>5. [q EXCEPT !.stopped = TRUE, !.unsafe = TRUE].matched = q.matched
  BY <1>2 DEF Parsers
<1>6. Unmatched(p, r)
  BY <1>1, <1>2, <1>3, <1>4, <1>5 DEF Unmatched
<1> QED
  BY <1>6 DEF r

LEMMA SmtpClientUnmatched ==
    ASSUME NEW p \in Parsers, NEW l \in Lines
    PROVE  Unmatched(p, SmtpClientLine(p, l))
<1> DEFINE r == SmtpClientLine(p, l)
           a == AddEvent(p)
<1>1. r \in Parsers
  <2> HIDE DEF r
  <2> QED
    BY SmtpClientFacts DEF r
<1>2. a \in Parsers /\ a.matched = p.matched
  BY AddEventUnmatched DEF Unmatched
<1>3. CASE p.body # "none"
  <2>1. \/ r = [a EXCEPT !.body = "none", !.bodyLines = 0]
        \/ r = [p EXCEPT !.bodyLines = @ + 1, !.stopped = p.bodyLines >= MaxBody]
    BY <1>3 DEF SmtpClientLine, SmtpBodyLine
  <2> HIDE DEF a, r
  <2>2. [a EXCEPT !.body = "none", !.bodyLines = 0].matched = a.matched
    BY <1>2 DEF Parsers
  <2>3. [p EXCEPT !.bodyLines = @ + 1, !.stopped = p.bodyLines >= MaxBody].matched = p.matched
    BY DEF Parsers
  <2> QED
    BY <1>1, <1>2, <2>1, <2>2, <2>3 DEF Unmatched, r
<1>4. CASE p.body = "none" /\ p.awaiting
  BY <1>4, SimpleUnmatched DEF SmtpClientLine, Continuation
<1>5. CASE p.body = "none" /\ ~p.awaiting /\ ~l.usable
  BY <1>5, SimpleUnmatched DEF SmtpClientLine
<1>6. CASE p.body = "none" /\ ~p.awaiting /\ l.usable /\ SmtpVerb(l) = NoVerb
  BY <1>6, SimpleUnmatched DEF SmtpClientLine
<1>7. CASE p.body = "none" /\ ~p.awaiting /\ l.usable /\ SmtpVerb(l) # NoVerb
  <2> DEFINE v == SmtpVerb(l)
             k == SmtpKind(v)
  <2>1. r = Command(p, v, k, 0)
    BY <1>7 DEF SmtpClientLine
  <2>2. v \in Words
    BY <1>7, SmtpVerbFacts
  <2>3. k \in {"upgrade", "auth", "other"} /\ 0 \in Nat
    <3> HIDE DEF v
    <3> QED
      BY SmtpKindFacts
  <2> HIDE DEF v, k
  <2> QED
    BY <2>1, <2>2, <2>3, CommandUnmatched
<1> QED
  BY <1>3, <1>4, <1>5, <1>6, <1>7

LEMMA Pop3ClientUnmatched ==
    ASSUME NEW p \in Parsers, NEW l \in Lines
    PROVE  Unmatched(p, Pop3ClientLine(p, l))
<1>1. CASE ~l.usable
  BY <1>1, SimpleUnmatched DEF Pop3ClientLine
<1>2. CASE l.usable /\ Pop3Verb(l) = NoVerb
  BY <1>2, SimpleUnmatched DEF Pop3ClientLine
<1>3. CASE l.usable /\ Pop3Verb(l) # NoVerb
  <2> DEFINE v == Pop3Verb(l)
             k == Pop3Kind(v)
  <2>1. Pop3ClientLine(p, l) = Command(p, v, k, 0)
    BY <1>3 DEF Pop3ClientLine
  <2>2. v \in Words
    BY <1>3 DEF Pop3Verb, Lines
  <2>3. k \in {"upgrade", "auth", "other"} /\ 0 \in Nat
    <3> HIDE DEF v
    <3> QED
      BY Pop3KindFacts
  <2> HIDE DEF v, k
  <2> QED
    BY <2>1, <2>2, <2>3, CommandUnmatched
<1> QED
  BY <1>1, <1>2, <1>3

LEMMA ImapClientUnmatched ==
    ASSUME NEW p \in Parsers, NEW l \in Lines
    PROVE  Unmatched(p, ImapClientLine(p, l))
<1>1. CASE p.awaiting
  BY <1>1, SimpleUnmatched DEF ImapClientLine, Continuation
<1>2. CASE ~p.awaiting /\ ~l.usable
  BY <1>2, SimpleUnmatched DEF ImapClientLine
<1>3. CASE ~p.awaiting /\ l.usable /\ ImapVerb(l) = NoVerb
  <2> DEFINE q == Foreign(p)
  <2>1. ImapClientLine(p, l) = ConsumeLiteral(q, l)
    BY <1>3 DEF ImapClientLine
  <2>2. Unmatched(p, q) /\ q \in Parsers
    BY SimpleUnmatched DEF Unmatched
  <2> HIDE DEF q
  <2> QED
    BY <2>1, <2>2, LiteralUnmatched, UnmatchedTransitive
<1>4. CASE ~p.awaiting /\ l.usable /\ ImapVerb(l) # NoVerb
  <2> DEFINE v == ImapVerb(l)
             k == ImapKind(v)
             q == Command(p, v, k, l.tag)
  <2>1. ImapClientLine(p, l) = ConsumeLiteral(q, l)
    BY <1>4 DEF ImapClientLine
  <2>2. v \in Words /\ l.tag \in Nat
    BY <1>4 DEF ImapVerb, Lines, Words
  <2>3. k \in {"upgrade", "auth", "other"}
    <3> HIDE DEF v
    <3> QED
      BY ImapKindFacts
  <2> HIDE DEF v, k
  <2>4. Unmatched(p, q)
    BY <2>2, <2>3, CommandUnmatched
  <2> HIDE DEF q
  <2>5. q \in Parsers
    BY <2>4 DEF Unmatched
  <2> QED
    BY <2>1, <2>4, <2>5, LiteralUnmatched, UnmatchedTransitive
<1> QED
  BY <1>1, <1>2, <1>3, <1>4

LEMMA SmtpServerUnmatched ==
    ASSUME NEW p \in Parsers, NEW l \in Lines, l.word \notin SmtpCodes
    PROVE  Unmatched(p, SmtpServerLine(p, l))
<1> DEFINE r == SmtpServerLine(p, l)
<1>1. r \in Parsers
  <2> HIDE DEF r
  <2> QED
    BY SmtpServerFacts DEF r
<1>2. SmtpCode(l) = NoVerb
  BY DEF SmtpCode
<1>3. PICK a \in {Unusable(p), Foreign(p)} : r = [a EXCEPT !.reply = << >>]
  BY <1>2 DEF SmtpServerLine
<1>4. a \in Parsers /\ a.matched = p.matched
  BY <1>3, SimpleUnmatched DEF Unmatched
<1> HIDE DEF r
<1>5. r.matched = a.matched
  BY <1>3, <1>4 DEF Parsers
<1> QED
  BY <1>1, <1>4, <1>5 DEF Unmatched, r

LEMMA MultilineUnmatched ==
    ASSUME NEW p \in Parsers, NEW l \in Lines
    PROVE  Unmatched(p, MultilineLine(p, l))
<1> DEFINE r == MultilineLine(p, l)
<1>1. r \in Parsers
  <2> HIDE DEF r
  <2> QED
    BY MultilineFacts DEF r
<1>2. CASE EndsBody(l)
  <2> DEFINE a == [p EXCEPT !.body = "none", !.bodyLines = 0]
             b == AddEvent(a)
             q == [b EXCEPT !.reply = << >>]
             c == AddEvent(q)
  <2>1. a \in Parsers /\ a.matched = p.matched
    BY DEF Parsers, Bodies
  <2>2. r \in {q, Advertise(q)}
    BY <1>2 DEF MultilineLine, RecordCapa, EndsBody
  <2> HIDE DEF a
  <2>3. b \in Parsers /\ b.matched = a.matched
    BY <2>1, AddEventUnmatched DEF Unmatched
  <2> HIDE DEF b
  <2>4. q \in Parsers /\ q.matched = b.matched
    <3>1. ASSUME NEW s \in Seq(BOOLEAN)
          PROVE  [b EXCEPT !.reply = s] \in Parsers /\ [b EXCEPT !.reply = s].matched = b.matched
      BY <2>3, <3>1 DEF Parsers
    <3>2. << >> \in Seq(BOOLEAN)
      OBVIOUS
    <3> QED
      BY <3>1, <3>2
  <2>5. Advertise(q) = [c EXCEPT !.upgradeSeen = TRUE, !.advertised = Room(q)]
    BY DEF Advertise
  <2> HIDE DEF q
  <2>6. c \in Parsers /\ c.matched = q.matched
    BY <2>4, AddEventUnmatched DEF Unmatched
  <2> HIDE DEF c
  <2>7. Advertise(q).matched = c.matched
    BY <2>5, <2>6 DEF Parsers
  <2> HIDE DEF r
  <2> QED
    BY <1>1, <2>1, <2>2, <2>3, <2>4, <2>6, <2>7 DEF Unmatched, r
<1>3. CASE ~EndsBody(l)
  <2>1. \/ r = [p EXCEPT !.reply = Append(@, l.offers)]
        \/ r = [p EXCEPT !.bodyLines = @ + 1, !.stopped = p.bodyLines >= MaxBody]
    BY <1>3 DEF MultilineLine, EndsBody
  <2> HIDE DEF r
  <2>2. r.matched = p.matched
    BY <2>1 DEF Parsers
  <2> QED
    BY <1>1, <2>2 DEF Unmatched, r
<1> QED
  BY <1>2, <1>3

LEMMA Pop3ServerUnmatched ==
    ASSUME NEW p \in Parsers, NEW l \in Lines, l.word \notin Statuses
    PROVE  Unmatched(p, Pop3ServerLine(p, l))
<1>1. CASE p.body # "none"
  BY <1>1, MultilineUnmatched DEF Pop3ServerLine
<1>2. CASE p.body = "none" /\ ~l.usable
  BY <1>2, SimpleUnmatched DEF Pop3ServerLine
<1>3. CASE p.body = "none" /\ l.usable
  BY <1>3, SimpleUnmatched DEF Pop3ServerLine, Statuses
<1> QED
  BY <1>1, <1>2, <1>3

LEMMA ImapServerUnmatched ==
    ASSUME NEW p \in Parsers, NEW l \in Lines, l.says # "IMAP"
    PROVE  Unmatched(p, ImapServerLine(p, l))
<1>1. CASE ~l.usable
  BY <1>1, SimpleUnmatched DEF ImapServerLine
<1>2. CASE l.usable /\ l.word = "+"
  <2> DEFINE a == AddEvent(p)
             q == [a EXCEPT !.awaiting = @ \/ Outstanding(p, IsAuth)]
  <2>1. ImapServerLine(p, l) = ConsumeLiteral(q, l)
    BY <1>2 DEF ImapServerLine
  <2>2. a \in Parsers /\ a.matched = p.matched
    BY AddEventUnmatched DEF Unmatched
  <2> HIDE DEF a
  <2>3. q \in Parsers /\ q.matched = a.matched
    BY <2>2 DEF Parsers
  <2>4. Unmatched(p, q)
    BY <2>2, <2>3 DEF Unmatched
  <2> HIDE DEF q
  <2> QED
    BY <2>1, <2>3, <2>4, LiteralUnmatched, UnmatchedTransitive
<1>3. CASE l.usable /\ l.word # "+"
  <2>1. ImapServerLine(p, l) \in {AddEvent(p), Foreign(p)}
    BY <1>3 DEF ImapServerLine
  <2> QED
    BY <2>1, AddEventUnmatched, SimpleUnmatched
<1> QED
  BY <1>1, <1>2, <1>3

(* What each parser makes of a line; and of a line of another grammar.      *)
ParsersKnow(q, p, m, fromClient) ==
    LET r == Parse(q, p, m, fromClient)
    IN  /\ r \in Parsers
        /\ \/ fromClient
           \/ q = "SMTP" /\ m.word \notin SmtpCodes
           \/ q = "POP3" /\ m.word \notin Statuses
           \/ q = "IMAP" /\ m.says # "IMAP"
           => r.matched = p.matched

LEMMA ParseUnmatched ==
    ASSUME NEW p \in Parsers, NEW m \in Lines, NEW q \in Protocols, NEW fromClient \in BOOLEAN
    PROVE  ParsersKnow(q, p, m, fromClient)
<1> DEFINE r == Parse(q, p, m, fromClient)
           g == IF m.gap THEN NoteGap(p) ELSE p
           h == IF m.gap THEN AbandonMultiline(NoteGap(p)) ELSE p
<1>1. Unmatched(p, g) /\ g \in Parsers
  BY SimpleUnmatched DEF Unmatched
<1>2. Unmatched(p, h) /\ h \in Parsers
  <2> DEFINE n == NoteGap(p)
  <2>1. Unmatched(p, n) /\ n \in Parsers
    BY SimpleUnmatched DEF Unmatched
  <2> HIDE DEF n
  <2>2. Unmatched(n, AbandonMultiline(n))
    BY <2>1, SimpleUnmatched
  <2>3. h \in {p, AbandonMultiline(n)}
    BY DEF n
  <2> HIDE DEF h
  <2> QED
    BY <2>1, <2>2, <2>3 DEF Unmatched
<1>3. CASE p.halt \/ p.stopped
  <2>1. r = p
    BY <1>3 DEF Parse, SmtpParse, ImapParse, Pop3Parse, Protocols
  <2> HIDE DEF r
  <2> QED
    BY <2>1 DEF ParsersKnow, r
<1>4. CASE ~p.halt /\ ~p.stopped /\ q = "SMTP"
  <2>1. r = IF fromClient THEN SmtpClientLine(g, m) ELSE SmtpServerLine(g, m)
    BY <1>4 DEF Parse, SmtpParse
  <2> HIDE DEF g, h, r
  <2>2. CASE fromClient
    <3>1. Unmatched(g, r)
      BY <1>1, <2>1, <2>2, SmtpClientUnmatched
    <3> QED
      BY <1>1, <3>1 DEF Unmatched, ParsersKnow, r
  <2>3. CASE ~fromClient
    <3>1. r \in Parsers
      BY <1>1, <2>1, <2>3, SmtpServerFacts
    <3>2. m.word \notin SmtpCodes => Unmatched(g, r)
      BY <1>1, <2>1, <2>3, SmtpServerUnmatched
    <3> QED
      BY <1>1, <1>4, <2>3, <3>1, <3>2 DEF Unmatched, ParsersKnow, r
  <2> QED
    BY <2>2, <2>3
<1>5. CASE ~p.halt /\ ~p.stopped /\ q = "POP3"
  <2>1. r = IF fromClient THEN Pop3ClientLine(h, m) ELSE Pop3ServerLine(h, m)
    BY <1>5 DEF Parse, Pop3Parse
  <2> HIDE DEF g, h, r
  <2>2. CASE fromClient
    <3>1. Unmatched(h, r)
      BY <1>2, <2>1, <2>2, Pop3ClientUnmatched
    <3> QED
      BY <1>2, <3>1 DEF Unmatched, ParsersKnow, r
  <2>3. CASE ~fromClient
    <3>1. r \in Parsers
      BY <1>2, <2>1, <2>3, Pop3ServerFacts
    <3>2. m.word \notin Statuses => Unmatched(h, r)
      BY <1>2, <2>1, <2>3, Pop3ServerUnmatched
    <3> QED
      BY <1>2, <1>5, <2>3, <3>1, <3>2 DEF Unmatched, ParsersKnow, r
  <2> QED
    BY <2>2, <2>3
<1>6. CASE ~p.halt /\ ~p.stopped /\ q = "IMAP"
  <2>1. r = IF fromClient THEN ImapClientLine(g, m) ELSE ImapServerLine(g, m)
    BY <1>6 DEF Parse, ImapParse
  <2> HIDE DEF g, h, r
  <2>2. CASE fromClient
    <3>1. Unmatched(g, r)
      BY <1>1, <2>1, <2>2, ImapClientUnmatched
    <3> QED
      BY <1>1, <3>1 DEF Unmatched, ParsersKnow, r
  <2>3. CASE ~fromClient
    <3>1. m.says # "IMAP" => Unmatched(g, r)
      BY <1>1, <2>1, <2>3, ImapServerUnmatched
    <3>2. m.says = "IMAP" => r \in Parsers
      BY <1>1, <2>1, <2>3, ImapServerFacts DEF ImapAnswered
    <3> QED
      BY <1>1, <1>6, <2>3, <3>1, <3>2 DEF Unmatched, ParsersKnow, r
  <2> QED
    BY <2>2, <2>3
<1> QED
  BY <1>3, <1>4, <1>5, <1>6 DEF Protocols

-----------------------------------------------------------------------------
(* While no message quotes a dialogue, no other parser counts anything.     *)
ForeignInv ==
    /\ \A q \in Protocols : parser[q] \in Parsers
    /\ ~truth.lookalike => \A q \in Protocols \ {protocol} : parser[q].matched = 0

LEMMA ForeignStep ==
    ASSUME ForeignInv, protocol \in Protocols, protocol' = protocol,
           truth.lookalike => truth'.lookalike,
           NEW how, NEW d \in Directions, NEW l, NEW word, NEW tag,
           SentLine(l, word, tag), Conveyed(how, d, l),
           d = "server" /\ ~truth'.lookalike => Speaks(word)
    PROVE  ForeignInv'
<1>1. CASE parser' = parser
  BY <1>1 DEF ForeignInv
<1>2. CASE parser' # parser
  <2>1. PICK m \in Lines :
           /\ m.says = l.says /\ m.word = l.word
           /\ parser' = [q \in Protocols |-> Parse(q, parser[q], m, d = "client")]
    BY <1>2 DEF Conveyed, Overheard
  <2>2. m.says = protocol /\ m.word = word
    BY <2>1 DEF SentLine
  <2>3. ASSUME NEW q \in Protocols
        PROVE  /\ parser'[q] \in Parsers
               /\ ~truth'.lookalike /\ q # protocol => parser'[q].matched = 0
    <3> DEFINE p == parser[q]
               r == parser'[q]
    <3>1. p \in Parsers /\ (~truth'.lookalike /\ q # protocol => p.matched = 0)
      BY <2>3 DEF ForeignInv
    <3>2. PICK b \in BOOLEAN : b <=> d = "client"
      OBVIOUS
    <3>3. r = Parse(q, p, m, b)
      BY <2>1, <2>3, <3>2
    <3> HIDE DEF p, r
    <3>4. ParsersKnow(q, p, m, b)
      BY <2>3, <3>1, ParseUnmatched
    <3>5. ASSUME ~truth'.lookalike, q # protocol
          PROVE  \/ b
                 \/ q = "SMTP" /\ m.word \notin SmtpCodes
                 \/ q = "POP3" /\ m.word \notin Statuses
                 \/ q = "IMAP" /\ m.says # "IMAP"
      BY <2>2, <2>3, <3>2, <3>5 DEF Directions, Protocols, Speaks, Statuses
    <3>6. r \in Parsers /\ (~truth'.lookalike /\ q # protocol => r.matched = 0)
      BY <3>1, <3>3, <3>4, <3>5 DEF ParsersKnow
    <3> QED
      BY <3>6 DEF r
  <2> QED
    BY <2>3 DEF ForeignInv
<1> QED
  BY <1>1, <1>2

LEMMA ForeignNext ==
    ASSUME DialogueInv, ForeignInv, Next
    PROVE  ForeignInv'
<1>1. /\ protocol \in Protocols /\ protocol \in {"SMTP", "IMAP", "POP3"}
      /\ "client" \in Directions /\ "server" \in Directions /\ Author \in Directions
  BY DEF DialogueInv, Protocols, Directions, Author
<1>2. CASE Greet
  <2>1. protocol' = protocol /\ (truth'.lookalike <=> truth.lookalike)
    BY <1>2, GreetFacts DEF Recorded
  <2>2. PICK how \in Treatments, l \in Lines, word \in {"220", "554", "+OK", "-ERR", "OK"} :
           SentLine(l, word, 0) /\ Conveyed(how, "server", l) /\ Speaks(word)
    BY <1>2, GreetFacts
  <2> QED
    BY <1>1, <2>1, <2>2, ForeignStep
<1>3. CASE SaslResponse
  <2>1. protocol' = protocol /\ (truth'.lookalike <=> truth.lookalike)
    BY <1>3, SaslResponseFacts DEF Recorded
  <2>2. PICK how \in Treatments, l \in Lines : SentLine(l, "text", 0) /\ Conveyed(how, "client", l)
    BY <1>3, SaslResponseFacts
  <2> QED
    BY <1>1, <2>1, <2>2, ForeignStep
<1>4. CASE Content
  <2>1. protocol' = protocol
    BY <1>4, ContentFacts
  <2>2. PICK how \in Treatments, l \in Lines, word \in Contents :
           /\ Recorded([truth EXCEPT !.lookalike = @ \/ word \in {"STARTTLS", "250"}])
           /\ SentLine(l, word, 0) /\ Conveyed(how, Author, l)
    BY <1>4, ContentFacts
  <2>3. truth'.lookalike <=> (truth.lookalike \/ word \in {"STARTTLS", "250"})
    BY <2>2, ContentTruth
  <2>4. ~truth'.lookalike => Speaks(word)
    BY <2>2, <2>3 DEF Contents, Speaks, SmtpCodes, SmtpGreetings
  <2> QED
    BY <1>1, <2>1, <2>2, <2>3, <2>4, ForeignStep
<1>5. CASE SendCommand
  <2>1. protocol' = protocol
    BY <1>5, SendCommandFacts
  <2>2. PICK how \in Treatments, l \in Lines, verb \in Commands[protocol] :
           /\ SentLine(l, verb, CommandTag)
           /\ Recorded([truth EXCEPT !.pipelined = @ \/ queue # << >>])
           /\ Conveyed(how, "client", l)
    BY <1>5, SendCommandFacts
  <2>3. truth'.lookalike <=> truth.lookalike
    BY <2>2, GroupFacts
  <2> QED
    BY <1>1, <2>1, <2>2, <2>3, ForeignStep
<1>6. CASE Interim
  <2>1. /\ protocol' = protocol /\ (truth'.lookalike <=> truth.lookalike)
        /\ queue # << >>
    BY <1>6, InterimFacts DEF Recorded
  <2>2. PICK how \in Treatments, l \in Lines, word \in {"250", "CAPABILITY", "354", "334", "+"} :
           /\ Awaited(Head(queue).verb, word, l.more)
           /\ SentLine(l, word, 0) /\ Conveyed(how, "server", l)
    BY <1>6, InterimFacts
  <2>3. Head(queue).verb \in Commands[protocol]
    <3>1. Head(queue) = queue[1] /\ 1 \in DOMAIN queue
      BY <2>1 DEF DialogueInv
    <3> QED
      BY <3>1 DEF DialogueInv
  <2>4. Speaks(word)
    BY <1>1, <2>2, <2>3 DEF Speaks, Awaited, Commands, SmtpCodes, SmtpGreetings
  <2> QED
    BY <1>1, <2>1, <2>2, <2>4, ForeignStep
<1>7. CASE Answer
  <2> DEFINE c == Head(queue)
             yes(word) == AsksUpgrade(c) /\ word \in Positive
             no(word) == AsksUpgrade(c) /\ word \notin Positive
  <2>1. protocol' = protocol
    BY <1>7, AnswerFacts
  <2>2. PICK how \in Treatments, l \in Lines, word \in Answers(c.verb) :
           /\ SentLine(l, word, c.tag)
           /\ Recorded([truth EXCEPT !.accepted = @ \/ yes(word), !.refused = @ \/ no(word)])
           /\ Conveyed(how, "server", l)
    BY <1>7, AnswerFacts
  <2>3. truth'.lookalike <=> truth.lookalike
    <3> DEFINE y == yes(word)
               n == no(word)
    <3>1. y \in BOOLEAN /\ n \in BOOLEAN
      OBVIOUS
    <3>2. Recorded([truth EXCEPT !.accepted = @ \/ y, !.refused = @ \/ n])
      BY <2>2
    <3> HIDE DEF y, n
    <3> QED
      BY <3>1, <3>2, AnswerTruth
  <2>4. Speaks(word)
    BY <1>1, <2>2 DEF Speaks, Answers, SmtpCodes, SmtpGreetings
  <2> QED
    BY <1>1, <2>1, <2>2, <2>3, <2>4, ForeignStep
<1> QED
  BY <1>2, <1>3, <1>4, <1>5, <1>6, <1>7 DEF Next

(* Some protocol has the most evidence, whatever the evidence is.           *)
LEMMA SelectedFacts ==
    ASSUME ForeignInv, NEW hint \in Protocols
    PROVE  Selected(hint) \in Protocols
<1> DEFINE score(q) == EvidenceScore(parser[q])
           best == {q \in Protocols : \A r \in Protocols : score(r) <= score(q)}
<1>1. ASSUME NEW q \in Protocols PROVE score(q) \in Int
  <2> DEFINE p == parser[q]
  <2>1. p \in Parsers
    BY <1>1 DEF ForeignInv
  <2> HIDE DEF p
  <2>2. EvidenceScore(p) \in Int
    <3> DEFINE g == IF p.greeting THEN 4 ELSE 0
               u == IF p.upgradeSeen THEN 2 ELSE 0
               m == AtMost(p.matched, 4)
               c == AtMost(p.recognised, 5)
               f == AtMost(p.foreign, 3)
               sum == g + 3 * m + c + u - 2 * f
    <3>1. p.matched \in Int /\ p.recognised \in Int /\ p.foreign \in Int
      BY <2>1 DEF Parsers
    <3>2. m \in Int /\ c \in Int /\ f \in Int /\ g \in Int /\ u \in Int
      BY <3>1 DEF AtMost
    <3>3. EvidenceScore(p) = IF sum < 0 THEN 0 ELSE sum
      BY DEF EvidenceScore
    <3> HIDE DEF m, c, f, g, u
    <3>4. sum \in Int
      BY <3>2
    <3> QED
      BY <3>3, <3>4
  <2> QED
    BY <2>2 DEF p
<1>2. best # {}
  <2>1. /\ score("SMTP") \in Int /\ score("IMAP") \in Int /\ score("POP3") \in Int
    BY <1>1 DEF Protocols
  <2> HIDE DEF score
  <2> QED
    BY <2>1 DEF Protocols
<1>3. best \subseteq Protocols
  OBVIOUS
<1> HIDE DEF best
<1>4. \E q \in best : \A r \in best : Order[q] <= Order[r]
  <2>1. Order["SMTP"] = 1 /\ Order["IMAP"] = 2 /\ Order["POP3"] = 3
    BY DEF Order
  <2>2. \A q \in best : q \in {"SMTP", "IMAP", "POP3"}
    BY <1>3 DEF Protocols
  <2>3. CASE "SMTP" \in best
    BY <2>1, <2>2, <2>3
  <2>4. CASE "SMTP" \notin best /\ "IMAP" \in best
    BY <2>1, <2>2, <2>4
  <2>5. CASE "SMTP" \notin best /\ "IMAP" \notin best
    BY <1>2, <2>1, <2>2, <2>5
  <2> QED
    BY <2>3, <2>4, <2>5
<1> DEFINE first == CHOOSE q \in best : \A r \in best : Order[q] <= Order[r]
<1>5. first \in best
  BY <1>4
<1>6. Selected(hint) = IF hint \in best THEN hint ELSE first
  BY DEF Selected, best
<1> HIDE DEF first
<1> QED
  BY <1>3, <1>5, <1>6

(* A detection reported as CONFIRMED names the protocol that was spoken,    *)
(* whatever the port suggests and whatever the capture lost or spoiled,     *)
(* unless a message quoted another dialogue.                                *)
THEOREM ConfirmationIsRight == Spec => []ConfirmedIsRight
<1>1. Init => MailInv /\ ForeignInv
  <2> SUFFICES ASSUME Init PROVE ForeignInv
    BY MailInit
  <2>1. ASSUME NEW q \in Protocols PROVE parser[q] = NewParser
    BY <2>1 DEF Init
  <2>2. NewParser \in Parsers /\ NewParser.matched = 0
    BY NewParserFacts DEF NewParser
  <2> QED
    BY <2>1, <2>2 DEF ForeignInv
<1>2. MailInv /\ ForeignInv /\ [Next]_vars => (MailInv /\ ForeignInv)'
  <2>1. ASSUME MailInv, ForeignInv, Next
        PROVE  MailInv' /\ ForeignInv'
    BY <2>1, MailNext, ForeignNext DEF MailInv
  <2>2. ASSUME MailInv, ForeignInv, UNCHANGED vars
        PROVE  MailInv' /\ ForeignInv'
    BY <2>2, MailStutters DEF ForeignInv, vars
  <2> QED
    BY <2>1, <2>2
<1>3. ForeignInv => ConfirmedIsRight
  <2> SUFFICES ASSUME ForeignInv, NEW hint \in Protocols, ~truth.lookalike,
                      Detection(hint)[2] = "CONFIRMED"
               PROVE  Detection(hint)[1] = protocol
    BY DEF ConfirmedIsRight
  <2> DEFINE s == Selected(hint)
             p == parser[s]
  <2>1. Detection(hint) = IF EvidenceScore(p) = 0 \/ DetectionStatus(p) = "UNKNOWN"
                            THEN <<hint, "PORT_HINT">>
                          ELSE <<s, DetectionStatus(p)>>
    BY DEF Detection
  <2>2. s \in Protocols
    BY SelectedFacts
  <2>3. p \in Parsers /\ (s # protocol => p.matched = 0)
    BY <2>2 DEF ForeignInv
  <2> HIDE DEF p, s
  <2>4. DetectionStatus(p) = "CONFIRMED" /\ Detection(hint)[1] = s
    BY <2>1
  <2>5. p.matched # 0
    BY <2>3, <2>4 DEF DetectionStatus, Parsers
  <2> QED
    BY <2>3, <2>4, <2>5
<1> QED
  BY <1>1, <1>2, <1>3, PTL DEF Spec
=============================================================================
