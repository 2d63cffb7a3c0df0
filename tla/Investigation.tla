--------------------------- MODULE Investigation ---------------------------
(***************************************************************************)
(* intelligence/engine.py and timeline.py: several captures analysed as    *)
(* one investigation.                                                      *)
(*                                                                         *)
(* Clients open sessions with mail servers, which are reconfigured now and *)
(* then, and taps record them.  A batch analyses a list of files, under    *)
(* the limits of its configuration; the same files are then analysed again *)
(* in another order.  A log entry carries what its capture shows and, in   *)
(* config and asked, what is true; analyze_batch reads the former only.    *)
(***************************************************************************)
EXTENDS Correlation

CONSTANTS
    Endpoints,     \* observed (ip, port) pairs
    Captures,      \* contents of files
    Configs,       \* server configurations; InitialConfig is one of them
    InitialConfig,
    Traffic,       \* pairs of what a client asks and what its capture shows
    Batches,       \* lists of file names with the limits they are analysed under
    ContentOf,     \* the content of each name, or Unreadable
    Unreadable,
    MaxSessions,
    MaxChanges

Limits == [captures : Nat, sessions : Nat, fingerprints : Nat, correlations : Nat, events : Nat]

ASSUME BatchAssumption ==
    /\ InitialConfig \in Configs
    /\ \A b \in Batches : b \in [files : Seq(DOMAIN ContentOf), limits : Limits]

VARIABLES
    config,     \* the configuration of each server
    log,        \* the sessions, in the order they took place
    changes,    \* how often a server was reconfigured
    batch,      \* the list of files given and the limits
    report,     \* the investigation of the batch
    again       \* the investigation of the same files in another order

world == <<config, log, changes>>
vars == <<world, batch, report, again>>

None == [files |-> << >>]

-----------------------------------------------------------------------------
(* Servers and sessions *)

VersionRank == [v \in {"TLSv1.0", "TLSv1.2", "TLSv1.3"} |->
                    CASE v = "TLSv1.0" -> 1 [] v = "TLSv1.2" -> 2 [] OTHER -> 3]

FirstIn(seq, S) ==
    LET both == {i \in DOMAIN seq : seq[i] \in S}
    IN  IF both = {} THEN Absent ELSE seq[Min(both)]

NoAnswer == [version |-> Absent, suite |-> Absent, group |-> Absent, chain |-> << >>]

(* What a server answers: its best version, a suite by its own order or by *)
(* the client's, a group by its own order, the certificate for the name.   *)
Answer(cfg, offer) ==
    LET common == cfg.versions \cap offer.versions
        version == CHOOSE v \in common : \A w \in common : VersionRank[w] <= VersionRank[v]
    IN  IF common = {} THEN NoAnswer
        ELSE [version |-> version,
              suite   |-> IF cfg.own THEN FirstIn(cfg.suites, ToSet(offer.suites))
                          ELSE FirstIn(offer.suites, ToSet(cfg.suites)),
              group   |-> FirstIn(cfg.groups, ToSet(offer.groups)),
              chain   |-> IF version = "TLSv1.3" THEN << >>
                          ELSE <<cfg.leaf[offer.sni], cfg.issuer>>]

(* The n-th session, of a server with configuration cfg: what is true of   *)
(* it, and what the single-capture analysis says of it.  shown is "whole", *)
(* "noClientHello" or "noServerFlight" (a hole in the capture), or what    *)
(* happened instead of TLS: "refused" or "plain".                          *)
Observed(n, e, c, cfg, t) ==
    LET tls == t.shown \notin {"refused", "plain"}
        answer == IF tls /\ t.shown # "noServerFlight" THEN Answer(cfg, t.offer) ELSE NoAnswer
        hello == tls /\ t.shown # "noClientHello"
        rules == (IF answer.version = "TLSv1.0" THEN {"TLS-PROTO-001"} ELSE {})
                   \cup (IF tls THEN {} ELSE {"MAIL-001"})
    IN  [id |-> n, time |-> n, entity |-> e, capture |-> c, config |-> cfg, asked |-> t.offer,
         version |-> answer.version, suite |-> answer.suite, group |-> answer.group,
         chain |-> answer.chain,
         offer |-> IF hello THEN [versions |-> t.offer.versions,
                                  suites |-> ToSet(t.offer.suites)] ELSE Absent,
         sni |-> IF hello THEN t.offer.sni ELSE Absent,
         upgrade |-> CASE t.shown = "plain" -> "PLAINTEXT"
                       [] t.shown = "refused" -> "UPGRADE_REJECTED"
                       [] OTHER -> "TLS_BYTES_OBSERVED",
         rules |-> rules, policy |-> "policy",
         score |-> IF tls /\ answer = NoAnswer THEN Absent
                   ELSE IF rules = {} THEN "high" ELSE "low"]

(* Bound: a change before the first session or after the last shows in none. *)
Reconfigure(e, cfg) ==
    /\ batch = None
    /\ changes < MaxChanges
    /\ Len(log) \in 1..(MaxSessions - 1)
    /\ cfg # config[e]
    /\ config' = [config EXCEPT ![e] = cfg]
    /\ changes' = changes + 1
    /\ UNCHANGED <<log, batch, report, again>>

Session(e, c, t) ==
    /\ batch = None
    /\ Len(log) < MaxSessions
    /\ log' = Append(log, Observed(Len(log) + 1, e, c, config[e], t))
    /\ UNCHANGED <<config, changes, batch, report, again>>

-----------------------------------------------------------------------------
(* Which captures are analysed.  seen is the log: what the taps recorded. *)

SessionsOf(seen, c) == Where(seen, LAMBDA s : s.capture = c)

(* One turn of the loop.  A content seen before is recorded and not         *)
(* analysed again.                                                          *)
TakeFile(seen, b, name) ==
    LET c == ContentOf[name]
        Record(id, status) == Append(b.inventory, [name |-> name, id |-> id, status |-> status])
    IN  IF c = Unreadable
        THEN [b EXCEPT !.inventory = Record(name, "FAILED"),
                       !.warnings = @ \cup {"CAPTURE_FAILED"}]
        ELSE IF c \in ToSet(b.results)
        THEN [b EXCEPT !.inventory = Record(c, "DUPLICATE"),
                       !.warnings = @ \cup {"DUPLICATE_CAPTURE"}]
        ELSE [b EXCEPT !.inventory =
                             Record(c, IF SessionsOf(seen, c) = << >> THEN "EMPTY" ELSE "ANALYZED"),
                       !.results = Append(@, c),
                       !.warnings = @ \cup (IF SessionsOf(seen, c) = << >>
                                            THEN {"EMPTY_CAPTURE"} ELSE {})]

(* Names beyond the limit are not looked at. *)
Accepted(seen, files, limits) ==
    LET few == SubSeq(files, 1, IF Len(files) > limits.captures THEN limits.captures ELSE Len(files))
        none == [inventory |-> << >>, results |-> << >>,
                 warnings |-> IF few # files THEN {"BATCH_CAPTURE_LIMIT"} ELSE {}]
        after[n \in 0..Len(few)] ==
            IF n = 0 THEN none ELSE TakeFile(seen, after[n - 1], few[n])
    IN  after[Len(few)]

AllSessions(seen, results) ==
    LET joined[n \in 0..Len(results)] ==
            IF n = 0 THEN << >> ELSE joined[n - 1] \o SessionsOf(seen, results[n])
    IN  joined[Len(results)]

(* The session budget runs through all results. *)
Admitted(seen, results, limits) ==
    LET all == AllSessions(seen, results)
    IN  SubSeq(all, 1, IF Len(all) > limits.sessions THEN limits.sessions ELSE Len(all))

(* Defect: the limit is checked capture by capture.                         *)
TooManyInOne(seen, results, limits) ==
    \E i \in DOMAIN results : Len(SessionsOf(seen, results[i])) > limits.sessions

TooManySessions(seen, results, limits) == Len(AllSessions(seen, results)) > limits.sessions

-----------------------------------------------------------------------------
(* The timeline *)

Event(type, s, entity) ==
    [type |-> type, session |-> s.id, capture |-> s.capture, time |-> s.time, entity |-> entity]

TypeRank ==
    [SESSION_FIRST_PACKET |-> 0, PROTOCOL_IDENTIFIED |-> 1,
     UPGRADE_ADVERTISED |-> 2, UPGRADE_REQUESTED |-> 3,
     UPGRADE_ACCEPTED |-> 4, UPGRADE_REJECTED |-> 4, AUTHENTICATION_OBSERVED |-> 5,
     CLIENT_HELLO |-> 6, SERVER_HELLO |-> 7, CRYPTO_PARAMETERS_SELECTED |-> 8,
     CERTIFICATE_OBSERVED |-> 9, SECURITY_FINDING |-> 11, CONFIGURATION_DRIFT |-> 12]

(* No state of an upgrade has a name that starts with one of these words.   *)
ToldAsAccepted == {"ACCEPTED", "COMPLETED", "ESTABLISHED", "UPGRADED"}

UpgradeEvents(s) ==
    IF s.upgrade = "PLAINTEXT" THEN {}
    ELSE {"UPGRADE_ADVERTISED", "UPGRADE_REQUESTED",
          IF s.upgrade \in ToldAsAccepted THEN "UPGRADE_ACCEPTED" ELSE "UPGRADE_REJECTED"}

TlsEvents(s) ==
    (IF s.offer # Absent THEN {"CLIENT_HELLO"} ELSE {})
      \cup (IF s.version # Absent THEN {"SERVER_HELLO"} ELSE {})
      \cup (IF Absent \notin {s.version, s.suite} THEN {"CRYPTO_PARAMETERS_SELECTED"} ELSE {})
      \cup (IF s.chain # << >> THEN {"CERTIFICATE_OBSERVED"} ELSE {})

FindingEvents(s) == IF s.rules # {} THEN {"SECURITY_FINDING"} ELSE {}

(* Alerts are left out: they are listed like the other messages. *)
EventTypes(s) ==
    {"SESSION_FIRST_PACKET", "PROTOCOL_IDENTIFIED"}
      \cup UpgradeEvents(s) \cup TlsEvents(s) \cup FindingEvents(s)
      \cup (IF "MAIL-001" \in s.rules THEN {"AUTHENTICATION_OBSERVED"} ELSE {})

(* Every session of every result, admitted or not; one that was not has no  *)
(* endpoint.                                                                *)
SessionEvents(sessions, admitted) ==
    UNION {{Event(type, s, IF s \in admitted THEN s.entity ELSE Absent) : type \in EventTypes(s)}
              : s \in sessions}

DriftEvents(drift) ==
    {[type |-> "CONFIGURATION_DRIFT", session |-> d.after, capture |-> d.capture,
      time |-> d.time, entity |-> d.entity, kind |-> d.kind] :
        d \in {x \in drift : x.status = "OBSERVED_CHANGE"}}

Before(a, b) ==
    a.time < b.time \/ (a.time = b.time /\ TypeRank[a.type] < TypeRank[b.type])

(* The first max of S in an order.  Ties are decided by the rest of the     *)
(* sort key, which depends on the element alone.                            *)
FirstOf(S, max, Precedes(_, _)) ==
    LET kept[n \in 0..max] ==
            IF n = 0 THEN {}
            ELSE LET fewer == kept[n - 1]
                     rest == S \ fewer
                 IN  fewer \cup {CHOOSE x \in rest : \A y \in rest : ~Precedes(y, x)}
    IN  IF Cardinality(S) > max THEN kept[max] ELSE S

BuildTimeline(events, max) == FirstOf(events, max, Before)

-----------------------------------------------------------------------------
(* The investigation *)

(* Sorted by type and basis, then cut. *)
Reported(correlations, max) == FirstOf(correlations, max, LAMBDA x, y : FALSE)

AllDrift(admitted, entities) ==
    UNION {DriftForEntity(Where(admitted, LAMBDA s : s.entity = e)) : e \in DOMAIN entities}

InvestigationId(inventory) ==
    {r.id : r \in {x \in ToSet(inventory) : x.status # "DUPLICATE"}}

Investigate(seen, files, limits) ==
    LET taken == Accepted(seen, files, limits)
        results == taken.results
        admitted == Admitted(seen, results, limits)
        entities == BuildEntities(admitted)
        drift == AllDrift(admitted, entities)
        correlations == Correlate(admitted)
        events == SessionEvents(ToSet(AllSessions(seen, results)), ToSet(admitted))
                    \cup DriftEvents(drift)
        Warn(code, cond) == IF cond THEN {code} ELSE {}
    IN  [files        |-> files,
         id           |-> InvestigationId(taken.inventory),
         inventory    |-> ToSet(taken.inventory),
         entities     |-> entities,
         relations    |-> RelateEntities(entities),
         fingerprints |-> {Fingerprint(admitted[i]) :
                              i \in {k \in DOMAIN admitted : k <= limits.fingerprints}},
         drift        |-> drift,
         correlations |-> Reported(correlations, limits.correlations),
         blast        |-> BuildBlastRadius(admitted),
         timeline     |-> BuildTimeline(events, limits.events),
         warnings     |-> taken.warnings
                            \cup Warn("BATCH_SESSION_LIMIT", TooManySessions(seen, results, limits))
                            \cup Warn("CORRELATION_LIMIT",
                                      Cardinality(correlations) > limits.correlations)
                            \cup Warn("TIMELINE_LIMIT", Cardinality(events) > limits.events)]

Analyse(b) ==
    /\ batch = None
    /\ batch' = b
    /\ report' = Investigate(log, b.files, b.limits)
    /\ UNCHANGED <<world, again>>

AnalyseAgain ==
    /\ batch # None
    /\ again = None
    /\ again' = Investigate(log, Reverse(batch.files), batch.limits)
    /\ UNCHANGED <<world, batch, report>>

-----------------------------------------------------------------------------
Init ==
    /\ config = [e \in Endpoints |-> InitialConfig]
    /\ log = << >>
    /\ changes = 0
    /\ batch = None /\ report = None /\ again = None

Next ==
    \/ \E e \in Endpoints, cfg \in Configs : Reconfigure(e, cfg)
    \/ \E e \in Endpoints, c \in Captures, t \in Traffic : Session(e, c, t)
    \/ \E b \in Batches : Analyse(b)
    \/ AnalyseAgain

Spec == Init /\ [][Next]_vars

-----------------------------------------------------------------------------
(* Properties *)

Investigations == {report, again} \ {None}

(* What a change is a change of: that part of the server's configuration.   *)
ServerChanged(kind, was, is) ==
    LET Server(field) == was.config[field] # is.config[field]
    IN  CASE kind = "NEGOTIATED_VERSION"      -> Server("versions")
          [] kind = "NEGOTIATED_CIPHER_SUITE" -> Server("suites") \/ Server("own")
          [] kind = "KEY_EXCHANGE_GROUP"      -> Server("groups")
          [] OTHER                            -> Server("leaf")

(* The client differed in something that is not compared: the offer         *)
(* signature has neither the order of the suites, which decides where the   *)
(* server follows the client, nor the groups, and certificates are compared *)
(* whatever name was asked for.                                             *)
OfferNotCompared(kind, was, is) ==
    LET Asked(field) == was.asked[field] # is.asked[field]
    IN  \/ kind = "NEGOTIATED_CIPHER_SUITE" /\ ~is.config.own /\ Asked("suites")
        \/ kind = "KEY_EXCHANGE_GROUP" /\ Asked("groups")
        \/ kind \in {"CERTIFICATE_FINGERPRINT", "CERTIFICATE_PUBLIC_KEY"} /\ Asked("sni")

(* The changes that a report attributes to the server.  A score is kept     *)
(* apart from them: what moved there is a judgement.                        *)
Attributed(r) == {d \in r.drift : d.status = "OBSERVED_CHANGE" /\ d.kind \in DOMAIN Kinds}

(* Absence is not change, and a different selection is not necessarily a    *)
(* different server (drift.py): a change attributed to the server is one of *)
(* its configuration, never the work of a short capture, of other versions  *)
(* or suites offered, or of the argument order.  The differences between    *)
(* the clients that the comparison does not look at are the exceptions.     *)
ChangesAreExplained ==
    \A r \in Investigations : \A d \in Attributed(r) :
        LET was == log[d.before]
            is  == log[d.after]
        IN  ServerChanged(d.kind, was, is) \/ OfferNotCompared(d.kind, was, is)

(* "The server was asked the same question and gave a different answer, so  *)
(* the difference is attributable to it" (docs/drift-methodology.md), and a *)
(* certificate "is presented regardless of what the client offered"         *)
(* (drift.py): where a change is attributed to the server, the server is    *)
(* not the one it was.                                                      *)
ChangesAreTheServers ==
    \A r \in Investigations : \A d \in Attributed(r) :
        log[d.before].config # log[d.after].config

(* Output does not depend on argument order (engine.py): the same files in  *)
(* another order give the same endpoints, relationships, comparisons,       *)
(* correlations, counts and timeline, also where a limit cuts a sorted      *)
(* list.  Only captures and sessions are cut before anything is sorted, and *)
(* then both investigations say so; the fingerprints, too, are cut in the   *)
(* order of the files.  Which of two names of one content is the duplicate  *)
(* does depend on the order.                                                *)
SameFilesSameInvestigation ==
    again # None =>
        LET cut == {"BATCH_CAPTURE_LIMIT", "BATCH_SESSION_LIMIT"}
            sessions == UNION {report.entities[e].sessions : e \in DOMAIN report.entities}
            ordered == {"files", "inventory", "warnings"}
                         \cup {f \in {"fingerprints"} :
                                 Cardinality(sessions) > batch.limits.fingerprints}
        IN  \/ \A r \in Investigations : r.warnings \cap cut # {}
            \/ \A field \in DOMAIN report \ ordered : report[field] = again[field]

(* "Limits warn rather than truncate silently": whatever an investigation   *)
(* does not say about the files it was given is announced by a warning.     *)
(* The limit on fingerprints is the exception and is not among them.        *)
LimitsAreReported ==
    \A r \in Investigations :
        LET given == {ContentOf[n] : n \in ToSet(r.files)} \ {Unreadable}
            sessions == {s \in ToSet(log) : s.capture \in given}
            Warned(codes) == r.warnings \cap codes # {}
        IN  /\ {x.name : x \in r.inventory} # ToSet(r.files) => Warned({"BATCH_CAPTURE_LIMIT"})
            /\ (\E s \in sessions : s.entity \notin DOMAIN r.entities
                                       \/ s.id \notin r.entities[s.entity].sessions) =>
                    Warned({"BATCH_CAPTURE_LIMIT", "BATCH_SESSION_LIMIT"})
            /\ (\E s, t \in sessions : /\ s # t /\ s.rules \cap t.rules # {}
                                         /\ ~\E c \in r.correlations :
                                               c.kind = "SHARED_RULE_FAILURE"
                                               /\ {s.id, t.id} \subseteq c.sessions) =>
                    Warned({"BATCH_CAPTURE_LIMIT", "BATCH_SESSION_LIMIT", "CORRELATION_LIMIT"})
            /\ (\E s \in sessions : ~\E e \in r.timeline :
                                       e.session = s.id /\ e.type = "SESSION_FIRST_PACKET") =>
                    Warned({"BATCH_CAPTURE_LIMIT", "TIMELINE_LIMIT"})

(* "A timeline of what the captures actually show" (timeline.py): an        *)
(* upgrade the server accepted is not told as rejected.                     *)
UpgradesAreToldAsAnswered ==
    \A r \in Investigations : \A e \in r.timeline :
        e.type = "UPGRADE_REJECTED" => log[e.session].upgrade = "UPGRADE_REJECTED"
=============================================================================
