---------------------------- MODULE Correlation ----------------------------
(***************************************************************************)
(* intelligence/identity.py, correlation.py and blast_radius.py: what      *)
(* endpoints and sessions have in common.  Endpoints are never merged;     *)
(* whatever they share becomes a typed relationship between two of them.   *)
(*                                                                         *)
(* Arguments are the sequence of sessions the batch admitted, each a       *)
(* record as in module Drift with rules, the rules it failed.              *)
(***************************************************************************)
EXTENDS Drift

Certificates(s) == ToSet(s.chain)
PublicKeys(s) == {KeyOf[c] : c \in Certificates(s)}
Configurations(s) == {ConfigurationFingerprint(s)} \ {Absent}

-----------------------------------------------------------------------------
(* Entities *)

Union(S, F(_)) == UNION {F(s) : s \in S}

Entity(members) ==
    [sessions       |-> {s.id : s \in members},
     captures       |-> {s.capture : s \in members},
     names          |-> {s.sni : s \in members} \ {Absent},
     certificates   |-> Union(members, Certificates),
     keys           |-> Union(members, PublicKeys),
     configurations |-> Union(members, Configurations),
     first          |-> CHOOSE t \in {s.time : s \in members} :
                            \A s \in members : t <= s.time]

BuildEntities(sessions) ==
    LET all == ToSet(sessions)
    IN  [e \in {s.entity : s \in all} |-> Entity({s \in all : s.entity = e})]

RelationSpecs ==
    [SHARED_CERTIFICATE  |-> "certificates",
     SHARED_PUBLIC_KEY   |-> "keys",
     OBSERVED_SNI        |-> "names",
     CONFIGURATION_MATCH |-> "configurations"]

Weak == {"OBSERVED_SNI", "CONFIGURATION_MATCH"}
Strong == {"SHARED_CERTIFICATE", "SHARED_PUBLIC_KEY"}

Related(entities, e, f, relation) ==
    entities[e][RelationSpecs[relation]] \cap entities[f][RelationSpecs[relation]] # {}

(* Weak signals together are a possible relation, unless a strong one       *)
(* already links the two.                                                   *)
RelateEntities(entities) ==
    LET pairs == {p \in (DOMAIN entities) \X (DOMAIN entities) : p[1] # p[2]}
        Signals(p) == {r \in DOMAIN RelationSpecs : Related(entities, p[1], p[2], r)}
    IN  UNION {{<<p[1], p[2], r>> : r \in Signals(p)} : p \in pairs}
          \cup {<<p[1], p[2], "POSSIBLE_RELATION">> :
                   p \in {q \in pairs : Weak \subseteq Signals(q) /\ Signals(q) \cap Strong = {}}}

-----------------------------------------------------------------------------
(* Correlations *)

(* Rules whose repetition is a pattern of its own. *)
PatternRules ==
    [r \in {"TLS-PROTO-001", "TLS-CIPHER-001", "TLS-CIPHER-003", "MAIL-001", "MAIL-002"} |->
        CASE r = "TLS-PROTO-001" -> "REPEATED_OBSOLETE_TLS"
          [] r \in {"TLS-CIPHER-001", "TLS-CIPHER-003"} -> "REPEATED_WEAK_CIPHER"
          [] OTHER -> "AUTHENTICATION_EXPOSURE"]

Build(kind, basis, members) ==
    [kind |-> kind, basis |-> basis, sessions |-> {s.id : s \in members},
     captures |-> {s.capture : s \in members}, entities |-> {s.entity : s \in members}]

Several(members) == Cardinality({s.id : s \in members}) >= 2

ByRule(all) ==
    LET Failing(r) == {s \in all : r \in s.rules}
        repeated == {r \in Union(all, LAMBDA s : s.rules) : Several(Failing(r))}
    IN  {Build("SHARED_RULE_FAILURE", r, Failing(r)) : r \in repeated}
          \cup {Build(PatternRules[r], r, Failing(r)) :
                   r \in repeated \cap DOMAIN PatternRules}

(* Every certificate of the chain counts, the issuer's too. *)
ByValue(all, kind, Of(_)) ==
    LET Sharing(v) == {s \in all : v \in Of(s)}
    IN  {Build(kind, v, Sharing(v)) : v \in {w \in Union(all, Of) : Several(Sharing(w))}}

ByEndpoint(all) ==
    LET At(e) == {s \in all : s.entity = e}
        shared == {e \in {s.entity : s \in all} : Several(At(e))}
        diverging == {e \in shared : Cardinality(Union(At(e), Configurations)) > 1}
    IN  {Build("SHARED_ENDPOINT", e, At(e)) : e \in shared}
          \cup {Build("ENDPOINT_CONFIGURATION_DIVERGENCE", e, At(e)) : e \in diverging}

(* All of them; the batch keeps as many as its limit allows. *)
Correlate(sessions) ==
    LET all == ToSet(sessions)
    IN  ByRule(all)
          \cup ByValue(all, "SHARED_CERTIFICATE", Certificates)
          \cup ByValue(all, "SHARED_PUBLIC_KEY", PublicKeys)
          \cup ByEndpoint(all)

-----------------------------------------------------------------------------
(* Blast radius: one entry per rule that failed anywhere. *)

BlastRadius(sessions, rule) ==
    LET members == {s \in ToSet(sessions) : rule \in s.rules}
    IN  [sessions |-> {s.id : s \in members},
         entities |-> {s.entity : s \in members},
         captures |-> {s.capture : s \in members},
         counted  |-> Len(Where(sessions, LAMBDA s : rule \in s.rules))]

BuildBlastRadius(sessions) ==
    [rule \in Union(ToSet(sessions), LAMBDA s : s.rules) |-> BlastRadius(sessions, rule)]
=============================================================================
