-------------------------- MODULE MCInvestigation --------------------------
(* Two servers that start with one configuration and may move to a second  *)
(* (the certificate renewed with its key, the suites reordered, another    *)
(* group) or a third (an obsolete version dropped, the client's order      *)
(* followed, another key).                                                 *)
EXTENDS Investigation

CONSTANTS e1, e2, c1, c2

Both == {"a.example", "b.example"}

First ==
    [versions |-> {"TLSv1.0", "TLSv1.2"}, suites |-> <<"AES", "CHACHA">>, own |-> TRUE,
     groups |-> <<"x25519", "p256">>, issuer |-> "ca", leaf |-> [n \in Both |-> "old"]]

Renewed ==
    [First EXCEPT !.suites = <<"CHACHA", "AES">>, !.groups = <<"p256", "x25519">>,
                  !.leaf = [n \in Both |-> "renewed"]]

Replaced ==
    [First EXCEPT !.versions = {"TLSv1.2", "TLSv1.3"}, !.own = FALSE,
                  !.leaf = [n \in Both |-> IF n = "a.example" THEN "other" ELSE "old"]]

MCConfigs == {First, Renewed, Replaced}
MCKeyOf == [old |-> "key", renewed |-> "key", other |-> "key2", ca |-> "cakey"]

Modern == [versions |-> {"TLSv1.2", "TLSv1.3"}, suites |-> <<"AES", "CHACHA">>,
           groups |-> <<"x25519", "p256">>, sni |-> "a.example"]
Reordered == [Modern EXCEPT !.suites = <<"CHACHA", "AES">>, !.groups = <<"p256">>,
                            !.sni = "b.example"]
Old == [Modern EXCEPT !.versions = {"TLSv1.0"}, !.suites = <<"CHACHA">>]

Sees(offer, shown) == [offer |-> offer, shown |-> shown]

MCTraffic ==
    {Sees(Modern, "whole"), Sees(Reordered, "whole"), Sees(Old, "whole"),
     Sees(Modern, "noServerFlight"), Sees(Old, "noClientHello"), Sees(Modern, "refused")}

(* Two names of one content, a second content and a file nothing can read. *)
MCContentOf == [a |-> c1, copy |-> c1, c |-> c2, x |-> Unreadable]

Generous == [captures |-> 9, sessions |-> 9, fingerprints |-> 9, correlations |-> 99, events |-> 99]
FewSessions == [captures |-> 3, sessions |-> 2, fingerprints |-> 1, correlations |-> 2, events |-> 12]
FewCaptures == [Generous EXCEPT !.captures = 2, !.correlations = 2, !.events = 12]

MCBatches ==
    {[files |-> <<"c", "a", "copy">>, limits |-> Generous],
     [files |-> <<"a", "x", "c">>, limits |-> FewSessions],
     [files |-> <<"copy", "a", "c">>, limits |-> FewCaptures]}

(* The endpoints are interchangeable; the first session is at the first.    *)
FirstSessionAtE1 == log # << >> => log[1].entity = e1
=============================================================================
