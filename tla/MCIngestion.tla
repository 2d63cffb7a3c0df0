----------------------------- MODULE MCIngestion -----------------------------
(* Symmetry of the address pairs and the lengths of the files, for TLC.     *)
(* No action reads which side is the client, whether a SYN/ACK was seen or  *)
(* whether there is a hole, and none reads unnoticed or misread: a run that *)
(* checks nothing about them, and of misread only whether all of it is      *)
(* explained, need not tell states apart by them.                           *)
EXTENDS Ingestion, TLC

KeySymmetry == Permutations(Keys)
MCMaxRecords == [PCAP |-> 5, PCAPNG |-> 4]

Relevant(s) == [s EXCEPT !.client = "a", !.synAck = FALSE, !.hole = FALSE]
WithoutHistory ==
    <<[n \in DOMAIN order |-> Relevant(order[n])], active, refused, refusedCount,
      traffic, carried, progress, file, {m \in misread : ~Explained(m)}>>
=============================================================================
