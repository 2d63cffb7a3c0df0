---------------------------- MODULE MCReassembly ----------------------------
(* Values of the constants of Reassembly for TLC. *)
EXTENDS Reassembly

\* Two contents for a byte, so that two segments can disagree.
MCPayloads == {<<1>>, <<1, 2>>, <<2, 2, 2>>}
MCPositions == {0, 2, 4, 6}
=============================================================================
