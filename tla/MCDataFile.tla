------------------------------ MODULE MCDataFile ------------------------------
(* A small instance of the server on a data file for TLC. *)
EXTENDS DataFile

CONSTANTS x, NL

(* One client sends a line that fills a read, the other a shorter one. *)
MCPacket ==
  LET longer == CHOOSE c \in Clients : TRUE
  IN  [c \in Clients |-> IF c = longer THEN <<x, NL>> ELSE <<NL>>]

(* A line and a timestamp. *)
MCLeftovers == {<<NL, STAMP>>}
=============================================================================
