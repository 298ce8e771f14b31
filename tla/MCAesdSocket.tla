----------------------------- MODULE MCAesdSocket -----------------------------
(* Small instances of the server for TLC. *)
EXTENDS AesdSocket, TLC

CONSTANTS x

(* A line, two that together push it out, and first pieces of a seek: with its     *)
(* arguments and, for one that does not parse, without.                            *)
PiecesOfRequests == {<<x, NL>>, <<NL, NL>>, <<SEEK, <<0, 1>>>>, <<SEEK>>}

ShortLines == {<<NL>>}

MCSeekArgs == {<<0, 1>>}

Symmetry == Permutations(Clients)
=============================================================================
