------------------------------ MODULE MCAesdChar ------------------------------
(* Small instances of the driver for TLC. *)
EXTENDS AesdChar

CONSTANTS a, b

(* Two commands at once, a longer one, a piece of one, and nothing. *)
AllPackets == {<<NL, a, NL>>, <<a, b, NL>>, <<b>>, << >>}

SmallPackets == {<<a, NL>>, <<b>>}

(* Commands that exist or not, offsets inside the command and just behind it. *)
MCSeekArgs == {<<0, 2>>, <<1, 1>>, <<2, 0>>}

MCOffsets == {-1, 2}

OneSeek == {<<0, 1>>}

(* The steps treat all threads and all blocks of memory alike. *)
Symmetry == Permutations(Threads) \cup Permutations(Blocks)
=============================================================================
