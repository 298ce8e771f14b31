------------------------------ MODULE LineDevice ------------------------------
(***************************************************************************)
(* What /dev/aesdchar promises its users: writes are atomic; the bytes     *)
(* written are cut into commands at each newline, the N most recent        *)
(* complete commands can be read back, and bytes after the last newline    *)
(* wait for the write that completes them.  A write that fails may have    *)
(* stored only some of its commands, but it never loses, repeats or        *)
(* reorders a byte.                                                        *)
(***************************************************************************)
EXTENDS Integers, SequencesExt, FiniteSetsExt

CONSTANTS N, NL, Packets

VARIABLES
  lines,   \* the complete commands, oldest first
  tail,    \* the bytes that wait for a newline
  ok       \* whether the last write succeeded

(* Where the newlines of a sequence of bytes are, the commands that end     *)
(* there, and what follows the k-th of them.                                *)
Ends(s) ==
  LET newlines == {i \in 1 .. Len(s) : s[i] = NL}
  IN  [k \in 1 .. Cardinality(newlines) |->
        CHOOSE i \in newlines : Cardinality({j \in newlines : j <= i}) = k]

Commands(s) ==
  [k \in 1 .. Len(Ends(s)) |-> SubSeq(s, (IF k = 1 THEN 0 ELSE Ends(s)[k - 1]) + 1, Ends(s)[k])]

After(s, k) == SubSeq(s, (IF k = 0 THEN 0 ELSE Ends(s)[k]) + 1, Len(s))

MostRecent(s) == SubSeq(s, IF Len(s) > N THEN Len(s) - N + 1 ELSE 1, Len(s))

Init == lines = << >> /\ tail = << >> /\ ok = TRUE

(* The bytes d arrive, and the first k of the commands they complete are stored. *)
Store(d, k) ==
  /\ lines' = MostRecent(lines \o SubSeq(Commands(tail \o d), 1, k))
  /\ tail' = After(tail \o d, k)

Write(d) == Store(d, Len(Ends(tail \o d))) /\ ok' = TRUE

(* A write that fails stores nothing, or keeps at least one complete command waiting. *)
FailedWrite(d) ==
  /\ ok' = FALSE
  /\ \/ UNCHANGED <<lines, tail>>
     \/ \E k \in 0 .. Len(Ends(tail \o d)) - 1 : Store(d, k)

-----------------------------------------------------------------------------
(* What can be read: the commands end to end.  A read stops at the end of  *)
(* the command it starts in, and returns nothing at the end.               *)
Contents == FlattenSeq(lines)

LineEnd(k) == Len(FlattenSeq(SubSeq(lines, 1, k)))

ReadAt(pos, count) ==
  LET behind == {k \in 1 .. Len(lines) : pos < LineEnd(k)}
  IN  IF behind = {} THEN << >>
      ELSE SubSeq(Contents, pos + 1, Min({pos + count, LineEnd(Min(behind))}))

(* The byte offset of the command cmd, both counted from 0, and its position. *)
HasByte(cmd, offset) == cmd < Len(lines) /\ offset < Len(lines[cmd + 1])

Position(cmd, offset) == LineEnd(cmd) + offset

-----------------------------------------------------------------------------
(* The driver is unloaded and loaded again. *)
Reset == lines' = << >> /\ tail' = << >> /\ ok' = TRUE

Next ==
  \/ \E d \in Packets : Write(d) \/ FailedWrite(d)
  \/ Reset

Spec == Init /\ [][Next]_<<lines, tail, ok>>
=============================================================================
