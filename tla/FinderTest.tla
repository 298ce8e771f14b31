------------------------------- MODULE FinderTest -------------------------------
(***************************************************************************)
(* The finder application: finder-test.sh, which writes a number of files  *)
(* with writer.c, has finder.sh count them and the lines that contain the  *)
(* string, and compares.  The script is run again and again, on the same   *)
(* directory; a run may be interrupted anywhere.  The string is one line,  *)
(* so a file matches when all of it has been written.                      *)
(***************************************************************************)
EXTENDS Naturals, FiniteSets

CONSTANTS
  NULL,
  MaxFiles,   \* bound on NUMFILES
  Faults      \* what may go wrong: "mkdir", "open", "write", "short", "interrupt"

ASSUME FinderAssumption == MaxFiles \in 1 .. 99 /\ NULL \notin {"none", "part", "all"}

VARIABLES
  pc,         \* where the script is
  NUMFILES,
  dir,        \* what each file of WRITEDIR holds: NULL (no file), "none", "part", "all"
  next,       \* the file to write next
  OUTPUT,     \* the two numbers finder.sh has printed
  written     \* history: the files this run has written to the end

vars == <<pc, NUMFILES, dir, next, OUTPUT, written>>

Files == 1 .. MaxFiles

Empty == [f \in Files |-> NULL]

Init ==
  /\ pc = "idle" /\ NUMFILES = 1 /\ dir = Empty
  /\ next = 1 /\ OUTPUT = <<0, 0>> /\ written = {}

-----------------------------------------------------------------------------
(* Mutant of Cleared: an earlier run's files stay. *)
ClearedNothing == dir

(* rm -rf "${WRITEDIR}" *)
Cleared == Empty

(* A run begins: the directory is removed and made. *)
Begin ==
  /\ pc = "idle"
  /\ NUMFILES' \in Files
  /\ dir' = Cleared
  /\ next' = 1 /\ written' = {}
  /\ \/ pc' = "write"
     \/ "mkdir" \in Faults /\ pc' = "idle"
  /\ UNCHANGED OUTPUT

(* One call of writer.  A short write counts as a success; the other errors *)
(* end the script ("set -e").                                               *)
Writer ==
  LET Holds(what) == dir' = [dir EXCEPT ![next] = what]
  IN
  /\ pc = "write" /\ next <= NUMFILES
  /\ \/ Holds("all") /\ pc' = "write" /\ written' = written \cup {next}
     \/ "short" \in Faults /\ Holds("part") /\ pc' = "write" /\ UNCHANGED written
     \/ "write" \in Faults /\ Holds("none") /\ pc' = "idle" /\ UNCHANGED written
     \/ "open" \in Faults /\ pc' = "idle" /\ UNCHANGED <<dir, written>>
  /\ next' = next + 1
  /\ UNCHANGED <<NUMFILES, OUTPUT>>

(* Mutant of Matching: every file that is not empty. *)
MatchingSome(contents) == {f \in Files : contents[f] \in {"part", "all"}}

(* grep -r "$searchstr" "$filesdir" *)
Matching(contents) == {f \in Files : contents[f] = "all"}

(* finder.sh, and the removal of the temporary directories. *)
Finder ==
  /\ pc = "write" /\ next > NUMFILES
  /\ OUTPUT' = <<Cardinality({f \in Files : dir[f] # NULL}), Cardinality(Matching(dir))>>
  /\ dir' = Empty
  /\ pc' = "compare"
  /\ UNCHANGED <<NUMFILES, next, written>>

(* grep "${MATCHSTR}": the number at the end of it may go on in the output. *)
Matches ==
  /\ OUTPUT[1] = NUMFILES
  /\ OUTPUT[2] = NUMFILES \/ OUTPUT[2] \div 10 = NUMFILES

Compare ==
  /\ pc = "compare"
  /\ pc' = IF Matches THEN "success" ELSE "failed"
  /\ UNCHANGED <<NUMFILES, dir, next, OUTPUT, written>>

(* The script exits, or is interrupted. *)
Exit ==
  /\ pc # "idle"
  /\ pc \in {"success", "failed"} \/ "interrupt" \in Faults
  /\ pc' = "idle"
  /\ UNCHANGED <<NUMFILES, dir, next, OUTPUT, written>>

Next == Begin \/ Writer \/ Finder \/ Compare \/ Exit

Spec == Init /\ [][Next]_vars

-----------------------------------------------------------------------------
(* The test reports success only when every file of this run holds the      *)
(* whole string, although writer.c takes a short write for a success (:39)  *)
(* and the match of the output is open at its end: the lines finder.sh      *)
(* counts make up for it.                                                   *)
SuccessMeansWritten == pc = "success" => written = 1 .. NUMFILES

(* It reports a failure only when a file of this run does not hold the      *)
(* string, whatever an earlier run has left behind when it ended early.     *)
FailureMeansMissing == pc = "failed" => written # 1 .. NUMFILES
=============================================================================
