---------------------------- MODULE FinderTest_proofs ----------------------------
(***************************************************************************)
(* Proofs about the finder application for every number of files and every *)
(* set of things that may go wrong.                                        *)
(***************************************************************************)
EXTENDS FinderTest, FiniteSetTheorems, TLAPS

TypeInv ==
  /\ pc \in {"idle", "write", "compare", "success", "failed"}
  /\ NUMFILES \in Files
  /\ dir \in [Files -> {NULL, "none", "part", "all"}]
  /\ next \in Nat \ {0}
  /\ written \subseteq Files

(* While the script writes, the files up to next exist and no others, and  *)
(* those that hold the whole string are the ones written to the end.       *)
WriteCovers ==
  pc = "write" =>
    /\ next <= NUMFILES + 1
    /\ \A f \in Files : (dir[f] # NULL <=> f < next) /\ (dir[f] = "all" <=> f \in written)

(* What finder.sh has counted is this run's files. *)
OutputCounts ==
  pc = "compare" =>
    written \subseteq 1 .. NUMFILES /\ OUTPUT = <<NUMFILES, Cardinality(written)>>

Inv ==
  /\ TypeInv /\ WriteCovers /\ OutputCounts
  /\ SuccessMeansWritten /\ FailureMeansMissing

-----------------------------------------------------------------------------
(* The comparison of the output with MATCHSTR accepts exactly the runs     *)
(* that have written all their files: the lines that match cannot be more  *)
(* than the files, so the open end of the pattern admits nothing else.     *)
LEMMA MatchesMeansAll ==
  ASSUME NUMFILES \in Nat \ {0}, written \subseteq 1 .. NUMFILES,
         OUTPUT = <<NUMFILES, Cardinality(written)>>
  PROVE  Matches <=> written = 1 .. NUMFILES
<1>1. IsFiniteSet(1 .. NUMFILES) /\ Cardinality(1 .. NUMFILES) = NUMFILES
  BY FS_Interval
<1>2. /\ Cardinality(written) \in Nat /\ Cardinality(written) <= NUMFILES
      /\ Cardinality(written) = NUMFILES => written = 1 .. NUMFILES
  BY <1>1, FS_Subset, FS_CardinalityType
<1>3. Cardinality(written) \div 10 # NUMFILES
  BY <1>2
<1>4. QED
  BY <1>1, <1>2, <1>3 DEF Matches

(* The script has not run yet. *)
LEMMA InvInit == Init => Inv
BY FinderAssumption
   DEF Init, Inv, TypeInv, Files, Empty, WriteCovers, OutputCounts, SuccessMeansWritten,
       FailureMeansMissing

(* A run starts on a directory it has emptied. *)
LEMMA InvBegin ==
  ASSUME Inv, Begin
  PROVE  Inv'
<1>1. /\ pc' \in {"write", "idle"} /\ next' = 1 /\ written' = {}
      /\ NUMFILES' \in Files /\ dir' = [f \in Files |-> NULL]
  BY DEF Begin, Cleared, Empty
<1>2. TypeInv'
  BY <1>1 DEF TypeInv
<1>3. WriteCovers'
  <2>1. \A f \in Files : dir'[f] = NULL /\ dir'[f] # "all" /\ f \notin written' /\ ~(f < next')
    BY <1>1, FinderAssumption DEF Files
  <2>2. next' <= NUMFILES' + 1
    <3>1. \A n \in Files : 1 <= n + 1
      BY FinderAssumption DEF Files
    <3>2. QED
      BY <1>1, <3>1
  <2>3. QED
    BY <2>1, <2>2 DEF WriteCovers
<1>4. OutputCounts' /\ SuccessMeansWritten' /\ FailureMeansMissing'
  BY <1>1 DEF OutputCounts, SuccessMeansWritten, FailureMeansMissing
<1>5. QED
  BY <1>2, <1>3, <1>4 DEF Inv

(* A call of writer makes the next file, in one of four ways, or the       *)
(* script ends.                                                            *)
LEMMA InvWriter ==
  ASSUME Inv, Writer
  PROVE  Inv'
<1>. USE FinderAssumption DEF Inv, Writer, TypeInv, Files
<1>1. TypeInv'
  <2>1. next \in Files /\ next' \in Nat \ {0}
    OBVIOUS
  <2>2. \/ \E what \in {"none", "part", "all"} : dir' = [dir EXCEPT ![next] = what]
        \/ dir' = dir
    OBVIOUS
  <2>3. dir' \in [Files -> {NULL, "none", "part", "all"}]
    BY <2>1, <2>2
  <2>4. QED
    BY <2>1, <2>3
<1>2. WriteCovers'
  BY DEF WriteCovers
<1>3. OutputCounts' /\ SuccessMeansWritten' /\ FailureMeansMissing'
  BY DEF OutputCounts, SuccessMeansWritten, FailureMeansMissing
<1>4. QED
  BY <1>1, <1>2, <1>3

(* finder.sh counts the files there are and the lines that match. *)
LEMMA InvFinder ==
  ASSUME Inv, Finder
  PROVE  Inv'
<1>. USE FinderAssumption DEF Inv, Finder, TypeInv, Files
<1>1. next = NUMFILES + 1
  BY DEF WriteCovers
<1>2. {f \in Files : dir[f] # NULL} = 1 .. NUMFILES
  BY <1>1 DEF WriteCovers
<1>3. Matching(dir) = written /\ written \subseteq 1 .. NUMFILES
  <2>1. \A f \in Files : dir[f] = "all" <=> f \in written
    BY DEF WriteCovers
  <2>2. Matching(dir) = written
    BY <2>1 DEF Matching
  <2>3. \A f \in written : dir[f] # NULL
    BY <2>1
  <2>4. QED
    BY <1>2, <2>2, <2>3
<1>4. Cardinality(1 .. NUMFILES) = NUMFILES
  BY FS_Interval
<1>5. OutputCounts'
  BY <1>2, <1>3, <1>4 DEF OutputCounts
<1>6. TypeInv' /\ WriteCovers' /\ SuccessMeansWritten' /\ FailureMeansMissing'
  BY DEF Empty, WriteCovers, SuccessMeansWritten, FailureMeansMissing
<1>7. QED
  BY <1>5, <1>6

(* The comparison decides. *)
LEMMA InvCompare ==
  ASSUME Inv, Compare
  PROVE  Inv'
<1>1. Matches <=> written = 1 .. NUMFILES
  BY MatchesMeansAll, FinderAssumption DEF Compare, Inv, TypeInv, Files, OutputCounts
<1>2. QED
  BY <1>1
     DEF Compare, Inv, TypeInv, WriteCovers, OutputCounts, SuccessMeansWritten,
         FailureMeansMissing

(* Every step keeps the invariant. *)
LEMMA InvNext == Inv /\ [Next]_vars => Inv'
<1>. SUFFICES ASSUME Inv, [Next]_vars
              PROVE  Inv'
  OBVIOUS
<1>1. CASE Begin \/ Writer \/ Finder \/ Compare
  BY <1>1, InvBegin, InvWriter, InvFinder, InvCompare
<1>2. CASE Exit \/ UNCHANGED vars
  BY <1>2
     DEF Exit, vars, Inv, TypeInv, WriteCovers, OutputCounts, SuccessMeansWritten,
         FailureMeansMissing
<1>3. QED
  BY <1>1, <1>2 DEF Next

(* The invariant holds in every state that can be reached. *)
LEMMA InvHolds == Spec => []Inv
BY InvInit, InvNext, PTL DEF Spec

-----------------------------------------------------------------------------
(* finder-test.sh: it reports success only when every file of the run      *)
(* holds the whole string, although a short write passes for a success and *)
(* the comparison is open at its end.                                      *)
THEOREM SuccessAlwaysWritten == Spec => []SuccessMeansWritten
BY InvHolds, PTL DEF Inv

(* finder-test.sh: it reports a failure only when a file of the run does   *)
(* not hold the string, whatever an interrupted run has left behind.       *)
THEOREM FailureAlwaysMissing == Spec => []FailureMeansMissing
BY InvHolds, PTL DEF Inv
=============================================================================
