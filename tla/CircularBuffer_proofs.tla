------------------------ MODULE CircularBuffer_proofs ------------------------
(***************************************************************************)
(* For every number of slots: the circular buffer keeps its index fields   *)
(* consistent, and implements the queue of the N most recent entries.      *)
(***************************************************************************)
EXTENDS CircularBuffer, AesdCircularBuffer_proofs

Inv == TypeOK /\ IndicesAgree

(* The invariant is that the struct is a consistent one. *)
LEMMA InvConsistent ==
  Inv <=> /\ buff \in BufferOf(Ptrs) /\ Consistent(buff)
          /\ overwritten \in Ptrs \cup {NULL}
BY DEF Inv, TypeOK, IndicesAgree, Consistent

(* aesd_circular_buffer_init leaves a consistent struct. *)
LEMMA InitInv == Init => Inv
<1> SUFFICES ASSUME Init PROVE Inv
  OBVIOUS
<1>1. EmptyBuffer \in BufferOf(Ptrs) /\ Consistent(EmptyBuffer)
  BY EmptyConsistent
<1> QED BY <1>1, InvConsistent DEF Init

(* What is added is an entry with a buffer of its own. *)
LEMMA EntriesType ==
  ASSUME NEW e \in Entries
  PROVE  e \in EntryOf(Ptrs) /\ e.buffptr # NULL
BY PtrsAssumption, MaxSizeAssumption DEF Entries, EntryOf

(* aesd_circular_buffer_add_entry keeps it consistent. *)
LEMMA InvStep == Inv /\ [Next]_vars => Inv'
<1> SUFFICES ASSUME Inv, [Next]_vars PROVE Inv'
  OBVIOUS
<1>1. ASSUME NEW e \in Entries, Add(e) PROVE Inv'
  <2>1. buff' \in BufferOf(Ptrs) /\ Consistent(buff')
    BY <1>1, InvConsistent, EntriesType, AddEntryType, AddEntryConsistent DEF Add
  <2>2. overwritten' \in Ptrs \cup {NULL}
    BY <1>1 DEF Add, OverwrittenEntry, Inv, TypeOK, BufferOf, EntryOf
  <2> QED BY <2>1, <2>2 DEF Inv, TypeOK, IndicesAgree, Consistent
<1>2. CASE UNCHANGED vars
  BY <1>2 DEF vars, Inv, TypeOK, IndicesAgree
<1> QED BY <1>1, <1>2 DEF Next

(* The struct never leaves its type: every slot number stays inside the    *)
(* array that add_entry and the search index with it.                      *)
THEOREM TypeCorrect == Spec => []TypeOK
<1>1. Inv => TypeOK
  BY DEF Inv
<1> QED BY <1>1, InitInv, InvStep, PTL DEF Spec

(* Whatever is added, the index fields, the full flag and the null slots   *)
(* agree (IndicesAgree), for every number of slots.                        *)
THEOREM IndicesAlwaysAgree == Spec => []IndicesAgree
<1>1. Inv => IndicesAgree
  BY DEF Inv
<1> QED BY <1>1, InitInv, InvStep, PTL DEF Spec

-----------------------------------------------------------------------------
(* The search finds what lies at a position of the entries put end to end. *)

(* The entries of a consistent buffer as rows, one element to each byte, put *)
(* end to end: what the search compares with, and where each element lies.   *)
LEMMA FindConcatenates ==
  ASSUME NEW b \in BufferOf(Ptrs), Consistent(b), NEW pos \in Nat
  PROVE  LET bytes == FlattenSeq([k \in 1 .. EntryCount(b) |->
                        [j \in 1 .. Window(b)[k].size |->
                          [slot |-> SlotAt(b, k - 1), entry_offset |-> j - 1]]])
         IN  FindEntryOffsetForFpos(b, pos) =
               IF pos < Len(bytes) THEN bytes[pos + 1] ELSE NoEntry
<1> DEFINE count == EntryCount(b)
           off == CurrentOffset(b)
           byte(k, j) == [slot |-> SlotAt(b, k - 1), entry_offset |-> j - 1]
           rows == [k \in 1 .. count |-> [j \in 1 .. Window(b)[k].size |-> byte(k, j)]]
           o == [k \in 0 .. count |-> off[k]]
           S == {byte(k, j) : k \in 1 .. count, j \in Nat}
           bytes == FlattenSeq(rows)
           found == FindEntryOffsetForFpos(b, pos)
<1>1. /\ count \in 0 .. N /\ N \in Nat /\ count \in Nat
      /\ \A k \in 1 .. count : Window(b)[k].size = SizeAt(b, k - 1)
  BY WindowShape, NAssumption DEF Consistent, SizeAt
<1>2. /\ off \in [0 .. N -> Nat] /\ off[0] = 0
      /\ \A k \in 1 .. N : off[k] = off[k - 1] + SizeAt(b, k - 1)
      /\ \A k \in 0 .. N - 1 : SizeAt(b, k) \in Nat
      /\ \A i, j \in 0 .. N : i <= j => off[i] <= off[j]
  BY OffsetIsSum, OffsetsGrow
<1>3. ASSUME NEW k \in 1 .. count
      PROVE  /\ rows[k] \in Seq(S) /\ Len(rows[k]) = SizeAt(b, k - 1)
             /\ \A j \in 1 .. SizeAt(b, k - 1) : rows[k][j] = byte(k, j)
  <2>1. SizeAt(b, k - 1) \in Nat /\ Window(b)[k].size = SizeAt(b, k - 1)
    BY <1>1, <1>2
  <2>2. \A j \in 1 .. SizeAt(b, k - 1) : byte(k, j) \in S
    OBVIOUS
  <2> HIDE DEF S, byte
  <2> QED BY <2>1, <2>2
<1>4. rows \in Seq(Seq(S)) /\ Len(rows) = count
  <2> HIDE DEF S, byte
  <2> QED BY <1>1, <1>3
<1> HIDE DEF rows, S, byte
<1>5. /\ o \in [0 .. Len(rows) -> Nat] /\ o[0] = 0
      /\ \A k \in 1 .. Len(rows) : o[k] = o[k - 1] + Len(rows[k])
  <2>1. ASSUME NEW k \in 1 .. count PROVE o[k] = o[k - 1] + Len(rows[k])
    <3>1. k \in 1 .. N /\ k \in 0 .. count /\ k - 1 \in 0 .. count
      BY <1>1
    <3> QED BY <1>2, <1>3, <3>1
  <2>2. \A k \in 0 .. count : off[k] \in Nat
    BY <1>1, <1>2, SMTT(30)
  <2>3. o \in [0 .. count -> Nat] /\ o[0] = 0
    BY <1>1, <1>2, <2>2
  <2> HIDE DEF o
  <2> QED BY <1>4, <2>1, <2>3
<1> HIDE DEF off
<1>6. /\ Len(bytes) = off[count]
      /\ \A k \in 1 .. count : \A j \in 1 .. Len(rows[k]) : bytes[off[k - 1] + j] = rows[k][j]
  <2> HIDE DEF o
  <2>1. /\ Len(bytes) = o[Len(rows)]
        /\ \A k \in 1 .. Len(rows) : \A j \in 1 .. Len(rows[k]) : bytes[o[k - 1] + j] = rows[k][j]
    BY <1>4, <1>5, FlattenLookup, ZenonT(40)
  <2>2. \A k \in 0 .. count : o[k] = off[k]
    BY DEF o
  <2>3. count \in 0 .. count /\ \A k \in 1 .. count : k - 1 \in 0 .. count
    BY <1>1
  <2>4. Len(bytes) = off[count]
    BY <1>4, <2>1, <2>2, <2>3
  <2>5. ASSUME NEW k \in 1 .. count, NEW j \in 1 .. Len(rows[k])
        PROVE  bytes[off[k - 1] + j] = rows[k][j]
    <3>1. o[k - 1] = off[k - 1]
      BY <2>2, <2>3
    <3>2. bytes[o[k - 1] + j] = rows[k][j]
      BY <1>4, <2>1
    <3> QED BY <3>1, <3>2
  <2> QED BY <2>4, <2>5
<1> HIDE DEF bytes, o
<1>7. \/ found = NoEntry /\ off[count] <= pos
      \/ \E k \in 0 .. count - 1 :
           /\ off[k] <= pos /\ pos < off[k] + SizeAt(b, k)
           /\ found = [slot |-> SlotAt(b, k), entry_offset |-> pos - off[k]]
  BY FindCovers DEF off
<1>8. ASSUME found = NoEntry, off[count] <= pos PROVE ~(pos < Len(bytes))
  <2>1. off[count] \in Nat
    BY <1>1, <1>2
  <2> QED BY <1>6, <1>8, <2>1
<1>9. ASSUME NEW k \in 0 .. count - 1, off[k] <= pos, pos < off[k] + SizeAt(b, k),
             found = [slot |-> SlotAt(b, k), entry_offset |-> pos - off[k]]
      PROVE  pos < Len(bytes) /\ found = bytes[pos + 1]
  <2> DEFINE j == pos - off[k] + 1
  <2>1. /\ k \in 0 .. N - 1 /\ k + 1 \in 1 .. count /\ k + 1 \in 0 .. N /\ (k + 1) - 1 = k
        /\ off[k] \in Nat /\ off[k + 1] \in Nat /\ off[count] \in Nat /\ SizeAt(b, k) \in Nat
    BY <1>1, <1>2
  <2>2. off[k + 1] = off[k] + SizeAt(b, k) /\ off[k + 1] <= off[count]
    <3>1. k + 1 \in 1 .. N /\ k + 1 <= count /\ count \in 0 .. N
      BY <1>1
    <3> QED BY <1>2, <2>1, <3>1
  <2>3. pos < Len(bytes)
    BY <1>6, <1>9, <2>1, <2>2
  <2>4. j \in 1 .. SizeAt(b, k) /\ off[k] + j = pos + 1 /\ j - 1 = pos - off[k]
    BY <1>9, <2>1
  <2>5. rows[k + 1][j] = byte(k + 1, j) /\ j \in 1 .. Len(rows[k + 1])
    <3> HIDE DEF j
    <3> QED BY <1>3, <2>1, <2>4
  <2>6. bytes[off[k] + j] = byte(k + 1, j)
    <3> HIDE DEF j
    <3> QED BY <1>6, <2>1, <2>5
  <2> QED BY <1>9, <2>1, <2>3, <2>4, <2>6 DEF byte
<1>10. found = IF pos < Len(bytes) THEN bytes[pos + 1] ELSE NoEntry
  <2> HIDE DEF found
  <2> QED BY <1>7, <1>8, <1>9
<1> QED BY <1>10 DEF bytes, rows, byte

(* Whatever has been added, and whatever the position, the search of the   *)
(* driver agrees with reading the entries end to end, nothing past the end *)
(* included (aesd_circular_buffer_find_entry_offset_for_fpos).             *)
THEOREM FindAlwaysConcatenates == Spec => []FindIsConcatenation
<1>1. Inv => FindIsConcatenation
  <2> SUFFICES ASSUME Inv PROVE FindIsConcatenation
    OBVIOUS
  <2>1. buff \in BufferOf(Ptrs) /\ Consistent(buff)
    BY InvConsistent
  <2>2. \A pos \in Nat :
          LET bytes == FlattenSeq([k \in 1 .. EntryCount(buff) |->
                        [j \in 1 .. Window(buff)[k].size |->
                          [slot |-> SlotAt(buff, k - 1), entry_offset |-> j - 1]]])
          IN  FindEntryOffsetForFpos(buff, pos) =
                IF pos < Len(bytes) THEN bytes[pos + 1] ELSE NoEntry
    BY <2>1, FindConcatenates
  <2>3. \A pos \in 0 .. N * MaxSize : pos \in Nat
    OBVIOUS
  <2> QED BY <2>2, <2>3 DEF FindIsConcatenation
<1> QED BY <1>1, InitInv, InvStep, PTL DEF Spec

-----------------------------------------------------------------------------
(* Refinement: each addition changes Window as the abstract queue does. *)

(* An addition to the buffer is an addition to the abstract queue. *)
LEMMA AddRefines ==
  ASSUME Inv, NEW e \in Entries, Add(e)
  PROVE  Recent!Add(e)
<1>1. buff \in BufferOf(Ptrs) /\ Consistent(buff)
  BY InvConsistent
<1>2. Window(buff)' = Window(AddEntry(buff, e)) /\ overwritten' = OverwrittenEntry(buff)
  <2>1. Window(buff)' = Window(buff')
    BY DEF Window, EntryCount, SlotAt
  <2> QED BY <2>1 DEF Add
<1>3. CASE ~buff.full
  BY <1>1, <1>2, <1>3, EntriesType, AddEntryWindow DEF Recent!Add
<1>4. CASE buff.full
  <2>1. Window(buff) # << >>
    BY <1>1, <1>4, EntriesType, AddEntryWindow, NAssumption
  <2> QED BY <1>1, <1>2, <1>4, <2>1, EntriesType, AddEntryWindow DEF Recent!Add
<1> QED BY <1>1, <1>3, <1>4 DEF BufferOf

(* The circular buffer, for every number of slots, behaves as the queue of *)
(* the N most recent entries: what a reader finds in it from out_offs on,  *)
(* and which buffer each call of aesd_circular_buffer_add_entry returns to *)
(* be freed.                                                               *)
THEOREM Refinement == Spec => ImplementsRecentEntries
<1>1. Init => Recent!Init
  <2> SUFFICES ASSUME Init PROVE Window(buff) = << >> /\ overwritten = NULL
    BY DEF Recent!Init
  <2>1. EntryCount(buff) = 0
    BY DEF Init, EmptyBuffer, EntryCount
  <2> QED BY <2>1 DEF Init, Window
<1>2. Inv /\ [Next]_vars => [Recent!Next]_<<Window(buff), overwritten>>
  <2> SUFFICES ASSUME Inv, [Next]_vars
               PROVE  [Recent!Next]_<<Window(buff), overwritten>>
    OBVIOUS
  <2>1. CASE Next
    <3>1. PICK e \in Entries : Add(e)
      BY <2>1 DEF Next
    <3>2. Recent!Add(e)
      BY <3>1, AddRefines
    <3> QED BY <3>1, <3>2 DEF Recent!Next
  <2>2. CASE UNCHANGED vars
    BY <2>2 DEF vars, Window, EntryCount, SlotAt
  <2> QED BY <2>1, <2>2
<1> QED BY <1>1, <1>2, InitInv, InvStep, PTL DEF Spec, ImplementsRecentEntries, Recent!Spec
=============================================================================
