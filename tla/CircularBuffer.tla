---------------------------- MODULE CircularBuffer ----------------------------
(***************************************************************************)
(* The circular buffer on its own, under any sequence of additions: the    *)
(* use the unit test Test_circular_buffer.c makes of it, but for every     *)
(* size of entry and for sequences of any length.                          *)
(***************************************************************************)
EXTENDS AesdCircularBuffer, SequencesExt

CONSTANTS
  Ptrs,     \* the memory the caller's entries point to
  MaxSize   \* the longest entry tried

ASSUME PtrsAssumption == NULL \notin Ptrs
ASSUME MaxSizeAssumption == MaxSize \in Nat

VARIABLES
  buff,         \* the struct
  overwritten   \* what the last call of add_entry returned

vars == <<buff, overwritten>>

(* Entries a caller may add. Size zero is allowed: nothing in the code forbids it. *)
Entries == [buffptr : Ptrs, size : 0 .. MaxSize]

Init == buff = EmptyBuffer /\ overwritten = NULL

Add(e) ==
  /\ buff' = AddEntry(buff, e)
  /\ overwritten' = OverwrittenEntry(buff)

Next == \E e \in Entries : Add(e)

Spec == Init /\ [][Next]_vars

-----------------------------------------------------------------------------
TypeOK ==
  /\ buff \in BufferOf(Ptrs)
  /\ overwritten \in Ptrs \cup {NULL}

(* The three index fields always agree: the buffer is full exactly when    *)
(* in_offs has caught up with out_offs after an addition, before that the  *)
(* oldest entry is in slot 0, and the slots in use are exactly those that  *)
(* have a buffptr.  aesd_llseek, aesd_ioctl and aesd_cleanup_module find    *)
(* the slots in use by their buffptr; the search goes by the indices.      *)
IndicesAgree ==
  /\ buff.full => buff.in_offs = buff.out_offs
  /\ ~buff.full => buff.out_offs = 0
  /\ \A i \in Slots : buff.entry[i].buffptr # NULL <=> (buff.full \/ i < buff.in_offs)
  /\ \A i \in Slots : buff.entry[i].buffptr = NULL => buff.entry[i].size = 0

(* Whatever the position, the search returns the entry and the byte that a *)
(* reader who concatenates the entries end to end would find there, and    *)
(* nothing past the end (the contract in the header comment of             *)
(* aesd_circular_buffer_find_entry_offset_for_fpos).                       *)
FindIsConcatenation ==
  LET bytes == FlattenSeq([k \in 1 .. EntryCount(buff) |->
                 [j \in 1 .. Window(buff)[k].size |->
                   [slot |-> SlotAt(buff, k - 1), entry_offset |-> j - 1]]])
  IN  \A char_offset \in 0 .. N * MaxSize :
        FindEntryOffsetForFpos(buff, char_offset) =
          IF char_offset < Len(bytes) THEN bytes[char_offset + 1] ELSE NoEntry

(* The buffer implements the queue of the N most recent entries, including *)
(* what each addition hands back for the caller to free.                   *)
Recent == INSTANCE RecentEntries WITH window <- Window(buff)

ImplementsRecentEntries == Recent!Spec
=============================================================================
