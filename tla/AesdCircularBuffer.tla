-------------------------- MODULE AesdCircularBuffer --------------------------
(***************************************************************************)
(* struct aesd_circular_buffer and the three functions on it               *)
(* (aesd-char-driver/aesd-circular-buffer.{h,c}) as operators on a record: *)
(*                                                                         *)
(*   entry    : an array of N pairs (buffptr, size), indexed from 0        *)
(*   in_offs  : the slot the next entry goes to                            *)
(*   out_offs : the slot of the oldest entry                               *)
(*   full     : whether every slot is in use                               *)
(*                                                                         *)
(* The functions do no locking ("Any necessary locking must be performed   *)
(* by caller"), so they are operators here; the modules that extend this   *)
(* one say when they are called.                                           *)
(***************************************************************************)
EXTENDS Integers, Sequences, FiniteSetsExt

CONSTANTS
  N,     \* AESDCHAR_MAX_WRITE_OPERATIONS_SUPPORTED, 10 in the source
  NULL   \* the null pointer

(* in_offs and out_offs are uint8_t: every slot number has to fit in 8 bits. *)
ASSUME NAssumption == N \in 1 .. 256

Slots == 0 .. N - 1

(* struct aesd_buffer_entry, with buffptr taken from the set Ptrs. *)
EntryOf(Ptrs) == [buffptr : Ptrs \cup {NULL}, size : Nat]

BufferOf(Ptrs) ==
  [entry : [Slots -> EntryOf(Ptrs)], in_offs : Slots, out_offs : Slots, full : BOOLEAN]

NullEntry == [buffptr |-> NULL, size |-> 0]

(* aesd_circular_buffer_init: memset(buffer, 0, sizeof *buffer). *)
EmptyBuffer ==
  [entry |-> [i \in Slots |-> NullEntry], in_offs |-> 0, out_offs |-> 0, full |-> FALSE]

(* Mutant of Advance: it does not wrap. *)
AdvanceNoWrap(offs) == offs + 1

(* (offs + 1) % N, the advance of a slot number. *)
Advance(offs) == (offs + 1) % N

(* Mutants of AddEntry: out_offs stays on the slot that was overwritten; and *)
(* full is decided from the value in_offs had before it advanced.            *)
AddEntryKeepsOut(b, e) ==
  [entry    |-> [b.entry EXCEPT ![b.in_offs] = e],
   in_offs  |-> Advance(b.in_offs),
   out_offs |-> b.out_offs,
   full     |-> b.full \/ Advance(b.in_offs) = b.out_offs]

AddEntryFullTooEarly(b, e) ==
  LET out == IF b.full THEN Advance(b.out_offs) ELSE b.out_offs
  IN  [entry    |-> [b.entry EXCEPT ![b.in_offs] = e],
       in_offs  |-> Advance(b.in_offs),
       out_offs |-> out,
       full     |-> b.full \/ b.in_offs + 1 = N - 1]

(* The struct after aesd_circular_buffer_add_entry(b, e). *)
AddEntry(b, e) ==
  LET out == IF b.full THEN Advance(b.out_offs) ELSE b.out_offs
      in  == Advance(b.in_offs)
  IN  [entry    |-> [b.entry EXCEPT ![b.in_offs] = e],
       in_offs  |-> in,
       out_offs |-> out,
       full     |-> b.full \/ in = out]

(* What that call returns: the buffer the caller now has to free, or NULL. *)
OverwrittenEntry(b) == IF b.full THEN b.entry[b.out_offs].buffptr ELSE NULL

(* The slot the search looks at after k other ones. *)
SlotAt(b, k) == (b.out_offs + k) % N

(* current_offset after k entries have been passed over. *)
CurrentOffset(b) ==
  LET off[k \in 0 .. N] == IF k = 0 THEN 0 ELSE off[k - 1] + b.entry[SlotAt(b, k - 1)].size
  IN  off

(* Mutant of Reached: the test for in_offs comes before the entry is looked at, *)
(* so that a full buffer is left where the search starts.                       *)
ReachedTestsFirst(b, k) == \A j \in 0 .. k : SlotAt(b, j) # b.in_offs

(* The loop of the search gets as far as its k-th entry: it counts to N, and *)
(* leaves early when a buffer that is not full brings it back to in_offs.    *)
Reached(b, k) == b.full \/ \A j \in 1 .. k : SlotAt(b, j) # b.in_offs

NoEntry == [slot |-> NULL, entry_offset |-> 0]

(* aesd_circular_buffer_find_entry_offset_for_fpos(b, char_offset): the first *)
(* entry reached that covers char_offset, and the offset within that entry.   *)
FindEntryOffsetForFpos(b, char_offset) ==
  LET off  == CurrentOffset(b)
      hits == {k \in Slots : /\ Reached(b, k)
                             /\ char_offset < off[k] + b.entry[SlotAt(b, k)].size}
  IN  IF hits = {} THEN NoEntry
      ELSE LET k == Min(hits)
           IN  [slot |-> SlotAt(b, k), entry_offset |-> char_offset - off[k]]

-----------------------------------------------------------------------------
(* How many entries the buffer holds, and the entries from the oldest to the *)
(* newest: the buffer as its users think of it.                              *)
EntryCount(b) == IF b.full THEN N ELSE b.in_offs - b.out_offs

Window(b) == [k \in 1 .. EntryCount(b) |-> b.entry[SlotAt(b, k - 1)]]
=============================================================================
