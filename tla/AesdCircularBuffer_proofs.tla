----------------------- MODULE AesdCircularBuffer_proofs -----------------------
(***************************************************************************)
(* Lemmas about the operators of the circular buffer, for every number of  *)
(* slots: what an addition does to the index fields and to the window of   *)
(* entries in use.  The buffer on its own and the driver both need them.   *)
(***************************************************************************)
EXTENDS AesdCircularBuffer, SequencesExt, WellFoundedInduction, SequenceTheorems,
        FiniteSetTheorems, TLAPS

-----------------------------------------------------------------------------
(* Natural numbers: every nonempty set of them has a least element, which   *)
(* is what Min chooses, and a set with 0 and each successor has them all.   *)

(* The order of the natural numbers is well founded. *)
LEMMA LeastNatural ==
  ASSUME NEW S \in SUBSET Nat, S # {}
  PROVE  \E m \in S : \A k \in S : m <= k
<1>1. PICK m \in S : \A k \in S : <<k, m>> \notin OpToRel(<, Nat)
  BY WFMin, NatLessThanWellFounded, Zenon
<1>2. \A k \in S : ~(k < m)
  BY <1>1 DEF OpToRel
<1> QED BY <1>2

(* So Min returns the least element. *)
LEMMA MinOf ==
  ASSUME NEW S \in SUBSET Nat, S # {}
  PROVE  Min(S) \in S /\ \A k \in S : Min(S) <= k
BY LeastNatural DEF Min

(* Induction, in the form that takes a set instead of a predicate. *)
LEMMA NatInduct ==
  ASSUME NEW T, 0 \in T, \A n \in Nat : n \in T => n + 1 \in T
  PROVE  Nat \subseteq T
<1> SUFFICES ASSUME Nat \ T # {} PROVE FALSE
  OBVIOUS
<1>1. PICK m \in Nat \ T : \A k \in Nat \ T : m <= k
  BY LeastNatural
<1>2. m # 0 /\ m - 1 \in Nat /\ m - 1 < m
  BY <1>1
<1>3. m - 1 \in T
  BY <1>1, <1>2
<1>4. (m - 1) + 1 = m
  BY <1>2
<1> QED BY <1>2, <1>3, <1>4

-----------------------------------------------------------------------------
(* Arithmetic of slot numbers: the two uses the code makes of % N. *)

(* Advancing a slot number stays within the array and wraps at its end. *)
LEMMA AdvanceWraps ==
  ASSUME NEW i \in Slots
  PROVE  /\ Advance(i) \in Slots
         /\ Advance(i) = IF i = N - 1 THEN 0 ELSE i + 1
BY NAssumption DEF Slots, Advance

(* The k-th slot from out_offs is out_offs + k, reduced by N at most once. *)
LEMMA SlotAtWraps ==
  ASSUME NEW b, b.out_offs \in Slots, NEW k \in 0 .. N
  PROVE  /\ SlotAt(b, k) \in Slots
         /\ SlotAt(b, k) = IF b.out_offs + k < N THEN b.out_offs + k ELSE b.out_offs + k - N
<1> DEFINE a == b.out_offs + k
<1>1. N \in Nat \ {0} /\ a \in 0 .. 2 * N - 1
  BY NAssumption DEF Slots
<1>2. a % N = IF a < N THEN a ELSE a - N
  <2> HIDE DEF a
  <2>1. CASE a \in 0 .. N - 1
    BY <1>1, <2>1
  <2>2. CASE a \in N .. 2 * N - 1
    BY <1>1, <2>2
  <2> QED BY <1>1, <2>1, <2>2
<1> QED BY <1>1, <1>2 DEF Slots, SlotAt

-----------------------------------------------------------------------------
(* The fields of the record that AddEntry builds. *)
LEMMA AddEntryFields ==
  ASSUME NEW b, NEW e
  PROVE  /\ AddEntry(b, e).entry = [b.entry EXCEPT ![b.in_offs] = e]
         /\ AddEntry(b, e).in_offs = Advance(b.in_offs)
         /\ AddEntry(b, e).out_offs = IF b.full THEN Advance(b.out_offs) ELSE b.out_offs
         /\ AddEntry(b, e).full = (b.full \/ AddEntry(b, e).in_offs = AddEntry(b, e).out_offs)
BY DEF AddEntry

-----------------------------------------------------------------------------
(* The index fields, the full flag and the slots with a buffptr agree. *)
Consistent(b) ==
  /\ b.full => b.in_offs = b.out_offs
  /\ ~b.full => b.out_offs = 0
  /\ \A i \in Slots : b.entry[i].buffptr # NULL <=> (b.full \/ i < b.in_offs)
  /\ \A i \in Slots : b.entry[i].buffptr = NULL => b.entry[i].size = 0

(* aesd_circular_buffer_init leaves a consistent buffer with nothing in it. *)
LEMMA EmptyConsistent ==
  ASSUME NEW Ptrs
  PROVE  /\ EmptyBuffer \in BufferOf(Ptrs) /\ Consistent(EmptyBuffer)
         /\ \A i \in Slots : EmptyBuffer.entry[i].buffptr = NULL
BY NAssumption DEF EmptyBuffer, Consistent, NullEntry, BufferOf, EntryOf, Slots

(* An addition keeps the struct in its type. *)
LEMMA AddEntryType ==
  ASSUME NEW Ptrs, NEW b \in BufferOf(Ptrs), NEW e \in EntryOf(Ptrs)
  PROVE  AddEntry(b, e) \in BufferOf(Ptrs)
<1> DEFINE in == Advance(b.in_offs)
           out == IF b.full THEN Advance(b.out_offs) ELSE b.out_offs
<1>1. /\ b.entry \in [Slots -> EntryOf(Ptrs)]
      /\ b.in_offs \in Slots /\ b.out_offs \in Slots
      /\ b.full \in BOOLEAN
  BY DEF BufferOf
<1>2. [b.entry EXCEPT ![b.in_offs] = e] \in [Slots -> EntryOf(Ptrs)]
  BY <1>1
<1>3. in \in Slots /\ out \in Slots
  BY <1>1, AdvanceWraps
<1>4. AddEntry(b, e) = [entry |-> [b.entry EXCEPT ![b.in_offs] = e], in_offs |-> in,
                        out_offs |-> out, full |-> b.full \/ in = out]
  BY DEF AddEntry
<1>5. (b.full \/ in = out) \in BOOLEAN
  OBVIOUS
<1> HIDE DEF in, out
<1> QED BY <1>2, <1>3, <1>4, <1>5 DEF BufferOf

(* An addition of a real entry keeps it consistent. *)
LEMMA AddEntryConsistent ==
  ASSUME NEW Ptrs, NEW b \in BufferOf(Ptrs), Consistent(b), NEW e, e.buffptr # NULL
  PROVE  Consistent(AddEntry(b, e))
<1> DEFINE c == AddEntry(b, e)
<1>1. /\ b.entry \in [Slots -> EntryOf(Ptrs)]
      /\ b.in_offs \in Slots /\ b.out_offs \in Slots
      /\ b.full \in BOOLEAN
  BY DEF BufferOf
<1>2. /\ c.entry = [b.entry EXCEPT ![b.in_offs] = e]
      /\ c.in_offs = Advance(b.in_offs)
      /\ c.out_offs = IF b.full THEN Advance(b.out_offs) ELSE b.out_offs
      /\ c.full = (b.full \/ c.in_offs = c.out_offs)
  BY AddEntryFields
<1> HIDE DEF c
<1>3. \A i \in Slots : c.entry[i] = IF i = b.in_offs THEN e ELSE b.entry[i]
  BY <1>1, <1>2
<1>4. Advance(b.in_offs) = IF b.in_offs = N - 1 THEN 0 ELSE b.in_offs + 1
  BY <1>1, AdvanceWraps
<1>5. (c.full => c.in_offs = c.out_offs) /\ (~c.full => c.out_offs = 0)
  BY <1>1, <1>2 DEF Consistent
<1>6. ASSUME NEW i \in Slots
      PROVE  c.entry[i].buffptr # NULL <=> (c.full \/ i < c.in_offs)
  <2>1. b.entry[i].buffptr # NULL <=> (b.full \/ i < b.in_offs)
    BY DEF Consistent
  <2>2. CASE b.full
    BY <2>1, <2>2, <1>2, <1>3
  <2>3. CASE ~b.full
    <3>1. b.out_offs = 0 /\ c.out_offs = 0
      BY <2>3, <1>2 DEF Consistent
    <3>2. c.full <=> b.in_offs = N - 1
      <4>1. c.full = (Advance(b.in_offs) = 0)
        BY <3>1, <2>3, <1>1, <1>2
      <4>2. (Advance(b.in_offs) = 0) <=> b.in_offs = N - 1
        BY <1>1, <1>4, NAssumption DEF Slots
      <4> QED BY <4>1, <4>2
    <3> QED BY <3>2, <2>1, <2>3, <1>1, <1>2, <1>3, <1>4, NAssumption DEF Slots
  <2> QED BY <2>2, <2>3
<1>7. \A i \in Slots : c.entry[i].buffptr = NULL => c.entry[i].size = 0
  BY <1>3 DEF Consistent
<1> QED BY <1>5, <1>6, <1>7 DEF Consistent, c

-----------------------------------------------------------------------------
(* The window of a consistent buffer is a sequence of entries, one for each *)
(* slot in use.                                                             *)
LEMMA WindowShape ==
  ASSUME NEW Ptrs, NEW b, b \in BufferOf(Ptrs), ~b.full => b.out_offs = 0
  PROVE  /\ EntryCount(b) \in 0 .. N
         /\ EntryCount(b) = N <=> b.full
         /\ Window(b) \in Seq(EntryOf(Ptrs))
         /\ Len(Window(b)) = EntryCount(b)
         /\ \A k \in 1 .. EntryCount(b) : Window(b)[k] = b.entry[SlotAt(b, k - 1)]
<1>1. /\ b.entry \in [Slots -> EntryOf(Ptrs)]
      /\ b.in_offs \in Slots /\ b.out_offs \in Slots
      /\ b.full \in BOOLEAN
  BY DEF BufferOf
<1>2. EntryCount(b) \in 0 .. N /\ (EntryCount(b) = N <=> b.full)
  BY <1>1, NAssumption DEF EntryCount, Slots
<1>3. \A k \in 1 .. EntryCount(b) : b.entry[SlotAt(b, k - 1)] \in EntryOf(Ptrs)
  <2> SUFFICES ASSUME NEW k \in 1 .. EntryCount(b)
               PROVE  b.entry[SlotAt(b, k - 1)] \in EntryOf(Ptrs)
    OBVIOUS
  <2>1. k - 1 \in 0 .. N
    BY <1>2, NAssumption
  <2> QED BY <1>1, <2>1, SlotAtWraps
<1>4. Window(b) \in Seq(EntryOf(Ptrs)) /\ Len(Window(b)) = EntryCount(b)
  BY <1>2, <1>3, NAssumption DEF Window
<1> QED BY <1>2, <1>4 DEF Window

(* An addition puts the entry behind those in use; when every slot is in use  *)
(* the oldest leaves, and it is that entry's buffer the addition hands back.  *)
LEMMA AddEntryWindow ==
  ASSUME NEW Ptrs, NEW b \in BufferOf(Ptrs), Consistent(b),
         NEW e \in EntryOf(Ptrs), e.buffptr # NULL
  PROVE  /\ ~b.full => /\ Len(Window(b)) < N
                       /\ Window(AddEntry(b, e)) = Append(Window(b), e)
                       /\ OverwrittenEntry(b) = NULL
         /\ b.full => /\ Len(Window(b)) = N
                      /\ Window(AddEntry(b, e)) = Append(Tail(Window(b)), e)
                      /\ OverwrittenEntry(b) = Head(Window(b)).buffptr
<1> DEFINE c == AddEntry(b, e)
           w == Window(b)
           v == Window(c)
<1>1. /\ b.entry \in [Slots -> EntryOf(Ptrs)]
      /\ b.in_offs \in Slots /\ b.out_offs \in Slots
      /\ b.full \in BOOLEAN
  BY DEF BufferOf
<1>2. /\ c.entry = [b.entry EXCEPT ![b.in_offs] = e]
      /\ c.in_offs = Advance(b.in_offs)
      /\ c.out_offs = IF b.full THEN Advance(b.out_offs) ELSE b.out_offs
      /\ c.full = (b.full \/ c.in_offs = c.out_offs)
  BY AddEntryFields
<1>3. \A i \in Slots : c.entry[i] = IF i = b.in_offs THEN e ELSE b.entry[i]
  BY <1>1, <1>2
<1>4. c \in BufferOf(Ptrs) /\ Consistent(c)
  BY AddEntryType, AddEntryConsistent
<1> HIDE DEF c
<1>5. /\ EntryCount(b) \in 0 .. N
      /\ EntryCount(b) = N <=> b.full
      /\ w \in Seq(EntryOf(Ptrs))
      /\ Len(w) = EntryCount(b)
      /\ \A k \in 1 .. EntryCount(b) : w[k] = b.entry[SlotAt(b, k - 1)]
  BY WindowShape DEF Consistent
<1>6. /\ EntryCount(c) \in 0 .. N
      /\ v \in Seq(EntryOf(Ptrs))
      /\ Len(v) = EntryCount(c)
      /\ \A k \in 1 .. EntryCount(c) : v[k] = c.entry[SlotAt(c, k - 1)]
  BY <1>4, WindowShape DEF Consistent
<1>8. Advance(b.in_offs) = IF b.in_offs = N - 1 THEN 0 ELSE b.in_offs + 1
  BY <1>1, AdvanceWraps
<1>9. CASE ~b.full
  \* One more entry behind the ones already held, which stay where they are.
  <2>1. b.out_offs = 0 /\ c.out_offs = 0
    BY <1>2, <1>9 DEF Consistent
  <2>2. EntryCount(b) = b.in_offs
    BY <1>1, <1>9, <2>1 DEF EntryCount, Slots
  <2>3. EntryCount(c) = b.in_offs + 1
    <3>1. c.full = (Advance(b.in_offs) = 0)
      BY <1>2, <1>9, <2>1
    <3>2. EntryCount(c) = IF c.full THEN N ELSE c.in_offs - c.out_offs
      BY DEF EntryCount
    <3>3. CASE b.in_offs = N - 1
      <4>1. Advance(b.in_offs) = 0
        BY <3>3, <1>8
      <4>2. c.full
        BY <3>1, <4>1
      <4> QED BY <4>2, <3>2, <3>3, NAssumption
    <3>4. CASE b.in_offs # N - 1
      <4>1. Advance(b.in_offs) = b.in_offs + 1 /\ Advance(b.in_offs) # 0
        BY <3>4, <1>1, <1>8, NAssumption DEF Slots
      <4>2. ~c.full
        BY <3>1, <4>1
      <4> QED BY <4>1, <4>2, <3>2, <2>1, <1>1, <1>2, NAssumption DEF Slots
    <3> QED BY <3>3, <3>4
  <2>4. \A k \in 1 .. N : SlotAt(b, k - 1) = k - 1 /\ SlotAt(c, k - 1) = k - 1
    <3> SUFFICES ASSUME NEW k \in 1 .. N
                 PROVE  SlotAt(b, k - 1) = k - 1 /\ SlotAt(c, k - 1) = k - 1
      OBVIOUS
    <3>1. k - 1 \in 0 .. N /\ k - 1 < N
      BY NAssumption
    <3>2. b.out_offs \in Slots /\ c.out_offs \in Slots
      BY <1>1, <2>1
    <3> QED BY <3>1, <3>2, <2>1, SlotAtWraps
  <2>5. v = Append(w, e)
    <3>1. Append(w, e) \in Seq(EntryOf(Ptrs)) /\ Len(Append(w, e)) = Len(w) + 1
      BY <1>5, AppendProperties
    <3>2. Len(v) = Len(Append(w, e))
      BY <3>1, <2>2, <2>3, <1>5, <1>6
    <3>3. ASSUME NEW k \in 1 .. Len(v) PROVE v[k] = Append(w, e)[k]
      <4>1. k \in 1 .. b.in_offs + 1 /\ k - 1 \in Slots /\ k \in 1 .. N
        <5>1. k \in 1 .. b.in_offs + 1
          BY <1>6, <2>3, <3>3
        <5>2. b.in_offs \in 0 .. N - 1
          BY <1>1 DEF Slots
        <5>3. k - 1 \in 0 .. N - 1 /\ k \in 1 .. N
          BY <5>1, <5>2, NAssumption
        <5> QED BY <5>1, <5>3 DEF Slots
      <4>2. v[k] = c.entry[k - 1]
        BY <4>1, <1>6, <2>3, <2>4
      <4>3. CASE k = b.in_offs + 1
        <5>1. v[k] = e
          BY <4>1, <4>2, <4>3, <1>1, <1>3 DEF Slots
        <5>2. Append(w, e)[k] = e
          BY <4>3, <1>5, <2>2, AppendProperties
        <5> QED BY <5>1, <5>2
      <4>4. CASE k # b.in_offs + 1
        <5>1. k \in 1 .. Len(w) /\ k - 1 # b.in_offs
          BY <4>1, <4>4, <1>1, <1>5, <2>2, NAssumption DEF Slots
        <5>2. w[k] = b.entry[k - 1]
          BY <5>1, <4>1, <1>5, <2>4
        <5>3. v[k] = b.entry[k - 1]
          BY <4>1, <4>2, <5>1, <1>3
        <5>4. Append(w, e)[k] = w[k]
          BY <5>1, <1>5, AppendProperties
        <5> QED BY <5>2, <5>3, <5>4
      <4> QED BY <4>3, <4>4
    <3> HIDE DEF v, w
    <3> QED BY <1>6, <3>1, <3>2, <3>3, SeqEqual
  <2>6. Len(w) < N
    BY <1>1, <1>5, <2>2, NAssumption DEF Slots
  <2>7. OverwrittenEntry(b) = NULL
    BY <1>9 DEF OverwrittenEntry
  <2> QED BY <1>9, <2>5, <2>6, <2>7 DEF v, w, c
<1>10. CASE b.full
  \* The oldest entry leaves, and its slot takes the new one.
  <2>1. b.in_offs = b.out_offs /\ c.full /\ c.out_offs = Advance(b.out_offs)
    BY <1>2, <1>10 DEF Consistent
  <2>2. EntryCount(b) = N /\ EntryCount(c) = N
    BY <1>10, <2>1 DEF EntryCount
  <2>3. c.out_offs \in Slots
    BY <2>1, <1>1, AdvanceWraps
  <2>4. \A k \in 1 .. N : SlotAt(c, k - 1) = SlotAt(b, k) /\ SlotAt(b, k) \in Slots
    <3> SUFFICES ASSUME NEW k \in 1 .. N
                 PROVE  SlotAt(c, k - 1) = SlotAt(b, k) /\ SlotAt(b, k) \in Slots
      OBVIOUS
    <3>1. k \in 0 .. N /\ k - 1 \in 0 .. N
      BY NAssumption
    <3>2. SlotAt(b, k) = IF b.out_offs + k < N THEN b.out_offs + k ELSE b.out_offs + k - N
      BY <3>1, <1>1, SlotAtWraps
    <3>3. SlotAt(c, k - 1) = IF c.out_offs + (k - 1) < N THEN c.out_offs + (k - 1)
                                 ELSE c.out_offs + (k - 1) - N
      BY <3>1, <2>3, SlotAtWraps
    <3>4. c.out_offs = IF b.out_offs = N - 1 THEN 0 ELSE b.out_offs + 1
      BY <2>1, <1>1, AdvanceWraps
    <3>5. SlotAt(b, k) \in Slots
      BY <3>1, <1>1, SlotAtWraps
    <3> QED BY <3>2, <3>3, <3>4, <3>5, <1>1, NAssumption DEF Slots
  <2>5. \A k \in 1 .. N : SlotAt(b, k) = b.in_offs <=> k = N
    <3> SUFFICES ASSUME NEW k \in 1 .. N
                 PROVE  SlotAt(b, k) = b.in_offs <=> k = N
      OBVIOUS
    <3>1. SlotAt(b, k) = IF b.out_offs + k < N THEN b.out_offs + k ELSE b.out_offs + k - N
      BY <1>1, SlotAtWraps, NAssumption
    <3>2. CASE k = N
      BY <3>1, <3>2, <2>1, <1>1, NAssumption DEF Slots
    <3>3. CASE k # N
      BY <3>1, <3>3, <2>1, <1>1, NAssumption DEF Slots
    <3> QED BY <3>2, <3>3
  <2>6. w # << >> /\ Len(w) = N
    BY <1>5, <2>2, NAssumption
  <2>7. /\ Tail(w) \in Seq(EntryOf(Ptrs)) /\ Len(Tail(w)) = N - 1
        /\ \A k \in 1 .. N - 1 : Tail(w)[k] = w[k + 1]
    BY <1>5, <2>6, HeadTailProperties
  <2>8. v = Append(Tail(w), e)
    <3>1. Append(Tail(w), e) \in Seq(EntryOf(Ptrs)) /\ Len(Append(Tail(w), e)) = N
      BY <2>7, NAssumption, AppendProperties
    <3>2. Len(v) = Len(Append(Tail(w), e))
      BY <3>1, <2>2, <1>6
    <3>3. ASSUME NEW k \in 1 .. Len(v) PROVE v[k] = Append(Tail(w), e)[k]
      <4>1. k \in 1 .. N
        BY <3>3, <1>6, <2>2
      <4>2. v[k] = c.entry[SlotAt(b, k)]
        BY <4>1, <1>6, <2>2, <2>4
      <4>3. v[k] = IF k = N THEN e ELSE b.entry[SlotAt(b, k)]
        BY <4>1, <4>2, <1>3, <2>4, <2>5
      <4>4. CASE k = N
        <5>1. Append(Tail(w), e)[N] = e
          BY <2>7, NAssumption, AppendProperties
        <5> QED BY <5>1, <4>3, <4>4
      <4>5. CASE k # N
        <5>1. k \in 1 .. N - 1 /\ k + 1 \in 1 .. N /\ (k + 1) - 1 = k
          BY <4>1, <4>5, NAssumption
        <5>2. w[k + 1] = b.entry[SlotAt(b, (k + 1) - 1)]
          BY <5>1, <1>5, <2>2
        <5>3. Append(Tail(w), e)[k] = Tail(w)[k]
          BY <5>1, <2>7, AppendProperties
        <5> QED BY <5>1, <5>2, <5>3, <4>3, <4>5, <2>7
      <4> QED BY <4>4, <4>5
    <3> HIDE DEF v, w
    <3> QED BY <1>6, <3>1, <3>2, <3>3, SeqEqual
  <2>9. OverwrittenEntry(b) = Head(w).buffptr
    <3>1. Head(w) = w[1]
      BY <1>5, <2>6
    <3>2. w[1] = b.entry[SlotAt(b, 0)]
      <4>1. 1 \in 1 .. EntryCount(b) /\ 1 - 1 = 0
        BY <2>2, NAssumption
      <4> QED BY <4>1, <1>5
    <3>3. SlotAt(b, 0) = b.out_offs
      <4>1. b.out_offs \in 0 .. N - 1
        BY <1>1 DEF Slots
      <4>2. (b.out_offs + 0) % N = b.out_offs
        BY <4>1, NAssumption, SMTT(30)
      <4> QED BY <4>2 DEF SlotAt
    <3> QED BY <3>1, <3>2, <3>3, <1>10 DEF OverwrittenEntry
  <2> QED BY <1>10, <2>6, <2>8, <2>9 DEF v, w, c
<1> QED BY <1>9, <1>10

-----------------------------------------------------------------------------
(* current_offset: the recursive function CurrentOffset exists, and is what *)
(* its definition says.  It never decreases.                                *)

SizeAt(b, k) == b.entry[SlotAt(b, k)].size

(* A function that satisfies the recursive definition exists. *)
LEMMA OffsetsExist ==
  ASSUME NEW b
  PROVE  \A n \in Nat : \E f : f = [k \in 0 .. n |-> IF k = 0 THEN 0 ELSE f[k - 1] + SizeAt(b, k - 1)]
<1> DEFINE IsOffsets(f, n) == f = [k \in 0 .. n |-> IF k = 0 THEN 0 ELSE f[k - 1] + SizeAt(b, k - 1)]
           T == {n \in Nat : \E f : IsOffsets(f, n)}
<1>1. 0 \in T
  <2> DEFINE f == [k \in 0 .. 0 |-> 0]
  <2>1. IsOffsets(f, 0)
    OBVIOUS
  <2> QED BY <2>1
<1>2. ASSUME NEW n \in Nat, n \in T PROVE n + 1 \in T
  <2>1. PICK f : IsOffsets(f, n)
    BY <1>2
  <2> DEFINE g == [k \in 0 .. n + 1 |-> IF k = n + 1 THEN f[n] + SizeAt(b, n) ELSE f[k]]
             h == [k \in 0 .. n + 1 |-> IF k = 0 THEN 0 ELSE g[k - 1] + SizeAt(b, k - 1)]
  <2>2. ASSUME NEW k \in 0 .. n + 1 PROVE g[k] = h[k]
    <3>1. CASE k = n + 1
      <4>1. k # 0 /\ k - 1 = n /\ k - 1 \in 0 .. n + 1 /\ k - 1 # n + 1
        BY <3>1
      <4> QED BY <3>1, <4>1
    <3>2. CASE k # n + 1 /\ k # 0
      <4>1. k \in 0 .. n /\ k - 1 \in 0 .. n + 1 /\ k - 1 # n + 1
        BY <3>2
      <4>2. f[k] = f[k - 1] + SizeAt(b, k - 1)
        BY <2>1, <3>2, <4>1
      <4> QED BY <3>2, <4>1, <4>2
    <3>3. CASE k # n + 1 /\ k = 0
      BY <2>1, <3>3
    <3> QED BY <3>1, <3>2, <3>3
  <2>3. g = h
    BY <2>2
  <2>4. IsOffsets(g, n + 1)
    BY <2>3
  <2> HIDE DEF g
  <2>5. \E f0 : IsOffsets(f0, n + 1)
    BY <2>4
  <2> QED BY <2>5
<1>3. Nat \subseteq T
  <2> HIDE DEF T
  <2> QED BY <1>1, <1>2, NatInduct
<1> QED BY <1>3

(* So current_offset is the sum its definition says. *)
LEMMA OffsetIsSum ==
  ASSUME NEW Ptrs, NEW b \in BufferOf(Ptrs)
  PROVE  /\ CurrentOffset(b) \in [0 .. N -> Nat]
         /\ CurrentOffset(b)[0] = 0
         /\ \A k \in 1 .. N : CurrentOffset(b)[k] = CurrentOffset(b)[k - 1] + SizeAt(b, k - 1)
         /\ \A k \in 0 .. N - 1 : SizeAt(b, k) \in Nat
<1> DEFINE off == CurrentOffset(b)
<1>1. off = [k \in 0 .. N |-> IF k = 0 THEN 0 ELSE off[k - 1] + SizeAt(b, k - 1)]
  <2>1. N \in Nat
    BY NAssumption
  <2>2. \E f : f = [k \in 0 .. N |-> IF k = 0 THEN 0 ELSE f[k - 1] + SizeAt(b, k - 1)]
    BY <2>1, OffsetsExist
  <2> QED BY <2>2 DEF CurrentOffset, SizeAt
<1> HIDE DEF off
<1>2. off[0] = 0 /\ \A k \in 1 .. N : off[k] = off[k - 1] + SizeAt(b, k - 1)
  <2>1. \A k \in 0 .. N : off[k] = IF k = 0 THEN 0 ELSE off[k - 1] + SizeAt(b, k - 1)
    BY <1>1
  <2> QED BY <2>1, NAssumption
<1>3. \A k \in 0 .. N - 1 : SizeAt(b, k) \in Nat
  <2> SUFFICES ASSUME NEW k \in 0 .. N - 1 PROVE SizeAt(b, k) \in Nat
    OBVIOUS
  <2>1. SlotAt(b, k) \in Slots
    BY SlotAtWraps, NAssumption DEF BufferOf
  <2> QED BY <2>1 DEF SizeAt, BufferOf, EntryOf
<1>4. \A k \in 0 .. N : off[k] \in Nat
  <2> DEFINE T == {n \in Nat : n \in 0 .. N => off[n] \in Nat}
  <2>1. 0 \in T
    BY <1>2
  <2>2. ASSUME NEW n \in Nat, n \in T PROVE n + 1 \in T
    <3>1. CASE n + 1 \in 0 .. N
      <4>1. n + 1 \in 1 .. N /\ (n + 1) - 1 = n /\ n \in 0 .. N - 1 /\ n \in 0 .. N
        BY <3>1, NAssumption
      <4> QED BY <1>2, <1>3, <2>2, <4>1
    <3> QED BY <3>1
  <2>3. Nat \subseteq T
    <3> HIDE DEF T
    <3> QED BY <2>1, <2>2, NatInduct
  <2> QED BY <2>3
<1>5. off \in [0 .. N -> Nat]
  BY <1>1, <1>4
<1> QED BY <1>2, <1>3, <1>5 DEF off

(* Offsets grow by the sizes, and stay where they are behind the last entry. *)
LEMMA OffsetsGrow ==
  ASSUME NEW Ptrs, NEW b \in BufferOf(Ptrs), Consistent(b)
  PROVE  /\ \A i, j \in 0 .. N : i <= j => CurrentOffset(b)[i] <= CurrentOffset(b)[j]
         /\ \A k \in EntryCount(b) .. N : CurrentOffset(b)[k] = CurrentOffset(b)[EntryCount(b)]
<1> DEFINE off == CurrentOffset(b)
           count == EntryCount(b)
<1>1. /\ off \in [0 .. N -> Nat]
      /\ \A k \in 1 .. N : off[k] = off[k - 1] + SizeAt(b, k - 1)
      /\ \A k \in 0 .. N - 1 : SizeAt(b, k) \in Nat
  BY OffsetIsSum
<1>2. count \in 0 .. N /\ N \in Nat
  BY WindowShape, NAssumption DEF Consistent
<1>3. ASSUME NEW k \in count .. N - 1 PROVE SizeAt(b, k) = 0
  <2>1. ~b.full /\ b.out_offs = 0 /\ count = b.in_offs /\ b.in_offs \in Nat
    <3>1. b.in_offs \in Slots /\ b.full \in BOOLEAN /\ b.out_offs \in Slots
      BY DEF BufferOf
    <3>2. ~b.full
      BY <1>2, <1>3, WindowShape DEF Consistent
    <3> QED BY <3>1, <3>2 DEF Consistent, EntryCount, Slots
  <2>2. SlotAt(b, k) = k /\ k \in Slots
    BY <2>1, <1>2, <1>3, SlotAtWraps, NAssumption DEF Slots
  <2>3. b.entry[k].buffptr = NULL
    BY <2>1, <2>2, <1>2 DEF Consistent
  <2> QED BY <2>2, <2>3 DEF Consistent, SizeAt
<1> HIDE DEF off, count
<1>4. ASSUME NEW n \in Nat, n + 1 \in 0 .. N
      PROVE  /\ n \in 0 .. N /\ off[n] \in Nat /\ off[n + 1] \in Nat /\ off[n + 1] >= off[n]
             /\ n >= count => off[n + 1] = off[n]
  <2>1. n \in 0 .. N - 1 /\ n + 1 \in 1 .. N /\ (n + 1) - 1 = n /\ n \in 0 .. N
    BY <1>2, <1>4
  <2>2. off[n + 1] = off[n] + SizeAt(b, n) /\ SizeAt(b, n) \in Nat
    BY <1>1, <2>1
  <2> QED BY <1>1, <1>2, <1>3, <2>1, <2>2
<1>5. \A i, j \in 0 .. N : i <= j => off[i] <= off[j]
  <2> DEFINE T == {n \in Nat : \A i \in 0 .. N : n \in 0 .. N /\ i <= n => off[i] <= off[n]}
  <2>1. 0 \in T
    BY <1>1, <1>2
  <2>2. ASSUME NEW n \in Nat, n \in T PROVE n + 1 \in T
    <3> SUFFICES ASSUME NEW i \in 0 .. N, n + 1 \in 0 .. N, i <= n + 1 PROVE off[i] <= off[n + 1]
      OBVIOUS
    <3>1. n \in 0 .. N /\ off[n] \in Nat /\ off[n + 1] \in Nat /\ off[n + 1] >= off[n]
      BY <1>4
    <3>2. CASE i = n + 1
      BY <3>1, <3>2
    <3>3. CASE i # n + 1
      <4>1. off[i] <= off[n] /\ off[i] \in Nat
        BY <1>1, <2>2, <3>1, <3>3
      <4> QED BY <3>1, <4>1
    <3> QED BY <3>2, <3>3
  <2>3. Nat \subseteq T
    <3> HIDE DEF T
    <3> QED BY <2>1, <2>2, NatInduct
  <2> QED BY <1>2, <2>3
<1>6. \A k \in count .. N : off[k] = off[count]
  <2> DEFINE T == {n \in Nat : n \in count .. N => off[n] = off[count]}
  <2>1. 0 \in T
    BY <1>2
  <2>2. ASSUME NEW n \in Nat, n \in T PROVE n + 1 \in T
    <3> SUFFICES ASSUME n + 1 \in count .. N PROVE off[n + 1] = off[count]
      OBVIOUS
    <3>1. CASE n + 1 = count
      BY <3>1
    <3>2. CASE n + 1 # count
      BY <1>2, <1>4, <2>2, <3>2
    <3> QED BY <3>1, <3>2
  <2>3. Nat \subseteq T
    <3> HIDE DEF T
    <3> QED BY <2>1, <2>2, NatInduct
  <2> QED BY <1>2, <2>3
<1> QED BY <1>5, <1>6 DEF off, count

(* The search finds the entry whose bytes cover the position, or nothing    *)
(* when the position is behind the last byte.                               *)
LEMMA FindCovers ==
  ASSUME NEW Ptrs, NEW b \in BufferOf(Ptrs), Consistent(b), NEW pos \in Nat
  PROVE  LET off == CurrentOffset(b)
         IN  \/ /\ FindEntryOffsetForFpos(b, pos) = NoEntry
                /\ off[EntryCount(b)] <= pos
             \/ \E k \in 0 .. EntryCount(b) - 1 :
                  /\ off[k] <= pos /\ pos < off[k] + SizeAt(b, k)
                  /\ FindEntryOffsetForFpos(b, pos) =
                       [slot |-> SlotAt(b, k), entry_offset |-> pos - off[k]]
<1> DEFINE off == CurrentOffset(b)
           count == EntryCount(b)
           hits == {k \in Slots : Reached(b, k) /\ pos < off[k] + SizeAt(b, k)}
<1>1. /\ off \in [0 .. N -> Nat] /\ off[0] = 0
      /\ \A k \in 1 .. N : off[k] = off[k - 1] + SizeAt(b, k - 1)
      /\ \A k \in 0 .. N - 1 : SizeAt(b, k) \in Nat
  BY OffsetIsSum
<1>2. /\ count \in 0 .. N /\ N \in Nat
      /\ \A i, j \in 0 .. N : i <= j => off[i] <= off[j]
      /\ \A k \in count .. N : off[k] = off[count]
  <2>1. count \in 0 .. N /\ N \in Nat
    BY WindowShape, NAssumption DEF Consistent
  <2>2. /\ \A i, j \in 0 .. N : i <= j => off[i] <= off[j]
        /\ \A k \in count .. N : off[k] = off[count]
    BY OffsetsGrow
  <2> QED BY <2>1, <2>2
<1>3. FindEntryOffsetForFpos(b, pos) =
        IF hits = {} THEN NoEntry
        ELSE [slot |-> SlotAt(b, Min(hits)), entry_offset |-> pos - off[Min(hits)]]
  BY DEF FindEntryOffsetForFpos, SizeAt
<1>4. \A k \in 0 .. N - 1 : off[k + 1] = off[k] + SizeAt(b, k) /\ off[k] \in Nat /\ off[k + 1] \in Nat
  <2> HIDE DEF off
  <2> SUFFICES ASSUME NEW k \in 0 .. N - 1
               PROVE  off[k + 1] = off[k] + SizeAt(b, k) /\ off[k] \in Nat /\ off[k + 1] \in Nat
    OBVIOUS
  <2>1. k + 1 \in 1 .. N /\ (k + 1) - 1 = k /\ k \in 0 .. N /\ k + 1 \in 0 .. N
    BY <1>2
  <2> QED BY <1>1, <2>1
<1>5. \A k \in 0 .. count - 1 : Reached(b, k)
  <2> SUFFICES ASSUME NEW k \in 0 .. count - 1, ~b.full, NEW j \in 1 .. k
               PROVE  SlotAt(b, j) # b.in_offs
    BY DEF Reached
  <2>1. b.out_offs = 0 /\ count = b.in_offs /\ b.in_offs \in 0 .. N - 1
    BY DEF BufferOf, Slots, Consistent, EntryCount
  <2>2. SlotAt(b, j) = j
    BY <2>1, <1>2, SlotAtWraps DEF Slots
  <2> QED BY <2>1, <2>2
<1> HIDE DEF off, count
<1>6. \A k \in hits : k \in 0 .. N - 1 /\ pos < off[k + 1] /\ off[k + 1] <= off[count]
  <2> SUFFICES ASSUME NEW k \in hits
               PROVE  k \in 0 .. N - 1 /\ pos < off[k + 1] /\ off[k + 1] <= off[count]
    OBVIOUS
  <2>1. k \in 0 .. N - 1 /\ k + 1 \in 0 .. N /\ pos < off[k + 1]
    BY <1>2, <1>4 DEF Slots
  <2>2. CASE k + 1 <= count
    BY <1>2, <2>1, <2>2
  <2>3. CASE ~(k + 1 <= count)
    BY <1>1, <1>2, <2>1, <2>3
  <2> QED BY <2>1, <2>2, <2>3
<1>7. CASE off[count] <= pos
  <2>1. hits = {}
    <3> SUFFICES ASSUME NEW k \in hits PROVE FALSE
      OBVIOUS
    <3>1. off[k + 1] \in Nat /\ off[count] \in Nat
      BY <1>1, <1>2, <1>4, <1>6
    <3> QED BY <1>6, <1>7, <3>1
  <2> QED BY <1>3, <1>7, <2>1 DEF off, count
<1>8. CASE pos < off[count]
  <2> DEFINE above == {n \in 0 .. count : pos < off[n]}
  <2>1. above \in SUBSET Nat /\ above # {}
    BY <1>2, <1>8
  <2>2. PICK n \in above : \A i \in above : n <= i
    BY <2>1, LeastNatural
  <2>3. n \in 1 .. count /\ n - 1 \in 0 .. count - 1 /\ n - 1 \in 0 .. N - 1 /\ (n - 1) + 1 = n
    BY <1>1, <1>2, <2>2
  <2>4. off[n - 1] <= pos /\ pos < off[n]
    BY <1>2, <1>4, <2>2, <2>3
  <2>5. n - 1 \in hits
    BY <1>4, <1>5, <2>3, <2>4 DEF Slots
  <2>6. ASSUME NEW k \in hits PROVE n - 1 <= k
    <3>1. CASE k + 1 <= n - 1
      <4>1. off[k + 1] <= off[n - 1]
        BY <1>2, <1>6, <2>3, <3>1
      <4>2. off[k + 1] \in Nat /\ off[n - 1] \in Nat
        BY <1>4, <1>6, <2>3
      <4> QED BY <1>6, <2>4, <4>1, <4>2
    <3> QED BY <1>6, <2>3, <3>1
  <2>7. Min(hits) = n - 1
    <3>1. hits \in SUBSET Nat
      BY <1>2, <1>6
    <3> HIDE DEF hits
    <3>2. Min(hits) \in hits /\ Min(hits) <= n - 1
      BY <2>5, <3>1, MinOf
    <3>3. Min(hits) \in Nat /\ n - 1 <= Min(hits)
      BY <2>6, <3>1, <3>2
    <3> HIDE DEF above
    <3> QED BY <1>2, <2>3, <3>2, <3>3
  <2> DEFINE k == n - 1
  <2>8. /\ k \in 0 .. count - 1 /\ off[k] <= pos /\ pos < off[k] + SizeAt(b, k)
        /\ FindEntryOffsetForFpos(b, pos) = [slot |-> SlotAt(b, k), entry_offset |-> pos - off[k]]
    BY <1>3, <1>4, <2>3, <2>4, <2>5, <2>7
  <2> HIDE DEF k
  <2> QED BY <2>8 DEF off, count
<1> QED BY <1>1, <1>2, <1>7, <1>8

-----------------------------------------------------------------------------
(* Sequences end to end.  The recursive function of FlattenSeq exists, and  *)
(* adds one sequence after the other.                                       *)

Flattens(F, S, seqs) ==
  /\ F \in [1 .. Len(seqs) -> Seq(S)]
  /\ F[1] = seqs[1]
  /\ \A i \in 1 .. Len(seqs) - 1 : F[i + 1] = F[i] \o seqs[i + 1]

(* A function that satisfies the recursive definition of FlattenSeq exists. *)
LEMMA FlattenExists ==
  ASSUME NEW seqs
  PROVE  \A n \in Nat : \E f : f = [i \in 1 .. n |-> IF i = 1 THEN seqs[i] ELSE f[i - 1] \o seqs[i]]
<1> DEFINE Is(f, n) == f = [i \in 1 .. n |-> IF i = 1 THEN seqs[i] ELSE f[i - 1] \o seqs[i]]
           T == {n \in Nat : \E f : Is(f, n)}
<1>1. 0 \in T
  <2> DEFINE f == [i \in 1 .. 0 |-> seqs[i]]
  <2>1. Is(f, 0)
    OBVIOUS
  <2> QED BY <2>1
<1>2. ASSUME NEW n \in Nat, n \in T PROVE n + 1 \in T
  <2>1. PICK f : Is(f, n)
    BY <1>2
  <2> DEFINE g == [i \in 1 .. n + 1 |->
                     IF i = n + 1 THEN IF i = 1 THEN seqs[i] ELSE f[n] \o seqs[i] ELSE f[i]]
             h == [i \in 1 .. n + 1 |-> IF i = 1 THEN seqs[i] ELSE g[i - 1] \o seqs[i]]
  <2>2. ASSUME NEW i \in 1 .. n + 1 PROVE g[i] = h[i]
    <3>1. CASE i = 1
      BY <2>1, <3>1
    <3>2. CASE i # 1 /\ i = n + 1
      <4>1. i - 1 = n /\ i - 1 \in 1 .. n + 1 /\ i - 1 # n + 1
        BY <3>2
      <4> QED BY <3>2, <4>1
    <3>3. CASE i # 1 /\ i # n + 1
      <4>1. i \in 1 .. n /\ i - 1 \in 1 .. n + 1 /\ i - 1 # n + 1
        BY <3>3
      <4>2. f[i] = f[i - 1] \o seqs[i]
        BY <2>1, <3>3, <4>1
      <4> QED BY <3>3, <4>1, <4>2
    <3> QED BY <3>1, <3>2, <3>3
  <2>3. g = h
    BY <2>2
  <2>4. Is(g, n + 1)
    BY <2>3
  <2> HIDE DEF g
  <2>5. \E f0 : Is(f0, n + 1)
    BY <2>4
  <2> HIDE DEF Is
  <2> QED BY <2>5
<1>3. Nat \subseteq T
  <2> HIDE DEF T
  <2> QED BY <1>1, <1>2, NatInduct
<1> QED BY <1>3

(* So FlattenSeq is the last value of one that concatenates step by step. *)
LEMMA FlattenFunction ==
  ASSUME NEW S, NEW seqs \in Seq(Seq(S)), seqs # << >>
  PROVE  \E F : Flattens(F, S, seqs) /\ FlattenSeq(seqs) = F[Len(seqs)]
<1>1. Len(seqs) \in Nat /\ Len(seqs) # 0
  OBVIOUS
<1> DEFINE F == CHOOSE f : f = [i \in 1 .. Len(seqs) |->
                                  IF i = 1 THEN seqs[i] ELSE f[i - 1] \o seqs[i]]
<1>2. F = [i \in 1 .. Len(seqs) |-> IF i = 1 THEN seqs[i] ELSE F[i - 1] \o seqs[i]]
  <2>1. \E f : f = [i \in 1 .. Len(seqs) |-> IF i = 1 THEN seqs[i] ELSE f[i - 1] \o seqs[i]]
    BY <1>1, FlattenExists
  <2> QED BY <2>1
<1>3. FlattenSeq(seqs) = F[Len(seqs)]
  BY <1>1 DEF FlattenSeq
<1> HIDE DEF F
<1>4. F[1] = seqs[1] /\ \A i \in 1 .. Len(seqs) - 1 : F[i + 1] = F[i] \o seqs[i + 1]
  <2>1. \A i \in 1 .. Len(seqs) : F[i] = IF i = 1 THEN seqs[i] ELSE F[i - 1] \o seqs[i]
    BY <1>2
  <2>2. ASSUME NEW i \in 1 .. Len(seqs) - 1 PROVE F[i + 1] = F[i] \o seqs[i + 1]
    <3>1. i + 1 \in 1 .. Len(seqs) /\ i + 1 # 1 /\ (i + 1) - 1 = i
      BY <1>1
    <3> QED BY <2>1, <3>1
  <2>3. F[1] = seqs[1]
    BY <1>1, <2>1
  <2> QED BY <2>2, <2>3
<1>5. \A i \in 1 .. Len(seqs) : F[i] \in Seq(S)
  <2> DEFINE T == {n \in Nat : n + 1 <= Len(seqs) => F[n + 1] \in Seq(S)}
  <2>1. 0 \in T
    BY <1>1, <1>4
  <2>2. ASSUME NEW n \in Nat, n \in T PROVE n + 1 \in T
    <3> SUFFICES ASSUME (n + 1) + 1 <= Len(seqs) PROVE F[(n + 1) + 1] \in Seq(S)
      OBVIOUS
    <3>1. n + 1 \in 1 .. Len(seqs) - 1 /\ (n + 1) + 1 \in 1 .. Len(seqs)
      BY <1>1
    <3>2. F[n + 1] \in Seq(S) /\ seqs[(n + 1) + 1] \in Seq(S)
      BY <1>1, <2>2, <3>1
    <3>3. F[(n + 1) + 1] = F[n + 1] \o seqs[(n + 1) + 1]
      BY <1>4, <3>1
    <3> QED BY <3>2, <3>3, ConcatProperties
  <2>3. Nat \subseteq T
    <3> HIDE DEF T
    <3> QED BY <2>1, <2>2, NatInduct
  <2>4. \A i \in 1 .. Len(seqs) : i - 1 \in T /\ (i - 1) + 1 = i
    <3> HIDE DEF T
    <3> QED BY <1>1, <2>3
  <2> QED BY <1>1, <2>4
<1> QED BY <1>2, <1>3, <1>4, <1>5 DEF Flattens

(* One more sequence goes behind the others. *)
LEMMA FlattenAppend ==
  ASSUME NEW S, NEW seqs \in Seq(Seq(S)), NEW s \in Seq(S)
  PROVE  /\ FlattenSeq(seqs) \in Seq(S)
         /\ FlattenSeq(Append(seqs, s)) = FlattenSeq(seqs) \o s
<1> DEFINE more == Append(seqs, s)
<1>1. /\ more \in Seq(Seq(S)) /\ more # << >> /\ Len(more) = Len(seqs) + 1 /\ Len(seqs) \in Nat
      /\ \A i \in 1 .. Len(seqs) : more[i] = seqs[i]
      /\ more[Len(seqs) + 1] = s
  BY AppendProperties
<1> HIDE DEF more
<1>2. PICK G : Flattens(G, S, more) /\ FlattenSeq(more) = G[Len(more)]
  BY <1>1, FlattenFunction
<1>3. CASE seqs = << >>
  <2>1. FlattenSeq(seqs) = << >> /\ Len(more) = 1
    BY <1>1, <1>3 DEF FlattenSeq
  <2>2. FlattenSeq(more) = s
    BY <1>1, <1>2, <1>3, <2>1 DEF Flattens
  <2> QED BY <2>1, <2>2, ConcatEmptySeq DEF more
<1>4. CASE seqs # << >>
  <2>1. PICK F : Flattens(F, S, seqs) /\ FlattenSeq(seqs) = F[Len(seqs)]
    BY <1>4, FlattenFunction
  <2>2. Len(seqs) \in Nat \ {0}
    BY <1>4
  <2> DEFINE T == {n \in Nat : n + 1 <= Len(seqs) => F[n + 1] = G[n + 1]}
  <2>3. 0 \in T
    BY <1>1, <1>2, <2>1, <2>2 DEF Flattens
  <2>4. ASSUME NEW n \in Nat, n \in T PROVE n + 1 \in T
    <3> SUFFICES ASSUME (n + 1) + 1 <= Len(seqs) PROVE F[(n + 1) + 1] = G[(n + 1) + 1]
      OBVIOUS
    <3>1. /\ n + 1 \in 1 .. Len(seqs) - 1 /\ n + 1 \in 1 .. Len(more) - 1
          /\ (n + 1) + 1 \in 1 .. Len(seqs)
      BY <1>1, <2>2
    <3>2. F[(n + 1) + 1] = F[n + 1] \o seqs[(n + 1) + 1]
      BY <2>1, <3>1 DEF Flattens
    <3>3. G[(n + 1) + 1] = G[n + 1] \o more[(n + 1) + 1]
      BY <1>2, <3>1 DEF Flattens
    <3>4. F[n + 1] = G[n + 1]
      BY <2>2, <2>4, <3>1
    <3> QED BY <1>1, <3>1, <3>2, <3>3, <3>4
  <2>5. Nat \subseteq T
    <3> HIDE DEF T
    <3> QED BY <2>3, <2>4, NatInduct
  <2>6. F[Len(seqs)] = G[Len(seqs)]
    <3>1. Len(seqs) - 1 \in T /\ (Len(seqs) - 1) + 1 = Len(seqs)
      <4> HIDE DEF T
      <4> QED BY <2>2, <2>5
    <3> QED BY <2>2, <3>1
  <2>7. G[Len(seqs) + 1] = G[Len(seqs)] \o more[Len(seqs) + 1]
    <3>1. Len(seqs) \in 1 .. Len(more) - 1
      BY <1>1, <2>2
    <3> QED BY <1>2, <3>1 DEF Flattens
  <2>8. FlattenSeq(seqs) \in Seq(S)
    <3>1. Len(seqs) \in 1 .. Len(seqs)
      BY <2>2
    <3> QED BY <2>1, <3>1 DEF Flattens
  <2> QED BY <1>1, <1>2, <2>1, <2>6, <2>7, <2>8 DEF more
<1> QED BY <1>3, <1>4

(* What a concatenation is, for all sequences at once. *)
LEMMA ConcatFacts ==
  \A S :
    /\ \A s, t \in Seq(S) :
         /\ s \o t \in Seq(S)
         /\ Len(s \o t) = Len(s) + Len(t)
         /\ \A i \in 1 .. Len(s) + Len(t) :
              (s \o t)[i] = IF i <= Len(s) THEN s[i] ELSE t[i - Len(s)]
    /\ \A s, t, u \in Seq(S) : (s \o t) \o u = s \o (t \o u)
BY ConcatProperties, ConcatAssociative

(* What sequences of a set add up to is one of it. *)
LEMMA FlattenType ==
  ASSUME NEW S, NEW seqs \in Seq(Seq(S))
  PROVE  FlattenSeq(seqs) \in Seq(S)
<1>1. << >> \in Seq(S)
  OBVIOUS
<1> QED BY <1>1, FlattenAppend

(* The first sequence comes before the others. *)
LEMMA FlattenTail ==
  ASSUME NEW S, NEW seqs \in Seq(Seq(S)), seqs # << >>
  PROVE  FlattenSeq(seqs) = Head(seqs) \o FlattenSeq(Tail(seqs))
<1> DEFINE rest == Tail(seqs)
<1>1. /\ Len(seqs) \in Nat \ {0} /\ rest \in Seq(Seq(S)) /\ Len(rest) = Len(seqs) - 1
      /\ \A i \in 1 .. Len(seqs) - 1 : rest[i] = seqs[i + 1]
      /\ Head(seqs) = seqs[1] /\ seqs[1] \in Seq(S)
      /\ \A i \in 1 .. Len(rest) : rest[i] \in Seq(S)
  OBVIOUS
<1> HIDE DEF rest
<1>2. PICK F : Flattens(F, S, seqs) /\ FlattenSeq(seqs) = F[Len(seqs)]
  BY FlattenFunction
<1>3. CASE rest = << >>
  <2>1. FlattenSeq(rest) = << >> /\ Len(seqs) = 1
    BY <1>1, <1>3 DEF FlattenSeq
  <2>2. FlattenSeq(seqs) = seqs[1]
    BY <1>2, <2>1 DEF Flattens
  <2> QED BY <1>1, <2>1, <2>2, ConcatEmptySeq DEF rest
<1>4. CASE rest # << >>
  <2>1. PICK G : Flattens(G, S, rest) /\ FlattenSeq(rest) = G[Len(rest)]
    BY <1>1, <1>4, FlattenFunction
  <2>2. Len(rest) \in Nat /\ Len(rest) # 0 /\ Len(seqs) = Len(rest) + 1
    <3>1. \A r \in Seq(Seq(S)) : r # << >> => Len(r) # 0
      OBVIOUS
    <3>2. Len(rest) # 0
      BY <1>1, <1>4, <3>1
    <3>3. Len(seqs) \in Nat \ {0} /\ Len(rest) = Len(seqs) - 1
      BY <1>1
    <3> QED BY <3>2, <3>3
  <2> DEFINE same(n) == F[n + 1] = seqs[1] \o G[n]
             T == {n \in Nat : n + 1 <= Len(rest) => same(n + 1)}
  <2>3. 0 \in T
    <3>1. 1 \in 1 .. Len(seqs) - 1
      BY <2>2
    <3>2. F[1 + 1] = F[1] \o seqs[1 + 1] /\ rest[1] = seqs[1 + 1]
      BY <1>1, <1>2, <3>1 DEF Flattens
    <3>3. F[1] = seqs[1] /\ G[1] = rest[1]
      BY <1>2, <2>1 DEF Flattens
    <3>4. same(1)
      BY <3>2, <3>3
    <3>5. 0 + 1 = 1
      OBVIOUS
    <3> HIDE DEF same
    <3> QED BY <3>4, <3>5
  <2>4. ASSUME NEW n \in Nat, n \in T PROVE n + 1 \in T
    <3> DEFINE m == n + 1
    <3>0. m \in Nat \ {0} /\ (m <= Len(rest) => same(m))
      <4> HIDE DEF same
      <4> QED BY <2>4
    <3> SUFFICES ASSUME m + 1 <= Len(rest) PROVE same(m + 1)
      BY <3>0
    <3> HIDE DEF m
    <3>1. /\ m \in 1 .. Len(rest) - 1 /\ m \in 1 .. Len(rest) /\ m + 1 \in 1 .. Len(rest)
          /\ m + 1 \in 1 .. Len(seqs) - 1
      BY <2>2, <3>0
    <3>2. F[(m + 1) + 1] = F[m + 1] \o seqs[(m + 1) + 1]
      BY <1>2, <3>1 DEF Flattens
    <3>3. G[m + 1] = G[m] \o rest[m + 1]
      BY <2>1, <3>1 DEF Flattens
    <3>4. F[m + 1] = seqs[1] \o G[m]
      <4>1. same(m)
        <5> HIDE DEF same
        <5> QED BY <2>2, <3>0, <3>1
      <4> QED BY <4>1
    <3>5. G[m] \in Seq(S)
      BY <2>1, <3>1 DEF Flattens
    <3>6. rest[m + 1] \in Seq(S) /\ rest[m + 1] = seqs[(m + 1) + 1]
      BY <1>1, <3>1
    <3>7. (seqs[1] \o G[m]) \o rest[m + 1] = seqs[1] \o (G[m] \o rest[m + 1])
      <4>1. seqs[1] \in Seq(S)
        BY <1>1
      <4>2. \A s, t, u \in Seq(S) : (s \o t) \o u = s \o (t \o u)
        BY ONLY ConcatFacts, SMTT(30)
      <4> DEFINE g == G[m]
                 r == rest[m + 1]
      <4>3. g \in Seq(S) /\ r \in Seq(S)
        BY <3>5, <3>6
      <4> HIDE DEF g, r
      <4>4. (seqs[1] \o g) \o r = seqs[1] \o (g \o r)
        BY <4>1, <4>2, <4>3
      <4> QED BY <4>4 DEF g, r
    <3> QED BY <3>2, <3>3, <3>4, <3>6, <3>7
  <2>5. Nat \subseteq T
    <3> HIDE DEF T
    <3> QED BY <2>3, <2>4, NatInduct
  <2>6. Len(rest) - 1 \in T /\ (Len(rest) - 1) + 1 = Len(rest)
    <3> HIDE DEF T
    <3> QED BY <2>2, <2>5
  <2>7. F[Len(seqs)] = seqs[1] \o G[Len(rest)]
    <3>1. same(Len(rest))
      <4> HIDE DEF same
      <4> QED BY <2>2, <2>6
    <3> QED BY <2>2, <3>1
  <2> QED BY <1>1, <1>2, <2>1, <2>7 DEF rest
<1> QED BY <1>3, <1>4

(* Where the element j of the k-th sequence ends up, when off[k] is how many *)
(* elements the first k of them have.                                        *)
LEMMA FlattenLookup ==
  ASSUME NEW S, NEW seqs \in Seq(Seq(S)),
         NEW off \in [0 .. Len(seqs) -> Nat], off[0] = 0,
         \A k \in 1 .. Len(seqs) : off[k] = off[k - 1] + Len(seqs[k])
  PROVE  /\ Len(FlattenSeq(seqs)) = off[Len(seqs)]
         /\ \A k \in 1 .. Len(seqs) : \A j \in 1 .. Len(seqs[k]) :
              FlattenSeq(seqs)[off[k - 1] + j] = seqs[k][j]
<1>1. Len(seqs) \in Nat /\ \A k \in 1 .. Len(seqs) : seqs[k] \in Seq(S) /\ Len(seqs[k]) \in Nat
  OBVIOUS
<1>2. CASE seqs = << >>
  BY <1>2 DEF FlattenSeq
<1>3. CASE seqs # << >>
  <2>1. PICK F : Flattens(F, S, seqs) /\ FlattenSeq(seqs) = F[Len(seqs)]
    BY <1>3, FlattenFunction
  <2>2. Len(seqs) # 0
    BY <1>3
  <2> DEFINE Places(n) ==
               /\ Len(F[n]) = off[n]
               /\ \A k \in 1 .. n : \A j \in 1 .. Len(seqs[k]) :
                    /\ off[k - 1] + j \in 1 .. off[n]
                    /\ F[n][off[k - 1] + j] = seqs[k][j]
             T == {n \in Nat : n + 1 <= Len(seqs) => Places(n + 1)}
  <2>3. 0 \in T
    <3>1. F[1] = seqs[1] /\ off[1] = off[0] + Len(seqs[1]) /\ 1 - 1 = 0
      BY <1>1, <2>1, <2>2 DEF Flattens
    <3>2. Places(1)
      BY <1>1, <2>2, <3>1
    <3> QED BY <3>2
  <2>4. ASSUME NEW n \in Nat, n \in T PROVE n + 1 \in T
    <3> DEFINE m == n + 1
    <3>0. m \in Nat /\ (m <= Len(seqs) => Places(m))
      <4> HIDE DEF Places
      <4> QED BY <2>4
    <3> SUFFICES ASSUME m + 1 <= Len(seqs) PROVE Places(m + 1)
      <4> HIDE DEF Places
      <4> QED BY <3>0
    <3> HIDE DEF m
    <3>1. m # 0 /\ m \in Nat /\ m \in 1 .. Len(seqs) - 1 /\ m \in 1 .. Len(seqs)
          /\ m + 1 \in 1 .. Len(seqs) /\ (m + 1) - 1 = m
      BY <1>1, <3>0, SMTT(30) DEF m
    <3>2. Places(m)
      BY <1>1, <3>0, <3>1
    <3>3. F[m + 1] = F[m] \o seqs[m + 1] /\ F[m] \in Seq(S)
      BY <2>1, <3>1 DEF Flattens
    <3>4. seqs[m + 1] \in Seq(S) /\ Len(seqs[m + 1]) \in Nat /\ off[m] \in Nat
      <4>1. m \in 0 .. Len(seqs)
        BY <3>1
      <4> HIDE DEF Places
      <4> QED BY <1>1, <3>1, <4>1
    <3>5. off[m + 1] = off[m] + Len(seqs[m + 1])
      BY <3>1
    <3>6. /\ Len(F[m + 1]) = off[m + 1]
          /\ \A i \in 1 .. off[m + 1] :
               F[m + 1][i] = IF i <= off[m] THEN F[m][i] ELSE seqs[m + 1][i - off[m]]
      <4>1. Len(F[m]) = off[m]
        BY <3>2
      <4>2. F[m + 1] = F[m] \o seqs[m + 1] /\ F[m] \in Seq(S) /\ seqs[m + 1] \in Seq(S)
        BY <3>3, <3>4
      <4> HIDE DEF Places
      <4>3. /\ Len(F[m + 1]) = Len(F[m]) + Len(seqs[m + 1])
            /\ \A i \in 1 .. Len(F[m]) + Len(seqs[m + 1]) :
                 F[m + 1][i] = IF i <= Len(F[m]) THEN F[m][i] ELSE seqs[m + 1][i - Len(F[m])]
        <5> DEFINE f == F[m]
                   r == seqs[m + 1]
        <5>1. f \in Seq(S) /\ r \in Seq(S)
          BY <4>2
        <5> HIDE DEF f, r
        <5>2. /\ Len(f \o r) = Len(f) + Len(r)
              /\ \A i \in 1 .. Len(f) + Len(r) :
                   (f \o r)[i] = IF i <= Len(f) THEN f[i] ELSE r[i - Len(f)]
          BY ONLY <5>1, ConcatProperties
        <5>3. F[m + 1] = f \o r
          BY <4>2 DEF f, r
        <5> QED BY <5>2, <5>3 DEF f, r
      <4> QED BY <3>5, <4>1, <4>3
    <3>7. ASSUME NEW k \in 1 .. m + 1, NEW j \in 1 .. Len(seqs[k])
          PROVE  /\ off[k - 1] + j \in 1 .. off[m + 1]
                 /\ F[m + 1][off[k - 1] + j] = seqs[k][j]
      <4>1. CASE k = m + 1
        <5> DEFINE i == off[m] + j
        <5>1. j \in 1 .. Len(seqs[m + 1]) /\ off[k - 1] = off[m]
          BY <3>1, <4>1
        <5>2. i \in 1 .. off[m + 1] /\ ~(i <= off[m]) /\ i - off[m] = j
          <6> HIDE DEF Places
          <6>1. j \in Nat /\ 1 <= j /\ j <= Len(seqs[m + 1])
            BY <3>4, <5>1
          <6>2. i \in 1 .. off[m] + Len(seqs[m + 1]) /\ ~(i <= off[m]) /\ i - off[m] = j
            BY <3>4, <6>1, SMTT(30)
          <6> QED BY <3>5, <6>2
        <5> HIDE DEF i
        <5>3. F[m + 1][i] = seqs[m + 1][j]
          BY <3>6, <5>2
        <5> QED BY <4>1, <5>1, <5>2, <5>3 DEF i
      <4>2. CASE k # m + 1
        <5> DEFINE i == off[k - 1] + j
        <5>1. k \in 1 .. m
          BY <3>1, <4>2
        <5>2. i \in 1 .. off[m] /\ F[m][i] = seqs[k][j]
          BY <3>2, <5>1
        <5> HIDE DEF i
        <5>3. i \in 1 .. off[m + 1] /\ i <= off[m]
          BY <3>4, <3>5, <5>2
        <5>4. F[m + 1][i] = seqs[k][j]
          BY <3>6, <5>2, <5>3
        <5> QED BY <5>3, <5>4 DEF i
      <4> QED BY <4>1, <4>2
    <3> QED BY <3>6, <3>7
  <2>5. Nat \subseteq T
    <3> HIDE DEF T
    <3> QED BY <2>3, <2>4, NatInduct
  <2>6. Len(seqs) - 1 \in T /\ (Len(seqs) - 1) + 1 = Len(seqs)
    <3> HIDE DEF T
    <3> QED BY <1>1, <2>2, <2>5
  <2>7. Places(Len(seqs))
    BY <1>1, <2>2, <2>6
  <2> QED BY <2>1, <2>7
<1> QED BY <1>2, <1>3

(* A sequence cut in two, and the first part of two sequences end to end. *)
LEMMA CutAndJoin ==
  \A S : \A s \in Seq(S) :
    /\ SubSeq(s, 1, Len(s)) = s
    /\ \A k \in 0 .. Len(s) : SubSeq(s, 1, k) \o SubSeq(s, k + 1, Len(s)) = s
    /\ \A t \in Seq(S) : SubSeq(s \o t, 1, Len(s)) = s
<1> SUFFICES ASSUME NEW S, NEW s \in Seq(S)
             PROVE  /\ SubSeq(s, 1, Len(s)) = s
                    /\ \A k \in 0 .. Len(s) : SubSeq(s, 1, k) \o SubSeq(s, k + 1, Len(s)) = s
                    /\ \A t \in Seq(S) : SubSeq(s \o t, 1, Len(s)) = s
  OBVIOUS
<1>1. SubSeq(s, 1, Len(s)) = s
  OBVIOUS
<1>2. ASSUME NEW k \in 0 .. Len(s)
      PROVE  SubSeq(s, 1, k) \o SubSeq(s, k + 1, Len(s)) = s
  <2> DEFINE a == SubSeq(s, 1, k)
             b == SubSeq(s, k + 1, Len(s))
  <2>1. a \in Seq(S) /\ Len(a) = k /\ \A i \in 1 .. k : a[i] = s[i]
    BY SubSeqProperties
  <2>2. b \in Seq(S) /\ Len(b) = Len(s) - k /\ \A i \in 1 .. Len(s) - k : b[i] = s[k + i]
    OBVIOUS
  <2> HIDE DEF a, b
  <2>3. /\ a \o b \in Seq(S) /\ Len(a \o b) = Len(s)
        /\ \A i \in 1 .. Len(s) : (a \o b)[i] = IF i <= k THEN a[i] ELSE b[i - k]
    BY <2>1, <2>2, ConcatFacts
  <2>4. ASSUME NEW i \in 1 .. Len(s) PROVE (a \o b)[i] = s[i]
    <3>1. CASE i <= k
      BY <2>1, <2>3, <3>1
    <3>2. CASE ~(i <= k)
      <4>1. i - k \in 1 .. Len(s) - k /\ k + (i - k) = i
        BY <3>2
      <4> QED BY <2>2, <2>3, <3>2, <4>1
    <3> QED BY <3>1, <3>2
  <2>5. a \o b = s
    <3> DEFINE c == a \o b
    <3>1. c \in Seq(S) /\ Len(c) = Len(s) /\ \A i \in 1 .. Len(s) : c[i] = s[i]
      BY <2>3, <2>4
    <3> HIDE DEF c
    <3>2. c = s
      BY <3>1
    <3> QED BY <3>2 DEF c
  <2> QED BY <2>5 DEF a, b
<1>3. ASSUME NEW t \in Seq(S) PROVE SubSeq(s \o t, 1, Len(s)) = s
  <2>1. /\ s \o t \in Seq(S) /\ Len(s \o t) = Len(s) + Len(t) /\ Len(t) \in Nat
        /\ \A i \in 1 .. Len(s) : (s \o t)[i] = s[i]
    BY ConcatProperties
  <2> DEFINE u == s \o t
  <2> HIDE DEF u
  <2>2. /\ u \in Seq(S) /\ Len(s) <= Len(u) /\ \A i \in 1 .. Len(s) : u[i] = s[i]
    BY <2>1 DEF u
  <2>3. SubSeq(u, 1, Len(s)) = s
    BY <2>2
  <2> QED BY <2>3 DEF u
<1> QED BY <1>1, <1>2, <1>3

(* A sequence that is another one, and one element more. *)
LEMMA IsAppend ==
  \A S : \A s, t \in Seq(S) : \A e \in S :
    /\ Len(t) = Len(s) + 1 /\ t[Len(s) + 1] = e
    /\ \A k \in 1 .. Len(s) : t[k] = s[k]
    => t = Append(s, e)
<1> SUFFICES ASSUME NEW S, NEW s \in Seq(S), NEW t \in Seq(S), NEW e \in S,
                    Len(t) = Len(s) + 1, t[Len(s) + 1] = e,
                    \A k \in 1 .. Len(s) : t[k] = s[k]
             PROVE  t = Append(s, e)
  OBVIOUS
<1> DEFINE u == Append(s, e)
<1>1. /\ u \in Seq(S) /\ Len(u) = Len(s) + 1 /\ Len(s) \in Nat
      /\ \A k \in 1 .. Len(s) : u[k] = s[k]
      /\ u[Len(s) + 1] = e
  BY AppendProperties
<1> HIDE DEF u
<1>2. Len(t) = Len(u) /\ \A k \in 1 .. Len(t) : t[k] = u[k]
  BY <1>1
<1>3. t = u
  BY <1>1, <1>2, SeqEqual
<1> QED BY <1>3 DEF u

(* What something has been put in front of is a suffix. *)
LEMMA BehindIsSuffix ==
  ASSUME NEW S, NEW u \in Seq(S), NEW s \in Seq(S)
  PROVE  IsSuffix(s, u \o s)
<1> DEFINE t == u \o s
<1>1. /\ t \in Seq(S) /\ Len(t) = Len(u) + Len(s) /\ Len(u) \in Nat /\ Len(s) \in Nat
      /\ \A i \in 1 .. Len(t) : t[i] = IF i <= Len(u) THEN u[i] ELSE s[i - Len(u)]
  BY ConcatProperties
<1> HIDE DEF t
<1> DEFINE r == Reverse(s)
           v == Reverse(t)
<1>2. /\ r \in Seq(S) /\ Len(r) = Len(s)
      /\ \A i \in 1 .. Len(s) : r[i] = s[(Len(s) - i) + 1]
  BY <1>1 DEF Reverse
<1>3. /\ v \in Seq(S) /\ Len(v) = Len(t)
      /\ \A i \in 1 .. Len(t) : v[i] = t[(Len(t) - i) + 1]
  BY <1>1 DEF Reverse
<1> HIDE DEF r, v
<1>4. ASSUME NEW i \in 1 .. Len(s) PROVE r[i] = v[i]
  <2> DEFINE j == (Len(t) - i) + 1
  <2>1. i \in 1 .. Len(t) /\ j \in 1 .. Len(t) /\ ~(j <= Len(u)) /\ j - Len(u) = (Len(s) - i) + 1
    BY <1>1
  <2>2. v[i] = t[j]
    BY <1>3, <2>1
  <2> HIDE DEF j
  <2>3. t[j] = s[(Len(s) - i) + 1]
    BY <1>1, <2>1
  <2> QED BY <1>2, <2>2, <2>3
<1>5. Len(r) <= Len(v) /\ SubSeq(r, 1, Len(r)) = r /\ SubSeq(v, 1, Len(r)) = r
  <2>1. Len(r) \in Nat /\ Len(r) <= Len(v)
    BY <1>1, <1>2, <1>3
  <2>2. \A i \in 1 .. Len(r) : v[i] = r[i]
    BY <1>2, <1>4
  <2>3. SubSeq(v, 1, Len(r)) = r
    BY <1>2, <1>3, <2>1, <2>2
  <2>4. SubSeq(r, 1, Len(r)) = r
    BY <1>2, CutAndJoin
  <2> QED BY <2>1, <2>3, <2>4
<1> QED BY <1>5 DEF IsSuffix, IsPrefix, r, v, t
-----------------------------------------------------------------------------
(* The sum of sizes over a set of slots (MapThenSumSet) takes the slots in *)
(* whatever order CHOOSE gives; current_offset takes them from out_offs    *)
(* on.  They are the same number: both add up a buffer that holds only     *)
(* these slots.                                                            *)
Only(b, S) ==
  [b EXCEPT !.entry = [i \in Slots |-> IF i \in S THEN b.entry[i] ELSE NullEntry]]

SizeOf(b, S) == CurrentOffset(Only(b, S))[N]

(* Slot by slot, the smaller buffer has the same sizes or none. *)
LEMMA OnlyType ==
  ASSUME NEW Ptrs, NEW b \in BufferOf(Ptrs), NEW S
  PROVE  /\ Only(b, S) \in BufferOf(Ptrs)
         /\ \A k \in 0 .. N - 1 :
              /\ SlotAt(b, k) \in Slots
              /\ SizeAt(Only(b, S), k) = IF SlotAt(b, k) \in S THEN b.entry[SlotAt(b, k)].size ELSE 0
<1>1. Only(b, S) \in BufferOf(Ptrs)
  BY DEF Only, BufferOf, EntryOf, NullEntry
<1>2. ASSUME NEW k \in 0 .. N - 1
      PROVE  /\ SlotAt(b, k) \in Slots
             /\ SizeAt(Only(b, S), k) = IF SlotAt(b, k) \in S THEN b.entry[SlotAt(b, k)].size ELSE 0
  <2>1. SlotAt(b, k) \in Slots
    BY SlotAtWraps, NAssumption DEF BufferOf
  <2>2. SlotAt(Only(b, S), k) = SlotAt(b, k)
    BY DEF SlotAt, Only, BufferOf
  <2>3. Only(b, S).entry = [i \in Slots |-> IF i \in S THEN b.entry[i] ELSE NullEntry]
    BY DEF Only, BufferOf
  <2> QED BY <2>1, <2>2, <2>3 DEF SizeAt, NullEntry
<1> QED BY <1>1, <1>2

(* Every slot is met exactly once on the way round from out_offs. *)
LEMMA SlotMetOnce ==
  ASSUME NEW b, b.out_offs \in Slots, NEW x \in Slots
  PROVE  \E p \in 0 .. N - 1 : \A k \in 0 .. N - 1 : SlotAt(b, k) = x <=> k = p
<1> DEFINE out == b.out_offs
           p == IF x < out THEN x - out + N ELSE x - out
<1>1. N \in Nat /\ out \in 0 .. N - 1 /\ x \in 0 .. N - 1
  BY NAssumption DEF Slots
<1>2. p \in 0 .. N - 1
  BY <1>1
<1>3. ASSUME NEW k \in 0 .. N - 1 PROVE SlotAt(b, k) = x <=> k = p
  <2>1. SlotAt(b, k) = IF out + k < N THEN out + k ELSE out + k - N
    BY <1>1, SlotAtWraps
  <2> HIDE DEF out
  <2> QED BY <1>1, <2>1
<1> QED BY <1>2, <1>3

(* A slot more adds the size of its entry. *)
LEMMA OneSlotMore ==
  ASSUME NEW Ptrs, NEW b \in BufferOf(Ptrs), NEW S, NEW R, NEW x \in S, x \in Slots, R = S \ {x}
  PROVE  SizeOf(b, S) = b.entry[x].size + SizeOf(b, R)
<1> DEFINE more == CurrentOffset(Only(b, S))
           less == CurrentOffset(Only(b, S \ {x}))
           size == b.entry[x].size
<1>1. PICK p \in 0 .. N - 1 : \A k \in 0 .. N - 1 : SlotAt(b, k) = x <=> k = p
  BY SlotMetOnce DEF BufferOf
<1>2. /\ more \in [0 .. N -> Nat] /\ more[0] = 0
      /\ \A k \in 1 .. N : more[k] = more[k - 1] + SizeAt(Only(b, S), k - 1)
  BY OnlyType, OffsetIsSum
<1>3. /\ less \in [0 .. N -> Nat] /\ less[0] = 0
      /\ \A k \in 1 .. N : less[k] = less[k - 1] + SizeAt(Only(b, S \ {x}), k - 1)
  BY OnlyType, OffsetIsSum
<1>4. size \in Nat /\ N \in Nat
  BY NAssumption DEF BufferOf, EntryOf
<1>5. ASSUME NEW k \in 0 .. N - 1
      PROVE  SizeAt(Only(b, S), k) = SizeAt(Only(b, S \ {x}), k) + (IF k = p THEN size ELSE 0)
             /\ SizeAt(Only(b, S \ {x}), k) \in Nat
  <2>1. /\ SizeAt(Only(b, S), k) = IF SlotAt(b, k) \in S THEN b.entry[SlotAt(b, k)].size ELSE 0
        /\ SizeAt(Only(b, S \ {x}), k) =
             IF SlotAt(b, k) \in S \ {x} THEN b.entry[SlotAt(b, k)].size ELSE 0
        /\ SlotAt(b, k) \in Slots
    BY OnlyType
  <2>2. b.entry[SlotAt(b, k)].size \in Nat
    BY <2>1 DEF BufferOf, EntryOf
  <2>3. CASE k = p
    BY <1>1, <1>4, <2>1, <2>3
  <2>4. CASE k # p
    BY <1>1, <1>4, <2>1, <2>2, <2>4
  <2> QED BY <2>3, <2>4
<1> HIDE DEF more, less, size
<1> DEFINE T == {n \in Nat : n <= N => more[n] = less[n] + (IF p < n THEN size ELSE 0)}
<1>6. 0 \in T
  BY <1>2, <1>3, <1>4
<1>7. ASSUME NEW n \in Nat, n \in T PROVE n + 1 \in T
  <2>1. CASE n + 1 <= N
    <3>1. n \in 0 .. N - 1 /\ n + 1 \in 1 .. N /\ (n + 1) - 1 = n /\ n \in 0 .. N
      BY <1>4, <2>1
    <3>2. /\ more[n + 1] = more[n] + SizeAt(Only(b, S), n)
          /\ less[n + 1] = less[n] + SizeAt(Only(b, S \ {x}), n)
          /\ more[n] \in Nat /\ less[n] \in Nat
      BY <1>2, <1>3, <3>1
    <3>3. more[n] = less[n] + (IF p < n THEN size ELSE 0)
      BY <1>7, <3>1
    <3>4. /\ SizeAt(Only(b, S), n) = SizeAt(Only(b, S \ {x}), n) + (IF n = p THEN size ELSE 0)
          /\ SizeAt(Only(b, S \ {x}), n) \in Nat
      BY <1>5, <3>1
    <3>5. more[n + 1] = less[n + 1] + (IF p < n + 1 THEN size ELSE 0)
      BY <1>4, <3>2, <3>3, <3>4
    <3> QED BY <3>5
  <2>2. CASE ~(n + 1 <= N)
    BY <2>2
  <2> QED BY <2>1, <2>2
<1>8. N \in T
  <2> HIDE DEF T
  <2> QED BY <1>4, <1>6, <1>7, NatInduct
<1>9. more[N] = less[N] + size /\ less[N] \in Nat
  BY <1>3, <1>4, <1>8
<1>10. SizeOf(b, S) = more[N] /\ SizeOf(b, R) = less[N]
  BY DEF SizeOf, more, less
<1> QED BY <1>4, <1>9, <1>10 DEF size

(* So MapThenSumSet computes it. *)
LEMMA SumIsOffset ==
  ASSUME NEW Ptrs, NEW b \in BufferOf(Ptrs), NEW S \in SUBSET Slots
  PROVE  MapThenSumSet(LAMBDA i : b.entry[i].size, S) = SizeOf(b, S)
<1> DEFINE Turn(g, s) ==
             IF s = {} THEN 0
             ELSE b.entry[CHOOSE x \in s : TRUE].size + g[s \ {CHOOSE x \in s : TRUE}]
           IsSum(g) == g = [s \in SUBSET S |-> Turn(g, s)]
<1>1. SizeOf(b, {}) = 0
  <2> DEFINE off == CurrentOffset(Only(b, {}))
             T == {n \in Nat : n <= N => off[n] = 0}
  <2>1. /\ off[0] = 0 /\ N \in Nat
        /\ \A k \in 1 .. N : off[k] = off[k - 1] + 0
    BY OnlyType, OffsetIsSum, NAssumption
  <2> HIDE DEF off
  <2>2. 0 \in T
    BY <2>1
  <2>3. ASSUME NEW n \in Nat, n \in T PROVE n + 1 \in T
    <3>1. n + 1 <= N => n + 1 \in 1 .. N /\ (n + 1) - 1 = n /\ n <= N
      BY <2>1
    <3> QED BY <2>1, <2>3, <3>1
  <2>4. N \in T
    <3> HIDE DEF T
    <3> QED BY <2>1, <2>2, <2>3, NatInduct
  <2> QED BY <2>4 DEF SizeOf, off
<1>2. ASSUME NEW s \in SUBSET S, s # {}
      PROVE  LET x == CHOOSE x \in s : TRUE
             IN  x \in s /\ SizeOf(b, s) = b.entry[x].size + SizeOf(b, s \ {x})
  <2>1. \A y \in s : SizeOf(b, s) = b.entry[y].size + SizeOf(b, s \ {y})
    <3> SUFFICES ASSUME NEW y \in s
                 PROVE  SizeOf(b, s) = b.entry[y].size + SizeOf(b, s \ {y})
      OBVIOUS
    <3>1. y \in Slots
      OBVIOUS
    <3> DEFINE r == s \ {y}
    <3>2. r = s \ {y}
      OBVIOUS
    <3> HIDE DEF r
    <3>3. SizeOf(b, s) = b.entry[y].size + SizeOf(b, r)
      BY <3>1, <3>2, OneSlotMore
    <3> QED BY <3>2, <3>3
  <2> QED BY <1>2, <2>1
<1>3. \E g : IsSum(g)
  <2> DEFINE g == [s \in SUBSET S |-> SizeOf(b, s)]
  <2>1. ASSUME NEW s \in SUBSET S PROVE SizeOf(b, s) = Turn(g, s)
    <3>1. CASE s = {}
      BY <1>1, <3>1
    <3>2. CASE s # {}
      <4>1. (s \ {CHOOSE x \in s : TRUE}) \in SUBSET S
        OBVIOUS
      <4> QED BY <1>2, <3>2, <4>1
    <3> QED BY <3>1, <3>2
  <2> HIDE DEF Turn
  <2>2. g = [s \in SUBSET S |-> Turn(g, s)]
    BY <2>1
  <2> QED BY <2>2
<1>4. PICK sum : IsSum(sum) /\ MapThenSumSet(LAMBDA i : b.entry[i].size, S) = sum[S]
  BY <1>3 DEF MapThenSumSet, MapThenFoldSet
<1> DEFINE T == {n \in Nat : \A s \in SUBSET S : Cardinality(s) = n => sum[s] = SizeOf(b, s)}
<1>5. IsFiniteSet(S)
  <2>1. IsFiniteSet(Slots)
    BY FS_Interval, NAssumption DEF Slots
  <2> QED BY <2>1, FS_Subset
<1>6. \A s \in SUBSET S : sum[s] = Turn(sum, s)
  <2> HIDE DEF Turn
  <2> QED BY <1>4
<1>7. 0 \in T
  <2>1. ASSUME NEW s \in SUBSET S, Cardinality(s) = 0 PROVE s = {}
    BY <1>5, <2>1, FS_Subset, FS_EmptySet
  <2>2. sum[{}] = 0
    BY <1>6
  <2> QED BY <1>1, <2>1, <2>2
<1>8. ASSUME NEW n \in Nat, n \in T PROVE n + 1 \in T
  <2> SUFFICES ASSUME NEW s \in SUBSET S, Cardinality(s) = n + 1 PROVE sum[s] = SizeOf(b, s)
    OBVIOUS
  <2> DEFINE x == CHOOSE x \in s : TRUE
  <2>1. IsFiniteSet(s)
    BY <1>5, FS_Subset
  <2>2. s # {}
    BY <2>1, FS_EmptySet
  <2>3. x \in s /\ SizeOf(b, s) = b.entry[x].size + SizeOf(b, s \ {x})
    BY <1>2, <2>2
  <2>4. (s \ {x}) \in SUBSET S /\ sum[s] = b.entry[x].size + sum[s \ {x}]
    BY <1>6, <2>2
  <2> HIDE DEF x
  <2>5. Cardinality(s \ {x}) = n
    <3>1. Cardinality(s \ {x}) = Cardinality(s) - 1
      BY <2>1, <2>3, FS_RemoveElement
    <3> QED BY <3>1
  <2>6. sum[s \ {x}] = SizeOf(b, s \ {x})
    BY <1>8, <2>4, <2>5
  <2> QED BY <2>3, <2>4, <2>6
<1>9. Cardinality(S) \in T
  <2>1. Cardinality(S) \in Nat
    BY <1>5, FS_CardinalityType
  <2> HIDE DEF T
  <2> QED BY <1>7, <1>8, <2>1, NatInduct
<1> QED BY <1>4, <1>9

(* The sizes of the slots in use add up to current_offset past the last one. *)
LEMMA TotalIsLast ==
  ASSUME NEW Ptrs, NEW b \in BufferOf(Ptrs), Consistent(b)
  PROVE  MapThenSumSet(LAMBDA i : b.entry[i].size, {i \in Slots : b.entry[i].buffptr # NULL})
           = CurrentOffset(b)[EntryCount(b)]
<1> DEFINE S == {i \in Slots : b.entry[i].buffptr # NULL}
<1>1. \A i \in Slots \ S : b.entry[i] = NullEntry
  BY DEF Consistent, BufferOf, EntryOf, NullEntry
<1>2. Only(b, S) = b
  <2>1. [i \in Slots |-> IF i \in S THEN b.entry[i] ELSE NullEntry] = b.entry
    BY <1>1 DEF BufferOf
  <2> QED BY <2>1 DEF Only, BufferOf
<1>3. CurrentOffset(b)[N] = CurrentOffset(b)[EntryCount(b)]
  <2>1. N \in EntryCount(b) .. N
    BY WindowShape, NAssumption DEF Consistent
  <2> QED BY <2>1, OffsetsGrow
<1>4. S \in SUBSET Slots
  OBVIOUS
<1>5. MapThenSumSet(LAMBDA i : b.entry[i].size, S) = SizeOf(b, S)
  <2> HIDE DEF S
  <2> QED BY <1>4, SumIsOffset
<1> QED BY <1>2, <1>3, <1>5 DEF SizeOf
=============================================================================
