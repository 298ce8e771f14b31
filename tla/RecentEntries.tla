---------------------------- MODULE RecentEntries ----------------------------
(***************************************************************************)
(* What a circular buffer of N entries promises its user: it holds the N   *)
(* most recent entries in the order they were added, and when one more     *)
(* pushes the oldest out, it hands that one's memory back to the caller.   *)
(***************************************************************************)
EXTENDS Naturals, Sequences

CONSTANTS N, NULL, Entries

VARIABLES
  window,       \* the entries held, oldest first
  overwritten   \* what the last addition handed back

Init == window = << >> /\ overwritten = NULL

Add(e) ==
  \/ /\ Len(window) < N
     /\ window' = Append(window, e)
     /\ overwritten' = NULL
  \/ /\ Len(window) = N
     /\ window' = Append(Tail(window), e)
     /\ overwritten' = Head(window).buffptr

Next == \E e \in Entries : Add(e)

Spec == Init /\ [][Next]_<<window, overwritten>>
=============================================================================
