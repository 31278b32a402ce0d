----------------------------- MODULE Snapshots -----------------------------
(***************************************************************************)
(* What a rewindable array promises its clients (Valuation, ClauseIndex    *)
(* and, through SearchState, the search engine): an array of optional      *)
(* elements of which copies can be taken and gone back to.  Every copy is  *)
(* whole; copies form a stack, and going back to one forgets the later     *)
(* ones.                                                                   *)
(***************************************************************************)
EXTENDS Naturals, Sequences

CONSTANTS Elem,     \* the values an assigned cell may hold
          Nothing,  \* the content of a cell never assigned
          MaxSize   \* bound on the size of the array

VARIABLES arr,    \* the current content
          snaps   \* the copies that may still be gone back to

vars == <<arr, snaps>>

Init == arr = <<>> /\ snaps = <<>>

Resize(n) ==
  /\ n \in Len(arr)..MaxSize
  /\ arr' = [i \in 1..n |-> IF i <= Len(arr) THEN arr[i] ELSE Nothing]
  /\ UNCHANGED snaps

Set(i, e) ==
  /\ arr[i] = Nothing
  /\ arr' = [arr EXCEPT ![i] = e]
  /\ UNCHANGED snaps

TakeSave == snaps' = Append(snaps, arr) /\ UNCHANGED arr

Restore(k) == arr' = snaps[k] /\ snaps' = SubSeq(snaps, 1, k)

Drop == snaps # <<>> /\ snaps' = SubSeq(snaps, 1, Len(snaps) - 1) /\ UNCHANGED arr

Next ==
  \/ \E n \in 0..MaxSize : Resize(n)
  \/ \E i \in 1..Len(arr), e \in Elem : Set(i, e)
  \/ TakeSave
  \/ \E k \in 1..Len(snaps) : Restore(k)
  \/ Drop

Spec == Init /\ [][Next]_vars
=============================================================================
