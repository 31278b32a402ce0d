---------------------------- MODULE RewindArray ----------------------------
(***************************************************************************)
(* memory::RewindArray of lazyparam_prover/memory/array.h: an array of     *)
(* optional elements that keeps the log "diffs" of the cells it has set,   *)
(* so that a Save is two sizes and restore() undoes the log.  The          *)
(* variable "saves" is the stack of Save values the clients still hold:    *)
(* the engine's saves, iterative_deepening()'s ss, the s1 and s2 of the    *)
(* ClauseIndex constructor, and the save of a failing mgu().               *)
(*                                                                         *)
(* The definitions named Bad... are plausible mistakes, each of which one  *)
(* of the properties below tells from the code.                            *)
(***************************************************************************)
EXTENDS Integers, Sequences

CONSTANTS Elem,      \* the values an assigned cell may hold
          Nothing,   \* Maybe<E>()
          MaxSize,   \* bound on data.size()
          MaxSaves   \* bound on the saves held at once

ASSUME ArrayAssumption ==
  /\ Nothing \notin Elem
  /\ MaxSize \in Nat
  /\ MaxSaves \in Nat

VARIABLES data,   \* vec<Maybe<E>>
          diffs,  \* vec<size_t>: the cells set, oldest first
          saves   \* the Save values held by the clients, oldest first

vars == <<data, diffs, saves>>

Save == [data_size : Nat, diffs_size : Nat]

(* The array holds elements and empty cells, the log and the saves sizes.  *)
TypeOK ==
  /\ data \in Seq(Elem \cup {Nothing})
  /\ diffs \in Seq(Nat)
  /\ saves \in Seq(Save)

Init == data = <<>> /\ diffs = <<>> /\ saves = <<>>

BadResizeShrinks(n) ==
  /\ data' = [i \in 1..n |-> IF i <= Len(data) THEN data[i] ELSE Nothing]
  /\ UNCHANGED <<diffs, saves>>

\* resize() only expands the array; the new cells are empty.
Resize(n) ==
  /\ n \in Len(data)..MaxSize
  /\ data' = [i \in 1..n |-> IF i <= Len(data) THEN data[i] ELSE Nothing]
  /\ UNCHANGED <<diffs, saves>>

\* set() is called on empty cells only ("data[%] already set").
Set(i, e) ==
  /\ data[i] = Nothing
  /\ data' = [data EXCEPT ![i] = e]
  /\ diffs' = Append(diffs, i)
  /\ UNCHANGED saves

TakeSave ==
  /\ Len(saves) < MaxSaves
  /\ saves' = Append(saves, [data_size |-> Len(data), diffs_size |-> Len(diffs)])
  /\ UNCHANGED <<data, diffs>>

\* The cells the loop of restore(s) empties.
Undone(s) == {diffs[j] : j \in s.diffs_size + 1 .. Len(diffs)}

BadRewoundResizeOnly(s) == [i \in 1..s.data_size |-> data[i]]

\* data after restore(s): the loop, then the resize to the saved size.
Rewound(s) == [i \in 1..s.data_size |-> IF i \in Undone(s) THEN Nothing ELSE data[i]]

BadRestoreKeepsLog(k) ==
  /\ data' = Rewound(saves[k])
  /\ saves' = SubSeq(saves, 1, k)
  /\ UNCHANGED diffs

\* A client goes back to its save k, which it may do again later; the saves
\* taken after k are void.
Restore(k) ==
  /\ data' = Rewound(saves[k])
  /\ diffs' = SubSeq(diffs, 1, saves[k].diffs_size)
  /\ saves' = SubSeq(saves, 1, k)

\* A client gives up its latest save without going back to it (mgu()
\* succeeded, the engine popped the entry, or cut removed it).
Drop ==
  /\ saves # <<>>
  /\ saves' = SubSeq(saves, 1, Len(saves) - 1)
  /\ UNCHANGED <<data, diffs>>

Next ==
  \/ \E n \in 0..MaxSize : Resize(n)
  \/ \E i \in 1..Len(data), e \in Elem : Set(i, e)
  \/ TakeSave
  \/ \E k \in 1..Len(saves) : Restore(k)
  \/ Drop

Spec == Init /\ [][Next]_vars
-----------------------------------------------------------------------------
(***************************************************************************)
(* The log lists exactly the cells that are set, each of them once: what   *)
(* restore() empties is what set() filled since, never more nor less.      *)
(***************************************************************************)
LogExact ==
  /\ \A j \in 1..Len(diffs) : diffs[j] \in 1..Len(data)
  /\ \A i \in 1..Len(data) : data[i] # Nothing <=> \E j \in 1..Len(diffs) : diffs[j] = i
  /\ \A j, k \in 1..Len(diffs) : diffs[j] = diffs[k] => j = k

(***************************************************************************)
(* A save held by a client never refers past the current array or log,     *)
(* nor past a later save, and every cell logged before the save lies       *)
(* within the saved size: the two DEBUG checks of restore() cannot fail,   *)
(* and its loop never writes outside of data.                              *)
(***************************************************************************)
SavesNested ==
  /\ \A k \in 1..Len(saves) :
       /\ saves[k].data_size <= Len(data)
       /\ saves[k].diffs_size <= Len(diffs)
       /\ \A j \in 1..saves[k].diffs_size : diffs[j] <= saves[k].data_size
  /\ \A k, l \in 1..Len(saves) : k <= l =>
       /\ saves[k].data_size <= saves[l].data_size
       /\ saves[k].diffs_size <= saves[l].diffs_size

(***************************************************************************)
(* The copy that a save stands for: the cells that were logged before it,  *)
(* with the values they still hold.                                        *)
(***************************************************************************)
CopyOf(s) ==
  [i \in 1..s.data_size |->
     IF \E j \in 1..s.diffs_size : diffs[j] = i THEN data[i] ELSE Nothing]

copies == [k \in 1..Len(saves) |-> CopyOf(saves[k])]

Copies == INSTANCE Snapshots WITH arr <- data, snaps <- copies

(***************************************************************************)
(* Two sizes are as good as whole copies: set() and resize() leave every   *)
(* saved copy alone, and restore() brings back exactly the content at the  *)
(* time of the save (the client code of array.h relies on nothing else).   *)
(***************************************************************************)
ImplementsSnapshots == Copies!Spec
=============================================================================
