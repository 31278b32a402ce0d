------------------------------ MODULE StackAlloc ------------------------------
(***************************************************************************)
(* The allocator of lazyparam_prover/memory/stack.h.  Memory is taken from *)
(* the last block in use, a new one is started when an object does not     *)
(* fit, and restore() goes back to a save: nothing is freed, and the       *)
(* blocks are used again.  The code never restores a save twice, nor one   *)
(* that is older than the last one restored: a restore drops the saves     *)
(* from it on.                                                             *)
(***************************************************************************)
EXTENDS Integers, Sequences

CONSTANTS
  BLOCK,      \* the size of a block
  Sizes,      \* the sizes asked for
  MaxBlocks,  \* bounds of a run: the blocks,
  MaxSaves    \* and the saves kept at once

ASSUME AllocAssumption ==
  /\ BLOCK \in Nat /\ Sizes \subseteq 1..BLOCK
  /\ MaxBlocks \in Nat /\ MaxSaves \in Nat

VARIABLES
  blocks,       \* blocks.size()
  blocks_used,  \* state.blocks_used
  begin,        \* state.begin: how much of the last block in use is taken
  live,         \* the objects allocated and not given up since
  saves         \* the saves, each with the number of objects it keeps

vars == <<blocks, blocks_used, begin, live, saves>>

Object == [block : Nat \ {0}, at : Nat, size : Nat]
Save == [blocks_used : Nat, begin : Nat, kept : Nat]

(* Allocation goes on within the last block in use, which there is.        *)
TypeOK ==
  /\ blocks \in Nat /\ blocks_used \in 0..blocks
  /\ begin \in 0..BLOCK
  /\ live \in Seq(Object)
  /\ saves \in Seq(Save)

Init == blocks = 0 /\ blocks_used = 0 /\ begin = 0 /\ live = <<>> /\ saves = <<>>
-----------------------------------------------------------------------------
(* state.begin+s <= state.end; there is no block at first.                 *)
BadFits(s) == blocks_used > 0 /\ begin < BLOCK
Fits(s) == blocks_used > 0 /\ begin + s <= BLOCK

(* alloc_bytes(s), in the block that is open and in the next one.          *)
AllocHere(s) ==
  /\ Fits(s)
  /\ live' = Append(live, [block |-> blocks_used, at |-> begin, size |-> s])
  /\ begin' = begin + s
  /\ UNCHANGED <<blocks, blocks_used, saves>>

AllocNext(s) ==
  /\ ~ Fits(s) /\ blocks_used < MaxBlocks
  /\ blocks' = IF blocks = blocks_used THEN blocks + 1 ELSE blocks
  /\ blocks_used' = blocks_used + 1
  /\ live' = Append(live, [block |-> blocks_used + 1, at |-> 0, size |-> s])
  /\ begin' = s
  /\ UNCHANGED saves

TakeSave ==
  /\ Len(saves) < MaxSaves
  /\ saves' = Append(saves, [blocks_used |-> blocks_used, begin |-> begin, kept |-> Len(live)])
  /\ UNCHANGED <<blocks, blocks_used, begin, live>>

BadRestoreKeepsBegin(k) ==
  /\ blocks_used' = saves[k].blocks_used
  /\ live' = SubSeq(live, 1, saves[k].kept)
  /\ saves' = SubSeq(saves, 1, k - 1)
  /\ UNCHANGED <<blocks, begin>>

(* What was allocated after save k is given up.                            *)
Restore(k) ==
  /\ blocks_used' = saves[k].blocks_used
  /\ begin' = saves[k].begin
  /\ live' = SubSeq(live, 1, saves[k].kept)
  /\ saves' = SubSeq(saves, 1, k - 1)
  /\ UNCHANGED blocks

(* A save is given up without a restore: by Div::save with cut, and by     *)
(* iterative_deepening() when it returns.                                  *)
Drop ==
  /\ saves # <<>>
  /\ saves' = SubSeq(saves, 1, Len(saves) - 1)
  /\ UNCHANGED <<blocks, blocks_used, begin, live>>

Next ==
  \/ \E s \in Sizes : AllocHere(s) \/ AllocNext(s)
  \/ TakeSave \/ Drop
  \/ \E k \in 1..Len(saves) : Restore(k)

Spec == Init /\ [][Next]_vars
-----------------------------------------------------------------------------
End(o) == o.at + o.size

(***************************************************************************)
(* No two live objects overlap, and each lies within an allocated block:   *)
(* what is allocated after a restore reuses only memory that was given up. *)
(***************************************************************************)
Disjoint ==
  /\ \A i \in 1..Len(live) : live[i].block <= blocks /\ End(live[i]) <= BLOCK
  /\ \A i, j \in 1..Len(live) :
       i < j => \/ live[i].block # live[j].block
                \/ End(live[i]) <= live[j].at

Before(o, used, at) == o.block < used \/ (o.block = used /\ End(o) <= at)

(***************************************************************************)
(* A save keeps all that was allocated before it: those objects end before *)
(* the place where allocation would go on after the restore, and a save    *)
(* keeps no more than the saves after it.                                  *)
(***************************************************************************)
SavesKeep ==
  /\ \A k \in 1..Len(saves) :
       /\ saves[k].kept <= Len(live)
       /\ \A i \in 1..saves[k].kept : Before(live[i], saves[k].blocks_used, saves[k].begin)
  /\ \A k, l \in 1..Len(saves) : k < l => saves[k].kept <= saves[l].kept
=============================================================================
