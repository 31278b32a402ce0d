--------------------------- MODULE StackAllocProofs ---------------------------
(***************************************************************************)
(* For blocks and objects of any size, any number of blocks and of saves:  *)
(* no two live objects overlap, and a save keeps what was allocated before *)
(* it.  Disjoint is not inductive: what keeps a new object clear of the    *)
(* others is that the live objects lie one after the other below the place *)
(* where allocation goes on, and what keeps that so after a restore is     *)
(* that the same held of the save.                                         *)
(***************************************************************************)
EXTENDS StackAlloc, SequenceTheorems, TLAPS

(* The objects lie one after the other.                                    *)
Ascending ==
  \A i, j \in 1..Len(live) : i < j => Before(live[i], live[j].block, live[j].at)

(* They end below the place where allocation goes on.                      *)
BelowTop ==
  \A i \in 1..Len(live) : Before(live[i], blocks_used, begin) /\ End(live[i]) <= BLOCK

(* A save names a place within the blocks.                                 *)
SavesInside ==
  \A k \in 1..Len(saves) : saves[k].blocks_used <= blocks /\ saves[k].begin <= BLOCK

IInv == TypeOK /\ Ascending /\ BelowTop /\ SavesInside /\ SavesKeep
-----------------------------------------------------------------------------
(* The first n elements of a sequence.                                     *)
LEMMA PrefixProperties == ASSUME NEW S, NEW q \in Seq(S), NEW n \in 0..Len(q)
  PROVE  /\ SubSeq(q, 1, n) \in Seq(S)
         /\ Len(SubSeq(q, 1, n)) = n
         /\ \A i \in 1..n : SubSeq(q, 1, n)[i] = q[i]
<1>1. Len(q) \in Nat /\ n \in Nat /\ n <= Len(q) BY LenProperties
<1>2. \A i \in 1..n : q[i] \in S BY <1>1, ElementOfSeq
<1> QED BY <1>1, <1>2, SubSeqProperties

(* The fields of the objects are numbers.                                  *)
LEMMA Objects == ASSUME NEW q \in Seq(Object), NEW i \in 1..Len(q)
  PROVE  q[i] \in Object /\ q[i].at \in Nat /\ q[i].size \in Nat /\ q[i].block \in Nat
<1>1. q[i] \in Object BY ElementOfSeq
<1> QED BY <1>1 DEF Object

(* And so are those of the saves.                                          *)
LEMMA Saves == ASSUME NEW q \in Seq(Save), NEW k \in 1..Len(q)
  PROVE  q[k].kept \in Nat /\ q[k].begin \in Nat /\ q[k].blocks_used \in Nat
<1>1. q[k] \in Save BY ElementOfSeq
<1> QED BY <1>1 DEF Save

(* A sequence with one more element.                                       *)
LEMMA Appended == ASSUME NEW S, NEW q \in Seq(S), NEW e \in S
  PROVE  /\ Append(q, e) \in Seq(S)
         /\ Len(Append(q, e)) = Len(q) + 1
         /\ \A i \in 1..Len(q) : Append(q, e)[i] = q[i]
         /\ Append(q, e)[Len(q) + 1] = e
         /\ Len(q) \in Nat
BY AppendProperties, LenProperties

(* The invariant follows for a step that allocates an object at the top    *)
(* and leaves the saves alone.                                             *)
LEMMA Allocated ==
  ASSUME IInv, NEW o \in Object,
         o.at + o.size = begin', o.block = blocks_used', begin' \in 0..BLOCK,
         blocks' \in Nat, blocks <= blocks', blocks_used' \in 0..blocks',
         live' = Append(live, o), saves' = saves,
         \A i \in 1..Len(live) : Before(live[i], o.block, o.at)
  PROVE  IInv'
<1> USE DEF IInv
<1>0. /\ live \in Seq(Object) /\ saves \in Seq(Save) /\ blocks \in Nat
      /\ BLOCK \in Nat /\ Len(saves) \in Nat
  BY AllocAssumption, LenProperties DEF TypeOK
<1>1. /\ live' \in Seq(Object) /\ Len(live') = Len(live) + 1 /\ Len(live) \in Nat
      /\ \A i \in 1..Len(live) : live'[i] = live[i]
      /\ live'[Len(live) + 1] = o
  BY <1>0, Appended
<1>2. \A i \in 1..Len(live) : live[i] \in Object /\ live[i].at \in Nat /\ live[i].size \in Nat /\ live[i].block \in Nat
  BY <1>0, Objects
<1>3. \A k \in 1..Len(saves) : saves[k].kept \in Nat /\ saves[k].begin \in Nat /\ saves[k].blocks_used \in Nat
  BY <1>0, Saves
<1>o. o.at \in Nat /\ o.size \in Nat /\ o.block \in Nat BY DEF Object
<1>4. TypeOK' BY <1>0, <1>1 DEF TypeOK
<1>5. Ascending'
  <2> SUFFICES ASSUME NEW i \in 1..Len(live'), NEW j \in 1..Len(live'), i < j
      PROVE Before(live'[i], live'[j].block, live'[j].at)
    BY DEF Ascending, Before, End
  <2>1. i \in 1..Len(live) /\ live'[i] = live[i] BY <1>1
  <2>2. CASE j = Len(live) + 1 BY <2>1, <2>2, <1>1
  <2>3. CASE j \in 1..Len(live)
    <3>1. live'[j] = live[j] BY <2>3, <1>1
    <3> QED BY <2>1, <2>3, <3>1 DEF Ascending
  <2> QED BY <2>2, <2>3, <1>1
<1>6. BelowTop'
  <2> SUFFICES ASSUME NEW i \in 1..Len(live')
      PROVE Before(live'[i], blocks_used', begin') /\ End(live'[i]) <= BLOCK
    BY DEF BelowTop, Before, End
  <2>1. CASE i = Len(live) + 1
    <3>1. live'[i] = o BY <2>1, <1>1
    <3> QED BY <3>1, <1>0, <1>o DEF Before, End
  <2>2. CASE i \in 1..Len(live)
    <3>1. live'[i] = live[i] BY <2>2, <1>1
    <3>2. Before(live[i], o.block, o.at) /\ End(live[i]) <= BLOCK BY <2>2 DEF BelowTop
    <3>3. o.at <= begin' BY <1>o, <1>0
    <3>4. End(live[i]) \in Nat /\ begin' \in Nat
      <4>1. live[i].at \in Nat /\ live[i].size \in Nat BY <2>2, <1>2
      <4>2. begin' \in Nat BY <1>0
      <4>3. live[i].at + live[i].size \in Nat BY <4>1
      <4> QED BY <4>2, <4>3 DEF End
    <3>5. Before(live[i], o.block, begin') BY <3>2, <3>3, <3>4, <1>o DEF Before
    <3> QED BY <3>1, <3>2, <3>5
  <2> QED BY <2>1, <2>2, <1>1
<1>7. SavesInside' BY <1>0, <1>3 DEF SavesInside
<1>8. SavesKeep'
  <2>1. ASSUME NEW k \in 1..Len(saves)
        PROVE  /\ saves[k].kept <= Len(live')
               /\ \A i \in 1..saves[k].kept : Before(live'[i], saves[k].blocks_used, saves[k].begin)
    <3>1. saves[k].kept \in Nat /\ saves[k].kept <= Len(live) BY <2>1, <1>3 DEF SavesKeep
    <3>2. \A i \in 1..saves[k].kept : i \in 1..Len(live) BY <3>1, <1>1
    <3> QED BY <3>1, <3>2, <1>1 DEF SavesKeep
  <2>2. \A k, l \in 1..Len(saves) : k < l => saves[k].kept <= saves[l].kept BY DEF SavesKeep
  <2> QED BY <2>1, <2>2 DEF SavesKeep, Before, End
<1> QED BY <1>4, <1>5, <1>6, <1>7, <1>8
-----------------------------------------------------------------------------
(* The invariant holds before anything is allocated.                       *)
LEMMA InitHolds == Init => IInv
BY AllocAssumption, EmptySeq DEF Init, IInv, TypeOK, Ascending, BelowTop, SavesInside, SavesKeep

(* Every operation of the allocator keeps the invariant.                   *)
LEMMA StepHolds == IInv /\ [Next]_vars => IInv'
<1> SUFFICES ASSUME IInv, [Next]_vars PROVE IInv' OBVIOUS
<1>0. /\ live \in Seq(Object) /\ saves \in Seq(Save) /\ blocks \in Nat /\ blocks_used \in 0..blocks
      /\ begin \in 0..BLOCK /\ BLOCK \in Nat /\ Len(saves) \in Nat /\ Len(live) \in Nat
  BY AllocAssumption, LenProperties DEF IInv, TypeOK
<1>1. \A i \in 1..Len(live) : live[i] \in Object /\ live[i].at \in Nat /\ live[i].size \in Nat /\ live[i].block \in Nat
  BY <1>0, Objects
<1>2. \A k \in 1..Len(saves) : saves[k].kept \in Nat /\ saves[k].begin \in Nat /\ saves[k].blocks_used \in Nat
  BY <1>0, Saves
<1>3. ASSUME NEW s \in Sizes, AllocHere(s) PROVE IInv'
  <2> DEFINE o == [block |-> blocks_used, at |-> begin, size |-> s]
  <2>1. s \in Nat /\ blocks_used > 0 /\ begin + s <= BLOCK BY <1>3, AllocAssumption DEF AllocHere, Fits
  <2>2. o \in Object /\ o.at + o.size = begin + s /\ o.block = blocks_used /\ o.at = begin BY <2>1, <1>0 DEF Object
  <2>3. \A i \in 1..Len(live) : Before(live[i], o.block, o.at) BY <2>2 DEF IInv, BelowTop
  <2>4. begin' = begin + s /\ live' = Append(live, o) /\ saves' = saves /\ blocks' = blocks /\ blocks_used' = blocks_used
    BY <1>3 DEF AllocHere
  <2> HIDE DEF o
  <2>5. begin' \in 0..BLOCK /\ blocks <= blocks' /\ blocks_used' \in 0..blocks' /\ blocks' \in Nat BY <2>1, <2>4, <1>0
  <2> QED BY <2>2, <2>3, <2>4, <2>5, Allocated
<1>4. ASSUME NEW s \in Sizes, AllocNext(s) PROVE IInv'
  <2> DEFINE o == [block |-> blocks_used + 1, at |-> 0, size |-> s]
  <2>1. s \in Nat /\ s <= BLOCK BY AllocAssumption
  <2>2. o \in Object /\ o.at + o.size = s /\ o.block = blocks_used + 1 /\ o.at = 0 BY <2>1, <1>0 DEF Object
  <2>3. \A i \in 1..Len(live) : Before(live[i], o.block, o.at)
    <3> SUFFICES ASSUME NEW i \in 1..Len(live) PROVE live[i].block < o.block BY DEF Before
    <3>1. Before(live[i], blocks_used, begin) BY DEF IInv, BelowTop
    <3>2. live[i].block <= blocks_used BY <3>1, <1>0, <1>1 DEF Before
    <3>3. live[i].block \in Nat BY <1>1
    <3> QED BY <3>2, <3>3, <2>2, <1>0
  <2>4. begin' = s /\ live' = Append(live, o) /\ saves' = saves /\ blocks_used' = blocks_used + 1
        /\ blocks' = IF blocks = blocks_used THEN blocks + 1 ELSE blocks
    BY <1>4 DEF AllocNext
  <2> HIDE DEF o
  <2>5. begin' \in 0..BLOCK /\ blocks <= blocks' /\ blocks_used' \in 0..blocks' /\ blocks' \in Nat BY <2>1, <2>4, <1>0
  <2> QED BY <2>2, <2>3, <2>4, <2>5, Allocated
<1>5. CASE TakeSave
  <2> DEFINE new == [blocks_used |-> blocks_used, begin |-> begin, kept |-> Len(live)]
  <2>1. new \in Save /\ new.kept = Len(live) /\ new.blocks_used = blocks_used /\ new.begin = begin BY <1>0 DEF Save
  <2>2. saves' = Append(saves, new) /\ live' = live /\ blocks' = blocks /\ blocks_used' = blocks_used /\ begin' = begin
    BY <1>5 DEF TakeSave
  <2> HIDE DEF new
  <2>3. /\ saves' \in Seq(Save) /\ Len(saves') = Len(saves) + 1
        /\ \A k \in 1..Len(saves) : saves'[k] = saves[k]
        /\ saves'[Len(saves) + 1] = new
    BY <2>1, <2>2, <1>0, Appended
  <2>4. TypeOK' BY <2>2, <2>3, <1>0 DEF TypeOK
  <2>5. Ascending' /\ BelowTop' BY <2>2 DEF IInv, Ascending, BelowTop, Before, End
  <2>6. SavesInside'
    <3> SUFFICES ASSUME NEW k \in 1..Len(saves') PROVE saves'[k].blocks_used <= blocks /\ saves'[k].begin <= BLOCK
      BY <2>2 DEF SavesInside
    <3>1. CASE k = Len(saves) + 1 BY <3>1, <2>1, <2>3, <1>0
    <3>2. CASE k \in 1..Len(saves) BY <3>2, <2>3 DEF IInv, SavesInside
    <3> QED BY <3>1, <3>2, <2>3, <1>0
  <2>7. ASSUME NEW k \in 1..Len(saves')
        PROVE  /\ saves'[k].kept <= Len(live)
               /\ \A i \in 1..saves'[k].kept : Before(live[i], saves'[k].blocks_used, saves'[k].begin)
    <3>1. CASE k = Len(saves) + 1 BY <3>1, <2>1, <2>3, <1>0 DEF IInv, BelowTop
    <3>2. CASE k \in 1..Len(saves) BY <3>2, <2>3 DEF IInv, SavesKeep
    <3> QED BY <3>1, <3>2, <2>3, <1>0
  <2>8. ASSUME NEW k \in 1..Len(saves'), NEW l \in 1..Len(saves'), k < l
        PROVE  saves'[k].kept <= saves'[l].kept
    <3>1. k \in 1..Len(saves) /\ saves'[k] = saves[k] BY <2>8, <2>3, <1>0
    <3>2. CASE l = Len(saves) + 1
      <4>1. saves'[l].kept = Len(live) BY <3>2, <2>1, <2>3
      <4> QED BY <4>1, <3>1 DEF IInv, SavesKeep
    <3>3. CASE l \in 1..Len(saves)
      <4>1. saves'[l] = saves[l] BY <3>3, <2>3
      <4> QED BY <4>1, <3>1, <3>3, <2>8 DEF IInv, SavesKeep
    <3> QED BY <3>2, <3>3, <2>3, <1>0
  <2>9. SavesKeep' BY <2>7, <2>8, <2>2 DEF SavesKeep, Before, End
  <2> QED BY <2>4, <2>5, <2>6, <2>9 DEF IInv
<1>6. CASE Drop
  <2>1. Len(saves) # 0 /\ Len(saves) - 1 \in 0..Len(saves) BY <1>6, <1>0, EmptySeq DEF Drop
  <2>a. saves' = SubSeq(saves, 1, Len(saves) - 1) BY <1>6 DEF Drop
  <2>2. /\ saves' \in Seq(Save) /\ Len(saves') = Len(saves) - 1
        /\ \A k \in 1..Len(saves') : saves'[k] = saves[k] /\ k \in 1..Len(saves)
    <3>1. /\ SubSeq(saves, 1, Len(saves) - 1) \in Seq(Save)
          /\ Len(SubSeq(saves, 1, Len(saves) - 1)) = Len(saves) - 1
          /\ \A k \in 1..Len(saves) - 1 : SubSeq(saves, 1, Len(saves) - 1)[k] = saves[k]
      BY <2>1, <1>0, PrefixProperties
    <3> QED BY <3>1, <2>a, <1>0
  <2>3. live' = live /\ blocks' = blocks /\ blocks_used' = blocks_used /\ begin' = begin BY <1>6 DEF Drop
  <2>4. TypeOK' BY <2>2, <2>3, <1>0 DEF TypeOK
  <2>5. Ascending' /\ BelowTop' BY <2>3 DEF IInv, Ascending, BelowTop, Before, End
  <2>6. SavesInside' BY <2>2, <2>3 DEF IInv, SavesInside
  <2>7. SavesKeep' BY <2>2, <2>3 DEF IInv, SavesKeep, Before, End
  <2> QED BY <2>4, <2>5, <2>6, <2>7 DEF IInv
<1>7. ASSUME NEW k \in 1..Len(saves), Restore(k) PROVE IInv'
  <2> DEFINE n == saves[k].kept
  <2>1. n \in Nat /\ n <= Len(live) /\ n \in 0..Len(live) /\ k - 1 \in 0..Len(saves)
    BY <1>0, <1>2 DEF IInv, SavesKeep
  <2>2. /\ live' \in Seq(Object) /\ Len(live') = n
        /\ \A i \in 1..n : live'[i] = live[i] /\ i \in 1..Len(live)
    BY <1>7, <2>1, <1>0, PrefixProperties DEF Restore
  <2>3. /\ saves' \in Seq(Save) /\ Len(saves') = k - 1
        /\ \A l \in 1..k - 1 : saves'[l] = saves[l] /\ l \in 1..Len(saves) /\ l < k
    BY <1>7, <2>1, <1>0, PrefixProperties DEF Restore
  <2>4. blocks' = blocks /\ blocks_used' = saves[k].blocks_used /\ begin' = saves[k].begin BY <1>7 DEF Restore
  <2>5. \A i \in 1..n : Before(live[i], saves[k].blocks_used, saves[k].begin) BY DEF IInv, SavesKeep
  <2>6. saves[k].blocks_used <= blocks /\ saves[k].begin <= BLOCK BY DEF IInv, SavesInside
  <2>7. \A l \in 1..k - 1 : saves[l].kept <= n BY <2>3 DEF IInv, SavesKeep
  <2> HIDE DEF n
  <2>8. TypeOK' BY <2>2, <2>3, <2>4, <2>6, <1>0, <1>2 DEF TypeOK
  <2>9. Ascending' BY <2>2 DEF IInv, Ascending, Before, End
  <2>10. BelowTop' BY <2>2, <2>4, <2>5 DEF IInv, BelowTop, Before, End
  <2>11. SavesInside' BY <2>3, <2>4 DEF IInv, SavesInside
  <2>12. ASSUME NEW l \in 1..Len(saves')
         PROVE  /\ saves'[l].kept <= Len(live')
                /\ \A i \in 1..saves'[l].kept : Before(live'[i], saves'[l].blocks_used, saves'[l].begin)
    <3>1. l \in 1..k - 1 /\ saves'[l] = saves[l] /\ l \in 1..Len(saves) BY <2>3
    <3>2. saves[l].kept \in Nat /\ saves[l].kept <= n BY <3>1, <2>7, <1>2
    <3>3. \A i \in 1..saves[l].kept : i \in 1..n BY <3>2, <2>1
    <3>4. \A i \in 1..saves[l].kept : Before(live[i], saves[l].blocks_used, saves[l].begin) BY <3>1 DEF IInv, SavesKeep
    <3> QED BY <3>1, <3>2, <3>3, <3>4, <2>2
  <2>13. \A l, m \in 1..Len(saves') : l < m => saves'[l].kept <= saves'[m].kept BY <2>3 DEF IInv, SavesKeep
  <2>14. SavesKeep' BY <2>12, <2>13 DEF SavesKeep, Before, End
  <2> QED BY <2>8, <2>9, <2>10, <2>11, <2>14 DEF IInv
<1>8. CASE UNCHANGED vars
  BY <1>8 DEF vars, IInv, TypeOK, Ascending, BelowTop, SavesInside, SavesKeep, Before, End
<1> QED BY <1>3, <1>4, <1>5, <1>6, <1>7, <1>8 DEF Next

(* So it holds always.                                                     *)
LEMMA Invariant == Spec => []IInv
BY InitHolds, StepHolds, PTL DEF Spec

(* Objects that lie one after the other do not overlap.                    *)
LEMMA Separate == IInv => Disjoint
<1> SUFFICES ASSUME IInv PROVE Disjoint OBVIOUS
<1>0. /\ live \in Seq(Object) /\ Len(live) \in Nat /\ BLOCK \in Nat
      /\ blocks \in Nat /\ blocks_used \in 0..blocks /\ begin \in 0..BLOCK
  BY AllocAssumption, LenProperties DEF IInv, TypeOK
<1>1. \A i \in 1..Len(live) : live[i].at \in Nat /\ live[i].size \in Nat /\ live[i].block \in Nat
  BY <1>0, Objects
<1>2. \A i \in 1..Len(live) : live[i].block <= blocks /\ End(live[i]) <= BLOCK
  <2> SUFFICES ASSUME NEW i \in 1..Len(live) PROVE live[i].block <= blocks /\ End(live[i]) <= BLOCK OBVIOUS
  <2>1. Before(live[i], blocks_used, begin) /\ End(live[i]) <= BLOCK BY DEF IInv, BelowTop
  <2>2. live[i].block <= blocks_used BY <2>1, <1>0, <1>1 DEF Before
  <2> QED BY <2>1, <2>2, <1>0, <1>1
<1>3. \A i, j \in 1..Len(live) : i < j => live[i].block # live[j].block \/ End(live[i]) <= live[j].at
  BY <1>1 DEF IInv, Ascending, Before
<1> QED BY <1>2, <1>3 DEF Disjoint

(***************************************************************************)
(* No two objects that are still in use overlap, whatever saves were taken *)
(* and restored in between: the addresses of live objects tell them apart, *)
(* which is what pointer_equal() in the engine relies on.                  *)
(***************************************************************************)
THEOREM NoOverlap == Spec => []Disjoint
BY Invariant, Separate, PTL

(***************************************************************************)
(* Restoring a save gives up nothing that was allocated before the save.   *)
(***************************************************************************)
THEOREM NothingLost == Spec => []SavesKeep
<1>1. IInv => SavesKeep BY DEF IInv
<1> QED BY Invariant, <1>1, PTL
=============================================================================
