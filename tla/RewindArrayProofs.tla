------------------------- MODULE RewindArrayProofs -------------------------
(***************************************************************************)
(* For every element set and every bound: the type invariant of            *)
(* RewindArray, the exactness of its log, the nesting of its saves, and    *)
(* that it implements Snapshots.                                           *)
(***************************************************************************)
EXTENDS RewindArray, SequenceTheorems, TLAPS

Inv == TypeOK /\ LogExact /\ SavesNested

(* The empty array, without log and saves, satisfies the invariant.        *)
LEMMA InitInv == Init => Inv
  BY DEF Init, Inv, TypeOK, LogExact, SavesNested

(***************************************************************************)
(* Each call preserves the type of the three vectors.                      *)
(***************************************************************************)
LEMMA FunIsSeq ==
  ASSUME NEW S, NEW n \in Nat, NEW f \in [1..n -> S] PROVE f \in Seq(S) /\ Len(f) = n
  OBVIOUS

(* Every operation keeps the types.                                        *)
LEMMA TypeStep == ASSUME TypeOK, LogExact, SavesNested, [Next]_vars PROVE TypeOK'
<1> USE ArrayAssumption DEF TypeOK
<1>1. ASSUME NEW n \in 0..MaxSize, Resize(n) PROVE TypeOK'
  <2>1. n \in Nat OBVIOUS
  <2>2. [i \in 1..n |-> IF i <= Len(data) THEN data[i] ELSE Nothing]
          \in [1..n -> Elem \cup {Nothing}]
    BY ElementOfSeq
  <2>3. data' \in Seq(Elem \cup {Nothing})
    BY <1>1, <2>1, <2>2, FunIsSeq DEF Resize
  <2>4. QED BY <1>1, <2>3 DEF Resize
<1>2. ASSUME NEW i \in 1..Len(data), NEW e \in Elem, Set(i, e) PROVE TypeOK'
  <2>1. i \in Nat BY LenProperties
  <2>2. data' \in Seq(Elem \cup {Nothing})
    BY <1>2, ExceptSeq DEF Set
  <2>3. QED BY <1>2, <2>1, <2>2 DEF Set
<1>3. CASE TakeSave
  <2>1. [data_size |-> Len(data), diffs_size |-> Len(diffs)] \in Save
    BY LenProperties DEF Save
  <2>2. QED BY <1>3, <2>1, AppendProperties DEF TakeSave
<1>4. ASSUME NEW k \in 1..Len(saves), Restore(k) PROVE TypeOK'
  <2>1. saves[k] \in Save BY ElementOfSeq
  <2>2. /\ saves[k].data_size \in Nat /\ saves[k].data_size <= Len(data)
        /\ saves[k].diffs_size \in Nat /\ saves[k].diffs_size <= Len(diffs)
    BY <2>1 DEF SavesNested, Save
  <2>3. Rewound(saves[k]) \in [1..saves[k].data_size -> Elem \cup {Nothing}]
    BY <2>2, ElementOfSeq, LenProperties DEF Rewound
  <2>4. data' \in Seq(Elem \cup {Nothing})
    BY <1>4, <2>2, <2>3, FunIsSeq DEF Restore
  <2>5. diffs' \in Seq(Nat)
    BY <1>4, <2>2 DEF Restore
  <2>6. saves' \in Seq(Save)
    BY <1>4 DEF Restore
  <2>7. QED BY <2>4, <2>5, <2>6
<1>5. CASE Drop
  <2>1. saves' \in Seq(Save) BY <1>5 DEF Drop
  <2>2. QED BY <1>5, <2>1 DEF Drop
<1>6. CASE UNCHANGED vars
  BY <1>6 DEF vars
<1>7. QED BY <1>1, <1>2, <1>3, <1>4, <1>5, <1>6 DEF Next
(***************************************************************************)
(* set() logs a cell that was empty, restore() empties exactly the cells   *)
(* whose log entries it removes, so the log stays exact.                   *)
(***************************************************************************)
LEMMA LogStep == ASSUME TypeOK, LogExact, SavesNested, [Next]_vars PROVE LogExact'
<1> USE ArrayAssumption
<1>1. ASSUME NEW n \in 0..MaxSize, Resize(n) PROVE LogExact'
  <2>1. n \in Nat /\ Len(data) \in Nat /\ Len(diffs) \in Nat /\ Len(data) <= n
    BY <1>1 DEF Resize, TypeOK
  <2>2. Len(data') = n /\ \A i \in 1..n : data'[i] = IF i <= Len(data) THEN data[i] ELSE Nothing
    BY <1>1, <2>1 DEF Resize
  <2>3. QED BY <1>1, <2>1, <2>2 DEF Resize, LogExact
<1>2. ASSUME NEW i \in 1..Len(data), NEW e \in Elem, Set(i, e) PROVE LogExact'
  <2>1. /\ Len(data) \in Nat /\ Len(diffs) \in Nat
        /\ Len(data') = Len(data) /\ Len(diffs') = Len(diffs) + 1
        /\ \A m \in 1..Len(data) : data'[m] = IF m = i THEN e ELSE data[m]
        /\ \A j \in 1..Len(diffs) : diffs'[j] = diffs[j]
        /\ diffs'[Len(diffs) + 1] = i
    BY <1>2 DEF Set, TypeOK
  <2>2. data[i] = Nothing /\ e # Nothing
    BY <1>2 DEF Set, ArrayAssumption
  <2>3. \A j \in 1..Len(diffs) : diffs[j] # i
    BY <2>2 DEF LogExact
  <2>4. ASSUME NEW j \in 1..Len(diffs') PROVE diffs'[j] \in 1..Len(data')
    BY <2>1 DEF LogExact
  <2>5. ASSUME NEW m \in 1..Len(data')
        PROVE  data'[m] # Nothing <=> \E j \in 1..Len(diffs') : diffs'[j] = m
    <3>1. CASE m = i
      BY <2>1, <2>2, <3>1
    <3>2. CASE m # i
      <4>1. data'[m] = data[m] /\ m \in 1..Len(data) BY <2>1, <3>2
      <4>2. (\E j \in 1..Len(diffs') : diffs'[j] = m) <=> \E j \in 1..Len(diffs) : diffs[j] = m
        BY <2>1, <3>2
      <4>3. QED BY <4>1, <4>2 DEF LogExact
    <3>3. QED BY <3>1, <3>2
  <2>6. ASSUME NEW j \in 1..Len(diffs'), NEW k \in 1..Len(diffs'), diffs'[j] = diffs'[k]
        PROVE  j = k
    BY <2>1, <2>3, <2>6 DEF LogExact
  <2>7. QED BY <2>4, <2>5, <2>6 DEF LogExact
<1>3. CASE TakeSave
  BY <1>3 DEF TakeSave, LogExact
<1>4. ASSUME NEW k \in 1..Len(saves), Restore(k) PROVE LogExact'
  <2> DEFINE s == saves[k]
  <2>1. s \in Save BY ElementOfSeq DEF TypeOK
  <2>2. /\ s.data_size \in Nat /\ s.data_size <= Len(data) /\ Len(data) \in Nat
        /\ s.diffs_size \in Nat /\ s.diffs_size <= Len(diffs) /\ Len(diffs) \in Nat
        /\ \A j \in 1..s.diffs_size : diffs[j] <= s.data_size
    BY <2>1 DEF SavesNested, Save, TypeOK
  <2>3. /\ Len(data') = s.data_size
        /\ \A i \in 1..s.data_size : data'[i] = IF i \in Undone(s) THEN Nothing ELSE data[i]
    BY <1>4, <2>2 DEF Restore, Rewound
  <2>4. Len(diffs') = s.diffs_size /\ \A j \in 1..s.diffs_size : diffs'[j] = diffs[j]
    BY <1>4, <2>2 DEF Restore, TypeOK
  <2> HIDE DEF s
  <2>5. \A j \in 1..Len(diffs') : diffs'[j] \in 1..Len(data')
    <3>1. \A j \in 1..Len(diffs) : diffs[j] \in 1..Len(data) BY DEF LogExact
    <3>2. \A j \in 1..s.diffs_size : diffs[j] \in 1..s.data_size BY <3>1, <2>2
    <3>3. QED BY <2>3, <2>4, <3>2
  <2>6. ASSUME NEW i \in 1..Len(data')
        PROVE  data'[i] # Nothing <=> \E j \in 1..Len(diffs') : diffs'[j] = i
    <3>1. i \in 1..Len(data) BY <2>2, <2>3
    <3>2. CASE i \in Undone(s)
      <4>1. PICK j \in s.diffs_size + 1 .. Len(diffs) : diffs[j] = i
        BY <3>2 DEF Undone
      <4>2. \A l \in 1..s.diffs_size : diffs[l] # i
        BY <4>1, <2>2 DEF LogExact
      <4>3. data'[i] = Nothing
        BY <2>3, <3>2
      <4>4. \A l \in 1..Len(diffs') : diffs'[l] # i
        BY <2>4, <4>2
      <4>5. QED BY <4>3, <4>4
    <3>3. CASE i \notin Undone(s)
      <4>1. \A j \in 1..Len(diffs) : diffs[j] = i => j \in 1..s.diffs_size
        BY <3>3, <2>2 DEF Undone
      <4>2. data'[i] = data[i] BY <2>3, <3>3
      <4>3. data[i] # Nothing <=> \E j \in 1..Len(diffs) : diffs[j] = i
        BY <3>1 DEF LogExact
      <4>4. QED BY <2>2, <2>4, <4>1, <4>2, <4>3
    <3>4. QED BY <3>2, <3>3
  <2>7. \A j, l \in 1..Len(diffs') : diffs'[j] = diffs'[l] => j = l
    BY <2>2, <2>4 DEF LogExact
  <2>8. QED BY <2>5, <2>6, <2>7 DEF LogExact
<1>5. CASE Drop
  BY <1>5 DEF Drop, LogExact
<1>6. CASE UNCHANGED vars
  BY <1>6 DEF vars, LogExact
<1>7. QED BY <1>1, <1>2, <1>3, <1>4, <1>5, <1>6 DEF Next

(***************************************************************************)
(* Sizes only grow between a save and the next restore, and a restore cuts *)
(* both vectors at a save that the remaining ones do not exceed.           *)
(***************************************************************************)
LEMMA NestStep == ASSUME TypeOK, LogExact, SavesNested, [Next]_vars PROVE SavesNested'
<1> USE ArrayAssumption
<1>0. /\ Len(data) \in Nat /\ Len(diffs) \in Nat /\ Len(saves) \in Nat
      /\ \A k \in 1..Len(saves) : /\ saves[k].data_size \in Nat
                                 /\ saves[k].diffs_size \in Nat
  <2>1. Len(data) \in Nat /\ Len(diffs) \in Nat /\ Len(saves) \in Nat
    BY LenProperties DEF TypeOK
  <2>2. \A k \in 1..Len(saves) : saves[k] \in Save
    BY ElementOfSeq DEF TypeOK
  <2>3. QED BY <2>1, <2>2 DEF Save
<1>1. ASSUME NEW n \in 0..MaxSize, Resize(n) PROVE SavesNested'
  <2>1. Len(data') = n /\ Len(data) <= n /\ n \in Nat
    BY <1>0, <1>1 DEF Resize
  <2>2. UNCHANGED <<diffs, saves>> BY <1>1 DEF Resize
  <2>3. QED BY <1>0, <2>1, <2>2 DEF SavesNested
<1>2. ASSUME NEW i \in 1..Len(data), NEW e \in Elem, Set(i, e) PROVE SavesNested'
  <2>1. /\ Len(data') = Len(data) /\ Len(diffs') = Len(diffs) + 1
        /\ \A j \in 1..Len(diffs) : diffs'[j] = diffs[j]
        /\ UNCHANGED saves
    BY <1>2 DEF Set, TypeOK
  <2>2. ASSUME NEW k \in 1..Len(saves)
        PROVE  /\ saves[k].data_size <= Len(data')
               /\ saves[k].diffs_size <= Len(diffs')
               /\ \A j \in 1..saves[k].diffs_size : diffs'[j] <= saves[k].data_size
    <3>1. /\ saves[k].data_size <= Len(data)
          /\ saves[k].diffs_size <= Len(diffs)
          /\ \A j \in 1..saves[k].diffs_size : diffs[j] <= saves[k].data_size
      BY DEF SavesNested
    <3>2. saves[k].data_size \in Nat /\ saves[k].diffs_size \in Nat BY <1>0
    <3>3. ASSUME NEW j \in 1..saves[k].diffs_size PROVE diffs'[j] <= saves[k].data_size
      <4>1. j \in 1..Len(diffs) BY <1>0, <3>1, <3>2
      <4>2. QED BY <2>1, <3>1, <4>1
    <3>4. QED BY <1>0, <2>1, <3>1, <3>2, <3>3
  <2>3. QED BY <2>1, <2>2 DEF SavesNested
<1>3. CASE TakeSave
  <2> DEFINE s == [data_size |-> Len(data), diffs_size |-> Len(diffs)]
  <2>1. /\ Len(saves') = Len(saves) + 1
        /\ \A k \in 1..Len(saves) : saves'[k] = saves[k]
        /\ saves'[Len(saves) + 1] = s
        /\ UNCHANGED <<data, diffs>>
    BY <1>3 DEF TakeSave, TypeOK
  <2>2. s.data_size = Len(data) /\ s.diffs_size = Len(diffs) OBVIOUS
  <2>3. \A j \in 1..Len(diffs) : diffs[j] <= Len(data)
    BY <1>0 DEF LogExact
  <2> HIDE DEF s
  <2>4. ASSUME NEW k \in 1..Len(saves')
        PROVE  /\ saves'[k].data_size <= Len(data)
               /\ saves'[k].diffs_size <= Len(diffs)
               /\ \A j \in 1..saves'[k].diffs_size : diffs[j] <= saves'[k].data_size
    <3>1. CASE k = Len(saves) + 1
      BY <1>0, <2>1, <2>2, <2>3, <3>1
    <3>2. CASE k # Len(saves) + 1
      <4>1. k \in 1..Len(saves) /\ saves'[k] = saves[k] BY <1>0, <2>1, <3>2
      <4>2. QED BY <4>1 DEF SavesNested
    <3>3. QED BY <3>1, <3>2
  <2>5. ASSUME NEW k \in 1..Len(saves'), NEW l \in 1..Len(saves'), k <= l
        PROVE  /\ saves'[k].data_size <= saves'[l].data_size
               /\ saves'[k].diffs_size <= saves'[l].diffs_size
    <3>1. CASE l = Len(saves) + 1
      BY <2>1, <2>2, <2>4, <3>1
    <3>2. CASE l # Len(saves) + 1
      <4>1. /\ k \in 1..Len(saves) /\ saves'[k] = saves[k]
            /\ l \in 1..Len(saves) /\ saves'[l] = saves[l]
        BY <1>0, <2>1, <2>5, <3>2
      <4>2. QED BY <2>5, <4>1 DEF SavesNested
    <3>3. QED BY <3>1, <3>2
  <2>6. QED BY <2>1, <2>4, <2>5 DEF SavesNested
<1>4. ASSUME NEW k \in 1..Len(saves), Restore(k) PROVE SavesNested'
  <2>1. /\ saves[k].data_size <= Len(data) /\ saves[k].diffs_size <= Len(diffs)
    BY DEF SavesNested
  <2>2. Len(data') = saves[k].data_size
    BY <1>0, <1>4 DEF Restore, Rewound
  <2>3. /\ Len(diffs') = saves[k].diffs_size
        /\ \A j \in 1..saves[k].diffs_size : diffs'[j] = diffs[j]
    BY <1>0, <1>4, <2>1 DEF Restore, TypeOK
  <2>4. Len(saves') = k /\ \A l \in 1..k : saves'[l] = saves[l]
    BY <1>0, <1>4 DEF Restore, TypeOK
  <2>5. ASSUME NEW l \in 1..k
        PROVE  /\ saves[l].data_size <= saves[k].data_size
               /\ saves[l].diffs_size <= saves[k].diffs_size
               /\ \A j \in 1..saves[l].diffs_size : diffs[j] <= saves[l].data_size
    BY <1>0 DEF SavesNested
  <2>6. ASSUME NEW l \in 1..k, NEW m \in 1..k, l <= m
        PROVE  /\ saves[l].data_size <= saves[m].data_size
               /\ saves[l].diffs_size <= saves[m].diffs_size
    BY <1>0, <2>6 DEF SavesNested
  <2>7. ASSUME NEW l \in 1..Len(saves')
        PROVE  /\ saves'[l].data_size <= Len(data')
               /\ saves'[l].diffs_size <= Len(diffs')
               /\ \A j \in 1..saves'[l].diffs_size : diffs'[j] <= saves'[l].data_size
    <3>1. l \in 1..k /\ l \in 1..Len(saves) /\ saves'[l] = saves[l] BY <1>0, <2>4
    <3>2. saves[l].diffs_size \in Nat /\ saves[k].diffs_size \in Nat BY <1>0, <3>1
    <3>3. saves'[l].data_size <= Len(data') /\ saves'[l].diffs_size <= Len(diffs')
      BY <2>2, <2>3, <2>5, <3>1
    <3>4. ASSUME NEW j \in 1..saves'[l].diffs_size PROVE diffs'[j] <= saves'[l].data_size
      <4>1. j \in 1..saves[l].diffs_size /\ j \in 1..saves[k].diffs_size
        BY <2>5, <3>1, <3>2
      <4>2. QED BY <2>3, <2>5, <3>1, <4>1
    <3>5. QED BY <3>3, <3>4
  <2>8. ASSUME NEW l \in 1..Len(saves'), NEW m \in 1..Len(saves'), l <= m
        PROVE  /\ saves'[l].data_size <= saves'[m].data_size
               /\ saves'[l].diffs_size <= saves'[m].diffs_size
    BY <2>4, <2>6, <2>8
  <2>9. QED BY <2>7, <2>8 DEF SavesNested
<1>5. CASE Drop
  <2>1. Len(saves) - 1 \in Nat
    BY <1>5, EmptySeq, LenProperties DEF Drop, TypeOK
  <2>2. /\ saves' = SubSeq(saves, 1, Len(saves) - 1)
        /\ UNCHANGED <<data, diffs>>
    BY <1>5 DEF Drop
  <2>3. /\ Len(saves') = Len(saves) - 1
        /\ \A l \in 1..Len(saves') : l \in 1..Len(saves) /\ saves'[l] = saves[l]
    <3> DEFINE n == Len(saves) - 1
    <3>1. \A l \in 1..n : l \in 1..Len(saves) BY <1>0
    <3>2. n \in Nat /\ saves' = SubSeq(saves, 1, n) BY <2>1, <2>2
    <3>3. n <= Len(saves) BY <1>0
    <3> HIDE DEF n
    <3>4. Len(saves') = n /\ \A l \in 1..n : saves'[l] = saves[l]
      BY <3>2, <3>1, ElementOfSeq, SubSeqProperties DEF TypeOK
    <3>5. QED BY <3>1, <3>4 DEF n
  <2>4. QED BY <2>2, <2>3 DEF SavesNested
<1>6. CASE UNCHANGED vars
  BY <1>6 DEF vars, SavesNested
<1>7. QED BY <1>1, <1>2, <1>3, <1>4, <1>5, <1>6 DEF Next
(* The three parts of the invariant are kept together: each needs the      *)
(* others.                                                                 *)
LEMMA InvStep == Inv /\ [Next]_vars => Inv'
  BY TypeStep, LogStep, NestStep DEF Inv

(***************************************************************************)
(* The vectors of array.h keep their types.                                *)
(***************************************************************************)
THEOREM TypeCorrect == Spec => []TypeOK
<1>1. Inv => TypeOK BY DEF Inv
<1>2. QED BY <1>1, InitInv, InvStep, PTL DEF Spec

(***************************************************************************)
(* The log of RewindArray lists the cells that are set, each once.         *)
(***************************************************************************)
THEOREM LogCorrect == Spec => []LogExact
<1>1. Inv => LogExact BY DEF Inv
<1>2. QED BY <1>1, InitInv, InvStep, PTL DEF Spec

(***************************************************************************)
(* The saves of RewindArray are nested, so restore() stays within its      *)
(* vectors.                                                                *)
(***************************************************************************)
THEOREM SavesCorrect == Spec => []SavesNested
<1>1. Inv => SavesNested BY DEF Inv
<1>2. QED BY <1>1, InitInv, InvStep, PTL DEF Spec
-----------------------------------------------------------------------------
(***************************************************************************)
(* The refinement.  First what Inv says of one save.                       *)
(***************************************************************************)
LEMMA SaveFacts ==
  ASSUME Inv, NEW k \in 1..Len(saves)
  PROVE  /\ Len(data) \in Nat /\ Len(diffs) \in Nat /\ Len(saves) \in Nat
         /\ saves[k] \in Save
         /\ saves[k].data_size \in Nat /\ saves[k].data_size <= Len(data)
         /\ saves[k].diffs_size \in Nat /\ saves[k].diffs_size <= Len(diffs)
         /\ \A j \in 1..Len(diffs) : diffs[j] \in 1..Len(data)
         /\ \A j \in 1..saves[k].diffs_size : diffs[j] \in 1..saves[k].data_size
<1>1. Len(data) \in Nat /\ Len(diffs) \in Nat /\ Len(saves) \in Nat
  BY LenProperties DEF Inv, TypeOK
<1>2. saves[k] \in Save BY ElementOfSeq DEF Inv, TypeOK
<1>3. saves[k].data_size \in Nat /\ saves[k].diffs_size \in Nat BY <1>2 DEF Save
<1>4. saves[k].data_size <= Len(data) /\ saves[k].diffs_size <= Len(diffs)
  BY DEF Inv, SavesNested
<1>5. \A j \in 1..Len(diffs) : diffs[j] \in 1..Len(data) BY DEF Inv, LogExact
<1>6. \A j \in 1..saves[k].diffs_size : diffs[j] <= saves[k].data_size
  BY DEF Inv, SavesNested
<1>7. QED BY <1>1, <1>2, <1>3, <1>4, <1>5, <1>6

(***************************************************************************)
(* A step that keeps the log so far and the cells it names keeps every     *)
(* copy.                                                                   *)
(***************************************************************************)
LEMMA CopiesStable ==
  ASSUME Inv, UNCHANGED saves,
         \A j \in 1..Len(diffs) : diffs'[j] = diffs[j] /\ data'[diffs[j]] = data[diffs[j]]
  PROVE  UNCHANGED copies
<1>1. ASSUME NEW k \in 1..Len(saves) PROVE CopyOf(saves[k])' = CopyOf(saves[k])
  <2>1. \A j \in 1..saves[k].diffs_size : j \in 1..Len(diffs) BY SaveFacts
  <2>2. \A j \in 1..saves[k].diffs_size :
          diffs'[j] = diffs[j] /\ data'[diffs[j]] = data[diffs[j]]
    BY <2>1
  <2>3. QED BY <2>2 DEF CopyOf
<1>2. QED BY <1>1 DEF copies

(* resize() is the abstract resize: new cells belong to no copy.           *)
LEMMA ResizeCopies ==
  ASSUME Inv, NEW n \in 0..MaxSize, Resize(n) PROVE Copies!Resize(n)
<1>1. n \in Nat /\ Len(data) \in Nat /\ Len(data) <= n
  BY LenProperties, ArrayAssumption DEF Resize, Inv, TypeOK
<1>2. \A i \in 1..Len(data) : data'[i] = data[i]
  BY <1>1 DEF Resize
<1>3. \A j \in 1..Len(diffs) : diffs[j] \in 1..Len(data) BY DEF Inv, LogExact
<1>4. UNCHANGED copies BY <1>2, <1>3, CopiesStable DEF Resize
<1>5. QED BY <1>4 DEF Resize, Copies!Resize

(* set() is the abstract set: a cell that was empty is in no log before a  *)
(* save.                                                                   *)
LEMMA SetCopies ==
  ASSUME Inv, NEW i \in 1..Len(data), NEW e \in Elem, Set(i, e) PROVE Copies!Set(i, e)
<1>1. /\ \A m \in 1..Len(data) : data'[m] = IF m = i THEN e ELSE data[m]
      /\ \A j \in 1..Len(diffs) : diffs'[j] = diffs[j]
      /\ UNCHANGED saves
  BY DEF Set, Inv, TypeOK
<1>2. \A j \in 1..Len(diffs) : diffs[j] \in 1..Len(data) /\ diffs[j] # i
  BY DEF Set, Inv, LogExact
<1>3. UNCHANGED copies BY <1>1, <1>2, CopiesStable
<1>4. QED BY <1>3 DEF Set, Copies!Set

(***************************************************************************)
(* A fresh save stands for the current array, because the log is exact.    *)
(***************************************************************************)
LEMMA TakeSaveCopies == ASSUME Inv, TakeSave PROVE Copies!TakeSave
<1> DEFINE s == [data_size |-> Len(data), diffs_size |-> Len(diffs)]
<1>1. /\ saves' = Append(saves, s) /\ UNCHANGED <<data, diffs>>
  BY DEF TakeSave
<1>2. CopyOf(s) = data
  <2>1. CopyOf(s) = [i \in 1..Len(data) |->
                      IF \E j \in 1..Len(diffs) : diffs[j] = i THEN data[i] ELSE Nothing]
    BY DEF CopyOf
  <2>2. \A i \in 1..Len(data) :
          (IF \E j \in 1..Len(diffs) : diffs[j] = i THEN data[i] ELSE Nothing) = data[i]
    BY DEF Inv, LogExact
  <2>3. data = [i \in 1..Len(data) |-> data[i]] BY LenProperties DEF Inv, TypeOK
  <2>4. QED BY <2>1, <2>2, <2>3
<1>3. s \in Save BY LenProperties DEF Save, Inv, TypeOK
<1>4. /\ Len(saves) \in Nat /\ Len(saves') = Len(saves) + 1
      /\ \A k \in 1..Len(saves) : saves'[k] = saves[k]
      /\ saves'[Len(saves) + 1] = s
  BY <1>1, <1>3, AppendProperties, LenProperties DEF Inv, TypeOK
<1> HIDE DEF s
<1>5. copies' = [k \in 1..Len(saves) + 1 |-> IF k = Len(saves) + 1 THEN data ELSE copies[k]]
  <2>1. ASSUME NEW k \in 1..Len(saves) + 1
        PROVE  CopyOf(saves[k])' = IF k = Len(saves) + 1 THEN data ELSE copies[k]
    <3>1. CASE k = Len(saves) + 1
      <4>1. CopyOf(saves[k])' = CopyOf(s) BY <1>1, <1>4, <3>1 DEF CopyOf
      <4>2. QED BY <1>2, <3>1, <4>1
    <3>2. CASE k # Len(saves) + 1
      <4>1. k \in 1..Len(saves) BY <1>4, <3>2
      <4>2. CopyOf(saves[k])' = CopyOf(saves[k]) BY <1>1, <1>4, <4>1 DEF CopyOf
      <4>3. QED BY <3>2, <4>1, <4>2 DEF copies
    <3>3. QED BY <3>1, <3>2
  <2>2. QED BY <1>4, <2>1 DEF copies
<1>6. copies' = Append(copies, data)
  <2> DEFINE T == {CopyOf(saves[k]) : k \in 1..Len(saves)} \cup {data}
  <2>1. copies \in [1..Len(saves) -> T]
    BY DEF copies
  <2> HIDE DEF T
  <2>2. copies \in Seq(T) /\ Len(copies) = Len(saves)
    BY <1>4, <2>1, FunIsSeq
  <2>3. data \in T BY DEF T
  <2>4. /\ Append(copies, data) \in Seq(T)
        /\ Len(Append(copies, data)) = Len(saves) + 1
        /\ \A k \in 1..Len(saves) : Append(copies, data)[k] = copies[k]
        /\ Append(copies, data)[Len(saves) + 1] = data
    BY <2>2, <2>3, AppendProperties
  <2>5. Append(copies, data) \in [1..Len(saves) + 1 -> T]
    BY <2>4, LenProperties
  <2>6. Append(copies, data) =
          [k \in 1..Len(saves) + 1 |-> IF k = Len(saves) + 1 THEN data ELSE copies[k]]
    <3>1. \A k \in 1..Len(saves) + 1 : k = Len(saves) + 1 \/ k \in 1..Len(saves)
      BY <1>4
    <3>2. \A k \in 1..Len(saves) + 1 : Append(copies, data)[k] =
            IF k = Len(saves) + 1 THEN data ELSE copies[k]
      BY <2>4, <3>1
    <3> HIDE DEF copies
    <3>3. QED BY <2>5, <3>2
  <2>7. QED BY <1>5, <2>6
<1>7. QED BY <1>1, <1>6 DEF Copies!TakeSave

(***************************************************************************)
(* restore() brings the copy back and keeps the earlier copies.            *)
(***************************************************************************)
LEMMA RestoreCopies ==
  ASSUME Inv, NEW k \in 1..Len(saves), Restore(k) PROVE Copies!Restore(k)
<1> DEFINE s == saves[k]
<1>1. /\ Len(data) \in Nat /\ Len(diffs) \in Nat /\ Len(saves) \in Nat
      /\ s.data_size \in Nat /\ s.data_size <= Len(data)
      /\ s.diffs_size \in Nat /\ s.diffs_size <= Len(diffs)
      /\ \A j \in 1..Len(diffs) : diffs[j] \in 1..Len(data)
      /\ \A j \in 1..s.diffs_size : diffs[j] \in 1..s.data_size
  BY SaveFacts
<1>2. data' = Rewound(s) /\ diffs' = SubSeq(diffs, 1, s.diffs_size) /\ saves' = SubSeq(saves, 1, k)
  BY DEF Restore
<1>3. /\ Len(diffs') = s.diffs_size
      /\ \A j \in 1..s.diffs_size : diffs'[j] = diffs[j]
      /\ Len(saves') = k
      /\ \A l \in 1..k : saves'[l] = saves[l]
  BY <1>1, <1>2 DEF Inv, TypeOK
<1>4. Rewound(s) = CopyOf(s)
  <2>1. ASSUME NEW i \in 1..s.data_size
        PROVE  (IF i \in Undone(s) THEN Nothing ELSE data[i])
               = (IF \E j \in 1..s.diffs_size : diffs[j] = i THEN data[i] ELSE Nothing)
    <3>1. CASE \E j \in 1..s.diffs_size : diffs[j] = i
      <4>1. PICK j \in 1..s.diffs_size : diffs[j] = i BY <3>1
      <4>2. ASSUME NEW l \in s.diffs_size + 1 .. Len(diffs) PROVE diffs[l] # i
        <5>1. l \in 1..Len(diffs) /\ j \in 1..Len(diffs) /\ l # j BY <1>1
        <5>2. QED BY <4>1, <5>1 DEF Inv, LogExact
      <4>3. i \notin Undone(s) BY <4>2 DEF Undone
      <4>4. QED BY <3>1, <4>3
    <3>2. CASE ~ \E j \in 1..s.diffs_size : diffs[j] = i
      <4>1. CASE i \in Undone(s) BY <3>2, <4>1
      <4>2. CASE i \notin Undone(s)
        <5>1. \A l \in 1..Len(diffs) : diffs[l] # i
          BY <1>1, <3>2, <4>2 DEF Undone
        <5>2. i \in 1..Len(data) BY <1>1
        <5>3. data[i] = Nothing BY <5>1, <5>2 DEF Inv, LogExact
        <5>4. QED BY <3>2, <4>2, <5>3
      <4>3. QED BY <4>1, <4>2
    <3>3. QED BY <3>1, <3>2
  <2>2. QED BY <2>1 DEF Rewound, CopyOf
<1>5. ASSUME NEW l \in 1..k PROVE CopyOf(saves[l])' = copies[l]
  <2>1. l \in 1..Len(saves) /\ l <= k BY <1>1
  <2>2. /\ saves[l].data_size \in Nat /\ saves[l].data_size <= s.data_size
        /\ saves[l].diffs_size \in Nat /\ saves[l].diffs_size <= s.diffs_size
        /\ \A j \in 1..saves[l].diffs_size : diffs[j] \in 1..saves[l].data_size
    BY <2>1, SaveFacts DEF Inv, SavesNested
  <2>3. \A j \in 1..saves[l].diffs_size : diffs'[j] = diffs[j]
    BY <1>1, <1>3, <2>2
  <2>4. ASSUME NEW j \in 1..saves[l].diffs_size PROVE data'[diffs[j]] = data[diffs[j]]
    <3>1. /\ diffs[j] \in 1..s.data_size /\ j \in 1..s.diffs_size
      BY <1>1, <2>2
    <3>2. data'[diffs[j]] = CopyOf(s)[diffs[j]] BY <1>2, <1>4
    <3>3. QED BY <3>1, <3>2 DEF CopyOf
  <2>5. saves'[l] = saves[l] BY <1>3
  <2>6. CopyOf(saves[l])' = CopyOf(saves[l])
    BY <2>3, <2>4, <2>5 DEF CopyOf
  <2>7. QED BY <2>1, <2>6 DEF copies
<1>6. copies' = SubSeq(copies, 1, k)
  <2>1. copies \in [1..Len(saves) -> {CopyOf(saves[l]) : l \in 1..Len(saves)}]
    BY DEF copies
  <2>2. copies \in Seq({CopyOf(saves[l]) : l \in 1..Len(saves)}) /\ Len(copies) = Len(saves)
    BY <1>1, <2>1, FunIsSeq
  <2>3. SubSeq(copies, 1, k) = [l \in 1..k |-> copies[l]]
    BY <1>1, <2>2
  <2>4. copies' = [l \in 1..k |-> copies[l]]
    BY <1>3, <1>5 DEF copies
  <2>5. QED BY <2>3, <2>4
<1>7. data' = copies[k] BY <1>2, <1>4 DEF copies
<1>8. QED BY <1>6, <1>7 DEF Copies!Restore

(* Giving up a save is giving up the last copy.                            *)
LEMMA DropCopies == ASSUME Inv, Drop PROVE Copies!Drop
<1>1. /\ Len(saves) \in Nat /\ Len(saves) - 1 \in Nat /\ UNCHANGED <<data, diffs>>
      /\ saves' = SubSeq(saves, 1, Len(saves) - 1)
  BY EmptySeq, LenProperties DEF Drop, Inv, TypeOK
<1> DEFINE n == Len(saves) - 1
<1>2. n \in Nat /\ n <= Len(saves) /\ (\A l \in 1..n : l \in 1..Len(saves)) BY <1>1
<1>3. Len(saves') = n /\ \A l \in 1..n : saves'[l] = saves[l]
  <2>1. saves' = SubSeq(saves, 1, n) BY <1>1
  <2> HIDE DEF n
  <2>2. QED BY <1>2, <2>1, ElementOfSeq, SubSeqProperties DEF Inv, TypeOK
<1>4. copies \in Seq({CopyOf(saves[l]) : l \in 1..Len(saves)}) /\ Len(copies) = Len(saves)
  BY <1>1, FunIsSeq DEF copies
<1>5. copies' = [l \in 1..n |-> copies[l]]
  <2>1. \A l \in 1..n : CopyOf(saves[l])' = CopyOf(saves[l])
    BY <1>1, <1>3 DEF CopyOf
  <2>2. QED BY <1>2, <1>3, <2>1 DEF copies
<1>6. SubSeq(copies, 1, n) = [l \in 1..n |-> copies[l]]
  <2> HIDE DEF n
  <2>1. QED BY <1>2, <1>4
<1>7. copies # <<>> BY <1>1, <1>4, EmptySeq
<1>8. QED BY <1>1, <1>4, <1>5, <1>6, <1>7 DEF Copies!Drop

(***************************************************************************)
(* The log implements whole copies: every call of array.h is the           *)
(* corresponding step of Snapshots.                                        *)
(***************************************************************************)
THEOREM Refinement == Spec => ImplementsSnapshots
<1>1. Init => Copies!Init
  <2>1. ASSUME Init PROVE copies = <<>>
    BY <2>1 DEF Init, copies
  <2>2. QED BY <2>1 DEF Init, Copies!Init
<1>2. Inv /\ [Next]_vars => [Copies!Next]_(Copies!vars)
  <2> SUFFICES ASSUME Inv, [Next]_vars PROVE [Copies!Next]_(Copies!vars)
    OBVIOUS
  <2>0. Len(copies) = Len(saves) /\ Len(saves) \in Nat
    <3>1. Len(saves) \in Nat BY LenProperties DEF Inv, TypeOK
    <3>2. QED BY <3>1, FunIsSeq DEF copies
  <2>1. ASSUME NEW n \in 0..MaxSize, Resize(n) PROVE Copies!Next
    BY <2>1, ResizeCopies DEF Copies!Next
  <2>2. ASSUME NEW i \in 1..Len(data), NEW e \in Elem, Set(i, e) PROVE Copies!Next
    BY <2>2, SetCopies DEF Copies!Next
  <2>3. CASE TakeSave
    BY <2>3, TakeSaveCopies DEF Copies!Next
  <2>4. ASSUME NEW k \in 1..Len(saves), Restore(k) PROVE Copies!Next
    BY <2>0, <2>4, RestoreCopies DEF Copies!Next
  <2>5. CASE Drop
    BY <2>5, DropCopies DEF Copies!Next
  <2>6. CASE UNCHANGED vars
    BY <2>6 DEF vars, Copies!vars, copies, CopyOf
  <2>7. QED BY <2>1, <2>2, <2>3, <2>4, <2>5, <2>6 DEF Next
<1>3. QED BY <1>1, <1>2, InitInv, InvStep, PTL DEF Spec, Copies!Spec, ImplementsSnapshots
=============================================================================
