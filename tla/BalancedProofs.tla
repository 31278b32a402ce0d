--------------------------- MODULE BalancedProofs ---------------------------
(***************************************************************************)
(* For every set of tasks that fit (FrameFits), every limit and both       *)
(* values of cut:                                                          *)
(*   - the type invariant of Balanced;                                     *)
(*   - RoomLeft: the unsigned subtractions of Div::step never wrap and the *)
(*     size limit holds;                                                   *)
(*   - NoAlias: the comparison of addresses in List::pointer_equal is one  *)
(*     of lists, and no rewind of the allocator frees a node in use;       *)
(*   - Committed: what cut pops from the top of the stack is all there is  *)
(*     to be given up.                                                     *)
(* The first two follow from IInv, the others from it and Laid, which says *)
(* how the saved lists lie in memory.                                      *)
(***************************************************************************)
EXTENDS Schedule, SequenceTheorems, WellFoundedInduction, TLAPS

(***************************************************************************)
(* Facts about numbers and sequences.                                      *)
(***************************************************************************)
LEMMA NatMin ==
  ASSUME NEW T \in SUBSET Nat, T # {} PROVE \E x \in T : \A y \in T : x <= y
<1>1. PICK x \in T : \A y \in T : ~ (<<y, x>> \in OpToRel(<, Nat))
  BY WFMin, NatLessThanWellFounded
<1>2. \A y \in T : ~ (y < x)
  BY <1>1 DEF OpToRel
<1>3. QED BY <1>2

(* A function on 1..n is a sequence of length n.                           *)
LEMMA FunIsSeq ==
  ASSUME NEW S, NEW n \in Nat, NEW f \in [1..n -> S] PROVE f \in Seq(S) /\ Len(f) = n
  OBVIOUS

(* A set of numbers up to n that has 0 in it has a greatest one.           *)
LEMMA NatMax ==
  ASSUME NEW n \in Nat, NEW K \in SUBSET (0..n), 0 \in K
  PROVE  \E k \in K : \A j \in k + 1 .. n : j \notin K
<1> DEFINE T == {n - k : k \in K}
<1>1. T \in SUBSET Nat /\ T # {} OBVIOUS
<1>2. PICK x \in T : \A y \in T : x <= y BY <1>1, NatMin
<1>3. PICK k \in K : x = n - k BY <1>2
<1>4. ASSUME NEW j \in k + 1 .. n, j \in K PROVE FALSE
  <2>1. n - j \in T BY <1>4
  <2>2. x <= n - j BY <1>2, <2>1
  <2>3. QED BY <1>3, <1>4, <2>2
<1>5. QED BY <1>4

(***************************************************************************)
(* Cut only removes saves from the top of the stack, and stops at one that *)
(* does not lead back to cont.                                             *)
(***************************************************************************)
LEMMA KeptPrefix ==
  ASSUME NEW svs \in Seq(Save), NEW cont
  PROVE  \E k \in 0..Len(svs) :
           /\ Kept(svs, cont) = SubSeq(svs, 1, k)
           /\ cut => k = 0 \/ ~ Through(svs[k].cont, cont)
<1>1. CASE ~cut
  <2>1. Len(svs) \in 0..Len(svs) /\ Kept(svs, cont) = SubSeq(svs, 1, Len(svs))
    <3> HIDE DEF Save
    <3>1. QED BY <1>1, SubSeqFull, LenProperties DEF Kept
  <2>2. QED BY <1>1, <2>1
<1>2. CASE cut
  <2> DEFINE Stops(k) == k = 0 \/ ~ Through(svs[k].cont, cont)
             K == {k \in 0..Len(svs) : Stops(k)}
             Chosen(k) == Stops(k) /\ \A j \in k + 1 .. Len(svs) : Through(svs[j].cont, cont)
  <2>0. Len(svs) \in Nat /\ K \in SUBSET (0..Len(svs)) /\ 0 \in K
    OBVIOUS
  <2>1. \E k \in K : \A j \in k + 1 .. Len(svs) : j \notin K
    <3> HIDE DEF K
    <3>1. QED BY <2>0, NatMax
  <2> PICK k \in K : \A j \in k + 1 .. Len(svs) : j \notin K
    BY <2>1
  <2>2. k \in 0..Len(svs) /\ \A j \in k + 1 .. Len(svs) : j \in 0..Len(svs) /\ j # 0
    BY <2>0
  <2>3. Chosen(k) BY <2>2
  <2>4. \E i \in 0..Len(svs) : Chosen(i) BY <2>2, <2>3
  <2> DEFINE c == CHOOSE i \in 0..Len(svs) : Chosen(i)
  <2>5. c \in 0..Len(svs) /\ Chosen(c) BY <2>4
  <2>6. Kept(svs, cont) = SubSeq(svs, 1, c)
    BY <1>2 DEF Kept
  <2>7. c = 0 \/ ~ Through(svs[c].cont, cont) BY <2>5
  <2> HIDE DEF c
  <2>8. QED BY <2>5, <2>6, <2>7
<1>3. QED BY <1>1, <1>2

(***************************************************************************)
(* The strengthening of RoomLeft.  Bounds says what RoomLeft says of one   *)
(* continuation: the maxima lie between m and l and do not decrease.       *)
(* Quiet and HeadFits say that only the first task may need nodes before   *)
(* it looks at the limit, and that there is room for them: that is what    *)
(* FrameFits asks for when the task runs.                                  *)
(***************************************************************************)
Bounded(sp) == sp.kind # "checkmin"
Bounds(c, m, l) ==
  /\ \A p \in 1..Len(c) : Bounded(c[p].spec) => m <= c[p].spec.max /\ c[p].spec.max <= l
  /\ \A p, q \in 1..Len(c) :
       p < q /\ Bounded(c[p].spec) /\ Bounded(c[q].spec) => c[p].spec.max <= c[q].spec.max

QuietSpec(sp) ==
  /\ sp.kind = "task" => Need(sp.task) = 0
  /\ sp.kind = "taskset" => \A i \in 1..Len(sp.tasks) : Need(sp.tasks[i]) = 0
Quiet(c) == \A p \in 1..Len(c) : QuietSpec(c[p].spec)
HeadFits(sp, n) ==
  \/ QuietSpec(sp)
  \/ sp.kind = "task" /\ n + Need(sp.task) <= sp.max

Good(c, n, l) ==
  /\ n <= l
  /\ Bounds(c, n, l)
  /\ \A p \in 2..Len(c) : QuietSpec(c[p].spec)
  /\ c # <<>> => HeadFits(c[1].spec, n)
GoodSave(s, l) == Good(s.cont, s.ss.nodes_used, l)
GoodStack(svs, l) == svs \in Seq(Save) /\ \A i \in 1..Len(svs) : GoodSave(svs[i], l)

IInv == TypeOK /\ GoodStack(saves, limit)

(***************************************************************************)
(* Continuations: what List::add and the tail of a list do to Bounds and   *)
(* Quiet.                                                                  *)
(***************************************************************************)
Node == [at : Nat, spec : Spec_]

(* The nodes of a continuation are nodes, and hold specs.                  *)
LEMMA ContElement ==
  ASSUME NEW c \in Cont, NEW p \in 1..Len(c) PROVE c[p] \in Node /\ c[p].spec \in Spec_
<1>1. c \in Seq(Node) BY DEF Cont, Node
<1>2. c[p] \in Node
  <2> HIDE DEF Node
  <2>1. QED BY <1>1, ElementOfSeq
<1>3. QED BY <1>2 DEF Node

(* The three kinds of specs (Div::Spec) and the types of their fields.     *)
LEMMA SpecKinds ==
  ASSUME NEW sp \in Spec_
  PROVE  /\ sp.kind \in {"checkmin", "task", "taskset"}
         /\ sp.kind = "checkmin" => sp.min \in Nat
         /\ sp.kind = "task" => sp.task \in Task /\ sp.min \in Nat /\ sp.max \in Nat
         /\ sp.kind = "taskset" => sp.tasks \in Seq(Task) /\ sp.max \in Nat
         /\ Bounded(sp) => sp.max \in Nat
  BY DEF Spec_, CheckMin, OneTask, TaskSet, Bounded

(* List::add puts one node in front and leaves the others alone.           *)
LEMMA AddList ==
  ASSUME NEW c \in Cont, NEW sp \in Spec_, NEW b \in Nat
  PROVE  /\ Add(c, sp, b) \in Cont
         /\ Add(c, sp, b) # <<>>
         /\ Len(Add(c, sp, b)) = Len(c) + 1
         /\ Add(c, sp, b)[1].spec = sp
         /\ \A p \in 2..Len(c) + 1 : p - 1 \in 1..Len(c) /\ Add(c, sp, b)[p] = c[p - 1]
<1> DEFINE node == [at |-> b, spec |-> sp]
<1>1. node \in Node BY DEF Node
<1>2. c \in Seq(Node) /\ Cont = Seq(Node) BY DEF Cont, Node
<1>3. Add(c, sp, b) = <<node>> \o c BY DEF Add
<1>4. node.spec = sp OBVIOUS
<1> HIDE DEF node, Node
<1>5. <<node>> \in Seq(Node) /\ Len(<<node>>) = 1 /\ <<node>>[1] = node BY <1>1
<1>6. /\ <<node>> \o c \in Seq(Node)
      /\ Len(<<node>> \o c) = 1 + Len(c)
      /\ \A i \in 1 .. 1 + Len(c) :
           (<<node>> \o c)[i] = IF i <= 1 THEN <<node>>[i] ELSE c[i - 1]
  BY <1>2, <1>5, ConcatProperties
<1>7. Len(c) \in Nat BY <1>2, LenProperties
<1>8. Add(c, sp, b)[1] = node BY <1>3, <1>5, <1>6, <1>7
<1>9. \A p \in 2..Len(c) + 1 : p - 1 \in 1..Len(c) /\ Add(c, sp, b)[p] = c[p - 1]
  BY <1>3, <1>6, <1>7
<1>10. Add(c, sp, b) # <<>> BY <1>3, <1>6, <1>7
<1>11. QED BY <1>2, <1>3, <1>4, <1>6, <1>7, <1>8, <1>9, <1>10

(* A spec in front whose maximum is at most those behind it keeps the      *)
(* maxima in order.                                                        *)
LEMMA AddBounds ==
  ASSUME NEW c \in Cont, NEW sp \in Spec_, NEW b \in Nat, NEW n \in Nat, NEW l \in Nat,
         Bounded(sp) => n <= sp.max /\ sp.max <= l /\ Bounds(c, sp.max, l),
         Bounds(c, n, l)
  PROVE  Bounds(Add(c, sp, b), n, l)
<1> DEFINE d == Add(c, sp, b)
<1>1. /\ d \in Cont /\ Len(d) = Len(c) + 1 /\ Len(c) \in Nat
      /\ d[1].spec = sp
      /\ \A p \in 2..Len(c) + 1 : p - 1 \in 1..Len(c) /\ d[p] = c[p - 1]
  BY AddList, LenProperties DEF Cont
<1>2. \A p \in 1..Len(d) : p = 1 \/ p \in 2..Len(c) + 1 BY <1>1
<1> HIDE DEF d
<1>3. ASSUME NEW p \in 1..Len(d), Bounded(d[p].spec)
      PROVE n <= d[p].spec.max /\ d[p].spec.max <= l
  <2>1. CASE p = 1 BY <2>1, <1>1, <1>3
  <2>2. CASE p \in 2..Len(c) + 1 BY <2>2, <1>1, <1>3 DEF Bounds
  <2>3. QED BY <1>2, <2>1, <2>2
<1>4. ASSUME NEW p \in 1..Len(d), NEW q \in 1..Len(d), p < q,
             Bounded(d[p].spec), Bounded(d[q].spec)
      PROVE d[p].spec.max <= d[q].spec.max
  <2>1. q \in 2..Len(c) + 1 /\ q - 1 \in 1..Len(c) /\ d[q] = c[q - 1]
    BY <1>1, <1>2, <1>4
  <2>2. CASE p = 1 BY <2>1, <2>2, <1>1, <1>4 DEF Bounds
  <2>3. CASE p \in 2..Len(c) + 1
    <3>1. p - 1 \in 1..Len(c) /\ d[p] = c[p - 1] /\ p - 1 < q - 1
      BY <2>1, <2>3, <1>1, <1>4
    <3>2. QED BY <2>1, <3>1, <1>4 DEF Bounds
  <2>4. QED BY <1>2, <2>2, <2>3
<1>5. QED BY <1>3, <1>4 DEF Bounds, d

(* Maxima that respect m nodes respect fewer.                              *)
LEMMA BoundsWeaken ==
  ASSUME NEW c \in Cont, NEW m \in Nat, NEW n \in Nat, NEW l \in Nat, n <= m, Bounds(c, m, l)
  PROVE  Bounds(c, n, l)
<1>1. ASSUME NEW p \in 1..Len(c), Bounded(c[p].spec)
      PROVE n <= c[p].spec.max /\ c[p].spec.max <= l
  <2>1. c[p].spec.max \in Nat BY <1>1, ContElement, SpecKinds
  <2>2. QED BY <1>1, <2>1 DEF Bounds
<1>2. QED BY <1>1 DEF Bounds

(* Adding a spec that needs no nodes in advance leaves a list quiet.       *)
LEMMA AddQuiet ==
  ASSUME NEW c \in Cont, NEW sp \in Spec_, NEW b \in Nat, Quiet(c), QuietSpec(sp)
  PROVE  Quiet(Add(c, sp, b))
<1>1. Len(c) \in Nat BY LenProperties DEF Cont
<1>2. \A p \in 1..Len(Add(c, sp, b)) : p = 1 \/ p \in 2..Len(c) + 1 BY <1>1, AddList
<1> DEFINE d == Add(c, sp, b)
<1>3. /\ d[1].spec = sp
      /\ \A p \in 2..Len(c) + 1 : p - 1 \in 1..Len(c) /\ d[p] = c[p - 1]
  BY AddList
<1>4. \A p \in 1..Len(d) : p = 1 \/ p \in 2..Len(c) + 1 BY <1>2
<1> HIDE DEF d
<1>5. ASSUME NEW p \in 1..Len(d) PROVE QuietSpec(d[p].spec)
  <2>1. CASE p = 1 BY <2>1, <1>3
  <2>2. CASE p \in 2..Len(c) + 1 BY <2>2, <1>3 DEF Quiet
  <2>3. QED BY <1>4, <2>1, <2>2
<1>6. QED BY <1>5 DEF Quiet, d

(* A list is good when its first spec fits and the others are quiet.       *)
LEMMA AddGood ==
  ASSUME NEW c \in Cont, NEW sp \in Spec_, NEW b \in Nat, NEW n \in Nat, NEW l \in Nat,
         n <= l, Quiet(c), HeadFits(sp, n), Bounds(Add(c, sp, b), n, l)
  PROVE  Good(Add(c, sp, b), n, l)
<1> DEFINE d == Add(c, sp, b)
<1>1. /\ Len(d) = Len(c) + 1 /\ d[1].spec = sp
      /\ \A p \in 2..Len(c) + 1 : p - 1 \in 1..Len(c) /\ d[p] = c[p - 1]
  BY AddList
<1>2. Bounds(d, n, l) OBVIOUS
<1> HIDE DEF d
<1>3. \A p \in 2..Len(d) : QuietSpec(d[p].spec) BY <1>1 DEF Quiet
<1>4. HeadFits(d[1].spec, n) BY <1>1
<1>5. QED BY <1>2, <1>3, <1>4 DEF Good, d

(* So is a list of quiet specs alone.                                      *)
LEMMA QuietGood ==
  ASSUME NEW c \in Cont, NEW n \in Nat, NEW l \in Nat, n <= l, Quiet(c), Bounds(c, n, l)
  PROVE  Good(c, n, l)
<1>1. Len(c) \in Nat /\ (c # <<>> => Len(c) > 0) BY LenProperties, EmptySeq DEF Cont
<1>2. QED BY <1>1 DEF Good, Quiet, HeadFits

(* What a good continuation says of its first spec and of the rest: step() *)
(* works on these.                                                         *)
LEMMA GoodParts ==
  ASSUME NEW c \in Cont, c # <<>>, NEW n \in Nat, NEW l \in Nat, Good(c, n, l)
  PROVE  /\ Head(c).spec \in Spec_ /\ Tail(c) \in Cont
         /\ HeadFits(Head(c).spec, n)
         /\ Quiet(Tail(c)) /\ Bounds(Tail(c), n, l)
         /\ Bounded(Head(c).spec) =>
              /\ n <= Head(c).spec.max /\ Head(c).spec.max <= l
              /\ Bounds(Tail(c), Head(c).spec.max, l)
<1> DEFINE t == Tail(c)
           h == Head(c).spec
<1>1. c \in Seq(Node) BY DEF Cont, Node
<1>2. Len(c) \in Nat \ {0} BY <1>1, EmptySeq
<1>3. /\ t \in Seq(Node) /\ Len(t) = Len(c) - 1 /\ Head(c) = c[1]
      /\ \A p \in 1..Len(t) : t[p] = c[p + 1]
  <2> HIDE DEF Node
  <2>1. t \in Seq(Node) /\ Len(t) = Len(c) - 1 BY <1>1, HeadTailProperties
  <2>2. Head(c) = c[1] BY <1>1
  <2>3. \A p \in 1..Len(t) : t[p] = c[p + 1] BY <1>1, <1>2, <2>1, HeadTailProperties
  <2>4. QED BY <2>1, <2>2, <2>3
<1>4. t \in Cont BY <1>3 DEF Cont, Node
<1>5. c[1] \in Node /\ c[1].spec \in Spec_ BY <1>2, ContElement
<1>6. \A p \in 1..Len(t) : p + 1 \in 2..Len(c) /\ p + 1 \in 1..Len(c) BY <1>2, <1>3
<1> HIDE DEF t
<1>7. h \in Spec_ /\ h = c[1].spec BY <1>3, <1>5
<1> HIDE DEF h
<1>8. HeadFits(h, n) BY <1>7 DEF Good
<1>9. Quiet(t) BY <1>3, <1>6 DEF Good, Quiet
<1>10. Bounds(t, n, l)
  <2>1. ASSUME NEW p \in 1..Len(t), Bounded(t[p].spec)
        PROVE n <= t[p].spec.max /\ t[p].spec.max <= l
    BY <1>3, <1>6, <2>1 DEF Good, Bounds
  <2>2. ASSUME NEW p \in 1..Len(t), NEW q \in 1..Len(t), p < q,
               Bounded(t[p].spec), Bounded(t[q].spec)
        PROVE t[p].spec.max <= t[q].spec.max
    <3>1. p + 1 < q + 1 BY <2>2
    <3>2. QED BY <1>3, <1>6, <2>2, <3>1 DEF Good, Bounds
  <2>3. QED BY <2>1, <2>2 DEF Bounds
<1>11. ASSUME Bounded(h)
       PROVE n <= h.max /\ h.max <= l /\ Bounds(t, h.max, l)
  <2>1. 1 \in 1..Len(c) BY <1>2
  <2>2. n <= h.max /\ h.max <= l BY <1>7, <1>11, <2>1 DEF Good, Bounds
  <2>3. ASSUME NEW p \in 1..Len(t), Bounded(t[p].spec)
        PROVE h.max <= t[p].spec.max /\ t[p].spec.max <= l
    <3>1. 1 < p + 1 BY <2>3
    <3>2. h.max <= t[p].spec.max BY <1>3, <1>6, <1>7, <1>11, <2>1, <2>3, <3>1 DEF Good, Bounds
    <3>3. QED BY <1>10, <2>3, <3>2 DEF Bounds
  <2>4. QED BY <1>10, <2>2, <2>3 DEF Bounds
<1>12. QED BY <1>4, <1>7, <1>8, <1>9, <1>10, <1>11 DEF t, h

(***************************************************************************)
(* Stacks: what the pops of cut and a new save do to GoodStack.            *)
(***************************************************************************)
LEMMA GoodPrefix ==
  ASSUME NEW svs, NEW l, GoodStack(svs, l), NEW k \in 0..Len(svs)
  PROVE  GoodStack(SubSeq(svs, 1, k), l)
<1>1. svs \in Seq(Save) /\ Len(svs) \in Nat BY LenProperties DEF GoodStack
<1> HIDE DEF Save
<1>2. \A i \in 1..k : svs[i] \in Save BY <1>1, ElementOfSeq
<1>3. /\ SubSeq(svs, 1, k) \in Seq(Save)
      /\ Len(SubSeq(svs, 1, k)) = IF 1 <= k THEN k - 1 + 1 ELSE 0
      /\ \A i \in 1 .. k - 1 + 1 : SubSeq(svs, 1, k)[i] = svs[1 + i - 1]
  BY <1>1, <1>2, SubSeqProperties
<1>4. \A i \in 1..Len(SubSeq(svs, 1, k)) : i \in 1..Len(svs) /\ SubSeq(svs, 1, k)[i] = svs[i]
  BY <1>1, <1>3
<1>5. QED BY <1>3, <1>4 DEF GoodStack

(* Cut leaves a good stack good.                                           *)
LEMMA GoodKept ==
  ASSUME NEW svs, NEW l, GoodStack(svs, l), NEW c PROVE GoodStack(Kept(svs, c), l)
<1>1. svs \in Seq(Save) BY DEF GoodStack
<1>2. PICK k \in 0..Len(svs) : Kept(svs, c) = SubSeq(svs, 1, k) BY <1>1, KeptPrefix
<1>3. QED BY <1>2, GoodPrefix

(* Good stacks, one on top of the other, are a good stack.                 *)
LEMMA GoodConcat ==
  ASSUME NEW svs, NEW l, GoodStack(svs, l), NEW new, GoodStack(new, l)
  PROVE  GoodStack(svs \o new, l)
<1> HIDE DEF Save
<1>1. /\ svs \in Seq(Save) /\ Len(svs) \in Nat
      /\ new \in Seq(Save) /\ Len(new) \in Nat
  BY LenProperties DEF GoodStack
<1>2. /\ svs \o new \in Seq(Save)
      /\ Len(svs \o new) = Len(svs) + Len(new)
      /\ \A i \in 1 .. Len(svs) + Len(new) :
           (svs \o new)[i] = IF i <= Len(svs) THEN svs[i] ELSE new[i - Len(svs)]
  BY <1>1, ConcatProperties
<1>3. ASSUME NEW i \in 1..Len(svs \o new) PROVE GoodSave((svs \o new)[i], l)
  <2>1. CASE i <= Len(svs) BY <2>1, <1>1, <1>2 DEF GoodStack
  <2>2. CASE i > Len(svs)
    <3>1. i - Len(svs) \in 1..Len(new) /\ (svs \o new)[i] = new[i - Len(svs)]
      BY <2>2, <1>1, <1>2
    <3>2. QED BY <3>1 DEF GoodStack
  <2>3. QED BY <1>1, <1>2, <2>1, <2>2
<1>4. QED BY <1>2, <1>3 DEF GoodStack

(* Div::save of a good continuation leaves the stack good.                 *)
LEMMA GoodSaved ==
  ASSUME NEW svs, NEW l, GoodStack(svs, l),
         NEW c \in Cont, NEW ss \in State, NEW b \in Nat, Good(c, ss.nodes_used, l)
  PROVE  GoodStack(Saved(svs, c, ss, b), l)
<1> DEFINE s == [cont |-> c, ss |-> ss, As |-> b]
<1>1. s \in Save BY DEF Save
<1>2. GoodSave(s, l) BY DEF GoodSave
<1>3. GoodStack(Kept(svs, c), l) BY GoodKept
<1>4. Saved(svs, c, ss, b) = Append(Kept(svs, c), s) BY DEF Saved
<1> HIDE DEF s, Save
<1>5. GoodStack(<<s>>, l) BY <1>1, <1>2 DEF GoodStack
<1>6. Append(Kept(svs, c), s) = Kept(svs, c) \o <<s>>
  BY <1>1, <1>3, AppendIsConcat DEF GoodStack
<1>7. QED BY <1>3, <1>4, <1>5, <1>6, GoodConcat

(***************************************************************************)
(* The save that step() pops, and its first spec.                          *)
(***************************************************************************)
LEMMA Numbers ==
  ASSUME TypeOK PROVE limit \in 0..MaxLimit /\ limit \in Nat /\ MaxLimit \in Nat
  BY EngineAssumption DEF TypeOK

(* The save that step() pops, and the stack below it.                      *)
LEMMA TopGood ==
  ASSUME IInv, saves # <<>>
  PROVE  /\ Top \in Save /\ Top.cont \in Cont /\ Top.ss \in State /\ Top.As \in Nat
         /\ nodes \in Nat /\ nodes <= limit
         /\ Good(Top.cont, nodes, limit)
         /\ GoodStack(Rest, limit)
<1>1. saves \in Seq(Save) /\ GoodStack(saves, limit) BY DEF IInv, TypeOK
<1>2. Len(saves) \in Nat \ {0}
  <2> HIDE DEF Save
  <2>1. QED BY <1>1, EmptySeq
<1>3. Top = saves[Len(saves)] /\ Len(saves) \in 1..Len(saves) BY <1>2 DEF Top, Last
<1>4. Top \in Save
  <2> HIDE DEF Save
  <2>1. QED BY <1>1, <1>3, ElementOfSeq
<1>5. Good(Top.cont, nodes, limit) BY <1>1, <1>3 DEF GoodStack, GoodSave, nodes
<1>6. GoodStack(Rest, limit) BY <1>1, <1>2, GoodPrefix DEF Rest, Front
<1>7. Top.cont \in Cont /\ Top.ss \in State /\ Top.As \in Nat BY <1>4 DEF Save
<1>8. nodes \in Nat BY <1>7 DEF State, nodes
<1>9. nodes <= limit BY <1>5 DEF Good
<1>10. QED BY <1>4, <1>5, <1>6, <1>7, <1>8, <1>9

(* The first spec of the save that step() pops, and what comes after it.   *)
LEMMA FirstGood ==
  ASSUME IInv, saves # <<>>, Top.cont # <<>>
  PROVE  /\ First \in Spec_ /\ Later \in Cont
         /\ HeadFits(First, nodes)
         /\ Quiet(Later) /\ Bounds(Later, nodes, limit)
         /\ Bounded(First) =>
              /\ First.max \in Nat /\ nodes <= First.max /\ First.max <= limit
              /\ Bounds(Later, First.max, limit)
<1>1. /\ Top.cont \in Cont /\ nodes \in Nat /\ limit \in Nat /\ Good(Top.cont, nodes, limit)
  BY TopGood, Numbers DEF IInv
<1>2. QED BY <1>1, GoodParts, SpecKinds DEF First, Later

(***************************************************************************)
(* What a step that only changes the stack has to show.                    *)
(***************************************************************************)
LEMMA LeaveStep ==
  ASSUME IInv, saves # <<>>, NEW svs, GoodStack(svs, limit), Leave(svs),
         UNCHANGED <<limit, cut>>, won' \in BOOLEAN
  PROVE  IInv'
<1>1. Top.ss \in State /\ Top.As \in Nat BY TopGood
<1>2. saves' = svs /\ state' = Top.ss /\ brk' = Top.As BY DEF Leave
<1>3. saves' \in Seq(Save) BY <1>2 DEF GoodStack
<1>4. TypeOK'
  BY <1>1, <1>2, <1>3 DEF IInv, TypeOK
<1>5. GoodStack(saves', limit') BY <1>2
<1>6. QED BY <1>4, <1>5 DEF IInv

(* On an empty stack there is nothing to cut.                              *)
LEMMA SavedFirst ==
  ASSUME NEW c, NEW ss, NEW b PROVE Saved(<<>>, c, ss, b) = <<[cont |-> c, ss |-> ss, As |-> b]>>
<1> DEFINE x == [cont |-> c, ss |-> ss, As |-> b]
<1>1. Kept(<<>>, c) = <<>>
  <2>1. <<>> \in Seq(Save)
    OBVIOUS
  <2> HIDE DEF Save
  <2>2. PICK k \in 0..Len(<<>>) : Kept(<<>>, c) = SubSeq(<<>>, 1, k)
    BY <2>1, KeptPrefix
  <2>3. k = 0
    OBVIOUS
  <2>4. QED BY <2>2, <2>3
<1>2. Saved(<<>>, c, ss, b) = Append(<<>>, x) BY <1>1 DEF Saved
<1> HIDE DEF x
<1>3. Append(<<>>, x) = <<x>> OBVIOUS
<1>4. QED BY <1>2, <1>3 DEF x

(* A Div starts with a good stack: one task, which fits the limit.         *)
LEMMA StartGood ==
  ASSUME NEW t \in Starts, NEW l \in Limits, NEW ss \in State, ss.nodes_used = 0, NEW b \in Nat
  PROVE  GoodStack(Started(t, l, ss, b), l)
<1> DEFINE sp == OneTaskSpec(t, 0, l)
           c == Add(<<>>, sp, b)
<1>1. /\ t \in Task /\ l \in Nat /\ Need(t) \in Nat /\ Need(t) <= l
  BY EngineAssumption
<1>2. sp \in Spec_ BY <1>1 DEF OneTaskSpec, Spec_, OneTask
<1>3. <<>> \in Cont /\ Quiet(<<>>) BY DEF Cont, Quiet
<1>4. Bounds(<<>>, 0, l) /\ Bounds(<<>>, sp.max, l) BY DEF Bounds
<1>5. /\ sp.kind = "task" /\ sp.max = l /\ sp.task = t BY DEF OneTaskSpec
<1> HIDE DEF sp
<1>6. HeadFits(sp, 0) BY <1>1, <1>5 DEF HeadFits
<1>7. c \in Cont BY <1>2, <1>3, AddList
<1>8. Bounds(c, 0, l)
  <2>1. 0 <= sp.max /\ sp.max <= l BY <1>1, <1>5
  <2>2. QED BY <1>1, <1>2, <1>3, <1>4, <2>1, AddBounds
<1>9. Good(c, 0, l) BY <1>1, <1>2, <1>3, <1>6, <1>8, AddGood
<1>10. GoodStack(<<>>, l) BY DEF GoodStack
<1> HIDE DEF c
<1>11. GoodStack(Saved(<<>>, c, ss, b + 1), l) BY <1>7, <1>9, <1>10, GoodSaved
<1>12. QED BY <1>11, SavedFirst DEF Started, c, sp

(* The state a search starts in is one.                                    *)
LEMMA StartStateType ==
  ASSUME NEW v \in Val PROVE StartState(v) \in State /\ StartState(v).nodes_used = 0
  BY DEF StartState, State

(* The engine starts with the invariant.                                   *)
LEMMA InitGood == Init => IInv
<1> SUFFICES ASSUME NEW t \in Starts, NEW v \in StartVals, NEW l \in Limits, NEW b \in Cuts,
                    limit = l, cut = b, state = StartState(v),
                    saves = Started(t, l, state, 0), brk = 1, won = FALSE
             PROVE  IInv
  BY DEF Init
<1>1. v \in Val /\ cut \in BOOLEAN BY EngineAssumption
<1>2. state \in State /\ state.nodes_used = 0 BY <1>1, StartStateType
<1>3. GoodStack(saves, limit) BY <1>2, StartGood
<1>4. TypeOK BY <1>1, <1>2, <1>3 DEF TypeOK, GoodStack
<1>5. QED BY <1>3, <1>4 DEF IInv

(***************************************************************************)
(* The steps that only pop, or go on with the rest of the continuation.    *)
(***************************************************************************)
LEMMA PopStep == ASSUME IInv, saves # <<>>, Leave(Rest), UNCHANGED <<limit, cut>>, won' \in BOOLEAN
                 PROVE  IInv'
<1>1. GoodStack(Rest, limit) BY TopGood
<1>2. QED BY <1>1, LeaveStep

(* A step that only takes the first spec off (a check that holds, a set    *)
(* that is done) keeps the invariant.                                      *)
LEMMA PassStep ==
  ASSUME IInv, saves # <<>>, Top.cont # <<>>, Leave(Saved(Rest, Later, Top.ss, Top.As)),
         UNCHANGED <<limit, cut>>, won' \in BOOLEAN
  PROVE  IInv'
<1>1. /\ Top.ss \in State /\ Top.As \in Nat /\ nodes \in Nat /\ nodes <= limit
      /\ GoodStack(Rest, limit) /\ limit \in Nat
  BY TopGood, Numbers DEF IInv
<1>2. Later \in Cont /\ Quiet(Later) /\ Bounds(Later, nodes, limit) BY FirstGood
<1>3. Good(Later, nodes, limit) BY <1>1, <1>2, QuietGood
<1>4. GoodStack(Saved(Rest, Later, Top.ss, Top.As), limit)
  BY <1>1, <1>2, <1>3, GoodSaved DEF nodes
<1>5. QED BY <1>4, LeaveStep

(***************************************************************************)
(* A task runs.                                                            *)
(***************************************************************************)
LEMMA ProxyGood ==
  ASSUME IInv, Popped("task")
  PROVE  /\ ProxyCont \in Cont /\ ProxyBrk \in Nat /\ Quiet(ProxyCont)
         /\ Bounds(ProxyCont, First.max, limit)
<1>1. /\ Top.As \in Nat /\ nodes \in Nat /\ limit \in Nat
  BY TopGood, Numbers DEF IInv, Popped
<1>2. /\ First \in Spec_ /\ First.kind = "task" /\ Later \in Cont /\ Quiet(Later)
      /\ First.max \in Nat /\ Bounds(Later, First.max, limit)
  BY FirstGood DEF Popped, Bounded
<1>3. First.min \in Nat BY <1>2, SpecKinds
<1>4. CASE First.min > 0
  <2> DEFINE sp == CheckMinSpec(nodes + First.min)
  <2>1. sp \in Spec_ /\ ~ Bounded(sp) /\ QuietSpec(sp)
    BY <1>1, <1>3 DEF CheckMinSpec, Spec_, CheckMin, Bounded, QuietSpec
  <2>2. ProxyCont = Add(Later, sp, Top.As) /\ ProxyBrk = Top.As + 1
    BY <1>4 DEF ProxyCont, ProxyBrk
  <2> HIDE DEF sp
  <2>3. ProxyCont \in Cont BY <1>1, <1>2, <2>1, <2>2, AddList
  <2>4. Quiet(ProxyCont) BY <1>1, <1>2, <2>1, <2>2, AddQuiet
  <2>5. Bounds(ProxyCont, First.max, limit) BY <1>1, <1>2, <2>1, <2>2, AddBounds
  <2>6. QED BY <1>1, <2>2, <2>3, <2>4, <2>5
<1>5. CASE ~ (First.min > 0) BY <1>1, <1>2, <1>5 DEF ProxyCont, ProxyBrk
<1>6. QED BY <1>4, <1>5

(* What a task that runs does, by FrameFits: it stays within its maximum,  *)
(* and so do the tasks it leaves.                                          *)
LEMMA RanGood ==
  ASSUME IInv, FrameFits, NEW kind, Running(kind)
  PROVE  /\ Ran \in Outcome /\ Ran.kind = kind
         /\ state' \in State /\ state'.nodes_used \in Nat
         /\ First.max \in Nat /\ First.max <= limit
         /\ state'.nodes_used <= First.max
         /\ kind = "or" => \A i \in 1..Len(Ran.tasks) :
                             state'.nodes_used + Need(Ran.tasks[i]) <= First.max
         /\ kind = "and" => \A i \in 1..Len(Ran.tasks) : Need(Ran.tasks[i]) = 0
<1>1. /\ saves # <<>> /\ Top.cont # <<>> /\ First.kind = "task" /\ Ran.kind = kind
  BY DEF Running, Popped
<1>2. /\ Top.ss \in State /\ nodes \in Nat /\ limit \in Nat
      /\ limit <= MaxLimit /\ MaxLimit \in Nat
  BY <1>1, TopGood, Numbers DEF IInv
<1>3. /\ First \in Spec_ /\ HeadFits(First, nodes)
      /\ First.max \in Nat /\ nodes <= First.max /\ First.max <= limit
  BY <1>1, FirstGood DEF Bounded
<1>4. First.task \in Task /\ Top.ss.val \in Val BY <1>1, <1>2, <1>3, SpecKinds DEF State
<1>5. TaskFits(First.task, nodes, Top.ss.val, First.max)
  BY <1>1 DEF FrameFits, Running
<1>6. nodes + Need(First.task) <= First.max
  <2>1. Need(First.task) \in Nat BY <1>5 DEF TaskFits
  <2>2. QED BY <1>1, <1>2, <1>3, <2>1 DEF HeadFits, QuietSpec
<1>8. /\ Ran \in Outcome
      /\ nodes + Ran.nodes <= First.max
      /\ Ran.kind = "or" => \A i \in 1..Len(Ran.tasks) :
                              nodes + Ran.nodes + Need(Ran.tasks[i]) <= First.max
      /\ Ran.kind = "and" => \A i \in 1..Len(Ran.tasks) : Need(Ran.tasks[i]) = 0
  BY <1>5, <1>6 DEF TaskFits, OutcomeFits, Ran
<1>9. Ran.nodes \in Nat /\ Ran.val \in Val BY <1>8 DEF Outcome
<1>10. state'.nodes_used = nodes + Ran.nodes BY DEF Running, After
<1>11. state' \in State
  <2>1. Top.ss.trail \in SUBSET Task BY <1>2 DEF State
  <2>2. (IF kind = "and" THEN Top.ss.trail \cup {First.task} ELSE Top.ss.trail) \in SUBSET Task
    BY <2>1, <1>4
  <2>3. QED BY <1>2, <1>9, <2>2 DEF Running, After, State
<1>12. QED BY <1>1, <1>2, <1>3, <1>8, <1>9, <1>10, <1>11

(* A step that runs a task keeps the invariant if it leaves a good stack.  *)
LEMMA RunStep ==
  ASSUME IInv, FrameFits, NEW kind, Running(kind), GoodStack(saves', limit), brk' \in Nat
  PROVE  IInv'
<1>1. UNCHANGED <<limit, cut>> /\ won' = FALSE BY DEF Running, Popped
<1>2. TypeOK' BY <1>1, RanGood DEF IInv, TypeOK, GoodStack
<1>3. QED BY <1>1, <1>2 DEF IInv

(* A task that fails leaves the stack below it.                            *)
LEMMA FailsStep == ASSUME IInv, FrameFits, TaskFails PROVE IInv'
<1>1. Running("fail") /\ saves' = Rest /\ brk' = ProxyBrk BY DEF TaskFails
<1>2. saves # <<>> /\ Popped("task") BY <1>1 DEF Running, Popped
<1>3. GoodStack(saves', limit) BY <1>1, <1>2, TopGood
<1>4. brk' \in Nat BY <1>1, <1>2, ProxyGood
<1>5. QED BY <1>1, <1>3, <1>4, RunStep

(* Every alternative is a good save: the task at its head fits.            *)
LEMMA AlternativesGood ==
  ASSUME IInv, FrameFits, Running("or"), NEW new,
         new = [i \in 1..Len(Ran.tasks) |->
                  [cont |-> Add(ProxyCont, OneTaskSpec(Ran.tasks[i], 0, First.max), ProxyBrk + i - 1),
                   ss |-> state', As |-> ProxyBrk + i]]
  PROVE  GoodStack(new, limit) /\ Len(Ran.tasks) \in Nat
<1>1. Popped("task") BY DEF Running
<1>2. /\ ProxyCont \in Cont /\ ProxyBrk \in Nat /\ Quiet(ProxyCont)
      /\ Bounds(ProxyCont, First.max, limit)
  BY <1>1, ProxyGood
<1>3. /\ Ran \in Outcome /\ state' \in State /\ state'.nodes_used \in Nat
      /\ First.max \in Nat /\ First.max <= limit /\ state'.nodes_used <= First.max
      /\ \A i \in 1..Len(Ran.tasks) : state'.nodes_used + Need(Ran.tasks[i]) <= First.max
  BY RanGood
<1>4. Ran.tasks \in Seq(Task) BY <1>3 DEF Outcome
<1>5. Len(Ran.tasks) \in Nat BY <1>4, LenProperties
<1>6. limit \in Nat BY Numbers DEF IInv
<1>7. ASSUME NEW i \in 1..Len(Ran.tasks)
      PROVE new[i] \in Save /\ GoodSave(new[i], limit)
  <2> DEFINE sp == OneTaskSpec(Ran.tasks[i], 0, First.max)
             c == Add(ProxyCont, sp, ProxyBrk + i - 1)
  <2>1. ProxyBrk + i - 1 \in Nat /\ ProxyBrk + i \in Nat BY <1>2, <1>5
  <2>2. Ran.tasks[i] \in Task BY <1>4, ElementOfSeq
  <2>3. sp \in Spec_ /\ sp.kind = "task" /\ sp.task = Ran.tasks[i] /\ sp.max = First.max
    BY <1>3, <2>2 DEF OneTaskSpec, Spec_, OneTask
  <2> HIDE DEF sp
  <2>4. HeadFits(sp, state'.nodes_used) BY <1>3, <2>3 DEF HeadFits
  <2>5. c \in Cont BY <1>2, <2>1, <2>3, AddList
  <2>6. Bounds(ProxyCont, state'.nodes_used, limit) BY <1>2, <1>3, <1>6, BoundsWeaken
  <2>7. Bounds(c, state'.nodes_used, limit)
    BY <1>2, <1>3, <1>6, <2>1, <2>3, <2>6, AddBounds
  <2>8. state'.nodes_used <= limit BY <1>3, <1>6
  <2>9. Good(c, state'.nodes_used, limit)
    BY <1>2, <1>3, <1>6, <2>1, <2>3, <2>4, <2>7, <2>8, AddGood
  <2> HIDE DEF c
  <2>10. new[i] = [cont |-> c, ss |-> state', As |-> ProxyBrk + i] BY DEF c, sp
  <2>11. new[i] \in Save BY <1>3, <2>1, <2>5, <2>10 DEF Save
  <2>12. GoodSave(new[i], limit) BY <2>9, <2>10 DEF GoodSave
  <2>13. QED BY <2>11, <2>12
<1> HIDE DEF Save
<1>8. DOMAIN new = 1..Len(Ran.tasks) /\ new = [i \in 1..Len(Ran.tasks) |-> new[i]] OBVIOUS
<1>9. new \in [1..Len(Ran.tasks) -> Save] BY <1>7, <1>8
<1>10. new \in Seq(Save) /\ Len(new) = Len(Ran.tasks)
  BY <1>5, <1>9, FunIsSeq
<1>11. QED BY <1>5, <1>7, <1>10 DEF GoodStack

(* A task that offers alternatives (or_) leaves one good save for each.    *)
LEMMA OffersStep == ASSUME IInv, FrameFits, TaskOffers PROVE IInv'
<1> DEFINE alt(i) == [cont |-> Add(ProxyCont, OneTaskSpec(Ran.tasks[i], 0, First.max), ProxyBrk + i - 1),
                      ss |-> state', As |-> ProxyBrk + i]
           new == [i \in 1..Len(Ran.tasks) |-> alt(i)]
<1>1. /\ Running("or")
      /\ saves' = IF Ran.tasks = <<>> THEN Rest ELSE Kept(Rest, alt(1).cont) \o new
      /\ brk' = ProxyBrk + Len(Ran.tasks)
  BY DEF TaskOffers, Offer
<1>2. saves # <<>> /\ Popped("task") BY <1>1 DEF Running, Popped
<1>3. GoodStack(Rest, limit) BY <1>2, TopGood
<1>4. GoodStack(new, limit) /\ Len(Ran.tasks) \in Nat BY <1>1, AlternativesGood
<1>5. ProxyBrk \in Nat BY <1>2, ProxyGood
<1> HIDE DEF new, alt
<1>6. GoodStack(Kept(Rest, alt(1).cont) \o new, limit) BY <1>3, <1>4, GoodKept, GoodConcat
<1>7. GoodStack(saves', limit) BY <1>1, <1>3, <1>6
<1>8. brk' \in Nat BY <1>1, <1>4, <1>5
<1>9. QED BY <1>1, <1>7, <1>8, RunStep

(* The tasks a task asks for: none of them needs nodes in advance.         *)
LEMMA AskedSpec ==
  ASSUME IInv, FrameFits, Running("and")
  PROVE  /\ TaskSetSpec(Reverse(Ran.tasks), First.max) \in Spec_
         /\ QuietSpec(TaskSetSpec(Reverse(Ran.tasks), First.max))
         /\ TaskSetSpec(Reverse(Ran.tasks), First.max).max = First.max
<1> DEFINE ts == Ran.tasks
<1>1. /\ Ran \in Outcome /\ First.max \in Nat
      /\ \A i \in 1..Len(ts) : Need(ts[i]) = 0
  BY RanGood
<1>2. ts \in Seq(Task) BY <1>1 DEF Outcome
<1>3. Len(ts) \in Nat /\ \A i \in 1..Len(ts) : Len(ts) - i + 1 \in 1..Len(ts)
  BY <1>2, LenProperties
<1>4. \A i \in 1..Len(ts) : ts[i] \in Task /\ Need(ts[i]) = 0 BY <1>1, <1>2, ElementOfSeq
<1> HIDE DEF ts
<1>5. Reverse(ts) \in [1..Len(ts) -> Task] BY <1>3, <1>4 DEF Reverse
<1>6. Reverse(ts) \in Seq(Task) /\ Len(Reverse(ts)) = Len(ts) BY <1>3, <1>5
<1>7. \A i \in 1..Len(ts) : Reverse(ts)[i] = ts[Len(ts) - i + 1] BY DEF Reverse
<1>8. \A i \in 1..Len(Reverse(ts)) : Need(Reverse(ts)[i]) = 0 BY <1>3, <1>4, <1>6, <1>7
<1>9. QED BY <1>1, <1>6, <1>8 DEF TaskSetSpec, Spec_, TaskSet, QuietSpec, ts

(* A task that asks for tasks (and_, done) leaves one good save.           *)
LEMMA AsksStep == ASSUME IInv, FrameFits, TaskAsks PROVE IInv'
<1> DEFINE sp == TaskSetSpec(Reverse(Ran.tasks), First.max)
           c == Add(ProxyCont, sp, ProxyBrk)
<1>1. /\ Running("and")
      /\ saves' = Saved(Rest, c, state', ProxyBrk + 1)
      /\ brk' = ProxyBrk + 1
  BY DEF TaskAsks
<1>2. saves # <<>> /\ Popped("task") BY <1>1 DEF Running, Popped
<1>3. GoodStack(Rest, limit) BY <1>2, TopGood
<1>4. /\ ProxyCont \in Cont /\ ProxyBrk \in Nat /\ Quiet(ProxyCont)
      /\ Bounds(ProxyCont, First.max, limit)
  BY <1>2, ProxyGood
<1>5. /\ Ran \in Outcome /\ state' \in State /\ state'.nodes_used \in Nat
      /\ First.max \in Nat /\ First.max <= limit /\ state'.nodes_used <= First.max
  BY <1>1, RanGood
<1>6. limit \in Nat BY Numbers DEF IInv
<1>7. sp \in Spec_ /\ QuietSpec(sp) /\ sp.max = First.max BY <1>1, AskedSpec
<1> HIDE DEF sp
<1>8. c \in Cont BY <1>4, <1>7, AddList
<1>9. Bounds(ProxyCont, state'.nodes_used, limit) BY <1>4, <1>5, <1>6, BoundsWeaken
<1>10. Bounds(c, state'.nodes_used, limit) BY <1>4, <1>5, <1>6, <1>7, <1>9, AddBounds
<1>11. HeadFits(sp, state'.nodes_used) BY <1>7 DEF HeadFits
<1>12. state'.nodes_used <= limit BY <1>5, <1>6
<1>13. Good(c, state'.nodes_used, limit)
  BY <1>4, <1>5, <1>6, <1>7, <1>10, <1>11, <1>12, AddGood
<1> HIDE DEF c
<1>14. GoodStack(saves', limit) BY <1>1, <1>3, <1>4, <1>5, <1>8, <1>13, GoodSaved
<1>15. brk' \in Nat BY <1>1, <1>4
<1>16. QED BY <1>1, <1>14, <1>15, RunStep

(***************************************************************************)
(* The two ways of dividing the budget of a task set.                      *)
(***************************************************************************)
LEMMA DivAtMost ==
  ASSUME NEW a \in Nat, NEW b \in Nat \ {0} PROVE a \div b \in Nat /\ a \div b <= a
  OBVIOUS

(* The division of the budget: the share of the first task and what        *)
(* remains lie within the maximum of the set.                              *)
LEMMA SplitNumbers ==
  ASSUME IInv, Popped("taskset"), First.tasks # <<>>
  PROVE  /\ nodes \in Nat /\ nodes <= limit /\ limit \in Nat /\ Top.As \in Nat /\ Top.ss \in State
         /\ First.max \in Nat /\ First.max <= limit
         /\ head_budget \in Nat /\ nodes + head_budget <= First.max
         /\ CanTakeMore => nodes + head_budget + 1 <= First.max
         /\ Head(First.tasks) \in Task /\ Need(Head(First.tasks)) = 0
         /\ others \in Seq(Task) /\ \A i \in 1..Len(others) : Need(others[i]) = 0
         /\ Later \in Cont /\ Quiet(Later) /\ Bounds(Later, First.max, limit)
<1>1. saves # <<>> /\ Top.cont # <<>> /\ First.kind = "taskset" BY DEF Popped
<1>2. /\ nodes \in Nat /\ nodes <= limit /\ limit \in Nat /\ Top.As \in Nat /\ Top.ss \in State
  BY <1>1, TopGood, Numbers DEF IInv
<1>3. /\ First \in Spec_ /\ HeadFits(First, nodes)
      /\ First.max \in Nat /\ nodes <= First.max /\ First.max <= limit
      /\ Later \in Cont /\ Quiet(Later) /\ Bounds(Later, First.max, limit)
  BY <1>1, FirstGood DEF Bounded
<1>4. First.tasks \in Seq(Task) /\ \A i \in 1..Len(First.tasks) : Need(First.tasks[i]) = 0
  BY <1>1, <1>3, SpecKinds DEF HeadFits, QuietSpec
<1> DEFINE ts == First.tasks
<1>5. Len(ts) \in Nat \ {0} BY <1>4, EmptySeq
<1>6. /\ Head(ts) = ts[1] /\ Head(ts) \in Task
      /\ others \in Seq(Task) /\ Len(others) = Len(ts) - 1
      /\ \A i \in 1..Len(others) : others[i] = ts[i + 1]
  BY <1>4, <1>5, HeadTailProperties DEF others
<1>7. Need(Head(ts)) = 0 BY <1>4, <1>5, <1>6
<1>8. \A i \in 1..Len(others) : Need(others[i]) = 0
  <2>1. \A i \in 1..Len(others) : i + 1 \in 1..Len(ts) BY <1>5, <1>6
  <2>2. QED BY <1>4, <1>6, <2>1
<1>9. budget \in Nat /\ nodes + budget = First.max BY <1>2, <1>3 DEF budget
<1>10. head_budget \in Nat /\ head_budget <= budget BY <1>5, <1>9, DivAtMost DEF head_budget
<1>11. CanTakeMore => head_budget < budget BY DEF CanTakeMore
<1>12. /\ nodes + head_budget <= First.max
       /\ CanTakeMore => nodes + head_budget + 1 <= First.max
  BY <1>2, <1>3, <1>9, <1>10, <1>11
<1>13. QED BY <1>2, <1>3, <1>6, <1>7, <1>8, <1>10, <1>12

(* The half in which the first task takes at most its share is good.       *)
LEMMA ShareGood ==
  ASSUME IInv, Popped("taskset"), First.tasks # <<>>
  PROVE  ShareCont \in Cont /\ Good(ShareCont, nodes, limit) /\ ShareBrk \in Nat
<1> DEFINE rest == TaskSetSpec(others, First.max)
           one == OneTaskSpec(Head(First.tasks), 0, nodes + head_budget)
           c == IF others = <<>> THEN Later ELSE Add(Later, rest, Top.As)
           b == Top.As + Len(c) - Len(Later)
<1>1. /\ nodes \in Nat /\ nodes <= limit /\ limit \in Nat /\ Top.As \in Nat
      /\ First.max \in Nat /\ First.max <= limit
      /\ head_budget \in Nat /\ nodes + head_budget <= First.max
      /\ Head(First.tasks) \in Task /\ Need(Head(First.tasks)) = 0
      /\ others \in Seq(Task) /\ \A i \in 1..Len(others) : Need(others[i]) = 0
      /\ Later \in Cont /\ Quiet(Later) /\ Bounds(Later, First.max, limit)
  BY SplitNumbers
<1>2. ShareCont = Add(c, one, b) BY DEF ShareCont
<1>3. rest \in Spec_ /\ QuietSpec(rest) /\ rest.max = First.max
  BY <1>1 DEF TaskSetSpec, Spec_, TaskSet, QuietSpec
<1>4. one \in Spec_ /\ QuietSpec(one) /\ one.max = nodes + head_budget
  BY <1>1 DEF OneTaskSpec, Spec_, OneTask, QuietSpec
<1>5. Len(Later) \in Nat BY <1>1, LenProperties DEF Cont
<1> HIDE DEF rest, one
<1>6. Add(Later, rest, Top.As) \in Cont /\ Len(Add(Later, rest, Top.As)) = Len(Later) + 1
  BY <1>1, <1>3, AddList
<1>7. Quiet(Add(Later, rest, Top.As)) BY <1>1, <1>3, AddQuiet
<1>8. Bounds(Add(Later, rest, Top.As), First.max, limit)
  BY <1>1, <1>3, AddBounds
<1>9. /\ c \in Cont /\ Quiet(c) /\ Bounds(c, First.max, limit)
      /\ Len(c) \in {Len(Later), Len(Later) + 1}
  BY <1>1, <1>6, <1>7, <1>8
<1>10. b \in Nat BY <1>1, <1>5, <1>9
<1> HIDE DEF c, b
<1>11. nodes + head_budget \in Nat /\ nodes <= nodes + head_budget /\ nodes + head_budget <= limit
  BY <1>1
<1>12. Bounds(c, nodes + head_budget, limit) /\ Bounds(c, nodes, limit)
  <2>1. nodes <= First.max BY <1>1
  <2>2. QED BY <1>1, <1>9, <1>11, <2>1, BoundsWeaken
<1>13. Bounds(ShareCont, nodes, limit)
  BY <1>1, <1>2, <1>4, <1>9, <1>10, <1>11, <1>12, AddBounds
<1>14. HeadFits(one, nodes) BY <1>4 DEF HeadFits
<1>15. Good(ShareCont, nodes, limit)
  BY <1>1, <1>2, <1>4, <1>9, <1>10, <1>13, <1>14, AddGood
<1>16. ShareCont \in Cont /\ Len(ShareCont) = Len(c) + 1
  BY <1>2, <1>4, <1>9, <1>10, AddList
<1>17. ShareBrk \in Nat BY <1>1, <1>5, <1>9, <1>16 DEF ShareBrk
<1>18. QED BY <1>15, <1>16, <1>17

(* The half in which it takes more is good: head_budget + 1 does not       *)
(* exceed the budget.                                                      *)
LEMMA MoreGood ==
  ASSUME IInv, Popped("taskset"), First.tasks # <<>>, CanTakeMore
  PROVE  MoreCont \in Cont /\ Good(MoreCont, nodes, limit)
<1> DEFINE one == OneTaskSpec(Head(First.tasks), head_budget + 1, First.max)
           rest == TaskSetSpec(others, First.max - (head_budget + 1))
           c == Add(Later, one, ShareBrk)
<1>1. /\ nodes \in Nat /\ nodes <= limit /\ limit \in Nat
      /\ First.max \in Nat /\ First.max <= limit
      /\ head_budget \in Nat /\ nodes + head_budget + 1 <= First.max
      /\ Head(First.tasks) \in Task /\ Need(Head(First.tasks)) = 0
      /\ others \in Seq(Task) /\ \A i \in 1..Len(others) : Need(others[i]) = 0
      /\ Later \in Cont /\ Quiet(Later) /\ Bounds(Later, First.max, limit)
  BY SplitNumbers
<1>2. ShareBrk \in Nat /\ ShareBrk + 1 \in Nat BY ShareGood
<1>3. MoreCont = Add(c, rest, ShareBrk + 1) BY DEF MoreCont
<1>4. one \in Spec_ /\ QuietSpec(one) /\ one.max = First.max
  BY <1>1 DEF OneTaskSpec, Spec_, OneTask, QuietSpec
<1>5. First.max - (head_budget + 1) \in Nat BY <1>1
<1>6. rest \in Spec_ /\ QuietSpec(rest) /\ rest.max = First.max - (head_budget + 1)
  BY <1>1, <1>5 DEF TaskSetSpec, Spec_, TaskSet, QuietSpec
<1> HIDE DEF one, rest
<1>7. c \in Cont BY <1>1, <1>2, <1>4, AddList
<1>8. Quiet(c) BY <1>1, <1>2, <1>4, AddQuiet
<1>9. Bounds(c, First.max, limit)
  BY <1>1, <1>2, <1>4, AddBounds
<1> HIDE DEF c
<1>10. nodes <= rest.max /\ rest.max <= limit /\ rest.max <= First.max /\ nodes <= First.max
  BY <1>1, <1>6
<1>11. Bounds(c, rest.max, limit) /\ Bounds(c, nodes, limit)
  BY <1>1, <1>5, <1>6, <1>7, <1>9, <1>10, BoundsWeaken
<1>12. Bounds(MoreCont, nodes, limit)
  BY <1>1, <1>2, <1>3, <1>6, <1>7, <1>10, <1>11, AddBounds
<1>13. HeadFits(rest, nodes) BY <1>6 DEF HeadFits
<1>14. Good(MoreCont, nodes, limit)
  BY <1>1, <1>2, <1>3, <1>6, <1>7, <1>8, <1>12, <1>13, AddGood
<1>15. MoreCont \in Cont BY <1>2, <1>3, <1>6, <1>7, AddList
<1>16. QED BY <1>14, <1>15

(* Dividing a task set keeps the invariant.                                *)
LEMMA SplitsStep == ASSUME IInv, SetSplits PROVE IInv'
<1> DEFINE share == Saved(Rest, ShareCont, Top.ss, ShareBrk)
           more == Saved(share, MoreCont, Top.ss, ShareBrk + 2)
<1>1. /\ Popped("taskset") /\ First.tasks # <<>>
      /\ state' = Top.ss
      /\ IF CanTakeMore THEN saves' = more /\ brk' = ShareBrk + 2
                        ELSE saves' = share /\ brk' = ShareBrk
  BY DEF SetSplits
<1>2. saves # <<>> /\ UNCHANGED <<limit, cut>> /\ won' = FALSE BY <1>1 DEF Popped
<1>3. GoodStack(Rest, limit) /\ Top.ss \in State BY <1>2, TopGood
<1>4. ShareCont \in Cont /\ Good(ShareCont, nodes, limit)
      /\ ShareBrk \in Nat /\ ShareBrk + 2 \in Nat
  BY <1>1, ShareGood
<1>5. GoodStack(share, limit) BY <1>3, <1>4, GoodSaved DEF nodes
<1> HIDE DEF share
<1>6. CanTakeMore => GoodStack(more, limit)
  BY <1>1, <1>3, <1>4, <1>5, MoreGood, GoodSaved DEF nodes
<1> HIDE DEF more
<1>7. GoodStack(saves', limit) BY <1>1, <1>5, <1>6
<1>8. brk' \in Nat BY <1>1, <1>4
<1>9. TypeOK' BY <1>1, <1>2, <1>3, <1>7, <1>8 DEF IInv, TypeOK, GoodStack
<1>10. QED BY <1>2, <1>7, <1>9 DEF IInv

(***************************************************************************)
(* The induction.                                                          *)
(***************************************************************************)
LEMMA StepGood == IInv /\ FrameFits /\ [Next]_vars => IInv'
<1> SUFFICES ASSUME IInv, FrameFits, [Next]_vars PROVE IInv' OBVIOUS
<1>1. CASE Succeed BY <1>1, PopStep DEF Succeed
<1>2. CASE CheckMinFails BY <1>2, PopStep DEF CheckMinFails, Popped
<1>3. CASE CheckMinHolds BY <1>3, PassStep DEF CheckMinHolds, Popped
<1>4. CASE TaskTooBig BY <1>4, PopStep DEF TaskTooBig, Popped
<1>5. CASE TaskFails BY <1>5, FailsStep
<1>6. CASE TaskOffers BY <1>6, OffersStep
<1>7. CASE TaskAsks BY <1>7, AsksStep
<1>8. CASE SetDone BY <1>8, PassStep DEF SetDone, Popped
<1>9. CASE SetSplits BY <1>9, SplitsStep
<1>10. CASE UNCHANGED vars
  <2>1. UNCHANGED <<saves, state, brk, limit, cut, won>> BY <1>10 DEF vars
  <2>2. TypeOK' BY <2>1 DEF IInv, TypeOK
  <2>3. GoodStack(saves', limit') BY <2>1 DEF IInv
  <2>4. QED BY <2>2, <2>3 DEF IInv
<1>11. QED
  BY <1>1, <1>2, <1>3, <1>4, <1>5, <1>6, <1>7, <1>8, <1>9, <1>10 DEF Next

(***************************************************************************)
(* Whatever the tasks, as long as they fit, the stack of Div stays well    *)
(* formed: numbers that the code keeps in size_t are natural numbers.      *)
(***************************************************************************)
THEOREM TypeCorrect == Spec /\ []FrameFits => []TypeOK
<1>1. IInv => TypeOK BY DEF IInv
<1>2. QED BY InitGood, StepGood, <1>1, PTL DEF Spec

(* The bounds of good saves are what RoomLeft asks for.                    *)
LEMMA GoodRoom == IInv => RoomLeft
<1> SUFFICES ASSUME IInv, NEW i \in 1..Len(saves)
             PROVE  /\ saves[i].ss.nodes_used <= limit
                    /\ Bounds(saves[i].cont, saves[i].ss.nodes_used, limit)
  BY DEF RoomLeft, Bounds, Bounded
<1>1. QED BY DEF IInv, GoodStack, GoodSave, Good

(***************************************************************************)
(* The unsigned subtractions of Div::step never wrap and the size limit is *)
(* kept, whatever the tasks, the limit and the flag cut.                   *)
(***************************************************************************)
THEOREM RoomIsLeft == Spec /\ []FrameFits => []RoomLeft
  BY InitGood, StepGood, GoodRoom, PTL DEF Spec

(***************************************************************************)
(* Addresses.  The allocator is rewound at every step and its addresses    *)
(* are used again, so that NoAlias and Committed need to know how the      *)
(* saved lists lie in memory.  Layout says: nodes at the same address are  *)
(* followed by the same nodes (Shared); no save frees a node of a save     *)
(* below it; and a node that a save shares with one further down is shared *)
(* by all the saves in between.  The last is what neither property says    *)
(* and Committed needs: cut pops saves as long as the top one leads back,  *)
(* and below the first that does not there must be none that does.         *)
(***************************************************************************)
Addr(c) == {c[p].at : p \in 1..Len(c)}
SameTail(c, p, d, q) ==
  /\ Len(c) - p = Len(d) - q
  /\ \A r \in 0 .. Len(c) - p : c[p + r] = d[q + r]
Shared(c, d) ==
  \A p \in 1..Len(c), q \in 1..Len(d) : c[p].at = d[q].at => SameTail(c, p, d, q)
Below(c, a) == \A x \in Addr(c) : x < a

Layout(svs) ==
  /\ \A i, j \in 1..Len(svs) : Shared(svs[i].cont, svs[j].cont)
  /\ \A i, j \in 1..Len(svs) : i <= j => Below(svs[i].cont, svs[j].As)
  /\ \A i, j, k \in 1..Len(svs) :
       i <= j /\ j <= k => Addr(svs[i].cont) \cap Addr(svs[k].cont) \subseteq Addr(svs[j].cont)

(* Committed in terms of addresses: with cut, no save contains the first   *)
(* node of a save above it.                                                *)
Clear(svs, c) ==
  \A i \in 1..Len(svs) : c # <<>> /\ c[1].at \notin Addr(svs[i].cont)
Apart(svs) ==
  \A i, j \in 1..Len(svs) :
    i < j => svs[j].cont # <<>> /\ svs[j].cont[1].at \notin Addr(svs[i].cont)
Laid(svs) == svs \in Seq(Save) /\ Layout(svs) /\ (cut => Apart(svs))

(* What keeps the layout when c is saved on top of svs with the allocator  *)
(* at a.                                                                   *)
Fits(svs, c, a) ==
  /\ c \in Cont /\ a \in Nat /\ Shared(c, c) /\ Below(c, a)
  /\ \A i \in 1..Len(svs) : Shared(svs[i].cont, c) /\ Below(svs[i].cont, a)
  /\ \A i, j \in 1..Len(svs) :
       i <= j => Addr(svs[i].cont) \cap Addr(c) \subseteq Addr(svs[j].cont)

(* The nodes of a list have natural numbers as addresses.                  *)
LEMMA AddrNat ==
  ASSUME NEW c \in Cont PROVE Addr(c) \subseteq Nat /\ Len(c) \in Nat
<1>1. Len(c) \in Nat BY LenProperties DEF Cont
<1>2. \A p \in 1..Len(c) : c[p].at \in Nat BY ContElement DEF Node
<1>3. QED BY <1>1, <1>2 DEF Addr

(* Being followed by the same nodes is transitive.                         *)
LEMMA TailTrans ==
  ASSUME NEW c \in Cont, NEW d \in Cont, NEW e \in Cont,
         NEW p \in Nat, NEW q \in Nat, NEW s \in Nat,
         SameTail(c, p, d, q), SameTail(d, q, e, s)
  PROVE  SameTail(c, p, e, s)
<1>1. Len(c) - p = Len(d) - q /\ Len(d) - q = Len(e) - s BY DEF SameTail
<1>2. \A r \in 0 .. Len(c) - p : c[p + r] = d[q + r] /\ d[q + r] = e[s + r]
  BY <1>1 DEF SameTail
<1>3. QED BY <1>1, <1>2 DEF SameTail

(* and symmetric.                                                          *)
LEMMA TailSym ==
  ASSUME NEW c \in Cont, NEW d \in Cont, NEW p \in Nat, NEW q \in Nat, SameTail(c, p, d, q)
  PROVE  SameTail(d, q, c, p)
<1>1. Len(c) - p = Len(d) - q BY DEF SameTail
<1>2. \A r \in 0 .. Len(d) - q : d[q + r] = c[p + r] BY <1>1 DEF SameTail
<1>3. QED BY <1>1, <1>2 DEF SameTail

(* Sharing is symmetric.                                                   *)
LEMMA SharedSym ==
  ASSUME NEW c \in Cont, NEW d \in Cont, Shared(c, d) PROVE Shared(d, c)
<1>1. ASSUME NEW p \in 1..Len(d), NEW q \in 1..Len(c), d[p].at = c[q].at
      PROVE  SameTail(d, p, c, q)
  <2>1. SameTail(c, q, d, p) BY <1>1 DEF Shared
  <2>2. Len(c) \in Nat /\ Len(d) \in Nat BY AddrNat
  <2>3. p \in Nat /\ q \in Nat BY <2>2
  <2>4. QED BY <2>1, <2>3, TailSym
<1>2. QED BY <1>1 DEF Shared

(* List::add puts a node with the address b in front.                      *)
LEMMA AddAddr ==
  ASSUME NEW c \in Cont, NEW sp \in Spec_, NEW b \in Nat
  PROVE  Add(c, sp, b)[1].at = b /\ Addr(Add(c, sp, b)) = Addr(c) \cup {b}
<1> DEFINE node == [at |-> b, spec |-> sp]
           e == Add(c, sp, b)
<1>1. node \in Node /\ node.at = b BY DEF Node
<1>2. c \in Seq(Node) /\ Len(c) \in Nat BY LenProperties DEF Cont, Node
<1>3. e = <<node>> \o c BY DEF Add
<1> HIDE DEF node, Node
<1>4. <<node>> \in Seq(Node) /\ Len(<<node>>) = 1 /\ <<node>>[1] = node BY <1>1
<1>5. \A i \in 1 .. 1 + Len(c) :
        (<<node>> \o c)[i] = IF i <= 1 THEN <<node>>[i] ELSE c[i - 1]
  BY <1>2, <1>4, ConcatProperties
<1>6. e[1] = node BY <1>2, <1>3, <1>4, <1>5
<1>7. Len(e) = Len(c) + 1 /\ \A p \in 2..Len(c) + 1 : p - 1 \in 1..Len(c) /\ e[p] = c[p - 1]
  BY AddList
<1> HIDE DEF e
<1>8. ASSUME NEW x \in Addr(e) PROVE x \in Addr(c) \cup {b}
  <2>1. PICK p \in 1..Len(e) : x = e[p].at BY DEF Addr
  <2>2. CASE p = 1 BY <2>1, <2>2, <1>1, <1>6
  <2>3. CASE p # 1
    <3>1. p \in 2..Len(c) + 1 BY <2>3, <1>2, <1>7
    <3>2. p - 1 \in 1..Len(c) /\ x = c[p - 1].at BY <3>1, <2>1, <1>7
    <3>3. QED BY <3>2 DEF Addr
  <2>4. QED BY <2>2, <2>3
<1>9. ASSUME NEW x \in Addr(c) PROVE x \in Addr(e)
  <2>1. PICK p \in 1..Len(c) : x = c[p].at BY DEF Addr
  <2>2. p + 1 \in 2..Len(c) + 1 /\ p + 1 \in 1..Len(e) /\ p + 1 - 1 = p BY <1>2, <1>7
  <2>3. x = e[p + 1].at BY <2>1, <2>2, <1>7
  <2>4. QED BY <2>2, <2>3 DEF Addr
<1>10. b \in Addr(e)
  <2>1. 1 \in 1..Len(e) BY <1>2, <1>7
  <2>2. QED BY <2>1, <1>1, <1>6 DEF Addr
<1>11. QED BY <1>1, <1>6, <1>8, <1>9, <1>10 DEF e

(* What follows a node of c is the same with a new node in front of c.     *)
LEMMA AddTail ==
  ASSUME NEW c \in Cont, NEW sp \in Spec_, NEW b \in Nat,
         NEW p \in 1 .. Len(c) + 1, p # 1
  PROVE  /\ p - 1 \in 1..Len(c)
         /\ Add(c, sp, b)[p].at = c[p - 1].at
         /\ SameTail(Add(c, sp, b), p, c, p - 1)
<1> DEFINE e == Add(c, sp, b)
<1>1. /\ Len(e) = Len(c) + 1 /\ Len(c) \in Nat
      /\ \A i \in 2..Len(c) + 1 : i - 1 \in 1..Len(c) /\ e[i] = c[i - 1]
  BY AddList, AddrNat
<1> HIDE DEF e
<1>2. p \in 2..Len(c) + 1 BY <1>1
<1>3. p - 1 \in 1..Len(c) /\ e[p] = c[p - 1] BY <1>1, <1>2
<1>4. Len(e) - p = Len(c) - (p - 1) BY <1>1
<1>5. ASSUME NEW r \in 0 .. Len(e) - p PROVE e[p + r] = c[p - 1 + r]
  <2>1. p + r \in 2 .. Len(c) + 1 /\ p + r - 1 = p - 1 + r BY <1>1, <1>2
  <2>2. QED BY <2>1, <1>1
<1>6. QED BY <1>3, <1>4, <1>5 DEF SameTail, e

(* A list with a new address in front shares with whom it did.             *)
LEMMA AddShared ==
  ASSUME NEW c \in Cont, NEW d \in Cont, NEW sp \in Spec_, NEW b \in Nat,
         Shared(c, d), b \notin Addr(d)
  PROVE  Shared(Add(c, sp, b), d)
<1> DEFINE e == Add(c, sp, b)
<1>1. e \in Cont /\ Len(e) = Len(c) + 1 /\ e[1].at = b BY AddList, AddAddr
<1>2. Len(c) \in Nat /\ Len(d) \in Nat BY AddrNat
<1>3. ASSUME NEW p \in 1..Len(e), NEW q \in 1..Len(d), e[p].at = d[q].at
      PROVE  SameTail(e, p, d, q)
  <2>1. p # 1 BY <1>1, <1>3 DEF Addr
  <2>2. p - 1 \in 1..Len(c) /\ e[p].at = c[p - 1].at /\ SameTail(e, p, c, p - 1)
    <3>1. p \in 1 .. Len(c) + 1
      <4> HIDE DEF e
      <4>1. QED BY <1>1
    <3>2. QED BY <2>1, <3>1, AddTail
  <2>3. SameTail(c, p - 1, d, q) BY <2>2, <1>3 DEF Shared
  <2> HIDE DEF e
  <2>4. p \in Nat /\ p - 1 \in Nat /\ q \in Nat BY <2>2
  <2>5. QED BY <2>2, <2>3, <2>4, <1>1, TailTrans
<1>4. QED BY <1>3 DEF Shared

(* Two lists made from c with new addresses in front share, also when they *)
(* are the same list.                                                      *)
LEMMA AddBoth ==
  ASSUME NEW c \in Cont, NEW sp \in Spec_, NEW b \in Nat, Shared(c, c), b \notin Addr(c),
         NEW sq \in Spec_, NEW a \in Nat, a \notin Addr(c), a = b => sp = sq
  PROVE  Shared(Add(c, sp, b), Add(c, sq, a))
<1> DEFINE e == Add(c, sp, b)
           f == Add(c, sq, a)
<1>1. e \in Cont /\ f \in Cont BY AddList
<1>2. Shared(e, c) /\ Shared(f, c) BY AddShared
<1>3. CASE a = b
  <2>1. e = f BY <1>3
  <2>2. ASSUME NEW p \in 1..Len(e), NEW q \in 1..Len(e), e[p].at = e[q].at
        PROVE  SameTail(e, p, e, q)
    <3>1. Len(e) = Len(c) + 1 /\ e[1].at = b /\ Len(c) \in Nat BY AddList, AddAddr, AddrNat
    <3>2. CASE p = 1 /\ q = 1 BY <3>2 DEF SameTail
    <3>3. CASE p # 1 /\ q = 1
      <4>1. p - 1 \in 1..Len(c) /\ e[p].at = c[p - 1].at BY <3>1, <3>3, AddTail
      <4>2. c[p - 1].at = b BY <4>1, <3>1, <3>3, <2>2
      <4>3. QED BY <4>1, <4>2 DEF Addr
    <3>4. CASE q # 1
      <4>1. q - 1 \in 1..Len(c) /\ e[q].at = c[q - 1].at /\ SameTail(e, q, c, q - 1)
        BY <3>1, <3>4, AddTail
      <4>2. SameTail(e, p, c, q - 1) BY <4>1, <2>2, <1>2 DEF Shared
      <4> HIDE DEF e
      <4>3. p \in Nat /\ q \in Nat /\ q - 1 \in Nat BY <3>1, <4>1
      <4>4. SameTail(c, q - 1, e, q) BY <4>1, <4>3, <1>1, TailSym
      <4>5. QED BY <4>2, <4>3, <4>4, <1>1, TailTrans
    <3>5. QED BY <3>2, <3>3, <3>4
  <2>3. Shared(e, e) BY <2>2 DEF Shared
  <2>4. QED BY <2>1, <2>3
<1>4. CASE a # b
  <2>1. Shared(c, f) BY <1>1, <1>2, SharedSym
  <2>2. Addr(f) = Addr(c) \cup {a} BY AddAddr
  <2>3. b \notin Addr(f) BY <2>2, <1>4
  <2>4. QED BY <2>1, <2>3, <1>1, AddShared
<1>5. QED BY <1>3, <1>4

(* The tail of a list shares with whom the list does.                      *)
LEMMA TailShared ==
  ASSUME NEW c \in Cont, c # <<>>
  PROVE  /\ Tail(c) \in Cont /\ Addr(Tail(c)) \subseteq Addr(c)
         /\ \A d \in Cont : Shared(c, d) => Shared(Tail(c), d)
<1> DEFINE t == Tail(c)
<1>1. c \in Seq(Node) /\ Len(c) \in Nat BY AddrNat DEF Cont, Node
<1>2. t \in Seq(Node) /\ Len(t) = Len(c) - 1 /\ \A i \in 1..Len(t) : t[i] = c[i + 1]
  <2> HIDE DEF Node
  <2>1. QED BY <1>1, HeadTailProperties
<1> HIDE DEF t
<1>3. t \in Cont BY <1>2 DEF Cont, Node
<1>4. Len(t) \in Nat BY <1>3, AddrNat
<1>5. \A i \in 1..Len(t) : i + 1 \in 1..Len(c) BY <1>1, <1>2, <1>4
<1>6. Addr(t) \subseteq Addr(c) BY <1>2, <1>5 DEF Addr
<1>7. ASSUME NEW d \in Cont, Shared(c, d),
             NEW p \in 1..Len(t), NEW q \in 1..Len(d), t[p].at = d[q].at
      PROVE  SameTail(t, p, d, q)
  <2>1. SameTail(c, p + 1, d, q) BY <1>2, <1>5, <1>7 DEF Shared
  <2>2. Len(t) - p = Len(c) - (p + 1) BY <1>1, <1>2
  <2>3. ASSUME NEW r \in 0 .. Len(t) - p PROVE t[p + r] = d[q + r]
    <3>1. p + r \in 1..Len(t) BY <1>4
    <3>2. t[p + r] = c[p + r + 1] /\ p + r + 1 = p + 1 + r BY <3>1, <1>2
    <3>3. r \in 0 .. Len(c) - (p + 1) BY <2>2
    <3>4. c[p + 1 + r] = d[q + r] BY <2>1, <3>3 DEF SameTail
    <3>5. QED BY <3>2, <3>4
  <2>4. QED BY <2>1, <2>2, <2>3 DEF SameTail
<1>8. QED BY <1>3, <1>6, <1>7 DEF Shared, t

(***************************************************************************)
(* Stacks.                                                                 *)
(***************************************************************************)
LEMMA LaidSave ==
  ASSUME NEW svs, Laid(svs), NEW i \in 1..Len(svs)
  PROVE  svs[i] \in Save /\ svs[i].cont \in Cont /\ svs[i].As \in Nat
<1>1. svs[i] \in Save
  <2> HIDE DEF Save
  <2>1. QED BY ElementOfSeq DEF Laid
<1>2. QED BY <1>1 DEF Save

(* Popping saves keeps the layout, and what fitted on top still fits.      *)
LEMMA LaidPrefix ==
  ASSUME NEW svs, Laid(svs), NEW k \in 0..Len(svs)
  PROVE  /\ Laid(SubSeq(svs, 1, k))
         /\ \A c, a : Fits(svs, c, a) => Fits(SubSeq(svs, 1, k), c, a)
         /\ Len(SubSeq(svs, 1, k)) = k
         /\ \A i \in 1..k : i \in 1..Len(svs) /\ SubSeq(svs, 1, k)[i] = svs[i]
<1> DEFINE s == SubSeq(svs, 1, k)
<1>1. svs \in Seq(Save) /\ Len(svs) \in Nat BY LenProperties DEF Laid
<1> HIDE DEF Save
<1>2. \A i \in 1..k : svs[i] \in Save BY <1>1, ElementOfSeq
<1>3. /\ s \in Seq(Save)
      /\ Len(s) = IF 1 <= k THEN k - 1 + 1 ELSE 0
      /\ \A i \in 1 .. k - 1 + 1 : s[i] = svs[1 + i - 1]
  BY <1>1, <1>2, SubSeqProperties
<1>4. Len(s) = k /\ k \in Nat /\ \A i \in 1..k : i \in 1..Len(svs) /\ s[i] = svs[i]
  BY <1>1, <1>3
<1> HIDE DEF s
<1>5. Layout(s) BY <1>4 DEF Laid, Layout
<1>6. cut => Apart(s) BY <1>4 DEF Laid, Apart
<1>7. ASSUME NEW c, NEW a, Fits(svs, c, a) PROVE Fits(s, c, a) BY <1>4, <1>7 DEF Fits
<1>8. QED BY <1>3, <1>4, <1>5, <1>6, <1>7 DEF Laid, s

(* The save on top fits on those below it.                                 *)
LEMMA LaidTop ==
  ASSUME NEW svs, Laid(svs), svs # <<>>
  PROVE  Laid(Front(svs)) /\ Fits(Front(svs), Last(svs).cont, Last(svs).As)
<1> DEFINE n == Len(svs)
           s == SubSeq(svs, 1, n - 1)
<1>1. n \in Nat \ {0}
  <2> HIDE DEF Save
  <2>1. QED BY EmptySeq DEF Laid
<1>2. Front(svs) = s /\ Last(svs) = svs[n] /\ n \in 1..Len(svs) /\ n - 1 \in 0..Len(svs)
  BY <1>1 DEF Front, Last
<1>3. /\ Laid(s) /\ Len(s) = n - 1
      /\ \A i \in 1 .. n - 1 : i \in 1..Len(svs) /\ s[i] = svs[i]
  BY <1>2, LaidPrefix
<1>4. svs[n].cont \in Cont /\ svs[n].As \in Nat BY <1>2, LaidSave
<1> HIDE DEF s
<1>5. \A i \in 1..Len(s) : i \in 1..Len(svs) /\ i <= n /\ s[i] = svs[i] BY <1>1, <1>3
<1>6. n <= n BY <1>1
<1> HIDE DEF n
<1>7. Shared(svs[n].cont, svs[n].cont) /\ Below(svs[n].cont, svs[n].As)
  BY <1>2, <1>6 DEF Laid, Layout
<1>8. \A i \in 1..Len(s) : Shared(s[i].cont, svs[n].cont) /\ Below(s[i].cont, svs[n].As)
  BY <1>2, <1>5 DEF Laid, Layout
<1>9. \A i, j \in 1..Len(s) :
        i <= j => Addr(s[i].cont) \cap Addr(svs[n].cont) \subseteq Addr(s[j].cont)
  <2>1. \A i, j, k \in 1..Len(svs) :
          i <= j /\ j <= k => Addr(svs[i].cont) \cap Addr(svs[k].cont) \subseteq Addr(svs[j].cont)
    BY DEF Laid, Layout
  <2>2. ASSUME NEW i \in 1..Len(s), NEW j \in 1..Len(s), i <= j
        PROVE  Addr(s[i].cont) \cap Addr(svs[n].cont) \subseteq Addr(s[j].cont)
    <3>1. /\ i \in 1..Len(svs) /\ s[i] = svs[i]
          /\ j \in 1..Len(svs) /\ s[j] = svs[j] /\ j <= n
      BY <1>5
    <3>2. QED BY <1>2, <2>1, <2>2, <3>1
  <2>3. QED BY <2>2
<1>10. Fits(s, svs[n].cont, svs[n].As) BY <1>4, <1>7, <1>8, <1>9 DEF Fits
<1>11. QED BY <1>2, <1>3, <1>10

(* What fits, fits without its first node,                                 *)
LEMMA FitsTail ==
  ASSUME NEW svs, Laid(svs), NEW c, NEW a, Fits(svs, c, a), c # <<>>
  PROVE  Fits(svs, Tail(c), a)
<1>1. c \in Cont BY DEF Fits
<1>2. /\ Tail(c) \in Cont /\ Addr(Tail(c)) \subseteq Addr(c)
      /\ \A d \in Cont : Shared(c, d) => Shared(Tail(c), d)
  BY <1>1, TailShared
<1> DEFINE t == Tail(c)
<1>3. t \in Cont /\ Addr(t) \subseteq Addr(c) BY <1>2
<1>4. \A d \in Cont : Shared(d, c) => Shared(d, t)
  BY <1>1, <1>2, SharedSym
<1>5. Shared(c, t) BY <1>1, <1>4 DEF Fits
<1>6. Shared(t, t) BY <1>2, <1>3, <1>5
<1> HIDE DEF t
<1>7. \A i \in 1..Len(svs) : Shared(svs[i].cont, t) BY <1>4, LaidSave DEF Fits
<1>8. Below(t, a) BY <1>3 DEF Fits, Below
<1>9. \A i, j \in 1..Len(svs) :
        i <= j => Addr(svs[i].cont) \cap Addr(t) \subseteq Addr(svs[j].cont)
  BY <1>3 DEF Fits
<1>10. QED BY <1>3, <1>6, <1>7, <1>8, <1>9 DEF Fits, t

(* and with a new one, for which the allocator moves on by one.            *)
LEMMA FitsAdd ==
  ASSUME NEW svs, Laid(svs), NEW c, NEW a, Fits(svs, c, a), NEW sp \in Spec_
  PROVE  /\ Fits(svs, Add(c, sp, a), a + 1)
         /\ Addr(c) \subseteq Addr(Add(c, sp, a)) /\ Shared(Add(c, sp, a), c)
<1> DEFINE e == Add(c, sp, a)
<1>1. /\ c \in Cont /\ a \in Nat /\ Shared(c, c) /\ Below(c, a)
      /\ \A i \in 1..Len(svs) : Shared(svs[i].cont, c) /\ Below(svs[i].cont, a)
      /\ \A i, j \in 1..Len(svs) :
           i <= j => Addr(svs[i].cont) \cap Addr(c) \subseteq Addr(svs[j].cont)
  BY DEF Fits
<1>2. e \in Cont /\ Addr(e) = Addr(c) \cup {a} BY <1>1, AddList, AddAddr
<1>3. a \notin Addr(c) BY <1>1 DEF Below
<1>4. Shared(e, c) /\ Shared(e, e) BY <1>1, <1>3, AddShared, AddBoth
<1>5. ASSUME NEW i \in 1..Len(svs) PROVE Shared(svs[i].cont, e) /\ a \notin Addr(svs[i].cont)
  <2>1. svs[i].cont \in Cont BY LaidSave
  <2>2. Shared(c, svs[i].cont) BY <1>1, <2>1, SharedSym
  <2>3. a \notin Addr(svs[i].cont) BY <1>1 DEF Below
  <2>4. Shared(e, svs[i].cont) BY <1>1, <2>1, <2>2, <2>3, AddShared
  <2>5. QED BY <1>2, <2>1, <2>3, <2>4, SharedSym
<1> HIDE DEF e
<1>6. ASSUME NEW d \in Cont, Below(d, a) PROVE Below(d, a + 1)
  <2>1. Addr(d) \subseteq Nat BY AddrNat
  <2>2. QED BY <2>1, <1>1, <1>6 DEF Below
<1>7. Below(e, a + 1)
  <2>1. Below(c, a + 1) BY <1>1, <1>6
  <2>2. a < a + 1 BY <1>1
  <2>3. QED BY <1>2, <2>1, <2>2 DEF Below
<1>8. \A i \in 1..Len(svs) : Below(svs[i].cont, a + 1) BY <1>1, <1>6, LaidSave
<1>9. \A i, j \in 1..Len(svs) :
        i <= j => Addr(svs[i].cont) \cap Addr(e) \subseteq Addr(svs[j].cont)
  BY <1>1, <1>2, <1>5
<1>10. a + 1 \in Nat BY <1>1
<1>11. Fits(svs, e, a + 1) BY <1>2, <1>4, <1>5, <1>7, <1>8, <1>9, <1>10 DEF Fits
<1>12. QED BY <1>2, <1>4, <1>11 DEF e

(* Saves that fit, and lie well among themselves, may all be put on top.   *)
LEMMA LaidConcat ==
  ASSUME NEW old, Laid(old), NEW new \in Seq(Save), Layout(new), cut => Apart(new),
         \A i \in 1..Len(new) : Fits(old, new[i].cont, new[i].As),
         cut => \A i \in 1..Len(new) : Clear(old, new[i].cont),
         \A i \in 1..Len(old) : \A j, k \in 1..Len(new) :
           Addr(old[i].cont) \cap Addr(new[k].cont) \subseteq Addr(new[j].cont)
  PROVE  Laid(old \o new)
<1> DEFINE s == old \o new
<1> HIDE DEF Save
<1>1. old \in Seq(Save) BY DEF Laid
<1>2. PICK m, n \in Nat : m = Len(old) /\ n = Len(new) BY <1>1, LenProperties
<1>3. /\ s \in Seq(Save) /\ Len(s) = m + n
      /\ \A i \in 1 .. m + n : s[i] = IF i <= m THEN old[i] ELSE new[i - m]
  BY <1>1, <1>2, ConcatProperties
<1> HIDE DEF s
<1> DEFINE Old(i) == i \in 1..Len(old) /\ i <= m /\ s[i] = old[i]
           New(i, u) == u \in 1..Len(new) /\ i = m + u /\ s[i] = new[u]
<1>4. ASSUME NEW i \in 1..Len(s) PROVE Old(i) \/ \E u \in 1..Len(new) : New(i, u)
  <2>1. CASE i <= m BY <2>1, <1>2, <1>3
  <2>2. CASE ~ (i <= m)
    <3>1. i - m \in 1..Len(new) /\ i = m + (i - m) /\ s[i] = new[i - m] BY <2>2, <1>2, <1>3
    <3>2. QED BY <3>1
  <2>3. QED BY <2>1, <2>2
<1>5. \A i, j, u : New(i, u) /\ Old(j) => ~ (i <= j) BY <1>2
<1>6. \A i, j, u, v : New(i, u) /\ New(j, v) => /\ (i <= j => u <= v)
                                              /\ (i < j => u < v)
  BY <1>2
<1>7. \A i \in 1..Len(old) : old[i].cont \in Cont BY LaidSave
<1>8. ASSUME NEW i \in 1..Len(s), NEW j \in 1..Len(s) PROVE Shared(s[i].cont, s[j].cont)
  <2>1. CASE Old(i) /\ Old(j) BY <2>1 DEF Laid, Layout
  <2>2. ASSUME Old(i), NEW v, New(j, v) PROVE Shared(s[i].cont, s[j].cont) BY <2>2 DEF Fits
  <2>3. ASSUME NEW u, New(i, u), Old(j) PROVE Shared(s[i].cont, s[j].cont)
    <3>1. Shared(old[j].cont, new[u].cont) /\ new[u].cont \in Cont BY <2>3 DEF Fits
    <3>2. Shared(new[u].cont, old[j].cont) BY <2>3, <3>1, <1>7, SharedSym
    <3>3. QED BY <2>3, <3>2
  <2>4. ASSUME NEW u, New(i, u), NEW v, New(j, v) PROVE Shared(s[i].cont, s[j].cont)
    BY <2>4 DEF Layout
  <2>5. QED BY <1>4, <2>1, <2>2, <2>3, <2>4
<1>9. ASSUME NEW i \in 1..Len(s), NEW j \in 1..Len(s), i <= j PROVE Below(s[i].cont, s[j].As)
  <2>1. CASE Old(i) /\ Old(j) BY <2>1, <1>9 DEF Laid, Layout
  <2>2. ASSUME Old(i), NEW v, New(j, v) PROVE Below(s[i].cont, s[j].As) BY <2>2 DEF Fits
  <2>3. ASSUME NEW u, New(i, u), NEW v, New(j, v) PROVE Below(s[i].cont, s[j].As)
    <3>1. u <= v BY <2>3, <1>6, <1>9
    <3>2. QED BY <2>3, <3>1 DEF Layout
  <2>4. QED BY <1>4, <1>5, <1>9, <2>1, <2>2, <2>3
<1>10. ASSUME NEW i \in 1..Len(s), NEW j \in 1..Len(s), NEW k \in 1..Len(s), i <= j, j <= k
       PROVE  Addr(s[i].cont) \cap Addr(s[k].cont) \subseteq Addr(s[j].cont)
  <2> DEFINE Goal == Addr(s[i].cont) \cap Addr(s[k].cont) \subseteq Addr(s[j].cont)
  <2>1. CASE Old(i) /\ Old(j) /\ Old(k) BY <2>1, <1>10 DEF Laid, Layout
  <2>2. ASSUME Old(i), Old(j), NEW w, New(k, w) PROVE Goal BY <2>2, <1>10 DEF Fits
  <2>3. ASSUME Old(i), NEW v, New(j, v), NEW w, New(k, w) PROVE Goal BY <2>3
  <2>4. ASSUME NEW u, New(i, u), NEW v, New(j, v), NEW w, New(k, w) PROVE Goal
    <3>1. u <= v /\ v <= w BY <2>4, <1>6, <1>10
    <3>2. QED BY <2>4, <3>1 DEF Layout
  <2>5. QED BY <1>4, <1>5, <1>10, <2>1, <2>2, <2>3, <2>4
<1>11. ASSUME cut, NEW i \in 1..Len(s), NEW j \in 1..Len(s), i < j
       PROVE  s[j].cont # <<>> /\ s[j].cont[1].at \notin Addr(s[i].cont)
  <2> DEFINE Goal == s[j].cont # <<>> /\ s[j].cont[1].at \notin Addr(s[i].cont)
  <2>1. CASE Old(i) /\ Old(j) BY <2>1, <1>11 DEF Laid, Apart
  <2>2. ASSUME Old(i), NEW v, New(j, v) PROVE Goal BY <2>2, <1>11 DEF Clear
  <2>3. ASSUME NEW u, New(i, u), NEW v, New(j, v) PROVE Goal
    <3>1. u < v BY <2>3, <1>6, <1>11
    <3>2. QED BY <2>3, <3>1, <1>11 DEF Apart
  <2>4. i <= j BY <1>3, <1>11
  <2>5. QED BY <1>4, <1>5, <2>1, <2>2, <2>3, <2>4
<1>12. Layout(s) BY <1>8, <1>9, <1>10 DEF Layout
<1>13. QED BY <1>3, <1>11, <1>12 DEF Laid, Apart, s

(* A save of what fits keeps the layout; with cut, its first node must be  *)
(* in no save below.                                                       *)
LEMMA LaidPush ==
  ASSUME NEW svs, Laid(svs), NEW c, NEW a, Fits(svs, c, a), cut => Clear(svs, c),
         NEW ss \in State
  PROVE  /\ Laid(Append(svs, [cont |-> c, ss |-> ss, As |-> a]))
         /\ Len(Append(svs, [cont |-> c, ss |-> ss, As |-> a])) = Len(svs) + 1
         /\ Append(svs, [cont |-> c, ss |-> ss, As |-> a])[Len(svs) + 1].cont = c
         /\ \A i \in 1..Len(svs) : Append(svs, [cont |-> c, ss |-> ss, As |-> a])[i] = svs[i]
<1> DEFINE x == [cont |-> c, ss |-> ss, As |-> a]
           new == <<x>>
<1>1. c \in Cont /\ a \in Nat /\ Shared(c, c) /\ Below(c, a) BY DEF Fits
<1>2. x \in Save /\ x.cont = c /\ x.As = a BY <1>1 DEF Save
<1>3. svs \in Seq(Save) BY DEF Laid
<1> HIDE DEF Save, x
<1>4. new \in Seq(Save) /\ Len(new) = 1 /\ new[1] = x /\ 1..Len(new) = {1} BY <1>2
<1>5. Append(svs, x) = svs \o new BY <1>2, <1>3, AppendIsConcat
<1>6. /\ Len(Append(svs, x)) = Len(svs) + 1 /\ Append(svs, x)[Len(svs) + 1] = x
      /\ \A i \in 1..Len(svs) : Append(svs, x)[i] = svs[i]
  BY <1>2, <1>3, AppendProperties
<1> HIDE DEF new
<1>7. Layout(new) /\ Apart(new) BY <1>1, <1>2, <1>4 DEF Layout, Apart
<1>8. /\ \A i \in 1..Len(new) : Fits(svs, new[i].cont, new[i].As)
      /\ cut => \A i \in 1..Len(new) : Clear(svs, new[i].cont)
  BY <1>2, <1>4
<1>9. \A i \in 1..Len(svs) : \A j, k \in 1..Len(new) :
        Addr(svs[i].cont) \cap Addr(new[k].cont) \subseteq Addr(new[j].cont)
  BY <1>4
<1>10. Laid(svs \o new) BY <1>4, <1>7, <1>8, <1>9, LaidConcat
<1>11. QED BY <1>2, <1>5, <1>6, <1>10 DEF x

(***************************************************************************)
(* Div::save.  A list leads back to d if it contains the first node of d:  *)
(* for lists that share this is what pointer_equal says.                   *)
(***************************************************************************)
LEMMA ThroughHead ==
  ASSUME NEW c \in Cont, NEW d \in Cont
  PROVE  /\ d = <<>> => Through(c, d)
         /\ d # <<>> /\ Through(c, d) => d[1].at \in Addr(c)
         /\ d # <<>> /\ Shared(c, d) /\ d[1].at \in Addr(c) => Through(c, d)
<1> DEFINE n == Len(d)
           m == Len(c) - n + 1
           s == SubSeq(c, m, Len(c))
<1>1. c \in Seq(Node) /\ d \in Seq(Node) /\ Len(c) \in Nat /\ n \in Nat
  BY AddrNat DEF Cont, Node
<1>2. Suffix(c, Len(d)) = s BY DEF Suffix
<1>3. ASSUME d = <<>> PROVE Through(c, d)
  <2>1. n = 0 BY <1>3
  <2>2. s = <<>> BY <1>1, <2>1, SubSeqEmpty
  <2>3. QED BY <1>1, <1>2, <1>3, <2>1, <2>2 DEF Through, PointerEqual
<1>4. ASSUME d # <<>>, Len(c) >= n
      PROVE  Through(c, d) <=> c[m].at = d[1].at
  <2> HIDE DEF Node
  <2>1. n # 0 /\ Head(d) = d[1] BY <1>1, <1>4, EmptySeq
  <2>2. m \in 1..Len(c) BY <1>1, <1>4, <2>1
  <2>3. \A i \in m..Len(c) : c[i] \in Node BY <1>1, <2>2, ElementOfSeq
  <2>4. /\ s \in Seq(Node)
        /\ Len(s) = IF m <= Len(c) THEN Len(c) - m + 1 ELSE 0
        /\ \A i \in 1 .. Len(c) - m + 1 : s[i] = c[m + i - 1]
    BY <1>1, <2>2, <2>3, SubSeqProperties
  <2>5. Len(s) = n /\ 1 \in 1 .. Len(c) - m + 1 /\ m + 1 - 1 = m BY <1>1, <2>1, <2>2, <2>4
  <2>6. s[1] = c[m] BY <2>4, <2>5
  <2> HIDE DEF s, m
  <2>7. s # <<>> /\ Head(s) = s[1]
    <3>1. Len(<<>>) = 0 BY EmptySeq
    <3>2. s # <<>> BY <3>1, <2>1, <2>5
    <3>3. QED BY <3>2, <2>4
  <2>8. QED BY <1>2, <1>4, <2>1, <2>6, <2>7 DEF Through, PointerEqual
<1>5. ASSUME d # <<>>, Through(c, d) PROVE d[1].at \in Addr(c)
  <2>1. Len(c) >= n BY <1>5 DEF Through
  <2>2. c[m].at = d[1].at BY <1>4, <1>5, <2>1
  <2>3. n # 0 BY <1>1, <1>5
  <2>4. m \in 1..Len(c) BY <1>1, <2>1, <2>3
  <2>5. QED BY <2>2, <2>4 DEF Addr
<1>6. ASSUME d # <<>>, Shared(c, d), d[1].at \in Addr(c) PROVE Through(c, d)
  <2>1. PICK p \in 1..Len(c) : c[p].at = d[1].at BY <1>6 DEF Addr
  <2>2. n # 0 BY <1>1, <1>6
  <2>3. SameTail(c, p, d, 1) BY <1>1, <1>6, <2>1, <2>2 DEF Shared
  <2>4. Len(c) - p = n - 1 BY <2>3 DEF SameTail
  <2>5. p = m /\ Len(c) >= n BY <1>1, <2>4
  <2>6. QED BY <1>4, <1>6, <2>1, <2>5
<1>7. QED BY <1>3, <1>5, <1>6

(* What is left after the pops of cut does not contain the first node of   *)
(* the continuation to be saved: not only the save where the pops stop.    *)
LEMMA KeptClear ==
  ASSUME NEW svs, Laid(svs), NEW c, NEW a, Fits(svs, c, a)
  PROVE  /\ Laid(Kept(svs, c))
         /\ \A d, b : Fits(svs, d, b) => Fits(Kept(svs, c), d, b)
         /\ cut => Clear(Kept(svs, c), c)
<1>1. PICK k \in 0..Len(svs) : /\ Kept(svs, c) = SubSeq(svs, 1, k)
                               /\ cut => k = 0 \/ ~ Through(svs[k].cont, c)
  BY KeptPrefix DEF Laid
<1> DEFINE s == SubSeq(svs, 1, k)
<1>2. /\ Laid(s) /\ Len(s) = k
      /\ \A d, b : Fits(svs, d, b) => Fits(s, d, b)
      /\ \A i \in 1..k : i \in 1..Len(svs) /\ s[i] = svs[i]
  BY LaidPrefix
<1> HIDE DEF s
<1>3. ASSUME cut, NEW i \in 1..Len(s) PROVE c # <<>> /\ c[1].at \notin Addr(s[i].cont)
  <2>1. i \in 1..k /\ i <= k /\ k \in 1..k /\ k # 0
    <3>1. k \in Nat /\ i \in Nat /\ 1 <= i /\ i <= k BY <1>2
    <3>2. QED BY <3>1
  <2>2. i \in 1..Len(svs) /\ k \in 1..Len(svs) /\ s[i] = svs[i] BY <1>2, <2>1
  <2>3. ~ Through(svs[k].cont, c) BY <1>1, <1>3, <2>1
  <2>4. svs[k].cont \in Cont /\ c \in Cont BY <2>2, LaidSave DEF Fits
  <2>5. c # <<>> BY <2>3, <2>4, ThroughHead
  <2>6. Shared(svs[k].cont, c) BY <2>2 DEF Fits
  <2>7. c[1].at \notin Addr(svs[k].cont) BY <2>3, <2>4, <2>5, <2>6, ThroughHead
  <2>8. Addr(svs[i].cont) \cap Addr(c) \subseteq Addr(svs[k].cont) BY <2>1, <2>2 DEF Fits
  <2>9. c[1].at \in Addr(c)
    <3>1. Len(c) \in Nat \ {0}
      <4>1. c \in Seq(Node) BY <2>4 DEF Cont, Node
      <4> HIDE DEF Node
      <4>2. QED BY <2>5, <4>1, EmptySeq
    <3>2. 1 \in 1..Len(c) BY <3>1
    <3>3. QED BY <3>2 DEF Addr
  <2>10. QED BY <2>2, <2>5, <2>7, <2>8, <2>9
<1>4. QED BY <1>1, <1>2, <1>3 DEF Clear, s

(* Div::save keeps the layout.                                             *)
LEMMA LaidSaved ==
  ASSUME NEW svs, Laid(svs), NEW c, NEW a, Fits(svs, c, a), NEW ss \in State
  PROVE  Laid(Saved(svs, c, ss, a))
<1>1. Laid(Kept(svs, c)) /\ Fits(Kept(svs, c), c, a) /\ (cut => Clear(Kept(svs, c), c))
  BY KeptClear
<1>2. QED BY <1>1, LaidPush DEF Saved

(* On a saved continuation fits, with the allocator where it is, what the  *)
(* continuation was made from.                                             *)
LEMMA FitsSaved ==
  ASSUME NEW svs, Laid(svs), NEW c, NEW a, Fits(svs, c, a), NEW d, NEW b, Fits(svs, d, b),
         Addr(d) \subseteq Addr(c), Shared(c, d), NEW ss \in State
  PROVE  Fits(Saved(svs, c, ss, a), d, a)
<1> DEFINE kept == Kept(svs, c)
           x == [cont |-> c, ss |-> ss, As |-> a]
           s == Append(kept, x)
<1>1. Laid(kept) /\ Fits(kept, c, a) /\ Fits(kept, d, b) /\ (cut => Clear(kept, c))
  BY KeptClear
<1>2. Saved(svs, c, ss, a) = s BY DEF Saved
<1> HIDE DEF kept
<1>3. /\ Len(s) = Len(kept) + 1 /\ s[Len(kept) + 1].cont = c
      /\ \A i \in 1..Len(kept) : s[i] = kept[i]
  BY <1>1, LaidPush
<1> HIDE DEF s, x
<1>4. /\ d \in Cont /\ a \in Nat /\ Shared(d, d) /\ Below(c, a)
      /\ \A i \in 1..Len(kept) : Shared(kept[i].cont, d) /\ Below(kept[i].cont, a)
  BY <1>1 DEF Fits
<1>5. Below(d, a) BY <1>4 DEF Below
<1>6. Len(kept) \in Nat
  <2> HIDE DEF Save
  <2>1. QED BY <1>1, LenProperties DEF Laid
<1>7. \A i \in 1..Len(s) : i \in 1..Len(kept) \/ i = Len(kept) + 1 BY <1>3, <1>6
<1>8. \A i \in 1..Len(s) : Shared(s[i].cont, d) /\ Below(s[i].cont, a)
  BY <1>3, <1>4, <1>7
<1>9. ASSUME NEW i \in 1..Len(s), NEW j \in 1..Len(s), i <= j
      PROVE  Addr(s[i].cont) \cap Addr(d) \subseteq Addr(s[j].cont)
  <2>1. CASE j = Len(kept) + 1 BY <2>1, <1>3
  <2>2. CASE j \in 1..Len(kept)
    <3>1. i \in 1..Len(kept) BY <2>2, <1>6, <1>7, <1>9
    <3>2. QED BY <2>2, <3>1, <1>1, <1>3, <1>9 DEF Fits
  <2>3. QED BY <2>1, <2>2, <1>7
<1>10. QED BY <1>2, <1>4, <1>5, <1>8, <1>9 DEF Fits

(* The allocator may be moved on.                                          *)
LEMMA FitsLater ==
  ASSUME NEW svs, Laid(svs), NEW c, NEW a, Fits(svs, c, a), NEW b \in Nat, a <= b
  PROVE  Fits(svs, c, b)
<1>1. c \in Cont /\ a \in Nat BY DEF Fits
<1>2. ASSUME NEW d \in Cont, Below(d, a) PROVE Below(d, b)
  <2>1. Addr(d) \subseteq Nat BY AddrNat
  <2>2. QED BY <2>1, <1>1, <1>2 DEF Below
<1>3. Below(c, b) BY <1>1, <1>2 DEF Fits
<1>4. \A i \in 1..Len(svs) : Below(svs[i].cont, b) BY <1>2, LaidSave DEF Fits
<1>5. QED BY <1>3, <1>4 DEF Fits

(* The saves a task leaves that offers alternatives with the specs sp.     *)
Alternatives(c, sp, n, b, ss) ==
  [i \in 1..n |-> [cont |-> Add(c, sp[i], b + i - 1), ss |-> ss, As |-> b + i]]

(* The alternatives of a task, each in front of the same continuation and  *)
(* one address further than the last, keep the layout (Proxy::or_).        *)
LEMMA LaidAlternatives ==
  ASSUME NEW svs, Laid(svs), NEW c, NEW b, Fits(svs, c, b),
         NEW n \in Nat, n # 0, NEW sp \in [1..n -> Spec_], NEW ss \in State
  PROVE  Laid(Kept(svs, Alternatives(c, sp, n, b, ss)[1].cont) \o Alternatives(c, sp, n, b, ss))
<1> DEFINE new == Alternatives(c, sp, n, b, ss)
           old == Kept(svs, new[1].cont)
<1>1. c \in Cont /\ b \in Nat /\ Shared(c, c) /\ Below(c, b) /\ 1 \in 1..n BY DEF Fits
<1>2. Addr(c) \subseteq Nat BY <1>1, AddrNat
<1>3. ASSUME NEW i \in 1..n, NEW a, a = b + i - 1
      PROVE  /\ new[i] = [cont |-> Add(c, sp[i], a), ss |-> ss, As |-> b + i]
             /\ new[i].cont = Add(c, sp[i], a)
  BY <1>3 DEF Alternatives
<1>4. new = [i \in 1..n |-> new[i]] BY DEF Alternatives
<1> HIDE DEF new
<1>5. Laid(old) /\ Fits(old, c, b)
  <2>1. new[1].cont = Add(c, sp[1], b) /\ sp[1] \in Spec_
    <3>1. b + 1 - 1 = b BY <1>1
    <3>2. new[1].cont = Add(c, sp[1], b) BY <1>1, <1>3, <3>1
    <3>3. QED BY <3>2, <1>1
  <2>2. Fits(svs, new[1].cont, b + 1) BY <2>1, FitsAdd
  <2>3. QED BY <2>2, KeptClear
<1> HIDE DEF old
<1>6. ASSUME NEW i \in 1..n
      PROVE  /\ new[i] \in Save /\ new[i].As = b + i
             /\ new[i].cont \in Cont /\ new[i].cont # <<>> /\ new[i].cont[1].at = b + i - 1
             /\ Addr(new[i].cont) = Addr(c) \cup {b + i - 1}
             /\ Fits(old, new[i].cont, b + i)
  <2>1. PICK a \in Nat : a = b + i - 1 BY <1>1
  <2>2. b <= a /\ b + i = a + 1 /\ a + 1 \in Nat BY <2>1, <1>1
  <2>3. sp[i] \in Spec_ OBVIOUS
  <2> DEFINE d == Add(c, sp[i], a)
  <2>4. d \in Cont /\ d # <<>> BY <1>1, <2>3, AddList
  <2>5. d[1].at = a /\ Addr(d) = Addr(c) \cup {a} BY <1>1, <2>3, AddAddr
  <2>6. Fits(old, c, a) BY <1>5, <2>2, FitsLater
  <2>7. Fits(old, d, a + 1) BY <1>5, <2>3, <2>6, FitsAdd
  <2>8. new[i] = [cont |-> d, ss |-> ss, As |-> a + 1] BY <1>3, <2>1, <2>2
  <2> HIDE DEF d
  <2>9. new[i] \in Save BY <2>2, <2>4, <2>8 DEF Save
  <2>10. new[i].cont = d /\ new[i].As = a + 1 BY <2>8
  <2>11. QED BY <2>1, <2>2, <2>4, <2>5, <2>7, <2>9, <2>10
<1>7. new \in Seq(Save) /\ Len(new) = n
  <2> HIDE DEF Save
  <2>1. new \in [1..n -> Save] BY <1>4, <1>6
  <2>2. QED BY <2>1, FunIsSeq
<1>8. \A i \in 1..n : b + i - 1 \notin Addr(c) BY <1>1 DEF Below
<1>9. ASSUME NEW i \in 1..n, NEW j \in 1..n PROVE Shared(new[i].cont, new[j].cont)
  <2>1. PICK a \in Nat, e \in Nat : a = b + i - 1 /\ e = b + j - 1 BY <1>1
  <2>2. e = a => i = j BY <2>1, <1>1
  <2>3. a \notin Addr(c) /\ e \notin Addr(c) BY <2>1, <1>8
  <2>4. sp[i] \in Spec_ /\ sp[j] \in Spec_ OBVIOUS
  <2>5. Shared(Add(c, sp[i], a), Add(c, sp[j], e)) BY <1>1, <2>2, <2>3, <2>4, AddBoth
  <2>6. new[i].cont = Add(c, sp[i], a) /\ new[j].cont = Add(c, sp[j], e) BY <2>1, <1>3
  <2>7. QED BY <2>5, <2>6
<1>10. ASSUME NEW i \in 1..n, NEW j \in 1..n, i <= j PROVE Below(new[i].cont, new[j].As)
  <2>1. \A x \in Addr(c) \cup {b + i - 1} : x < b + j BY <1>1, <1>2, <1>10 DEF Below
  <2>2. QED BY <2>1, <1>6 DEF Below
<1>11. ASSUME NEW i \in 1..n, NEW j \in 1..n, NEW k \in 1..n, i <= j, j <= k
       PROVE  Addr(new[i].cont) \cap Addr(new[k].cont) \subseteq Addr(new[j].cont)
  <2>1. Addr(new[i].cont) = Addr(c) \cup {b + i - 1} BY <1>6
  <2>2. Addr(new[k].cont) = Addr(c) \cup {b + k - 1} BY <1>6
  <2>3. Addr(c) \subseteq Addr(new[j].cont) BY <1>6
  <2>4. i = j \/ b + i - 1 # b + k - 1 BY <1>1, <1>11
  <2>5. CASE i = j BY <2>5
  <2>6. CASE b + i - 1 # b + k - 1 BY <2>1, <2>2, <2>3, <2>6
  <2>7. QED BY <2>4, <2>5, <2>6
<1>12. Layout(new) BY <1>7, <1>9, <1>10, <1>11 DEF Layout
<1>13. ASSUME NEW i \in 1..n, NEW j \in 1..n, i < j
       PROVE  new[j].cont # <<>> /\ new[j].cont[1].at \notin Addr(new[i].cont)
  <2>1. b + j - 1 # b + i - 1 BY <1>1, <1>13
  <2>2. QED BY <2>1, <1>6, <1>8
<1>14. Apart(new) BY <1>7, <1>13 DEF Apart
<1>15. ASSUME NEW i \in 1..Len(old), NEW j \in 1..n PROVE b + j - 1 \notin Addr(old[i].cont)
  <2>1. old[i].cont \in Cont /\ Below(old[i].cont, b) BY <1>5, LaidSave DEF Fits
  <2>2. Addr(old[i].cont) \subseteq Nat BY <2>1, AddrNat
  <2>3. ~ (b + j - 1 < b) BY <1>1
  <2>4. QED BY <2>1, <2>3 DEF Below
<1>16. \A j \in 1..n : Clear(old, new[j].cont) BY <1>6, <1>15 DEF Clear
<1>17. ASSUME NEW i \in 1..Len(old), NEW j \in 1..n, NEW k \in 1..n
       PROVE  Addr(old[i].cont) \cap Addr(new[k].cont) \subseteq Addr(new[j].cont)
  <2>1. Addr(new[k].cont) = Addr(c) \cup {b + k - 1} BY <1>6
  <2>2. b + k - 1 \notin Addr(old[i].cont) BY <1>15
  <2>3. Addr(c) \subseteq Addr(new[j].cont) BY <1>6
  <2>4. QED BY <2>1, <2>2, <2>3
<1>18. \A i \in 1..n : Fits(old, new[i].cont, new[i].As) BY <1>6
<1>19. Laid(old \o new) BY <1>5, <1>7, <1>12, <1>14, <1>16, <1>17, <1>18, LaidConcat
<1>20. QED BY <1>19 DEF old, new

(***************************************************************************)
(* The steps.  All of them start from the save on top, and so from what    *)
(* fits on the saves below it.                                             *)
(***************************************************************************)
LEMMA TopFits ==
  ASSUME IInv, Laid(saves), saves # <<>>
  PROVE  /\ Laid(Rest) /\ Top.ss \in State /\ Top.As \in Nat
         /\ Top.cont # <<>> => Fits(Rest, Later, Top.As)
<1>1. Laid(Rest) /\ Fits(Rest, Top.cont, Top.As) BY LaidTop DEF Rest, Top
<1>2. Top.cont # <<>> => Fits(Rest, Later, Top.As) BY <1>1, FitsTail DEF Later
<1>3. QED BY <1>1, <1>2, TopGood

(* At the start there is one save.                                         *)
LEMMA StartLaid ==
  ASSUME NEW t \in Starts, NEW l \in Limits, NEW ss \in State, NEW b \in Nat
  PROVE  Laid(Started(t, l, ss, b))
<1> DEFINE sp == OneTaskSpec(t, 0, l)
<1>1. sp \in Spec_
  <2>1. t \in Task /\ l \in Nat BY EngineAssumption
  <2>2. QED BY <2>1 DEF OneTaskSpec, Spec_, OneTask
<1> HIDE DEF sp
<1>2. Laid(<<>>) BY DEF Laid, Layout, Apart
<1>3. Fits(<<>>, <<>>, b)
  <2>1. <<>> \in Cont /\ Addr(<<>>) = {} /\ Shared(<<>>, <<>>) BY DEF Cont, Addr, Shared
  <2>2. QED BY <2>1 DEF Fits, Below
<1>4. Fits(<<>>, Add(<<>>, sp, b), b + 1) BY <1>1, <1>2, <1>3, FitsAdd
<1>5. Laid(Saved(<<>>, Add(<<>>, sp, b), ss, b + 1)) BY <1>2, <1>4, LaidSaved
<1>6. QED BY <1>5, SavedFirst DEF Started, sp

(* The layout of the engine as it starts.                                  *)
LEMMA InitLaid == Init => Laid(saves)
<1>1. ASSUME Init PROVE Laid(saves)
  <2>1. PICK t \in Starts, l \in Limits : saves = Started(t, l, state, 0) BY <1>1 DEF Init
  <2>2. state \in State BY <1>1, InitGood DEF IInv, TypeOK
  <2>3. QED BY <2>1, <2>2, StartLaid
<1>2. QED BY <1>1

(* The continuation the Proxy gets fits.                                   *)
LEMMA ProxyFits ==
  ASSUME IInv, Laid(saves), Popped("task") PROVE Fits(Rest, ProxyCont, ProxyBrk)
<1>1. Laid(Rest) /\ Fits(Rest, Later, Top.As) BY TopFits DEF Popped
<1>2. /\ nodes \in Nat /\ First \in Spec_ /\ First.kind = "task"
  BY TopGood, FirstGood DEF Popped
<1>3. First.min \in Nat BY <1>2, SpecKinds
<1>4. CASE First.min > 0
  <2> DEFINE sp == CheckMinSpec(nodes + First.min)
  <2>1. sp \in Spec_ BY <1>2, <1>3 DEF CheckMinSpec, Spec_, CheckMin
  <2>2. ProxyCont = Add(Later, sp, Top.As) /\ ProxyBrk = Top.As + 1
    BY <1>4 DEF ProxyCont, ProxyBrk
  <2> HIDE DEF sp
  <2>3. QED BY <1>1, <2>1, <2>2, FitsAdd
<1>5. CASE ~ (First.min > 0) BY <1>1, <1>5 DEF ProxyCont, ProxyBrk
<1>6. QED BY <1>4, <1>5

(* The alternatives a task offers.                                         *)
LEMMA OffersLaid ==
  ASSUME IInv, FrameFits, Laid(saves), TaskOffers PROVE Laid(saves')
<1> DEFINE n == Len(Ran.tasks)
           sp == [i \in 1..n |-> OneTaskSpec(Ran.tasks[i], 0, First.max)]
           new == Alternatives(ProxyCont, sp, n, ProxyBrk, state')
<1>1. Running("or") /\ saves # <<>> /\ Popped("task") BY DEF TaskOffers, Running, Popped
<1>2. Laid(Rest) /\ Fits(Rest, ProxyCont, ProxyBrk) BY <1>1, TopFits, ProxyFits
<1>3. Ran \in Outcome /\ state' \in State /\ First.max \in Nat BY <1>1, RanGood
<1>4. Ran.tasks \in Seq(Task) BY <1>3 DEF Outcome
<1>5. n \in Nat /\ (Ran.tasks # <<>> => n # 0) BY <1>4, EmptySeq, LenProperties
<1>6. sp \in [1..n -> Spec_]
  <2>1. \A i \in 1..n : Ran.tasks[i] \in Task BY <1>4, ElementOfSeq
  <2>2. \A i \in 1..n : OneTaskSpec(Ran.tasks[i], 0, First.max) \in Spec_
    BY <1>3, <2>1 DEF OneTaskSpec, Spec_, OneTask
  <2>3. QED BY <2>2
<1>7. saves' = IF Ran.tasks = <<>> THEN Rest ELSE Kept(Rest, new[1].cont) \o new
  <2> DEFINE alt(i) == [cont |-> Add(ProxyCont, OneTaskSpec(Ran.tasks[i], 0, First.max), ProxyBrk + i - 1),
                        ss |-> state', As |-> ProxyBrk + i]
  <2>1. saves' = IF Ran.tasks = <<>> THEN Rest
                 ELSE Kept(Rest, alt(1).cont) \o [i \in 1..n |-> alt(i)]
    BY DEF TaskOffers, Offer
  <2>2. new = [i \in 1..n |-> alt(i)] BY DEF Alternatives
  <2>3. Ran.tasks # <<>> => new[1] = alt(1)
    <3>1. Ran.tasks # <<>> => 1 \in 1..n BY <1>5
    <3> HIDE DEF alt, new
    <3>2. QED BY <2>2, <3>1
  <2> HIDE DEF alt, new
  <2>4. QED BY <2>1, <2>2, <2>3
<1> HIDE DEF sp, n
<1>8. Ran.tasks # <<>> => Laid(Kept(Rest, new[1].cont) \o new)
  BY <1>2, <1>3, <1>5, <1>6, LaidAlternatives
<1> HIDE DEF new
<1>9. QED BY <1>2, <1>7, <1>8

(* The tasks a task asks for.                                              *)
LEMMA AsksLaid ==
  ASSUME IInv, FrameFits, Laid(saves), TaskAsks PROVE Laid(saves')
<1> DEFINE sp == TaskSetSpec(Reverse(Ran.tasks), First.max)
<1>1. /\ Running("and") /\ saves # <<>> /\ Popped("task")
      /\ saves' = Saved(Rest, Add(ProxyCont, sp, ProxyBrk), state', ProxyBrk + 1)
  BY DEF TaskAsks, Running, Popped
<1>2. sp \in Spec_ /\ state' \in State BY <1>1, AskedSpec, RanGood
<1> HIDE DEF sp
<1>3. Laid(Rest) /\ Fits(Rest, ProxyCont, ProxyBrk) BY <1>1, TopFits, ProxyFits
<1>4. Fits(Rest, Add(ProxyCont, sp, ProxyBrk), ProxyBrk + 1) BY <1>2, <1>3, FitsAdd
<1>5. QED BY <1>1, <1>2, <1>3, <1>4, LaidSaved

(* The half in which the first task takes at most its share fits, and in   *)
(* front of the later tasks it has only new nodes.                         *)
LEMMA ShareFits ==
  ASSUME IInv, Laid(saves), Popped("taskset"), First.tasks # <<>>
  PROVE  /\ Fits(Rest, ShareCont, ShareBrk)
         /\ Addr(Later) \subseteq Addr(ShareCont) /\ Shared(ShareCont, Later)
<1> DEFINE rest == TaskSetSpec(others, First.max)
           one == OneTaskSpec(Head(First.tasks), 0, nodes + head_budget)
           c == IF others = <<>> THEN Later ELSE Add(Later, rest, Top.As)
           b == Top.As + Len(c) - Len(Later)
<1>1. /\ Laid(Rest) /\ Fits(Rest, Later, Top.As) /\ Top.As \in Nat
  BY TopFits DEF Popped
<1>2. /\ nodes \in Nat /\ First.max \in Nat /\ head_budget \in Nat
      /\ Head(First.tasks) \in Task /\ others \in Seq(Task) /\ Later \in Cont
  BY SplitNumbers
<1>3. rest \in Spec_ /\ one \in Spec_
  BY <1>2 DEF TaskSetSpec, OneTaskSpec, Spec_, TaskSet, OneTask
<1>4. ShareCont = Add(c, one, b) BY DEF ShareCont
<1> HIDE DEF rest, one
<1>5. /\ Fits(Rest, Add(Later, rest, Top.As), Top.As + 1)
      /\ Addr(Later) \subseteq Addr(Add(Later, rest, Top.As))
      /\ Shared(Add(Later, rest, Top.As), Later)
  BY <1>1, <1>3, FitsAdd
<1>6. Len(Add(Later, rest, Top.As)) = Len(Later) + 1 /\ Len(Later) \in Nat
  <2>1. Len(Add(Later, rest, Top.As)) = Len(Later) + 1
    BY <1>1, <1>2, <1>3, AddList
  <2>2. Len(Later) \in Nat BY <1>2, AddrNat
  <2>3. QED BY <2>1, <2>2
<1>7. /\ Fits(Rest, c, b) /\ Addr(Later) \subseteq Addr(c) /\ Shared(c, Later)
      /\ b = Top.As + Len(c) - Len(Later) /\ Len(c) \in Nat /\ b \in Nat
  <2>1. CASE others = <<>>
    <3>1. c = Later /\ b = Top.As BY <2>1, <1>1, <1>6
    <3>2. QED BY <3>1, <1>1, <1>6 DEF Fits
  <2>2. CASE others # <<>>
    <3>1. c = Add(Later, rest, Top.As) /\ b = Top.As + 1 BY <2>2, <1>1, <1>6
    <3>2. QED BY <3>1, <1>1, <1>5, <1>6
  <2>3. QED BY <2>1, <2>2
<1> HIDE DEF c, b
<1>8. Fits(Rest, ShareCont, b + 1) /\ Addr(c) \subseteq Addr(ShareCont)
  BY <1>1, <1>3, <1>4, <1>7, FitsAdd
<1>9. c \in Cont /\ Below(c, b) BY <1>7 DEF Fits
<1>10. b \notin Addr(Later) BY <1>7, <1>9 DEF Below
<1>11. Shared(ShareCont, Later) BY <1>2, <1>3, <1>4, <1>7, <1>9, <1>10, AddShared
<1>12. Len(ShareCont) = Len(c) + 1 BY <1>3, <1>4, <1>7, <1>9, AddList
<1>13. ShareBrk = b + 1 BY <1>1, <1>6, <1>7, <1>12 DEF ShareBrk
<1>14. QED BY <1>7, <1>8, <1>11, <1>13

(* Dividing a task set keeps the layout: the second half lies above the    *)
(* first and shares the later tasks with it.                               *)
LEMMA SplitsLaid ==
  ASSUME IInv, Laid(saves), SetSplits PROVE Laid(saves')
<1> DEFINE share == Saved(Rest, ShareCont, Top.ss, ShareBrk)
           more == Saved(share, MoreCont, Top.ss, ShareBrk + 2)
           one == OneTaskSpec(Head(First.tasks), head_budget + 1, First.max)
           rest == TaskSetSpec(others, First.max - (head_budget + 1))
<1>1. /\ Popped("taskset") /\ First.tasks # <<>> /\ saves # <<>> /\ Top.cont # <<>>
      /\ saves' = IF CanTakeMore THEN more ELSE share
  BY DEF SetSplits, Popped
<1>2. Laid(Rest) /\ Top.ss \in State /\ Fits(Rest, Later, Top.As) BY <1>1, TopFits
<1>3. /\ Fits(Rest, ShareCont, ShareBrk)
      /\ Addr(Later) \subseteq Addr(ShareCont) /\ Shared(ShareCont, Later)
  BY <1>1, ShareFits
<1>4. Laid(share) BY <1>2, <1>3, LaidSaved
<1>5. Fits(share, Later, ShareBrk) BY <1>2, <1>3, FitsSaved
<1> HIDE DEF share
<1>6. ASSUME CanTakeMore PROVE Laid(more)
  <2>1. /\ nodes \in Nat /\ First.max \in Nat /\ head_budget \in Nat
        /\ nodes + head_budget + 1 <= First.max
        /\ Head(First.tasks) \in Task /\ others \in Seq(Task)
    BY <1>1, <1>6, SplitNumbers
  <2>2. First.max - (head_budget + 1) \in Nat /\ head_budget + 1 \in Nat BY <2>1
  <2>3. one \in Spec_ /\ rest \in Spec_
    BY <2>1, <2>2 DEF TaskSetSpec, OneTaskSpec, Spec_, TaskSet, OneTask
  <2>4. MoreCont = Add(Add(Later, one, ShareBrk), rest, ShareBrk + 1) BY DEF MoreCont
  <2> HIDE DEF one, rest
  <2>5. ShareBrk \in Nat BY <1>3 DEF Fits
  <2>6. Fits(share, Add(Later, one, ShareBrk), ShareBrk + 1) BY <1>4, <1>5, <2>3, FitsAdd
  <2>7. Fits(share, MoreCont, ShareBrk + 1 + 1) BY <1>4, <2>3, <2>4, <2>6, FitsAdd
  <2>8. ShareBrk + 1 + 1 = ShareBrk + 2 BY <2>5
  <2>9. Fits(share, MoreCont, ShareBrk + 2) BY <2>7, <2>8
  <2>10. QED BY <1>2, <1>4, <2>9, LaidSaved
<1> HIDE DEF more
<1>7. QED BY <1>1, <1>4, <1>6

(* Every step keeps the layout.                                            *)
LEMMA StepLaid == IInv /\ FrameFits /\ Laid(saves) /\ [Next]_vars => Laid(saves)'
<1> SUFFICES ASSUME IInv, FrameFits, Laid(saves), [Next]_vars PROVE Laid(saves)' OBVIOUS
<1>1. ASSUME saves # <<>> PROVE Laid(Rest) BY <1>1, TopFits
<1>2. ASSUME saves # <<>>, Top.cont # <<>> PROVE Laid(Saved(Rest, Later, Top.ss, Top.As))
  BY <1>2, TopFits, LaidSaved
<1>3. Laid(saves') /\ cut' = cut
  <2>1. CASE Succeed BY <2>1, <1>1 DEF Succeed, Leave
  <2>2. CASE CheckMinFails BY <2>2, <1>1 DEF CheckMinFails, Popped, Leave
  <2>3. CASE CheckMinHolds BY <2>3, <1>2 DEF CheckMinHolds, Popped, Leave
  <2>4. CASE TaskTooBig BY <2>4, <1>1 DEF TaskTooBig, Popped, Leave
  <2>5. CASE TaskFails BY <2>5, <1>1 DEF TaskFails, Running, Popped
  <2>6. CASE TaskOffers
    <3>1. cut' = cut BY <2>6 DEF TaskOffers, Running, Popped
    <3>2. QED BY <2>6, <3>1, OffersLaid
  <2>7. CASE TaskAsks
    <3>1. cut' = cut BY <2>7 DEF TaskAsks, Running, Popped
    <3>2. QED BY <2>7, <3>1, AsksLaid
  <2>8. CASE SetDone BY <2>8, <1>2 DEF SetDone, Popped, Leave
  <2>9. CASE SetSplits
    <3>1. cut' = cut BY <2>9 DEF SetSplits, Popped
    <3>2. QED BY <2>9, <3>1, SplitsLaid
  <2>10. CASE UNCHANGED vars BY <2>10 DEF vars
  <2>11. QED
    BY <2>1, <2>2, <2>3, <2>4, <2>5, <2>6, <2>7, <2>8, <2>9, <2>10 DEF Next
<1>4. QED BY <1>3 DEF Laid

(* The layout holds in every state.                                        *)
LEMMA AlwaysLaid == Spec /\ []FrameFits => [](IInv /\ Laid(saves))
<1>1. Init => IInv /\ Laid(saves) BY InitGood, InitLaid
<1>2. IInv /\ FrameFits /\ Laid(saves) /\ [Next]_vars => (IInv /\ Laid(saves))'
  BY StepGood, StepLaid
<1>3. QED BY <1>1, <1>2, PTL DEF Spec

(* Lists with the same nodes from p and from q on have the same suffix.    *)
LEMMA SameSuffix ==
  ASSUME NEW c \in Cont, NEW d \in Cont, NEW p \in 1..Len(c), NEW q \in 1..Len(d),
         SameTail(c, p, d, q)
  PROVE  Suffix(c, Len(c) - p + 1) = Suffix(d, Len(d) - q + 1)
<1> DEFINE s == SubSeq(c, p, Len(c))
           t == SubSeq(d, q, Len(d))
<1>1. c \in Seq(Node) /\ d \in Seq(Node) /\ Len(c) \in Nat /\ Len(d) \in Nat
  BY AddrNat DEF Cont, Node
<1>2. /\ Len(c) - (Len(c) - p + 1) + 1 = p
      /\ Len(d) - (Len(d) - q + 1) + 1 = q
  BY <1>1
<1>3. Suffix(c, Len(c) - p + 1) = s /\ Suffix(d, Len(d) - q + 1) = t BY <1>2 DEF Suffix
<1> HIDE DEF Node
<1>4. /\ \A i \in p..Len(c) : i \in 1..Len(c) /\ c[i] \in Node
      /\ \A i \in q..Len(d) : i \in 1..Len(d) /\ d[i] \in Node
  <2>1. /\ \A i \in p..Len(c) : i \in 1..Len(c)
        /\ \A i \in q..Len(d) : i \in 1..Len(d)
    BY <1>1
  <2>2. QED BY <1>1, <2>1, ElementOfSeq
<1>5. /\ s \in Seq(Node) /\ Len(s) = Len(c) - p + 1
      /\ \A i \in 1 .. Len(c) - p + 1 : s[i] = c[p + i - 1]
  BY <1>1, <1>4, SubSeqProperties
<1>6. /\ t \in Seq(Node) /\ Len(t) = Len(d) - q + 1
      /\ \A i \in 1 .. Len(d) - q + 1 : t[i] = d[q + i - 1]
  BY <1>1, <1>4, SubSeqProperties
<1> HIDE DEF s, t
<1>7. Len(s) = Len(t) BY <1>5, <1>6 DEF SameTail
<1>8. ASSUME NEW i \in 1..Len(s) PROVE s[i] = t[i]
  <2>1. PICK r \in 0 .. Len(c) - p : r = i - 1 BY <1>1, <1>5
  <2>2. c[p + r] = d[q + r] BY DEF SameTail
  <2>3. p + i - 1 = p + r /\ q + i - 1 = q + r BY <1>1, <2>1
  <2>4. s[i] = c[p + r] /\ t[i] = d[q + r] BY <1>5, <1>6, <1>7, <2>3
  <2>5. QED BY <2>2, <2>4
<1>9. QED BY <1>3, <1>5, <1>6, <1>7, <1>8, SeqEqual

(* In a layout, lists are equal from a shared address on.                  *)
LEMMA LaidNoAlias == Laid(saves) => NoAlias
<1> SUFFICES ASSUME Laid(saves) PROVE NoAlias OBVIOUS
<1>1. ASSUME NEW i \in 1..Len(saves), NEW j \in 1..Len(saves),
             NEW p \in 1..Len(saves[i].cont), NEW q \in 1..Len(saves[j].cont),
             saves[i].cont[p].at = saves[j].cont[q].at
      PROVE  Suffix(saves[i].cont, Len(saves[i].cont) - p + 1)
               = Suffix(saves[j].cont, Len(saves[j].cont) - q + 1)
  <2>1. saves[i].cont \in Cont /\ saves[j].cont \in Cont BY LaidSave
  <2>2. SameTail(saves[i].cont, p, saves[j].cont, q) BY <1>1 DEF Laid, Layout, Shared
  <2>3. QED BY <2>1, <2>2, SameSuffix
<1>2. ASSUME NEW i \in 1..Len(saves), NEW j \in 1..Len(saves), i <= j,
             NEW p \in 1..Len(saves[i].cont)
      PROVE  saves[i].cont[p].at < saves[j].As
  BY <1>2 DEF Laid, Layout, Below, Addr
<1>3. QED BY <1>1, <1>2 DEF NoAlias

(***************************************************************************)
(* List::pointer_equal is equality, though addresses are used again: nodes *)
(* at the same address are followed by the same list in all saved          *)
(* continuations, and the rewind to a save frees no node of a save below.  *)
(***************************************************************************)
THEOREM AddressesTell == Spec /\ []FrameFits => []NoAlias
  BY AlwaysLaid, LaidNoAlias, PTL

(* Saves that lie apart do not lead back to those above them.              *)
LEMMA LaidCommitted == Laid(saves) => Committed
<1> SUFFICES ASSUME Laid(saves), cut, NEW i \in 1..Len(saves), NEW j \in 1..Len(saves), i < j
             PROVE  ~ Through(saves[i].cont, saves[j].cont)
  BY DEF Committed
<1>1. saves[i].cont \in Cont /\ saves[j].cont \in Cont BY LaidSave
<1>2. saves[j].cont # <<>> /\ saves[j].cont[1].at \notin Addr(saves[i].cont)
  BY DEF Laid, Apart
<1>3. QED BY <1>1, <1>2, ThroughHead

(***************************************************************************)
(* With cut, the pops of Div::save, which look only at the top of the      *)
(* stack, leave no save anywhere in it that leads back to a continuation   *)
(* saved above it: what has been solved once stays solved that way.        *)
(***************************************************************************)
THEOREM CutCommits == Spec /\ []FrameFits => []Committed
  BY AlwaysLaid, LaidCommitted, PTL
(***************************************************************************)
(* The whole run.  Between two searches everything is as main() made it:   *)
(* what is saved at the start of a search is that, and the search does not *)
(* touch it.                                                               *)
(***************************************************************************)
Fresh == StartState(StartVal(problem))
Untouched ==
  /\ mark = [ss |-> Fresh, As |-> 0]
  /\ phase = "deepen" => state = Fresh /\ brk = 0 /\ saves = <<>>

LEMMA RunsFromFresh ==
  /\ ScheduleInit => Untouched
  /\ Untouched /\ [ScheduleNext]_scheduleVars => Untouched'
<1>1. ScheduleInit => Untouched BY DEF ScheduleInit, Untouched, Fresh
<1>2. ASSUME Untouched, [ScheduleNext]_scheduleVars PROVE Untouched'
  <2>1. CASE Deepen BY <1>2, <2>1 DEF Deepen, Untouched, Fresh
  <2>2. CASE Step
    <3>1. phase' # "deepen" BY <2>2 DEF Step
    <3>2. UNCHANGED <<problem, mark>> BY <2>2 DEF Step
    <3>3. QED BY <1>2, <3>1, <3>2 DEF Untouched, Fresh
  <2>3. CASE Abandon BY <1>2, <2>3 DEF Abandon, Untouched, Fresh
  <2>4. CASE TimeOut BY <1>2, <2>4 DEF TimeOut, Untouched, Fresh
  <2>5. CASE Tick \/ UNCHANGED scheduleVars
    <3>1. UNCHANGED <<problem, mark, phase, state, brk, saves>>
      BY <2>5 DEF Tick, scheduleVars, vars
    <3>2. QED BY <1>2, <3>1 DEF Untouched, Fresh
  <2>6. QED BY <1>2, <2>1, <2>2, <2>3, <2>4, <2>5 DEF ScheduleNext
<1>3. QED BY <1>1, <1>2

(***************************************************************************)
(* Whatever the frames do, the allocator and the search state are back     *)
(* where the prover started before every search: the saves taken by        *)
(* iterative_deepening() are enough, however a search ends.                *)
(***************************************************************************)
THEOREM SearchesStartAfresh == ScheduleSpec => []StartsAfresh
<1>1. Untouched => StartsAfresh BY DEF Untouched, StartsAfresh, Fresh
<1>2. QED BY <1>1, RunsFromFresh, PTL DEF ScheduleSpec

(***************************************************************************)
(* The prover returns without a proof only when the second context is      *)
(* done: neither the end of the first one nor a limit at which nothing was *)
(* found makes it give up.                                                 *)
(***************************************************************************)
THEOREM TimeIsUsed == ScheduleSpec => []UsesItsTime
<1> DEFINE Inv == clock \in 0..2 /\ UsesItsTime
<1>1. ScheduleInit => Inv BY DEF ScheduleInit, UsesItsTime
<1>2. Inv /\ [ScheduleNext]_scheduleVars => Inv'
  <2> SUFFICES ASSUME Inv, [ScheduleNext]_scheduleVars PROVE Inv' OBVIOUS
  <2>1. CASE Deepen BY <2>1 DEF Deepen, UsesItsTime
  <2>2. CASE Step
    <3>1. clock' = clock /\ (phase' = "returned" => proof' # <<>>) BY <2>2 DEF Step
    <3>2. QED BY <3>1 DEF UsesItsTime
  <2>3. CASE Abandon BY <2>3 DEF Abandon, UsesItsTime
  <2>4. CASE TimeOut BY <2>4 DEF TimeOut, CtxDone, UsesItsTime
  <2>5. CASE Tick BY <2>5 DEF Tick, UsesItsTime
  <2>6. CASE UNCHANGED scheduleVars BY <2>6 DEF scheduleVars, UsesItsTime
  <2>7. QED BY <2>1, <2>2, <2>3, <2>4, <2>5, <2>6 DEF ScheduleNext
<1>3. QED BY <1>1, <1>2, PTL DEF ScheduleSpec

(***************************************************************************)
(* Every search of a run is one of the engine: it starts as Init says, but *)
(* with the allocator where it is, and its steps are those of Next.        *)
(***************************************************************************)
WithinLimit == phase # "deepen" => state.nodes_used <= limit
Searches ==
  /\ Untouched
  /\ problem \in Inputs /\ limit \in 0..MaxCost(problem) /\ cut \in BOOLEAN /\ won \in BOOLEAN
  /\ saves = <<>> \/ (IInv /\ Laid(saves))
  /\ WithinLimit

LEMMA StepSearches ==
  ASSUME IInv, FrameFits, Next PROVE saves # <<>> /\ UNCHANGED <<limit, cut>> /\ state'.nodes_used <= limit
<1>1. saves # <<>> /\ UNCHANGED <<limit, cut>>
  BY DEF Next, Succeed, CheckMinFails, CheckMinHolds, TaskTooBig, TaskFails, TaskOffers,
         TaskAsks, SetDone, SetSplits, Running, Popped
<1>2. nodes <= limit /\ limit \in Nat BY <1>1, TopGood, Numbers DEF IInv
<1>3. state' = Top.ss => state'.nodes_used <= limit BY <1>2 DEF nodes
<1>4. ASSUME NEW kind, Running(kind) PROVE state'.nodes_used <= limit
  <2>1. /\ state'.nodes_used \in Nat /\ First.max \in Nat
        /\ state'.nodes_used <= First.max /\ First.max <= limit
    BY <1>4, RanGood
  <2>2. QED BY <1>2, <2>1
<1>5. \/ state' = Top.ss
      \/ Running("fail") \/ Running("or") \/ Running("and")
  BY DEF Next, Succeed, CheckMinFails, CheckMinHolds, TaskTooBig, TaskFails, TaskOffers,
         TaskAsks, SetDone, SetSplits, Leave
<1>6. state'.nodes_used <= limit BY <1>3, <1>4, <1>5
<1>7. QED BY <1>1, <1>6

(* Deepen starts a search as the engine starts.                            *)
LEMMA DeepenSearches ==
  ASSUME Searches, Deepen PROVE IInv' /\ Laid(saves)' /\ state'.nodes_used = 0 /\ limit' \in Nat
<1>1. /\ StartTask(problem) \in Starts /\ StartVal(problem) \in Val
      /\ limit + 1 \in Limits /\ limit + 1 \in 1..MaxCost(problem)
  <2>1. problem \in Inputs /\ limit \in 0..MaxCost(problem) BY DEF Searches
  <2>2. limit < MaxCost(problem) BY DEF Deepen
  <2>3. MaxCost(problem) \in Nat /\ 1..MaxCost(problem) \subseteq Limits
    BY <2>1, ScheduleAssumption
  <2>4. limit + 1 \in 1..MaxCost(problem) BY <2>1, <2>2, <2>3
  <2>5. QED BY <2>1, <2>3, <2>4, ScheduleAssumption
<1>2. state = Fresh /\ brk = 0 BY DEF Searches, Untouched, Deepen
<1>3. state \in State /\ state.nodes_used = 0 BY <1>1, <1>2, StartStateType DEF Fresh
<1>4. /\ saves' = Started(StartTask(problem), limit + 1, state, 0)
      /\ limit' = limit + 1 /\ brk' = 1 /\ UNCHANGED <<state, cut, won>>
  BY <1>2 DEF Deepen
<1>5. GoodStack(saves', limit') BY <1>1, <1>3, <1>4, StartGood
<1>6. Laid(saves') BY <1>1, <1>3, <1>4, StartLaid
<1>7. TypeOK'
  BY <1>1, <1>3, <1>4, <1>5 DEF TypeOK, GoodStack, Searches
<1>8. IInv' BY <1>5, <1>7 DEF IInv
<1>9. Laid(saves)' BY <1>4, <1>6 DEF Laid
<1>10. QED BY <1>1, <1>3, <1>4, <1>8, <1>9

(* A run starts between two searches,                                      *)
LEMMA InitSearches == ScheduleInit => Searches
<1> SUFFICES ASSUME ScheduleInit PROVE Searches OBVIOUS
<1>1. Untouched BY RunsFromFresh
<1>2. /\ problem \in Inputs /\ limit = 0 /\ cut = TRUE /\ won = FALSE
      /\ saves = <<>> /\ phase = "deepen"
  BY DEF ScheduleInit
<1>3. MaxCost(problem) \in Nat BY <1>2, ScheduleAssumption
<1>4. limit \in 0..MaxCost(problem) BY <1>2, <1>3
<1>5. QED BY <1>1, <1>2, <1>4 DEF Searches, WithinLimit

(* and every step of it keeps what the engine guarantees.                  *)
LEMMA RunSearches == Searches /\ FrameFits /\ [ScheduleNext]_scheduleVars => Searches'
<1> SUFFICES ASSUME Searches, FrameFits, [ScheduleNext]_scheduleVars PROVE Searches' OBVIOUS
<1>1. Untouched' BY RunsFromFresh DEF Searches
<1>2. /\ problem \in Inputs /\ limit \in 0..MaxCost(problem) /\ cut \in BOOLEAN /\ won \in BOOLEAN
      /\ saves = <<>> \/ (IInv /\ Laid(saves))
      /\ MaxCost(problem) \in Nat
  BY ScheduleAssumption DEF Searches
<1>3. CASE Deepen
  <2>1. /\ IInv' /\ Laid(saves)' /\ state'.nodes_used = 0 /\ limit' \in Nat
    BY <1>3, DeepenSearches
  <2>2. problem' = problem /\ limit' = limit + 1 /\ limit < MaxCost(problem)
        /\ UNCHANGED <<cut, won>>
    BY <1>3 DEF Deepen
  <2>3. limit' \in 0..MaxCost(problem') BY <1>2, <2>2
  <2>4. QED BY <1>1, <1>2, <2>1, <2>2, <2>3 DEF Searches, WithinLimit
<1>4. CASE Step
  <2>1. Next /\ UNCHANGED problem BY <1>4 DEF Step
  <2>2. saves # <<>>
    BY <2>1 DEF Next, Succeed, CheckMinFails, CheckMinHolds, TaskTooBig, TaskFails, TaskOffers,
                TaskAsks, SetDone, SetSplits, Running, Popped
  <2>3. IInv' /\ Laid(saves)' BY <1>2, <2>1, <2>2, StepGood, StepLaid
  <2>4. UNCHANGED <<limit, cut>> /\ state'.nodes_used <= limit BY <1>2, <2>1, <2>2, StepSearches
  <2>5. won' \in BOOLEAN BY <2>3 DEF IInv, TypeOK
  <2>6. QED BY <1>1, <1>2, <2>1, <2>3, <2>4, <2>5 DEF Searches, WithinLimit
<1>5. CASE Abandon BY <1>1, <1>2, <1>5 DEF Abandon, Searches, WithinLimit
<1>6. CASE TimeOut
  <2>1. phase = "deepen" /\ UNCHANGED <<problem, saves, state, brk, won>> /\ cut' \in BOOLEAN
        /\ limit' \in {0, limit}
    BY <1>2, <1>6 DEF TimeOut
  <2>2. saves = <<>> /\ state = Fresh BY <2>1 DEF Searches, Untouched
  <2>3. Fresh.nodes_used = 0 BY <1>2, ScheduleAssumption, StartStateType DEF Fresh
  <2>4. limit' \in 0..MaxCost(problem') BY <1>2, <2>1
  <2>5. WithinLimit' BY <2>1, <2>2, <2>3, <2>4 DEF WithinLimit
  <2>6. QED BY <1>1, <1>2, <2>1, <2>2, <2>4, <2>5 DEF Searches
<1>7. CASE Tick \/ UNCHANGED scheduleVars
  <2>1. UNCHANGED <<problem, saves, state, brk, limit, cut, won, phase>>
    BY <1>7 DEF Tick, scheduleVars, vars
  <2>2. IInv /\ Laid(saves) => IInv' /\ Laid(saves)'
    BY <2>1 DEF IInv, TypeOK, GoodStack, GoodSave, Laid
  <2>3. QED BY <1>1, <1>2, <2>1, <2>2 DEF Searches, WithinLimit
<1>8. QED BY <1>3, <1>4, <1>5, <1>6, <1>7 DEF ScheduleNext

LEMMA AlwaysSearches == ScheduleSpec /\ []FrameFits => []Searches
  BY InitSearches, RunSearches, PTL DEF ScheduleSpec

(***************************************************************************)
(* The guarantees of the engine hold in every search of a run of the       *)
(* prover: no subtraction wraps, pointer_equal compares lists, and cut     *)
(* leaves no way back, with whatever limit and from wherever the allocator *)
(* stands.                                                                 *)
(***************************************************************************)
THEOREM EverySearchSafe == ScheduleSpec /\ []FrameFits => [](RoomLeft /\ NoAlias /\ Committed)
<1>1. saves = <<>> => RoomLeft /\ NoAlias /\ Committed
  BY DEF RoomLeft, NoAlias, Committed
<1>2. IInv /\ Laid(saves) => RoomLeft /\ NoAlias /\ Committed
  BY GoodRoom, LaidNoAlias, LaidCommitted
<1>3. Searches => RoomLeft /\ NoAlias /\ Committed BY <1>1, <1>2 DEF Searches
<1>4. QED BY <1>3, AlwaysSearches, PTL

(***************************************************************************)
(* A derivation that is returned has used no more nodes than the cost that *)
(* is reported with it, and no search ever has used more than its limit.   *)
(***************************************************************************)
THEOREM EverySearchWithinLimit == ScheduleSpec /\ []FrameFits => []WithinLimit
<1>1. Searches => WithinLimit BY DEF Searches
<1>2. QED BY <1>1, AlwaysSearches, PTL

(***************************************************************************)
(* The engine keeps its side of the contract as well: whenever a frame is  *)
(* about to run there is room for the nodes it allocates before it looks   *)
(* at the limit, so that SearchState::allocate never exceeds it.           *)
(***************************************************************************)
RoomForFrame ==
  saves # <<>> /\ Top.cont # <<>> /\ First.kind = "task" /\ nodes + First.min <= First.max =>
    nodes + Need(First.task) <= First.max

THEOREM EveryFrameHasRoom == ScheduleSpec /\ []FrameFits => []RoomForFrame
<1>1. IInv /\ FrameFits => RoomForFrame
  <2> SUFFICES ASSUME IInv, FrameFits, saves # <<>>, Top.cont # <<>>, First.kind = "task",
                      nodes + First.min <= First.max
               PROVE  nodes + Need(First.task) <= First.max
    BY DEF RoomForFrame
  <2>1. Need(First.task) \in Nat BY DEF FrameFits, TaskFits
  <2>2. HeadFits(First, nodes) /\ First.max \in Nat /\ nodes <= First.max BY FirstGood DEF Bounded
  <2>3. nodes \in Nat BY TopGood
  <2>4. QED BY <2>1, <2>2, <2>3 DEF HeadFits, QuietSpec
<1>2. Searches /\ FrameFits => RoomForFrame BY <1>1 DEF Searches, RoomForFrame
<1>3. QED BY <1>2, AlwaysSearches, PTL
=============================================================================
