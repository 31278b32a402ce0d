-------------------------- MODULE AndOrTreesProofs --------------------------
(***************************************************************************)
(* On every family of AND-OR trees, for every limit and both values of     *)
(* cut, the search finds no derivation twice and nothing but derivations   *)
(* within the limit; without cut it finds all of them.                     *)
(*                                                                         *)
(* A save stands for the sets of clauses it can still become (Rests).  The *)
(* saves of the stack stand for disjoint sets, none of which has been      *)
(* found, and a step replaces a save by others that divide what it stood   *)
(* for.                                                                    *)
(***************************************************************************)
EXTENDS TreeSchedule, BalancedProofs, FiniteSetTheorems

(***************************************************************************)
(* What the assumption says of a single task.                              *)
(***************************************************************************)
LEMMA TaskFacts ==
  ASSUME NEW t \in Task
  PROVE  /\ Kids(t) \in Seq(Task) /\ Len(Kids(t)) \in Nat
         /\ \A i \in kids(t) :
              /\ Kids(t)[i] \in Task /\ t \notin Sub(Kids(t)[i])
              /\ Sub(Kids(t)[i]) \subseteq Sub(t)
              /\ IsGoal(Kids(t)[i]) <=> ~ IsGoal(t)
         /\ \A i, j \in kids(t) : i # j => Sub(Kids(t)[i]) \cap Sub(Kids(t)[j]) = {}
         /\ Sub(t) \subseteq Task /\ IsFiniteSet(Sub(t)) /\ t \in Sub(t)
         /\ Sub(t) = {t} \cup UNION {Sub(Kids(t)[i]) : i \in kids(t)}
         /\ \A d \in Closings(t) : d \subseteq Sub(t) /\ d # {}
         /\ Cost(t) \in Nat /\ Asks(t) \in SUBSET Constraint
<1>1. IsTree(t) /\ IsClosed(t) /\ Cost(t) \in Nat /\ Asks(t) \in SUBSET Constraint
  BY TreesAssumption DEF Trees
<1>2. Kids(t) \in Seq(Task) /\ Sub(t) \subseteq Task
  BY TreesAssumption DEF Trees
<1>3. Len(Kids(t)) \in Nat /\ \A i \in kids(t) : Kids(t)[i] \in Task
  BY <1>2 DEF kids
<1>4. /\ \A i \in kids(t) : t \notin Sub(Kids(t)[i]) /\ (IsGoal(Kids(t)[i]) <=> ~ IsGoal(t))
      /\ \A i, j \in kids(t) : i # j => Sub(Kids(t)[i]) \cap Sub(Kids(t)[j]) = {}
      /\ IsFiniteSet(Sub(t))
      /\ Sub(t) = {t} \cup UNION {Sub(Kids(t)[i]) : i \in kids(t)}
  BY <1>1 DEF IsTree
<1>5. t \in Sub(t) /\ \A i \in kids(t) : Sub(Kids(t)[i]) \subseteq Sub(t)
  BY <1>4
<1>6. \A d \in Closings(t) : d \subseteq Sub(t) /\ d # {}
  BY <1>1 DEF IsClosed
<1>7. QED
  BY <1>1, <1>2, <1>3, <1>4, <1>5, <1>6

(* The trees do what the engine relies on.                                 *)
LEMMA TreesFit == IInv => FrameFits
<1> SUFFICES ASSUME IInv, saves # <<>>, Top.cont # <<>>, First.kind = "task",
                    nodes + First.min <= First.max
             PROVE  TaskFits(First.task, nodes, Top.ss.val, First.max)
  BY DEF FrameFits
<1>1. limit \in 0..MaxLimit /\ MaxLimit \in Nat
  BY Numbers DEF IInv
<1>2. Top.ss \in State /\ nodes \in Nat /\ nodes <= limit
  BY TopGood
<1>3. /\ First \in Spec_ /\ First.max \in Nat /\ First.max <= limit
  BY FirstGood DEF Bounded
<1>4. First.task \in Task /\ Top.ss.val \in Val
  BY <1>2, <1>3, SpecKinds DEF State
<1>5. nodes \in 0..MaxLimit /\ First.max \in 0..MaxLimit
  BY <1>1, <1>2, <1>3
<1>6. QED
  BY <1>4, <1>5, FramesAssumption

(* What a set of clauses T has in the tree of a clause closes it if the    *)
(* clause is in T and what T has in the tree of each goal closes that.     *)
LEMMA ClauseCloses ==
  ASSUME NEW t \in Task, ~ IsGoal(t), NEW T
  PROVE  T \cap Sub(t) \in Closings(t) <=>
           /\ t \in T
           /\ \A i \in kids(t) : T \cap Sub(Kids(t)[i]) \in Closings(Kids(t)[i])
<1> DEFINE C(i) == Closings(Kids(t)[i])
           S(i) == Sub(Kids(t)[i])
           F == {f \in [kids(t) -> UNION {C(i) : i \in kids(t)}] : \A i \in kids(t) : f[i] \in C(i)}
           D(f) == {t} \cup UNION {f[i] : i \in kids(t)}
<1>1. Closings(t) = {D(f) : f \in F}
  <2>1. IsClosed(t)
    BY TreesAssumption DEF Trees
  <2>2. QED
    BY <2>1 DEF IsClosed
<1>2. /\ t \in Sub(t) /\ Sub(t) = {t} \cup UNION {S(i) : i \in kids(t)}
      /\ \A i \in kids(t) : t \notin S(i) /\ S(i) \subseteq Sub(t)
      /\ \A i, j \in kids(t) : i # j => S(i) \cap S(j) = {}
  BY TaskFacts
<1>3. \A i \in kids(t) : \A d \in C(i) : d \subseteq S(i)
  BY TaskFacts
<1>4. ASSUME T \cap Sub(t) \in Closings(t)
      PROVE  t \in T /\ \A i \in kids(t) : T \cap S(i) \in C(i)
  <2>1. PICK f \in F : T \cap Sub(t) = D(f)
    BY <1>1, <1>4
  <2>2. \A i \in kids(t) : f[i] \in C(i) /\ f[i] \subseteq S(i)
    BY <1>3
  <2>3. ASSUME NEW i \in kids(t) PROVE T \cap S(i) = f[i]
    <3>1. T \cap S(i) = D(f) \cap S(i)
      BY <1>2, <2>1
    <3>2. ASSUME NEW x \in D(f) \cap S(i) PROVE x \in f[i]
      <4>1. PICK j \in kids(t) : x \in f[j]
        BY <1>2, <3>2
      <4>2. x \in S(j) /\ x \in S(i)
        BY <2>2, <4>1, <3>2
      <4>3. i = j
        BY <1>2, <4>2
      <4>4. QED
        BY <4>1, <4>3
    <3>3. f[i] \subseteq D(f) \cap S(i)
      BY <2>2
    <3>4. QED
      BY <3>1, <3>2, <3>3
  <2>4. t \in T
    BY <2>1
  <2>5. QED
    BY <2>2, <2>3, <2>4
<1>5. ASSUME t \in T, \A i \in kids(t) : T \cap S(i) \in C(i)
      PROVE  T \cap Sub(t) \in Closings(t)
  <2> DEFINE f == [i \in kids(t) |-> T \cap S(i)]
  <2>1. f \in F
    BY <1>5
  <2>2. T \cap Sub(t) = D(f)
    <3>1. \A i \in kids(t) : f[i] = T \cap S(i)
      OBVIOUS
    <3> HIDE DEF f
    <3>2. QED
      BY <1>2, <1>5, <3>1
  <2> HIDE DEF f, F
  <2>3. D(f) \in {D(g) : g \in F}
    BY <2>1
  <2>4. QED
    BY <1>1, <2>2, <2>3
<1>6. QED
  BY <1>4, <1>5

(* It closes the tree of a goal if it is all in the tree of one clause and *)
(* closes this.                                                            *)
LEMMA GoalCloses ==
  ASSUME NEW t \in Task, IsGoal(t), NEW T
  PROVE  /\ \A i \in kids(t) :
              T \cap Sub(t) \subseteq Sub(Kids(t)[i]) /\ T \cap Sub(Kids(t)[i]) \in Closings(Kids(t)[i])
                => T \cap Sub(t) \in Closings(t)
         /\ T \cap Sub(t) \in Closings(t) =>
              \E i \in kids(t) :
                T \cap Sub(t) \subseteq Sub(Kids(t)[i]) /\ T \cap Sub(Kids(t)[i]) \in Closings(Kids(t)[i])
<1>1. Closings(t) = UNION {Closings(Kids(t)[i]) : i \in kids(t)}
  <2>1. IsClosed(t)
    BY TreesAssumption DEF Trees
  <2>2. QED
    BY <2>1 DEF IsClosed
<1>2. \A i \in kids(t) : Sub(Kids(t)[i]) \subseteq Sub(t)
  BY TaskFacts
<1>3. ASSUME NEW i \in kids(t), T \cap Sub(t) \subseteq Sub(Kids(t)[i])
      PROVE  T \cap Sub(t) = T \cap Sub(Kids(t)[i])
  BY <1>2, <1>3
<1>4. ASSUME NEW i \in kids(t), T \cap Sub(t) \in Closings(Kids(t)[i])
      PROVE  T \cap Sub(t) \subseteq Sub(Kids(t)[i])
  BY <1>4, TaskFacts
<1>5. QED
  BY <1>1, <1>3, <1>4

(***************************************************************************)
(* Weights.                                                                *)
(***************************************************************************)
Place(t) == {t} \X (1..Cost(t))
Places(d) == UNION {Place(t) : t \in d}

(* Intervals.                                                              *)
LEMMA UpTo == ASSUME NEW n \in Nat PROVE IsFiniteSet(1..n) /\ Cardinality(1..n) = n
<1>1. 1 \in Int /\ n \in Int
  OBVIOUS
<1>2. Cardinality(1..n) = IF 1 > n THEN 0 ELSE n - 1 + 1
  BY <1>1, FS_Interval
<1>3. IsFiniteSet(1..n)
  BY <1>1, FS_Interval
<1>4. QED
  BY <1>2, <1>3

(* A singleton.                                                            *)
LEMMA Single == ASSUME NEW x PROVE IsFiniteSet({x}) /\ Cardinality({x}) = 1
<1>1. \A y : IsFiniteSet({y}) /\ Cardinality({y}) = 1
  BY FS_Singleton
<1>2. QED
  BY <1>1, Zenon

(* The nodes of finitely many tasks are finitely many.                     *)
LEMMA PlacesFinite ==
  ASSUME NEW d \in SUBSET Task, IsFiniteSet(d)
  PROVE  IsFiniteSet(Places(d)) /\ Weight(d) = Cardinality(Places(d)) /\ Weight(d) \in Nat
<1> DEFINE P == {Place(t) : t \in d}
           f == [t \in d |-> Place(t)]
<1>1. f \in Surjection(d, P)
  BY DEF Surjection
<1>2. IsFiniteSet(P)
  BY <1>1, FS_Surjection
<1>3. ASSUME NEW t \in d PROVE IsFiniteSet(Place(t))
  <2>1. IsFiniteSet({t}) /\ IsFiniteSet(1..Cost(t))
    BY TaskFacts, Single, UpTo
  <2>2. QED
    BY <2>1, FS_Product DEF Place
<1>4. IsFiniteSet(UNION P)
  BY <1>2, <1>3, FS_UNION
<1>5. Places(d) = UNION P /\ Weight(d) = Cardinality(Places(d))
  BY DEF Places, Weight, Place
<1>6. QED
  BY <1>4, <1>5, FS_CardinalityType

(* A clause weighs its cost.                                               *)
LEMMA WeightOne ==
  ASSUME NEW t \in Task PROVE Weight({t}) = Cost(t)
<1>1. Cost(t) \in Nat
  BY TaskFacts
<1>2. /\ IsFiniteSet({t}) /\ Cardinality({t}) = 1
      /\ IsFiniteSet(1..Cost(t)) /\ Cardinality(1..Cost(t)) = Cost(t)
  BY <1>1, Single, UpTo
<1>3. Cardinality(Place(t)) = 1 * Cost(t)
  <2>1. Cardinality({t} \X (1..Cost(t))) = Cardinality({t}) * Cardinality(1..Cost(t))
    BY <1>2, FS_Product
  <2>2. QED
    BY <1>2, <2>1 DEF Place
<1>4. Places({t}) = Place(t)
  BY DEF Places
<1>5. {t} \in SUBSET Task
  OBVIOUS
<1>6. Weight({t}) = Cardinality(Places({t}))
  BY <1>2, <1>5, PlacesFinite
<1>7. QED
  BY <1>1, <1>3, <1>4, <1>6

(* Weights of disjoint sets add up; a part weighs no more than the whole.  *)
LEMMA WeightAdds ==
  ASSUME NEW d \in SUBSET Task, NEW e \in SUBSET Task, IsFiniteSet(d), IsFiniteSet(e)
  PROVE  /\ Weight(d) \in Nat /\ Weight(e) \in Nat
         /\ d \cap e = {} => Weight(d \cup e) = Weight(d) + Weight(e)
         /\ d \subseteq e => Weight(d) <= Weight(e)
<1>1. /\ IsFiniteSet(Places(d)) /\ Weight(d) = Cardinality(Places(d)) /\ Weight(d) \in Nat
      /\ IsFiniteSet(Places(e)) /\ Weight(e) = Cardinality(Places(e)) /\ Weight(e) \in Nat
  BY PlacesFinite
<1>2. ASSUME d \cap e = {} PROVE Weight(d \cup e) = Weight(d) + Weight(e)
  <2>1. Places(d) \cap Places(e) = {}
    <3>1. \A x : x \in Places(d) => x[1] \in d
      BY DEF Places, Place
    <3>2. \A x : x \in Places(e) => x[1] \in e
      BY DEF Places, Place
    <3>3. QED
      BY <1>2, <3>1, <3>2
  <2>2. Places(d \cup e) = Places(d) \cup Places(e)
    BY DEF Places
  <2>3. IsFiniteSet(d \cup e)
    BY FS_Union
  <2>4. Cardinality(Places(d) \cup Places(e)) =
          Cardinality(Places(d)) + Cardinality(Places(e)) - Cardinality({})
    BY <1>1, <2>1, FS_Union
  <2>5. Weight(d \cup e) = Cardinality(Places(d) \cup Places(e))
    BY <2>2, <2>3, PlacesFinite
  <2>6. QED
    BY <1>1, <2>4, <2>5, FS_EmptySet
<1>3. ASSUME d \subseteq e PROVE Weight(d) <= Weight(e)
  <2>1. Places(d) \subseteq Places(e)
    BY <1>3 DEF Places
  <2>2. QED
    BY <1>1, <2>1, FS_Subset
<1>4. QED
  BY <1>1, <1>2, <1>3

(***************************************************************************)
(* What a continuation still asks for.  T is a set of clauses, A the tasks *)
(* that come before: those run and all below those that are to be done     *)
(* first.                                                                  *)
(***************************************************************************)
Pending(sp) ==
  {t \in Task : \/ sp.kind = "task" /\ t = sp.task
                \/ sp.kind = "taskset" /\ \E i \in 1..Len(sp.tasks) : t = sp.tasks[i]}
Under(sp) == UNION {Sub(t) : t \in Pending(sp)}
Ahead(c, k) == UNION {Under(c[r].spec) : r \in 1..k}

(* T closes the tasks of the spec within its bounds.                       *)
SpecHolds(T, A, sp) ==
  /\ \A t \in Pending(sp) : T \cap Sub(t) \in Closings(t)
  /\ Bounded(sp) => Weight(T \cap (A \cup Under(sp))) <= sp.max
  /\ sp.kind = "checkmin" => sp.min <= Weight(T \cap A)
  /\ sp.kind = "task" => sp.min <= Weight(T \cap Sub(sp.task))
Holds(T, A, c) ==
  /\ T \subseteq A \cup Ahead(c, Len(c))
  /\ \A p \in 1..Len(c) : SpecHolds(T, A \cup Ahead(c, p - 1), c[p].spec)

(* No two of the trees still to be closed have a task in common.           *)
SpecParted(A, sp) ==
  /\ A \cap Under(sp) = {}
  /\ sp.kind = "taskset" =>
       \A i, j \in 1..Len(sp.tasks) : i # j => Sub(sp.tasks[i]) \cap Sub(sp.tasks[j]) = {}
Parted(A, c) == \A p \in 1..Len(c) : SpecParted(A \cup Ahead(c, p - 1), c[p].spec)

(* What comes before a node of c, seen from the tail of c.                 *)
LEMMA AheadTail ==
  ASSUME NEW c \in Cont, c # <<>>
  PROVE  LET h == Head(c).spec  t == Tail(c) IN
         /\ Len(t) \in Nat /\ Len(c) = Len(t) + 1
         /\ c[1].spec = h /\ Ahead(c, 0) = {}
         /\ \A p \in 1..Len(t) : c[p + 1] = t[p]
         /\ \A p \in 0..Len(t) : Ahead(c, p + 1) = Under(h) \cup Ahead(t, p)
<1> DEFINE t == Tail(c)
<1>1. c \in Seq(Node) /\ Len(c) \in Nat \ {0}
  BY EmptySeq DEF Cont, Node
<1>2. /\ t \in Seq(Node) /\ Len(t) = Len(c) - 1 /\ Head(c) = c[1]
      /\ \A p \in 1..Len(t) : t[p] = c[p + 1]
  <2> HIDE DEF Node
  <2>1. t \in Seq(Node) /\ Len(t) = Len(c) - 1 /\ Head(c) = c[1]
    BY <1>1, HeadTailProperties
  <2>2. \A p \in 1..Len(t) : t[p] = c[p + 1]
    BY <1>1, <2>1, HeadTailProperties
  <2>3. QED
    BY <2>1, <2>2
<1> HIDE DEF t
<1>3. Len(t) \in Nat /\ Len(c) = Len(t) + 1
  BY <1>1, <1>2
<1>4. Ahead(c, 0) = {}
  BY DEF Ahead
<1>5. ASSUME NEW p \in 0..Len(t) PROVE Ahead(c, p + 1) = Under(c[1].spec) \cup Ahead(t, p)
  <2>1. ASSUME NEW r \in 1..(p + 1), r # 1 PROVE r - 1 \in 1..p /\ c[r] = t[r - 1]
    <3>1. r - 1 \in 1..p /\ r - 1 \in 1..Len(t) /\ r - 1 + 1 = r
      BY <1>3, <1>5, <2>1
    <3>2. QED
      BY <1>2, <3>1
  <2>2. ASSUME NEW r \in 1..p PROVE r + 1 \in 1..(p + 1) /\ c[r + 1] = t[r]
    BY <1>2, <1>3, <1>5, <2>2
  <2>3. 1 \in 1..(p + 1)
    BY <1>5
  <2>4. Ahead(c, p + 1) \subseteq Under(c[1].spec) \cup Ahead(t, p)
    BY <2>1 DEF Ahead
  <2>5. Under(c[1].spec) \cup Ahead(t, p) \subseteq Ahead(c, p + 1)
    BY <2>2, <2>3 DEF Ahead
  <2>6. QED
    BY <2>4, <2>5
<1>6. QED
  BY <1>2, <1>3, <1>4, <1>5 DEF t

(* A node of a list is its head or a node of its tail.                     *)
LEMMA NodesOf ==
  ASSUME NEW c \in Cont, c # <<>>, NEW p \in 1..Len(c)
  PROVE  p = 1 \/ (p - 1 \in 1..Len(Tail(c)) /\ c[p] = Tail(c)[p - 1] /\ p - 1 \in 0..Len(Tail(c)))
<1> DEFINE t == Tail(c)
<1>1. /\ Len(t) \in Nat /\ Len(c) = Len(t) + 1
      /\ \A q \in 1..Len(t) : c[q + 1] = t[q]
  BY AheadTail
<1> HIDE DEF t
<1>2. ASSUME p # 1 PROVE p - 1 \in 1..Len(t) /\ p - 1 + 1 = p
  BY <1>1, <1>2
<1>3. QED
  BY <1>1, <1>2 DEF t

(* Holds and Parted, for the first spec and the rest.                      *)
LEMMA Heads ==
  ASSUME NEW c \in Cont, c # <<>>, NEW A, NEW T
  PROVE  LET h == Head(c).spec IN
         /\ Holds(T, A, c) <=> SpecHolds(T, A, h) /\ Holds(T, A \cup Under(h), Tail(c))
         /\ Parted(A, c) <=> SpecParted(A, h) /\ Parted(A \cup Under(h), Tail(c))
<1> DEFINE h == Head(c).spec
           t == Tail(c)
<1>1. /\ Len(t) \in Nat /\ Len(c) = Len(t) + 1
      /\ c[1].spec = h /\ Ahead(c, 0) = {}
      /\ \A p \in 1..Len(t) : c[p + 1] = t[p]
      /\ \A p \in 0..Len(t) : Ahead(c, p + 1) = Under(h) \cup Ahead(t, p)
  BY AheadTail
<1>2. \A p \in 1..Len(c) : p = 1 \/ (p - 1 \in 1..Len(t) /\ c[p] = t[p - 1])
  BY NodesOf
<1> HIDE DEF h, t
<1>3. A \cup Ahead(c, Len(c)) = (A \cup Under(h)) \cup Ahead(t, Len(t))
  BY <1>1
<1>4. 1 \in 1..Len(c) /\ A \cup Ahead(c, 1 - 1) = A
  BY <1>1
<1>5. ASSUME NEW p \in 1..Len(t)
      PROVE  /\ p + 1 \in 1..Len(c) /\ c[p + 1] = t[p]
             /\ A \cup Ahead(c, p + 1 - 1) = (A \cup Under(h)) \cup Ahead(t, p - 1)
  <2>1. p - 1 \in 0..Len(t) /\ p - 1 + 1 = p /\ p + 1 - 1 = p /\ p + 1 \in 1..Len(c)
    BY <1>1, <1>5
  <2>2. Ahead(c, p - 1 + 1) = Under(h) \cup Ahead(t, p - 1)
    BY <1>1, <2>1
  <2>3. QED
    BY <1>1, <2>1, <2>2
<1>6. ASSUME NEW p \in 1..Len(c), p # 1
      PROVE  /\ p - 1 \in 1..Len(t) /\ c[p] = t[p - 1]
             /\ A \cup Ahead(c, p - 1) = (A \cup Under(h)) \cup Ahead(t, p - 1 - 1)
  <2>1. p - 1 \in 1..Len(t) /\ c[p] = t[p - 1] /\ p - 1 + 1 = p /\ p - 1 \in Int
    BY <1>2, <1>6
  <2>2. A \cup Ahead(c, p - 1 + 1 - 1) = (A \cup Under(h)) \cup Ahead(t, p - 1 - 1)
    BY <1>5, <2>1
  <2>3. QED
    BY <2>1, <2>2
<1>7. Holds(T, A, c) <=> SpecHolds(T, A, h) /\ Holds(T, A \cup Under(h), t)
  <2>1. ASSUME Holds(T, A, c) PROVE SpecHolds(T, A, h) /\ Holds(T, A \cup Under(h), t)
    <3>1. SpecHolds(T, A, h)
      BY <2>1, <1>1, <1>4 DEF Holds
    <3>2. ASSUME NEW p \in 1..Len(t)
          PROVE  SpecHolds(T, (A \cup Under(h)) \cup Ahead(t, p - 1), t[p].spec)
      <4>1. PICK q \in 1..Len(c) :
              c[q] = t[p] /\ A \cup Ahead(c, q - 1) = (A \cup Under(h)) \cup Ahead(t, p - 1)
        BY <1>5
      <4>2. SpecHolds(T, A \cup Ahead(c, q - 1), c[q].spec)
        BY <2>1 DEF Holds
      <4>3. QED
        BY <4>1, <4>2
    <3>3. QED
      BY <2>1, <1>3, <3>1, <3>2 DEF Holds
  <2>2. ASSUME SpecHolds(T, A, h), Holds(T, A \cup Under(h), t) PROVE Holds(T, A, c)
    <3>1. \A p \in 1..Len(c) : SpecHolds(T, A \cup Ahead(c, p - 1), c[p].spec)
      BY <2>2, <1>1, <1>4, <1>6 DEF Holds
    <3>2. QED
      BY <2>2, <1>3, <3>1 DEF Holds
  <2>3. QED
    BY <2>1, <2>2
<1>8. Parted(A, c) <=> SpecParted(A, h) /\ Parted(A \cup Under(h), t)
  <2>1. ASSUME Parted(A, c) PROVE SpecParted(A, h) /\ Parted(A \cup Under(h), t)
    <3>1. SpecParted(A, h)
      BY <2>1, <1>1, <1>4 DEF Parted
    <3>2. ASSUME NEW p \in 1..Len(t)
          PROVE  SpecParted((A \cup Under(h)) \cup Ahead(t, p - 1), t[p].spec)
      <4>1. PICK q \in 1..Len(c) :
              c[q] = t[p] /\ A \cup Ahead(c, q - 1) = (A \cup Under(h)) \cup Ahead(t, p - 1)
        BY <1>5
      <4>2. SpecParted(A \cup Ahead(c, q - 1), c[q].spec)
        BY <2>1 DEF Parted
      <4>3. QED
        BY <4>1, <4>2
    <3>3. QED
      BY <3>1, <3>2 DEF Parted
  <2>2. ASSUME SpecParted(A, h), Parted(A \cup Under(h), t) PROVE Parted(A, c)
    <3>1. \A p \in 1..Len(c) : SpecParted(A \cup Ahead(c, p - 1), c[p].spec)
      BY <2>2, <1>1, <1>4, <1>6 DEF Parted
    <3>2. QED
      BY <3>1 DEF Parted
  <2>3. QED
    BY <2>1, <2>2
<1>9. QED
  BY <1>7, <1>8 DEF h, t

(* The same of a list with a spec in front.                                *)
LEMMA AddHeads ==
  ASSUME NEW c \in Cont, NEW sp \in Spec_, NEW b \in Nat, NEW A, NEW T
  PROVE  /\ Holds(T, A, Add(c, sp, b)) <=> SpecHolds(T, A, sp) /\ Holds(T, A \cup Under(sp), c)
         /\ Parted(A, Add(c, sp, b)) <=> SpecParted(A, sp) /\ Parted(A \cup Under(sp), c)
<1> DEFINE e == Add(c, sp, b)
           node == [at |-> b, spec |-> sp]
<1>1. e \in Cont /\ e # <<>>
  BY AddList
<1>2. node \in Node /\ node.spec = sp /\ c \in Seq(Node) /\ e = <<node>> \o c
  BY DEF Node, Cont, Add
<1> HIDE DEF node, Node, e
<1>3. Head(e) = node /\ Tail(e) = c
  BY <1>2
<1>4. Head(e).spec = sp
  BY <1>2, <1>3
<1>5. /\ Holds(T, A, e) <=> SpecHolds(T, A, Head(e).spec) /\ Holds(T, A \cup Under(Head(e).spec), Tail(e))
      /\ Parted(A, e) <=> SpecParted(A, Head(e).spec) /\ Parted(A \cup Under(Head(e).spec), Tail(e))
  BY <1>1, Heads
<1>6. QED
  BY <1>3, <1>4, <1>5 DEF e

(* What holds depends on the part of A that is in T.                       *)
LEMMA SameHolds ==
  ASSUME NEW T, NEW A, NEW B, T \cap A = T \cap B, NEW c, Holds(T, A, c)
  PROVE  Holds(T, B, c)
<1>1. \A U : T \cap (A \cup U) = T \cap (B \cup U)
  BY Zenon
<1>2. T \subseteq B \cup Ahead(c, Len(c))
  BY DEF Holds
<1>3. ASSUME NEW p \in 1..Len(c) PROVE SpecHolds(T, B \cup Ahead(c, p - 1), c[p].spec)
  <2> DEFINE U == Ahead(c, p - 1)
             sp == c[p].spec
  <2>1. SpecHolds(T, A \cup U, sp)
    BY DEF Holds
  <2>2. T \cap (A \cup U) = T \cap (B \cup U)
    BY <1>1
  <2>3. T \cap ((A \cup U) \cup Under(sp)) = T \cap ((B \cup U) \cup Under(sp))
    BY <2>2
  <2> HIDE DEF U, sp
  <2>4. SpecHolds(T, B \cup U, sp)
    BY <2>1, <2>2, <2>3 DEF SpecHolds
  <2>5. QED
    BY <2>4 DEF U, sp
<1>4. QED
  BY <1>2, <1>3 DEF Holds

(* With fewer tasks before it a continuation stays parted.                 *)
LEMMA FewerParted ==
  ASSUME NEW A, NEW B, B \subseteq A, NEW c, Parted(A, c)
  PROVE  Parted(B, c)
  BY DEF Parted, SpecParted

(* None of the tasks before a continuation is below it.                    *)
LEMMA PartedAhead ==
  ASSUME NEW c \in Cont, NEW A, Parted(A, c), NEW k \in 0..Len(c)
  PROVE  A \cap Ahead(c, k) = {}
<1>1. \A r \in 1..k : r \in 1..Len(c) /\ A \cap Under(c[r].spec) = {}
  <2>1. \A r \in 1..k : r \in 1..Len(c)
    BY LenProperties DEF Cont
  <2>2. QED
    BY <2>1 DEF Parted, SpecParted
<1>2. QED
  BY <1>1 DEF Ahead

(***************************************************************************)
(* What each kind of spec asks for.                                        *)
(***************************************************************************)
LEMMA CheckHolds ==
  ASSUME NEW sp, sp.kind = "checkmin", NEW T, NEW A
  PROVE  /\ Under(sp) = {} /\ SpecParted(A, sp)
         /\ SpecHolds(T, A, sp) <=> sp.min <= Weight(T \cap A)
<1>1. Pending(sp) = {}
  BY DEF Pending
<1>2. Under(sp) = {}
  BY <1>1 DEF Under
<1>3. QED
  BY <1>1, <1>2 DEF SpecParted, SpecHolds, Bounded

(* A task,                                                                 *)
LEMMA TaskHolds ==
  ASSUME NEW sp, sp.kind = "task", sp.task \in Task, NEW T, NEW A
  PROVE  /\ Under(sp) = Sub(sp.task)
         /\ SpecParted(A, sp) <=> A \cap Sub(sp.task) = {}
         /\ SpecHolds(T, A, sp) <=>
              /\ T \cap Sub(sp.task) \in Closings(sp.task)
              /\ Weight(T \cap (A \cup Sub(sp.task))) <= sp.max
              /\ sp.min <= Weight(T \cap Sub(sp.task))
<1>1. Pending(sp) = {sp.task}
  BY DEF Pending
<1>2. Under(sp) = Sub(sp.task)
  BY <1>1 DEF Under
<1>3. QED
  BY <1>1, <1>2 DEF SpecParted, SpecHolds, Bounded

(* a task set.                                                             *)
LEMMA SetHolds ==
  ASSUME NEW sp, sp.kind = "taskset", sp.tasks \in Seq(Task), NEW T, NEW A
  PROVE  /\ Under(sp) = UNION {Sub(sp.tasks[i]) : i \in 1..Len(sp.tasks)}
         /\ SpecHolds(T, A, sp) <=>
              /\ \A i \in 1..Len(sp.tasks) : T \cap Sub(sp.tasks[i]) \in Closings(sp.tasks[i])
              /\ Weight(T \cap (A \cup Under(sp))) <= sp.max
<1>1. Pending(sp) = {sp.tasks[i] : i \in 1..Len(sp.tasks)}
  BY DEF Pending
<1>2. Under(sp) = UNION {Sub(sp.tasks[i]) : i \in 1..Len(sp.tasks)}
  BY <1>1 DEF Under
<1>3. QED
  BY <1>1, <1>2 DEF SpecHolds, Bounded

(* The weight of what T has in two disjoint sets.                          *)
LEMMA WeightSplit ==
  ASSUME NEW T \in SUBSET Task, IsFiniteSet(T), NEW A, NEW S, A \cap S = {}
  PROVE  /\ Weight(T \cap A) \in Nat /\ Weight(T \cap S) \in Nat
         /\ Weight(T \cap (A \cup S)) = Weight(T \cap A) + Weight(T \cap S)
<1>1. IsFiniteSet(T \cap A) /\ IsFiniteSet(T \cap S)
  BY FS_Intersection
<1>2. T \cap A \in SUBSET Task /\ T \cap S \in SUBSET Task /\ (T \cap A) \cap (T \cap S) = {}
  OBVIOUS
<1>3. T \cap (A \cup S) = (T \cap A) \cup (T \cap S)
  OBVIOUS
<1>4. QED
  BY <1>1, <1>2, <1>3, WeightAdds

(***************************************************************************)
(* What a save stands for: the sets of clauses that contain those run so   *)
(* far and meet its continuation.  A save is honest if its state is that   *)
(* of the clauses run so far.                                              *)
(***************************************************************************)
Ways(X, c) == {T \in SUBSET Task : IsFiniteSet(T) /\ X \subseteq T /\ Holds(T, X, c)}
Rests(s) == Ways(s.ss.trail, s.cont)

HonestState(ss) ==
  /\ ss.trail \subseteq Task /\ IsFiniteSet(ss.trail)
  /\ ss.nodes_used = Weight(ss.trail)
  /\ ss.val = Asked(ss.trail) /\ Solvable(ss.val)
Honest(s) == HonestState(s.ss) /\ Parted(s.ss.trail, s.cont)

X == Top.ss.trail

(* The save that is popped, by its first spec and the rest.                *)
LEMMA TopWays ==
  ASSUME IInv, saves # <<>>, Top.cont # <<>>, Honest(Top)
  PROVE  /\ X \subseteq Task /\ IsFiniteSet(X) /\ nodes = Weight(X) /\ nodes \in Nat
         /\ Top.ss.val = Asked(X) /\ Solvable(Top.ss.val)
         /\ SpecParted(X, First) /\ Parted(X \cup Under(First), Later)
         /\ \A T : T \in Rests(Top) <=>
              /\ T \in SUBSET Task /\ IsFiniteSet(T) /\ X \subseteq T
              /\ SpecHolds(T, X, First) /\ Holds(T, X \cup Under(First), Later)
<1>1. Top.cont \in Cont /\ nodes \in Nat
  BY TopGood
<1>2. Parted(X, Top.cont)
  BY DEF Honest, X
<1>3. SpecParted(X, First) /\ Parted(X \cup Under(First), Later)
  BY <1>1, <1>2, Heads DEF First, Later
<1>4. ASSUME NEW T
      PROVE  Holds(T, X, Top.cont) <=> SpecHolds(T, X, First) /\ Holds(T, X \cup Under(First), Later)
  BY <1>1, Heads DEF First, Later
<1>5. \A T : T \in Rests(Top) <=>
        T \in SUBSET Task /\ IsFiniteSet(T) /\ X \subseteq T /\ Holds(T, X, Top.cont)
  BY DEF Rests, Ways, X
<1>6. QED
  BY <1>1, <1>3, <1>4, <1>5 DEF Honest, HonestState, X, nodes

(***************************************************************************)
(* The steps, for the save that is popped.                                 *)
(***************************************************************************)
LEMMA CheckWays ==
  ASSUME IInv, Popped("checkmin"), Honest(Top)
  PROVE  /\ Parted(X, Later)
         /\ nodes >= First.min => Rests(Top) = Ways(X, Later)
         /\ nodes < First.min => Rests(Top) = {}
<1>1. saves # <<>> /\ Top.cont # <<>> /\ First.kind = "checkmin"
  BY DEF Popped
<1>2. /\ X \subseteq Task /\ nodes = Weight(X) /\ nodes \in Nat
      /\ Parted(X \cup Under(First), Later)
      /\ \A T : T \in Rests(Top) <=>
           /\ T \in SUBSET Task /\ IsFiniteSet(T) /\ X \subseteq T
           /\ SpecHolds(T, X, First) /\ Holds(T, X \cup Under(First), Later)
  BY <1>1, TopWays
<1>3. First.min \in Nat
  BY <1>1, FirstGood, SpecKinds
<1>4. X \cup Under(First) = X /\ \A T : SpecHolds(T, X, First) <=> First.min <= Weight(T \cap X)
  BY <1>1, CheckHolds
<1>5. \A T : X \subseteq T => T \cap X = X
  OBVIOUS
<1>6. \A T : T \in Rests(Top) <=>
           /\ T \in SUBSET Task /\ IsFiniteSet(T) /\ X \subseteq T
           /\ First.min <= nodes /\ Holds(T, X, Later)
  BY <1>2, <1>4, <1>5
<1>7. ASSUME nodes >= First.min PROVE Rests(Top) = Ways(X, Later)
  BY <1>2, <1>3, <1>6, <1>7 DEF Ways
<1>8. ASSUME nodes < First.min PROVE Rests(Top) = {}
  <2>1. ~ (First.min <= nodes)
    BY <1>2, <1>3, <1>8
  <2>2. \A T : T \notin Rests(Top)
    BY <1>6, <2>1
  <2>3. QED
    BY <2>2
<1>9. QED
  BY <1>2, <1>4, <1>7, <1>8

(* A set that is done asks for nothing more.                               *)
LEMMA DoneWays ==
  ASSUME IInv, Popped("taskset"), First.tasks = <<>>, Honest(Top)
  PROVE  Parted(X, Later) /\ Rests(Top) = Ways(X, Later)
<1>1. saves # <<>> /\ Top.cont # <<>> /\ First.kind = "taskset"
  BY DEF Popped
<1>2. /\ X \subseteq Task /\ nodes = Weight(X) /\ nodes \in Nat
      /\ Parted(X \cup Under(First), Later)
      /\ \A T : T \in Rests(Top) <=>
           /\ T \in SUBSET Task /\ IsFiniteSet(T) /\ X \subseteq T
           /\ SpecHolds(T, X, First) /\ Holds(T, X \cup Under(First), Later)
  BY <1>1, TopWays
<1>3. First.tasks \in Seq(Task) /\ 1..Len(First.tasks) = {} /\ nodes <= First.max
  BY <1>1, FirstGood, SpecKinds DEF Bounded
<1>4. Under(First) = {}
  <2>1. Under(First) = UNION {Sub(First.tasks[i]) : i \in 1..Len(First.tasks)}
    BY <1>1, <1>3, SetHolds
  <2>2. {Sub(First.tasks[i]) : i \in 1..Len(First.tasks)} = {}
    BY <1>3, Zenon
  <2>3. QED
    BY <2>1, <2>2, Zenon
<1>5. \A T : SpecHolds(T, X, First) <=> Weight(T \cap (X \cup Under(First))) <= First.max
  BY <1>1, <1>3, SetHolds
<1>6. X \cup Under(First) = X /\ \A T : X \subseteq T => T \cap X = X
  BY <1>4
<1>7. \A T : T \in Rests(Top) <=>
           T \in SUBSET Task /\ IsFiniteSet(T) /\ X \subseteq T /\ Holds(T, X, Later)
  BY <1>2, <1>3, <1>5, <1>6
<1>8. QED
  BY <1>2, <1>6, <1>7 DEF Ways

(* A task that is popped.                                                  *)
LEMMA TaskWays ==
  ASSUME IInv, Popped("task"), Honest(Top)
  PROVE  LET t == First.task IN
         /\ t \in Task /\ First.min \in Nat /\ First.max \in Nat /\ nodes <= First.max
         /\ X \cap Sub(t) = {} /\ Parted(X \cup Sub(t), Later)
         /\ \A T : T \in Rests(Top) <=>
              /\ T \in SUBSET Task /\ IsFiniteSet(T) /\ X \subseteq T
              /\ T \cap Sub(t) \in Closings(t)
              /\ nodes + Weight(T \cap Sub(t)) <= First.max
              /\ First.min <= Weight(T \cap Sub(t))
              /\ Holds(T, X \cup Sub(t), Later)
         /\ \A T \in SUBSET Task : IsFiniteSet(T) /\ X \subseteq T =>
              /\ Weight(T \cap Sub(t)) \in Nat
              /\ Weight(T \cap (X \cup Sub(t))) = nodes + Weight(T \cap Sub(t))
<1> DEFINE t == First.task
<1>1. saves # <<>> /\ Top.cont # <<>> /\ First.kind = "task"
  BY DEF Popped
<1>2. /\ X \subseteq Task /\ nodes = Weight(X) /\ nodes \in Nat
      /\ SpecParted(X, First) /\ Parted(X \cup Under(First), Later)
      /\ \A T : T \in Rests(Top) <=>
           /\ T \in SUBSET Task /\ IsFiniteSet(T) /\ X \subseteq T
           /\ SpecHolds(T, X, First) /\ Holds(T, X \cup Under(First), Later)
  BY <1>1, TopWays
<1>3. t \in Task /\ First.min \in Nat /\ First.max \in Nat /\ nodes <= First.max
  BY <1>1, FirstGood, SpecKinds DEF Bounded
<1>4. Under(First) = Sub(t) /\ X \cap Sub(t) = {}
  BY <1>1, <1>2, <1>3, TaskHolds
<1>5. \A T : SpecHolds(T, X, First) <=>
              /\ T \cap Sub(t) \in Closings(t)
              /\ Weight(T \cap (X \cup Sub(t))) <= First.max
              /\ First.min <= Weight(T \cap Sub(t))
  BY <1>1, <1>3, TaskHolds
<1>6. ASSUME NEW T \in SUBSET Task, IsFiniteSet(T), X \subseteq T
      PROVE  /\ Weight(T \cap Sub(t)) \in Nat
             /\ Weight(T \cap (X \cup Sub(t))) = nodes + Weight(T \cap Sub(t))
  <2>1. T \cap X = X
    BY <1>6
  <2>2. /\ Weight(T \cap Sub(t)) \in Nat
        /\ Weight(T \cap (X \cup Sub(t))) = Weight(T \cap X) + Weight(T \cap Sub(t))
    BY <1>4, <1>6, WeightSplit
  <2>3. QED
    BY <1>2, <2>1, <2>2
<1> HIDE DEF t
<1>7. \A T : T \in Rests(Top) <=>
              /\ T \in SUBSET Task /\ IsFiniteSet(T) /\ X \subseteq T
              /\ T \cap Sub(t) \in Closings(t)
              /\ nodes + Weight(T \cap Sub(t)) <= First.max
              /\ First.min <= Weight(T \cap Sub(t))
              /\ Holds(T, X \cup Sub(t), Later)
  BY <1>2, <1>4, <1>5, <1>6
<1>8. QED
  BY <1>2, <1>3, <1>4, <1>6, <1>7 DEF t

(* No derivation is lost with a task that has too little room.             *)
LEMMA TooBigWays ==
  ASSUME IInv, TaskTooBig, Honest(Top)
  PROVE  Rests(Top) = {}
<1>1. Popped("task") /\ nodes + First.min > First.max /\ nodes \in Nat
  BY TopGood DEF TaskTooBig, Popped
<1> DEFINE w(T) == Weight(T \cap Sub(First.task))
<1>2. /\ First.min \in Nat /\ First.max \in Nat
      /\ \A T \in Rests(Top) : w(T) \in Nat /\ nodes + w(T) <= First.max /\ First.min <= w(T)
  BY <1>1, TaskWays
<1> HIDE DEF w
<1>3. QED
  BY <1>1, <1>2

(* A task of a tree runs as RunsTree says.                                 *)
LEMMA RanTree ==
  ASSUME IInv, NEW kind, Running(kind), Honest(Top)
  PROVE  LET t == First.task IN
         /\ saves # <<>> /\ Top.cont # <<>> /\ Popped("task") /\ Ran.kind = kind
         /\ kind = "fail" => ~ IsGoal(t) /\ ~ Solvable(Top.ss.val \cup Asks(t))
         /\ kind = "and" =>
              /\ ~ IsGoal(t) /\ Solvable(Top.ss.val \cup Asks(t))
              /\ Ran.nodes = Cost(t) /\ Ran.tasks = Kids(t) /\ Ran.val = Top.ss.val \cup Asks(t)
         /\ kind = "or" =>
              /\ IsGoal(t) /\ Ran.nodes = 0 /\ Ran.val = Top.ss.val
              /\ \E k \in 0..Len(Kids(t)) :
                   /\ Ran.tasks = SubSeq(Kids(t), 1, k)
                   /\ \A i \in k + 1 .. Len(Kids(t)) : nodes + Cost(Kids(t)[i]) > First.max
<1> DEFINE t == First.task
<1>1. /\ saves # <<>> /\ Top.cont # <<>>
      /\ Popped("task") /\ Ran.kind = kind
  BY DEF Running, Popped
<1>2. t \in Task /\ First.max \in Nat
  BY <1>1, TaskWays
<1>3. /\ nodes \in 0..MaxLimit /\ First.max \in 0..MaxLimit /\ Top.ss.val \in Val
  <2>1. nodes \in Nat /\ nodes <= limit /\ limit \in 0..MaxLimit /\ MaxLimit \in Nat /\ Top.ss.val \in Val
    BY <1>1, TopGood, Numbers DEF IInv, State
  <2>2. First.max <= limit
    BY <1>1, FirstGood DEF Popped, Bounded
  <2>3. QED
    BY <1>2, <2>1, <2>2
<1>4. RunsTree(t, nodes, Top.ss.val, First.max)
  BY <1>2, <1>3, TreesAssumption DEF Trees
<1>5. /\ kind = "fail" => ~ IsGoal(t) /\ ~ Solvable(Top.ss.val \cup Asks(t))
      /\ kind = "and" => ~ IsGoal(t) /\ Solvable(Top.ss.val \cup Asks(t))
      /\ kind = "or" => IsGoal(t)
  <2>1. /\ IsGoal(t) => kind = "or"
        /\ ~ IsGoal(t) => kind = IF Solvable(Top.ss.val \cup Asks(t)) THEN "and" ELSE "fail"
    BY <1>1, <1>4, Zenon DEF RunsTree, Ran
  <2>2. "or" # "fail" /\ "or" # "and" /\ "and" # "fail"
    OBVIOUS
  <2>3. QED
    BY <2>1, <2>2, Zenon
<1>6. ASSUME kind = "and"
      PROVE  Ran.nodes = Cost(t) /\ Ran.tasks = Kids(t) /\ Ran.val = Top.ss.val \cup Asks(t)
  BY <1>1, <1>4, <1>5, <1>6, Zenon DEF RunsTree, Ran
<1>7. ASSUME kind = "or"
      PROVE  /\ Ran.nodes = 0 /\ Ran.val = Top.ss.val
             /\ \E k \in 0..Len(Kids(t)) :
                  /\ Ran.tasks = SubSeq(Kids(t), 1, k)
                  /\ \A i \in k + 1 .. Len(Kids(t)) : nodes + Cost(Kids(t)[i]) > First.max
  BY <1>4, <1>5, <1>7, Zenon DEF RunsTree, Ran
<1>8. QED
  BY <1>1, <1>5, <1>6, <1>7

(* No derivation is lost with a clause whose constraints contradict those  *)
(* of the state.                                                           *)
LEMMA FailsWays ==
  ASSUME IInv, TaskFails, Honest(Top), NEW T \in Rests(Top)
  PROVE  ~ Solvable(Asked(T))
<1> DEFINE t == First.task
<1>1. Running("fail")
  BY DEF TaskFails
<1>2. /\ saves # <<>> /\ Top.cont # <<>> /\ Popped("task")
      /\ ~ IsGoal(t) /\ ~ Solvable(Top.ss.val \cup Asks(t))
  BY <1>1, RanTree, Zenon
<1>3. t \in Task /\ T \in SUBSET Task /\ X \subseteq T /\ T \cap Sub(t) \in Closings(t)
  BY <1>2, TaskWays
<1>4. t \in T
  BY <1>2, <1>3, ClauseCloses
<1>5. Top.ss.val = Asked(X)
  BY <1>2, TopWays
<1>6. Top.ss.val \cup Asks(t) \subseteq Asked(T)
  BY <1>3, <1>4, <1>5 DEF Asked
<1>7. Asked(T) \subseteq Constraint
  BY <1>3, TaskFacts DEF Asked
<1>8. \A C \in SUBSET Constraint : Solvable(C) => \A B \in SUBSET C : Solvable(B)
  BY TreesAssumption DEF Trees
<1>9. QED
  BY <1>2, <1>6, <1>7, <1>8

(* The continuation a running task is given asks for what comes later, and *)
(* that the task take its minimum.                                         *)
LEMMA ProxyWays ==
  ASSUME IInv, Popped("task"), Honest(Top)
  PROVE  /\ \A A : Parted(A, ProxyCont) <=> Parted(A, Later)
         /\ \A T, A : T \in SUBSET Task /\ IsFiniteSet(T) /\ X \subseteq T
                      /\ T \cap A = T \cap (X \cup Sub(First.task)) =>
              (Holds(T, A, ProxyCont) <=>
                 First.min <= Weight(T \cap Sub(First.task)) /\ Holds(T, X \cup Sub(First.task), Later))
<1> DEFINE t == First.task
           sp == CheckMinSpec(nodes + First.min)
<1>1. saves # <<>> /\ Top.cont # <<>>
  BY DEF Popped
<1>2. /\ First.min \in Nat /\ nodes \in Nat /\ Top.As \in Nat /\ Later \in Cont
      /\ \A T \in SUBSET Task : IsFiniteSet(T) /\ X \subseteq T =>
           /\ Weight(T \cap Sub(t)) \in Nat
           /\ Weight(T \cap (X \cup Sub(t))) = nodes + Weight(T \cap Sub(t))
  BY <1>1, TaskWays, TopGood, FirstGood
<1>3. sp \in Spec_ /\ sp.kind = "checkmin" /\ sp.min = nodes + First.min
  BY <1>2 DEF CheckMinSpec, Spec_, CheckMin
<1>4. ProxyCont = IF First.min > 0 THEN Add(Later, sp, Top.As) ELSE Later
  BY DEF ProxyCont
<1> HIDE DEF sp, t
<1>5. ASSUME NEW A, NEW T
      PROVE  /\ Holds(T, A, Add(Later, sp, Top.As)) <=>
                  nodes + First.min <= Weight(T \cap A) /\ Holds(T, A, Later)
             /\ Parted(A, Add(Later, sp, Top.As)) <=> Parted(A, Later)
  <2>1. /\ Under(sp) = {} /\ SpecParted(A, sp)
        /\ SpecHolds(T, A, sp) <=> nodes + First.min <= Weight(T \cap A)
    BY <1>3, CheckHolds
  <2>2. A \cup Under(sp) = A
    BY <2>1
  <2>3. /\ Holds(T, A, Add(Later, sp, Top.As)) <=>
             SpecHolds(T, A, sp) /\ Holds(T, A \cup Under(sp), Later)
        /\ Parted(A, Add(Later, sp, Top.As)) <=> SpecParted(A, sp) /\ Parted(A \cup Under(sp), Later)
    BY <1>2, <1>3, AddHeads
  <2>4. QED
    BY <2>1, <2>2, <2>3
<1>6. ASSUME NEW T \in SUBSET Task, NEW A, IsFiniteSet(T), X \subseteq T,
             T \cap A = T \cap (X \cup Sub(t))
      PROVE  Holds(T, A, ProxyCont) <=>
               First.min <= Weight(T \cap Sub(t)) /\ Holds(T, X \cup Sub(t), Later)
  <2>1. Holds(T, A, Later) <=> Holds(T, X \cup Sub(t), Later)
    BY <1>6, SameHolds
  <2>2. Weight(T \cap A) = nodes + Weight(T \cap Sub(t)) /\ Weight(T \cap Sub(t)) \in Nat
    BY <1>2, <1>6
  <2> DEFINE w == Weight(T \cap Sub(t))
  <2> HIDE DEF w
  <2>3. Weight(T \cap A) = nodes + w /\ w \in Nat
    BY <2>2 DEF w
  <2>4. CASE First.min > 0
    <3>1. Holds(T, A, ProxyCont) <=> nodes + First.min <= nodes + w /\ Holds(T, A, Later)
      BY <1>4, <1>5, <2>3, <2>4
    <3>2. nodes + First.min <= nodes + w <=> First.min <= w
      BY <1>2, <2>3
    <3>3. QED
      BY <2>1, <3>1, <3>2 DEF w
  <2>5. CASE ~ (First.min > 0)
    <3>1. First.min <= w /\ ProxyCont = Later
      BY <1>2, <1>4, <2>3, <2>5
    <3>2. QED
      BY <2>1, <3>1 DEF w
  <2>6. QED
    BY <2>4, <2>5
<1>7. \A A : Parted(A, ProxyCont) <=> Parted(A, Later)
  BY <1>4, <1>5
<1>8. QED
  BY <1>6, <1>7 DEF t

(* A clause that asks for its goals stands for what it stood for.          *)
LEMMA AsksWays ==
  ASSUME IInv, TaskAsks, Honest(Top)
  PROVE  LET c == Add(ProxyCont, TaskSetSpec(Reverse(Ran.tasks), First.max), ProxyBrk) IN
         HonestState(state') /\ Parted(state'.trail, c) /\ Ways(state'.trail, c) = Rests(Top)
<1> DEFINE t == First.task
           sp == TaskSetSpec(Reverse(Ran.tasks), First.max)
           c == Add(ProxyCont, sp, ProxyBrk)
           Y == X \cup {t}
           ks == Kids(t)
<1>1. /\ Running("and")
      /\ state' = [nodes_used |-> nodes + Ran.nodes, val |-> Ran.val, trail |-> Y]
  BY DEF TaskAsks, Running, After, X
<1>2. /\ saves # <<>> /\ Top.cont # <<>> /\ Popped("task")
      /\ ~ IsGoal(t) /\ Solvable(Top.ss.val \cup Asks(t))
      /\ Ran.nodes = Cost(t) /\ Ran.tasks = ks /\ Ran.val = Top.ss.val \cup Asks(t)
  BY <1>1, RanTree, Zenon
<1>3. /\ X \subseteq Task /\ IsFiniteSet(X) /\ nodes = Weight(X) /\ nodes \in Nat
      /\ Top.ss.val = Asked(X)
  BY <1>2, TopWays
<1>4. /\ t \in Task /\ First.min \in Nat /\ First.max \in Nat
      /\ X \cap Sub(t) = {} /\ Parted(X \cup Sub(t), Later)
      /\ \A T : T \in Rests(Top) <=>
           /\ T \in SUBSET Task /\ IsFiniteSet(T) /\ X \subseteq T
           /\ T \cap Sub(t) \in Closings(t)
           /\ nodes + Weight(T \cap Sub(t)) <= First.max
           /\ First.min <= Weight(T \cap Sub(t))
           /\ Holds(T, X \cup Sub(t), Later)
      /\ \A T \in SUBSET Task : IsFiniteSet(T) /\ X \subseteq T =>
           /\ Weight(T \cap Sub(t)) \in Nat
           /\ Weight(T \cap (X \cup Sub(t))) = nodes + Weight(T \cap Sub(t))
  BY <1>2, TaskWays
<1>5. /\ ks \in Seq(Task) /\ Len(ks) \in Nat /\ kids(t) = 1..Len(ks) /\ t \in Sub(t)
      /\ \A i \in kids(t) : t \notin Sub(ks[i]) /\ Sub(ks[i]) \subseteq Sub(t)
      /\ \A i, j \in kids(t) : i # j => Sub(ks[i]) \cap Sub(ks[j]) = {}
      /\ Sub(t) = {t} \cup UNION {Sub(ks[i]) : i \in kids(t)}
  BY <1>4, TaskFacts DEF kids
<1>6. /\ ProxyCont \in Cont /\ ProxyBrk \in Nat /\ sp \in Spec_
  BY <1>1, <1>2, TreesFit, ProxyGood, AskedSpec
<1>7. HonestState(state')
  <2>1. t \notin X
    BY <1>4, <1>5
  <2>2. IsFiniteSet({t}) /\ Y \in SUBSET Task /\ IsFiniteSet(Y)
    BY <1>3, <1>4, Single, FS_Union
  <2>3. Weight(Y) = Weight(X) + Weight({t})
    <3>1. X \in SUBSET Task /\ {t} \in SUBSET Task /\ X \cap {t} = {}
      BY <1>3, <1>4, <2>1
    <3> HIDE DEF t
    <3>2. QED
      BY <1>3, <2>2, <3>1, WeightAdds
  <2>4. Weight(Y) = nodes + Ran.nodes
    BY <1>2, <1>3, <1>4, <2>3, WeightOne
  <2>5. Asked(Y) = Asked(X) \cup Asks(t)
    BY DEF Asked
  <2>6. QED
    BY <1>1, <1>2, <1>3, <2>2, <2>4, <2>5 DEF HonestState
<1>8. /\ sp.kind = "taskset" /\ sp.tasks = Reverse(ks) /\ sp.max = First.max
      /\ sp.tasks \in Seq(Task) /\ Len(sp.tasks) = Len(ks)
      /\ \A i \in 1..Len(ks) : Len(ks) - i + 1 \in 1..Len(ks) /\ sp.tasks[i] = ks[Len(ks) - i + 1]
  <2>1. sp.kind = "taskset" /\ sp.tasks = Reverse(ks) /\ sp.max = First.max
    BY <1>2 DEF TaskSetSpec
  <2>2. sp.tasks \in Seq(Task)
    BY <1>6, <2>1, SpecKinds
  <2>3. \A i \in 1..Len(ks) : Len(ks) - i + 1 \in 1..Len(ks)
    BY <1>5
  <2>4. Reverse(ks) = [i \in 1..Len(ks) |-> ks[Len(ks) - i + 1]]
    BY DEF Reverse
  <2>5. DOMAIN Reverse(ks) = 1..Len(ks)
    BY <2>4
  <2>6. Len(sp.tasks) = Len(ks)
    BY <1>5, <2>1, <2>2, <2>5
  <2>7. QED
    BY <2>1, <2>2, <2>3, <2>4, <2>6
<1> HIDE DEF sp, c, t, ks
<1>9. \A k \in kids(t) : \E i \in 1..Len(ks) : ks[k] = sp.tasks[i]
  <2>1. \A k \in 1..Len(ks) : Len(ks) - k + 1 \in 1..Len(ks) /\ Len(ks) - (Len(ks) - k + 1) + 1 = k
    BY <1>5
  <2>2. QED
    BY <1>5, <1>8, <2>1
<1>10. Under(sp) = UNION {Sub(ks[i]) : i \in kids(t)}
  <2>1. Under(sp) = UNION {Sub(sp.tasks[i]) : i \in 1..Len(ks)}
    BY <1>8, SetHolds
  <2>2. \A i \in 1..Len(ks) : \E k \in kids(t) : sp.tasks[i] = ks[k]
    BY <1>5, <1>8
  <2>3. Under(sp) \subseteq UNION {Sub(ks[i]) : i \in kids(t)}
    BY <2>1, <2>2
  <2>4. UNION {Sub(ks[i]) : i \in kids(t)} \subseteq Under(sp)
    BY <1>9, <2>1
  <2>5. QED
    BY <2>3, <2>4
<1>11. Y \cup Under(sp) = X \cup Sub(t) /\ Y \cap Under(sp) = {}
  BY <1>4, <1>5, <1>10
<1>12. SpecParted(Y, sp)
  <2>1. ASSUME NEW i \in 1..Len(sp.tasks), NEW j \in 1..Len(sp.tasks), i # j
        PROVE  Sub(sp.tasks[i]) \cap Sub(sp.tasks[j]) = {}
    <3>1. Len(ks) - i + 1 # Len(ks) - j + 1
      BY <1>5, <1>8, <2>1
    <3>2. QED
      BY <1>5, <1>8, <2>1, <3>1
  <2>2. QED
    BY <1>11, <2>1 DEF SpecParted
<1>13. Parted(Y, c)
  <2>1. Parted(X \cup Sub(t), ProxyCont)
    BY <1>2, <1>4, ProxyWays
  <2>2. QED
    BY <1>6, <1>11, <1>12, <2>1, AddHeads DEF c
<1>14. ASSUME NEW T \in SUBSET Task, IsFiniteSet(T), X \subseteq T
       PROVE  Holds(T, Y, c) /\ t \in T <=>
                /\ T \cap Sub(t) \in Closings(t)
                /\ nodes + Weight(T \cap Sub(t)) <= First.max
                /\ First.min <= Weight(T \cap Sub(t))
                /\ Holds(T, X \cup Sub(t), Later)
  <2>1. Holds(T, Y, c) <=> SpecHolds(T, Y, sp) /\ Holds(T, X \cup Sub(t), ProxyCont)
    BY <1>6, <1>11, AddHeads DEF c
  <2>2. SpecHolds(T, Y, sp) <=>
          /\ \A i \in 1..Len(sp.tasks) : T \cap Sub(sp.tasks[i]) \in Closings(sp.tasks[i])
          /\ Weight(T \cap (X \cup Sub(t))) <= First.max
    BY <1>8, <1>11, SetHolds
  <2>3. (\A i \in 1..Len(sp.tasks) : T \cap Sub(sp.tasks[i]) \in Closings(sp.tasks[i])) <=>
          (\A i \in kids(t) : T \cap Sub(ks[i]) \in Closings(ks[i]))
    BY <1>5, <1>8, <1>9
  <2>4. T \cap Sub(t) \in Closings(t) <=>
          t \in T /\ \A i \in kids(t) : T \cap Sub(ks[i]) \in Closings(ks[i])
    BY <1>2, <1>4, ClauseCloses DEF t, ks
  <2>5. Weight(T \cap (X \cup Sub(t))) = nodes + Weight(T \cap Sub(t))
    BY <1>4, <1>14
  <2>6. Holds(T, X \cup Sub(t), ProxyCont) <=>
          First.min <= Weight(T \cap Sub(t)) /\ Holds(T, X \cup Sub(t), Later)
    BY <1>2, <1>14, ProxyWays DEF t
  <2>7. QED
    BY <2>1, <2>2, <2>3, <2>4, <2>5, <2>6
<1>15. Ways(Y, c) = Rests(Top)
  <2>1. \A T : T \in Ways(Y, c) <=> T \in Rests(Top)
    BY <1>4, <1>14 DEF Ways
  <2>2. QED
    BY <2>1
<1>16. QED
  BY <1>1, <1>7, <1>13, <1>15 DEF c, sp

(* A goal offers its first clauses, in a state that is still honest.       *)
LEMMA OfferedKids ==
  ASSUME IInv, TaskOffers, Honest(Top)
  PROVE  LET t == First.task  n == Len(Ran.tasks) IN
         /\ saves # <<>> /\ Top.cont # <<>> /\ Popped("task") /\ Running("or") /\ IsGoal(t)
         /\ HonestState(state') /\ state'.trail = X
         /\ n \in 0..Len(Kids(t))
         /\ \A i \in 1..n : i \in kids(t) /\ Ran.tasks[i] = Kids(t)[i]
         /\ \A i \in kids(t) : i \notin 1..n => nodes + Cost(Kids(t)[i]) > First.max
<1> DEFINE t == First.task
           ks == Kids(t)
<1>1. Running("or")
  BY DEF TaskOffers
<1>2. /\ saves # <<>> /\ Top.cont # <<>> /\ Popped("task") /\ IsGoal(t)
      /\ Ran.nodes = 0 /\ Ran.val = Top.ss.val
      /\ \E k \in 0..Len(ks) :
           /\ Ran.tasks = SubSeq(ks, 1, k)
           /\ \A i \in k + 1 .. Len(ks) : nodes + Cost(ks[i]) > First.max
  BY <1>1, RanTree, Zenon
<1>3. t \in Task
  BY <1>2, TaskWays
<1>4. ks \in Seq(Task) /\ Len(ks) \in Nat /\ kids(t) = 1..Len(ks)
  BY <1>3, TaskFacts DEF kids
<1>5. nodes \in Nat
  BY <1>2, TopGood
<1>6. HonestState(state') /\ state'.trail = X
  <2>1. state' = [nodes_used |-> nodes + Ran.nodes, val |-> Ran.val, trail |-> X]
    BY <1>1 DEF Running, After, X
  <2>2. state'.nodes_used = nodes /\ state'.val = Top.ss.val /\ state'.trail = X
    BY <1>2, <1>5, <2>1
  <2>3. HonestState(Top.ss)
    BY DEF Honest
  <2>4. QED
    BY <2>2, <2>3 DEF HonestState, X, nodes
<1> HIDE DEF t, ks
<1>7. PICK k \in 0..Len(ks) :
           /\ Ran.tasks = SubSeq(ks, 1, k)
           /\ \A i \in k + 1 .. Len(ks) : nodes + Cost(ks[i]) > First.max
  BY <1>2
<1>8. Len(Ran.tasks) = k /\ \A i \in 1..k : Ran.tasks[i] = ks[i]
  BY <1>4, <1>7
<1>9. \A i \in kids(t) : i \notin 1..k => i \in k + 1 .. Len(ks)
  BY <1>4
<1>10. \A i \in 1..k : i \in kids(t)
  BY <1>4
<1>11. QED
  BY <1>1, <1>2, <1>6, <1>7, <1>8, <1>9, <1>10 DEF t, ks

(* An alternative stands for what uses no clause of the goal but its own.  *)
LEMMA OfferWays ==
  ASSUME IInv, TaskOffers, Honest(Top), NEW i \in 1..Len(Ran.tasks), NEW b \in Nat
  PROVE  LET c == Add(ProxyCont, OneTaskSpec(Ran.tasks[i], 0, First.max), b) IN
         /\ Parted(X, c)
         /\ \A T : T \in Ways(X, c) <=>
                   T \in Rests(Top) /\ T \cap Sub(First.task) \subseteq Sub(Kids(First.task)[i])
<1> DEFINE t == First.task
           K == Kids(t)[i]
           sp == OneTaskSpec(Ran.tasks[i], 0, First.max)
           c == Add(ProxyCont, sp, b)
           S == Sub(t)
           SK == Sub(K)
           w(T) == Weight(T \cap S)
<1>1. /\ Popped("task") /\ Running("or") /\ IsGoal(t)
      /\ i \in kids(t) /\ Ran.tasks[i] = K
  BY OfferedKids, Zenon
<1>2. /\ t \in Task /\ First.min \in Nat /\ First.max \in Nat
      /\ X \cap S = {} /\ Parted(X \cup S, Later)
      /\ \A T : T \in Rests(Top) <=>
           /\ T \in SUBSET Task /\ IsFiniteSet(T) /\ X \subseteq T
           /\ T \cap S \in Closings(t)
           /\ nodes + w(T) <= First.max
           /\ First.min <= w(T)
           /\ Holds(T, X \cup S, Later)
      /\ \A T \in SUBSET Task : IsFiniteSet(T) /\ X \subseteq T =>
           w(T) \in Nat /\ Weight(T \cap (X \cup S)) = nodes + w(T)
  BY <1>1, TaskWays
<1>3. /\ K \in Task /\ SK \subseteq S
      /\ \A j \in kids(t) : i # j => SK \cap Sub(Kids(t)[j]) = {}
      /\ \A j \in kids(t) : Kids(t)[j] \in Task
  BY <1>1, <1>2, TaskFacts
<1>4. ProxyCont \in Cont /\ sp \in Spec_
  <2>1. ProxyCont \in Cont
    BY <1>1, ProxyGood
  <2>2. QED
    BY <1>1, <1>2, <1>3, <2>1 DEF OneTaskSpec, Spec_, OneTask
<1>5. sp.kind = "task" /\ sp.task = K /\ sp.min = 0 /\ sp.max = First.max
  BY <1>1 DEF OneTaskSpec
<1>6. Parted(X \cup S, ProxyCont)
  BY <1>1, <1>2, ProxyWays
<1>7. ASSUME NEW T
      PROVE  /\ T \cap S \subseteq SK /\ T \cap SK \in Closings(K) => T \cap S \in Closings(t)
             /\ T \cap S \in Closings(t) =>
                  \E j \in kids(t) :
                    T \cap S \subseteq Sub(Kids(t)[j]) /\ T \cap Sub(Kids(t)[j]) \in Closings(Kids(t)[j])
  <2>1. /\ \A j \in kids(t) :
              T \cap S \subseteq Sub(Kids(t)[j]) /\ T \cap Sub(Kids(t)[j]) \in Closings(Kids(t)[j])
                => T \cap S \in Closings(t)
        /\ T \cap S \in Closings(t) =>
             \E j \in kids(t) :
               T \cap S \subseteq Sub(Kids(t)[j]) /\ T \cap Sub(Kids(t)[j]) \in Closings(Kids(t)[j])
    <3>1. IsGoal(t) /\ t \in Task
      BY <1>1, <1>2
    <3> HIDE DEF t
    <3>2. QED
      BY <3>1, GoalCloses, Zenon
  <2> HIDE DEF t
  <2>2. QED
    BY <1>1, <2>1
<1>8. \A j \in kids(t) : \A d \in Closings(Kids(t)[j]) : d # {}
  BY <1>3, TaskFacts
<1>9. ASSUME NEW T, NEW A, T \in SUBSET Task, IsFiniteSet(T), X \subseteq T,
             T \cap A = T \cap (X \cup S)
      PROVE  Holds(T, A, ProxyCont) <=> First.min <= w(T) /\ Holds(T, X \cup S, Later)
  BY <1>1, <1>9, ProxyWays
<1> HIDE DEF sp, c, t, K
<1>10. Under(sp) = SK /\ \A A : SpecParted(A, sp) <=> A \cap SK = {}
  BY <1>3, <1>5, TaskHolds
<1>11. Parted(X, c)
  <2>1. Parted(X \cup SK, ProxyCont)
    BY <1>3, <1>6, FewerParted
  <2>2. SpecParted(X, sp)
    BY <1>2, <1>3, <1>10
  <2>3. QED
    BY <1>4, <1>10, <2>1, <2>2, AddHeads DEF c
<1>12. \A T : Holds(T, X, c) <=>
          /\ T \cap SK \in Closings(K)
          /\ Weight(T \cap (X \cup SK)) <= First.max
          /\ 0 <= Weight(T \cap SK)
          /\ Holds(T, X \cup SK, ProxyCont)
  <2> TAKE T
  <2>1. Holds(T, X, c) <=> SpecHolds(T, X, sp) /\ Holds(T, X \cup SK, ProxyCont)
    BY <1>4, <1>10, AddHeads DEF c
  <2>2. SpecHolds(T, X, sp) <=>
          /\ T \cap SK \in Closings(K)
          /\ Weight(T \cap (X \cup SK)) <= First.max
          /\ 0 <= Weight(T \cap SK)
    BY <1>3, <1>5, TaskHolds
  <2>3. QED
    BY <2>1, <2>2
<1>13. ASSUME NEW T, Holds(T, X, c) PROVE T \cap S \subseteq SK
  <2>1. Len(ProxyCont) \in 0..Len(ProxyCont)
    BY <1>4, LenProperties DEF Cont
  <2>2. (X \cup S) \cap Ahead(ProxyCont, Len(ProxyCont)) = {}
    BY <1>4, <1>6, <2>1, PartedAhead
  <2>3. Holds(T, X \cup SK, ProxyCont)
    BY <1>12, <1>13
  <2>4. T \subseteq (X \cup SK) \cup Ahead(ProxyCont, Len(ProxyCont))
    BY <2>3 DEF Holds
  <2>5. QED
    BY <1>2, <2>2, <2>4
<1>14. ASSUME NEW T, T \in SUBSET Task, IsFiniteSet(T), X \subseteq T, T \cap S \subseteq SK
       PROVE  Holds(T, X, c) <=>
                /\ T \cap S \in Closings(t)
                /\ nodes + w(T) <= First.max
                /\ First.min <= w(T)
                /\ Holds(T, X \cup S, Later)
  <2>1. T \cap S = T \cap SK /\ T \cap (X \cup SK) = T \cap (X \cup S)
    BY <1>3, <1>14
  <2>2. w(T) \in Nat /\ Weight(T \cap (X \cup S)) = nodes + w(T)
    BY <1>2, <1>14
  <2>3. T \cap SK \in Closings(K) <=> T \cap S \in Closings(t)
    <3>1. ASSUME T \cap S \in Closings(t) PROVE T \cap SK \in Closings(K)
      <4>1. PICK j \in kids(t) : T \cap S \subseteq Sub(Kids(t)[j]) /\ T \cap Sub(Kids(t)[j]) \in Closings(Kids(t)[j])
        BY <1>7, <3>1
      <4>2. T \cap Sub(Kids(t)[j]) # {}
        BY <1>8, <4>1
      <4>3. \E x : x \in T \cap S /\ x \in Sub(Kids(t)[j])
        <5>1. Sub(Kids(t)[j]) \subseteq S
          BY <1>2, TaskFacts DEF t
        <5>2. QED
          BY <4>2, <5>1
      <4>4. i = j
        BY <1>3, <1>14, <4>3
      <4>5. QED
        BY <4>1, <4>4 DEF K
    <3>2. ASSUME T \cap SK \in Closings(K) PROVE T \cap S \in Closings(t)
      BY <1>7, <1>14, <3>2
    <3>3. QED
      BY <3>1, <3>2
  <2>4. Holds(T, X \cup SK, ProxyCont) <=> First.min <= w(T) /\ Holds(T, X \cup S, Later)
    BY <1>9, <1>14, <2>1
  <2>5. Weight(T \cap (X \cup SK)) = nodes + w(T) /\ 0 <= Weight(T \cap SK)
    <3>1. Weight(T \cap (X \cup SK)) = nodes + w(T)
      BY <2>1, <2>2
    <3>2. Weight(T \cap SK) = w(T)
      BY <2>1
    <3>3. QED
      BY <2>2, <3>1, <3>2
  <2>6. QED
    BY <1>12, <2>3, <2>4, <2>5
<1>15. \A T : T \in Ways(X, c) <=> T \in Rests(Top) /\ T \cap S \subseteq SK
  <2> TAKE T
  <2>1. T \in Ways(X, c) <=> T \in SUBSET Task /\ IsFiniteSet(T) /\ X \subseteq T /\ Holds(T, X, c)
    BY DEF Ways
  <2>2. QED
    BY <1>2, <1>13, <1>14, <2>1
<1>16. QED
  BY <1>11, <1>15 DEF c, sp, t, K

(* The alternatives exclude each other, and those not offered are too      *)
(* large.                                                                  *)
LEMMA OffersDivide ==
  ASSUME IInv, TaskOffers, Honest(Top), NEW T \in Rests(Top)
  PROVE  LET t == First.task  n == Len(Ran.tasks) IN
         /\ \E i \in 1..n : T \cap Sub(t) \subseteq Sub(Kids(t)[i])
         /\ \A i, j \in 1..n : i # j =>
              ~ (T \cap Sub(t) \subseteq Sub(Kids(t)[i]) /\ T \cap Sub(t) \subseteq Sub(Kids(t)[j]))
<1> DEFINE t == First.task
           n == Len(Ran.tasks)
           K(j) == Kids(t)[j]
<1>1. /\ Popped("task") /\ IsGoal(t)
      /\ \A i \in 1..n : i \in kids(t)
      /\ \A i \in kids(t) : i \notin 1..n => nodes + Cost(K(i)) > First.max
  BY OfferedKids, Zenon
<1>2. /\ t \in Task /\ First.max \in Nat /\ nodes \in Nat
      /\ T \in SUBSET Task /\ IsFiniteSet(T) /\ T \cap Sub(t) \in Closings(t)
      /\ Weight(T \cap Sub(t)) \in Nat
      /\ nodes + Weight(T \cap Sub(t)) <= First.max
  <2>1. nodes \in Nat
    BY <1>1, TopGood DEF Popped
  <2>2. QED
    BY <1>1, <2>1, TaskWays
<1>3. /\ \A i \in kids(t) : K(i) \in Task /\ Sub(K(i)) \subseteq Sub(t) /\ (IsGoal(K(i)) <=> ~ IsGoal(t))
      /\ \A i, j \in kids(t) : i # j => Sub(K(i)) \cap Sub(K(j)) = {}
      /\ \A d \in Closings(t) : d \subseteq Sub(t) /\ d # {}
  BY <1>2, TaskFacts
<1>4. PICK j \in kids(t) : T \cap Sub(t) \subseteq Sub(K(j)) /\ T \cap Sub(K(j)) \in Closings(K(j))
  BY <1>1, <1>2, GoalCloses
<1>5. j \in 1..n
  <2>1. SUFFICES ASSUME j \notin 1..n PROVE FALSE
    OBVIOUS
  <2>2. nodes + Cost(K(j)) > First.max
    BY <1>1, <2>1
  <2> DEFINE k == K(j)
  <2>3. k \in Task /\ ~ IsGoal(k) /\ Sub(k) \subseteq Sub(t) /\ T \cap Sub(k) \in Closings(k)
    BY <1>1, <1>3, <1>4, Zenon
  <2> HIDE DEF k
  <2>4. k \in T /\ k \in Sub(k) /\ Cost(k) \in Nat
    BY <2>3, ClauseCloses, TaskFacts
  <2>5. {k} \in SUBSET Task /\ {k} \subseteq T \cap Sub(t) /\ T \cap Sub(t) \in SUBSET Task
    BY <1>2, <2>3, <2>4
  <2>6. IsFiniteSet({k}) /\ IsFiniteSet(T \cap Sub(t))
    BY <1>2, Single, FS_Intersection
  <2>7. Weight({k}) <= Weight(T \cap Sub(t))
    BY <2>5, <2>6, WeightAdds
  <2>8. Cost(k) <= Weight(T \cap Sub(t))
    BY <2>3, <2>7, WeightOne
  <2>9. nodes + Cost(k) > First.max
    BY <2>2 DEF k
  <2>10. QED
    BY <1>2, <2>4, <2>8, <2>9
<1>6. ASSUME NEW p \in 1..n, NEW q \in 1..n, p # q,
             T \cap Sub(t) \subseteq Sub(K(p)), T \cap Sub(t) \subseteq Sub(K(q))
      PROVE  FALSE
  <2>1. Sub(K(p)) \cap Sub(K(q)) = {}
    BY <1>1, <1>3, <1>6
  <2>2. T \cap Sub(t) # {}
    BY <1>2, <1>3
  <2>3. QED
    BY <1>6, <2>1, <2>2
<1>7. QED
  BY <1>4, <1>5, <1>6

(* The trees below the first task of a set and below the others.          *)
HeadTree == Sub(Head(First.tasks))
OtherTrees == UNION {Sub(others[i]) : i \in 1..Len(others)}

(* A task set that is popped: its first task and the others.               *)
LEMMA SetParts ==
  ASSUME IInv, Popped("taskset"), First.tasks # <<>>, Honest(Top)
  PROVE  LET h == Head(First.tasks) IN
         /\ nodes \in Nat /\ First.max \in Nat /\ Later \in Cont
         /\ h \in Task /\ others \in Seq(Task)
         /\ X \cap HeadTree = {} /\ X \cap OtherTrees = {} /\ HeadTree \cap OtherTrees = {}
         /\ \A i, j \in 1..Len(others) : i # j => Sub(others[i]) \cap Sub(others[j]) = {}
         /\ Parted(X \cup HeadTree \cup OtherTrees, Later)
         /\ \A T : T \in Rests(Top) <=>
              /\ T \in SUBSET Task /\ IsFiniteSet(T) /\ X \subseteq T
              /\ T \cap HeadTree \in Closings(h)
              /\ \A i \in 1..Len(others) : T \cap Sub(others[i]) \in Closings(others[i])
              /\ nodes + Weight(T \cap HeadTree) + Weight(T \cap OtherTrees) <= First.max
              /\ Holds(T, X \cup HeadTree \cup OtherTrees, Later)
<1> DEFINE ts == First.tasks
           h == Head(ts)
<1>1. saves # <<>> /\ Top.cont # <<>> /\ First.kind = "taskset"
  BY DEF Popped
<1>2. /\ X \subseteq Task /\ nodes = Weight(X) /\ nodes \in Nat
      /\ SpecParted(X, First) /\ Parted(X \cup Under(First), Later)
      /\ \A T : T \in Rests(Top) <=>
           /\ T \in SUBSET Task /\ IsFiniteSet(T) /\ X \subseteq T
           /\ SpecHolds(T, X, First) /\ Holds(T, X \cup Under(First), Later)
  BY <1>1, TopWays
<1>3. ts \in Seq(Task) /\ First.max \in Nat /\ Later \in Cont
  BY <1>1, FirstGood, SpecKinds DEF Bounded
<1>4. /\ Len(ts) \in Nat \ {0} /\ h = ts[1] /\ h \in Task
      /\ others \in Seq(Task) /\ Len(others) = Len(ts) - 1
      /\ \A i \in 1..Len(others) : others[i] = ts[i + 1]
  BY <1>3, EmptySeq, HeadTailProperties DEF others
<1>5. /\ \A i \in 1..Len(others) : i + 1 \in 1..Len(ts) /\ i + 1 # 1
      /\ 1 \in 1..Len(ts)
      /\ \A i \in 1..Len(ts) : i = 1 \/ (i - 1 \in 1..Len(others) /\ i = (i - 1) + 1)
  BY <1>4
<1>6. /\ Under(First) = UNION {Sub(ts[i]) : i \in 1..Len(ts)}
      /\ \A T : SpecHolds(T, X, First) <=>
           /\ \A i \in 1..Len(ts) : T \cap Sub(ts[i]) \in Closings(ts[i])
           /\ Weight(T \cap (X \cup Under(First))) <= First.max
  BY <1>1, <1>3, SetHolds
<1>7. /\ X \cap Under(First) = {}
      /\ \A i, j \in 1..Len(ts) : i # j => Sub(ts[i]) \cap Sub(ts[j]) = {}
  BY <1>1, <1>2 DEF SpecParted
<1> HIDE DEF ts, h
<1>8. \A i \in 1..Len(ts) : ts[i] = h \/ \E j \in 1..Len(others) : ts[i] = others[j]
  BY <1>4, <1>5
<1>9. HeadTree = Sub(h) /\ \A i \in 1..Len(others) : Sub(others[i]) \subseteq OtherTrees
  BY DEF HeadTree, OtherTrees, h, ts
<1>10. Under(First) = HeadTree \cup OtherTrees
  <2>1. Under(First) \subseteq HeadTree \cup OtherTrees
    BY <1>6, <1>8, <1>9
  <2>2. HeadTree \subseteq Under(First)
    BY <1>4, <1>5, <1>6, <1>9
  <2>3. OtherTrees \subseteq Under(First)
    BY <1>4, <1>5, <1>6 DEF OtherTrees
  <2>4. QED
    BY <2>1, <2>2, <2>3
<1>11. HeadTree \cap OtherTrees = {}
  <2>1. \A i \in 1..Len(others) : Sub(h) \cap Sub(others[i]) = {}
    BY <1>4, <1>5, <1>7
  <2>2. QED
    BY <1>9, <2>1 DEF OtherTrees
<1>12. \A i, j \in 1..Len(others) : i # j => Sub(others[i]) \cap Sub(others[j]) = {}
  <2> SUFFICES ASSUME NEW i \in 1..Len(others), NEW j \in 1..Len(others), i # j
               PROVE  Sub(others[i]) \cap Sub(others[j]) = {}
    OBVIOUS
  <2>1. PICK p \in 1..Len(ts) : p = i + 1
    BY <1>5
  <2>2. PICK q \in 1..Len(ts) : q = j + 1
    BY <1>5
  <2>3. p # q
    BY <1>4, <2>1, <2>2
  <2>4. others[i] = ts[p] /\ others[j] = ts[q]
    BY <1>4, <2>1, <2>2
  <2>5. QED
    BY <1>7, <2>3, <2>4
<1>13. X \cap HeadTree = {} /\ X \cap OtherTrees = {} /\ X \cup HeadTree \cup OtherTrees = X \cup Under(First)
  BY <1>7, <1>10
<1>14. ASSUME NEW T \in SUBSET Task, IsFiniteSet(T), X \subseteq T
       PROVE  SpecHolds(T, X, First) <=>
                /\ T \cap HeadTree \in Closings(h)
                /\ \A i \in 1..Len(others) : T \cap Sub(others[i]) \in Closings(others[i])
                /\ nodes + Weight(T \cap HeadTree) + Weight(T \cap OtherTrees) <= First.max
  <2>1. (\A i \in 1..Len(ts) : T \cap Sub(ts[i]) \in Closings(ts[i])) <=>
          /\ T \cap HeadTree \in Closings(h)
          /\ \A i \in 1..Len(others) : T \cap Sub(others[i]) \in Closings(others[i])
    BY <1>4, <1>5, <1>8, <1>9
  <2>2. /\ Weight(T \cap X) \in Nat /\ Weight(T \cap HeadTree) \in Nat /\ Weight(T \cap OtherTrees) \in Nat
        /\ Weight(T \cap (X \cup HeadTree)) = Weight(T \cap X) + Weight(T \cap HeadTree)
    <3>1. X \cap HeadTree = {} /\ (X \cup HeadTree) \cap OtherTrees = {}
      BY <1>11, <1>13
    <3>2. /\ Weight(T \cap X) \in Nat /\ Weight(T \cap HeadTree) \in Nat
          /\ Weight(T \cap (X \cup HeadTree)) = Weight(T \cap X) + Weight(T \cap HeadTree)
      BY <1>14, <3>1, WeightSplit
    <3>3. Weight(T \cap OtherTrees) \in Nat
      BY <1>14, <3>1, WeightSplit
    <3>4. QED
      BY <3>2, <3>3
  <2>3. Weight(T \cap ((X \cup HeadTree) \cup OtherTrees)) =
          Weight(T \cap (X \cup HeadTree)) + Weight(T \cap OtherTrees)
    <3>1. (X \cup HeadTree) \cap OtherTrees = {}
      BY <1>11, <1>13
    <3>2. QED
      BY <1>14, <3>1, WeightSplit
  <2>4. T \cap X = X
    BY <1>14
  <2>5. Weight(T \cap (X \cup Under(First))) = nodes + Weight(T \cap HeadTree) + Weight(T \cap OtherTrees)
    BY <1>2, <1>13, <2>2, <2>3, <2>4
  <2>6. QED
    BY <1>6, <2>1, <2>5
<1>15. \A T : T \in Rests(Top) <=>
              /\ T \in SUBSET Task /\ IsFiniteSet(T) /\ X \subseteq T
              /\ T \cap HeadTree \in Closings(h)
              /\ \A i \in 1..Len(others) : T \cap Sub(others[i]) \in Closings(others[i])
              /\ nodes + Weight(T \cap HeadTree) + Weight(T \cap OtherTrees) <= First.max
              /\ Holds(T, X \cup HeadTree \cup OtherTrees, Later)
  BY <1>2, <1>13, <1>14
<1>16. Parted(X \cup HeadTree \cup OtherTrees, Later)
  BY <1>2, <1>13
<1>17. QED
  BY <1>2, <1>3, <1>4, <1>11, <1>12, <1>13, <1>15, <1>16 DEF h, ts

(* The weights of what a set has in the trees of a task set.               *)
LEMMA SetWeights ==
  ASSUME IInv, Popped("taskset"), First.tasks # <<>>, Honest(Top),
         NEW T \in SUBSET Task, IsFiniteSet(T), X \subseteq T
  PROVE  LET wh == Weight(T \cap HeadTree)  wo == Weight(T \cap OtherTrees) IN
         /\ wh \in Nat /\ wo \in Nat
         /\ Weight(T \cap (X \cup HeadTree)) = nodes + wh
         /\ Weight(T \cap (X \cup OtherTrees)) = nodes + wo
         /\ Weight(T \cap (X \cup HeadTree \cup OtherTrees)) = nodes + wh + wo
<1>1. X \cap HeadTree = {} /\ X \cap OtherTrees = {} /\ HeadTree \cap OtherTrees = {}
  BY SetParts
<1>2. nodes = Weight(X) /\ nodes \in Nat
  BY TopWays DEF Popped
<1>3. T \cap X = X
  OBVIOUS
<1>4. /\ Weight(T \cap HeadTree) \in Nat
      /\ Weight(T \cap (X \cup HeadTree)) = Weight(T \cap X) + Weight(T \cap HeadTree)
  BY <1>1, WeightSplit
<1>5. /\ Weight(T \cap OtherTrees) \in Nat
      /\ Weight(T \cap (X \cup OtherTrees)) = Weight(T \cap X) + Weight(T \cap OtherTrees)
  BY <1>1, WeightSplit
<1>6. (X \cup HeadTree) \cap OtherTrees = {}
  BY <1>1
<1>7. Weight(T \cap ((X \cup HeadTree) \cup OtherTrees)) =
        Weight(T \cap (X \cup HeadTree)) + Weight(T \cap OtherTrees)
  BY <1>6, WeightSplit
<1>8. QED
  BY <1>2, <1>3, <1>4, <1>5, <1>7

(* The first half stands for what gives the first task at most its share.  *)
LEMMA ShareWays ==
  ASSUME IInv, Popped("taskset"), First.tasks # <<>>, Honest(Top)
  PROVE  /\ Parted(X, ShareCont)
         /\ \A T : T \in Ways(X, ShareCont) <=> T \in Rests(Top) /\ Weight(T \cap HeadTree) <= head_budget
<1> DEFINE h == Head(First.tasks)
           rest == TaskSetSpec(others, First.max)
           one == OneTaskSpec(h, 0, nodes + head_budget)
           c == IF others = <<>> THEN Later ELSE Add(Later, rest, Top.As)
           b == Top.As + Len(c) - Len(Later)
           A == X \cup HeadTree
           B == X \cup HeadTree \cup OtherTrees
<1>1. ShareCont = Add(c, one, b)
  BY DEF ShareCont
<1>2. /\ nodes \in Nat /\ Top.As \in Nat /\ First.max \in Nat
      /\ head_budget \in Nat /\ nodes + head_budget <= First.max
      /\ h \in Task /\ others \in Seq(Task) /\ Later \in Cont
  BY SplitNumbers
<1>3. /\ X \cap HeadTree = {} /\ X \cap OtherTrees = {} /\ HeadTree \cap OtherTrees = {}
      /\ \A i, j \in 1..Len(others) : i # j => Sub(others[i]) \cap Sub(others[j]) = {}
      /\ Parted(B, Later)
      /\ \A T : T \in Rests(Top) <=>
           /\ T \in SUBSET Task /\ IsFiniteSet(T) /\ X \subseteq T
           /\ T \cap HeadTree \in Closings(h)
           /\ \A i \in 1..Len(others) : T \cap Sub(others[i]) \in Closings(others[i])
           /\ nodes + Weight(T \cap HeadTree) + Weight(T \cap OtherTrees) <= First.max
           /\ Holds(T, B, Later)
  BY SetParts
<1>4. one \in Spec_ /\ one.kind = "task" /\ one.task = h /\ one.min = 0 /\ one.max = nodes + head_budget
  BY <1>2 DEF OneTaskSpec, Spec_, OneTask
<1>5. rest \in Spec_ /\ rest.kind = "taskset" /\ rest.tasks = others /\ rest.max = First.max
  BY <1>2 DEF TaskSetSpec, Spec_, TaskSet
<1>6. /\ Add(Later, rest, Top.As) \in Cont /\ Len(Add(Later, rest, Top.As)) = Len(Later) + 1
      /\ Len(Later) \in Nat
  BY <1>2, <1>5, AddList, LenProperties DEF Cont
<1>7. c \in Cont /\ b \in Nat
  <2>1. CASE others = <<>>
    BY <1>2, <1>6, <2>1
  <2>2. CASE others # <<>>
    <3>1. c = Add(Later, rest, Top.As)
      BY <2>2
    <3> HIDE DEF c
    <3>2. QED
      BY <1>2, <1>6, <3>1
  <2>3. QED
    BY <2>1, <2>2
<1> HIDE DEF one, rest, b, h
<1>8. HeadTree = Sub(h)
  BY DEF HeadTree, h
<1>9. /\ Under(one) = HeadTree /\ SpecParted(X, one)
      /\ \A T : SpecHolds(T, X, one) <=>
           /\ T \cap HeadTree \in Closings(h)
           /\ Weight(T \cap A) <= nodes + head_budget
           /\ 0 <= Weight(T \cap HeadTree)
  <2>1. Under(one) = HeadTree /\ SpecParted(X, one)
    BY <1>2, <1>3, <1>4, <1>8, TaskHolds
  <2>2. ASSUME NEW T
        PROVE  SpecHolds(T, X, one) <=>
                 /\ T \cap HeadTree \in Closings(h)
                 /\ Weight(T \cap A) <= nodes + head_budget
                 /\ 0 <= Weight(T \cap HeadTree)
    <3>1. SpecHolds(T, X, one) <=>
            /\ T \cap Sub(one.task) \in Closings(one.task)
            /\ Weight(T \cap (X \cup Sub(one.task))) <= one.max
            /\ one.min <= Weight(T \cap Sub(one.task))
      BY <1>2, <1>4, TaskHolds
    <3>2. QED
      BY <1>4, <1>8, <3>1, Zenon
  <2>3. QED
    BY <2>1, <2>2
<1>10. /\ Under(rest) = OtherTrees
       /\ \A T : SpecHolds(T, A, rest) <=>
            /\ \A i \in 1..Len(others) : T \cap Sub(others[i]) \in Closings(others[i])
            /\ Weight(T \cap B) <= First.max
  <2>1. Under(rest) = OtherTrees
    BY <1>2, <1>5, SetHolds DEF OtherTrees
  <2>2. ASSUME NEW T
        PROVE  SpecHolds(T, A, rest) <=>
                 /\ \A i \in 1..Len(others) : T \cap Sub(others[i]) \in Closings(others[i])
                 /\ Weight(T \cap B) <= First.max
    BY <1>2, <1>5, <2>1, SetHolds
  <2>3. QED
    BY <2>1, <2>2
<1>11. SpecParted(A, rest)
  BY <1>3, <1>5, <1>10 DEF SpecParted
<1>12. others = <<>> => OtherTrees = {} /\ 1..Len(others) = {}
  <2>1. others = <<>> => 1..Len(others) = {}
    OBVIOUS
  <2>2. QED
    BY <2>1, Zenon DEF OtherTrees
<1>13. Parted(A, c)
  <2>1. CASE others = <<>>
    <3>1. B = A /\ c = Later
      BY <1>12, <2>1
    <3>2. QED
      BY <1>3, <3>1
  <2>2. CASE others # <<>>
    <3>1. c = Add(Later, rest, Top.As)
      BY <2>2
    <3> HIDE DEF c
    <3>2. QED
      BY <1>2, <1>3, <1>5, <1>10, <1>11, <3>1, AddHeads
  <2>3. QED
    BY <2>1, <2>2
<1>14. ASSUME NEW T \in SUBSET Task, IsFiniteSet(T), X \subseteq T, Weight(T \cap HeadTree) <= head_budget
       PROVE  Holds(T, A, c) <=>
           /\ \A i \in 1..Len(others) : T \cap Sub(others[i]) \in Closings(others[i])
           /\ nodes + Weight(T \cap HeadTree) + Weight(T \cap OtherTrees) <= First.max
           /\ Holds(T, B, Later)
  <2>1. /\ Weight(T \cap HeadTree) \in Nat /\ Weight(T \cap OtherTrees) \in Nat
        /\ Weight(T \cap A) = nodes + Weight(T \cap HeadTree)
        /\ Weight(T \cap B) = nodes + Weight(T \cap HeadTree) + Weight(T \cap OtherTrees)
    BY <1>14, SetWeights
  <2>2. CASE others = <<>>
    <3>1. B = A /\ c = Later
      BY <1>12, <2>2
    <3>2. Weight(T \cap OtherTrees) = 0
      <4>1. Weight(T \cap B) = Weight(T \cap A)
        BY <3>1
      <4>2. QED
        BY <1>2, <2>1, <4>1
    <3>3. nodes + Weight(T \cap HeadTree) + Weight(T \cap OtherTrees) <= First.max
      BY <1>2, <1>14, <2>1, <3>2
    <3>4. QED
      BY <1>12, <2>2, <3>1, <3>3
  <2>3. CASE others # <<>>
    <3>1. c = Add(Later, rest, Top.As)
      BY <2>3
    <3> HIDE DEF c
    <3>2. Holds(T, A, c) <=> SpecHolds(T, A, rest) /\ Holds(T, B, Later)
      BY <1>2, <1>5, <1>10, <3>1, AddHeads
    <3>3. QED
      BY <1>10, <2>1, <3>2
  <2>4. QED
    BY <2>2, <2>3
<1> HIDE DEF c
<1>15. Parted(X, ShareCont)
  BY <1>1, <1>4, <1>7, <1>9, <1>13, AddHeads
<1>16. ASSUME NEW T \in SUBSET Task, IsFiniteSet(T), X \subseteq T
       PROVE  Holds(T, X, ShareCont) <=>
                /\ T \cap HeadTree \in Closings(h)
                /\ Weight(T \cap HeadTree) <= head_budget
                /\ Holds(T, A, c)
  <2>1. Holds(T, X, ShareCont) <=> SpecHolds(T, X, one) /\ Holds(T, A, c)
    BY <1>1, <1>4, <1>7, <1>9, AddHeads
  <2>2. Weight(T \cap HeadTree) \in Nat /\ Weight(T \cap A) = nodes + Weight(T \cap HeadTree)
    BY <1>16, SetWeights
  <2>3. /\ Weight(T \cap A) <= nodes + head_budget <=> Weight(T \cap HeadTree) <= head_budget
        /\ 0 <= Weight(T \cap HeadTree)
    BY <1>2, <2>2
  <2>4. QED
    BY <1>9, <2>1, <2>3
<1>17. \A T : T \in Ways(X, ShareCont) <=> T \in Rests(Top) /\ Weight(T \cap HeadTree) <= head_budget
  <2> TAKE T
  <2>1. T \in Ways(X, ShareCont) <=> T \in SUBSET Task /\ IsFiniteSet(T) /\ X \subseteq T /\ Holds(T, X, ShareCont)
    BY DEF Ways
  <2>2. QED
    BY <1>3, <1>14, <1>16, <2>1
<1>18. QED
  BY <1>15, <1>17

(* The other half for what gives it more.                                  *)
LEMMA MoreWays ==
  ASSUME IInv, Popped("taskset"), First.tasks # <<>>, CanTakeMore, Honest(Top)
  PROVE  /\ Parted(X, MoreCont)
         /\ \A T : T \in Ways(X, MoreCont) <=>
                   T \in Rests(Top) /\ head_budget + 1 <= Weight(T \cap HeadTree)
<1> DEFINE h == Head(First.tasks)
           one == OneTaskSpec(h, head_budget + 1, First.max)
           m == First.max - (head_budget + 1)
           rest == TaskSetSpec(others, m)
           c == Add(Later, one, ShareBrk)
           A == X \cup OtherTrees
           B == X \cup HeadTree \cup OtherTrees
<1>1. MoreCont = Add(c, rest, ShareBrk + 1)
  BY DEF MoreCont
<1>2. /\ nodes \in Nat /\ First.max \in Nat
      /\ head_budget \in Nat /\ nodes + head_budget + 1 <= First.max
      /\ h \in Task /\ others \in Seq(Task) /\ Later \in Cont
      /\ ShareBrk \in Nat /\ ShareBrk + 1 \in Nat
  BY SplitNumbers, ShareGood
<1>3. /\ X \cap HeadTree = {} /\ X \cap OtherTrees = {} /\ HeadTree \cap OtherTrees = {}
      /\ \A i, j \in 1..Len(others) : i # j => Sub(others[i]) \cap Sub(others[j]) = {}
      /\ Parted(B, Later)
      /\ \A T : T \in Rests(Top) <=>
           /\ T \in SUBSET Task /\ IsFiniteSet(T) /\ X \subseteq T
           /\ T \cap HeadTree \in Closings(h)
           /\ \A i \in 1..Len(others) : T \cap Sub(others[i]) \in Closings(others[i])
           /\ nodes + Weight(T \cap HeadTree) + Weight(T \cap OtherTrees) <= First.max
           /\ Holds(T, B, Later)
  BY SetParts
<1>4. m \in Nat /\ head_budget + 1 \in Nat
  BY <1>2
<1>5. one \in Spec_ /\ one.kind = "task" /\ one.task = h /\ one.min = head_budget + 1 /\ one.max = First.max
  BY <1>2, <1>4 DEF OneTaskSpec, Spec_, OneTask
<1>6. rest \in Spec_ /\ rest.kind = "taskset" /\ rest.tasks = others /\ rest.max = m
  BY <1>2, <1>4 DEF TaskSetSpec, Spec_, TaskSet
<1> HIDE DEF one, rest, h
<1>7. c \in Cont
  BY <1>2, <1>5, AddList
<1>8. HeadTree = Sub(h)
  BY DEF HeadTree, h
<1>9. /\ Under(rest) = OtherTrees
      /\ \A T : SpecHolds(T, X, rest) <=>
            /\ \A i \in 1..Len(others) : T \cap Sub(others[i]) \in Closings(others[i])
            /\ Weight(T \cap A) <= m
  <2>1. Under(rest) = OtherTrees
    BY <1>2, <1>6, SetHolds DEF OtherTrees
  <2>2. ASSUME NEW T
        PROVE  SpecHolds(T, X, rest) <=>
                 /\ \A i \in 1..Len(others) : T \cap Sub(others[i]) \in Closings(others[i])
                 /\ Weight(T \cap A) <= m
    BY <1>2, <1>6, <2>1, SetHolds
  <2>3. QED
    BY <2>1, <2>2
<1>10. SpecParted(X, rest)
  BY <1>3, <1>6, <1>9 DEF SpecParted
<1>11. A \cup HeadTree = B
  OBVIOUS
<1>12. /\ Under(one) = HeadTree /\ SpecParted(A, one)
       /\ \A T : SpecHolds(T, A, one) <=>
            /\ T \cap HeadTree \in Closings(h)
            /\ Weight(T \cap B) <= First.max
            /\ head_budget + 1 <= Weight(T \cap HeadTree)
  <2>1. A \cap HeadTree = {}
    BY <1>3
  <2>2. Under(one) = HeadTree /\ SpecParted(A, one)
    BY <1>2, <1>5, <1>8, <2>1, TaskHolds
  <2>3. ASSUME NEW T
        PROVE  SpecHolds(T, A, one) <=>
                 /\ T \cap HeadTree \in Closings(h)
                 /\ Weight(T \cap B) <= First.max
                 /\ head_budget + 1 <= Weight(T \cap HeadTree)
    <3>1. SpecHolds(T, A, one) <=>
            /\ T \cap Sub(one.task) \in Closings(one.task)
            /\ Weight(T \cap (A \cup Sub(one.task))) <= one.max
            /\ one.min <= Weight(T \cap Sub(one.task))
      BY <1>2, <1>5, TaskHolds
    <3>2. A \cup Sub(one.task) = B
      BY <1>5, <1>8, <1>11
    <3>3. QED
      BY <1>5, <1>8, <3>1, <3>2
  <2>4. QED
    BY <2>2, <2>3
<1>13. /\ Parted(A, c)
       /\ \A T : Holds(T, A, c) <=> SpecHolds(T, A, one) /\ Holds(T, B, Later)
  BY <1>2, <1>3, <1>5, <1>11, <1>12, AddHeads
<1> HIDE DEF c
<1>14. Parted(X, MoreCont)
  BY <1>1, <1>2, <1>6, <1>7, <1>9, <1>10, <1>13, AddHeads
<1>15. \A T : Holds(T, X, MoreCont) <=> SpecHolds(T, X, rest) /\ Holds(T, A, c)
  BY <1>1, <1>2, <1>6, <1>7, <1>9, AddHeads
<1>16. ASSUME NEW T \in SUBSET Task, IsFiniteSet(T), X \subseteq T
       PROVE  Holds(T, X, MoreCont) <=>
                /\ T \cap HeadTree \in Closings(h)
                /\ \A i \in 1..Len(others) : T \cap Sub(others[i]) \in Closings(others[i])
                /\ nodes + Weight(T \cap HeadTree) + Weight(T \cap OtherTrees) <= First.max
                /\ head_budget + 1 <= Weight(T \cap HeadTree)
                /\ Holds(T, B, Later)
  <2> DEFINE wh == Weight(T \cap HeadTree)
             wo == Weight(T \cap OtherTrees)
  <2>1. /\ wh \in Nat /\ wo \in Nat
        /\ Weight(T \cap A) = nodes + wo /\ Weight(T \cap B) = nodes + wh + wo
    BY <1>16, SetWeights
  <2>2. Holds(T, X, MoreCont) <=>
          /\ T \cap HeadTree \in Closings(h)
          /\ \A i \in 1..Len(others) : T \cap Sub(others[i]) \in Closings(others[i])
          /\ Weight(T \cap A) <= m
          /\ Weight(T \cap B) <= First.max
          /\ head_budget + 1 <= wh
          /\ Holds(T, B, Later)
    BY <1>9, <1>12, <1>13, <1>15
  <2> HIDE DEF wh, wo
  <2>3. nodes + wh + wo <= First.max /\ head_budget + 1 <= wh => nodes + wo <= m
    BY <1>2, <2>1
  <2>4. QED
    BY <2>1, <2>2, <2>3 DEF wh, wo
<1>17. \A T : T \in Ways(X, MoreCont) <=>
              T \in Rests(Top) /\ head_budget + 1 <= Weight(T \cap HeadTree)
  <2> TAKE T
  <2>1. T \in Ways(X, MoreCont) <=> T \in SUBSET Task /\ IsFiniteSet(T) /\ X \subseteq T /\ Holds(T, X, MoreCont)
    BY DEF Ways
  <2>2. QED
    BY <1>3, <1>16, <2>1
<1>18. QED
  BY <1>14, <1>17

(* Where step() leaves the other half out, it stands for nothing.          *)
LEMMA NoMoreWays ==
  ASSUME IInv, Popped("taskset"), First.tasks # <<>>, ~ CanTakeMore, Honest(Top), NEW T \in Rests(Top)
  PROVE  Weight(T \cap HeadTree) <= head_budget
<1> DEFINE w == Weight(T \cap HeadTree)
<1>1. /\ nodes \in Nat /\ First.max \in Nat /\ head_budget \in Nat
      /\ nodes <= First.max /\ First.tasks \in Seq(Task)
  <2>1. saves # <<>> /\ Top.cont # <<>> /\ First.kind = "taskset"
    BY DEF Popped
  <2>2. QED
    BY <2>1, SplitNumbers, FirstGood, SpecKinds DEF Bounded
<1>2. /\ T \in SUBSET Task /\ IsFiniteSet(T) /\ X \subseteq T
      /\ nodes + w + Weight(T \cap OtherTrees) <= First.max
  BY SetParts
<1>3. w \in Nat /\ Weight(T \cap OtherTrees) \in Nat
  BY <1>2, SetWeights
<1> HIDE DEF w
<1>4. w <= budget
  BY <1>1, <1>2, <1>3 DEF budget
<1>5. budget \in Nat
  BY <1>1 DEF budget
<1>6. CASE others = <<>>
  <2>1. Len(First.tasks) \in Nat \ {0} /\ Len(others) = Len(First.tasks) - 1 /\ Len(others) = 0
    BY <1>1, <1>6, EmptySeq, HeadTailProperties DEF others
  <2>2. Len(First.tasks) = 1
    BY <2>1
  <2>3. head_budget = budget
    BY <1>5, <2>2 DEF head_budget
  <2>4. QED
    BY <1>4, <2>3 DEF w
<1>7. CASE others # <<>>
  <2>1. ~ (head_budget < budget)
    BY <1>7 DEF CanTakeMore
  <2>2. QED
    BY <1>1, <1>3, <1>4, <1>5, <2>1 DEF w
<1>8. QED
  BY <1>6, <1>7

(***************************************************************************)
(* The stack.  F is what has been found, O what the step that is under way *)
(* still owes: the sets that the save it has popped stood for and none of  *)
(* the new saves does yet.                                                 *)
(***************************************************************************)
Closed == {d \in Closings(start) : Weight(d) <= limit}
Covered(svs, T) == \E i \in 1..Len(svs) : T \in Rests(svs[i])
AllApart(svs) == \A i, j \in 1..Len(svs) : i # j => Rests(svs[i]) \cap Rests(svs[j]) = {}

Claims(svs, F, O) ==
  /\ svs \in Seq(Save)
  /\ \A i \in 1..Len(svs) : Honest(svs[i])
  /\ \A T : Covered(svs, T) => T \in Closed /\ T \notin F /\ T \notin O
  /\ \A T \in O : T \in Closed /\ T \notin F
  /\ AllApart(svs)
  /\ ~cut => \A T \in Derivations(start, limit) : T \in F \/ T \in O \/ Covered(svs, T)

(* The elements of a stack are saves, of which it has finitely many.       *)
LEMMA SaveAt ==
  ASSUME NEW svs \in Seq(Save)
  PROVE  Len(svs) \in Nat /\ \A i \in 1..Len(svs) : svs[i] \in Save
<1> HIDE DEF Save
<1>1. QED
  BY ElementOfSeq, LenProperties

(* The first saves of a stack.                                             *)
LEMMA FirstSaves ==
  ASSUME NEW svs \in Seq(Save), NEW k \in 0..Len(svs)
  PROVE  /\ SubSeq(svs, 1, k) \in Seq(Save) /\ Len(SubSeq(svs, 1, k)) = k
         /\ \A i \in 1..k : i \in 1..Len(svs) /\ SubSeq(svs, 1, k)[i] = svs[i]
<1> DEFINE s == SubSeq(svs, 1, k)
<1>1. Len(svs) \in Nat /\ \A i \in 1..k : svs[i] \in Save
  <2>1. Len(svs) \in Nat /\ \A i \in 1..k : i \in 1..Len(svs)
    BY SaveAt
  <2>2. QED
    BY <2>1, SaveAt
<1> HIDE DEF Save
<1>2. /\ s \in Seq(Save)
      /\ Len(s) = IF 1 <= k THEN k - 1 + 1 ELSE 0
      /\ \A i \in 1 .. k - 1 + 1 : s[i] = svs[1 + i - 1]
  BY <1>1, SubSeqProperties
<1>3. QED
  BY <1>1, <1>2

(* Cut only gives up; without it the stack stays.                          *)
LEMMA ClaimsPrefix ==
  ASSUME NEW svs, NEW F, NEW O, Claims(svs, F, O), NEW k \in 0..Len(svs), ~cut => k = Len(svs)
  PROVE  Claims(SubSeq(svs, 1, k), F, O)
<1> DEFINE s == SubSeq(svs, 1, k)
<1>1. svs \in Seq(Save)
  BY DEF Claims
<1>2. /\ s \in Seq(Save) /\ Len(s) = k
      /\ \A i \in 1..k : i \in 1..Len(svs) /\ s[i] = svs[i]
  BY <1>1, FirstSaves
<1> HIDE DEF s
<1>3. \A T : Covered(s, T) => Covered(svs, T)
  BY <1>2 DEF Covered
<1>4. ~cut => \A T : Covered(svs, T) => Covered(s, T)
  BY <1>2 DEF Covered
<1>5. AllApart(s) /\ \A i \in 1..Len(s) : Honest(s[i])
  BY <1>2 DEF Claims, AllApart
<1>6. QED
  BY <1>2, <1>3, <1>4, <1>5 DEF Claims, s

(* New saves take over what is owed.                                       *)
LEMMA ClaimsConcat ==
  ASSUME NEW svs, NEW F, NEW O, NEW P, Claims(svs, F, O), NEW new \in Seq(Save),
         \A i \in 1..Len(new) : Honest(new[i]), AllApart(new),
         \A T : Covered(new, T) => T \in O /\ T \notin P,
         P \subseteq O, \A T \in O : T \in P \/ Covered(new, T)
  PROVE  Claims(svs \o new, F, P)
<1> DEFINE s == svs \o new
<1>1. svs \in Seq(Save) /\ Len(svs) \in Nat /\ Len(new) \in Nat
  BY SaveAt DEF Claims
<1>2. /\ s \in Seq(Save)
      /\ Len(s) = Len(svs) + Len(new)
      /\ \A i \in 1 .. Len(svs) + Len(new) :
           s[i] = IF i <= Len(svs) THEN svs[i] ELSE new[i - Len(svs)]
  <2> HIDE DEF Save
  <2>1. QED
    BY <1>1, ConcatProperties
<1> HIDE DEF s
<1>3. ASSUME NEW i \in 1..Len(s)
      PROVE  \/ i \in 1..Len(svs) /\ s[i] = svs[i]
             \/ i - Len(svs) \in 1..Len(new) /\ s[i] = new[i - Len(svs)]
  BY <1>1, <1>2
<1>4. \A i \in 1..Len(svs) : i \in 1..Len(s) /\ s[i] = svs[i]
  BY <1>1, <1>2
<1>5. \A i \in 1..Len(new) : i + Len(svs) \in 1..Len(s) /\ s[i + Len(svs)] = new[i]
  <2> SUFFICES ASSUME NEW i \in 1..Len(new)
               PROVE  i + Len(svs) \in 1..Len(s) /\ s[i + Len(svs)] = new[i]
    OBVIOUS
  <2>1. PICK j \in 1..Len(s) : j = i + Len(svs)
    BY <1>1, <1>2
  <2>2. ~ (j <= Len(svs)) /\ j - Len(svs) = i
    BY <1>1, <2>1
  <2>3. QED
    BY <1>2, <2>1, <2>2
<1>6. \A T : Covered(s, T) <=> Covered(svs, T) \/ Covered(new, T)
  <2> TAKE T
  <2>1. Covered(s, T) => Covered(svs, T) \/ Covered(new, T)
    BY <1>3 DEF Covered
  <2>2. Covered(svs, T) => Covered(s, T)
    BY <1>4 DEF Covered
  <2>3. Covered(new, T) => Covered(s, T)
    BY <1>5 DEF Covered
  <2>4. QED
    BY <2>1, <2>2, <2>3
<1>7. \A i \in 1..Len(s) : Honest(s[i])
  BY <1>3 DEF Claims
<1>8. ASSUME NEW T, Covered(svs, T), Covered(new, T) PROVE FALSE
  BY <1>8 DEF Claims
<1>9. AllApart(s)
  <2> SUFFICES ASSUME NEW i \in 1..Len(s), NEW j \in 1..Len(s), i # j,
                      NEW T, T \in Rests(s[i]), T \in Rests(s[j])
               PROVE  FALSE
    BY DEF AllApart
  <2>1. CASE i \in 1..Len(svs) /\ s[i] = svs[i]
    <3>1. CASE j \in 1..Len(svs) /\ s[j] = svs[j]
      BY <2>1, <3>1 DEF Claims, AllApart
    <3>2. CASE j - Len(svs) \in 1..Len(new) /\ s[j] = new[j - Len(svs)]
      BY <1>8, <2>1, <3>2 DEF Covered
    <3>3. QED
      BY <1>3, <3>1, <3>2
  <2>2. CASE i - Len(svs) \in 1..Len(new) /\ s[i] = new[i - Len(svs)]
    <3>1. CASE j \in 1..Len(svs) /\ s[j] = svs[j]
      BY <1>8, <2>2, <3>1 DEF Covered
    <3>2. CASE j - Len(svs) \in 1..Len(new) /\ s[j] = new[j - Len(svs)]
      <4>1. i - Len(svs) # j - Len(svs)
        BY <1>1, <1>2
      <4>2. QED
        BY <2>2, <3>2, <4>1 DEF AllApart
    <3>3. QED
      BY <1>3, <3>1, <3>2
  <2>3. QED
    BY <1>3, <2>1, <2>2
<1>10. \A T : Covered(s, T) => T \in Closed /\ T \notin F /\ T \notin P
  BY <1>6 DEF Claims
<1>11. \A T \in P : T \in Closed /\ T \notin F
  BY DEF Claims
<1>12. ~cut => \A T \in Derivations(start, limit) : T \in F \/ T \in P \/ Covered(s, T)
  BY <1>6 DEF Claims
<1>13. QED
  BY <1>2, <1>7, <1>9, <1>10, <1>11, <1>12 DEF Claims, s

(* The first half of Div::save,                                            *)
LEMMA ClaimsKept ==
  ASSUME NEW svs, NEW F, NEW O, Claims(svs, F, O), NEW c
  PROVE  Claims(Kept(svs, c), F, O)
<1>1. PICK k \in 0..Len(svs) : Kept(svs, c) = SubSeq(svs, 1, k)
  BY KeptPrefix DEF Claims
<1>2. CASE cut
  BY <1>1, <1>2, ClaimsPrefix
<1>3. CASE ~cut
  BY <1>3 DEF Kept
<1>4. QED
  BY <1>2, <1>3

(* and the whole of it.                                                    *)
LEMMA ClaimsSaved ==
  ASSUME NEW svs, NEW F, NEW O, Claims(svs, F, O),
         NEW c \in Cont, NEW ss \in State, NEW b \in Nat,
         HonestState(ss), Parted(ss.trail, c), Ways(ss.trail, c) \subseteq O
  PROVE  Claims(Saved(svs, c, ss, b), F, O \ Ways(ss.trail, c))
<1> DEFINE x == [cont |-> c, ss |-> ss, As |-> b]
           W == Ways(ss.trail, c)
<1>1. x \in Save /\ x.cont = c /\ x.ss = ss
  BY DEF Save
<1>2. Saved(svs, c, ss, b) = Append(Kept(svs, c), x) /\ svs \in Seq(Save)
  BY DEF Saved, Claims
<1>3. Honest(x) /\ Rests(x) = W
  BY <1>1 DEF Honest, Rests
<1> HIDE DEF x, W
<1>4. Claims(Kept(svs, c), F, O)
  BY ClaimsKept
<1> DEFINE kept == Kept(svs, c)
           new == <<x>>
<1>5. kept \in Seq(Save)
  BY <1>4 DEF Claims
<1>6. new \in Seq(Save) /\ Len(new) = 1 /\ new[1] = x
  BY <1>1
<1>7. Append(kept, x) = kept \o new
  <2> HIDE DEF Save, kept
  <2>1. QED
    BY <1>1, <1>5, AppendIsConcat
<1> HIDE DEF new
<1>8. \A T : Covered(new, T) <=> T \in W
  BY <1>3, <1>6 DEF Covered
<1>9. AllApart(new) /\ \A i \in 1..Len(new) : Honest(new[i])
  BY <1>3, <1>6 DEF AllApart
<1>10. Claims(kept \o new, F, O \ W)
  <2> HIDE DEF kept
  <2>1. Claims(kept, F, O)
    BY <1>4 DEF kept
  <2>2. W \subseteq O
    BY DEF W
  <2>3. QED
    BY <1>6, <1>8, <1>9, <2>1, <2>2, ClaimsConcat
<1>11. QED
  BY <1>2, <1>7, <1>10 DEF W

(* The save that is popped is owed.                                        *)
LEMMA ClaimsPop ==
  ASSUME saves # <<>>, NEW F, Claims(saves, F, {})
  PROVE  Claims(Rest, F, Rests(Top)) /\ Honest(Top)
<1> DEFINE n == Len(saves)
           s == SubSeq(saves, 1, n - 1)
<1>1. saves \in Seq(Save)
  BY DEF Claims
<1>2. n \in Nat \ {0}
  <2> HIDE DEF Save
  <2>1. QED
    BY <1>1, EmptySeq
<1>3. Rest = s /\ Top = saves[n] /\ n \in 1..n /\ n - 1 \in 0..n
  BY <1>2 DEF Rest, Top, Front, Last
<1>4. /\ s \in Seq(Save) /\ Len(s) = n - 1
      /\ \A i \in 1 .. n - 1 : i \in 1..n /\ s[i] = saves[i]
  BY <1>1, <1>3, FirstSaves
<1>5. \A i \in 1 .. n - 1 : i # n
  BY <1>2
<1>6. \A i \in 1..n : i = n \/ i \in 1 .. n - 1
  BY <1>2
<1> HIDE DEF s, n
<1>7. \A T : Covered(saves, T) <=> Covered(s, T) \/ T \in Rests(Top)
  BY <1>3, <1>4, <1>6 DEF Covered, n
<1>8. \A T : ~ (Covered(s, T) /\ T \in Rests(Top))
  <2> SUFFICES ASSUME NEW T, NEW i \in 1..Len(s), T \in Rests(s[i]), T \in Rests(Top)
               PROVE  FALSE
    BY DEF Covered
  <2>1. i \in 1..Len(saves) /\ n \in 1..Len(saves) /\ i # n /\ s[i] = saves[i]
    BY <1>3, <1>4, <1>5 DEF n
  <2>2. QED
    BY <1>3, <2>1 DEF Claims, AllApart
<1>9. \A i \in 1..Len(s) : Honest(s[i])
  BY <1>4 DEF Claims, n
<1>10. AllApart(s)
  BY <1>4 DEF Claims, AllApart, n
<1>11. Honest(Top)
  BY <1>3 DEF Claims, n
<1>12. Claims(s, F, Rests(Top))
  BY <1>4, <1>7, <1>8, <1>9, <1>10 DEF Claims
<1>13. QED
  BY <1>3, <1>11, <1>12

(* What is owed may be given up if no derivation is among it.              *)
LEMMA ClaimsDrop ==
  ASSUME NEW svs, NEW F, NEW O, Claims(svs, F, O),
         ~cut => \A T \in O : T \notin Derivations(start, limit)
  PROVE  Claims(svs, F, {})
  BY DEF Claims

(***************************************************************************)
(* The steps, for the stack.                                               *)
(***************************************************************************)
LEMMA PopClaims ==
  ASSUME saves # <<>>, NEW F, Claims(saves, F, {}), saves' = Rest,
         \A T \in Rests(Top) : T \notin Derivations(start, limit)
  PROVE  Claims(saves', F, {})
<1>1. Claims(Rest, F, Rests(Top))
  BY ClaimsPop
<1>2. QED
  BY <1>1, ClaimsDrop

(* One save takes the place of the one that is popped.                     *)
LEMMA PassClaims ==
  ASSUME saves # <<>>, NEW F, Claims(saves, F, {}),
         NEW c \in Cont, NEW ss \in State, NEW b \in Nat,
         HonestState(ss), Parted(ss.trail, c), Ways(ss.trail, c) = Rests(Top)
  PROVE  Claims(Saved(Rest, c, ss, b), F, {})
<1> DEFINE W == Ways(ss.trail, c)
<1>1. Claims(Rest, F, W)
  BY ClaimsPop
<1>2. Claims(Saved(Rest, c, ss, b), F, W \ W)
  BY <1>1, ClaimsSaved
<1>3. W \ W = {}
  OBVIOUS
<1>4. QED
  BY <1>2, <1>3

(* What step() returns true for is a derivation that is new.               *)
LEMMA SucceedClaims ==
  ASSUME IInv, Succeed, NEW F, Claims(saves, F, {})
  PROVE  /\ state'.trail \in Derivations(start, limit) /\ state'.trail \notin F
         /\ state'.trail \in SUBSET Task
         /\ Claims(saves', F \cup {state'.trail}, {})
<1>1. saves # <<>> /\ Top.cont = <<>> /\ saves' = Rest /\ state'.trail = X
  BY DEF Succeed, Leave, X
<1>2. Claims(Rest, F, Rests(Top)) /\ Honest(Top)
  BY <1>1, ClaimsPop
<1>3. X \subseteq Task /\ IsFiniteSet(X) /\ Solvable(Asked(X))
  BY <1>2 DEF Honest, HonestState, X
<1>4. Rests(Top) = {X}
  <2>1. Ahead(<<>>, 0) = {} /\ Len(<<>>) = 0
    BY DEF Ahead
  <2>2. \A T : Holds(T, X, <<>>) <=> T \subseteq X
    BY <2>1 DEF Holds
  <2>3. \A T : T \in Ways(X, <<>>) <=> T = X
    BY <1>3, <2>2 DEF Ways
  <2>4. Rests(Top) = Ways(X, <<>>)
    BY <1>1 DEF Rests, X
  <2>5. QED
    BY <2>3, <2>4
<1>5. X \in Closed /\ X \notin F
  BY <1>2, <1>4 DEF Claims
<1>6. X \in Derivations(start, limit)
  BY <1>3, <1>5 DEF Closed, Derivations
<1>7. Claims(Rest, F \cup {X}, {})
  BY <1>2, <1>4 DEF Claims
<1>8. QED
  BY <1>1, <1>3, <1>5, <1>6, <1>7

(* A goal is divided into its clauses.                                     *)
LEMMA OffersClaims ==
  ASSUME IInv, TaskOffers, NEW F, Claims(saves, F, {})
  PROVE  Claims(saves', F, {})
<1> DEFINE n == Len(Ran.tasks)
           d(i) == Add(ProxyCont, OneTaskSpec(Ran.tasks[i], 0, First.max), ProxyBrk + i - 1)
           alt(i) == [cont |-> d(i), ss |-> state', As |-> ProxyBrk + i]
           new == [i \in 1..n |-> alt(i)]
           S == Sub(First.task)
           K(i) == Sub(Kids(First.task)[i])
           O == Rests(Top)
<1>1. saves # <<>> /\ Running("or") /\ Popped("task")
  BY DEF TaskOffers, Running, Popped
<1>2. Claims(Rest, F, O) /\ Honest(Top)
  BY <1>1, ClaimsPop
<1>3. saves' = IF Ran.tasks = <<>> THEN Rest ELSE Kept(Rest, alt(1).cont) \o new
  BY DEF TaskOffers, Offer
<1>4. GoodStack(new, limit) /\ n \in Nat
  BY <1>1, TreesFit, AlternativesGood
<1>5. new \in Seq(Save) /\ Len(new) = n
  BY <1>4 DEF GoodStack
<1>6. HonestState(state') /\ state'.trail = X /\ ProxyBrk \in Nat
  BY <1>1, <1>2, OfferedKids, ProxyGood
<1>7. ASSUME NEW i \in 1..n
      PROVE  /\ Parted(X, d(i))
             /\ \A T : T \in Ways(X, d(i)) <=> T \in O /\ T \cap S \subseteq K(i)
  <2>1. ProxyBrk + i - 1 \in Nat
    BY <1>4, <1>6
  <2>2. QED
    BY <1>2, <2>1, OfferWays
<1>8. \A i \in 1..n : new[i].cont = d(i) /\ new[i].ss = state'
  OBVIOUS
<1> HIDE DEF d, new
<1>9. \A i \in 1..n : Honest(new[i])
  BY <1>6, <1>7, <1>8 DEF Honest
<1>10. \A i \in 1..n : \A T : T \in Rests(new[i]) <=> T \in O /\ T \cap S \subseteq K(i)
  BY <1>6, <1>7, <1>8 DEF Rests
<1>11. ASSUME NEW T \in O
       PROVE  /\ \E i \in 1..n : T \cap S \subseteq K(i)
              /\ \A i, j \in 1..n : i # j => ~ (T \cap S \subseteq K(i) /\ T \cap S \subseteq K(j))
  BY <1>2, OffersDivide
<1> HIDE DEF n, S, K, O
<1>12. \A T : Covered(new, T) <=> T \in O
  BY <1>5, <1>10, <1>11 DEF Covered
<1>13. AllApart(new)
  BY <1>5, <1>10, <1>11 DEF AllApart
<1>14. CASE Ran.tasks = <<>>
  <2>1. Len(Ran.tasks) = 0
    BY <1>14
  <2>2. 1..n = {}
    BY <2>1 DEF n
  <2>3. O = {}
    BY <1>11, <2>2
  <2>4. QED
    BY <1>2, <1>3, <1>14, <2>3
<1>15. CASE Ran.tasks # <<>>
  <2>1. Claims(Kept(Rest, alt(1).cont), F, O)
    BY <1>2, ClaimsKept
  <2>2. \A i \in 1..Len(new) : Honest(new[i])
    BY <1>5, <1>9
  <2> DEFINE kept == Kept(Rest, alt(1).cont)
  <2>3. saves' = kept \o new
    BY <1>3, <1>15
  <2> HIDE DEF kept, alt
  <2>4. Claims(kept, F, O)
    BY <2>1 DEF kept
  <2>5. Claims(kept \o new, F, {})
    BY <1>5, <1>12, <1>13, <2>2, <2>4, ClaimsConcat
  <2>6. QED
    BY <2>3, <2>5
<1>16. QED
  BY <1>14, <1>15

(* A clause passes on to its goals.                                        *)
LEMMA AsksClaims ==
  ASSUME IInv, TaskAsks, NEW F, Claims(saves, F, {})
  PROVE  Claims(saves', F, {})
<1> DEFINE sp == TaskSetSpec(Reverse(Ran.tasks), First.max)
           c == Add(ProxyCont, sp, ProxyBrk)
<1>1. /\ saves # <<>> /\ Running("and") /\ Popped("task")
      /\ saves' = Saved(Rest, c, state', ProxyBrk + 1)
  BY DEF TaskAsks, Running, Popped
<1>2. Honest(Top)
  BY <1>1, ClaimsPop
<1>3. HonestState(state') /\ Parted(state'.trail, c) /\ Ways(state'.trail, c) = Rests(Top)
  BY <1>2, AsksWays
<1>4. ProxyCont \in Cont /\ ProxyBrk \in Nat /\ ProxyBrk + 1 \in Nat /\ sp \in Spec_ /\ state' \in State
  BY <1>1, TreesFit, ProxyGood, AskedSpec, RanGood
<1> HIDE DEF sp
<1>5. c \in Cont
  BY <1>4, AddList
<1> HIDE DEF c
<1>6. Claims(Saved(Rest, c, state', ProxyBrk + 1), F, {})
  BY <1>1, <1>3, <1>4, <1>5, PassClaims
<1>7. QED
  BY <1>1, <1>6

(* The budget of a task set is divided.                                    *)
LEMMA SplitsClaims ==
  ASSUME IInv, SetSplits, NEW F, Claims(saves, F, {})
  PROVE  Claims(saves', F, {})
<1> DEFINE O == Rests(Top)
           W == Ways(X, ShareCont)
           M == Ways(X, MoreCont)
           share == Saved(Rest, ShareCont, Top.ss, ShareBrk)
           more == Saved(share, MoreCont, Top.ss, ShareBrk + 2)
<1>1. /\ saves # <<>> /\ Popped("taskset") /\ First.tasks # <<>>
      /\ saves' = IF CanTakeMore THEN more ELSE share
  BY DEF SetSplits, Popped
<1>2. Claims(Rest, F, O) /\ Honest(Top)
  BY <1>1, ClaimsPop
<1>3. HonestState(Top.ss) /\ Top.ss.trail = X /\ Top.ss \in State
  BY <1>1, <1>2, TopGood DEF Honest, X
<1>4. ShareCont \in Cont /\ ShareBrk \in Nat /\ ShareBrk + 2 \in Nat
  BY <1>1, ShareGood
<1>5. /\ Parted(X, ShareCont)
      /\ \A T : T \in W <=> T \in O /\ Weight(T \cap HeadTree) <= head_budget
  BY <1>1, <1>2, ShareWays
<1>6. Claims(share, F, O \ W)
  <2>1. W \subseteq O
    BY <1>5
  <2>2. QED
    BY <1>2, <1>3, <1>4, <1>5, <2>1, ClaimsSaved
<1>7. head_budget \in Nat
  BY <1>1, SplitNumbers
<1>8. ASSUME NEW T \in O PROVE Weight(T \cap HeadTree) \in Nat
  <2>1. T \in SUBSET Task /\ IsFiniteSet(T) /\ X \subseteq T
    BY <1>1, <1>2, SetParts
  <2>2. QED
    BY <1>1, <1>2, <2>1, SetWeights
<1> HIDE DEF share
<1>9. CASE CanTakeMore
  <2>1. /\ MoreCont \in Cont /\ Parted(X, MoreCont)
        /\ \A T : T \in M <=> T \in O /\ head_budget + 1 <= Weight(T \cap HeadTree)
    BY <1>1, <1>2, <1>9, MoreGood, MoreWays
  <2>2. M \subseteq O \ W /\ (O \ W) \ M = {}
    <3>1. \A T \in O : head_budget + 1 <= Weight(T \cap HeadTree) <=> ~ (Weight(T \cap HeadTree) <= head_budget)
      BY <1>7, <1>8
    <3>2. QED
      BY <1>5, <2>1, <3>1
  <2>3. Claims(more, F, (O \ W) \ M)
    BY <1>3, <1>4, <1>6, <2>1, <2>2, ClaimsSaved
  <2>4. QED
    BY <1>1, <1>9, <2>2, <2>3
<1>10. CASE ~ CanTakeMore
  <2>1. O \ W = {}
    BY <1>1, <1>2, <1>5, <1>10, NoMoreWays
  <2>2. QED
    BY <1>1, <1>6, <1>10, <2>1
<1>11. QED
  BY <1>9, <1>10

(* Every step that does not return true.                                   *)
LEMMA OtherClaims ==
  ASSUME IInv, Next, ~ Succeed, NEW F, Claims(saves, F, {})
  PROVE  Claims(saves', F, {})
<1>1. saves # <<>> => Claims(Rest, F, Rests(Top)) /\ Honest(Top)
  BY ClaimsPop
<1>2. CASE CheckMinFails
  <2>1. saves # <<>> /\ Popped("checkmin") /\ nodes < First.min /\ saves' = Rest
    BY <1>2 DEF CheckMinFails, Popped, Leave
  <2>2. Rests(Top) = {}
    BY <1>1, <2>1, CheckWays
  <2>3. QED
    BY <2>1, <2>2, PopClaims
<1>3. CASE CheckMinHolds
  <2>1. /\ saves # <<>> /\ Popped("checkmin") /\ nodes >= First.min
        /\ saves' = Saved(Rest, Later, Top.ss, Top.As)
    BY <1>3 DEF CheckMinHolds, Popped, Leave
  <2>2. Parted(X, Later) /\ Ways(X, Later) = Rests(Top)
    BY <1>1, <2>1, CheckWays
  <2>3. Later \in Cont /\ Top.ss \in State /\ Top.As \in Nat
    BY <2>1, TopGood, FirstGood DEF Popped
  <2>4. QED
    BY <1>1, <2>1, <2>2, <2>3, PassClaims DEF Honest, X
<1>4. CASE TaskTooBig
  <2>1. saves # <<>> /\ saves' = Rest
    BY <1>4 DEF TaskTooBig, Popped, Leave
  <2>2. Rests(Top) = {}
    BY <1>1, <1>4, <2>1, TooBigWays
  <2>3. QED
    BY <2>1, <2>2, PopClaims
<1>5. CASE TaskFails
  <2>1. saves # <<>> /\ saves' = Rest
    BY <1>5 DEF TaskFails, Running, Popped
  <2>2. \A T \in Rests(Top) : ~ Solvable(Asked(T))
    BY <1>1, <1>5, <2>1, FailsWays
  <2>3. \A T \in Rests(Top) : T \notin Derivations(start, limit)
    BY <2>2 DEF Derivations
  <2>4. QED
    BY <2>1, <2>3, PopClaims
<1>6. CASE TaskOffers
  BY <1>6, OffersClaims
<1>7. CASE TaskAsks
  BY <1>7, AsksClaims
<1>8. CASE SetDone
  <2>1. /\ saves # <<>> /\ Popped("taskset") /\ First.tasks = <<>>
        /\ saves' = Saved(Rest, Later, Top.ss, Top.As)
    BY <1>8 DEF SetDone, Popped, Leave
  <2>2. Parted(X, Later) /\ Ways(X, Later) = Rests(Top)
    BY <1>1, <2>1, DoneWays
  <2>3. Later \in Cont /\ Top.ss \in State /\ Top.As \in Nat
    BY <2>1, TopGood, FirstGood DEF Popped
  <2>4. QED
    BY <1>1, <2>1, <2>2, <2>3, PassClaims DEF Honest, X
<1>9. CASE SetSplits
  BY <1>9, SplitsClaims
<1>10. QED
  BY <1>2, <1>3, <1>4, <1>5, <1>6, <1>7, <1>8, <1>9 DEF Next

(***************************************************************************)
(* The induction.                                                          *)
(***************************************************************************)
TreeInv ==
  /\ found \in Seq(SUBSET Task) /\ IsInjective(found)
  /\ Range(found) \subseteq Derivations(start, limit)
  /\ Claims(saves, Range(found), {})

(* At the start the only save stands for all that closes the tree of the   *)
(* start within the limit.                                                 *)
LEMMA StartWays ==
  ASSUME NEW t \in Task, NEW l \in Nat, NEW b \in Nat
  PROVE  LET c == Add(<<>>, OneTaskSpec(t, 0, l), b) IN
         /\ c \in Cont /\ Parted({}, c)
         /\ Ways({}, c) = {d \in Closings(t) : Weight(d) <= l}
<1> DEFINE sp == OneTaskSpec(t, 0, l)
           c == Add(<<>>, sp, b)
<1>1. sp \in Spec_ /\ sp.kind = "task" /\ sp.task = t /\ sp.min = 0 /\ sp.max = l
  BY DEF OneTaskSpec, Spec_, OneTask
<1> HIDE DEF sp
<1>2. <<>> \in Cont /\ Ahead(<<>>, 0) = {} /\ Len(<<>>) = 0
  BY DEF Cont, Ahead
<1>3. c \in Cont
  BY <1>1, <1>2, AddList
<1>4. /\ Under(sp) = Sub(t) /\ SpecParted({}, sp)
      /\ Sub(t) \subseteq Task /\ IsFiniteSet(Sub(t))
      /\ \A d \in Closings(t) : d \subseteq Sub(t)
  <2>1. Under(sp) = Sub(t)
    BY <1>1, TaskHolds
  <2>2. SpecParted({}, sp)
    BY <1>1, TaskHolds
  <2>3. QED
    BY <2>1, <2>2, TaskFacts
<1>5. Parted(Sub(t), <<>>)
  BY <1>2 DEF Parted
<1>6. Parted({}, c)
  <2>1. {} \cup Under(sp) = Sub(t)
    BY <1>4
  <2>2. Parted({}, c) <=> SpecParted({}, sp) /\ Parted({} \cup Under(sp), <<>>)
    BY <1>1, <1>2, AddHeads
  <2>3. QED
    BY <1>4, <1>5, <2>1, <2>2
<1>7. ASSUME NEW T
      PROVE  Holds(T, {}, c) <=>
               /\ T \cap Sub(t) \in Closings(t)
               /\ Weight(T \cap Sub(t)) <= l
               /\ 0 <= Weight(T \cap Sub(t))
               /\ T \subseteq Sub(t)
  <2>1. {} \cup Under(sp) = Sub(t) /\ {} \cup Sub(t) = Sub(t)
    BY <1>4
  <2>2. Holds(T, {}, c) <=> SpecHolds(T, {}, sp) /\ Holds(T, Sub(t), <<>>)
    BY <1>1, <1>2, <2>1, AddHeads
  <2>3. Holds(T, Sub(t), <<>>) <=> T \subseteq Sub(t)
    BY <1>2 DEF Holds
  <2>4. SpecHolds(T, {}, sp) <=>
          /\ T \cap Sub(t) \in Closings(t)
          /\ Weight(T \cap Sub(t)) <= l
          /\ 0 <= Weight(T \cap Sub(t))
    <3>1. SpecHolds(T, {}, sp) <=>
            /\ T \cap Sub(sp.task) \in Closings(sp.task)
            /\ Weight(T \cap ({} \cup Sub(sp.task))) <= sp.max
            /\ sp.min <= Weight(T \cap Sub(sp.task))
      BY <1>1, TaskHolds
    <3>2. QED
      BY <1>1, <2>1, <3>1, Zenon
  <2>5. QED
    BY <2>2, <2>3, <2>4
<1> HIDE DEF c
<1>8. ASSUME NEW T, T \subseteq Sub(t)
      PROVE  T \in SUBSET Task /\ IsFiniteSet(T) /\ T \cap Sub(t) = T /\ Weight(T) \in Nat
  <2>1. T \in SUBSET Task /\ T \cap Sub(t) = T
    BY <1>4, <1>8
  <2>2. IsFiniteSet(T)
    BY <1>4, <1>8, FS_Subset
  <2>3. QED
    BY <2>1, <2>2, PlacesFinite
<1>9. \A T : T \in Ways({}, c) <=> T \in Closings(t) /\ Weight(T) <= l
  <2> TAKE T
  <2>1. T \in Ways({}, c) <=> T \in SUBSET Task /\ IsFiniteSet(T) /\ Holds(T, {}, c)
    BY DEF Ways
  <2>2. CASE T \subseteq Sub(t)
    BY <1>7, <1>8, <2>1, <2>2
  <2>3. CASE ~ (T \subseteq Sub(t))
    BY <1>4, <1>7, <2>1, <2>3
  <2>4. QED
    BY <2>2, <2>3
<1>10. QED
  BY <1>3, <1>6, <1>9 DEF c, sp

(* The engine starts a search: of whatever task, from wherever the         *)
(* allocator is.                                                           *)
SearchStarts ==
  \E t \in Starts, l \in Limits, b \in Nat :
    /\ start = t /\ limit = l /\ found = <<>>
    /\ state = StartState({})
    /\ saves = Started(t, l, state, b)

(* The first save, and nothing found.                                      *)
LEMMA StartsTreeInv == SearchStarts => TreeInv
<1> SUFFICES ASSUME NEW t \in Starts, NEW l \in Limits, NEW b \in Nat,
                    start = t, limit = l, found = <<>>, state = StartState({}),
                    saves = Started(t, l, state, b)
             PROVE  TreeInv
  BY DEF SearchStarts
<1> DEFINE c == Add(<<>>, OneTaskSpec(t, 0, l), b)
           x == [cont |-> c, ss |-> state, As |-> b + 1]
<1>1. t \in Task /\ l \in Nat /\ {} \in Val /\ Solvable({})
  <2>1. t \in Task /\ l \in Nat
    BY EngineAssumption
  <2>2. Val = SUBSET Constraint /\ Solvable({})
    BY TreesAssumption DEF Trees
  <2>3. QED
    BY <2>1, <2>2
<1>2. state \in State /\ state.trail = {} /\ state.val = {} /\ state.nodes_used = 0
  BY <1>1, StartStateType DEF StartState
<1>3. HonestState(state)
  <2>1. {} \in SUBSET Task /\ IsFiniteSet({}) /\ Cardinality({}) = 0
    BY FS_EmptySet
  <2>2. Weight({}) = 0
    <3>1. Places({}) = {}
      BY DEF Places
    <3>2. QED
      BY <2>1, <3>1, PlacesFinite
  <2>3. Asked({}) = {}
    BY DEF Asked
  <2>4. QED
    BY <1>1, <1>2, <2>1, <2>2, <2>3 DEF HonestState
<1>4. c \in Cont /\ Parted({}, c) /\ Ways({}, c) = {d \in Closings(t) : Weight(d) <= l}
  BY <1>1, StartWays
<1>5. saves = Saved(<<>>, c, state, b + 1)
  BY SavedFirst DEF Started
<1> HIDE DEF c
<1>6. Ways({}, c) = Closed
  BY <1>4 DEF Closed
<1>7. Claims(<<>>, {}, Closed)
  <2>1. <<>> \in Seq(Save) /\ AllApart(<<>>) /\ (\A i \in 1..Len(<<>>) : Honest(<<>>[i]))
        /\ \A T : ~ Covered(<<>>, T)
    BY DEF AllApart, Covered
  <2>2. Derivations(start, limit) \subseteq Closed
    BY DEF Derivations, Closed
  <2>3. QED
    BY <2>1, <2>2 DEF Claims
<1>8. Claims(saves, {}, {})
  <2>1. b + 1 \in Nat
    OBVIOUS
  <2>2. Claims(Saved(<<>>, c, state, b + 1), {}, Closed \ Closed)
    BY <1>2, <1>3, <1>4, <1>6, <1>7, <2>1, ClaimsSaved
  <2>3. Closed \ Closed = {}
    OBVIOUS
  <2>4. QED
    BY <1>5, <2>2, <2>3
<1>9. found \in Seq(SUBSET Task) /\ Range(found) = {} /\ IsInjective(found)
  BY DEF Range, IsInjective
<1>10. QED
  BY <1>8, <1>9 DEF TreeInv

LEMMA TreeInitInv == TreeInit => TreeInv
<1> SUFFICES ASSUME TreeInit PROVE TreeInv
  OBVIOUS
<1>1. PICK t \in Starts, v \in StartVals, l \in Limits :
        /\ limit = l /\ state = StartState(v) /\ saves = Started(t, l, state, 0)
  BY DEF TreeInit, Init
<1>2. v = {}
  BY TreesAssumption DEF Trees
<1>3. saves[1].cont[1].spec.task = t
  BY <1>1 DEF Started, Add, OneTaskSpec
<1>4. start = t /\ found = <<>>
  BY <1>3 DEF TreeInit
<1>5. SearchStarts
  BY <1>1, <1>2, <1>4 DEF SearchStarts
<1>6. QED
  BY <1>5, StartsTreeInv

(* One more element at the end of a sequence.                              *)
LEMMA OneMore ==
  ASSUME NEW S, NEW s \in Seq(S), NEW e \in S
  PROVE  /\ Append(s, e) \in Seq(S) /\ Range(Append(s, e)) = Range(s) \cup {e}
         /\ IsInjective(s) /\ e \notin Range(s) => IsInjective(Append(s, e))
<1> DEFINE a == Append(s, e)
<1>1. /\ Len(s) \in Nat /\ a \in Seq(S) /\ DOMAIN a = 1 .. Len(s) + 1 /\ DOMAIN s = 1..Len(s)
      /\ a[Len(s) + 1] = e /\ \A i \in 1..Len(s) : a[i] = s[i]
  BY AppendProperties
<1> HIDE DEF a
<1>2. /\ Len(s) + 1 \in DOMAIN a
      /\ \A i \in DOMAIN a : i = Len(s) + 1 \/ i \in 1..Len(s)
      /\ \A i \in 1..Len(s) : i \in DOMAIN a
  BY <1>1
<1>3. Range(a) = Range(s) \cup {e}
  BY <1>1, <1>2 DEF Range
<1>4. IsInjective(s) /\ e \notin Range(s) => IsInjective(a)
  BY <1>1, <1>2 DEF IsInjective, Range
<1>5. QED
  BY <1>1, <1>3, <1>4 DEF a

(* Every step keeps the invariant.                                         *)
LEMMA TreeStepInv == IInv /\ TreeInv /\ [TreeNext]_treeVars => TreeInv'
<1> SUFFICES ASSUME IInv, TreeInv, [TreeNext]_treeVars PROVE TreeInv'
  OBVIOUS
<1>1. Claims(saves, Range(found), {})
  BY DEF TreeInv
<1>2. CASE TreeNext /\ Succeed
  <2>1. /\ won' = TRUE /\ UNCHANGED <<limit, cut, start>> /\ found' = Append(found, state'.trail)
    BY <1>2 DEF TreeNext, Succeed
  <2>2. PICK d : d = state'.trail
    OBVIOUS
  <2>3. /\ d \in Derivations(start, limit) /\ d \notin Range(found) /\ d \in SUBSET Task
        /\ Claims(saves', Range(found) \cup {d}, {})
    BY <1>1, <1>2, <2>2, SucceedClaims
  <2>4. /\ found' \in Seq(SUBSET Task) /\ Range(found') = Range(found) \cup {d}
        /\ IsInjective(found')
    <3>1. found \in Seq(SUBSET Task) /\ IsInjective(found)
      BY DEF TreeInv
    <3>2. QED
      BY <2>1, <2>2, <2>3, <3>1, OneMore
  <2>5. Range(found') \subseteq Derivations(start, limit)
    BY <2>3, <2>4 DEF TreeInv
  <2>6. Claims(saves', Range(found'), {})
    BY <2>3, <2>4
  <2>7. QED
    BY <2>1, <2>4, <2>5, <2>6 DEF TreeInv, Claims, Closed, Derivations
<1>3. CASE TreeNext /\ ~ Succeed
  <2>1. won' = FALSE /\ UNCHANGED <<limit, cut>>
    BY <1>3 DEF TreeNext, Next, CheckMinFails, CheckMinHolds, TaskTooBig, TaskFails, TaskOffers,
                TaskAsks, SetDone, SetSplits, Running, Popped
  <2>2. found' = found /\ start' = start
    BY <1>3, <2>1 DEF TreeNext
  <2>3. Claims(saves', Range(found), {})
    BY <1>1, <1>3, OtherClaims DEF TreeNext
  <2>4. QED
    BY <2>1, <2>2, <2>3 DEF TreeInv, Claims, Closed, Derivations
<1>4. CASE UNCHANGED treeVars
  BY <1>4 DEF treeVars, vars, TreeInv, Claims, Closed, Derivations
<1>5. QED
  BY <1>2, <1>3, <1>4

(* The invariant holds in every state of a search.                         *)
LEMMA AlwaysTreeInv == TreeSpec => []IInv /\ []TreeInv
<1>1. TreeInit => IInv /\ TreeInv
  BY InitGood, TreeInitInv DEF TreeInit
<1>2. IInv /\ TreeInv /\ [TreeNext]_treeVars => (IInv /\ TreeInv)'
  <2>1. [TreeNext]_treeVars => [Next]_vars
    BY DEF TreeNext, treeVars, vars
  <2>2. QED
    BY <2>1, TreesFit, StepGood, TreeStepInv
<1>3. QED
  BY <1>1, <1>2, PTL DEF TreeSpec

(***************************************************************************)
(* step() returns true at most once for each derivation: the two halves    *)
(* into which it divides the budget of a task set exclude each other, and  *)
(* so do the alternatives of a goal, on every tree and for every limit.    *)
(***************************************************************************)
THEOREM FoundOnce == TreeSpec => []NothingTwice
<1>1. TreeInv => NothingTwice
  BY DEF TreeInv, NothingTwice
<1>2. QED
  BY AlwaysTreeInv, <1>1, PTL

(***************************************************************************)
(* It returns true only for a set of clauses that closes the tree of the   *)
(* start, has a solution and weighs no more than the limit.                *)
(***************************************************************************)
THEOREM FoundSound == TreeSpec => []Sound
<1>1. TreeInv => Sound
  BY DEF TreeInv, Sound
<1>2. QED
  BY AlwaysTreeInv, <1>1, PTL

(* With nothing left on the stack, nothing is left to be found.            *)
LEMMA NothingLeft == TreeInv => NothingSkipped
<1> SUFFICES ASSUME TreeInv, ~cut, saves = <<>>, NEW T \in Derivations(start, limit)
             PROVE  T \in Range(found)
  BY DEF NothingSkipped
<1>1. ~ Covered(saves, T)
  BY DEF Covered
<1>2. QED
  BY <1>1 DEF TreeInv, Claims

(***************************************************************************)
(* Without cut a search that has come to its end has found all of them:    *)
(* nothing is lost between the two halves, by the check of a minimum or by *)
(* the order in which a goal offers its clauses.                           *)
(***************************************************************************)
THEOREM FoundAll == TreeSpec => []NothingSkipped
  BY AlwaysTreeInv, NothingLeft, PTL

(***************************************************************************)
(* The trees keep the contract of the engine, so that what BalancedProofs  *)
(* shows of tasks that fit holds of them without a further assumption.     *)
(***************************************************************************)
THEOREM TreesSafe == TreeSpec => [](FrameFits /\ RoomLeft /\ NoAlias /\ Committed)
<1>1. TreeInit => Init
  BY DEF TreeInit
<1>2. [TreeNext]_treeVars => [Next]_vars
  BY DEF TreeNext, treeVars, vars
<1>3. TreeSpec => Spec
  BY <1>1, <1>2, PTL DEF TreeSpec, Spec
<1>4. QED
  BY <1>3, AlwaysTreeInv, TreesFit, RoomIsLeft, AddressesTell, CutCommits, PTL

(***************************************************************************)
(* The whole run.  While it searches, the search is one of a TreeSpec; and *)
(* without cut nothing can be found within the limits that have been tried *)
(* to the end.                                                             *)
(***************************************************************************)
tried == IF phase = "deepen" THEN limit ELSE limit - 1

TreeRun ==
  /\ Searches /\ clock \in Nat
  /\ start = StartTask(problem) /\ StartVal(problem) = {}
  /\ phase \in {"first", "search"} => TreeInv /\ found = <<>>
  /\ proof # <<>> => phase = "returned" /\ TreeInv /\ state.trail \in Range(found)
  /\ ~cut /\ tried > 0 =>
       \/ phase = "deepen" /\ CtxDone
       \/ phase = "returned" /\ proof = <<>>
       \/ Derivations(start, tried) = {}

LEMMA StartsTreeInvNext == SearchStarts' => TreeInv'
  BY StartsTreeInv, PTL

LEMMA TreeRunInit == TreeScheduleInit => TreeRun
<1> SUFFICES ASSUME TreeScheduleInit PROVE TreeRun
  OBVIOUS
<1>1. ScheduleInit /\ StartVal(problem) = {} /\ start = StartTask(problem)
  BY TreesAssumption DEF TreeScheduleInit, Trees
<1>2. Searches
  BY <1>1, InitSearches
<1>3. phase = "deepen" /\ limit = 0 /\ clock = 0 /\ proof = <<>>
  BY <1>1 DEF ScheduleInit
<1>4. QED
  BY <1>1, <1>2, <1>3 DEF TreeRun, tried

(* The trees fit in every search of the run.                               *)
LEMMA RunFits == Searches => FrameFits
<1>1. CASE saves = <<>>
  BY <1>1 DEF FrameFits
<1>2. CASE saves # <<>>
  BY <1>2, TreesFit DEF Searches
<1>3. QED
  BY <1>1, <1>2

LEMMA TreeRunStep == TreeRun /\ [TreeScheduleNext]_treeScheduleVars => TreeRun'
<1> SUFFICES ASSUME TreeRun, [TreeScheduleNext]_treeScheduleVars PROVE TreeRun'
  OBVIOUS
<1>1. [ScheduleNext]_scheduleVars
  BY DEF TreeScheduleNext, TreeDeepen, TreeStep, BetweenSteps, treeScheduleVars, ScheduleNext
<1>2. Searches /\ Searches'
  BY <1>1, RunFits, RunSearches DEF TreeRun
<1>3. problem \in Inputs /\ limit \in Nat /\ StartTask(problem) \in Starts
  <2>1. problem \in Inputs /\ limit \in 0..MaxCost(problem)
    BY <1>2 DEF Searches
  <2>2. QED
    BY <2>1, ScheduleAssumption
<1>4. /\ start = StartTask(problem) /\ StartVal(problem) = {} /\ clock \in Nat
  BY DEF TreeRun
<1>5. CASE TreeDeepen
  <2>1. /\ phase = "deepen" /\ ~ CtxDone /\ phase' = "first" /\ limit' = limit + 1
        /\ limit < MaxCost(problem)
        /\ saves' = Started(StartTask(problem), limit + 1, state, brk)
        /\ UNCHANGED <<problem, state, cut, clock, proof, start>> /\ found' = <<>>
    BY <1>5 DEF TreeDeepen, Deepen
  <2>2. state = StartState({}) /\ brk = 0
    BY <1>2, <1>4, <2>1 DEF Searches, Untouched, Fresh
  <2>3. limit + 1 \in Limits
    <3>1. MaxCost(problem) \in Nat /\ 1..MaxCost(problem) \subseteq Limits
      BY <1>3, ScheduleAssumption
    <3>2. QED
      BY <1>3, <2>1, <3>1
  <2>4. SearchStarts'
    <3>1. /\ start' = StartTask(problem) /\ limit' = limit + 1 /\ found' = <<>>
          /\ state' = StartState({})
          /\ saves' = Started(StartTask(problem), limit + 1, state', 0)
      BY <1>4, <2>1, <2>2
    <3>2. QED
      BY <1>3, <2>3, <3>1 DEF SearchStarts
  <2>5. TreeInv'
    BY <2>4, StartsTreeInvNext
  <2>6. proof = <<>>
    BY <2>1 DEF TreeRun
  <2>7. tried' = limit /\ tried = limit
    BY <1>3, <2>1 DEF tried
  <2>8. ~cut' /\ tried' > 0 => Derivations(start', tried') = {}
    BY <2>1, <2>7 DEF TreeRun
  <2>9. QED
    BY <1>2, <1>4, <2>1, <2>5, <2>6, <2>8 DEF TreeRun
<1>6. CASE TreeStep
  <2>1. /\ phase \in {"first", "search"} /\ Next /\ TreeNext
        /\ UNCHANGED <<problem, clock, start>>
        /\ IF won' THEN phase' = "returned" /\ proof' = <<Output(state'.val)>>
           ELSE phase' = "search" /\ proof' = proof
    BY <1>6 DEF TreeStep, Step, TreeNext
  <2>2. TreeInv /\ found = <<>> /\ proof = <<>>
    BY <2>1 DEF TreeRun
  <2>3. saves # <<>> /\ UNCHANGED <<limit, cut>>
    BY <2>1 DEF Next, Succeed, CheckMinFails, CheckMinHolds, TaskTooBig, TaskFails, TaskOffers,
                TaskAsks, SetDone, SetSplits, Running, Popped
  <2>4. TreeInv'
    BY <1>2, <2>1, <2>2, <2>3, TreeStepInv DEF Searches
  <2>5. ~cut' /\ tried' > 0 => Derivations(start', tried') = {}
    <3>1. tried' = limit - 1 /\ tried = limit - 1
      BY <2>1, <2>3 DEF tried
    <3>2. QED
      BY <2>1, <2>3, <3>1 DEF TreeRun
  <2>6. CASE won'
    <3>1. found' = <<state'.trail>>
      BY <2>1, <2>2, <2>6 DEF TreeNext
    <3>2. state'.trail \in Range(found')
      BY <3>1 DEF Range
    <3>3. phase' = "returned"
      BY <2>1, <2>6
    <3>4. QED
      BY <1>2, <1>4, <2>1, <2>4, <2>5, <3>2, <3>3 DEF TreeRun
  <2>7. CASE ~won'
    <3>1. found' = <<>> /\ phase' = "search" /\ proof' = <<>>
      BY <2>1, <2>2, <2>7 DEF TreeNext
    <3>2. QED
      BY <1>2, <1>4, <2>1, <2>4, <2>5, <3>1 DEF TreeRun
  <2>8. QED
    BY <2>6, <2>7
<1>7. CASE BetweenSteps /\ Abandon
  <2>1. /\ phase = "search" /\ phase' = "deepen" /\ (saves = <<>> \/ CtxDone)
        /\ UNCHANGED <<problem, limit, cut, clock, proof, start>>
    BY <1>7 DEF BetweenSteps, Abandon
  <2>2. TreeInv /\ found = <<>> /\ proof = <<>>
    BY <2>1 DEF TreeRun
  <2>3. CtxDone' <=> CtxDone
    BY <2>1 DEF CtxDone
  <2>4. ~cut /\ saves = <<>> => Derivations(start, limit) = {}
    <3>1. Range(found) = {}
      BY <2>2 DEF Range
    <3>2. QED
      BY <2>2, <3>1, NothingLeft DEF NothingSkipped
  <2>5. tried' = limit
    BY <2>1 DEF tried
  <2>6. QED
    BY <1>2, <1>4, <2>1, <2>2, <2>3, <2>4, <2>5 DEF TreeRun
<1>8. CASE BetweenSteps /\ TimeOut
  <2>1. /\ phase = "deepen" /\ UNCHANGED <<problem, clock, proof, start>>
        /\ \/ cut' = FALSE /\ limit' = 0 /\ phase' = "deepen"
           \/ phase' = "returned" /\ UNCHANGED <<cut, limit>>
    BY <1>8 DEF BetweenSteps, TimeOut
  <2>2. proof = <<>>
    BY <2>1 DEF TreeRun
  <2>3. phase' = "returned" \/ tried' = 0
    BY <2>1 DEF tried
  <2>4. QED
    BY <1>2, <1>4, <2>1, <2>2, <2>3 DEF TreeRun
<1>9. CASE BetweenSteps /\ Tick
  <2>1. /\ clock' = clock + 1
        /\ UNCHANGED <<problem, phase, proof, start, found, saves, state, limit, cut>>
    BY <1>9 DEF BetweenSteps, Tick, vars
  <2>2. CtxDone => CtxDone'
    BY <1>4, <2>1 DEF CtxDone
  <2>3. TreeInv => TreeInv'
    BY <2>1 DEF TreeInv, Claims, Closed, Derivations
  <2>4. tried' = tried
    BY <2>1 DEF tried
  <2>5. QED
    BY <1>2, <1>4, <2>1, <2>2, <2>3, <2>4 DEF TreeRun
<1>10. CASE UNCHANGED treeScheduleVars
  <2>1. UNCHANGED <<problem, clock, phase, proof, start, found, saves, state, limit, cut>>
    BY <1>10 DEF treeScheduleVars, scheduleVars, vars
  <2>2. CtxDone' <=> CtxDone
    BY <2>1 DEF CtxDone
  <2>3. TreeInv => TreeInv'
    BY <2>1 DEF TreeInv, Claims, Closed, Derivations
  <2>4. tried' = tried
    BY <2>1 DEF tried
  <2>5. QED
    BY <1>2, <1>4, <2>1, <2>2, <2>3, <2>4 DEF TreeRun
<1>11. QED
  BY <1>5, <1>6, <1>7, <1>8, <1>9, <1>10 DEF TreeScheduleNext, BetweenSteps

LEMMA AlwaysTreeRun == TreeScheduleSpec => []TreeRun
  BY TreeRunInit, TreeRunStep, PTL DEF TreeScheduleSpec

(***************************************************************************)
(* Without cut, unless the context is done, iterative_deepening() goes on  *)
(* to the next limit only when there is no derivation within this one.     *)
(***************************************************************************)
THEOREM LimitsExhausted == TreeScheduleSpec => []Exhausted
<1>1. TreeRun => Exhausted
  BY DEF TreeRun, tried, Exhausted
<1>2. QED
  BY AlwaysTreeRun, <1>1, PTL

(***************************************************************************)
(* Every proof that is returned is a derivation, on all trees and for      *)
(* whatever deadline; without cut it is a cheapest one and out.cost is its *)
(* weight.                                                                 *)
(***************************************************************************)
THEOREM CheapestReturned == TreeScheduleSpec => []Cheapest
<1>1. TreeRun => Cheapest
  <2> SUFFICES ASSUME TreeRun, proof # <<>> PROVE
                 /\ state.trail \in Derivations(start, limit)
                 /\ ~cut /\ limit > 1 => \A d \in Derivations(start, limit) : Weight(d) = limit
    BY DEF Cheapest
  <2>1. /\ phase = "returned" /\ TreeInv /\ state.trail \in Range(found)
    BY DEF TreeRun
  <2>2. state.trail \in Derivations(start, limit)
    BY <2>1 DEF TreeInv
  <2>3. ASSUME ~cut, limit > 1, NEW d \in Derivations(start, limit) PROVE Weight(d) = limit
    <3>1. limit \in Nat /\ start \in Task
      <4>1. problem \in Inputs /\ limit \in 0..MaxCost(problem) /\ start = StartTask(problem)
        BY DEF TreeRun, Searches
      <4>2. QED
        BY <4>1, ScheduleAssumption, EngineAssumption
    <3>2. d \in Closings(start) /\ Weight(d) <= limit /\ Solvable(Asked(d))
      BY DEF Derivations
    <3>3. d \in SUBSET Task /\ IsFiniteSet(d)
      <4>1. d \subseteq Sub(start) /\ Sub(start) \subseteq Task /\ IsFiniteSet(Sub(start))
        BY <3>1, <3>2, TaskFacts
      <4>2. QED
        BY <4>1, FS_Subset
    <3>4. Weight(d) \in Nat
      BY <3>3, PlacesFinite
    <3>5. Derivations(start, limit - 1) = {}
      BY <2>1, <2>3, <3>1 DEF TreeRun, tried
    <3>6. ~ (Weight(d) <= limit - 1)
      BY <3>2, <3>5 DEF Derivations
    <3>7. QED
      BY <3>1, <3>2, <3>4, <3>6
  <2>4. QED
    BY <2>2, <2>3
<1>2. QED
  BY AlwaysTreeRun, <1>1, PTL

(***************************************************************************)
(* The end of a search.  Every step takes a save off the stack and may put *)
(* others in its place, but smaller ones: what is still to be done in them *)
(* (Todo) is less; or it is the same and fewer of the tasks wait in a task *)
(* set (Queued); or these are the same and there are fewer specs.          *)
(***************************************************************************)
Todo(c) == Ahead(c, Len(c))
Waiting(sp) == IF sp.kind = "taskset" THEN Pending(sp) ELSE {}
Queued(c) == UNION {Waiting(c[r].spec) : r \in 1..Len(c)}

Smaller(c, d) ==
  /\ Todo(c) \subseteq Todo(d)
  /\ Todo(c) = Todo(d) =>
       /\ Queued(c) \subseteq Queued(d)
       /\ Queued(c) = Queued(d) => Len(c) < Len(d)

Replaces(s, t) ==
  /\ s # <<>>
  /\ \A i \in 1..Len(t) : \/ i < Len(s) /\ t[i] = s[i]
                          \/ Smaller(t[i].cont, Last(s).cont)
Descent == {p \in Seq(Save) \X Seq(Save) : Replaces(p[2], p[1])}

(* The image of a finite set.                                              *)
LEMMA FiniteImage ==
  ASSUME NEW S, IsFiniteSet(S), NEW f, DOMAIN f = S PROVE IsFiniteSet({f[x] : x \in S})
<1> DEFINE T == {f[x] : x \in S}
           g == [x \in S |-> f[x]]
<1>1. g \in Surjection(S, T)
  BY DEF Surjection
<1>2. QED
  BY <1>1, FS_Surjection

(* The tasks below a spec, and a spec added.                               *)
LEMMA WaitingUnder ==
  ASSUME NEW sp \in Spec_
  PROVE  /\ IsFiniteSet(Under(sp)) /\ IsFiniteSet(Waiting(sp)) /\ Waiting(sp) \subseteq Under(sp)
<1>1. CASE sp.kind = "checkmin"
  <2>1. Pending(sp) = {}
    BY <1>1 DEF Pending
  <2>2. Under(sp) = {} /\ Waiting(sp) = {}
    BY <1>1, <2>1 DEF Under, Waiting
  <2>3. QED
    BY <2>2, FS_EmptySet
<1>2. CASE sp.kind = "task"
  <2>1. sp.task \in Task
    BY <1>2, SpecKinds
  <2>2. Pending(sp) = {sp.task}
    BY <1>2, <2>1 DEF Pending
  <2>3. Under(sp) = Sub(sp.task) /\ Waiting(sp) = {}
    BY <1>2, <2>2 DEF Under, Waiting
  <2>4. QED
    BY <2>1, <2>3, TaskFacts, FS_EmptySet
<1>3. CASE sp.kind = "taskset"
  <2> DEFINE ts == sp.tasks
             n == Len(ts)
             trees == {Sub(t) : t \in Pending(sp)}
             tree == [t \in Pending(sp) |-> Sub(t)]
             task == [i \in 1..n |-> ts[i]]
  <2>1. ts \in Seq(Task)
    BY <1>3, SpecKinds
  <2>2. n \in Nat /\ \A i \in 1..n : ts[i] \in Task
    BY <2>1, LenProperties, ElementOfSeq
  <2>3. Pending(sp) = {ts[i] : i \in 1..n}
    BY <1>3, <2>2 DEF Pending
  <2>4. IsFiniteSet(1..n)
    BY <2>2, UpTo
  <2> HIDE DEF ts, n
  <2>5. IsFiniteSet({ts[i] : i \in 1..n})
    <3>1. IsFiniteSet({task[i] : i \in 1..n})
      BY <2>4, FiniteImage
    <3>2. QED
      BY <3>1
  <2>6. IsFiniteSet(Pending(sp)) /\ Pending(sp) \subseteq Task
    BY <2>2, <2>3, <2>5
  <2>7. IsFiniteSet(trees)
    <3>1. IsFiniteSet({tree[t] : t \in Pending(sp)})
      BY <2>6, FiniteImage
    <3>2. QED
      BY <3>1
  <2>8. \A T \in trees : IsFiniteSet(T)
    BY <2>6, TaskFacts
  <2>9. IsFiniteSet(UNION trees)
    BY <2>7, <2>8, FS_UNION
  <2>10. Pending(sp) \subseteq Under(sp)
    BY <2>6, TaskFacts DEF Under
  <2>11. Under(sp) = UNION trees /\ Waiting(sp) = Pending(sp)
    BY <1>3 DEF Under, Waiting
  <2>12. QED
    BY <2>6, <2>9, <2>10, <2>11
<1>4. QED
  BY <1>1, <1>2, <1>3, SpecKinds

(* What is to be done in a continuation is finite, waiting tasks are part. *)
LEMMA TodoFinite ==
  ASSUME NEW c \in Cont
  PROVE  IsFiniteSet(Todo(c)) /\ IsFiniteSet(Queued(c)) /\ Queued(c) \subseteq Todo(c) /\ Len(c) \in Nat
<1> DEFINE n == Len(c)
           unders == {Under(c[r].spec) : r \in 1..n}
           waits == {Waiting(c[r].spec) : r \in 1..n}
           under == [r \in 1..n |-> Under(c[r].spec)]
           wait == [r \in 1..n |-> Waiting(c[r].spec)]
<1>1. n \in Nat /\ \A r \in 1..n : c[r].spec \in Spec_
  <2>1. c \in Seq(Node)
    BY DEF Cont, Node
  <2>2. n \in Nat /\ \A r \in 1..n : c[r] \in Node
    <3> HIDE DEF Node
    <3>1. QED
      BY <2>1, LenProperties, ElementOfSeq
  <2>3. QED
    BY <2>2 DEF Node
<1>2. IsFiniteSet(1..n)
  BY <1>1, UpTo
<1>3. IsFiniteSet(unders) /\ IsFiniteSet(waits)
  <2> HIDE DEF n
  <2>1. IsFiniteSet({under[r] : r \in 1..n}) /\ IsFiniteSet({wait[r] : r \in 1..n})
    <3> HIDE DEF under, wait
    <3>1. DOMAIN under = 1..n /\ DOMAIN wait = 1..n
      BY DEF under, wait
    <3>2. QED
      BY <1>2, <3>1, FiniteImage
  <2>2. unders = {under[r] : r \in 1..n} /\ waits = {wait[r] : r \in 1..n}
    OBVIOUS
  <2>3. QED
    BY <2>1, <2>2
<1>4. (\A T \in unders : IsFiniteSet(T)) /\ (\A T \in waits : IsFiniteSet(T))
  BY <1>1, WaitingUnder
<1>5. IsFiniteSet(UNION unders) /\ IsFiniteSet(UNION waits)
  BY <1>3, <1>4, FS_UNION
<1>6. UNION waits \subseteq UNION unders
  BY <1>1, WaitingUnder
<1>7. QED
  BY <1>1, <1>5, <1>6 DEF Todo, Queued, Ahead

(* A spec in front of a continuation adds what is to be done in it.        *)
LEMMA TodoAdd ==
  ASSUME NEW c \in Cont, NEW sp \in Spec_, NEW b \in Nat
  PROVE  /\ Add(c, sp, b) \in Cont /\ Len(Add(c, sp, b)) = Len(c) + 1
         /\ Todo(Add(c, sp, b)) = Under(sp) \cup Todo(c)
         /\ Queued(Add(c, sp, b)) = Waiting(sp) \cup Queued(c)
<1> DEFINE e == Add(c, sp, b)
           n == Len(c)
<1>1. /\ e \in Cont /\ Len(e) = n + 1 /\ e[1].spec = sp
      /\ \A p \in 2 .. n + 1 : p - 1 \in 1..n /\ e[p] = c[p - 1]
  BY AddList
<1>2. n \in Nat
  BY LenProperties DEF Cont
<1> HIDE DEF e, n
<1>3. \A r \in 1 .. n + 1 : r = 1 \/ (r - 1 \in 1..n /\ e[r] = c[r - 1])
  BY <1>1, <1>2
<1>4. \A r \in 1..n : r + 1 \in 1 .. n + 1 /\ e[r + 1] = c[r]
  <2>1. \A r \in 1..n : r + 1 \in 2 .. n + 1 /\ (r + 1) - 1 = r
    BY <1>2
  <2>2. QED
    BY <1>1, <1>2, <2>1
<1>5. 1 \in 1 .. n + 1
  BY <1>2
<1>6. UNION {Under(e[r].spec) : r \in 1 .. n + 1} = Under(sp) \cup UNION {Under(c[r].spec) : r \in 1..n}
  BY <1>1, <1>3, <1>4, <1>5
<1>7. UNION {Waiting(e[r].spec) : r \in 1 .. n + 1} = Waiting(sp) \cup UNION {Waiting(c[r].spec) : r \in 1..n}
  BY <1>1, <1>3, <1>4, <1>5
<1>8. QED
  BY <1>1, <1>6, <1>7 DEF Todo, Queued, Ahead, e, n

(* The popped save, for its first spec and the rest.                       *)
LEMMA TodoTop ==
  ASSUME IInv, saves # <<>>, Top.cont # <<>>
  PROVE  /\ Later \in Cont /\ First \in Spec_ /\ Len(Top.cont) = Len(Later) + 1
         /\ Todo(Top.cont) = Under(First) \cup Todo(Later)
         /\ Queued(Top.cont) = Waiting(First) \cup Queued(Later)
         /\ Len(Later) \in Nat /\ Top.As \in Nat /\ nodes \in Nat
<1> DEFINE c == Top.cont
           n == Len(Later)
<1>1. c \in Cont /\ Top.As \in Nat /\ nodes \in Nat
  BY TopGood
<1>2. Later \in Cont /\ First \in Spec_
  BY FirstGood
<1>3. /\ n \in Nat /\ Len(c) = n + 1 /\ c[1].spec = First
      /\ \A p \in 1..n : c[p + 1] = Later[p]
  BY <1>1, AheadTail DEF First, Later
<1> HIDE DEF c, n
<1>4. \A r \in 1 .. n + 1 : r = 1 \/ (r - 1 \in 1..n /\ c[r] = Later[r - 1])
  <2> SUFFICES ASSUME NEW r \in 1 .. n + 1, r # 1 PROVE r - 1 \in 1..n /\ c[r] = Later[r - 1]
    OBVIOUS
  <2>1. r - 1 \in 1..n /\ (r - 1) + 1 = r
    BY <1>3
  <2>2. QED
    BY <1>3, <2>1
<1>5. 1 \in 1 .. n + 1 /\ \A p \in 1..n : p + 1 \in 1 .. n + 1
  BY <1>3
<1>6. UNION {Under(c[r].spec) : r \in 1 .. n + 1} = Under(First) \cup UNION {Under(Later[r].spec) : r \in 1..n}
  BY <1>3, <1>4, <1>5
<1>7. UNION {Waiting(c[r].spec) : r \in 1 .. n + 1} = Waiting(First) \cup UNION {Waiting(Later[r].spec) : r \in 1..n}
  BY <1>3, <1>4, <1>5
<1>8. QED
  BY <1>1, <1>2, <1>3, <1>6, <1>7 DEF Todo, Queued, Ahead, c, n

(***************************************************************************)
(* There is no endless descent.                                            *)
(***************************************************************************)
(* Smaller is transitive, so smaller than all that came before.            *)
LEMMA SmallerTransitive ==
  ASSUME NEW c \in Cont, NEW d \in Cont, NEW e \in Cont, Smaller(c, d), Smaller(d, e)
  PROVE  Smaller(c, e)
<1>1. Len(c) \in Nat /\ Len(d) \in Nat /\ Len(e) \in Nat
  BY TodoFinite
<1>2. Todo(c) \subseteq Todo(d) /\ Todo(d) \subseteq Todo(e)
  BY DEF Smaller
<1>3. ASSUME Todo(c) = Todo(e)
      PROVE  /\ Queued(c) \subseteq Queued(e)
             /\ Queued(c) = Queued(e) => Len(c) < Len(e)
  <2>1. Todo(c) = Todo(d) /\ Todo(d) = Todo(e)
    BY <1>2, <1>3
  <2>2. /\ Queued(c) \subseteq Queued(d) /\ Queued(d) \subseteq Queued(e)
        /\ Queued(c) = Queued(d) => Len(c) < Len(d)
        /\ Queued(d) = Queued(e) => Len(d) < Len(e)
    BY <2>1 DEF Smaller
  <2>3. ASSUME Queued(c) = Queued(e) PROVE Len(c) < Len(e)
    <3>1. Queued(c) = Queued(d) /\ Queued(d) = Queued(e)
      BY <2>2, <2>3
    <3>2. Len(c) < Len(d) /\ Len(d) < Len(e)
      BY <2>2, <3>1
    <3>3. QED
      BY <1>1, <3>2
  <2>4. QED
    BY <2>2, <2>3
<1>4. QED
  BY <1>2, <1>3 DEF Smaller

(* Of some continuations one has none of the others below it.              *)
LEMMA Smallest ==
  ASSUME NEW C \in SUBSET Cont, C # {}
  PROVE  \E c \in C : \A d \in C : ~ Smaller(d, c)
<1> DEFINE todos == {Cardinality(Todo(c)) : c \in C}
<1>1. \A c \in C : /\ IsFiniteSet(Todo(c)) /\ IsFiniteSet(Queued(c)) /\ Len(c) \in Nat
                   /\ Cardinality(Todo(c)) \in Nat /\ Cardinality(Queued(c)) \in Nat
  BY TodoFinite, FS_CardinalityType
<1>2. todos \in SUBSET Nat /\ todos # {}
  BY <1>1
<1>3. PICK x \in todos : \A y \in todos : x <= y
  BY <1>2, NatMin
<1>4. PICK a \in C : Cardinality(Todo(a)) = x
  BY <1>3
<1> DEFINE D == {c \in C : Todo(c) = Todo(a)}
           queues == {Cardinality(Queued(c)) : c \in D}
<1>5. queues \in SUBSET Nat /\ queues # {}
  BY <1>1, <1>4
<1>6. PICK z \in queues : \A y \in queues : z <= y
  BY <1>5, NatMin
<1>7. PICK b \in D : Cardinality(Queued(b)) = z
  BY <1>6
<1> DEFINE E == {c \in D : Queued(c) = Queued(b)}
           lens == {Len(c) : c \in E}
<1>8. lens \in SUBSET Nat /\ lens # {}
  BY <1>1, <1>7
<1>9. PICK w \in lens : \A y \in lens : w <= y
  BY <1>8, NatMin
<1>10. PICK c \in E : Len(c) = w
  BY <1>9
<1>11. ASSUME NEW d \in C, Smaller(d, c) PROVE FALSE
  <2>1. Todo(c) = Todo(a) /\ Queued(c) = Queued(b) /\ c \in C
    OBVIOUS
  <2>2. Todo(d) = Todo(a)
    <3>1. Todo(d) \subseteq Todo(a)
      BY <1>11, <2>1 DEF Smaller
    <3>2. Cardinality(Todo(d)) \in todos
      OBVIOUS
    <3>3. x <= Cardinality(Todo(d))
      BY <1>3, <3>2
    <3>4. IsFiniteSet(Todo(a)) /\ Todo(d) \in SUBSET Todo(a) /\ Cardinality(Todo(d)) \in Nat
      BY <1>1, <1>4, <3>1
    <3>5. /\ Cardinality(Todo(d)) <= Cardinality(Todo(a))
          /\ Cardinality(Todo(a)) = Cardinality(Todo(d)) => Todo(a) = Todo(d)
      BY <3>4, FS_Subset
    <3>6. x \in Nat
      BY <1>2, <1>3
    <3> HIDE DEF todos
    <3>7. QED
      BY <1>4, <3>3, <3>4, <3>5, <3>6
  <2>3. d \in D /\ Queued(d) \subseteq Queued(b) /\ (Queued(d) = Queued(b) => Len(d) < Len(c))
    BY <1>11, <2>1, <2>2 DEF Smaller
  <2>4. Queued(d) = Queued(b)
    <3>1. Cardinality(Queued(d)) \in queues
      BY <2>3
    <3>2. z <= Cardinality(Queued(d))
      BY <1>6, <3>1
    <3>3. IsFiniteSet(Queued(b)) /\ Queued(d) \in SUBSET Queued(b) /\ Cardinality(Queued(d)) \in Nat
      BY <1>1, <1>7, <2>3
    <3>4. /\ Cardinality(Queued(d)) <= Cardinality(Queued(b))
          /\ Cardinality(Queued(b)) = Cardinality(Queued(d)) => Queued(b) = Queued(d)
      BY <3>3, FS_Subset
    <3>5. z \in Nat
      BY <1>5, <1>6
    <3> HIDE DEF queues
    <3>6. QED
      BY <1>7, <3>2, <3>3, <3>4, <3>5
  <2>5. Len(d) \in lens
    BY <2>3, <2>4
  <2>6. w <= Len(d) /\ Len(d) < w
    BY <1>9, <1>10, <2>3, <2>4, <2>5
  <2>7. Len(d) \in Nat /\ w \in Nat
    BY <1>1, <1>8, <1>9
  <2> HIDE DEF lens
  <2>8. QED
    BY <2>6, <2>7
<1>12. QED
  BY <1>10, <1>11

(***************************************************************************)
(* There is no endless sequence of stacks each of which replaces the one   *)
(* before: of the saves that are never popped below, one on top of the     *)
(* stack has a smallest continuation, and all that comes after it and is   *)
(* not below it is smaller.                                                *)
(***************************************************************************)
THEOREM NoEndlessSearch == IsWellFoundedOn(Descent, Seq(Save))
<1> SUFFICES ASSUME NEW f \in [Nat -> Seq(Save)], \A n \in Nat : <<f[n + 1], f[n]>> \in Descent
             PROVE  FALSE
  BY DEF IsWellFoundedOn
<1> DEFINE L(n) == Len(f[n])
           At(n, i) == f[n][i].cont
           Floor(n) == \A m \in Nat : n <= m => L(n) <= L(m)
           C == {At(n, L(n)) : n \in {k \in Nat : Floor(k)}}
<1>1. ASSUME NEW n \in Nat
      PROVE  /\ L(n) \in Nat /\ 1 <= L(n) /\ \A i \in 1..L(n) : At(n, i) \in Cont
             /\ \A i \in 1..L(n + 1) : \/ i < L(n) /\ At(n + 1, i) = At(n, i)
                                       \/ Smaller(At(n + 1, i), At(n, L(n)))
  <2>1. f[n] \in Seq(Save) /\ Replaces(f[n], f[n + 1])
    BY DEF Descent
  <2>2. L(n) \in Nat /\ \A i \in 1..L(n) : f[n][i] \in Save
    BY <2>1, SaveAt
  <2>3. f[n] # <<>>
    BY <2>1 DEF Replaces
  <2>4. L(n) # 0
    <3> HIDE DEF Save
    <3>1. QED
      BY <2>1, <2>3, EmptySeq
  <2>5. \A i \in 1..L(n) : At(n, i) \in Cont
    BY <2>2 DEF Save
  <2>6. Last(f[n]) = f[n][L(n)]
    BY DEF Last
  <2>7. \A i \in 1..L(n + 1) : \/ i < L(n) /\ f[n + 1][i] = f[n][i]
                               \/ Smaller(f[n + 1][i].cont, f[n][L(n)].cont)
    BY <2>1, <2>6 DEF Replaces
  <2>8. L(n) \in Nat /\ 1 <= L(n)
    BY <2>2, <2>4
  <2> HIDE DEF L
  <2>9. QED
    BY <2>5, <2>7, <2>8
<1> HIDE DEF L, At
<1>2. ASSUME NEW k \in Nat PROVE \E n \in Nat : k <= n /\ Floor(n)
  <2> DEFINE lens == {L(m) : m \in {j \in Nat : k <= j}}
  <2>1. lens \in SUBSET Nat /\ lens # {}
    BY <1>1
  <2>2. PICK x \in lens : \A y \in lens : x <= y
    BY <2>1, NatMin
  <2>3. PICK n \in Nat : k <= n /\ L(n) = x
    BY <2>2
  <2>4. ASSUME NEW m \in Nat, n <= m PROVE L(n) <= L(m)
    <3>1. k <= m
      BY <2>3, <2>4
    <3>2. L(m) \in lens
      BY <3>1
    <3>3. QED
      BY <2>2, <2>3, <3>2
  <2>5. QED
    BY <2>3, <2>4
<1>3. C \in SUBSET Cont /\ C # {}
  <2>1. \A n \in Nat : L(n) \in 1..L(n)
    BY <1>1
  <2>2. \A n \in Nat : At(n, L(n)) \in Cont
    BY <1>1, <2>1
  <2>3. \E n \in Nat : Floor(n)
    BY <1>2
  <2> HIDE DEF Floor
  <2>4. QED
    BY <2>2, <2>3
<1>4. PICK c \in C : \A d \in C : ~ Smaller(d, c)
  BY <1>3, Smallest
<1>5. PICK n \in Nat : Floor(n) /\ c = At(n, L(n))
  BY <1>4
<1>6. ASSUME NEW m \in Nat, n < m PROVE \A i \in L(n)..L(m) : Smaller(At(m, i), c)
  <2> DEFINE bad == {j \in Nat : n < j /\ \E i \in L(n)..L(j) : ~ Smaller(At(j, i), c)}
  <2>1. CASE bad = {}
    BY <1>6, <2>1
  <2>2. CASE bad # {}
    <3>1. PICK q \in bad : \A y \in bad : q <= y
      <4>1. bad \in SUBSET Nat
        OBVIOUS
      <4>2. QED
        BY <2>2, <4>1, NatMin
    <3>2. q \in Nat /\ n < q
      BY <3>1
    <3>3. PICK i \in L(n)..L(q) : ~ Smaller(At(q, i), c)
      BY <3>1
    <3> DEFINE p == q - 1
    <3>4. p \in Nat /\ n <= p /\ p + 1 = q /\ p < q
      BY <3>2
    <3>5. \A j \in L(n)..L(p) : n < p => Smaller(At(p, j), c)
      <4>1. p \notin bad
        BY <3>1, <3>2, <3>4
      <4>2. QED
        BY <3>4, <4>1
    <3> HIDE DEF p, bad
    <3>6. /\ L(n) \in Nat /\ 1 <= L(n) /\ L(p) \in Nat /\ 1 <= L(p) /\ L(q) \in Nat
          /\ L(n) <= L(p)
      BY <1>1, <1>5, <3>2, <3>4
    <3>7. i \in 1..L(q)
      BY <3>6
    <3>8. \/ i < L(p) /\ At(q, i) = At(p, i)
          \/ Smaller(At(q, i), At(p, L(p)))
      BY <1>1, <3>4, <3>7
    <3>9. CASE i < L(p) /\ At(q, i) = At(p, i)
      <4>1. n # p
        BY <3>6, <3>9
      <4>2. i \in L(n)..L(p) /\ n < p
        BY <3>4, <3>6, <3>9, <4>1
      <4>3. QED
        BY <3>3, <3>5, <3>9, <4>2
    <3>10. CASE Smaller(At(q, i), At(p, L(p)))
      <4>1. CASE n = p
        BY <1>5, <3>3, <3>10, <4>1
      <4>2. CASE n # p
        <5>1. n < p /\ L(p) \in L(n)..L(p) /\ L(p) \in 1..L(p)
          BY <3>4, <3>6, <4>2
        <5>2. Smaller(At(p, L(p)), c)
          BY <3>5, <5>1
        <5>3. At(q, i) \in Cont /\ At(p, L(p)) \in Cont /\ c \in Cont
          BY <1>1, <1>3, <1>4, <3>2, <3>4, <3>7, <5>1
        <5>4. QED
          BY <3>3, <3>10, <5>2, <5>3, SmallerTransitive
      <4>3. QED
        BY <4>1, <4>2
    <3>11. QED
      BY <3>8, <3>9, <3>10
  <2>3. QED
    BY <2>1, <2>2
<1>7. PICK m \in Nat : n + 1 <= m /\ Floor(m)
  <2>1. n + 1 \in Nat
    OBVIOUS
  <2> HIDE DEF Floor
  <2>2. QED
    BY <1>2, <2>1
<1>8. n < m /\ L(m) \in L(n)..L(m)
  <2>1. n < m /\ n <= m
    BY <1>7
  <2>2. L(n) <= L(m) /\ L(n) \in Nat /\ L(m) \in Nat
    BY <1>1, <1>5, <2>1
  <2>3. QED
    BY <2>1, <2>2
<1>9. Smaller(At(m, L(m)), c)
  BY <1>6, <1>8
<1>10. At(m, L(m)) \in C
  BY <1>7
<1>11. QED
  BY <1>4, <1>9, <1>10

(***************************************************************************)
(* Every step is part of the descent.                                      *)
(***************************************************************************)
(* The top taken off.                                                     *)
LEMMA RestReplaces ==
  ASSUME IInv, saves # <<>>
  PROVE  saves \in Seq(Save) /\ Rest \in Seq(Save) /\ Replaces(saves, Rest)
<1> DEFINE n == Len(saves)
<1>1. saves \in Seq(Save)
  BY DEF IInv, TypeOK
<1>2. n \in Nat \ {0}
  <2> HIDE DEF Save
  <2>1. QED
    BY <1>1, EmptySeq
<1>3. Rest = SubSeq(saves, 1, n - 1) /\ n - 1 \in 0..n
  BY <1>2 DEF Rest, Front
<1>4. /\ Rest \in Seq(Save) /\ Len(Rest) = n - 1
      /\ \A i \in 1 .. n - 1 : Rest[i] = saves[i]
  BY <1>1, <1>3, FirstSaves
<1>5. \A i \in 1 .. n - 1 : i < n
  BY <1>2
<1>6. QED
  BY <1>1, <1>4, <1>5 DEF Replaces

(* Saves with the same continuation cut (Saves.Push),                      *)
LEMMA KeptReplaces ==
  ASSUME NEW svs \in Seq(Save), Replaces(saves, svs), NEW c
  PROVE  Kept(svs, c) \in Seq(Save) /\ Replaces(saves, Kept(svs, c))
<1>1. PICK k \in 0..Len(svs) : Kept(svs, c) = SubSeq(svs, 1, k)
  BY KeptPrefix
<1>2. /\ Kept(svs, c) \in Seq(Save) /\ Len(Kept(svs, c)) = k
      /\ \A i \in 1..k : i \in 1..Len(svs) /\ Kept(svs, c)[i] = svs[i]
  BY <1>1, FirstSaves
<1>3. QED
  BY <1>2 DEF Replaces

(* saves pushed whose continuations are smaller,                           *)
LEMMA MoreReplaces ==
  ASSUME NEW svs \in Seq(Save), Replaces(saves, svs),
         NEW new \in Seq(Save), \A i \in 1..Len(new) : Smaller(new[i].cont, Top.cont)
  PROVE  svs \o new \in Seq(Save) /\ Replaces(saves, svs \o new)
<1> DEFINE e == svs \o new
           n == Len(svs)
           m == Len(new)
<1>1. n \in Nat /\ m \in Nat
  BY SaveAt
<1>2. /\ e \in Seq(Save) /\ Len(e) = n + m
      /\ \A i \in 1 .. n + m : e[i] = IF i <= n THEN svs[i] ELSE new[i - n]
  <2> HIDE DEF Save
  <2>1. QED
    BY ConcatProperties
<1> HIDE DEF e, n, m
<1>3. \A i \in 1 .. n + m : i \in 1..n \/ (~ (i <= n) /\ i - n \in 1..m)
  BY <1>1
<1>4. \A i \in 1..n : i <= n
  BY <1>1
<1>5. ASSUME NEW i \in 1 .. n + m
      PROVE  (i < Len(saves) /\ e[i] = saves[i]) \/ Smaller(e[i].cont, Last(saves).cont)
  <2>1. CASE i \in 1..n
    <3>1. e[i] = svs[i]
      BY <1>2, <1>4, <2>1
    <3>2. QED
      BY <2>1, <3>1 DEF Replaces, n
  <2>2. CASE ~ (i <= n) /\ i - n \in 1..m
    <3>1. e[i] = new[i - n]
      BY <1>2, <2>2
    <3>2. QED
      BY <2>2, <3>1 DEF Top, m
  <2>3. QED
    BY <1>3, <2>1, <2>2
<1>6. QED
  BY <1>2, <1>5 DEF Replaces, e

(* and one of them pushed by itself.                                       *)
LEMMA SavedReplaces ==
  ASSUME NEW svs \in Seq(Save), Replaces(saves, svs),
         NEW c \in Cont, NEW ss \in State, NEW b \in Nat, Smaller(c, Top.cont)
  PROVE  Saved(svs, c, ss, b) \in Seq(Save) /\ Replaces(saves, Saved(svs, c, ss, b))
<1> DEFINE x == [cont |-> c, ss |-> ss, As |-> b]
           kept == Kept(svs, c)
<1>1. x \in Save /\ x.cont = c
  BY DEF Save
<1>2. kept \in Seq(Save) /\ Replaces(saves, kept)
  BY KeptReplaces
<1>3. Saved(svs, c, ss, b) = Append(kept, x)
  BY DEF Saved
<1> HIDE DEF x, kept
<1>4. <<x>> \in Seq(Save) /\ Len(<<x>>) = 1 /\ <<x>>[1] = x
  BY <1>1
<1>5. Append(kept, x) = kept \o <<x>>
  <2> HIDE DEF Save
  <2>1. QED
    BY <1>1, <1>2, AppendIsConcat
<1>6. \A i \in 1..Len(<<x>>) : Smaller(<<x>>[i].cont, Top.cont)
  BY <1>1, <1>4
<1> DEFINE new == <<x>>
<1> HIDE DEF new
<1>7. kept \o new \in Seq(Save) /\ Replaces(saves, kept \o new)
  BY <1>2, <1>4, <1>6, MoreReplaces DEF new
<1>8. QED
  BY <1>3, <1>5, <1>7 DEF new

(* A spec is done with,                                                    *)
LEMMA LaterSmaller ==
  ASSUME IInv, saves # <<>>, Top.cont # <<>>
  PROVE  Smaller(Later, Top.cont)
<1>1. /\ Len(Top.cont) = Len(Later) + 1 /\ Len(Later) \in Nat
      /\ Todo(Top.cont) = Under(First) \cup Todo(Later)
      /\ Queued(Top.cont) = Waiting(First) \cup Queued(Later)
  BY TodoTop
<1>2. Len(Later) < Len(Top.cont)
  BY <1>1
<1>3. QED
  BY <1>1, <1>2 DEF Smaller

(* a task has run,                                                         *)
LEMMA RunSmaller ==
  ASSUME IInv, Popped("task"), Honest(Top), NEW sp \in Spec_, NEW b \in Nat,
         Under(sp) \subseteq Sub(First.task), First.task \notin Under(sp)
  PROVE  Add(ProxyCont, sp, b) \in Cont /\ Smaller(Add(ProxyCont, sp, b), Top.cont)
<1> DEFINE t == First.task
           e == Add(ProxyCont, sp, b)
           check == CheckMinSpec(nodes + First.min)
<1>1. saves # <<>> /\ Top.cont # <<>> /\ First.kind = "task"
  BY DEF Popped
<1>2. /\ t \in Task /\ First.min \in Nat /\ X \cap Sub(t) = {} /\ Parted(X \cup Sub(t), Later)
  BY TaskWays
<1>3. /\ Later \in Cont /\ First \in Spec_ /\ Top.As \in Nat /\ nodes \in Nat /\ Len(Later) \in Nat
      /\ Todo(Top.cont) = Under(First) \cup Todo(Later)
  BY <1>1, TodoTop
<1>4. Under(First) = Sub(t) /\ t \in Sub(t)
  BY <1>1, <1>2, TaskHolds, TaskFacts
<1>5. t \notin Todo(Later)
  <2>1. (X \cup Sub(t)) \cap Ahead(Later, Len(Later)) = {}
    <3>1. Len(Later) \in 0..Len(Later)
      BY <1>3
    <3>2. QED
      BY <1>2, <1>3, <3>1, PartedAhead
  <2>2. QED
    BY <1>4, <2>1 DEF Todo
<1>6. ProxyCont \in Cont /\ Todo(ProxyCont) = Todo(Later)
  <2>1. CASE First.min > 0
    <3>1. check \in Spec_ /\ check.kind = "checkmin"
      BY <1>2, <1>3 DEF CheckMinSpec, Spec_, CheckMin
    <3> HIDE DEF check
    <3>2. Under(check) = {}
      BY <3>1, CheckHolds
    <3>3. ProxyCont = Add(Later, check, Top.As)
      BY <2>1 DEF ProxyCont, check
    <3>4. /\ Add(Later, check, Top.As) \in Cont
          /\ Todo(Add(Later, check, Top.As)) = Under(check) \cup Todo(Later)
      BY <1>3, <3>1, TodoAdd
    <3>5. QED
      BY <3>2, <3>3, <3>4
  <2>2. CASE ~ (First.min > 0)
    BY <1>3, <2>2 DEF ProxyCont
  <2>3. QED
    BY <2>1, <2>2
<1>7. e \in Cont /\ Todo(e) = Under(sp) \cup Todo(Later)
  BY <1>6, TodoAdd
<1>8. Todo(e) \subseteq Todo(Top.cont) /\ t \in Todo(Top.cont) /\ t \notin Todo(e)
  BY <1>3, <1>4, <1>5, <1>7
<1>9. QED
  BY <1>7, <1>8 DEF Smaller

(* a task set has been divided.                                            *)
LEMMA SplitSmaller ==
  ASSUME IInv, Popped("taskset"), First.tasks # <<>>, Honest(Top)
  PROVE  Smaller(ShareCont, Top.cont) /\ (CanTakeMore => Smaller(MoreCont, Top.cont))
<1> DEFINE h == Head(First.tasks)
           O == {others[i] : i \in 1..Len(others)}
           D == HeadTree \cup OtherTrees
<1>1. saves # <<>> /\ Top.cont # <<>> /\ First.kind = "taskset"
  BY DEF Popped
<1>2. /\ h \in Task /\ others \in Seq(Task) /\ Top.As \in Nat /\ nodes \in Nat
      /\ head_budget \in Nat /\ First.max \in Nat /\ Later \in Cont
      /\ CanTakeMore => nodes + head_budget + 1 <= First.max
  BY SplitNumbers
<1>3. /\ HeadTree \cap OtherTrees = {} /\ Parted(X \cup HeadTree \cup OtherTrees, Later)
  BY SetParts
<1>4. /\ First \in Spec_ /\ Len(Later) \in Nat
      /\ Todo(Top.cont) = Under(First) \cup Todo(Later)
      /\ Queued(Top.cont) = Waiting(First) \cup Queued(Later)
  BY <1>1, TodoTop
<1>5. /\ HeadTree = Sub(h) /\ h \in Sub(h)
      /\ OtherTrees = UNION {Sub(o) : o \in O} /\ O \subseteq OtherTrees /\ O \subseteq Task
  <2>1. \A i \in 1..Len(others) : others[i] \in Task
    BY <1>2, ElementOfSeq
  <2>2. O \subseteq Task
    BY <2>1
  <2>3. \A o \in O : o \in Sub(o)
    BY <2>2, TaskFacts
  <2>4. HeadTree = Sub(h) /\ OtherTrees = UNION {Sub(o) : o \in O}
    BY DEF HeadTree, OtherTrees
  <2>5. h \in Sub(h)
    BY <1>2, TaskFacts
  <2> HIDE DEF O, h
  <2>6. O \subseteq OtherTrees
    BY <2>3, <2>4
  <2>7. QED
    BY <2>2, <2>4, <2>5, <2>6
<1>6. Waiting(First) = {h} \cup O
  <2> DEFINE ts == First.tasks
  <2>1. ts \in Seq(Task)
    BY <1>1, <1>4, SpecKinds
  <2>2. /\ Len(ts) \in Nat \ {0} /\ h = ts[1] /\ Len(others) = Len(ts) - 1
        /\ \A i \in 1..Len(others) : others[i] = ts[i + 1]
    BY <2>1, EmptySeq, HeadTailProperties DEF others
  <2>3. /\ \A i \in 1..Len(others) : i + 1 \in 1..Len(ts)
        /\ 1 \in 1..Len(ts)
        /\ \A i \in 1..Len(ts) : i = 1 \/ (i - 1 \in 1..Len(others) /\ i = (i - 1) + 1)
    BY <2>2
  <2> HIDE DEF ts, h
  <2>4. \A i \in 1..Len(ts) : ts[i] = h \/ \E j \in 1..Len(others) : ts[i] = others[j]
    BY <2>2, <2>3
  <2>5. {ts[i] : i \in 1..Len(ts)} = {h} \cup O
    BY <2>2, <2>3, <2>4
  <2>6. Waiting(First) = {t \in Task : \E i \in 1..Len(ts) : t = ts[i]}
    BY <1>1 DEF Waiting, Pending, ts
  <2>7. QED
    BY <1>2, <1>5, <2>5, <2>6
<1>7. Under(First) = D
  <2>1. Pending(First) = Waiting(First)
    BY <1>1 DEF Waiting
  <2>2. QED
    BY <1>5, <1>6, <2>1 DEF Under
<1>8. h \notin O /\ h \notin Queued(Later)
  <2>1. h \notin O
    BY <1>3, <1>5
  <2>2. Queued(Later) \subseteq Todo(Later)
    BY <1>2, TodoFinite
  <2>3. (X \cup HeadTree \cup OtherTrees) \cap Ahead(Later, Len(Later)) = {}
    <3>1. Len(Later) \in 0..Len(Later)
      BY <1>4
    <3>2. QED
      BY <1>2, <1>3, <3>1, PartedAhead
  <2>4. QED
    BY <1>5, <2>1, <2>2, <2>3 DEF Todo
(* It is enough that the same is to be done, and that h waits no longer.   *)
<1>9. ASSUME NEW c, Todo(c) = D \cup Todo(Later), Queued(c) = O \cup Queued(Later)
      PROVE  Smaller(c, Top.cont)
  <2>1. Todo(c) = Todo(Top.cont)
    BY <1>4, <1>7, <1>9
  <2>2. Queued(c) \subseteq Queued(Top.cont) /\ Queued(c) # Queued(Top.cont)
    BY <1>4, <1>6, <1>8, <1>9
  <2>3. QED
    BY <2>1, <2>2 DEF Smaller
(* The specs that are added.                                               *)
<1>10. ASSUME NEW min \in Nat, NEW max \in Nat
       PROVE  LET one == OneTaskSpec(h, min, max) IN
              one \in Spec_ /\ Under(one) = HeadTree /\ Waiting(one) = {}
  <2> DEFINE one == OneTaskSpec(h, min, max)
  <2>1. one \in Spec_ /\ one.kind = "task" /\ one.task = h
    BY <1>2 DEF OneTaskSpec, Spec_, OneTask
  <2> HIDE DEF one
  <2>2. Under(one) = Sub(h)
    BY <1>2, <2>1, TaskHolds
  <2>3. Waiting(one) = {}
    BY <2>1 DEF Waiting
  <2>4. QED
    BY <1>5, <2>1, <2>2, <2>3 DEF one
<1>11. ASSUME NEW max \in Nat
       PROVE  LET rest == TaskSetSpec(others, max) IN
              rest \in Spec_ /\ Under(rest) = OtherTrees /\ Waiting(rest) = O
  <2> DEFINE rest == TaskSetSpec(others, max)
  <2>1. rest \in Spec_ /\ rest.kind = "taskset" /\ rest.tasks = others
    BY <1>2 DEF TaskSetSpec, Spec_, TaskSet
  <2> HIDE DEF rest
  <2>2. Pending(rest) = O
    BY <1>5, <2>1 DEF Pending
  <2>3. QED
    BY <1>5, <2>1, <2>2 DEF Under, Waiting, rest
<1> HIDE DEF h, O, D
<1>12. Smaller(ShareCont, Top.cont)
  <2> DEFINE rest == TaskSetSpec(others, First.max)
             one == OneTaskSpec(h, 0, nodes + head_budget)
             c == IF others = <<>> THEN Later ELSE Add(Later, rest, Top.As)
             b == Top.As + Len(c) - Len(Later)
  <2>1. ShareCont = Add(c, one, b)
    BY DEF ShareCont, h
  <2>2. /\ one \in Spec_ /\ Under(one) = HeadTree /\ Waiting(one) = {}
        /\ rest \in Spec_ /\ Under(rest) = OtherTrees /\ Waiting(rest) = O
    <3>1. nodes + head_budget \in Nat /\ 0 \in Nat
      BY <1>2
    <3>2. QED
      BY <1>2, <1>10, <1>11, <3>1
  <2> HIDE DEF one, rest
  <2>3. /\ c \in Cont /\ Len(c) - Len(Later) \in Nat
        /\ Todo(c) = OtherTrees \cup Todo(Later) /\ Queued(c) = O \cup Queued(Later)
    <3>1. CASE others = <<>>
      <4>1. Len(others) = 0
        BY <3>1
      <4>2. O = {}
        BY <4>1 DEF O
      <4>3. OtherTrees = {}
        BY <1>5, <4>2
      <4>4. c = Later
        BY <3>1
      <4>5. QED
        BY <1>2, <1>4, <4>2, <4>3, <4>4
    <3>2. CASE others # <<>>
      <4>1. c = Add(Later, rest, Top.As)
        BY <3>2
      <4> HIDE DEF c
      <4>2. c \in Cont /\ Len(c) = Len(Later) + 1
        BY <1>2, <2>2, <4>1, TodoAdd
      <4>3. Todo(c) = OtherTrees \cup Todo(Later) /\ Queued(c) = O \cup Queued(Later)
        BY <1>2, <2>2, <4>1, TodoAdd
      <4>4. QED
        BY <1>4, <4>2, <4>3
    <3>3. QED
      BY <3>1, <3>2
  <2> HIDE DEF c
  <2>4. b \in Nat
    BY <1>2, <1>4, <2>3
  <2> HIDE DEF b
  <2>5. Todo(ShareCont) = HeadTree \cup Todo(c) /\ Queued(ShareCont) = {} \cup Queued(c)
    BY <2>1, <2>2, <2>3, <2>4, TodoAdd
  <2>6. QED
    BY <1>9, <2>3, <2>5 DEF D
<1>13. ASSUME CanTakeMore PROVE Smaller(MoreCont, Top.cont)
  <2> DEFINE one == OneTaskSpec(h, head_budget + 1, First.max)
             rest == TaskSetSpec(others, First.max - (head_budget + 1))
             c == Add(Later, one, ShareBrk)
  <2>1. MoreCont = Add(c, rest, ShareBrk + 1)
    BY DEF MoreCont, h
  <2>2. ShareBrk \in Nat /\ ShareBrk + 1 \in Nat
    BY ShareGood
  <2>3. /\ one \in Spec_ /\ Under(one) = HeadTree /\ Waiting(one) = {}
        /\ rest \in Spec_ /\ Under(rest) = OtherTrees /\ Waiting(rest) = O
    <3>1. head_budget + 1 \in Nat /\ First.max - (head_budget + 1) \in Nat
      BY <1>2, <1>13
    <3>2. QED
      BY <1>2, <1>10, <1>11, <3>1
  <2> HIDE DEF one, rest
  <2>4. c \in Cont /\ Todo(c) = HeadTree \cup Todo(Later) /\ Queued(c) = {} \cup Queued(Later)
    <3>1. /\ c \in Cont /\ Todo(c) = Under(one) \cup Todo(Later)
          /\ Queued(c) = Waiting(one) \cup Queued(Later)
      BY <1>2, <2>2, <2>3, TodoAdd
    <3> HIDE DEF c
    <3>2. QED
      BY <2>3, <3>1
  <2> HIDE DEF c
  <2>5. Todo(MoreCont) = OtherTrees \cup Todo(c) /\ Queued(MoreCont) = O \cup Queued(c)
    BY <2>1, <2>2, <2>3, <2>4, TodoAdd
  <2>6. QED
    BY <1>9, <2>4, <2>5 DEF D
<1>14. QED
  BY <1>12, <1>13

(* The alternatives of a goal offered,                                     *)
LEMMA OffersReplaces ==
  ASSUME IInv, TaskOffers, Honest(Top)
  PROVE  saves' \in Seq(Save) /\ Replaces(saves, saves')
<1> DEFINE n == Len(Ran.tasks)
           d(i) == Add(ProxyCont, OneTaskSpec(Ran.tasks[i], 0, First.max), ProxyBrk + i - 1)
           alt(i) == [cont |-> d(i), ss |-> state', As |-> ProxyBrk + i]
           new == [i \in 1..n |-> alt(i)]
           t == First.task
<1>1. saves # <<>> /\ Running("or") /\ Popped("task")
  BY DEF TaskOffers, Running, Popped
<1>2. saves' = IF Ran.tasks = <<>> THEN Rest ELSE Kept(Rest, alt(1).cont) \o new
  BY DEF TaskOffers, Offer
<1>3. GoodStack(new, limit) /\ n \in Nat
  BY <1>1, TreesFit, AlternativesGood
<1>4. new \in Seq(Save) /\ Len(new) = n
  BY <1>3 DEF GoodStack
<1>5. Rest \in Seq(Save) /\ Replaces(saves, Rest)
  BY <1>1, RestReplaces
<1>6. ASSUME NEW i \in 1..n PROVE Smaller(new[i].cont, Top.cont)
  <2> DEFINE sp == OneTaskSpec(Ran.tasks[i], 0, First.max)
  <2>1. i \in kids(t) /\ Ran.tasks[i] = Kids(t)[i] /\ t \in Task /\ First.max \in Nat
    BY <1>1, OfferedKids, TaskWays
  <2>2. /\ Kids(t)[i] \in Task /\ t \notin Sub(Kids(t)[i]) /\ Sub(Kids(t)[i]) \subseteq Sub(t)
    BY <2>1, TaskFacts
  <2>3. sp \in Spec_ /\ sp.kind = "task" /\ sp.task = Kids(t)[i]
    BY <2>1, <2>2 DEF OneTaskSpec, Spec_, OneTask
  <2>4. new[i].cont = Add(ProxyCont, sp, ProxyBrk + i - 1)
    OBVIOUS
  <2> HIDE DEF sp
  <2>5. Under(sp) = Sub(Kids(t)[i])
    BY <2>2, <2>3, TaskHolds
  <2>6. ProxyBrk + i - 1 \in Nat
    BY <1>1, <1>3, ProxyGood
  <2> HIDE DEF new
  <2>7. QED
    BY <1>1, <2>2, <2>3, <2>4, <2>5, <2>6, RunSmaller
<1> HIDE DEF d, new
<1>7. CASE Ran.tasks = <<>>
  BY <1>2, <1>5, <1>7
<1>8. CASE Ran.tasks # <<>>
  <2> DEFINE kept == Kept(Rest, alt(1).cont)
  <2>1. kept \in Seq(Save) /\ Replaces(saves, kept)
    BY <1>5, KeptReplaces
  <2>2. saves' = kept \o new
    BY <1>2, <1>8
  <2> HIDE DEF kept, alt, n
  <2>3. kept \o new \in Seq(Save) /\ Replaces(saves, kept \o new)
    BY <1>4, <1>6, <2>1, MoreReplaces
  <2>4. QED
    BY <2>2, <2>3
<1>9. QED
  BY <1>7, <1>8

(* The subgoals of a clause asked for,                                     *)
LEMMA AsksReplaces ==
  ASSUME IInv, TaskAsks, Honest(Top)
  PROVE  saves' \in Seq(Save) /\ Replaces(saves, saves')
<1> DEFINE t == First.task
           ks == Kids(t)
           sp == TaskSetSpec(Reverse(Ran.tasks), First.max)
           c == Add(ProxyCont, sp, ProxyBrk)
<1>1. /\ saves # <<>> /\ Running("and") /\ Popped("task")
      /\ saves' = Saved(Rest, c, state', ProxyBrk + 1)
  BY DEF TaskAsks, Running, Popped
<1>2. Ran.tasks = ks /\ t \in Task
  BY <1>1, RanTree, TaskWays
<1>3. ProxyCont \in Cont /\ ProxyBrk \in Nat /\ ProxyBrk + 1 \in Nat /\ sp \in Spec_ /\ state' \in State
  BY <1>1, TreesFit, ProxyGood, AskedSpec, RanGood
<1>4. /\ ks \in Seq(Task) /\ Len(ks) \in Nat /\ kids(t) = 1..Len(ks)
      /\ \A i \in kids(t) : t \notin Sub(ks[i]) /\ Sub(ks[i]) \subseteq Sub(t)
  BY <1>2, TaskFacts DEF kids
<1>5. sp.kind = "taskset" /\ sp.tasks = Reverse(ks)
  BY <1>2 DEF TaskSetSpec
<1> HIDE DEF ks, sp, c
<1>6. \A i \in 1..Len(sp.tasks) : \E k \in kids(t) : sp.tasks[i] = ks[k]
  <2>1. Reverse(ks) = [i \in 1..Len(ks) |-> ks[Len(ks) - i + 1]]
    BY DEF Reverse
  <2>2. Len(sp.tasks) = Len(ks)
    <3>1. sp.tasks \in Seq(Task)
      BY <1>3, <1>5, SpecKinds
    <3>2. DOMAIN sp.tasks = 1..Len(ks)
      BY <1>5, <2>1
    <3>3. QED
      BY <1>4, <3>1, <3>2
  <2>3. \A i \in 1..Len(ks) : Len(ks) - i + 1 \in 1..Len(ks)
    BY <1>4
  <2>4. QED
    BY <1>4, <1>5, <2>1, <2>2, <2>3
<1>7. Under(sp) \subseteq Sub(t) /\ t \notin Under(sp)
  <2>1. ASSUME NEW s \in Pending(sp) PROVE t \notin Sub(s) /\ Sub(s) \subseteq Sub(t)
    <3>1. \E i \in 1..Len(sp.tasks) : s = sp.tasks[i]
      BY <1>5 DEF Pending
    <3>2. QED
      BY <1>4, <1>6, <3>1
  <2>2. QED
    BY <2>1 DEF Under
<1>8. c \in Cont /\ Smaller(c, Top.cont)
  BY <1>1, <1>3, <1>7, RunSmaller DEF c
<1>9. QED
  BY <1>1, <1>3, <1>8, RestReplaces, SavedReplaces

(* the budget divided,                                                    *)
LEMMA SplitsReplaces ==
  ASSUME IInv, SetSplits, Honest(Top)
  PROVE  saves' \in Seq(Save) /\ Replaces(saves, saves')
<1> DEFINE share == Saved(Rest, ShareCont, Top.ss, ShareBrk)
           more == Saved(share, MoreCont, Top.ss, ShareBrk + 2)
<1>1. /\ saves # <<>> /\ Popped("taskset") /\ First.tasks # <<>>
      /\ saves' = IF CanTakeMore THEN more ELSE share
  BY DEF SetSplits, Popped
<1>2. ShareCont \in Cont /\ ShareBrk \in Nat /\ ShareBrk + 2 \in Nat /\ Top.ss \in State
  BY <1>1, ShareGood, TopGood
<1>3. share \in Seq(Save) /\ Replaces(saves, share)
  BY <1>1, <1>2, RestReplaces, SplitSmaller, SavedReplaces
<1> HIDE DEF share
<1>4. ASSUME CanTakeMore PROVE more \in Seq(Save) /\ Replaces(saves, more)
  <2>1. MoreCont \in Cont /\ Smaller(MoreCont, Top.cont)
    BY <1>1, <1>4, MoreGood, SplitSmaller
  <2>2. QED
    BY <1>2, <1>3, <2>1, SavedReplaces
<1>5. QED
  BY <1>1, <1>3, <1>4

(* and every step of step().                                               *)
LEMMA StepReplaces ==
  ASSUME IInv, TreeInv, Next PROVE saves' \in Seq(Save) /\ Replaces(saves, saves')
<1>1. saves # <<>>
  BY DEF Next, Succeed, CheckMinFails, CheckMinHolds, TaskTooBig, TaskFails, TaskOffers,
         TaskAsks, SetDone, SetSplits, Running, Popped
<1>2. Honest(Top)
  BY <1>1, ClaimsPop DEF TreeInv
<1>3. Rest \in Seq(Save) /\ Replaces(saves, Rest)
  BY <1>1, RestReplaces
<1>4. CASE Succeed \/ CheckMinFails \/ TaskTooBig \/ TaskFails
  <2>1. saves' = Rest
    BY <1>4 DEF Succeed, CheckMinFails, TaskTooBig, TaskFails, Leave
  <2>2. QED
    BY <1>3, <2>1
<1>5. CASE CheckMinHolds \/ SetDone
  <2>1. Top.cont # <<>> /\ saves' = Saved(Rest, Later, Top.ss, Top.As)
    BY <1>5 DEF CheckMinHolds, SetDone, Popped, Leave
  <2>2. Later \in Cont /\ Top.ss \in State /\ Top.As \in Nat
    BY <1>1, <2>1, TopGood, FirstGood
  <2>3. QED
    BY <1>1, <1>3, <2>1, <2>2, LaterSmaller, SavedReplaces
<1>6. QED
  BY <1>2, <1>4, <1>5, OffersReplaces, AsksReplaces, SplitsReplaces DEF Next

(* One step, as a pair of stacks.                                          *)
Descends == <<saves', saves>> \in Descent

(***************************************************************************)
(* Every step of a search on AND-OR trees is part of a descent of which    *)
(* there is no endless one: step() cannot be called for ever.              *)
(***************************************************************************)
THEOREM EveryStepDescends == TreeSpec => [][Descends]_vars
<1>1. IInv /\ TreeInv /\ [TreeNext]_treeVars => [Descends]_vars
  <2> SUFFICES ASSUME IInv, TreeInv, [TreeNext]_treeVars, ~ UNCHANGED vars
               PROVE  Descends
    OBVIOUS
  <2>1. Next
    BY DEF TreeNext, treeVars
  <2>2. saves \in Seq(Save)
    BY DEF IInv, TypeOK
  <2>3. QED
    BY <2>1, <2>2, StepReplaces DEF Descends, Descent
<1>2. QED
  BY <1>1, AlwaysTreeInv, PTL DEF TreeSpec
=============================================================================
