----------------------------- MODULE MCBalanced -----------------------------
(***************************************************************************)
(* AndOrTrees on every tree of a family.  A task is a frame that knows its *)
(* address in the tree; the constraints are bindings of one variable.      *)
(***************************************************************************)
EXTENDS AndOrTrees

Free == {}
Clause(cost, bind, goals) == [cost |-> cost, bind |-> bind, goals |-> goals]
Fact(cost, bind) == Clause(cost, bind, <<>>)

Weak(addr, clauses) == [frame |-> "weak", addr |-> addr, clauses |-> clauses]
Strong(addr, clause) == [frame |-> "strong", addr |-> addr, clause |-> clause]

MCKids(t) ==
  IF t.frame = "weak"
  THEN [i \in 1..Len(t.clauses) |-> Strong(Append(t.addr, i), t.clauses[i])]
  ELSE [i \in 1..Len(t.clause.goals) |-> Weak(Append(t.addr, i), t.clause.goals[i])]
MCIsGoal(t) == t.frame = "weak"
MCCost(t) == IF MCIsGoal(t) THEN 0 ELSE t.clause.cost
MCAsks(t) == IF MCIsGoal(t) THEN {} ELSE t.clause.bind

MCConstraint == {1, 2}
MCSolvable(C) == Cardinality(C) <= 1

WeakRun(t, n, v, m) ==
  LET fit == {c \in Range(MCKids(t)) : n + MCCost(c) <= m}
  IN [kind |-> "or", nodes |-> 0, val |-> v, tasks |-> SubSeq(MCKids(t), 1, Cardinality(fit))]

StrongRun(t, n, v) ==
  LET solved == MCSolvable(v \cup MCAsks(t))
  IN [kind |-> IF solved THEN "and" ELSE "fail",
      nodes |-> MCCost(t),
      val |-> IF solved THEN v \cup MCAsks(t) ELSE v,
      tasks |-> IF solved THEN MCKids(t) ELSE <<>>]

MCRun(t, n, v, m) == IF MCIsGoal(t) THEN WeakRun(t, n, v, m) ELSE StrongRun(t, n, v)
MCNeed(t) == MCCost(t)
-----------------------------------------------------------------------------
(* Trees: the goals of the single starting clause, which costs a node.     *)
Tree(goals) == Weak(<<>>, <<Clause(1, Free, goals)>>)

Pairs(S) == {<<a, b>> : a, b \in S}
SortedPairs(S) == {p \in Pairs(S) : p[1].cost <= p[2].cost}

\* two goals, two ways each
Flat2 ==
  LET facts == {Fact(0, {1}), Fact(0, Free), Fact(1, Free), Fact(1, {2}), Fact(2, {1}), Fact(2, Free)}
      goals == SortedPairs(facts)
  IN {Tree(<<g, h>>) : g, h \in goals}

\* three goals: the task set is split twice
Flat3 ==
  LET goals == {<<Fact(0, {1}), Fact(2, {2})>>, <<Fact(1, {2}), Fact(1, Free)>>,
                <<Fact(1, {1}), Fact(3, Free)>>}
  IN {Tree(<<g, h, k>>) : g, h, k \in goals}

\* goals below goals
Deep ==
  LET a == <<Fact(0, {1}), Fact(1, {2})>>
      b == <<Fact(1, {1}), Clause(1, Free, <<a>>)>>
      c == <<Fact(0, Free), Clause(1, {2}, <<a, b>>)>>
  IN {Tree(<<c, b>>), Tree(<<b, c>>), Tree(<<c, c>>), Tree(<<a, b, c>>)}

\* a goal nothing closes, no goal at all, and too dear a tree
Edge == {Tree(<<>>), Tree(<< <<>> >>), Tree(<< <<Fact(3, Free)>>, <<>> >>),
         Tree(<< <<Fact(3, Free)>>, <<Fact(3, Free)>> >>)}

MCStarts == Flat2 \cup Flat3 \cup Deep \cup Edge

MCVal == SUBSET MCConstraint
MCStartVals == {{}}

RECURSIVE MCSub(_)
MCSub(t) == {t} \cup UNION {MCSub(s) : s \in Range(MCKids(t))}

MCTask == UNION {MCSub(t) : t \in MCStarts}

RECURSIVE MCClosings(_)
MCClosings(t) ==
  IF MCIsGoal(t) THEN UNION {MCClosings(s) : s \in Range(MCKids(t))}
  ELSE LET goals == MCKids(t)
           below == [i \in DOMAIN goals |-> MCClosings(goals[i])]
           choices == {f \in [DOMAIN goals -> UNION Range(below)] :
                         \A i \in DOMAIN goals : f[i] \in below[i]}
       IN {{t} \cup UNION Range(f) : f \in choices}
=============================================================================
