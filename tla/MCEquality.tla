---------------------------- MODULE MCEquality -----------------------------
(***************************************************************************)
(* The transformations of Equality on small problems: what becomes of a    *)
(* problem has the same meaning, and each clause of it can account for     *)
(* itself to "tool validate".                                              *)
(***************************************************************************)
EXTENDS Equality

VARIABLES
  problem,  \* the problem that was read
  trans,    \* the option --trans
  out       \* what the prover works on; Nothing before apply_trans()

vars == <<problem, trans, out>>

a == Const("a")
b == Const("b")
c == Const("c")
f(t) == Fun("f", <<t>>)
P(sign, t) == Atom(sign, "p", <<t>>)
Ne(s, t) == Eq(FALSE, s, t)
Is(s, t) == Eq(TRUE, s, t)

Input == {
  <<Ne(b, a)>>, <<Is(a, b)>>, <<P(TRUE, a)>>, <<P(FALSE, f(b))>>,
  <<Ne(f(x), x)>>, <<Is(f(x), a), P(TRUE, x)>>, <<Is(x, f(f(x)))>>, <<Ne(f(f(x)), a)>>,
  <<Ne(x, y), P(FALSE, y)>>, <<Is(x, y), P(FALSE, x)>>, <<Ne(b, x), Is(x, y)>>, <<P(FALSE, x)>>,
  <<Ne(b, c)>>, <<Is(a, c)>>, <<Is(f(x), f(y)), Ne(x, y)>> }

MCProblems ==
  {[i \in DOMAIN s |-> Source(1, s[i])] : s \in {SetToSeq(S) : S \in UNION {kSubset(k, Input) : k \in 1..3}}}

MCFunIds == <<"a", "b", "c", "f">>
MCPredIds == <<"p">>
MCFunSize == [h \in {} |-> 0]

Init == problem \in MCProblems /\ trans \in Transformations /\ out = Nothing

Apply ==
  /\ out = Nothing
  /\ out' = ApplyTrans(trans, problem)
  /\ UNCHANGED <<problem, trans>>

Next == Apply
Spec == Init /\ [][Next]_vars
-----------------------------------------------------------------------------
(* What has to be false at the same time: a set of sets of literals.       *)
Opposite(l) == <<~ l[1], l[2], l[3]>>
MadeFalse(ls, form) ==
  {e \ {Opposite(l) : l \in ls} : e \in {d \in form : d \cap ls = {}}}

RECURSIVE CanBeFalse(_)
CanBeFalse(form) ==
  LET units == UNION {d \in form : Cardinality(d) = 1}
      l == CHOOSE l \in CHOOSE d \in form : TRUE : TRUE
  IN \/ form = {}
     \/ /\ {} \notin form
        /\ IF units # {}
           THEN (\A u \in units : Opposite(u) \notin units) /\ CanBeFalse(MadeFalse(units, form))
           ELSE CanBeFalse(MadeFalse({l}, form)) \/ CanBeFalse(MadeFalse({Opposite(l)}, form))

LiteralsOf(cla) == {<<at.sign, at.pred, at.args>> : at \in Range(cla)}
-----------------------------------------------------------------------------
(* Models of up to three elements, of up to two if there is f: a table for *)
(* every function.                                                         *)
HasF(form) == \E u \in Range(FunArity(form)) : u[1] = "f"
Sizes(form) == IF HasF(form) THEN 1..2 ELSE 1..3

Constants(n) == [[1..0 -> 1..n] -> 1..n]
Tables(form, n) ==
  [a : [[1..0 -> 1..n] -> {1}], b : Constants(n), c : Constants(n),
   f : IF HasF(form) THEN [[1..1 -> 1..n] -> 1..n] ELSE {<<>>}]

RECURSIVE Value(_, _, _)
Value(I, s, t) == IF IsVar(t) THEN s[t.id] ELSE I[t.id][[i \in DOMAIN t.args |-> Value(I, s, t.args[i])]]

Instances(I, n, form) ==
  UNION {{{<<at.sign, at.pred, [i \in DOMAIN at.args |-> Value(I, s, at.args[i])]>> : at \in Range(dc.derived)} :
             s \in [1..dc.vars -> 1..n]} : dc \in Range(form)}

(* The instances, when = is what it says.                                  *)
Identity(form) ==
  LET holds(l) == l[2] = EQ /\ (l[1] <=> l[3][1] = l[3][2])
      fails(l) == l[2] = EQ /\ (l[1] <=> l[3][1] # l[3][2])
  IN {{l \in e : ~ holds(l)} : e \in {d \in form : ~ \E l \in d : fails(l)}}

CounterModel(form) ==
  \E n \in Sizes(form) : \E I \in Tables(form, n) : CanBeFalse(Instances(I, n, form))
CounterModelOfEquality(form) ==
  \E n \in Sizes(form) : \E I \in Tables(form, n) : CanBeFalse(Identity(Instances(I, n, form)))
NotValid == {form \in MCProblems : CounterModelOfEquality(form)}

(***************************************************************************)
(* A problem that is not valid, = being equality, is not valid afterwards, *)
(* and the other way round, = being a predicate like any other: no axiom   *)
(* is missing and none is too strong.                                      *)
(***************************************************************************)
KeepsValidity ==
  out # Nothing /\ trans # "SKIP" => (problem \in NotValid <=> CounterModel(out))
-----------------------------------------------------------------------------
(* The equation an atom stands for: the predicates of the restricted       *)
(* transitivity and of lpmod are equality itself, and a T is defined by    *)
(* the first clause it is positive in.                                     *)
Definition(p) ==
  out[CHOOSE i \in DOMAIN out :
        LET at(j) == out[j].derived[1] IN /\ at(i).pred = p /\ at(i).sign
                                          /\ \A j \in 1 .. i - 1 : at(j).pred # p \/ ~ at(j).sign].derived

Equation(at) ==
  LET d == Definition(at.pred)
      map == [i \in ClauseVars(d) |->
                IF \E k \in DOMAIN at.args : d[1].args[k] = Var(i)
                THEN at.args[CHOOSE k \in DOMAIN at.args : d[1].args[k] = Var(i)] ELSE Var(i)]
  IN <<Subst(d[2].args[1], map), Subst(IF Len(d) = 2 THEN d[2].args[2] ELSE d[3].args[1], map)>>

Read(at) ==
  CASE at.pred \in {"p", EQ} -> at
    [] at.pred \in {EQ_TRANS_POS, EQ_TRANS_NEG, EQ_SYMM} -> [at EXCEPT !.pred = EQ]
    [] OTHER -> Eq(at.sign, Equation(at)[1], Equation(at)[2])

(* lpmod takes x = y out of a clause and does not say that it uses x = x.  *)
Equates ==
  trans = "LP_MODIFICATION" /\ \E d \in Range(problem) : \E at \in Range(d.derived) :
    at.sign /\ at.pred = EQ /\ IsVar(at.args[1]) /\ IsVar(at.args[2])

Follows(dc) ==
  ~ CanBeFalse({LiteralsOf(s) : s \in Range(dc.sources)}
                 \cup {{Opposite(l)} : l \in LiteralsOf([k \in DOMAIN dc.derived |-> Read(dc.derived[k])])}
                 \cup {{<<FALSE, EQ, <<Var(i), Var(i)>>>>} : i \in {j \in 1..dc.vars : Equates}})

(* Two ways to ground a clause: with a constant for each variable, and     *)
(* with the same one for all.                                              *)
Grounded(cla) ==
  {GroundClause([i \in 1 .. Max({0} \cup ClauseVars(cla)) |-> Const(name[i])], cla) :
     name \in {<<"c1", "c2", "c3", "c4", "c5", "c6", "c7", "c8">>, [i \in 1..8 |-> "c1"]}}

(***************************************************************************)
(* Every clause the prover may use follows from its sources by             *)
(* propositional reasoning, its atoms read as equations, and every source  *)
(* is an axiom of equality or an instance of the problem in the eyes of    *)
(* the validator.  (But for what is left out above.)                       *)
(***************************************************************************)
Justified ==
  out # Nothing /\ trans # "SKIP" => \A dc \in Range(out) :
    /\ Follows(dc)
    /\ \A s \in Range(dc.sources) : Classified(Grounded(s), {d.derived : d \in Range(problem)})
-----------------------------------------------------------------------------
(* What the validator is asked: ground sources, with and without one.      *)
Questions ==
  UNION {LET g == {GroundClause(Unset(dc.vars), s) : s \in Range(dc.sources)}
             given == {GroundClause(Unset(dc.vars), <<Neg(dc.derived[k])>>) : k \in DOMAIN dc.derived}
         IN {(g \cup given) \ {d} : d \in g} : dc \in Range(out)}

(***************************************************************************)
(* "tool validate" accepts ground clauses just when one of them is true    *)
(* under every interpretation of the atoms.                                *)
(***************************************************************************)
ValidatorExact ==
  out # Nothing => \A q \in Questions : CounterExample(q) <=> CanBeFalse({LiteralsOf(d) : d \in q})
=============================================================================
