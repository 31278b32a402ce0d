------------------------------ MODULE MCProver ------------------------------
(***************************************************************************)
(* The prover on all small propositional problems over two predicates, on  *)
(* problems that take variables or two instances of one clause, and on     *)
(* problems with equality, which is transformed or rewritten with.         *)
(***************************************************************************)
EXTENDS Prover

MCFunIds == <<"a", "b", "f">>
MCPredIds == <<"p", "q", "r", "s">>
MCFunSize == [h \in {} |-> 0]

P(sign) == Atom(sign, "p", <<>>)
Q(sign) == Atom(sign, "q", <<>>)

Propositional == <<
  <<P(TRUE)>>, <<P(FALSE)>>, <<Q(TRUE)>>, <<Q(FALSE)>>,
  <<P(TRUE), Q(TRUE)>>, <<P(TRUE), Q(FALSE)>>, <<P(FALSE), Q(TRUE)>>, <<P(FALSE), Q(FALSE)>> >>

(* All choices of some of them.                                            *)
Subproblems(clauses) ==
  LET chosen(i) == SelectSeq([k \in DOMAIN clauses |-> k], LAMBDA k : (i \div 2 ^ (k - 1)) % 2 = 1)
  IN [i \in 1 .. 2 ^ Len(clauses) - 1 |-> [j \in DOMAIN chosen(i) |-> clauses[chosen(i)[j]]]]

a == Const("a")
b == Const("b")
f(t) == Fun("f", <<t>>)
R(sign, s, t) == Atom(sign, "r", <<s, t>>)
S(sign, t) == Atom(sign, "s", <<t>>)
Ne(s, t) == Eq(FALSE, s, t)

FirstOrder == <<
  \* one clause for two goals
  <<<<S(TRUE, a), S(TRUE, b)>>, <<S(FALSE, x)>>>>,
  \* not valid: the two atoms share a variable
  <<<<S(TRUE, x), R(TRUE, x, x)>>, <<S(FALSE, a)>>, <<R(FALSE, b, b)>>>>,
  \* valid: they do not
  <<<<S(TRUE, x), R(TRUE, y, y)>>, <<S(FALSE, a)>>, <<R(FALSE, b, b)>>>>,
  \* variables bound to variables
  <<<<R(TRUE, x, y), R(TRUE, y, x)>>, <<R(FALSE, x, y)>>>>,
  <<<<R(TRUE, x, y), R(TRUE, y, x)>>, <<R(FALSE, x, x)>>>>,
  <<<<R(TRUE, x, y), S(TRUE, y)>>, <<R(FALSE, x, y), S(TRUE, x)>>, <<S(FALSE, x)>>>>,
  \* symmetry: not valid without a second fact
  <<<<R(TRUE, x, y), R(FALSE, y, x)>>, <<R(FALSE, a, b)>>, <<R(TRUE, b, a)>>>>,
  \* a path that does not close the branch, and one that does
  <<<<S(TRUE, a)>>, <<S(FALSE, a), R(TRUE, a, b)>>, <<R(FALSE, a, b), S(FALSE, b)>>>>,
  <<<<S(TRUE, a)>>, <<S(FALSE, a), R(TRUE, a, b)>>, <<R(FALSE, a, b), S(FALSE, x)>>>>,
  \* a term that would have to contain itself
  <<<<R(TRUE, x, f(x))>>, <<R(FALSE, y, y)>>>>,
  <<<<R(TRUE, x, f(x))>>, <<R(FALSE, y, z)>>>> >>

WithEquality == <<
  <<<<S(TRUE, a)>>, <<S(FALSE, b)>>, <<Ne(a, b)>>>>,
  <<<<S(TRUE, b)>>, <<S(FALSE, a)>>, <<Ne(a, b)>>>>,
  <<<<S(TRUE, f(a))>>, <<S(FALSE, b)>>, <<Ne(f(x), b)>>>>,
  <<<<S(TRUE, f(a))>>, <<S(FALSE, f(b))>>, <<Ne(b, a)>>>>,
  <<<<S(TRUE, f(b))>>, <<S(FALSE, f(a))>>, <<Ne(a, b)>>>>,
  \* not valid: the equation is to be shown
  <<<<S(TRUE, a)>>, <<S(FALSE, b)>>, <<Is(a, b)>>>>,
  \* an equation of the branch, used on its goal
  <<<<S(TRUE, b), P(TRUE)>>, <<P(FALSE), Ne(b, a)>>, <<S(FALSE, a)>>>>,
  \* an equation of the branch, used on a clause; a variable that is rewritten
  <<<<P(TRUE)>>, <<P(FALSE), Ne(b, a)>>, <<S(TRUE, a)>>, <<S(FALSE, b)>>>>,
  <<<<S(TRUE, b)>>, <<S(FALSE, a)>>, <<Ne(x, a)>>>>,
  <<<<Is(f(b), a)>>, <<Ne(f(a), a)>>, <<Ne(b, a)>>>>,
  <<<<Is(f(b), b), Is(a, b)>>, <<Ne(f(x), x)>>, <<Ne(b, a)>>>> >>

Runs(forms, trans, method, n) ==
  Map(forms, LAMBDA form : [form |-> Map(form, Parsed), trans |-> trans, method |-> method, max_cost |-> n])

SmallProblems ==
  Runs(Subproblems(Propositional), "SKIP", "CONNECTION_TABLEAU", 4)
  \o Runs(SelectSeq(Subproblems(Propositional), LAMBDA form : Len(form) < 5),
          "SKIP", "LAZY_PARAMODULATION", 4)
  \o Runs(FirstOrder, "SKIP", "CONNECTION_TABLEAU", 6)
  \o Runs(FirstOrder, "SKIP", "LAZY_PARAMODULATION", 6)
  \o Runs(WithEquality, "AXIOMATIC_EQ", "CONNECTION_TABLEAU", 5)
  \o Runs(WithEquality, "AXIOMATIC_EQ_FLAT", "CONNECTION_TABLEAU", 5)
  \o Runs(WithEquality, "AXIOMATIC_EQ_RESTRICTED_TRANS", "CONNECTION_TABLEAU", 4)
  \o Runs(WithEquality, "LP_MODIFICATION", "CONNECTION_TABLEAU", 5)
  \o Runs(WithEquality, "SKIP", "LAZY_PARAMODULATION", 6)

(* Two variables that lpmod takes to be the same one.                      *)
VariablesEquated ==
  Runs(<<<<<<Is(x, y), P(TRUE)>>, <<P(FALSE)>>>>>>, "LP_MODIFICATION", "CONNECTION_TABLEAU", 2)

(* TLC evaluates a definition once, but not the one that stands for a      *)
(* constant.                                                               *)
MCProblems == SmallProblems
MCVariablesEquated == VariablesEquated
MCLimits == 1..MaxLimit
-----------------------------------------------------------------------------
(***************************************************************************)
(* Without cut, a search that ends without a proof has missed none: if the *)
(* limit allows for every proof of a propositional problem, it is not      *)
(* valid.                                                                  *)
(***************************************************************************)
IsPropositional(form) == \A dc \in Range(form) : \A at \in Range(dc.derived) : at.args = <<>>
IsValid(form) ==
  \A true_ \in SUBSET {"p", "q"} :
    \E dc \in Range(form) : \A at \in Range(dc.derived) : at.sign = (at.pred \in true_)

NothingMissed ==
  LET form == Problems[problem].form
  IN phase = "search" /\ saves = <<>> /\ ~ cut /\ limit = ProblemCost(problem) /\ IsPropositional(form)
       => ~ IsValid(form)
=============================================================================
