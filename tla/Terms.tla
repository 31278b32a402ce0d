------------------------------- MODULE Terms -------------------------------
(***************************************************************************)
(* Terms, atoms and clauses (lazyparam_prover/syntax), the valuation and   *)
(* its unification (mgu.h), the orderings LPO and KBO over an order on the *)
(* functions (lpo.h, kbo.h, fun_ord.h), and the constraints on the order   *)
(* of terms (constraint.h, constrained_valuation.h).                       *)
(*                                                                         *)
(* What memory does for these - a term is a pointer and an offset that is  *)
(* added to its variables when they are looked at - is left out: shifting  *)
(* a term yields the shifted term.                                         *)
(***************************************************************************)
EXTENDS Integers, Sequences, SequencesExt, FiniteSets

CONSTANTS
  Nothing,   \* no value: of a variable, or of what failed
  FunIds,    \* the functions by id, a sequence of names
  FunSize    \* the sizes of solutions.FunOrd, for the functions it names
-----------------------------------------------------------------------------
(* The f(s[i]) one after the other.  They are put after <<>> for TLC, which *)
(* would otherwise keep the function and compute its values again and again.*)
Map(s, f(_)) == <<>> \o [i \in DOMAIN s |-> f(s[i])]

Var(i) == [kind |-> "var", id |-> i]
Fun(f, args) == [kind |-> "fun", id |-> f, args |-> args]
Const(f) == Fun(f, <<>>)
EXTRA_CONST == Const("extra")

IsVar(t) == t.kind = "var"
IsFun(t) == t.kind = "fun"

EQ == "="
Atom(sign, pred, args) == [sign |-> sign, pred |-> pred, args |-> args, strong_only |-> FALSE]
StrongOnly(a) == [a EXCEPT !.strong_only = TRUE]
Eq(sign, l, r) == Atom(sign, EQ, <<l, r>>)
Neg(a) == [a EXCEPT !.sign = ~ @]

(* A substitution f is a function from variables to terms.                 *)
RECURSIVE Subst(_, _)
Subst(t, f) ==
  IF IsVar(t) THEN f[t.id] ELSE Fun(t.id, Map(t.args, LAMBDA s : Subst(s, f)))

SubstAll(ts, f) == Map(ts, LAMBDA t : Subst(t, f))
SubstAtom(a, f) == [a EXCEPT !.args = SubstAll(@, f)]
SubstClause(cla, f) == Map(cla, LAMBDA a : SubstAtom(a, f))

RECURSIVE VarsOf(_)
VarsOf(t) == IF IsVar(t) THEN {t.id} ELSE UNION {VarsOf(t.args[i]) : i \in DOMAIN t.args}

AtomVars(a) == UNION {VarsOf(a.args[i]) : i \in DOMAIN a.args}
ClauseVars(cla) == UNION {AtomVars(cla[k]) : k \in DOMAIN cla}
-----------------------------------------------------------------------------
(* A valuation: a sequence, by variable, of terms or Nothing.              *)
RECURSIVE ShallowEval(_, _)
ShallowEval(val, t) ==
  IF IsVar(t) /\ val[t.id] # Nothing THEN ShallowEval(val, val[t.id]) ELSE t

RECURSIVE Eval(_, _)
Eval(val, t) ==
  IF IsFun(t) THEN Fun(t.id, Map(t.args, LAMBDA s : Eval(val, s)))
  ELSE IF val[t.id] = Nothing THEN t ELSE Eval(val, val[t.id])

EvalAtom(val, a) == [a EXCEPT !.args = Map(@, LAMBDA t : Eval(val, t))]
EvalClause(val, cla) == Map(cla, LAMBDA a : EvalAtom(val, a))

HasVar(val, t, v) == v \in VarsOf(Eval(val, t))
Equal(val, s, t) == Eval(val, s) = Eval(val, t)
EqualModSign(val, a, b) ==
  a.pred = b.pred /\ \A i \in DOMAIN a.args : Equal(val, a.args[i], b.args[i])

BadAssign(val, v, t) ==
  LET s == ShallowEval(val, t)
  IN IF IsFun(s) /\ HasVar(val, s, v) THEN Nothing ELSE [val EXCEPT ![v] = s]

(* A trivial assignment is not made, one that would be circular fails.     *)
Assign(val, v, t) ==
  LET s == ShallowEval(val, t)
  IN IF s = Var(v) THEN val
     ELSE IF IsFun(s) /\ HasVar(val, s, v) THEN Nothing
     ELSE [val EXCEPT ![v] = s]

RECURSIVE MguTerms(_, _, _)

Mgu(val, s, t) ==
  LET x == ShallowEval(val, s)
      y == IF IsFun(x) THEN ShallowEval(val, t) ELSE t
  IN IF IsVar(x) THEN Assign(val, x.id, y)
     ELSE IF IsVar(y) THEN Assign(val, y.id, x)
     ELSE IF x.id = y.id THEN MguTerms(val, x.args, y.args) ELSE Nothing

MguTerms(val, ss, ts) ==
  IF ss = <<>> THEN val
  ELSE LET v == Mgu(val, Head(ss), Head(ts))
       IN IF v = Nothing THEN Nothing ELSE MguTerms(v, Tail(ss), Tail(ts))

(* The sign is ignored, the last argument comes first.                     *)
MguAtoms(val, a, b) ==
  IF a.pred = b.pred THEN MguTerms(val, Reverse(a.args), Reverse(b.args)) ELSE Nothing
-----------------------------------------------------------------------------
(* FunOrd::less: a function without a size is greater than those with one. *)
FunLess(f, g) ==
  LET sized(h) == h \in DOMAIN FunSize
      id(h) == CHOOSE i \in DOMAIN FunIds : FunIds[i] = h
      equal == IF sized(f) /\ sized(g) THEN FunSize[f] = FunSize[g] ELSE sized(f) = sized(g)
  IN IF equal THEN id(f) < id(g)
     ELSE sized(f) /\ (sized(g) => FunSize[f] < FunSize[g])

(* OrderAtom::Relation is a set of flags.                                  *)
L == {"L"}
G == {"G"}
E == {"E"}
LE == L \cup E
NE == L \cup G
U == L \cup G \cup E

FirstDiff(a, b) ==
  CHOOSE i \in DOMAIN a.args : a.args[i] # b.args[i] /\ \A j \in 1 .. i - 1 : a.args[j] = b.args[j]

RECURSIVE LpoLess(_, _)
BadLpoLess(a, b) ==
  /\ IsFun(b) /\ a # b
  /\ IF IsVar(a) THEN a.id \in VarsOf(b)
     ELSE LET same == a.id = b.id
              k == IF same THEN FirstDiff(a, b) ELSE 0
          IN IF IF same THEN LpoLess(a.args[k], b.args[k]) ELSE FunLess(a.id, b.id)
             THEN TRUE
             ELSE \E i \in k + 1 .. Len(b.args) : a = b.args[i] \/ LpoLess(a, b.args[i])

(* LPO::Ctx::less, of terms that have been evaluated: the first arguments  *)
(* that differ, or the functions, decide which side the rest is looked at. *)
LpoLess(a, b) ==
  /\ IsFun(b) /\ a # b
  /\ IF IsVar(a) THEN a.id \in VarsOf(b)
     ELSE LET same == a.id = b.id
              k == IF same THEN FirstDiff(a, b) ELSE 0
          IN IF IF same THEN LpoLess(a.args[k], b.args[k]) ELSE FunLess(a.id, b.id)
             THEN \A i \in k + 1 .. Len(a.args) : LpoLess(a.args[i], b)
             ELSE \E i \in k + 1 .. Len(b.args) : a = b.args[i] \/ LpoLess(a, b.args[i])

Lpo(l, r) == IF l = r THEN E ELSE IF LpoLess(l, r) THEN L ELSE IF LpoLess(r, l) THEN G ELSE U

RECURSIVE Weight(_), Occ(_, _)
Weight(t) ==
  IF IsVar(t) THEN 1 ELSE FoldSeq(LAMBDA s, n : Weight(s) + n, 1, t.args)
Occ(t, v) ==
  IF IsVar(t) THEN IF t.id = v THEN 1 ELSE 0
  ELSE FoldSeq(LAMBDA s, n : Occ(s, v) + n, 0, t.args)

(* KBO::Ctx::cmp_accum: pos and neg say whether a variable occurs more     *)
(* often on the left, on the right.                                        *)
DecideKbo(pos, neg, weight, lex) ==
  IF pos /\ neg THEN U
  ELSE IF pos THEN IF weight > 0 \/ (weight = 0 /\ lex = G) THEN G ELSE U
  ELSE IF neg THEN IF weight < 0 \/ (weight = 0 /\ lex = L) THEN L ELSE U
  ELSE IF weight < 0 THEN L ELSE IF weight > 0 THEN G ELSE lex

RECURSIVE Kbo(_, _)
Kbo(l, r) ==
  LET lex == IF IsVar(l) \/ IsVar(r) THEN U
             ELSE IF l.id # r.id THEN IF FunLess(l.id, r.id) THEN L ELSE G
             ELSE LET k == FirstDiff(l, r) IN Kbo(l.args[k], r.args[k])
      vs == VarsOf(l) \cup VarsOf(r)
  IN IF l = r THEN E
     ELSE DecideKbo(\E v \in vs : Occ(l, v) > Occ(r, v), \E v \in vs : Occ(l, v) < Occ(r, v),
                    Weight(l) - Weight(r), lex)

(* The parameter of ConstrainedValuation, "LPO" or "KBO".                  *)
Cmp(ord, val, l, r) ==
  IF ord = "LPO" THEN Lpo(Eval(val, l), Eval(val, r)) ELSE Kbo(Eval(val, l), Eval(val, r))
-----------------------------------------------------------------------------
(* OrderAtom: two sequences of terms that compare, as words, in one of the *)
(* ways of rel.                                                            *)
OrderAtom(rel, l, r) == [rel |-> rel, pairs |-> <<<<l, r>>>>]
Neq(a, b) == [rel |-> NE, pairs |-> <<>> \o Zip(a.args, b.args)]

(* What a pair says of the words: nothing more is known of a later pair.   *)
Decide(rel, last) == IF "E" \in rel /\ ~ last THEN U ELSE rel

BadFirstOpen(rel, n) ==
  CHOOSE p \in 1..n : (p = n \/ rel[p] \in {L, G}) /\ \A q \in 1 .. p - 1 : rel[q] \notin {L, G}
FirstOpen(rel, n) == CHOOSE p \in 1..n : (p = n \/ rel[p] # E) /\ \A q \in 1 .. p - 1 : rel[q] = E

(* OrderAtom::reduce: the pairs that are equal are done with.              *)
Reduced(c, p, got) ==
  [rest |-> [c EXCEPT !.pairs = SubSeq(@, p, Len(@))],
   status |-> IF got \subseteq c.rel THEN "TRUE"
              ELSE IF got \cap c.rel = {} THEN "FALSE" ELSE "UNKNOWN"]
ReduceBy(c, rel, n) ==
  IF n = 0 THEN Reduced(c, 1, E)
  ELSE LET p == FirstOpen(rel, n) IN Reduced(c, p, Decide(rel[p], p = n))

Reduce(ord, val, c) ==
  ReduceBy(c, Map(c.pairs, LAMBDA p : Cmp(ord, val, p[1], p[2])), Len(c.pairs))

(* ConstrainedValuation: a state v has the ordering, the valuation and the *)
(* constraints that are not decided yet; the state of a search is one.     *)
Settled(v, reduced) ==
  IF \E r \in reduced : r.status = "FALSE" THEN Nothing
  ELSE [v EXCEPT !.constraints = {r.rest : r \in {q \in reduced : q.status = "UNKNOWN"}}]
Checked(v) == Settled(v, {Reduce(v.ord, v.val, c) : c \in v.constraints})

Valued(v, val) == IF val = Nothing THEN Nothing ELSE Checked([v EXCEPT !.val = val])
Unify(v, a, b) == IF v = Nothing THEN Nothing ELSE Valued(v, MguAtoms(v.val, a, b))
UnifyTerms(v, s, t) == IF v = Nothing THEN Nothing ELSE Valued(v, Mgu(v.val, s, t))

PushConstraints(v, cs) ==
  IF v = Nothing THEN Nothing ELSE Checked([v EXCEPT !.constraints = @ \cup cs])

Unset(n) == <<>> \o [i \in 1..n |-> Nothing]
=============================================================================
