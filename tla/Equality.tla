------------------------------ MODULE Equality ------------------------------
(***************************************************************************)
(* apply_trans() of main.cc: what becomes of a problem with equality       *)
(* before the connection tableau, which knows nothing of equality, works   *)
(* on it (eq_axioms.h, lpmod.h).  A problem is a disjunction of            *)
(* and-clauses, a sequence of DerAndClause; so an "axiom" is the negation  *)
(* of one, as neg_refl_axiom: x # x.                                       *)
(***************************************************************************)
EXTENDS Validator

CONSTANT PredIds   \* the predicates by id, a sequence of names

EQ_TRANS_POS == "trans_pos"
EQ_TRANS_NEG == "trans_neg"
EQ_SYMM == "symm"

FormAtoms(f) == UNION {UNION {Range(cla) : cla \in {dc.derived} \cup Range(dc.sources)} : dc \in Range(f)}

RECURSIVE FunsOf(_)
FunsOf(t) ==
  IF IsVar(t) THEN {} ELSE {<<t.id, Len(t.args)>>} \cup UNION {FunsOf(s) : s \in Range(t.args)}

(* ArityCtx: the predicates and functions of a problem with arguments, as  *)
(* pairs of a name and an arity, in the order of their ids.                *)
HasEquality(f) == \E a \in FormAtoms(f) : a.pred = EQ
PredArity(f) ==
  LET used == {<<a.pred, Len(a.args)>> : a \in FormAtoms(f)}
      of(p) == {u \in used : u[1] = p /\ u[2] > 0}
  IN FlattenSeq(Map(PredIds, LAMBDA p : SetToSeq(of(p))))
FunArity(f) ==
  LET used == UNION {UNION {FunsOf(t) : t \in Range(a.args)} : a \in FormAtoms(f)}
      of(h) == {u \in used : u[1] = h /\ u[2] > 0}
  IN FlattenSeq(Map(FunIds, LAMBDA h : SetToSeq(of(h))))
-----------------------------------------------------------------------------
x == Var(1)
y == Var(2)
z == Var(3)

NegTrans(s, t, u) == <<Eq(TRUE, s, t), Eq(TRUE, t, u), Eq(FALSE, s, u)>>
NegSymm(s, t) == <<Eq(TRUE, s, t), Eq(FALSE, t, s)>>
NegRefl(t) == <<Eq(FALSE, t, t)>>

Lefts(n) == <<>> \o [i \in 1..n |-> Var(2 * i - 1)]
Rights(n) == <<>> \o [i \in 1..n |-> Var(2 * i)]
Equals(ss, ts) == Map(Zip(ss, ts), LAMBDA p : Eq(TRUE, p[1], p[2]))

NegCongPred(p, n) ==
  Equals(Lefts(n), Rights(n)) \o <<Atom(TRUE, p, Lefts(n)), Atom(FALSE, p, Rights(n))>>
NegCongFun(f, n) ==
  Append(Equals(Lefts(n), Rights(n)), Eq(FALSE, Fun(f, Lefts(n)), Fun(f, Rights(n))))

EquivalenceAxioms == <<Source(0, NegRefl(x)), Source(1, NegSymm(x, y)), Source(3, NegTrans(x, y, z))>>
CongAxioms(f) ==
  Map(PredArity(f), LAMBDA p : Source(3, NegCongPred(p[1], p[2])))
    \o Map(FunArity(f), LAMBDA p : Source(3, NegCongFun(p[1], p[2])))

(* "every (a!=a /\ ...) is subsumed by (a!=a)"                             *)
AddReflConstraints(f) ==
  LET differ(cla) == {OrderAtom(NE, a.args[1], a.args[2]) :
                        a \in {b \in Range(cla) : b.pred = EQ /\ ~ b.sign}}
  IN Map(f, LAMBDA dc : [dc EXCEPT !.constraints = @ \cup differ(dc.derived)])

AppendEqAxioms(f) == AddReflConstraints(f) \o EquivalenceAxioms \o CongAxioms(f)
-----------------------------------------------------------------------------
(* FlatClauseBuilder: every argument becomes a variable of its own, n of   *)
(* them so far, and every step of it leaves the axioms it takes behind.    *)
From(b, source) == [b EXCEPT !.sources = Append(@, source)]

RECURSIVE FlattenTerm(_, _)

IntroduceVar(b, t) ==
  IF IsVar(t) THEN [b |-> From(b, NegRefl(t)), t |-> t]
  ELSE LET r == FlattenTerm(b, t)
           v == Var(r.b.n + 1)
       IN [b |-> [From(r.b, <<Eq(TRUE, t, r.t), Eq(TRUE, r.t, v), Eq(FALSE, t, v)>>)
                   EXCEPT !.n = @ + 1, !.atoms = Append(@, Eq(TRUE, r.t, v))], t |-> v]

IntroduceVars(b, ts) ==
  FoldLeft(LAMBDA r, t : LET q == IntroduceVar(r.b, t) IN [b |-> q.b, ts |-> Append(r.ts, q.t)],
           [b |-> b, ts |-> <<>>], ts)

FlatTerm(t, r) ==
  [b |-> From(r.b, Append(Equals(t.args, r.ts), Eq(FALSE, t, Fun(t.id, r.ts)))), t |-> Fun(t.id, r.ts)]
FlattenTerm(b, t) == FlatTerm(t, IntroduceVars(b, t.args))

FlatPred(a, flat, b) ==
  [From(b, Equals(a.args, flat.args) \o <<Neg(a), flat>>) EXCEPT !.atoms = Append(@, flat)]
FlattenPred(b, a) ==
  LET flat(r) == FlatPred(a, [a EXCEPT !.args = r.ts], r.b) IN flat(IntroduceVars(b, a.args))

(* One side of an equation; the other one stays what it is.                *)
FlattenSide(b, a, i) ==
  LET t == a.args[i]
      eq(sign, u) == LET args == [a.args EXCEPT ![i] = u] IN Eq(sign, args[1], args[2])
      flat(r) == [b |-> From(r.b, <<Eq(TRUE, t, r.t), eq(a.sign, r.t), eq(~ a.sign, t)>>),
                  a |-> eq(a.sign, r.t)]
  IN IF IsVar(t) THEN [b |-> b, a |-> eq(a.sign, t)] ELSE flat(FlattenTerm(b, t))

FlattenEq(b, a) ==
  LET with(left) == FlattenSide(left.b, left.a, 2)
      whole(r) == [r.b EXCEPT !.atoms = Append(@, r.a)]
  IN whole(with(FlattenSide(b, a, 1)))

FlatClause(dc) ==
  LET start == [n |-> Max({0} \cup ClauseVars(dc.derived)), atoms |-> <<>>, sources |-> dc.sources]
      flatten(b, a) == IF a.pred = EQ THEN FlattenEq(b, a) ELSE FlattenPred(b, a)
      built(b) == DerAndClause(dc.cost, b.atoms, b.sources, {})
  IN built(FoldLeft(flatten, start, Reverse(dc.derived)))

FlattenOrForm(f) == Map(f, FlatClause)
ReduceMonotonicityAndAppendEqAxioms(f) == FlattenOrForm(f) \o EquivalenceAxioms
-----------------------------------------------------------------------------
BadRestrictedAxioms == <<
  DerAndClause(0, <<Atom(TRUE, EQ_TRANS_POS, <<x, y>>), Atom(FALSE, EQ_SYMM, <<x, y>>)>>, <<>>, {}),
  DerAndClause(1, <<Atom(TRUE, EQ_SYMM, <<x, y>>), Eq(TRUE, y, z), Eq(FALSE, x, z)>>,
               <<NegTrans(x, y, z)>>, {}),
  DerAndClause(0, <<Atom(FALSE, EQ_TRANS_NEG, <<x, y>>), Eq(TRUE, y, z), Eq(TRUE, x, z)>>,
               <<<<Eq(FALSE, x, y), Eq(TRUE, y, z), Eq(TRUE, x, z)>>>>, {}) >>

(* The equations of the problem are told apart by their sign, so that      *)
(* transitivity is used with one of them at a time.                        *)
RestrictedAxioms == <<
  DerAndClause(0, <<Atom(TRUE, EQ_TRANS_POS, <<x, y>>), Atom(FALSE, EQ_SYMM, <<x, y>>)>>, <<>>, {}),
  DerAndClause(0, <<Atom(TRUE, EQ_TRANS_POS, <<y, x>>), Atom(FALSE, EQ_SYMM, <<x, y>>)>>,
               <<NegSymm(y, x)>>, {}),
  DerAndClause(1, <<Atom(TRUE, EQ_SYMM, <<x, y>>), Eq(TRUE, y, z), Eq(FALSE, x, z)>>,
               <<NegTrans(x, y, z)>>, {}),
  DerAndClause(0, <<Atom(FALSE, EQ_TRANS_NEG, <<x, y>>), Eq(TRUE, y, z), Eq(TRUE, x, z)>>,
               <<<<Eq(FALSE, x, y), Eq(TRUE, y, z), Eq(TRUE, x, z)>>>>, {}) >>

Restricted(a) ==
  IF a.pred = EQ THEN [a EXCEPT !.pred = IF a.sign THEN EQ_TRANS_NEG ELSE EQ_TRANS_POS] ELSE a

AppendEqAxiomsWithRestrictedTransitivity(f) ==
  LET g == f \o CongAxioms(f)
      renamed(dc) == [dc EXCEPT !.derived = Map(@, Restricted)]
  IN Map(g, renamed) \o <<Source(0, NegRefl(x))>> \o RestrictedAxioms
-----------------------------------------------------------------------------
(* lpmod.  red(l, w): l is rewritten to w.                                 *)
Red(sign, l, w) == Atom(sign, EQ_TRANS_POS, <<l, w>>)
NewPred(i) == "T" \o ToString(i)

(* The variables that are used, numbered from 1 in their order.            *)
ReduceVars(dc) ==
  LET used == AllVars(dc.derived, dc.sources, dc.constraints)
      f == [i \in used |-> Var(Cardinality({j \in used : j <= i}))]
  IN [SubstDer(dc, f) EXCEPT !.vars = Cardinality(used)]

(* SplitBuilder: "next" is next_pred, "val" the valuation.                 *)
Keep(b, as, cs, sources) ==
  [b EXCEPT !.atoms = @ \o as, !.constraints = @ \cup cs, !.sources = @ \o sources]
Extra(b, derived, sources, cs) ==
  [b EXCEPT !.extra = Append(@, ReduceVars(DerAndClause(1, derived, sources, cs)))]
Fresh(b) == Var(Len(b.val) + 1)
WithFresh(b) == [b EXCEPT !.val = @ \o Unset(1)]

SplitPos(b, l, r) ==
  IF IsVar(l) THEN [b EXCEPT !.val = Mgu(@, l, r)]
  ELSE IF IsVar(r) THEN Keep(b, <<Red(TRUE, l, r)>>, {OrderAtom(LE, r, l)}, <<>>)
  ELSE LET w == Fresh(b)
       IN Keep(WithFresh(b), <<Red(TRUE, l, w), Red(TRUE, r, w)>>,
               {OrderAtom(LE, w, l), OrderAtom(LE, w, r)}, <<NegTrans(l, w, r), NegSymm(r, w)>>)

(* The definition of the new predicate: it stands for l = r.               *)
SplitNeg(b, l, r) ==
  LET args == IF IsVar(l) THEN <<l, r>> ELSE IF IsVar(r) THEN Append(l.args, r) ELSE l.args \o r.args
      t == StrongOnly(Atom(FALSE, NewPred(b.next), args))
      b1 == [Keep(b, <<t>>, {}, <<>>) EXCEPT !.next = @ + 1]
      w == Fresh(b1)
      rewritten == Extra(b1, <<Neg(t), Red(FALSE, l, r)>>, <<>>, {OrderAtom(G, l, r)})
      joined == Extra(WithFresh(b1), <<Neg(t), Red(FALSE, l, w), Red(TRUE, r, w)>>,
                      <<NegTrans(l, r, w)>>, {OrderAtom(G, l, w), OrderAtom(LE, w, r)})
      other == <<NegTrans(r, l, w), NegSymm(l, r)>>
      meets == {OrderAtom(G, r, w), OrderAtom(LE, w, l)}
  IN IF IsVar(l)
     THEN Extra(rewritten, <<Neg(t), Red(FALSE, r, l)>>, <<NegSymm(l, r)>>, {OrderAtom(G, r, l)})
     ELSE IF IsVar(r)
     THEN Extra(WithFresh(rewritten), <<Neg(t), Red(FALSE, r, w), Red(TRUE, l, w)>>, other, meets)
     ELSE Extra(joined, <<Neg(t), Red(TRUE, l, w), Red(FALSE, r, w)>>, other, meets)

BadSwapped(b, sign, l, r) == From(b, NegSymm(l, r))

(* A variable on the left is moved to the right.                           *)
Swapped(b, sign, l, r) == From(b, IF sign THEN NegSymm(l, r) ELSE NegSymm(r, l))

SplitAtom(b, a) ==
  LET l == a.args[1]
      r == a.args[2]
      split(c, s, t) == IF a.sign THEN SplitPos(c, s, t) ELSE SplitNeg(c, s, t)
  IN IF a.pred # EQ THEN Keep(b, <<a>>, {}, <<>>)
     ELSE IF IsVar(l) THEN split(Swapped(b, a.sign, r, l), r, l) ELSE split(b, l, r)

SplitBuilder(dc, next) ==
  FoldLeft(SplitAtom, [next |-> next, val |-> Unset(dc.vars), atoms |-> <<>>,
                       sources |-> dc.sources, constraints |-> {}, extra |-> <<>>], dc.derived)

(* SplitBuilder::out.                                                      *)
Out(dc, b) ==
  LET f == <<>> \o [i \in DOMAIN b.val |-> Eval(b.val, Var(i))]
  IN ReduceVars(DerAndClause(dc.cost, SubstClause(b.atoms, f),
                             Map(b.sources, LAMBDA s : SubstClause(s, f)),
                             SubstConstraints(b.constraints, f)))

Conv(f) ==
  LET add(c, dc, b) == [form |-> c.form \o <<Out(dc, b)>> \o b.extra, next |-> b.next]
      split(c, dc) == add(c, dc, SplitBuilder(dc, c.next))
  IN FoldLeft(split, [form |-> <<>>, next |-> 0], FlattenOrForm(f)).form
       \o <<DerAndClause(0, <<Red(FALSE, x, x)>>, <<NegRefl(x)>>, {})>>
-----------------------------------------------------------------------------
Transformations ==
  {"SKIP", "AXIOMATIC_EQ", "AXIOMATIC_EQ_FLAT", "AXIOMATIC_EQ_RESTRICTED_TRANS", "LP_MODIFICATION"}

ApplyTrans(trans, f) ==
  CASE ~ HasEquality(f) \/ trans = "SKIP" -> f
    [] trans = "AXIOMATIC_EQ" -> AppendEqAxioms(f)
    [] trans = "AXIOMATIC_EQ_FLAT" -> ReduceMonotonicityAndAppendEqAxioms(f)
    [] trans = "AXIOMATIC_EQ_RESTRICTED_TRANS" -> AppendEqAxiomsWithRestrictedTransitivity(f)
    [] trans = "LP_MODIFICATION" -> Conv(f)
=============================================================================
