------------------------- MODULE LazyParamodulation -------------------------
(***************************************************************************)
(* The frames of lazyparam_prover/lazy_paramodulation: tableaux that       *)
(* rewrite with the equations of a branch.  The rewriting is lazy: what a  *)
(* term has to be equal to becomes a goal of its own.                      *)
(***************************************************************************)
EXTENDS Search

(* AtomPath: an atom and the way to one of its terms, which is a function. *)
RECURSIVE TermPaths(_)
ArgPaths(args) ==
  LET n == Len(args)
      below(i) == Map(TermPaths(args[i]), LAMBDA p : <<i>> \o p)
  IN FlattenSeq([j \in 1..n |-> below(n + 1 - j)])
TermPaths(t) == IF IsVar(t) THEN <<>> ELSE Reverse(<<<<>>>> \o ArgPaths(t.args))

Paths(at) == Map(Reverse(ArgPaths(at.args)), LAMBDA p : [at |-> at, path |-> p])

Follow(args, path) ==
  LET along[k \in 1..Len(path)] ==
        IF k = 1 THEN args[path[1]] ELSE along[k - 1].args[path[k]]
  IN along[Len(path)]
Get(ap) == Follow(ap.at.args, ap.path)

RECURSIVE ReplaceIn(_, _, _)
ReplaceIn(args, path, t) ==
  [args EXCEPT ![Head(path)] =
     IF Len(path) = 1 THEN t ELSE [@ EXCEPT !.args = ReplaceIn(@, Tail(path), t)]]
Replace(ap, t) == [ap.at EXCEPT !.args = ReplaceIn(@, ap.path, t)]

(* Clauses that are built when they are asked for, at the end of a search: *)
(* an axiom that stands for itself, and ApClause, which says that to       *)
(* replace a term by an equal one does not change an atom.                 *)
AxiomClause(cla) == [cla |-> cla]
ApClause(ap, r) == [at |-> ap.at, path |-> ap.path, r |-> r]

Forced(l) ==
  IF "cla" \in DOMAIN l THEN Source(0, l.cla)
  ELSE
    LET a0 == l.at
        a1 == Replace(l, l.r)
        t0(k) == Follow(a0.args, SubSeq(l.path, 1, k))
        t1(k) == Follow(a1.args, SubSeq(l.path, 1, k))
        step(k) == <<Eq(FALSE, t0(k - 1), t1(k - 1)), Eq(TRUE, t0(k), t1(k))>>
        n == Len(l.path)
    IN DerAndClause(0, <<Neg(a0), a1, Eq(TRUE, t0(n), l.r)>>,
                    <<<<Neg(a0), a1, Eq(TRUE, t0(1), t1(1))>>>> \o [k \in 1 .. n - 1 |-> step(k + 1)], {})

Uses(v, ls) ==
  IF v = Nothing THEN Nothing ELSE [v EXCEPT !.lazy_clauses_used = Reverse(ls) \o @]
Greater(v, l, r) == PushConstraints(v, {OrderAtom(G, l, r)})
-----------------------------------------------------------------------------
(* The frames.                                                             *)
LpStart == [frame |-> "lp_start"]
LpStrong(v, branch, m) ==
  [frame |-> "lp_strong", branch |-> branch, cla |-> m.cla, atom |-> m.atom,
   cost |-> Clause(v, m.cla).cost]
LpWeak(branch) == [frame |-> "lp_weak", branch |-> branch]
LpReduce(a) == [frame |-> "lp_reduce", a |-> a]
LpMatch(a, b) == [frame |-> "lp_match", a |-> a, b |-> b]
LazyPreWeak(branch, at, lr) == [frame |-> "lazy_pre_weak", branch |-> branch, at |-> at, lr |-> lr]
LazyWeak(branch, ap, w, l, r) ==
  [frame |-> "lazy_weak", branch |-> branch, ap |-> ap, w |-> w, l |-> l, r |-> r]
LazyPreStrong(v, branch, m, branch_lr) ==
  [frame |-> "lazy_pre_strong", branch |-> branch, cla |-> m.cla, atom |-> m.atom,
   branch_lr |-> branch_lr, cost |-> Clause(v, m.cla).cost]
LazyStrong(bs, ap, w, branch_lr, l, r) ==
  [frame |-> "lazy_strong", bs |-> bs, ap |-> ap, w |-> w, branch_lr |-> branch_lr, l |-> l, r |-> r]

AtomPath == [at : Atoms, path : Seq(Nat)]
LazyFrames ==
  {LpStart} \cup [frame : {"lp_strong"}, branch : Branches(Atoms), cla : Nat, atom : Nat, cost : Nat]
    \cup [frame : {"lp_weak"}, branch : Branches(Atoms)]
    \cup [frame : {"lp_reduce"}, a : Atoms]
    \cup [frame : {"lp_match"}, a : Atoms, b : Atoms]
    \cup [frame : {"lazy_pre_weak"}, branch : Branches(Atoms), at : Atoms, lr : Atoms]
    \cup [frame : {"lazy_weak"}, branch : Branches(Atoms), ap : AtomPath, w : Term, l : Term, r : Term]
    \cup [frame : {"lazy_pre_strong"}, branch : Branches(Atoms), cla : Nat, atom : Nat,
          branch_lr : BOOLEAN, cost : Nat]
    \cup [frame : {"lazy_strong"}, bs : [branch : Branches(Atoms), branches : Seq(Branches(Atoms))],
          ap : AtomPath, w : Term, branch_lr : BOOLEAN, l : Term, r : Term]

Closes(v, unified) == IF unified = Nothing THEN Fails(v) ELSE Asks(unified, 0, <<>>)

RunLpStart(t, v) ==
  RunStart(t, v, LpStrong(v, Branch, [cla |-> NextStartingClause(v), atom |-> 0]))

RunLpStrong(t, v) ==
  LET cla == Instance(v, t.cla)
      v1 == Allocate(v, t.cla)
      v2 == IF t.atom = 0 THEN v1 ELSE Unify(v1, Head(t.branch.false_), cla[t.atom])
      bs == PushAll(BranchSet(t.branch), Reverse(IF t.atom = 0 THEN cla ELSE RemoveAt(cla, t.atom)))
  IN IF v2 = Nothing THEN Fails(v)
     ELSE Asks(v2, t.cost, Map(bs.branches, LpWeak))

IsEquation(at, sign) == at.pred = EQ /\ at.sign = sign

(* WeakFrame::run.                                                         *)
Weak(v, branch, room) ==
  LET a == Head(branch.false_)
      param(lr, at) == IF IsEquation(lr, FALSE) THEN <<LazyPreWeak(branch, at, lr)>> ELSE <<>>
      match(b) == IF a.pred # EQ /\ b.pred = a.pred /\ b.sign # a.sign THEN <<LpMatch(a, b)>> ELSE <<>>
      with(b) == match(b) \o param(a, b) \o param(b, a)
  IN IF \E b \in Range(branch.true_) : b.sign = a.sign /\ EqualModSign(v.val, a, b)
     THEN Asks(v, 0, <<>>)
     ELSE Offers(v, 0,
            (IF IsEquation(a, TRUE) THEN <<LpReduce(a)>> ELSE <<>>)
            \o FlattenSeq(Map(Tail(branch.false_), with))
            \o (IF a.pred = EQ THEN <<>>
                ELSE Map(GetMatchesOf(v, a.pred, ~ a.sign, room), LAMBDA m : LpStrong(v, branch, m)))
            \o Map(GetMatchesOf(v, EQ, FALSE, room), LAMBDA m : LazyPreStrong(v, branch, m, FALSE))
            \o (IF IsEquation(a, FALSE)
                THEN Map(GetAll(v, room), LAMBDA m : LazyPreStrong(v, branch, m, TRUE)) ELSE <<>>))

RunLpReduce(t, v) ==
  Closes(v, Uses(UnifyTerms(v, t.a.args[1], t.a.args[2]), <<AxiomClause(<<Neg(t.a)>>)>>))

(* An equation of the branch and an atom of it, either of which is the     *)
(* last one: each term of the atom may be what either side is.             *)
Sides(aps, lr) ==
  LET both(ap) == <<[ap |-> ap, l |-> lr.args[1], r |-> lr.args[2]],
                    [ap |-> ap, l |-> lr.args[2], r |-> lr.args[1]]>>
  IN FlattenSeq(Map(aps, both))
Symmetry(lr) == AxiomClause(<<Neg(lr), Eq(lr.sign, lr.args[2], lr.args[1])>>)

RunLazyPreWeak(t, v, n, m) ==
  LET v1 == Uses(Greater(v, t.lr.args[1], t.lr.args[2]), <<Symmetry(t.lr)>>)
      w == Var(Len(v.val) + 1)
  IN IF n + 1 > m \/ v1 = Nothing THEN Fails(v)
     ELSE Offers([v1 EXCEPT !.val = @ \o Unset(1)], 1,
                 Map(Sides(Paths(t.at), t.lr), LAMBDA s : LazyWeak(t.branch, s.ap, w, s.l, s.r)))

(* The atom with w for l, which is still to be refuted.  That w can be r   *)
(* is taken for granted: it is an error if it cannot.                      *)
RunLazyWeak(t, v, room) ==
  LET v1 == UnifyTerms(v, t.l, Get(t.ap))
      v2 == UnifyTerms(v1, t.r, t.w)
  IN IF v1 = Nothing THEN Fails(v)
     ELSE IF v2 = Nothing THEN [Fails(v) EXCEPT !.kind = "error"]
     ELSE Weak(Uses(v2, <<ApClause(t.ap, t.w)>>),
               [t.branch EXCEPT !.false_ = <<Replace(t.ap, t.w)>> \o @], room)

(* The same with an equation or an atom of a new clause.  The regularity   *)
(* of paths is not checked, so a free clause has to cost something.        *)
BadPreStrongCost(cost) == cost
PreStrongCost(cost) == IF cost = 0 THEN 1 ELSE cost

RunLazyPreStrong(t, v, n, m) ==
  LET cla == Instance(v, t.cla)
      v1 == Allocate(v, t.cla)
      cost == PreStrongCost(t.cost)
      bs == PushAll(BranchSet(t.branch), Reverse(RemoveAt(cla, t.atom)))
      at == IF t.branch_lr THEN cla[t.atom] ELSE Head(t.branch.false_)
      lr == IF t.branch_lr THEN Head(t.branch.false_) ELSE cla[t.atom]
      w == Var(Len(v1.val) + 1)
  IN IF v1 = Nothing THEN Fails(v)
     ELSE IF n + cost > m THEN Fails(v)
     ELSE Offers([Uses(v1, <<Symmetry(lr)>>) EXCEPT !.val = @ \o Unset(1)], cost,
                 Map(Sides(Paths(at), lr), LAMBDA s : LazyStrong(bs, s.ap, w, t.branch_lr, s.l, s.r)))

(* What has to be equal for the function s(s1..sn) to be s(v1..vn), the    *)
(* last one first, and the clause that says so.                            *)
FreshArgs(v, s) ==
  <<>> \o [i \in DOMAIN s.args |-> Var(Len(v.val) + Len(s.args) + 1 - i)]
SameArgs(s, vs) == Equals(s.args, vs)
Congruence(s, vs, differ) == AxiomClause(Append(SameArgs(s, vs), differ))
WithArgs(v, s) == [v EXCEPT !.val = @ \o Unset(Len(s.args))]

(* The rest of lazy_strong_connection: the state, Nothing if the terms do  *)
(* not unify, the goals on top of those of the clause, the clauses used.   *)
Goals(v, unified, t, goals, clauses) ==
  LET bs == PushAll(t.bs, goals)
      v1 == Uses(unified, <<ApClause(t.ap, t.w)>> \o clauses)
  IN IF v1 = Nothing THEN Fails(v)
     ELSE Asks(v1, 0, Map(Reverse(bs.branches), LpWeak))

Trans(s, t, u) == AxiomClause(NegTrans(s, t, u))
Is(s, t) == Eq(TRUE, s, t)

(* L[p], z/=r with p = z.                                                  *)
ByVariable(t, v) ==
  Goals(v, UnifyTerms(Greater(v, t.l, t.w), Get(t.ap), t.l), t,
        <<Replace(t.ap, t.w), Is(t.r, t.w)>>, <<Trans(t.l, t.r, t.w)>>)

(* L[p], f(s)/=r with p = f(v).                                            *)
ByFunction(t, v) ==
  LET vs == FreshArgs(v, t.l)
      fv == Fun(t.l.id, vs)
  IN Goals(v, UnifyTerms(Greater(WithArgs(v, t.l), fv, t.w), Get(t.ap), fv), t,
           Reverse(SameArgs(t.l, vs)) \o <<Replace(t.ap, t.w), Is(t.r, t.w)>>,
           <<Trans(fv, t.l, t.r), Trans(fv, t.r, t.w), Congruence(t.l, vs, Eq(FALSE, fv, t.l))>>)

(* l/=r, L[f(s)] with l = f(v).                                            *)
IntoFunction(t, v) ==
  LET fs == Get(t.ap)
      vs == FreshArgs(v, fs)
      fv == Fun(fs.id, vs)
  IN Goals(v, UnifyTerms(UnifyTerms(Greater(WithArgs(v, fs), t.l, t.r), fv, t.l), t.r, t.w), t,
           Reverse(SameArgs(fs, vs)) \o <<Replace(t.ap, t.w)>>,
           <<Congruence(fs, vs, Eq(FALSE, fs, fv)),
             AxiomClause(<<Is(fs, fv), Is(t.l, t.r), Eq(FALSE, fs, t.w)>>)>>)

RunLazyStrong(t, v) ==
  LET v1 == Greater(v, t.l, t.r)
  IN IF v1 = Nothing THEN Fails(v)
     ELSE IF t.branch_lr THEN IntoFunction(t, v1)
     ELSE IF IsVar(t.l) THEN ByVariable(t, v1) ELSE ByFunction(t, v1)

LazyRun(t, n, v, m) ==
  CASE t.frame = "lp_start"        -> RunLpStart(t, v)
    [] t.frame = "lp_strong"       -> RunLpStrong(t, v)
    [] t.frame = "lp_weak"         -> Weak(v, t.branch, m - n)
    [] t.frame = "lp_reduce"       -> RunLpReduce(t, v)
    [] t.frame = "lp_match"        -> Closes(v, Unify(v, t.a, t.b))
    [] t.frame = "lazy_pre_weak"   -> RunLazyPreWeak(t, v, n, m)
    [] t.frame = "lazy_weak"       -> RunLazyWeak(t, v, m - n)
    [] t.frame = "lazy_pre_strong" -> RunLazyPreStrong(t, v, n, m)
    [] t.frame = "lazy_strong"     -> RunLazyStrong(t, v)
=============================================================================
