------------------------------ MODULE Tableau -------------------------------
(***************************************************************************)
(* The frames of lazyparam_prover/connection_tableau.                      *)
(***************************************************************************)
EXTENDS Search

(* An atom of an allocated clause remembers the atom of the index it is an *)
(* instance of (Atom::id).                                                 *)
Literals(v, i) ==
  LET cla == Instance(v, i)
  IN Map(AtomsOf(cla, i), LAMBDA m : [atom |-> cla[m.atom], id |-> m])
Others(lits, k) == SelectSeq(lits, LAMBDA l : l.id.atom # k)

(* strong_resolution: an atom for strong connections only, with a single   *)
(* clause to connect to, is resolved at once.                              *)
RECURSIVE StrongResolution(_, _, _, _, _)
StrongResolution(todo, checked, v, n, m) ==
  IF v = Nothing \/ todo = <<>> THEN [lits |-> checked, v |-> v, nodes |-> n]
  ELSE
    LET a == Head(todo)
        matches == IF a.atom.strong_only THEN GetMatches(v, a.id, m - n) ELSE <<>>
        i == matches[1].cla
        k == matches[1].atom
    IN IF Len(matches) = 1
       THEN StrongResolution(Others(Literals(v, i), k) \o Tail(todo), checked,
                             Unify(Allocate(v, i), a.atom, Instance(v, i)[k]),
                             n + Clause(v, i).cost, m)
       ELSE StrongResolution(Tail(todo), <<a>> \o checked,
                             IF a.atom.strong_only /\ matches = <<>> THEN Nothing ELSE v, n, m)
-----------------------------------------------------------------------------
StrongFrame(v, branch, i, k) ==
  [frame |-> "strong", branch |-> branch, cla |-> i, atom |-> k, cost |-> Clause(v, i).cost]
StartFrame == [frame |-> "start"]
WeakFrame(branch) == [frame |-> "weak", branch |-> branch]
PathFrame(a, b) == [frame |-> "path", a |-> a, b |-> b]
ExtendFrame(branch) == [frame |-> "extend", branch |-> branch]

Literal == [atom : Atoms, id : Match]
TableauFrames ==
  {StartFrame} \cup [frame : {"strong"}, branch : Branches(Literal), cla : Nat, atom : Nat, cost : Nat]
    \cup [frame : {"weak", "extend"}, branch : Branches(Literal)]
    \cup [frame : {"path"}, a : Literal, b : Literal]

Spent(t, n, r) == r.nodes - n

Resolved(t, v, n, r) ==
  IF r.v = Nothing THEN Fails(v)
  ELSE Asks(r.v, Spent(t, n, r),
            Map(PushAll(BranchSet(t.branch), r.lits).branches, WeakFrame))

RunStrong(t, v, n, m) ==
  LET v1 == Allocate(v, t.cla)
      v2 == IF t.atom = 0 THEN v1
            ELSE Unify(v1, Head(t.branch.false_).atom, Instance(v, t.cla)[t.atom])
  IN Resolved(t, v, n, StrongResolution(Others(Literals(v, t.cla), t.atom), <<>>, v2, n + t.cost, m))

(* An atom proved before closes the branch, whatever else would.           *)
RunWeak(t, v) ==
  LET a == Head(t.branch.false_)
      lemma == \E b \in Range(t.branch.true_) :
                 b.atom.sign = a.atom.sign /\ EqualModSign(v.val, a.atom, b.atom)
      path == IF a.atom.strong_only THEN <<>>
              ELSE SelectSeq(t.branch.false_, LAMBDA b : /\ b.atom.sign # a.atom.sign
                                                         /\ b.atom.pred = a.atom.pred)
  IN IF lemma THEN Asks(v, 0, <<>>)
     ELSE Offers(v, 0, Map(path, LAMBDA b : PathFrame(a, b)) \o <<ExtendFrame(t.branch)>>)

RunPath(t, v) ==
  LET v2 == Unify(v, t.a.atom, t.b.atom)
  IN IF v2 = Nothing THEN Fails(v) ELSE Asks(v2, 0, <<>>)

StrongFrames(v, branch, matches) ==
  Offers(v, 0, Map(matches, LAMBDA m : StrongFrame(v, branch, m.cla, m.atom)))

(* Regularity: the atom may not become equal to another one of its path.   *)
RunExtend(t, v, n, m) ==
  LET a == Head(t.branch.false_)
      same == {b \in Range(Tail(t.branch.false_)) : b.atom.pred = a.atom.pred}
      v2 == IF a.atom.strong_only THEN v
            ELSE PushConstraints(v, {Neq(a.atom, b.atom) : b \in same})
  IN IF v2 = Nothing THEN Fails(v)
     ELSE StrongFrames(v2, t.branch, GetMatches(v2, a.id, m - n))

TableauRun(t, n, v, m) ==
  CASE t.frame = "start"  -> RunStart(t, v, StrongFrame(v, Branch, NextStartingClause(v), 0))
    [] t.frame = "strong" -> RunStrong(t, v, n, m)
    [] t.frame = "weak"   -> RunWeak(t, v)
    [] t.frame = "path"   -> RunPath(t, v)
    [] t.frame = "extend" -> RunExtend(t, v, n, m)
=============================================================================
