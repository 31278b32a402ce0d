---------------------------- MODULE MCValuation ----------------------------
(***************************************************************************)
(* Valuations of up to two variables over a constant, a function of one    *)
(* and one of two arguments.  The order of their ids is not that of their  *)
(* sizes.                                                                  *)
(***************************************************************************)
EXTENDS Valuation

MCFunIds == <<"g", "f", "a">>
MCFunSize == [h \in {"a", "f"} |-> IF h = "a" THEN 1 ELSE 2]

a == Const("a")
f(t) == Fun("f", <<t>>)
g(s, t) == Fun("g", <<s, t>>)

Simple(n) == {a} \cup {Var(i) : i \in 1..n}
MCPool(n) ==
  Simple(n) \cup {f(Var(i)) : i \in 1..n} \cup (IF n = 2 THEN {g(Var(1), a), g(Var(2), f(Var(1)))} ELSE {f(a)})

MCConstraints(n) ==
  {OrderAtom(G, p[1], p[2]) : p \in Simple(n) \X Simple(n)}
    \cup {OrderAtom(LE, Var(i), t) : i \in 1..n, t \in {f(a), g(a, Var(1))}}
    \cup {[rel |-> rel, pairs |-> <<<<Var(1), a>>, <<Var(i), f(a)>>>>] : rel \in {G, NE}, i \in 2..n}
-----------------------------------------------------------------------------
(* LPO as its definition in lpo.h has it, and KBO with all weights 1.      *)
Lex(s, t, less(_, _)) ==
  \/ FunLess(s.id, t.id)
  \/ /\ s.id = t.id
     /\ \E k \in DOMAIN s.args : /\ less(s.args[k], t.args[k])
                                 /\ \A j \in 1 .. k - 1 : s.args[j] = t.args[j]

RECURSIVE DefLpo(_, _), DefKbo(_, _)
DefLpo(s, t) ==
  /\ IsFun(t)
  /\ \/ \E i \in DOMAIN t.args : s = t.args[i] \/ DefLpo(s, t.args[i])
     \/ /\ IsFun(s) /\ Lex(s, t, DefLpo)
        /\ \A i \in DOMAIN s.args : DefLpo(s.args[i], t)

DefKbo(s, t) ==
  /\ s # t
  /\ \A x \in VarsOf(s) : Occ(s, x) <= Occ(t, x)
  /\ \/ Weight(s) < Weight(t)
     \/ Weight(s) = Weight(t) /\ IsFun(s) /\ IsFun(t) /\ Lex(s, t, DefKbo)

DefLess(ord, s, t) == IF ord = "LPO" THEN DefLpo(s, t) ELSE DefKbo(s, t)

DefCmp(ord, s, t) ==
  IF s = t THEN E ELSE IF DefLess(ord, s, t) THEN L ELSE IF DefLess(ord, t, s) THEN G ELSE U
-----------------------------------------------------------------------------
Ground == {a, f(a), f(f(a)), g(a, a), g(a, f(a))}
Substitutions == [1..MaxVars -> Ground]

RECURSIVE WordCmp(_, _, _)
WordCmp(ord, pairs, sub) ==
  LET rel == DefCmp(ord, Subst(pairs[1][1], sub), Subst(pairs[1][2], sub))
  IN IF rel = E /\ Len(pairs) > 1 THEN WordCmp(ord, Tail(pairs), sub) ELSE rel

Holds(c, sub) == WordCmp(v.ord, c.pairs, sub) \subseteq c.rel

(***************************************************************************)
(* The object means what has been asked of it: the ground terms that may   *)
(* stand for the variables are those that make all the terms unified equal *)
(* and satisfy all the constraints pushed, in the order's own definition.  *)
(* A constraint is dropped only when nothing can break it any more, and a  *)
(* call fails only when nothing is left; and none is kept that compares    *)
(* ground terms.  (unify(), check_constraints() and reduce(), with the     *)
(* prefix of pairs it does not look at again.)                             *)
(***************************************************************************)
Exact ==
  /\ ~ failed => \A c \in v.constraints :
                   \E i \in 1..2 : VarsOf(Eval(v.val, c.pairs[1][i])) # {}
  /\ \A sub \in Substitutions :
       LET meant == \A c \in history : Holds(c, sub)
       IN IF failed THEN ~ meant
          ELSE meant <=> /\ \A i \in DOMAIN v.val :
                              v.val[i] # Nothing => sub[i] = Subst(v.val[i], sub)
                         /\ \A c \in v.constraints : Holds(c, sub)

(***************************************************************************)
(* cmp() compares as the definition of the order does, although neither    *)
(* LPO (which looks at the arguments after the first that differ only) nor *)
(* KBO (which counts in one pass over both terms) is computed that way;    *)
(* and it is a reduction order: transitive, and kept by contexts and by    *)
(* instances.                                                              *)
(***************************************************************************)
Ordered ==
  ~ failed /\ v.constraints = {} =>
    LET pool == MCPool(Len(v.val))
        rel == [p \in pool \X pool |-> Cmp(v.ord, v.val, p[1], p[2])]
    IN /\ \A s, t \in pool : rel[<<s, t>>] = DefCmp(v.ord, Eval(v.val, s), Eval(v.val, t))
       /\ \A s, t, u \in pool : rel[<<s, t>>] = L /\ rel[<<t, u>>] = L => rel[<<s, u>>] = L
       /\ \A s, t \in pool : rel[<<s, t>>] = L =>
            /\ Cmp(v.ord, v.val, g(a, s), g(a, t)) = L
            /\ \A sub \in Substitutions :
                 DefCmp(v.ord, Subst(Eval(v.val, s), sub), Subst(Eval(v.val, t), sub)) = L
=============================================================================
