----------------------------- MODULE Validator -----------------------------
(***************************************************************************)
(* Clauses with where they come from (derived.h), the proof that the       *)
(* prover prints (parse.h, ground.h) and how "tool validate" checks it     *)
(* (tptp_parser: ToolBin, Proof, EqAxioms, DNF, Valid): every ground       *)
(* source is an instance of an input clause or an axiom of equality, and   *)
(* one of them is true under every interpretation of the atoms.            *)
(***************************************************************************)
EXTENDS Terms, FiniteSetsExt

AllVars(derived, sources, constraints) ==
  ClauseVars(derived) \cup UNION {ClauseVars(s) : s \in Range(sources)}
    \cup UNION {VarsOf(p[1]) \cup VarsOf(p[2]) : p \in UNION {Range(c.pairs) : c \in constraints}}

(* DerAndClause: a clause, the clauses it is derived from, and constraints *)
(* on its instances.  Its variables are 1..vars (VAR_RANGE).               *)
DerAndClause(cost, derived, sources, constraints) ==
  [cost |-> cost, derived |-> derived, sources |-> sources, constraints |-> constraints,
   vars |-> Max({0} \cup AllVars(derived, sources, constraints))]

Source(cost, cla) == DerAndClause(cost, cla, <<cla>>, {})

SubstConstraints(cs, f) ==
  {[c EXCEPT !.pairs = Map(@, LAMBDA p : <<Subst(p[1], f), Subst(p[2], f)>>)] : c \in cs}

SubstDer(dcla, f) ==
  [dcla EXCEPT !.derived = SubstClause(@, f),
               !.sources = Map(@, LAMBDA s : SubstClause(s, f)),
               !.constraints = SubstConstraints(@, f)]

Shift(dcla, offset) == SubstDer(dcla, [i \in 1..dcla.vars |-> Var(i + offset)])

RECURSIVE GroundTerm(_)
GroundTerm(t) ==
  IF IsVar(t) THEN EXTRA_CONST
  ELSE Fun(t.id, Map(t.args, GroundTerm))

(* ground(): a variable without a value becomes a constant of its own.     *)
GroundClause(val, cla) ==
  LET atom(a) == [sign |-> a.sign, pred |-> a.pred,
                  args |-> Map(a.args, LAMBDA t : GroundTerm(Eval(val, t)))]
  IN Map(cla, atom)

(* proto_Proof(), of which flattenProof takes the ground sources.          *)
ProtoProof(val, clauses) ==
  UNION {{GroundClause(val, s) : s \in Range(c.sources)} : c \in Range(clauses)}
-----------------------------------------------------------------------------
(* EqAxioms.                                                               *)
Neg_(c) == SelectSeq(c, LAMBDA a : ~ a.sign)
Custom(c) == SelectSeq(c, LAMBDA a : a.sign /\ a.pred # EQ)
Equations(c) == SelectSeq(c, LAMBDA a : a.sign /\ a.pred = EQ)
Pairs(eqs) == {a.args : a \in Range(eqs)}

Norm(r) == {{p[1], p[2]} : p \in {q \in r : q[1] # q[2]}}
IsSubRelation(r, s) == Norm(r) \subseteq Norm(s)

IsReflAxiom(c) == Len(c) = 1 /\ ~ c[1].sign /\ c[1].pred = EQ /\ c[1].args[1] = c[1].args[2]

IsSymmAxiom(c) ==
  /\ Len(c) = 2 /\ c[1].pred = EQ /\ c[2].pred = EQ
  /\ c[1].sign # c[2].sign /\ c[1].args = Reverse(c[2].args)

IsTransAxiom(c) ==
  /\ Len(Neg_(c)) = 1 /\ Custom(c) = <<>> /\ Neg_(c)[1].pred = EQ
  /\ \E k \in DOMAIN Equations(c) :
       IsSubRelation(Range(Zip(Neg_(c)[1].args, Equations(c)[k].args)), Pairs(RemoveAt(Equations(c), k)))

IsPredCongAxiom(c) ==
  /\ Len(Neg_(c)) = 1 /\ Len(Custom(c)) = 1
  /\ Neg_(c)[1].pred = Custom(c)[1].pred
  /\ IsSubRelation(Range(Zip(Neg_(c)[1].args, Custom(c)[1].args)), Pairs(Equations(c)))

IsFunCongAxiom(c) ==
  /\ Len(Neg_(c)) = 1 /\ Custom(c) = <<>> /\ Neg_(c)[1].pred = EQ
  /\ LET s == Neg_(c)[1].args[1]
         t == Neg_(c)[1].args[2]
     IN /\ IsFun(s) /\ IsFun(t) /\ s.id = t.id
        /\ IsSubRelation(Range(Zip(s.args, t.args)), Pairs(Equations(c)))

IsEqAxiom(c) ==
  \/ IsReflAxiom(c) \/ IsSymmAxiom(c) \/ IsTransAxiom(c)
  \/ IsFunCongAxiom(c) \/ IsPredCongAxiom(c)

(* DNF.isInstance, of a ground clause: an atom at a time.                  *)
Args(cla) == FlattenSeq(Map(cla, LAMBDA a : a.args))
IsInstance(c, d) ==
  /\ Len(c) = Len(d)
  /\ \A k \in DOMAIN c : /\ c[k].sign = d[k].sign /\ c[k].pred = d[k].pred
                         /\ Len(c[k].args) = Len(d[k].args)
  /\ MguTerms(Unset(Max({0} \cup ClauseVars(d))), Args(c), Args(d)) # Nothing

(* Proof.classify: what is left after the axioms is the problem's.         *)
Classified(proof, problem) ==
  \A c \in proof : IsEqAxiom(c) \/ \E d \in problem : IsInstance(c, d)
-----------------------------------------------------------------------------
(* Valid.validRec: the atoms are given a value one after the other; what   *)
(* is left of the clauses says whether one can still be true.              *)
LiteralSet(c) == {<<c[k].sign, c[k].pred, c[k].args>> : k \in DOMAIN c}
NegLiteral(l) == <<~ l[1], l[2], l[3]>>

BadSetVal(l, form) == {c \ {l, NegLiteral(l)} : c \in form}
SetVal(l, form) == {c \ {l} : c \in {d \in form : NegLiteral(l) \notin d}}

RECURSIVE CounterExampleRec(_, _)
CounterExampleRec(preds, form) ==
  \/ form = {}
  \/ /\ {} \notin form
     /\ LET p == CHOOSE p \in preds : TRUE
        IN \E sign \in BOOLEAN :
             CounterExampleRec(preds \ {p}, SetVal(<<sign, p[1], p[2]>>, form))

CounterExample(proof) ==
  LET form == {LiteralSet(c) : c \in proof}
  IN CounterExampleRec({<<l[2], l[3]>> : l \in UNION form}, form)

Validate(proof, problem) == Classified(proof, problem) /\ ~ CounterExample(proof)
=============================================================================
