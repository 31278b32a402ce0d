------------------------------- MODULE Prover -------------------------------
(***************************************************************************)
(* The prover (main.cc): a problem is transformed, and the search state    *)
(* made of it is searched by Schedule with the frames of the method,       *)
(* Tableau or LazyParamodulation, as the tasks of the engine.  The         *)
(* definitions up to the line are what a configuration gives to the        *)
(* constants of Balanced and Schedule.                                     *)
(***************************************************************************)
EXTENDS Tableau, LazyParamodulation, Schedule

ASSUME ProblemsAssumption ==
  \A p \in DOMAIN Problems : Problems[p].method = "LAZY_PARAMODULATION" => Problems[p].trans = "SKIP"

ProblemNumbers == DOMAIN Problems
ProblemCost(p) == Problems[p].max_cost
Start(p) == IF Problems[p].method = "CONNECTION_TABLEAU" THEN StartFrame ELSE LpStart

(* The search state of every problem, before anything is searched.         *)
InitialVals ==
  [p \in ProblemNumbers |-> SearchState(ApplyTrans(Problems[p].trans, Problems[p].form))]
InitialVal(p) == InitialVals[p]

Frames == TableauFrames \cup LazyFrames
StartFrames == {StartFrame, LpStart}

(* The nodes a frame may use before it looks at the limit: those of the    *)
(* clause it allocates, and a starting clause costs one at most.           *)
FrameNeed(t) ==
  CASE t.frame \in {"start", "lp_start"} -> 1
    [] t.frame \in {"strong", "lp_strong", "lazy_pre_strong"} -> t.cost
    [] OTHER -> 0

FrameRun(t, n, v, m) ==
  IF t.frame \in {"start", "strong", "weak", "path", "extend"}
  THEN TableauRun(t, n, v, m) ELSE LazyRun(t, n, v, m)

(* SearchState::get_proof: the lazy clauses are built now.                 *)
GetProof(v) ==
  Map(v.clauses_used, LAMBDA u : Shift(Clause(v, u.cla), u.offset))
    \o Map(v.lazy_clauses_used, Forced)
ProofAndVal(v) == [clauses |-> GetProof(v), val |-> v.val]
-----------------------------------------------------------------------------
(***************************************************************************)
(* A proof is one: "tool validate" accepts what the prover prints, against *)
(* the problem as it was before any transformation.                        *)
(***************************************************************************)
ProofSound ==
  proof # <<>> =>
    Validate(ProtoProof(Head(proof).val, Head(proof).clauses),
             {d.derived : d \in Range(Problems[problem].form)})

(***************************************************************************)
(* Every clause of the derivation under construction has been paid for,    *)
(* those of strong_resolution included, and what backtracking gives up is  *)
(* paid back: nodes_used is at least the cost of clauses_used (and is that *)
(* for the connection tableau), and within the limit.  Each use of an      *)
(* equation by a lazy frame costs something, be its clause free: these     *)
(* frames do not check regularity, and it is all that ends a branch.       *)
(***************************************************************************)
SwapsSides(l) ==
  /\ "cla" \in DOMAIN l /\ Len(l.cla) = 2
  /\ \A at \in Range(l.cla) : at.pred = EQ
  /\ l.cla[2].args = Reverse(l.cla[1].args)

Paid ==
  LET cost == FoldSeq(LAMBDA u, n : Clause(state.val, u.cla).cost + n, 0, state.val.clauses_used)
      rewritings == Len(SelectSeq(state.val.lazy_clauses_used, SwapsSides))
  IN /\ cost <= state.nodes_used
     /\ Problems[problem].method = "CONNECTION_TABLEAU" => cost = state.nodes_used
     /\ rewritings <= state.nodes_used
     /\ phase # "deepen" => state.nodes_used <= limit

(***************************************************************************)
(* "there is NO cycles in valuation, even x -> x" (mgu.h): no variable     *)
(* can be reached from itself.                                             *)
(***************************************************************************)
NoCycles ==
  LET val == state.val.val
      next(i) == IF val[i] = Nothing THEN {} ELSE VarsOf(val[i])
      settled[n \in 0..Len(val)] ==
        IF n = 0 THEN {}
        ELSE LET before == settled[n - 1] IN {i \in 1..Len(val) : next(i) \subseteq before}
  IN settled[Len(val)] = 1..Len(val)
=============================================================================
