------------------------------- MODULE Search -------------------------------
(***************************************************************************)
(* What the frames of both methods of the prover work on: the clause index *)
(* (index.h), the search state (search_state.h) and the branches of a      *)
(* tableau.  A frame is a task of Balanced.                                *)
(***************************************************************************)
EXTENDS Equality

CONSTANTS
  Problems,  \* what the prover may be run on, a sequence of records: the problem (form),
             \* the options (trans, method), and how far it is followed (max_cost)
  MaxDepth   \* bound on the depth of terms, for the type of a state

(* A clause as it is read.                                                 *)
Parsed(cla) == Source(IF Len(cla) > 1 THEN 1 ELSE 0, cla)
-----------------------------------------------------------------------------
(* The clauses in the order of their cost, which is stable.                *)
Sorted(form) ==
  LET dearest == Max({0} \cup {dc.cost : dc \in Range(form)})
  IN FlattenSeq([c \in 1 .. dearest + 1 |-> SelectSeq(form, LAMBDA dc : dc.cost = c - 1)])

AtomsOf(cla, i) == Map([k \in DOMAIN cla |-> k], LAMBDA k : [cla |-> i, atom |-> k])

Shifted(dc, offset) == SubstClause(dc.derived, [i \in 1..dc.vars |-> Var(i + offset)])

(* Those of the atoms that unify with atom k of clause i and are of        *)
(* opposite sign.  (More than 100 candidates are not tried in advance.)    *)
Matching(clauses, all, i, k) ==
  LET at == clauses[i].derived[k]
      fits(m) ==
        LET other == Shifted(clauses[m.cla], clauses[i].vars)[m.atom]
        IN /\ at.sign # other.sign
           /\ MguAtoms(Unset(clauses[i].vars + clauses[m.cla].vars), at, other) # Nothing
  IN SelectSeq(all, fits)

Matches(clauses, all) ==
  [i \in DOMAIN clauses |-> [k \in DOMAIN clauses[i].derived |-> Matching(clauses, all, i, k)]]

(* A starting clause has positive atoms only.  "all" are the atoms.        *)
ClauseIndex(form) ==
  LET clauses == Sorted(form)
      all == FlattenSeq([i \in DOMAIN clauses |-> AtomsOf(clauses[i].derived, i)])
  IN [clauses |-> clauses, all |-> all, matches |-> Matches(clauses, all),
      starting |-> [i \in DOMAIN clauses |-> \A at \in Range(clauses[i].derived) : at.sign]]

Clause(v, i) == v.index.clauses[i]
IndexedAtom(v, m) == Clause(v, m.cla).derived[m.atom]

BadStopsEarly(cost, room) == cost < room
BadOverspends(cost, room) == cost <= room + 1
Affordable(cost, room) == cost <= room

(* Filter: nothing from the first clause on that is too dear, and none of  *)
(* the starting clauses before the one the search started with.            *)
Filtered(v, all, room) ==
  LET n == Cardinality({p \in DOMAIN all :
                          \A q \in 1..p : Affordable(Clause(v, all[q].cla).cost, room)})
  IN SelectSeq(SubSeq(all, 1, n), LAMBDA m : m.cla >= v.start \/ ~ v.index.starting[m.cla])

(* The three ways to look for an atom.                                     *)
GetMatches(v, id, room) == Filtered(v, v.index.matches[id.cla][id.atom], room)
GetAll(v, room) == Filtered(v, v.index.all, room)
GetMatchesOf(v, pred, sign, room) ==
  LET of(m) == IndexedAtom(v, m).pred = pred /\ IndexedAtom(v, m).sign = sign
  IN Filtered(v, SelectSeq(v.index.all, of), room)
-----------------------------------------------------------------------------
(* SearchState apart from nodes_used.  "start" is the clause the search    *)
(* started with, once it has: next_starting_clause_id - 1.  A clause used  *)
(* is a clause of the index and the offset of its variables; one used      *)
(* lazily is what it takes to build it.                                    *)
SearchState(form) ==
  [index |-> ClauseIndex(form), start |-> 0, ord |-> "LPO", val |-> <<>>, constraints |-> {},
   clauses_used |-> <<>>, lazy_clauses_used |-> <<>>]

(* SearchState::allocate; Nothing when a constraint of the clause is       *)
(* broken.  Instance is what it returns.                                   *)
Allocate(v, i) ==
  LET offset == [j \in 1 .. Clause(v, i).vars |-> Var(j + Len(v.val))]
  IN PushConstraints([v EXCEPT !.val = @ \o Unset(Clause(v, i).vars),
                               !.clauses_used = <<[cla |-> i, offset |-> Len(v.val)]>> \o @],
                     SubstConstraints(Clause(v, i).constraints, offset))
Instance(v, i) == Shifted(Clause(v, i), Len(v.val))
-----------------------------------------------------------------------------
(* A branch is the atoms that are false and those that are true on it, the *)
(* last one first.                                                         *)
Branch == [false_ |-> <<>>, true_ |-> <<>>]
BranchSet(branch) == [branch |-> branch, branches |-> <<>>]

BadPush(bs, at) ==
  [branch |-> [bs.branch EXCEPT !.true_ = <<at>> \o @],
   branches |-> Append([j \in DOMAIN bs.branches |-> [bs.branches[j] EXCEPT !.true_ = <<at>> \o @]],
                       [bs.branch EXCEPT !.false_ = <<at>> \o @])]

(* One branch per atom: it is false there and the atoms before it are      *)
(* true, so each of those may be used as a lemma.                          *)
Push(bs, at) ==
  [branch |-> [bs.branch EXCEPT !.true_ = <<at>> \o @],
   branches |-> Append(bs.branches, [bs.branch EXCEPT !.false_ = <<at>> \o @])]
PushAll(bs, atoms) == FoldLeft(Push, bs, atoms)

(* What a frame does.  What one that fails leaves behind is not looked at: *)
(* the next step restores the state, be it half unified.                   *)
Fails(v) == [kind |-> "fail", nodes |-> 0, val |-> v, tasks |-> <<>>]
Offers(v, n, tasks) == [kind |-> "or", nodes |-> n, val |-> v, tasks |-> tasks]
Asks(v, n, tasks) == [kind |-> "and", nodes |-> n, val |-> v, tasks |-> tasks]

(* One of the starting clauses, or a later one.                            *)
NextStartingClause(v) ==
  LET left == {i \in v.start + 1 .. Len(v.index.clauses) : v.index.starting[i]}
  IN IF left = {} THEN 0 ELSE Min(left)
RunStart(t, v, strong) ==
  IF NextStartingClause(v) = 0 THEN Fails(v)
  ELSE Offers([v EXCEPT !.start = NextStartingClause(v)], 0, <<strong, t>>)
-----------------------------------------------------------------------------
(* The types.                                                              *)
TermsTo[n \in Nat] ==
  IF n = 0 THEN [kind : {"var"}, id : Nat \ {0}]
  ELSE TermsTo[n - 1] \cup [kind : {"fun"}, id : Range(FunIds), args : Seq(TermsTo[n - 1])]
Term == TermsTo[MaxDepth]
Atoms == [sign : BOOLEAN, pred : STRING, args : Seq(Term), strong_only : BOOLEAN]
Match == [cla : Nat, atom : Nat]
Branches(A) == [false_ : Seq(A), true_ : Seq(A)]

OrderAtoms == [rel : SUBSET U, pairs : Seq(Term \X Term)]
Derived ==
  [cost : Nat, derived : Seq(Atoms), sources : Seq(Seq(Atoms)), constraints : SUBSET OrderAtoms,
   vars : Nat]

Vals ==
  [index : [clauses : Seq(Derived), all : Seq(Match), matches : Seq(Seq(Seq(Match))),
            starting : Seq(BOOLEAN)],
   start : Nat, ord : {"LPO"}, val : Seq(Term \cup {Nothing}), constraints : SUBSET OrderAtoms,
   clauses_used : Seq([cla : Nat, offset : Nat]),
   lazy_clauses_used : Seq([cla : Seq(Atoms)] \cup [at : Atoms, path : Seq(Nat), r : Term])]
=============================================================================
