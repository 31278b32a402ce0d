----------------------------- MODULE Valuation -----------------------------
(***************************************************************************)
(* ConstrainedValuation (constrained_valuation.h) as its callers use it:   *)
(* variables are allocated, terms unified and constraints pushed.  A call  *)
(* that fails leaves an object that can only be restored ("returning false *)
(* invalidates the object"); one that does not may be restored as well.    *)
(*                                                                         *)
(* The history says what was asked of it, and is what it should mean.      *)
(***************************************************************************)
EXTENDS Terms

CONSTANTS
  MaxVars,       \* bound on the variables
  MaxSteps,      \* bound on the calls and the saves that are remembered
  Pool(_),       \* the terms over n variables that are unified
  Constraints(_) \* the constraints over n variables

VARIABLES
  v,         \* the object, as it was before a call that failed
  failed,    \* a call has failed
  history,   \* what the calls so far asked for; an equation is a
             \* constraint to be equal
  saves      \* the saves, the last one last, with the history then

vars == <<v, failed, history, saves>>
-----------------------------------------------------------------------------
Init ==
  /\ v \in [ord : {"LPO", "KBO"}, val : {<<>>}, constraints : {{}}]
  /\ failed = FALSE
  /\ history = {}
  /\ saves = <<>>

Allocate ==
  /\ ~ failed /\ Len(v.val) < MaxVars
  /\ v' = [v EXCEPT !.val = @ \o Unset(1)]
  /\ UNCHANGED <<failed, history, saves>>

Called(result, asked) ==
  /\ failed' = (result = Nothing)
  /\ v' = IF result = Nothing THEN v ELSE result
  /\ history' = history \cup {asked}
  /\ UNCHANGED saves

Ready == ~ failed /\ Cardinality(history) + Len(saves) < MaxSteps

Equate ==
  /\ Ready
  /\ \E s, t \in Pool(Len(v.val)) : s # t /\ Called(UnifyTerms(v, s, t), OrderAtom(E, s, t))

PushConstraint ==
  /\ Ready
  /\ \E c \in Constraints(Len(v.val)) : Called(PushConstraints(v, {c}), c)

Save ==
  /\ Ready
  /\ saves' = Append(saves, [val |-> v.val, constraints |-> v.constraints, history |-> history])
  /\ UNCHANGED <<v, failed, history>>

(* restore(), to the last save, which is taken off.                        *)
Restore ==
  /\ saves # <<>>
  /\ LET s == Last(saves)
     IN /\ v' = [v EXCEPT !.val = s.val, !.constraints = s.constraints]
        /\ history' = s.history
  /\ failed' = FALSE
  /\ saves' = Front(saves)

Next == Allocate \/ Equate \/ PushConstraint \/ Save \/ Restore

Spec == Init /\ [][Next]_vars
=============================================================================
