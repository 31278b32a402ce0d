----------------------------- MODULE AndOrTrees -----------------------------
(***************************************************************************)
(* Balanced on AND-OR trees, as the TODO above search() asks for.  A goal  *)
(* may be closed by any of its clauses, the cheapest of which come first   *)
(* as ClauseIndex keeps them; a clause costs nodes, asks constraints of    *)
(* the state shared by the whole tree, and has goals to be closed in turn. *)
(* Each place of a tree is a task of its own, so that a derivation is the  *)
(* set of its clauses.  The history variable "found" lists the derivations *)
(* that step() has returned true for.                                      *)
(***************************************************************************)
EXTENDS Balanced, FiniteSets

CONSTANTS
  IsGoal(_),    \* whether a task is a goal or a clause
  Kids(_),      \* the clauses of a goal, the goals of a clause
  Cost(_),      \* the nodes a clause takes
  Constraint,   \* what clauses may ask of the shared state
  Asks(_),      \* the constraints of a clause
  Solvable(_),  \* whether a set of constraints has a solution
  Sub(_),       \* the tasks of the tree below a task, itself included
  Closings(_)   \* the sets of clauses that close the tree below a task

VARIABLES
  start,  \* the task the search started with
  found   \* history: the trails step() has returned true for, in order

kids(t) == 1..Len(Kids(t))

(* The trees below the kids of a task are disjoint.                        *)
IsTree(t) ==
  /\ \A i \in kids(t) : IsGoal(Kids(t)[i]) <=> ~ IsGoal(t)
  /\ IsFiniteSet(Sub(t))
  /\ Sub(t) = {t} \cup UNION {Sub(Kids(t)[i]) : i \in kids(t)}
  /\ \A i \in kids(t) : t \notin Sub(Kids(t)[i])
  /\ \A i, j \in kids(t) : i # j => Sub(Kids(t)[i]) \cap Sub(Kids(t)[j]) = {}

(* A goal is closed by closing one of its clauses, a clause by itself and  *)
(* what closes each of its goals.                                          *)
IsClosed(t) ==
  LET below(i) == Closings(Kids(t)[i]) IN
  /\ \A d \in Closings(t) : d \subseteq Sub(t) /\ d # {}
  /\ IsGoal(t) => Closings(t) = UNION {below(i) : i \in kids(t)}
  /\ ~ IsGoal(t) =>
       Closings(t) = {{t} \cup UNION {f[i] : i \in kids(t)} :
                        f \in {f \in [kids(t) -> UNION {below(i) : i \in kids(t)}] :
                                 \A i \in kids(t) : f[i] \in below(i)}}

(* The weak frame offers the clauses there is room for; the strong frame   *)
(* allocates the clause, unifies and asks for the goals.                   *)
RunsTree(t, n, v, m) ==
  LET r == Run(t, n, v, m) IN
  /\ IsGoal(t) =>
       /\ r.kind = "or" /\ r.nodes = 0 /\ r.val = v
       /\ \E k \in 0..Len(Kids(t)) :
            /\ r.tasks = SubSeq(Kids(t), 1, k)
            /\ \A i \in k + 1 .. Len(Kids(t)) : n + Cost(Kids(t)[i]) > m
  /\ ~ IsGoal(t) =>
       /\ r.kind = IF Solvable(v \cup Asks(t)) THEN "and" ELSE "fail"
       /\ r.kind = "and" =>
            r.nodes = Cost(t) /\ r.tasks = Kids(t) /\ r.val = v \cup Asks(t)

Trees ==
  /\ Val = SUBSET Constraint /\ StartVals = {{}}
  /\ Solvable({})
  /\ \A C \in Val : Solvable(C) => \A B \in SUBSET C : Solvable(B)
  /\ {Kids(t) : t \in Task} \subseteq Seq(Task)
  /\ UNION {Sub(t) : t \in Task} \subseteq Task
  /\ \A t \in Task :
       /\ IsGoal(t) \in BOOLEAN /\ IsTree(t) /\ IsClosed(t) /\ Cost(t) \in Nat /\ Asks(t) \in Val
       /\ \A v \in Val, n, m \in 0..MaxLimit : RunsTree(t, n, v, m)

ASSUME TreesAssumption == Trees

(* They keep the contract of the engine.                                   *)
ASSUME FramesAssumption ==
  \A t \in Task, v \in Val, n, m \in 0..MaxLimit : TaskFits(t, n, v, m)
-----------------------------------------------------------------------------
(* The derivations of a task within the limit l, by definition: whatever   *)
(* the order in which they could be found.                                 *)
Weight(d) == Cardinality(UNION {{t} \X (1..Cost(t)) : t \in d})
Asked(d) == UNION {Asks(t) : t \in d}
Derivations(t, l) == {d \in Closings(t) : Weight(d) <= l /\ Solvable(Asked(d))}

TreeInit == Init /\ found = <<>> /\ start = saves[1].cont[1].spec.task
TreeNext ==
  /\ Next
  /\ found' = IF won' THEN Append(found, state'.trail) ELSE found
  /\ UNCHANGED start

treeVars == <<vars, found, start>>
TreeSpec == TreeInit /\ [][TreeNext]_treeVars
FairTreeSpec == TreeSpec /\ WF_vars(Next)

(***************************************************************************)
(* No derivation is found twice: the two ways in which step() divides the  *)
(* budget of a task set exclude each other.                                *)
(***************************************************************************)
NothingTwice == IsInjective(found)

(***************************************************************************)
(* What step() returns true for is a derivation within the size limit.     *)
(***************************************************************************)
Sound == Range(found) \subseteq Derivations(start, limit)

(***************************************************************************)
(* Without cut, the division of budgets skips no part of the search space: *)
(* when no alternative is left, every derivation has been found.           *)
(***************************************************************************)
NothingSkipped == ~cut /\ saves = <<>> => Derivations(start, limit) \subseteq Range(found)
=============================================================================
