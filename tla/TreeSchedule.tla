---------------------------- MODULE TreeSchedule ----------------------------
(***************************************************************************)
(* A run of the prover (Schedule) on AND-OR trees: what the searches of    *)
(* iterative_deepening() mean for one another.                             *)
(***************************************************************************)
EXTENDS AndOrTrees, Schedule

treeScheduleVars == <<scheduleVars, start, found>>
-----------------------------------------------------------------------------
TreeScheduleInit ==
  /\ ScheduleInit
  /\ StartVal(problem) \in StartVals
  /\ start = StartTask(problem) /\ found = <<>>

(* Each search has its own history.                                        *)
TreeDeepen == Deepen /\ found' = <<>> /\ UNCHANGED start
TreeStep == Step /\ TreeNext
BetweenSteps == (Abandon \/ TimeOut \/ Tick) /\ UNCHANGED <<start, found>>

TreeScheduleNext == TreeDeepen \/ TreeStep \/ BetweenSteps
TreeScheduleSpec == TreeScheduleInit /\ [][TreeScheduleNext]_treeScheduleVars
-----------------------------------------------------------------------------
(***************************************************************************)
(* Without cut iterative_deepening() raises the limit only when there is   *)
(* nothing to be found within it: unless the context is done, a search     *)
(* that returns false has not overlooked a derivation.                     *)
(***************************************************************************)
Exhausted ==
  phase = "deepen" /\ ~cut /\ ~CtxDone /\ limit > 0 => Derivations(start, limit) = {}

(***************************************************************************)
(* What is returned is a derivation of the problem, and without cut it is  *)
(* a cheapest one, whose weight is the cost reported with it (out.cost),   *)
(* but for the derivations that cost nothing: the first limit is 1.        *)
(***************************************************************************)
Cheapest ==
  proof # <<>> =>
    /\ state.trail \in Derivations(start, limit)
    /\ ~cut /\ limit > 1 => \A d \in Derivations(start, limit) : Weight(d) = limit
=============================================================================
