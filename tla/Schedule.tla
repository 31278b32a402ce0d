------------------------------ MODULE Schedule ------------------------------
(***************************************************************************)
(* A run of the prover around the search engine: schedule() of             *)
(* engine/balanced.h calls iterative_deepening() of engine/engine.h twice, *)
(* first with cut and 0.6 of the time that is left, then without cut;      *)
(* iterative_deepening() calls search() with a size limit of 1, 2, ...,    *)
(* until a derivation is found or the context is done; and search() steps  *)
(* a Div (Balanced) until it is empty.  As the templates of the code it    *)
(* is generic in what is searched for.                                     *)
(***************************************************************************)
EXTENDS Balanced

CONSTANTS
  Inputs,        \* what the prover may be run on
  StartTask(_),  \* Cont::start of the method, for an input
  StartVal(_),   \* the search state main() makes of an input
  MaxCost(_),    \* bound on the limit iterative_deepening() gets to
  Output(_)      \* what is returned of the state a search has succeeded in

ASSUME ScheduleAssumption ==
  \A p \in Inputs :
    /\ StartTask(p) \in Starts /\ StartVal(p) \in Val
    /\ MaxCost(p) \in Nat /\ 1..MaxCost(p) \subseteq Limits

VARIABLES
  problem, \* the input of this run
  phase,   \* "deepen": between searches, "first": in one, before its first
           \* step, "search": after it, "returned"
  mark,    \* As and ss, saved at the start of a search
  clock,   \* 0, 1: ctx1 has timed out, 2: ctx2 as well
  proof    \* out.proof with out.val, none or one; limit is out.cost

scheduleVars == <<problem, vars, phase, mark, clock, proof>>
-----------------------------------------------------------------------------
ScheduleInit ==
  /\ problem \in Inputs
  /\ state = StartState(StartVal(problem))
  /\ saves = <<>> /\ brk = 0 /\ limit = 0 /\ cut = TRUE /\ won = FALSE
  /\ phase = "deepen"
  /\ mark = [ss |-> state, As |-> brk]
  /\ clock = 0
  /\ proof = <<>>

(* ctx.done() for the context of the current iterative_deepening().        *)
CtxDone == clock >= IF cut THEN 1 ELSE 2

(* The next search, with the next limit.                                   *)
Deepen ==
  /\ phase = "deepen" /\ ~ CtxDone
  /\ limit < MaxCost(problem)
  /\ limit' = limit + 1
  /\ mark' = [ss |-> state, As |-> brk]
  /\ saves' = Started(StartTask(problem), limit + 1, state, brk)
  /\ brk' = brk + 1
  /\ phase' = "first"
  /\ UNCHANGED <<problem, state, cut, won, clock, proof>>

(* d.step(); search() returns as soon as it has found something.           *)
Step ==
  /\ phase \in {"first", "search"}
  /\ Next
  /\ IF won'
     THEN phase' = "returned" /\ proof' = <<Output(state'.val)>>
     ELSE phase' = "search" /\ UNCHANGED proof
  /\ UNCHANGED <<problem, mark, clock>>

BadAbandonKeepsState ==
  /\ phase = "search"
  /\ saves = <<>> \/ CtxDone
  /\ saves' = <<>> /\ brk' = mark.As
  /\ phase' = "deepen"
  /\ UNCHANGED <<problem, state, limit, cut, won, mark, clock, proof>>

(* search() returns false: nothing is left, or the context is done, which  *)
(* it asks after the first step and every hundred steps: here, after any.  *)
Abandon ==
  /\ phase = "search"
  /\ saves = <<>> \/ CtxDone
  /\ saves' = <<>> /\ brk' = mark.As /\ state' = mark.ss
  /\ phase' = "deepen"
  /\ UNCHANGED <<problem, limit, cut, won, mark, clock, proof>>

BadTimeOutGivesUp ==
  /\ phase = "deepen" /\ CtxDone
  /\ phase' = "returned"
  /\ UNCHANGED <<problem, vars, mark, clock, proof>>

BadTimeOutKeepsCut ==
  /\ phase = "deepen" /\ CtxDone
  /\ IF cut THEN limit' = 0 /\ UNCHANGED phase ELSE phase' = "returned" /\ UNCHANGED limit
  /\ UNCHANGED <<problem, saves, state, brk, cut, won, mark, clock, proof>>

(* iterative_deepening() returns without a proof: schedule() calls it      *)
(* again without cut, and returns the second time.                         *)
TimeOut ==
  /\ phase = "deepen" /\ CtxDone
  /\ IF cut
     THEN cut' = FALSE /\ limit' = 0 /\ UNCHANGED phase
     ELSE phase' = "returned" /\ UNCHANGED <<cut, limit>>
  /\ UNCHANGED <<problem, saves, state, brk, won, mark, clock, proof>>

Tick ==
  /\ clock < 2 /\ phase # "returned"
  /\ clock' = clock + 1
  /\ UNCHANGED <<problem, vars, phase, mark, proof>>

ScheduleNext == Deepen \/ Step \/ Abandon \/ TimeOut \/ Tick

ScheduleSpec == ScheduleInit /\ [][ScheduleNext]_scheduleVars

(* Time passes, and the program runs.  How many steps it takes is left     *)
(* open but for the first one of a search; it does ask the context.        *)
FirstStep == phase = "first" /\ Step
FairScheduleSpec ==
  /\ ScheduleSpec
  /\ WF_scheduleVars(Tick)
  /\ WF_scheduleVars(Deepen \/ FirstStep \/ Abandon \/ TimeOut)
-----------------------------------------------------------------------------
(***************************************************************************)
(* Every search starts from the state the prover started with: a search    *)
(* that fails or is abandoned leaves nothing behind.                       *)
(***************************************************************************)
StartsAfresh ==
  phase = "deepen" => state = StartState(StartVal(problem)) /\ brk = 0

(***************************************************************************)
(* The prover does not give up before the deadline.                        *)
(***************************************************************************)
UsesItsTime == phase = "returned" /\ proof = <<>> => clock = 2

(***************************************************************************)
(* It does give up, or finds a proof: no run goes on forever.              *)
(***************************************************************************)
Returns == <>(phase = "returned")
=============================================================================
