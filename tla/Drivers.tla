------------------------------- MODULE Drivers -------------------------------
(***************************************************************************)
(* A call of Prove() of vampire.go, eprover.go, leancop.go or tableau.go:  *)
(* the prover runs in a process group of its own under RunWithMemLimit()   *)
(* of limit.go, whose goroutine kills the group when the context is done,  *)
(* and the driver tells from how it ended what came of the problem.        *)
(* tableau.go converts the problem first, with two more processes.         *)
(* prolog.go runs strategies one after the other instead, each with a      *)
(* share of the time, under exec.CommandContext(), whose goroutine kills   *)
(* the process alone.                                                      *)
(***************************************************************************)
EXTENDS Naturals

CONSTANT Strategies  \* how many the schedule of prolog.go has

ASSUME ScheduleAssumption == Strategies \in Nat \ {0}

VARIABLES
  driver,
  ctx,       \* proverCtx: "open", "expired" or "canceled" (by the caller)
  pc,        \* "convert", "start", "wait", "classify" or "returned"
  stage,     \* the conversions still to do, or the strategies with this one
  slice,     \* sctx, apart from proverCtx: "open" or "expired"
  prover,    \* its process: "none", "running", "zombie" or "reaped"
  ended,     \* how it ended, of Endings
  killedBy,  \* who sent SIGKILL: "nobody", "kernel" or "killer"
  offspring, \* processes it has started live on and hold its output
  killer,    \* the goroutine of RunWithMemLimit(): "none", "waiting" or "done"
  result     \* "none", "solved", "unsolved", "killed", "oom", "error" or "panic"

vars == <<driver, ctx, pc, stage, slice, prover, ended, killedBy, offspring, killer, result>>
plan == <<stage, slice>>
group == <<prover, ended, killedBy, offspring>>

Drivers == {"vampire", "eprover", "leancop", "tableau", "prolog"}

\* "proved" and "gave up" are exits with success and a status the driver knows (the
\* summary of tableau), "out of memory" is a status of eprover, "odd" one it does not
\* know; "stopped" is the exit code or the message by which a prover says that it
\* stopped, "failed" any other; "segv" and "killed" are signals.
Endings == {"proved", "gave up", "out of memory", "odd", "stopped", "failed", "segv", "killed"}
Successful(e) == e \in {"proved", "gave up", "out of memory", "odd"}

Init ==
  /\ driver \in Drivers
  /\ ctx = "open"
  /\ pc = IF driver = "tableau" THEN "convert" ELSE "start"
  /\ stage = IF driver = "prolog" THEN Strategies ELSE 2
  /\ slice = "open"
  /\ prover = "none" /\ ended = "none" /\ killedBy = "nobody" /\ offspring = FALSE
  /\ killer = "none" /\ result = "none"

CtxEnds(how) ==
  /\ ctx = "open" /\ result = "none"
  /\ ctx' = how
  /\ UNCHANGED <<driver, pc, plan, group, killer, result>>

Return(r) == pc' = "returned" /\ result' = r
-----------------------------------------------------------------------------
\* eprover.FOFToCNF(), then tool.TptpToProto().
Convert ==
  /\ pc = "convert" /\ ctx = "open"
  /\ stage' = stage - 1
  /\ pc' = IF stage = 1 THEN "start" ELSE "convert"
  /\ UNCHANGED <<driver, ctx, slice, group, killer, result>>

\* The command fails, or is killed at the end of the context.  Both functions then return
\* ctx.Err(), but Prove() wraps it.
ConvertFails ==
  /\ pc = "convert"
  /\ Return("error")
  /\ UNCHANGED <<driver, ctx, plan, group, killer>>

\* The share of a strategy that is not the last one is over.
SliceEnds ==
  /\ driver = "prolog" /\ stage > 1 /\ slice = "open" /\ pc \in {"start", "wait", "classify"}
  /\ slice' = "expired"
  /\ UNCHANGED <<driver, ctx, pc, stage, group, killer, result>>

\* prolog.go goes on to the next strategy, or has no more.
NextStrategy ==
  IF stage = 1 THEN Return("unsolved") /\ UNCHANGED <<plan, group, killer>>
  ELSE /\ pc' = "start" /\ stage' = stage - 1 /\ slice' = "open"
       /\ prover' = "none" /\ ended' = "none" /\ killedBy' = "nobody" /\ killer' = "none"
       /\ UNCHANGED <<offspring, result>>

\* Start() fails: no driver expects an error that is no ExitError, except that two look at
\* the context first; prolog.go takes it like any failure.
StartFails ==
  /\ pc = "start" /\ driver # "prolog"
  /\ Return(IF driver \in {"vampire", "eprover"} /\ ctx = "expired" THEN "unsolved" ELSE "panic")
  /\ UNCHANGED <<driver, ctx, plan, group, killer>>

\* What prolog.go makes of an error of Run(): the deadline ends the schedule, the end of
\* its share the strategy.
RunFails ==
  \/ ctx = "expired" /\ Return("unsolved") /\ UNCHANGED <<plan, group, killer>>
  \/ ctx # "expired" /\ slice = "expired" /\ NextStrategy
  \/ ctx # "expired" /\ slice = "open" /\ Return("error") /\ UNCHANGED <<plan, group, killer>>

StrategyDoesNotStart ==
  /\ pc = "start" /\ driver = "prolog"
  /\ RunFails
  /\ UNCHANGED <<driver, ctx>>

Start ==
  /\ pc = "start"
  /\ pc' = "wait" /\ prover' = "running" /\ killer' = "waiting"
  /\ UNCHANGED <<driver, ctx, plan, ended, killedBy, offspring, result>>
-----------------------------------------------------------------------------
\* (Prolog runs the strategies itself.)
Fork ==
  /\ prover = "running" /\ ~offspring /\ driver # "prolog"
  /\ offspring' = TRUE
  /\ UNCHANGED <<driver, ctx, pc, plan, prover, ended, killedBy, killer, result>>

ProverEnds(e) ==
  /\ prover = "running"
  /\ e = "out of memory" => driver = "eprover"
  /\ prover' = "zombie" /\ ended' = e
  /\ killedBy' = IF e = "killed" THEN "kernel" ELSE killedBy
  /\ UNCHANGED <<driver, ctx, pc, plan, offspring, killer, result>>

\* proverCtx is done, or sctx, or the call that waits for it returns.
Over == ctx # "open" \/ slice = "expired" \/ pc \notin {"start", "wait"}

\* Mutant: only the prover is killed, not its group.
BadKill ==
  /\ killer = "waiting" /\ Over
  /\ killer' = "done"
  /\ prover' = IF prover = "running" THEN "zombie" ELSE prover
  /\ ended' = IF prover = "running" THEN "killed" ELSE ended
  /\ killedBy' = IF prover = "running" THEN "killer" ELSE killedBy
  /\ UNCHANGED <<driver, ctx, pc, plan, offspring, result>>

\* The goroutine of RunWithMemLimit(), or of exec.
Kill ==
  /\ killer = "waiting" /\ Over
  /\ killer' = "done" /\ offspring' = FALSE
  /\ prover' = IF prover = "running" THEN "zombie" ELSE prover
  /\ ended' = IF prover = "running" THEN "killed" ELSE ended
  /\ killedBy' = IF prover = "running" THEN "killer" ELSE killedBy
  /\ UNCHANGED <<driver, ctx, pc, plan, result>>

\* Wait() reaps the prover and reads its output to the end.
Wait ==
  /\ pc = "wait" /\ prover = "zombie" /\ ~offspring
  /\ pc' = "classify" /\ prover' = "reaped"
  /\ UNCHANGED <<driver, ctx, plan, ended, killedBy, offspring, killer, result>>
-----------------------------------------------------------------------------
\* Mutant: a failure at the deadline is not told from others.
BadVampire(e) ==
  CASE e = "proved" -> "solved"
    [] e = "stopped" -> "unsolved"
    [] OTHER -> "error"

\* What each driver makes of the end of its prover.
Vampire(e) ==
  CASE e = "proved" -> "solved"
    [] ~Successful(e) /\ (ctx = "expired" \/ e = "stopped") -> "unsolved"
    [] OTHER -> "error"

Eprover(e) ==
  CASE e = "proved" -> "solved"
    [] e = "out of memory" -> "oom"
    [] ~Successful(e) /\ (ctx = "expired" \/ e = "stopped") -> "unsolved"
    [] OTHER -> "error"

Leancop(e) ==
  CASE e = "proved" -> "solved"
    [] e \in {"gave up", "segv", "stopped"} -> "unsolved"
    [] ~Successful(e) /\ ctx = "expired" -> "unsolved"
    [] OTHER -> "error"

Tableau(e) ==
  CASE e = "proved" -> "solved"
    [] e = "gave up" -> "unsolved"
    [] e = "killed" -> "killed"
    [] OTHER -> "error"

Classify ==
  /\ pc = "classify" /\ driver # "prolog"
  /\ Return(CASE driver = "vampire" -> Vampire(ended)
              [] driver = "eprover" -> Eprover(ended)
              [] driver = "leancop" -> Leancop(ended)
              [] driver = "tableau" -> Tableau(ended))
  /\ UNCHANGED <<driver, ctx, plan, group, killer>>

\* The status lines of Prolog: a theorem, none, or no line that is known.
ClassifyStrategy ==
  /\ pc = "classify" /\ driver = "prolog"
  /\ CASE ended = "proved" -> Return("solved") /\ UNCHANGED <<plan, group, killer>>
       [] ended = "gave up" -> NextStrategy
       [] ended = "odd" -> Return("error") /\ UNCHANGED <<plan, group, killer>>
       [] OTHER -> RunFails
  /\ UNCHANGED <<driver, ctx>>

Next ==
  \/ CtxEnds("expired") \/ CtxEnds("canceled")
  \/ Convert \/ ConvertFails \/ Start \/ StartFails \/ Fork
  \/ SliceEnds \/ StrategyDoesNotStart \/ ClassifyStrategy
  \/ \E e \in Endings : ProverEnds(e)
  \/ Kill \/ Wait \/ Classify

Spec == Init /\ [][Next]_vars

\* Go schedules its goroutines, the timeout of the request passes (worker.go:53, which
\* sets one for every call, those of prolog.go included), and a command of the conversion
\* is killed with its context.
FairSpec ==
  /\ Spec
  /\ WF_vars(Start \/ StartFails) /\ WF_vars(Kill) /\ WF_vars(Wait) /\ WF_vars(Classify \/ ClassifyStrategy)
  /\ WF_vars(CtxEnds("expired")) /\ WF_vars(ctx # "open" /\ ConvertFails)
-----------------------------------------------------------------------------
TypeOK ==
  /\ driver \in Drivers /\ ctx \in {"open", "expired", "canceled"}
  /\ pc \in {"convert", "start", "wait", "classify", "returned"} /\ stage \in Nat
  /\ slice \in {"open", "expired"}
  /\ prover \in {"none", "running", "zombie", "reaped"}
  /\ ended \in Endings \union {"none"} /\ killedBy \in {"nobody", "kernel", "killer"}
  /\ (ended = "killed" <=> killedBy # "nobody")
  /\ offspring \in BOOLEAN /\ killer \in {"none", "waiting", "done"}
  /\ result \in {"none", "solved", "unsolved", "killed", "oom", "error", "panic"}

\* The goroutine kills only a prover whose context is over, and a prover that it killed at
\* the deadline counts as one that found no proof, with every driver; an error would make
\* the master try again for ever.  A strategy whose share is over does not end the call.
TimeoutIsUnsolved ==
  killedBy = "killer" =>
    /\ ctx # "open" \/ slice = "expired"
    /\ ctx = "open" => pc # "returned"
    /\ ctx = "expired" /\ pc = "returned" => result \in {"unsolved", "killed"}

\* Prove() returns, even if the prover never ends, or leaves processes that hold its
\* output open, on which Wait() waits.
Returns == <>(pc = "returned")

\* RunWithMemLimit() leaves no process of the group, also when the prover ends by itself.
NothingLeft == killer = "waiting" ~> [](prover # "running" /\ ~offspring)
=============================================================================
