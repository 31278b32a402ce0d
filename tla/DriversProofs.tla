---------------------------- MODULE DriversProofs ----------------------------
(***************************************************************************)
(* What holds of the drivers for a schedule of any length.                 *)
(***************************************************************************)
EXTENDS Drivers, TLAPS

(* Who sent the signal is known from how the prover ended, and neither is  *)
(* known before it has.                                                    *)
Signals ==
  /\ killedBy # "nobody" <=> ended = "killed"
  /\ ended # "none" <=> prover \in {"zombie", "reaped"}
  /\ killedBy = "killer" => ctx # "open" \/ slice = "expired"

(* Each step of the call leaves the processes in a known state.            *)
Stages ==
  /\ pc \in {"convert", "start"} => prover = "none" /\ killer = "none"
  /\ pc = "wait" => prover \in {"running", "zombie"} /\ killer \in {"waiting", "done"}
  /\ pc = "classify" => prover = "reaped"
  /\ pc = "returned" => prover \in {"none", "reaped"}
  /\ pc = "convert" => driver = "tableau" /\ stage > 0
  /\ driver = "prolog" => stage > 0
  /\ slice = "expired" => driver = "prolog" /\ stage > 1
  /\ result # "none" <=> pc = "returned"

(* What a prover that was killed in time comes to.                         *)
Told ==
  killedBy = "killer" /\ pc = "returned" =>
    /\ ctx # "open"
    /\ ctx = "expired" => result \in {"unsolved", "killed"}

DInv == TypeOK /\ Signals /\ Stages /\ Told

(* Nothing runs at first.                                                  *)
LEMMA DInvInit == Init => DInv
<1> SUFFICES ASSUME Init PROVE DInv
  OBVIOUS
<1>1. stage \in Nat /\ stage > 0
  BY ScheduleAssumption DEF Init
<1>2. TypeOK
  BY <1>1 DEF Init, TypeOK, Drivers, Endings
<1>3. Signals /\ Told
  BY DEF Init, Signals, Told
<1>4. Stages
  BY <1>1 DEF Init, Stages, Drivers
<1>5. QED
  BY <1>2, <1>3, <1>4 DEF DInv

(* The call goes on; how the prover ended and what it comes to do not      *)
(* change.                                                                 *)
LEMMA DInvCall ==
  ASSUME DInv,
         \/ \E how \in {"expired", "canceled"} : CtxEnds(how)
         \/ Convert \/ ConvertFails \/ Start \/ StartFails \/ SliceEnds
  PROVE  DInv'
<1>1. TypeOK /\ Signals /\ Stages /\ Told
  BY DEF DInv
<1>2. CASE \E how \in {"expired", "canceled"} : CtxEnds(how)
  BY <1>1, <1>2 DEF CtxEnds, group, plan, DInv, TypeOK, Signals, Stages, Told
<1>3. CASE Convert \/ Start \/ SliceEnds
  BY <1>1, <1>3 DEF Convert, Start, SliceEnds, group, plan, DInv, TypeOK, Signals, Stages, Told
<1>4. CASE ConvertFails \/ StartFails
  BY <1>1, <1>4 DEF ConvertFails, StartFails, Return, group, plan, DInv, TypeOK, Signals, Stages, Told
<1>5. QED
  BY <1>2, <1>3, <1>4

(* The processes: a prover ends once, by itself or by a signal, and the    *)
(* goroutine sends one only when a context is over or the call has gone on *)
(* without the prover.                                                     *)
LEMMA DInvProcesses ==
  ASSUME DInv, Fork \/ (\E e \in Endings : ProverEnds(e)) \/ Kill \/ Wait
  PROVE  DInv'
<1>1. TypeOK /\ Signals /\ Stages /\ Told
  BY DEF DInv
<1>2. CASE Fork \/ Wait
  BY <1>1, <1>2 DEF Fork, Wait, group, plan, DInv, TypeOK, Signals, Stages, Told
<1>3. CASE \E e \in Endings : ProverEnds(e)
  <2>1. PICK e \in Endings : ProverEnds(e)
    BY <1>3
  <2>2. prover = "running" /\ killedBy = "nobody" /\ e # "none"
    BY <1>1, <2>1 DEF ProverEnds, Signals, Endings
  <2>3. QED
    BY <1>1, <2>1, <2>2 DEF ProverEnds, plan, DInv, TypeOK, Signals, Stages, Told
<1>4. CASE Kill
  <2>1. prover = "running" => ctx # "open" \/ slice = "expired"
    <3>1. prover = "running" => pc = "wait"
      BY <1>1 DEF TypeOK, Stages
    <3>2. QED
      BY <1>4, <3>1 DEF Kill, Over
  <2>2. QED
    <3>1. TypeOK'
      <4>1. ended' \in Endings \union {"none"}
        BY <1>1, <1>4 DEF Kill, TypeOK, Endings
      <4>2. QED
        BY <1>1, <1>4, <4>1 DEF Kill, plan, TypeOK
    <3>2. Signals'
      BY <1>1, <1>4, <2>1 DEF Kill, plan, TypeOK, Signals
    <3>3. Stages'
      BY <1>1, <1>4 DEF Kill, plan, Stages
    <3>4. Told'
      BY <1>1, <1>4, <2>1 DEF Kill, plan, Signals, Stages, Told
    <3>5. QED
      BY <3>1, <3>2, <3>3, <3>4 DEF DInv
<1>5. QED
  BY <1>2, <1>3, <1>4

(* No driver makes an error of a signal it was sent at the deadline.       *)
LEMMA DInvClassify ==
  ASSUME DInv, Classify
  PROVE  DInv'
<1>1. TypeOK /\ Signals /\ Stages /\ Told
  BY DEF DInv
<1>2. /\ pc = "classify" /\ pc' = "returned" /\ driver # "prolog" /\ slice = "open"
      /\ UNCHANGED <<driver, ctx, stage, slice, prover, ended, killedBy, offspring, killer>>
  <2>1. pc = "classify" /\ driver # "prolog" /\ pc' = "returned"
    BY DEF Classify, Return
  <2>2. slice = "open"
    BY <1>1, <2>1 DEF Stages, TypeOK
  <2>3. UNCHANGED <<driver, ctx, stage, slice, prover, ended, killedBy, offspring, killer>>
    BY DEF Classify, group, plan
  <2>4. QED
    BY <2>1, <2>2, <2>3
<1>3. /\ result' \in {"solved", "unsolved", "killed", "oom", "error"}
      /\ ended = "killed" /\ ctx = "expired" => result' \in {"unsolved", "killed"}
  BY <1>1 DEF Classify, Return, Vampire, Eprover, Leancop, Tableau, Successful, TypeOK, Drivers
<1>4. QED
  BY <1>1, <1>2, <1>3 DEF DInv, TypeOK, Signals, Stages, Told

(* The next strategy starts afresh, if there is one.                       *)
LEMMA DInvNextStrategy ==
  ASSUME DInv, driver = "prolog", NextStrategy, UNCHANGED <<driver, ctx>>,
         pc \in {"start", "classify"}, killedBy = "killer" => slice = "expired"
  PROVE  DInv'
<1>1. TypeOK /\ Signals /\ Stages /\ Told
  BY DEF DInv
<1>2. CASE stage = 1
  BY <1>1, <1>2 DEF NextStrategy, Return, plan, group, DInv, TypeOK, Signals, Stages, Told
<1>3. CASE stage # 1
  BY <1>1, <1>3 DEF NextStrategy, DInv, TypeOK, Signals, Stages, Told
<1>4. QED
  BY <1>2, <1>3

(* A strategy that is out of time leads to the next one, the end of the    *)
(* call to no error.                                                       *)
LEMMA DInvStrategies ==
  ASSUME DInv, StrategyDoesNotStart \/ ClassifyStrategy
  PROVE  DInv'
<1>1. TypeOK /\ Signals /\ Stages /\ Told
  BY DEF DInv
<1>2. /\ driver = "prolog" /\ pc \in {"start", "classify"} /\ UNCHANGED <<driver, ctx>>
      /\ pc = "start" => killedBy # "killer"
  BY <1>1 DEF StrategyDoesNotStart, ClassifyStrategy, TypeOK, Signals, Stages
<1>3. ASSUME NEW r \in {"solved", "unsolved", "error"}, Return(r), UNCHANGED <<plan, group, killer>>,
             killedBy = "killer" => ctx # "open" /\ (ctx = "expired" => r = "unsolved")
      PROVE  DInv'
  BY <1>1, <1>2, <1>3 DEF Return, plan, group, DInv, TypeOK, Signals, Stages, Told
<1>4. ASSUME RunFails PROVE DInv'
  <2>1. CASE ctx = "expired"
    BY <1>3, <1>4, <2>1 DEF RunFails
  <2>2. CASE ctx # "expired" /\ slice = "expired"
    BY <1>2, <1>4, <2>2, DInvNextStrategy DEF RunFails
  <2>3. CASE ctx # "expired" /\ slice = "open"
    BY <1>1, <1>3, <1>4, <2>3 DEF RunFails, Signals
  <2>4. QED
    BY <1>1, <2>1, <2>2, <2>3 DEF TypeOK
<1>5. CASE StrategyDoesNotStart
  BY <1>4, <1>5 DEF StrategyDoesNotStart
<1>6. CASE ClassifyStrategy
  <2>1. CASE ended = "proved"
    BY <1>1, <1>3, <1>6, <2>1 DEF ClassifyStrategy, Signals, TypeOK
  <2>2. CASE ended = "gave up"
    BY <1>1, <1>2, <1>6, <2>2, DInvNextStrategy DEF ClassifyStrategy, Signals, TypeOK
  <2>3. CASE ended = "odd"
    BY <1>1, <1>3, <1>6, <2>3 DEF ClassifyStrategy, Signals, TypeOK
  <2>4. CASE ended \notin {"proved", "gave up", "odd"}
    BY <1>4, <1>6, <2>4 DEF ClassifyStrategy
  <2>5. QED
    BY <2>1, <2>2, <2>3, <2>4
<1>7. QED
  BY <1>5, <1>6

(* A driver never makes an error of its own deadline, nor has a prover     *)
(* killed before a deadline has passed, for a schedule of any length and   *)
(* whichever process ends first.                                           *)
THEOREM DeadlineIsNoError == Spec => []TimeoutIsUnsolved
<1>1. DInv /\ [Next]_vars => DInv'
  <2>1. ASSUME DInv, UNCHANGED vars PROVE DInv'
    BY <2>1 DEF vars, DInv, TypeOK, Signals, Stages, Told
  <2>2. QED
    BY <2>1, DInvCall, DInvProcesses, DInvClassify, DInvStrategies DEF Next
<1>2. DInv => TimeoutIsUnsolved
  BY DEF DInv, TypeOK, Signals, Told, TimeoutIsUnsolved
<1>3. QED
  BY <1>1, <1>2, DInvInit, PTL DEF Spec
=============================================================================
