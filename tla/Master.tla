-------------------------------- MODULE Master --------------------------------
(***************************************************************************)
(* run() of cloud/master/master.go: one goroutine per problem in an        *)
(* errgroup, which gets the result from the service of Worker and sends it *)
(* on a channel, and one that collects the results in a report.  An error  *)
(* of any of them cancels the context they share.                          *)
(***************************************************************************)
EXTENDS Worker, Sequences, SequencesExt

CONSTANTS
  HasEquality,   \* the problems with equality
  MaxInFlight,   \* --max_in_flight
  MaxProcess,    \* the weight of processSem
  ChanSize,      \* the capacity of resultsChan
  NoCase         \* nil

ASSUME MasterAssumption ==
  /\ HasEquality \subseteq Problem /\ IsFiniteSet(Problem)
  /\ {MaxInFlight, MaxProcess} \subseteq Nat \ {0} /\ ChanSize \in Nat \ {0}
  /\ NoCase \notin [name : Problem, case : Case]

VARIABLES
  equalityOnly,   \* --equality_only
  refused,        \* the problems TptpHasEquality() fails for whenever it is called
  pc,             \* where the goroutine of a problem is
  inFlightSem, processSem,   \* the units taken
  resultsChan,
  taken,          \* i of the collector
  collecting,     \* the collector has not returned
  report,         \* report.Cases
  canceled,       \* gCtx is done: a goroutine has returned an error
  outcome         \* of run(): "none" as long as it waits

master == <<equalityOnly, refused, pc, inFlightSem, processSem, resultsChan, taken, collecting,
            report, canceled, outcome>>
vars == <<valid, service, master>>

Steps == {"get", "sieve", "check", "skip", "throttle", "call", "wait", "send", "returned"}

Init ==
  /\ ServiceInit
  /\ equalityOnly \in BOOLEAN
  /\ refused \in IF equalityOnly THEN SUBSET Problem ELSE {{}}
  /\ pc = [p \in Problem |-> "get"]
  /\ inFlightSem = 0 /\ processSem = 0
  /\ resultsChan = <<>> /\ taken = 0 /\ collecting = TRUE /\ report = <<>>
  /\ canceled = FALSE
  /\ outcome = "none"
-----------------------------------------------------------------------------
At(p, step) == pc[p] = step
Goto(p, step) == pc' = [pc EXCEPT ![p] = step]
Return(p, err) == Goto(p, "returned") /\ canceled' = (canceled \/ err)

Get(p) ==
  /\ At(p, "get")
  /\ Goto(p, IF equalityOnly THEN "sieve" ELSE "throttle")
  /\ UNCHANGED <<valid, service, equalityOnly, refused, inFlightSem, processSem, resultsChan, taken,
                 collecting, report, canceled, outcome>>

GetFails(p) ==
  /\ At(p, "get") /\ Fault
  /\ Return(p, TRUE)
  /\ UNCHANGED <<valid, revision, sem, handlers, rpc, equalityOnly, refused, inFlightSem, processSem,
                 resultsChan, taken, collecting, report, outcome>>

AcquireProcess(p) ==
  /\ At(p, "sieve") /\ processSem < MaxProcess
  /\ processSem' = processSem + 1
  /\ Goto(p, "check")
  /\ UNCHANGED <<valid, service, equalityOnly, refused, inFlightSem, resultsChan, taken, collecting,
                 report, canceled, outcome>>

(* TptpHasEquality() is called until it returns no error; it returns one   *)
(* whenever gCtx is done, and for a problem that the tool refuses.         *)
ToolFails(p) == canceled \/ p \in refused

Sieve(p) ==
  /\ At(p, "check") /\ ~ ToolFails(p)
  /\ processSem' = processSem - 1
  /\ Goto(p, IF p \in HasEquality THEN "throttle" ELSE "skip")
  /\ UNCHANGED <<valid, service, equalityOnly, refused, inFlightSem, resultsChan, taken, collecting,
                 report, canceled, outcome>>

SieveAgain(p) == At(p, "check") /\ UNCHANGED vars

(* The collector counts the problems that are filtered out as well.        *)
Skip(p) ==
  /\ At(p, "skip") /\ Len(resultsChan) < ChanSize
  /\ resultsChan' = Append(resultsChan, NoCase)
  /\ Return(p, FALSE)
  /\ UNCHANGED <<valid, service, equalityOnly, refused, inFlightSem, processSem, taken, collecting,
                 report, outcome>>

AcquireInFlight(p) ==
  /\ At(p, "throttle") /\ inFlightSem < MaxInFlight
  /\ inFlightSem' = inFlightSem + 1
  /\ Goto(p, "call")
  /\ UNCHANGED <<valid, service, equalityOnly, refused, processSem, resultsChan, taken, collecting,
                 report, canceled, outcome>>

BadAcquireFails(p) ==
  /\ At(p, "throttle") /\ canceled
  /\ Return(p, TRUE)
  /\ UNCHANGED <<valid, service, equalityOnly, refused, inFlightSem, processSem, resultsChan, taken,
                 collecting, report, outcome>>

(* Acquire() returns the error of gCtx.                                    *)
AcquireFails(p) ==
  /\ pc[p] \in {"sieve", "throttle"} /\ canceled
  /\ Return(p, TRUE)
  /\ UNCHANGED <<valid, service, equalityOnly, refused, inFlightSem, processSem, resultsChan, taken,
                 collecting, report, outcome>>

(* c.Prove(): a call on a context that is done is not made.                *)
Call(p) ==
  /\ At(p, "call")
  /\ rpc' = Told({p}, Status(IF canceled THEN "Canceled" ELSE "sent"))
  /\ Goto(p, "wait")
  /\ UNCHANGED <<valid, revision, sem, handlers, faults, equalityOnly, refused, inFlightSem, processSem,
                 resultsChan, taken, collecting, report, canceled, outcome>>

CallCanceled(p) ==
  /\ rpc[p] \in {Status("sent"), Status("running")} /\ canceled
  /\ rpc' = Told({p}, Status("Canceled"))
  /\ handlers' = Orphaned({p})
  /\ UNCHANGED <<valid, revision, sem, faults, master>>

Retried == {Status("Unavailable"), Status("Internal")}

BadRetryReacquires(p) ==
  /\ At(p, "wait") /\ rpc[p] \in Retried
  /\ Goto(p, "throttle")
  /\ rpc' = Told({p}, Status("none"))
  /\ UNCHANGED <<valid, revision, sem, handlers, faults, equalityOnly, refused, inFlightSem, processSem,
                 resultsChan, taken, collecting, report, canceled, outcome>>

(* The call is made again, on a slot that is kept.                         *)
Retry(p) ==
  /\ At(p, "wait") /\ rpc[p] \in Retried
  /\ Goto(p, "call")
  /\ rpc' = Told({p}, Status("none"))
  /\ UNCHANGED <<valid, revision, sem, handlers, faults, equalityOnly, refused, inFlightSem, processSem,
                 resultsChan, taken, collecting, report, canceled, outcome>>

(* Any other error ends the benchmark.                                     *)
Abort(p) ==
  /\ At(p, "wait") /\ rpc[p] \in {Status(c) : c \in Code} \ Retried
  /\ Return(p, TRUE)
  /\ inFlightSem' = inFlightSem - 1
  /\ rpc' = Told({p}, Status("none"))
  /\ UNCHANGED <<valid, revision, sem, handlers, faults, equalityOnly, refused, processSem, resultsChan,
                 taken, collecting, report, outcome>>

Result(p) ==
  /\ At(p, "wait") /\ rpc[p] \in Case
  /\ Goto(p, "send")
  /\ UNCHANGED <<valid, service, equalityOnly, refused, inFlightSem, processSem, resultsChan, taken,
                 collecting, report, canceled, outcome>>

Send(p) ==
  /\ At(p, "send") /\ Len(resultsChan) < ChanSize
  /\ resultsChan' = Append(resultsChan, [name |-> p, case |-> rpc[p]])
  /\ Return(p, FALSE)
  /\ inFlightSem' = inFlightSem - 1
  /\ rpc' = Told({p}, Status("none"))
  /\ UNCHANGED <<valid, revision, sem, handlers, faults, equalityOnly, refused, processSem, taken,
                 collecting, report, outcome>>

(* "case <-gCtx.Done()" of either select.                                  *)
SendCanceled(p) ==
  /\ pc[p] \in {"skip", "send"} /\ canceled
  /\ Return(p, FALSE)
  /\ inFlightSem' = IF At(p, "send") THEN inFlightSem - 1 ELSE inFlightSem
  /\ rpc' = Told({p}, Status("none"))
  /\ UNCHANGED <<valid, revision, sem, handlers, faults, equalityOnly, refused, processSem, resultsChan,
                 taken, collecting, report, outcome>>

BadExpected == Cardinality(Problem) - 1
Expected == Cardinality(Problem)

Receive ==
  /\ collecting /\ taken < Expected /\ resultsChan # <<>>
  /\ taken' = taken + 1
  /\ resultsChan' = Tail(resultsChan)
  /\ report' = IF Head(resultsChan) = NoCase THEN report ELSE Append(report, Head(resultsChan))
  /\ UNCHANGED <<valid, service, equalityOnly, refused, pc, inFlightSem, processSem, collecting,
                 canceled, outcome>>

(* vlog.WriteString() fails.                                               *)
ReceiveFails ==
  /\ collecting /\ taken < Expected /\ resultsChan # <<>> /\ Head(resultsChan) # NoCase /\ Fault
  /\ resultsChan' = Tail(resultsChan)
  /\ collecting' = FALSE /\ canceled' = TRUE
  /\ UNCHANGED <<valid, revision, sem, handlers, rpc, equalityOnly, refused, pc, inFlightSem, processSem,
                 taken, report, outcome>>

CollectorReturns ==
  /\ collecting /\ (taken = Expected \/ canceled)
  /\ collecting' = FALSE
  /\ UNCHANGED <<valid, service, equalityOnly, refused, pc, inFlightSem, processSem, resultsChan, taken,
                 report, canceled, outcome>>

(* group.Wait() returns; the report is written when there was no error.    *)
Wait ==
  /\ outcome = "none"
  /\ ~ collecting /\ \A p \in Problem : At(p, "returned")
  /\ outcome' = IF canceled THEN "error" ELSE "report"
  /\ UNCHANGED <<valid, service, equalityOnly, refused, pc, inFlightSem, processSem, resultsChan, taken,
                 collecting, report, canceled>>

Prove(p) ==
  \/ Get(p) \/ GetFails(p)
  \/ AcquireProcess(p) \/ Sieve(p) \/ Skip(p)
  \/ AcquireInFlight(p) \/ AcquireFails(p)
  \/ Call(p) \/ CallCanceled(p) \/ Retry(p) \/ Abort(p) \/ Result(p)
  \/ Send(p) \/ SendCanceled(p)

Collect == Receive \/ ReceiveFails \/ CollectorReturns

Next ==
  \/ ServiceNext /\ UNCHANGED master
  \/ \E p \in Problem : Prove(p) \/ SieveAgain(p)
  \/ Collect
  \/ Wait

Spec == Init /\ [][Next]_vars

(* Goroutines run; a unit of a semaphore and a place in the channel go to  *)
(* those that wait, in turn.  As Sieve(p) is a step of Prove(p), this also *)
(* assumes that TptpHasEquality() succeeds at last for a problem that is   *)
(* not refused, if it is called again and again while gCtx is open.        *)
FairSpec ==
  /\ Spec /\ ServiceFairness
  /\ \A p \in Problem : SF_vars(Prove(p))
  /\ WF_vars(Collect) /\ WF_vars(Wait)
-----------------------------------------------------------------------------
(* The state of run() and of the workers: neither semaphore is below zero  *)
(* or above its weight, and the channel holds no more than its capacity.   *)
TypeOK ==
  /\ ServiceTypeOK
  /\ equalityOnly \in BOOLEAN /\ refused \subseteq Problem
  /\ pc \in [Problem -> Steps]
  /\ inFlightSem \in 0..MaxInFlight /\ processSem \in 0..MaxProcess
  /\ resultsChan \in Seq({NoCase} \cup [name : Problem, case : Case])
  /\ Len(resultsChan) <= ChanSize
  /\ taken \in 0..Cardinality(Problem) /\ collecting \in BOOLEAN
  /\ report \in Seq([name : Problem, case : Case])
  /\ canceled \in BOOLEAN
  /\ outcome \in {"none", "error", "report"}

(***************************************************************************)
(* The semaphores account for the goroutines that hold them, whichever way *)
(* these have gone: no more calls are open than --max_in_flight, and none  *)
(* is left when run() returns.                                             *)
(***************************************************************************)
Throttled ==
  /\ inFlightSem = Cardinality({p \in Problem : pc[p] \in {"call", "wait", "send"}})
  /\ processSem = Cardinality({p \in Problem : At(p, "check")})
  /\ \A p \in Problem : rpc[p].code # "none" => pc[p] \in {"wait", "send"}

(***************************************************************************)
(* A report is whole: however often calls were lost, refused or repeated,  *)
(* it has one case for every problem that was not filtered out.            *)
(***************************************************************************)
ReportWhole ==
  outcome = "report" =>
    LET wanted == IF equalityOnly THEN HasEquality ELSE Problem
    IN /\ Len(report) = Cardinality(wanted)
       /\ {report[i].name : i \in 1..Len(report)} = wanted

(***************************************************************************)
(* The report of a commit has only results of that commit, even if an      *)
(* instance of an earlier revision was still in service.                   *)
(***************************************************************************)
OneRevision == \A i \in 1..Len(report) : report[i].case.commit = Commit

(***************************************************************************)
(* run() returns, unless a goroutine repeats for ever a call that always   *)
(* fails: the tool refuses its problem, or gCtx is done.  Such a one holds *)
(* up run() and, as long as gCtx is open, those that wait for its unit of  *)
(* processSem, but nobody else: all other goroutines return.               *)
(***************************************************************************)
Spins(p) == At(p, "check") /\ ToolFails(p)
Queued(p) == At(p, "sieve") /\ ~ canceled /\ processSem = MaxProcess

HeldUp ==
  /\ \E p \in Problem : Spins(p)
  /\ \A p \in Problem : Spins(p) \/ Queued(p) \/ At(p, "returned")

Ends == <>(outcome # "none" \/ HeldUp)
=============================================================================
