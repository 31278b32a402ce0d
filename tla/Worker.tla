-------------------------------- MODULE Worker --------------------------------
(***************************************************************************)
(* The proving service of cloud/worker/worker.go, as its clients see it:   *)
(* instances of one server, each with a semaphore that lets one Prove()    *)
(* run at a time.  A client has one call open per problem.  Instances are  *)
(* replaced when a revision is deployed or when they crash; calls are lost *)
(* with them or on the way.  A client that gives up cancels the context of *)
(* the handler, which goes on until its prover has returned.               *)
(***************************************************************************)
EXTENDS Naturals, FiniteSets

CONSTANTS
  Problem,    \* the problems
  Server,     \* the instances
  Revision,   \* the commits an instance may have been built from
  Commit,     \* the commit the client asks for
  MaxFaults   \* bound on what goes wrong outside the code

ASSUME WorkerAssumption == Commit \in Revision /\ MaxFaults \in Nat

VARIABLES
  valid,      \* the request names a prover, with a timeout below maxTimeout
  revision,   \* server.commit, by instance
  sem,        \* server.sem is held, by instance
  handlers,   \* the calls of Prove() that run
  rpc,        \* the client's side of the call for a problem
  faults      \* how much has gone wrong

service == <<revision, sem, handlers, rpc, faults>>

Handler == [server : Server, problem : Problem, at : {"check", "prove"}, heard : BOOLEAN]

Code == {"ResourceExhausted", "Unavailable", "InvalidArgument", "Internal", "Canceled"}
Case == [code : {"OK"}, solved : BOOLEAN, commit : Revision]
Rpc == [code : {"none", "sent", "running"} \cup Code] \cup Case

Status(code) == [code |-> code]
Fault == faults < MaxFaults /\ faults' = faults + 1

(* Several clients at once: rpc with s for those in ps.                    *)
Told(ps, s) == [p \in Problem |-> IF p \in ps THEN s ELSE rpc[p]]

(* The handlers, when nobody waits for the answers to ps any more.         *)
Orphaned(ps) == {[h EXCEPT !.heard = @ /\ h.problem \notin ps] : h \in handlers}

ServiceInit ==
  /\ valid \in BOOLEAN
  /\ revision \in [Server -> Revision]
  /\ sem = [w \in Server |-> FALSE]
  /\ handlers = {}
  /\ rpc = [p \in Problem |-> Status("none")]
  /\ faults = 0
-----------------------------------------------------------------------------
(* s.sem.TryAcquire fails.                                                 *)
Refuse(w, p) ==
  /\ rpc[p] = Status("sent") /\ sem[w]
  /\ rpc' = Told({p}, Status("ResourceExhausted"))
  /\ UNCHANGED <<valid, revision, sem, handlers, faults>>

TryAcquire(w, p) ==
  /\ rpc[p] = Status("sent") /\ ~ sem[w]
  /\ sem' = [sem EXCEPT ![w] = TRUE]
  /\ handlers' = handlers \cup {[server |-> w, problem |-> p, at |-> "check", heard |-> TRUE]}
  /\ rpc' = Told({p}, Status("running"))
  /\ UNCHANGED <<valid, revision, faults>>

(* Prove() returns, and the deferred Release() runs.                       *)
Answer(h, s) ==
  /\ handlers' = handlers \ {h}
  /\ sem' = [sem EXCEPT ![h.server] = FALSE]
  /\ rpc' = IF h.heard THEN Told({h.problem}, s) ELSE rpc

BadCheck(h) ==
  /\ h.at = "check"
  /\ IF valid THEN handlers' = (handlers \ {h}) \cup {[h EXCEPT !.at = "prove"]} /\ UNCHANGED <<sem, rpc>>
     ELSE Answer(h, Status("InvalidArgument"))
  /\ UNCHANGED <<valid, revision, faults>>

BadCheckReleases(h) ==
  /\ h.at = "check"
  /\ IF revision[h.server] # Commit THEN Answer(h, Status("Unavailable"))
     ELSE IF ~ valid THEN Answer(h, Status("InvalidArgument"))
     ELSE /\ handlers' = (handlers \ {h}) \cup {[h EXCEPT !.at = "prove"]}
          /\ sem' = [sem EXCEPT ![h.server] = FALSE] /\ UNCHANGED rpc
  /\ UNCHANGED <<valid, revision, faults>>

(* What is checked before the prover is started.                           *)
Check(h) ==
  /\ h.at = "check"
  /\ IF revision[h.server] # Commit THEN Answer(h, Status("Unavailable"))
     ELSE IF ~ valid THEN Answer(h, Status("InvalidArgument"))
     ELSE handlers' = (handlers \ {h}) \cup {[h EXCEPT !.at = "prove"]} /\ UNCHANGED <<sem, rpc>>
  /\ UNCHANGED <<valid, revision, faults>>

(* The prover returns before its timeout, or soon after.                   *)
Proved(h) ==
  /\ h.at = "prove"
  /\ \E b \in BOOLEAN : Answer(h, [code |-> "OK", solved |-> b, commit |-> revision[h.server]])
  /\ UNCHANGED <<valid, revision, faults>>

(* The prover, or the validation of its proof, fails.                      *)
ProveFails(h) ==
  /\ h.at = "prove" /\ Fault
  /\ Answer(h, Status("Internal"))
  /\ UNCHANGED <<valid, revision>>

(* The connection breaks: the client learns that, the handler its context  *)
(* is done.                                                                *)
Lost(p) ==
  /\ rpc[p] \in {Status("sent"), Status("running")} /\ Fault
  /\ rpc' = Told({p}, Status("Unavailable"))
  /\ handlers' = Orphaned({p})
  /\ UNCHANGED <<valid, revision, sem>>

(* An instance is replaced by one of the current revision.                 *)
Replace(w) ==
  LET mine == {h \in handlers : h.server = w}
  IN /\ IF revision[w] = Commit THEN Fault ELSE UNCHANGED faults
     /\ revision' = [revision EXCEPT ![w] = Commit]
     /\ sem' = [sem EXCEPT ![w] = FALSE]
     /\ handlers' = handlers \ mine
     /\ rpc' = Told({h.problem : h \in {g \in mine : g.heard}}, Status("Unavailable"))
     /\ UNCHANGED valid

Serve(p) == \E w \in Server : Refuse(w, p) \/ TryAcquire(w, p)
Handle(h) == h \in handlers /\ (Check(h) \/ Proved(h) \/ ProveFails(h))

ServiceNext ==
  \/ \E p \in Problem : Serve(p) \/ Lost(p)
  \/ \E h \in Handler : Handle(h)
  \/ \E w \in Server : Replace(w)

(* The infrastructure delivers calls and completes a deployment, and a     *)
(* prover stops at its timeout.                                            *)
ServiceFairness ==
  /\ \A p \in Problem : WF_service(Serve(p))
  /\ \A w \in Server : WF_service(\E h \in Handler : h.server = w /\ Handle(h))
  /\ \A w \in Server : WF_service(revision[w] # Commit /\ Replace(w))
-----------------------------------------------------------------------------
(* The instances, their handlers and the calls.                            *)
ServiceTypeOK ==
  /\ valid \in BOOLEAN
  /\ revision \in [Server -> Revision]
  /\ sem \in [Server -> BOOLEAN]
  /\ handlers \subseteq Handler
  /\ rpc \in [Problem -> Rpc]
  /\ faults \in 0..MaxFaults

(***************************************************************************)
(* An instance runs one prover at a time, those nobody waits for any more  *)
(* included; else the times that are measured mean nothing.                *)
(***************************************************************************)
OneProver ==
  \A w \in Server : Cardinality({h \in handlers : h.server = w}) <= 1
=============================================================================
