---------------------------- MODULE MasterProofs ----------------------------
(***************************************************************************)
(* What holds of run() and the workers for any number of problems and      *)
(* instances, any limits and any number of faults.                         *)
(***************************************************************************)
EXTENDS Master, TLAPS, FiniteSetTheorems, FunctionTheorems

(* The semaphore of an instance is held by its only handler.               *)
Exclusive ==
  /\ sem \in [Server -> BOOLEAN]
  /\ handlers \subseteq Handler
  /\ \A h \in handlers : sem[h.server]
  /\ \A g, h \in handlers : g.server = h.server => g = h

(* Handlers nobody listens to any more still hold their semaphores.        *)
LEMMA OrphanedHandlers ==
  ASSUME Exclusive, NEW ps
  PROVE  /\ Orphaned(ps) \subseteq Handler
         /\ \A h \in Orphaned(ps) : sem[h.server]
         /\ \A g, h \in Orphaned(ps) : g.server = h.server => g = h
<1>1. ASSUME NEW h \in Orphaned(ps)
      PROVE  \E g \in handlers :
               /\ h = [server |-> g.server, problem |-> g.problem, at |-> g.at,
                       heard |-> g.heard /\ g.problem \notin ps]
               /\ h \in Handler
  <2>1. PICK g \in handlers : h = [g EXCEPT !.heard = @ /\ g.problem \notin ps]
    BY <1>1 DEF Orphaned
  <2>2. g \in Handler
    BY DEF Exclusive
  <2>3. QED
    BY <2>1, <2>2 DEF Handler
<1>2. \A h \in Orphaned(ps) : \E g \in handlers : h.server = g.server
  BY <1>1
<1>3. ASSUME NEW h \in Orphaned(ps), NEW k \in Orphaned(ps), h.server = k.server
      PROVE  h = k
  <2>1. PICK g \in handlers :
          h = [server |-> g.server, problem |-> g.problem, at |-> g.at,
               heard |-> g.heard /\ g.problem \notin ps]
    BY <1>1
  <2>2. PICK f \in handlers :
          k = [server |-> f.server, problem |-> f.problem, at |-> f.at,
               heard |-> f.heard /\ f.problem \notin ps]
    BY <1>1
  <2>3. g.server = f.server
    BY <1>3, <2>1, <2>2
  <2>4. QED
    BY <2>1, <2>2, <2>3 DEF Exclusive
<1>4. QED
  BY <1>1, <1>2, <1>3 DEF Exclusive

(* No handler runs at first.                                               *)
LEMMA ExclusiveInit == Init => Exclusive
BY DEF Init, ServiceInit, Exclusive

(* TryAcquire() admits a handler only where there is none, and Release()   *)
(* runs when it returns.                                                   *)
LEMMA ExclusiveNext == Exclusive /\ [Next]_vars => Exclusive'
<1> SUFFICES ASSUME Exclusive, [Next]_vars PROVE Exclusive'
  OBVIOUS
<1>1. CASE UNCHANGED <<sem, handlers>>
  BY <1>1 DEF Exclusive
<1>2. ASSUME NEW ps, handlers' = Orphaned(ps), UNCHANGED sem PROVE Exclusive'
  BY <1>2, OrphanedHandlers DEF Exclusive
<1>3. ASSUME NEW w \in Server, NEW p \in Problem, TryAcquire(w, p) PROVE Exclusive'
  <2> DEFINE new == [server |-> w, problem |-> p, at |-> "check", heard |-> TRUE]
  <2>1. new \in Handler /\ new.server = w
    BY DEF Handler
  <2> HIDE DEF new
  <2>2. handlers' = handlers \cup {new} /\ sem' = [sem EXCEPT ![w] = TRUE] /\ ~ sem[w]
    BY <1>3 DEF TryAcquire, new
  <2>3. \A h \in handlers : h.server \in Server /\ h.server # w
    BY <2>2 DEF Exclusive, Handler
  <2>4. \A h \in handlers' : sem'[h.server]
    BY <2>1, <2>2, <2>3 DEF Exclusive
  <2>5. QED
    BY <2>1, <2>2, <2>3, <2>4 DEF Exclusive
<1>4. ASSUME NEW h \in handlers, NEW s, Answer(h, s) PROVE Exclusive'
  <2>1. h.server \in Server /\ \A g \in handlers : g.server \in Server
    BY DEF Exclusive, Handler
  <2>2. handlers' = handlers \ {h} /\ sem' = [sem EXCEPT ![h.server] = FALSE]
    BY <1>4 DEF Answer
  <2>3. \A g \in handlers' : g.server # h.server
    BY <2>2 DEF Exclusive
  <2>4. QED
    BY <2>1, <2>2, <2>3 DEF Exclusive
<1>5. ASSUME NEW h \in handlers, UNCHANGED sem,
             handlers' = (handlers \ {h}) \cup {[h EXCEPT !.at = "prove"]}
      PROVE  Exclusive'
  <2> DEFINE new == [h EXCEPT !.at = "prove"]
  <2>1. new \in Handler /\ new.server = h.server
    BY DEF Exclusive, Handler
  <2> HIDE DEF new
  <2>2. handlers' = (handlers \ {h}) \cup {new}
    BY <1>5 DEF new
  <2>3. \A g \in handlers \ {h} : g.server # h.server
    BY DEF Exclusive
  <2>4. QED
    BY <1>5, <2>1, <2>2, <2>3 DEF Exclusive
<1>6. ASSUME NEW w \in Server, Replace(w) PROVE Exclusive'
  <2>1. /\ sem' = [sem EXCEPT ![w] = FALSE]
        /\ handlers' = handlers \ {h \in handlers : h.server = w}
    BY <1>6 DEF Replace
  <2>2. \A h \in handlers : h.server \in Server
    BY DEF Exclusive, Handler
  <2>3. QED
    BY <2>1, <2>2 DEF Exclusive
<1>7. CASE ServiceNext
  <2>1. ASSUME NEW w \in Server, NEW p \in Problem, Refuse(w, p) PROVE Exclusive'
    BY <2>1, <1>1 DEF Refuse
  <2>2. ASSUME NEW p \in Problem, Lost(p) PROVE Exclusive'
    BY <2>2, <1>2 DEF Lost
  <2>3. ASSUME NEW h \in handlers, Check(h) PROVE Exclusive'
    BY <2>3, <1>4, <1>5 DEF Check
  <2>4. ASSUME NEW h \in handlers, Proved(h) \/ ProveFails(h) PROVE Exclusive'
    BY <2>4, <1>4 DEF Proved, ProveFails
  <2>5. QED
    BY <1>7, <1>3, <1>6, <2>1, <2>2, <2>3, <2>4 DEF ServiceNext, Serve, Handle
<1>8. CASE \E p \in Problem : Prove(p) \/ SieveAgain(p)
  <2>1. ASSUME NEW p \in Problem, CallCanceled(p) PROVE Exclusive'
    BY <2>1, <1>2 DEF CallCanceled
  <2>2. ASSUME NEW p \in Problem, Prove(p) \/ SieveAgain(p), ~ CallCanceled(p)
        PROVE  UNCHANGED <<sem, handlers>>
    BY <2>2 DEF Prove, Get, GetFails, AcquireProcess, Sieve, SieveAgain, Skip, AcquireInFlight,
                AcquireFails, Call, Retry, Abort, Result, Send, SendCanceled, vars, service
  <2>3. QED
    BY <1>8, <1>1, <2>1, <2>2
<1>9. CASE Collect \/ Wait \/ UNCHANGED vars
  BY <1>9, <1>1 DEF Collect, Receive, ReceiveFails, CollectorReturns, Wait, vars, service
<1>10. QED
  BY <1>7, <1>8, <1>9 DEF Next

(* An instance never runs two provers at once: a semaphore that is held    *)
(* belongs to the one handler that runs, heard or not.                     *)
THEOREM OneAtATime == Spec => []OneProver
<1>1. Exclusive => OneProver
  <2> SUFFICES ASSUME Exclusive, NEW w \in Server
               PROVE  Cardinality({h \in handlers : h.server = w}) <= 1
    BY DEF OneProver
  <2> DEFINE mine == {h \in handlers : h.server = w}
  <2>1. mine = {} \/ \E g \in mine : mine = {g}
    BY DEF Exclusive
  <2>2. ASSUME mine = {} PROVE Cardinality(mine) <= 1
    BY <2>2, FS_EmptySet
  <2>3. ASSUME NEW g, mine = {g} PROVE Cardinality(mine) <= 1
    <3>1. Cardinality({g}) = 1
      BY FS_Singleton
    <3>2. QED
      BY <2>3, <3>1
  <2>4. QED
    BY <2>1, <2>2, <2>3
<1>2. QED
  BY <1>1, ExclusiveInit, ExclusiveNext, PTL DEF Spec
-----------------------------------------------------------------------------
(* A call is open only while its goroutine waits for it, and only a call   *)
(* that runs has a handler with somebody to hear it, just one.             *)
Calls ==
  /\ pc \in [Problem -> Steps]
  /\ rpc \in [Problem -> Rpc]
  /\ \A h \in handlers : h.heard => rpc[h.problem] = Status("running")
  /\ \A g, h \in handlers : g.heard /\ h.heard /\ g.problem = h.problem => g = h
  /\ \A p \in Problem : rpc[p] # Status("none") => pc[p] \in {"wait", "send"}
  /\ \A p \in Problem : pc[p] = "send" => rpc[p] \in Case

(* The status codes and the cases a client may be told are told apart by   *)
(* their code.                                                             *)
LEMMA Statuses ==
  /\ \A c \in {"none", "sent", "running"} \cup Code :
       Status(c) \in Rpc /\ Status(c) \notin Case /\ Status(c).code = c
  /\ Case \subseteq Rpc
  /\ \A r \in Case : r.code = "OK"
  /\ \A c, d : Status(c) = Status(d) => c = d
<1>1. \A c : Status(c).code = c
  BY DEF Status
<1>2. \A c \in {"none", "sent", "running"} \cup Code : c # "OK"
  BY DEF Code
<1>3. \A r \in Case : r.code = "OK"
  BY DEF Case
<1>4. \A c \in {"none", "sent", "running"} \cup Code :
        Status(c) \in [code : {"none", "sent", "running"} \cup Code]
  BY DEF Status
<1>5. QED
  BY <1>1, <1>2, <1>3, <1>4 DEF Rpc

(* Of the handlers, those that are heard are left as they were.            *)
LEMMA OrphanedHeard ==
  ASSUME handlers \subseteq Handler, NEW ps, NEW h \in Orphaned(ps), h.heard
  PROVE  h \in handlers /\ h.problem \notin ps
<1>1. PICK g \in handlers : h = [g EXCEPT !.heard = @ /\ g.problem \notin ps]
  BY DEF Orphaned
<1>2. g \in Handler
  OBVIOUS
<1>3. /\ g = [server |-> g.server, problem |-> g.problem, at |-> g.at, heard |-> g.heard]
      /\ g.heard \in BOOLEAN
  BY <1>2 DEF Handler
<1>4. h = [server |-> g.server, problem |-> g.problem, at |-> g.at,
           heard |-> g.heard /\ g.problem \notin ps]
  BY <1>1, <1>2 DEF Handler
<1>5. g.heard /\ g.problem \notin ps
  BY <1>4
<1>6. QED
  BY <1>3, <1>4, <1>5

(* Clients are told s, and the handlers that served them are not heard     *)
(* any more.                                                               *)
LEMMA Tell ==
  ASSUME Calls, pc' \in [Problem -> Steps],
         NEW ps, NEW s \in Rpc, rpc' = Told(ps, s),
         \A h \in handlers' : h.heard => h \in handlers /\ h.problem \in Problem \ ps,
         \A q \in Problem \ ps : pc'[q] = pc[q],
         \A q \in ps : s # Status("none") => pc'[q] \in {"wait", "send"},
         \A q \in ps : pc'[q] = "send" => s \in Case
  PROVE  Calls'
<1>1. \A q \in Problem : rpc'[q] = IF q \in ps THEN s ELSE rpc[q]
  BY DEF Told
<1>2. (rpc \in [Problem -> Rpc])'
  BY <1>1 DEF Calls, Told
<1>3. \A h \in handlers' : h.heard => rpc'[h.problem] = Status("running")
  BY <1>1 DEF Calls
<1>4. \A g, h \in handlers' : g.heard /\ h.heard /\ g.problem = h.problem => g = h
  BY DEF Calls
<1>5. \A p \in Problem : rpc'[p] # Status("none") => pc'[p] \in {"wait", "send"}
  BY <1>1 DEF Calls
<1>6. \A p \in Problem : pc'[p] = "send" => rpc'[p] \in Case
  BY <1>1 DEF Calls
<1>7. QED
  BY <1>2, <1>3, <1>4, <1>5, <1>6 DEF Calls, Status

(* A goroutine moves without a word to the service.                        *)
LEMMA Move ==
  ASSUME Calls, UNCHANGED <<handlers, rpc>>, NEW p \in Problem, NEW step \in Steps,
         Goto(p, step),
         rpc[p] # Status("none") => step \in {"wait", "send"},
         step = "send" => rpc[p] \in Case
  PROVE  Calls'
<1>1. pc' = [pc EXCEPT ![p] = step]
  BY DEF Goto
<1>2. pc' \in [Problem -> Steps] /\ pc'[p] = step /\ \A q \in Problem \ {p} : pc'[q] = pc[q]
  BY <1>1 DEF Calls
<1>3. QED
  BY <1>2 DEF Calls, Status

(* No call is open at first.                                               *)
LEMMA CallsInit == Init => Calls
<1> SUFFICES ASSUME Init PROVE Calls
  OBVIOUS
<1>1. "get" \in Steps /\ "get" # "send"
  BY DEF Steps
<1>2. QED
  BY <1>1, Statuses DEF Init, ServiceInit, Calls

(* What a worker or the network does leaves the calls and their handlers   *)
(* in step.                                                                *)
LEMMA CallsService ==
  ASSUME Exclusive, Calls, revision \in [Server -> Revision], ServiceNext, UNCHANGED master
  PROVE  Calls'
<1>1. /\ handlers \subseteq Handler
      /\ \A h \in Handler : h.problem \in Problem /\ h.heard \in BOOLEAN
      /\ pc' = pc /\ pc \in [Problem -> Steps]
  BY DEF Exclusive, Handler, Calls, master
<1>2. /\ {Status(c) : c \in Code} \subseteq Rpc
      /\ \A c \in Code : Status(c) \notin Case /\ Status(c) # Status("none")
      /\ Status("none") # Status("running") /\ Status("sent") # Status("running")
      /\ Status("sent") # Status("none")
      /\ Status("sent") \notin Case /\ Status("running") \notin Case
  BY Statuses DEF Code
<1>3. ASSUME NEW w \in Server, NEW p \in Problem, Refuse(w, p) PROVE Calls'
  <2> DEFINE s == Status("ResourceExhausted")
  <2>1. s \in Rpc /\ rpc' = Told({p}, s) /\ handlers' = handlers /\ rpc[p] = Status("sent")
    BY <1>2, <1>3 DEF Refuse, Code
  <2>2. pc[p] = "wait"
    BY <2>1, <1>2 DEF Calls
  <2>3. \A h \in handlers' : h.heard => h \in handlers /\ h.problem \in Problem \ {p}
    BY <2>1, <1>1, <1>2 DEF Calls
  <2> HIDE DEF s
  <2>4. QED
    BY <2>1, <2>2, <2>3, <1>1, Tell
<1>4. ASSUME NEW w \in Server, NEW p \in Problem, TryAcquire(w, p) PROVE Calls'
  <2> DEFINE new == [server |-> w, problem |-> p, at |-> "check", heard |-> TRUE]
             s == Status("running")
  <2>1. /\ s \in Rpc /\ rpc' = Told({p}, s) /\ handlers' = handlers \cup {new}
        /\ rpc[p] = Status("sent")
    BY <1>4, Statuses DEF TryAcquire
  <2>2. pc[p] = "wait"
    BY <2>1, <1>2 DEF Calls
  <2>3. \A h \in handlers : h.heard => h.problem # p
    BY <2>1, <1>2 DEF Calls
  <2>4. new.problem = p
    OBVIOUS
  <2>5. s \notin Case /\ s = Status("running")
    BY <1>2
  <2> HIDE DEF new, s
  <2>6. rpc' \in [Problem -> Rpc] /\ \A q \in Problem : rpc'[q] = IF q = p THEN s ELSE rpc[q]
    BY <2>1 DEF Told, Calls
  <2>7. \A h \in handlers' : h.heard => rpc'[h.problem] = s
    BY <2>1, <2>3, <2>4, <2>5, <2>6, <1>1 DEF Calls
  <2>8. \A g, h \in handlers' : g.heard /\ h.heard /\ g.problem = h.problem => g = h
    BY <2>1, <2>3, <2>4 DEF Calls
  <2>9. \A q \in Problem : pc'[q] = "send" => rpc'[q] \in Case
    BY <2>2, <2>6, <1>1 DEF Calls
  <2>10. \A q \in Problem : rpc'[q] # Status("none") => pc'[q] \in {"wait", "send"}
    BY <2>2, <2>6, <1>1 DEF Calls
  <2>11. QED
    BY <2>5, <2>6, <2>7, <2>8, <2>9, <2>10, <1>1 DEF Calls, Status
<1>5. ASSUME NEW h \in handlers, NEW s \in Rpc, Answer(h, s) PROVE Calls'
  <2>1. handlers' = handlers \ {h}
    BY <1>5 DEF Answer
  <2>2. CASE h.heard
    <3>1. rpc' = Told({h.problem}, s) /\ rpc[h.problem] = Status("running")
      BY <1>5, <2>2 DEF Answer, Calls
    <3>2. pc[h.problem] = "wait"
      BY <3>1, <1>1, <1>2 DEF Calls
    <3>3. \A g \in handlers' : g.heard => g \in handlers /\ g.problem \in Problem \ {h.problem}
      BY <2>1, <2>2, <1>1 DEF Calls
    <3>4. QED
      BY <3>1, <3>2, <3>3, <1>1, Tell
  <2>3. CASE ~ h.heard
    BY <1>5, <2>1, <2>3, <1>1 DEF Answer, Calls, Status
  <2>4. QED
    BY <2>2, <2>3
<1>6. ASSUME NEW h \in handlers, UNCHANGED rpc,
             handlers' = (handlers \ {h}) \cup {[h EXCEPT !.at = "prove"]}
      PROVE  Calls'
  <2> DEFINE new == [h EXCEPT !.at = "prove"]
  <2>1. new.problem = h.problem /\ new.heard = h.heard
    BY <1>1 DEF Handler
  <2> HIDE DEF new
  <2>2. handlers' = (handlers \ {h}) \cup {new}
    BY <1>6 DEF new
  <2>3. \A g \in handlers' : g.heard => rpc[g.problem] = Status("running")
    BY <2>1, <2>2 DEF Calls
  <2>4. \A g, k \in handlers' : g.heard /\ k.heard /\ g.problem = k.problem => g = k
    BY <2>1, <2>2 DEF Calls
  <2>5. QED
    BY <1>6, <2>3, <2>4, <1>1 DEF Calls, Status
<1>7. ASSUME NEW p \in Problem, Lost(p) PROVE Calls'
  <2> DEFINE s == Status("Unavailable")
  <2>1. /\ s \in Rpc /\ rpc' = Told({p}, s) /\ handlers' = Orphaned({p})
        /\ rpc[p] \in {Status("sent"), Status("running")}
    BY <1>7, <1>2 DEF Lost, Code
  <2>2. pc[p] = "wait"
    BY <2>1, <1>2 DEF Calls
  <2>3. \A h \in handlers' : h.heard => h \in handlers /\ h.problem \in Problem \ {p}
    <3>1. \A h \in Orphaned({p}) : h.heard => h \in handlers /\ h.problem \notin {p}
      BY <1>1, OrphanedHeard
    <3>2. QED
      BY <2>1, <3>1, <1>1
  <2>4. rpc' = Told({p}, s) /\ s \in Rpc
    BY <2>1
  <2> HIDE DEF s
  <2>5. QED
    BY <2>2, <2>3, <2>4, <1>1, Tell
<1>8. ASSUME NEW w \in Server, Replace(w) PROVE Calls'
  <2> DEFINE mine == {h \in handlers : h.server = w}
             ps == {h.problem : h \in {g \in mine : g.heard}}
             s == Status("Unavailable")
  <2>1. s \in Rpc /\ rpc' = Told(ps, s) /\ handlers' = handlers \ mine
    BY <1>8, <1>2 DEF Replace, Code
  <2>2. \A q \in ps : pc[q] = "wait"
    BY <1>1, <1>2 DEF Calls
  <2>3. \A h \in handlers' : h.heard => h \in handlers /\ h.problem \in Problem \ ps
    BY <2>1, <1>1 DEF Calls
  <2> HIDE DEF s, ps
  <2>4. QED
    BY <2>1, <2>2, <2>3, <1>1, Tell
<1>9. ASSUME NEW h \in handlers, Check(h) PROVE Calls'
  <2>1. Status("Unavailable") \in Rpc /\ Status("InvalidArgument") \in Rpc
    BY <1>2 DEF Code
  <2>2. QED
    BY <1>9, <1>5, <1>6, <2>1 DEF Check
<1>10. ASSUME NEW h \in handlers, Proved(h) \/ ProveFails(h) PROVE Calls'
  <2>1. Status("Internal") \in Rpc
    BY <1>2 DEF Code
  <2>2. ASSUME Proved(h) PROVE Calls'
    <3>1. PICK b \in BOOLEAN : Answer(h, [code |-> "OK", solved |-> b, commit |-> revision[h.server]])
      BY <2>2 DEF Proved
    <3>2. h.server \in Server
      BY <1>1 DEF Handler
    <3>3. [code |-> "OK", solved |-> b, commit |-> revision[h.server]] \in Case
      BY <2>2, <3>2 DEF Case
    <3>4. QED
      BY <3>1, <3>3, <1>5, Statuses
  <2>3. QED
    BY <1>10, <1>5, <2>1, <2>2 DEF ProveFails
<1>11. QED
  BY <1>3, <1>4, <1>7, <1>8, <1>9, <1>10 DEF ServiceNext, Serve, Handle

(* So does what the goroutine of a problem does.                           *)
LEMMA CallsProve ==
  ASSUME Exclusive, Calls, NEW p \in Problem, Prove(p) \/ SieveAgain(p)
  PROVE  Calls'
<1>1. /\ handlers \subseteq Handler
      /\ \A h \in Handler : h.problem \in Problem /\ h.heard \in BOOLEAN
      /\ pc \in [Problem -> Steps]
  BY DEF Exclusive, Handler, Calls
<1>2. /\ {Status(c) : c \in Code} \subseteq Rpc /\ Status("none") \in Rpc
      /\ \A c \in Code : Status(c) \notin Case /\ Status(c) # Status("none")
                         /\ Status(c) # Status("running")
      /\ Status("none") # Status("running") /\ Status("sent") # Status("running")
      /\ Status("sent") # Status("none") /\ Status("sent") \in Rpc
      /\ Status("sent") \notin Case /\ Status("running") \notin Case
  BY Statuses DEF Code
<1>3. ASSUME UNCHANGED <<handlers, rpc>>, pc[p] \notin {"wait", "send"},
             NEW step \in Steps \ {"send"}, Goto(p, step)
      PROVE  Calls'
  BY <1>3, Move DEF Calls
(* p is told something, and nobody served it.                              *)
<1>4. ASSUME UNCHANGED handlers, rpc[p] # Status("running"),
             NEW step \in Steps \ {"send"}, Goto(p, step),
             NEW s \in Rpc, rpc' = Told({p}, s), s # Status("none") => step = "wait"
      PROVE  Calls'
  <2>1. /\ pc' \in [Problem -> Steps] /\ pc'[p] = step
        /\ \A q \in Problem \ {p} : pc'[q] = pc[q]
    BY <1>4, <1>1 DEF Goto
  <2>2. \A h \in handlers' : h.heard => h \in handlers /\ h.problem \in Problem \ {p}
    BY <1>4, <1>1 DEF Calls
  <2>3. QED
    BY <1>4, <2>1, <2>2, Tell
<1>5. CASE Get(p) \/ GetFails(p) \/ AcquireProcess(p) \/ Sieve(p) \/ Skip(p)
           \/ AcquireInFlight(p) \/ AcquireFails(p)
  <2>1. UNCHANGED <<handlers, rpc>>
    BY <1>5 DEF Get, GetFails, AcquireProcess, Sieve, Skip, AcquireInFlight, AcquireFails, service
  <2>2. \E step \in Steps \ {"send"} : Goto(p, step)
    BY <1>5 DEF Get, GetFails, AcquireProcess, Sieve, Skip, AcquireInFlight, AcquireFails,
                Return, Steps
  <2>3. pc[p] \notin {"wait", "send"}
    BY <1>5 DEF Get, GetFails, AcquireProcess, Sieve, Skip, AcquireInFlight, AcquireFails, At
  <2>4. QED
    BY <2>1, <2>2, <2>3, <1>3
<1>6. CASE Call(p)
  <2> DEFINE s == Status(IF canceled THEN "Canceled" ELSE "sent")
  <2>1. s \in Rpc
    <3>1. CASE canceled
      BY <3>1, <1>2 DEF Code
    <3>2. CASE ~ canceled
      BY <3>2, <1>2
    <3>3. QED
      BY <3>1, <3>2
  <2>2. rpc' = Told({p}, s) /\ UNCHANGED handlers /\ Goto(p, "wait") /\ pc[p] = "call"
    BY <1>6 DEF Call, At
  <2> HIDE DEF s
  <2>3. rpc[p] # Status("running")
    BY <2>2, <1>2 DEF Calls
  <2>4. "wait" \in Steps \ {"send"}
    BY DEF Steps
  <2>5. QED
    BY <2>1, <2>2, <2>3, <2>4, <1>4
<1>7. CASE CallCanceled(p)
  <2> DEFINE s == Status("Canceled")
  <2>1. /\ handlers' = Orphaned({p}) /\ pc' = pc
        /\ rpc[p] \in {Status("sent"), Status("running")}
    BY <1>7 DEF CallCanceled, master
  <2>2. pc[p] = "wait"
    BY <2>1, <1>2 DEF Calls
  <2>3. \A h \in handlers' : h.heard => h \in handlers /\ h.problem \in Problem \ {p}
    <3>1. \A h \in Orphaned({p}) : h.heard => h \in handlers /\ h.problem \notin {p}
      BY <1>1, OrphanedHeard
    <3>2. QED
      BY <2>1, <3>1, <1>1
  <2>4. rpc' = Told({p}, s) /\ s \in Rpc /\ pc' = pc
    BY <1>7, <2>1, <1>2 DEF CallCanceled, Code
  <2> HIDE DEF s
  <2>5. QED
    BY <2>2, <2>3, <2>4, <1>1, Tell
<1>8. CASE Retry(p) \/ Abort(p)
  <2>1. rpc[p] # Status("running")
    BY <1>8, <1>2 DEF Retry, Abort, Retried, Code
  <2>2. \E step \in Steps \ {"send"} : Goto(p, step)
    BY <1>8 DEF Retry, Abort, Return, Steps
  <2>3. UNCHANGED handlers /\ rpc' = Told({p}, Status("none"))
    BY <1>8 DEF Retry, Abort
  <2>4. QED
    BY <2>1, <2>2, <2>3, <1>2, <1>4
<1>9. CASE Result(p)
  <2>1. UNCHANGED <<handlers, rpc>> /\ Goto(p, "send") /\ "send" \in Steps /\ rpc[p] \in Case
    BY <1>9 DEF Result, service, Steps
  <2>2. QED
    BY <2>1, Move
<1>10. CASE Send(p) \/ SendCanceled(p)
  <2>1. rpc[p] # Status("running")
    BY <1>10, <1>2 DEF Send, SendCanceled, At, Calls
  <2>2. \E step \in Steps \ {"send"} : Goto(p, step)
    BY <1>10 DEF Send, SendCanceled, Return, Steps
  <2>3. UNCHANGED handlers /\ rpc' = Told({p}, Status("none"))
    BY <1>10 DEF Send, SendCanceled
  <2>4. QED
    BY <2>1, <2>2, <2>3, <1>2, <1>4
<1>11. CASE SieveAgain(p)
  BY <1>11 DEF SieveAgain, vars, service, master, Calls, Status
<1>12. QED
  BY <1>5, <1>6, <1>7, <1>8, <1>9, <1>10, <1>11 DEF Prove

(* And the collector does not touch them.                                  *)
LEMMA CallsNext ==
  ASSUME Exclusive, Calls, revision \in [Server -> Revision], [Next]_vars
  PROVE  Calls'
<1>1. CASE Collect \/ Wait \/ UNCHANGED vars
  BY <1>1 DEF Collect, Receive, ReceiveFails, CollectorReturns, Wait, vars, service, master,
              Calls, Status
<1>2. QED
  BY <1>1, CallsService, CallsProve DEF Next
-----------------------------------------------------------------------------
InFlight == {"call", "wait", "send"}
Are(S) == {q \in Problem : pc[q] \in S}

Counted ==
  /\ inFlightSem = Cardinality(Are(InFlight))
  /\ processSem = Cardinality(Are({"check"}))

(* How the number of goroutines at some steps changes when one of them     *)
(* moves.                                                                  *)
LEMMA Count ==
  ASSUME pc \in [Problem -> Steps], NEW S, NEW p \in Problem, NEW step, Goto(p, step)
  PROVE  /\ Cardinality(Are(S)) \in Nat
         /\ (pc[p] \in S <=> step \in S) => Are(S)' = Are(S)
         /\ pc[p] \notin S /\ step \in S => Cardinality(Are(S)') = Cardinality(Are(S)) + 1
         /\ pc[p] \in S /\ step \notin S => Cardinality(Are(S)') = Cardinality(Are(S)) - 1
<1>1. Are(S) \subseteq Problem /\ IsFiniteSet(Problem)
  BY MasterAssumption DEF Are
<1>2. IsFiniteSet(Are(S)) /\ Cardinality(Are(S)) \in Nat
  BY <1>1, FS_Subset, FS_CardinalityType
<1>3. pc' = [pc EXCEPT ![p] = step]
  BY DEF Goto
<1>4. (pc[p] \in S <=> step \in S) => Are(S)' = Are(S)
  BY <1>3 DEF Are
<1>5. ASSUME pc[p] \notin S, step \in S
      PROVE  Cardinality(Are(S)') = Cardinality(Are(S)) + 1
  <2>1. Are(S)' = Are(S) \cup {p} /\ p \notin Are(S)
    BY <1>3, <1>5 DEF Are
  <2>2. QED
    BY <1>2, <2>1, FS_AddElement
<1>6. ASSUME pc[p] \in S, step \notin S
      PROVE  Cardinality(Are(S)') = Cardinality(Are(S)) - 1
  <2>1. Are(S)' = Are(S) \ {p} /\ p \in Are(S)
    BY <1>3, <1>6 DEF Are
  <2>2. QED
    BY <1>2, <2>1, FS_RemoveElement
<1>7. QED
  BY <1>2, <1>4, <1>5, <1>6

(* Nobody holds a unit at first.                                           *)
LEMMA CountedInit == Init => Counted
<1> SUFFICES ASSUME Init PROVE Counted
  OBVIOUS
<1>1. Are(InFlight) = {} /\ Are({"check"}) = {}
  BY DEF Init, Are, InFlight
<1>2. QED
  BY <1>1, FS_EmptySet DEF Init, Counted

(* Units are taken and given back exactly where the goroutines pass        *)
(* Acquire() and Release().                                                *)
LEMMA CountedNext ==
  ASSUME Calls, Counted, [Next]_vars
  PROVE  Counted'
<1> USE DEF InFlight
<1>1. pc \in [Problem -> Steps]
  BY DEF Calls
<1>2. CASE UNCHANGED <<pc, inFlightSem, processSem>>
  BY <1>2 DEF Counted, Are
<1>3. ASSUME NEW p \in Problem, NEW step, Goto(p, step), UNCHANGED <<inFlightSem, processSem>>,
             pc[p] \in InFlight <=> step \in InFlight, pc[p] = "check" <=> step = "check"
      PROVE  Counted'
  <2>1. Are(InFlight)' = Are(InFlight) /\ Are({"check"})' = Are({"check"})
    BY <1>1, <1>3, Count
  <2>2. QED
    BY <1>3, <2>1 DEF Counted
<1>4. ASSUME NEW p \in Problem, NEW step, Goto(p, step), processSem' = processSem + 1,
             UNCHANGED inFlightSem, pc[p] \notin InFlight \cup {"check"}, step = "check"
      PROVE  Counted'
  <2>1. /\ Are(InFlight)' = Are(InFlight)
        /\ Cardinality(Are({"check"})') = Cardinality(Are({"check"})) + 1
    BY <1>1, <1>4, Count
  <2>2. QED
    BY <1>4, <2>1 DEF Counted
<1>5. ASSUME NEW p \in Problem, NEW step, Goto(p, step), processSem' = processSem - 1,
             UNCHANGED inFlightSem, pc[p] = "check", step \notin InFlight \cup {"check"}
      PROVE  Counted'
  <2>1. /\ Are(InFlight)' = Are(InFlight)
        /\ Cardinality(Are({"check"})') = Cardinality(Are({"check"})) - 1
    BY <1>1, <1>5, Count
  <2>2. QED
    BY <1>5, <2>1 DEF Counted
<1>6. ASSUME NEW p \in Problem, NEW step, Goto(p, step), inFlightSem' = inFlightSem + 1,
             UNCHANGED processSem, pc[p] \notin InFlight \cup {"check"},
             step \in InFlight
      PROVE  Counted'
  <2>1. /\ Are({"check"})' = Are({"check"})
        /\ Cardinality(Are(InFlight)') = Cardinality(Are(InFlight)) + 1
    BY <1>1, <1>6, Count
  <2>2. QED
    BY <1>6, <2>1 DEF Counted
<1>7. ASSUME NEW p \in Problem, NEW step, Goto(p, step), inFlightSem' = inFlightSem - 1,
             UNCHANGED processSem, pc[p] \in InFlight, step \notin InFlight \cup {"check"}
      PROVE  Counted'
  <2>1. /\ Are({"check"})' = Are({"check"})
        /\ Cardinality(Are(InFlight)') = Cardinality(Are(InFlight)) - 1
    BY <1>1, <1>7, Count
  <2>2. QED
    BY <1>7, <2>1 DEF Counted
<1>8. ASSUME NEW p \in Problem, Prove(p) PROVE Counted'
  <2>1. CASE Get(p)
    BY <2>1, <1>3 DEF Get, At
  <2>2. CASE GetFails(p) \/ AcquireFails(p) \/ Skip(p)
    BY <2>2, <1>3 DEF GetFails, AcquireFails, Skip, Return, At
  <2>3. CASE AcquireProcess(p)
    BY <2>3, <1>4 DEF AcquireProcess, At
  <2>4. CASE Sieve(p)
    BY <2>4, <1>5 DEF Sieve, At
  <2>5. CASE AcquireInFlight(p)
    BY <2>5, <1>6 DEF AcquireInFlight, At
  <2>6. CASE Call(p) \/ Retry(p) \/ Result(p)
    BY <2>6, <1>3 DEF Call, Retry, Result, At
  <2>7. CASE CallCanceled(p)
    BY <2>7, <1>2 DEF CallCanceled, master
  <2>8. CASE Abort(p) \/ Send(p)
    BY <2>8, <1>7 DEF Abort, Send, Return, At
  <2>9. CASE SendCanceled(p)
    BY <2>9, <1>3, <1>7 DEF SendCanceled, Return, At
  <2>10. QED
    BY <1>8, <2>1, <2>2, <2>3, <2>4, <2>5, <2>6, <2>7, <2>8, <2>9 DEF Prove
<1>9. CASE \E p \in Problem : SieveAgain(p)
  BY <1>9, <1>2 DEF SieveAgain, vars, master
<1>10. CASE (ServiceNext /\ UNCHANGED master) \/ Collect \/ Wait \/ UNCHANGED vars
  BY <1>10, <1>2 DEF Collect, Receive, ReceiveFails, CollectorReturns, Wait, vars, master
<1>11. QED
  BY <1>8, <1>9, <1>10 DEF Next
-----------------------------------------------------------------------------
(* What ties the results to the revision: a prover runs only on an         *)
(* instance of Commit, and an instance changes only to Commit.             *)
Current ==
  /\ revision \in [Server -> Revision]
  /\ \A h \in handlers : h.at = "prove" => revision[h.server] = Commit
  /\ \A p \in Problem : rpc[p] \in Case => rpc[p].commit = Commit

Items == {NoCase} \cup [name : Problem, case : {c \in Case : c.commit = Commit}]

Collected == resultsChan \in Seq(Items) /\ report \in Seq(Items \ {NoCase})

(* There are no results at first.                                          *)
LEMMA CurrentInit == Init => Current /\ Collected
<1> SUFFICES ASSUME Init PROVE Current /\ Collected
  OBVIOUS
<1>1. Current
  BY Statuses DEF Init, ServiceInit, Current
<1>2. Collected
  BY DEF Init, Collected
<1>3. QED
  BY <1>1, <1>2

(* A worker proves only at the commit asked for (the check at the start of *)
(* Prove()), so a case that is answered is of that commit.                 *)
LEMMA CurrentNext ==
  ASSUME Exclusive, Current, [Next]_vars
  PROVE  Current'
<1>1. CASE UNCHANGED service
  BY <1>1 DEF service, Current
<1>2. /\ \A c \in Code \cup {"none", "sent", "running"} : Status(c) \notin Case
      /\ \A h \in handlers : h \in Handler /\ h.server \in Server
  BY Statuses DEF Exclusive, Handler
<1>3. ASSUME NEW ps, NEW s, rpc' = Told(ps, s), s \in Case => s.commit = Commit,
             UNCHANGED revision,
             \A h \in handlers' : h.at = "prove" =>
               \E g \in handlers : g.at = "prove" /\ g.server = h.server
      PROVE  Current'
  BY <1>3 DEF Told, Current
<1>4. ASSUME NEW ps, NEW s, rpc' = Told(ps, s), s \notin Case, UNCHANGED revision,
             handlers' = Orphaned(ps)
      PROVE  Current'
  <2>1. ASSUME NEW h \in Orphaned(ps)
        PROVE  \E g \in handlers : g.at = h.at /\ g.server = h.server
    <3>1. PICK g \in handlers : h = [g EXCEPT !.heard = @ /\ g.problem \notin ps]
      BY <2>1 DEF Orphaned
    <3>2. g.at = h.at /\ g.server = h.server
      BY <3>1, <1>2 DEF Handler
    <3>3. QED
      BY <3>2
  <2>2. QED
    BY <1>3, <1>4, <2>1
<1>5. ASSUME NEW h \in handlers, NEW s, Answer(h, s), UNCHANGED revision,
             s \in Case => s.commit = Commit
      PROVE  Current'
  <2>1. handlers' \subseteq handlers /\ (rpc' = rpc \/ rpc' = Told({h.problem}, s))
    BY <1>5 DEF Answer
  <2>2. QED
    BY <1>3, <1>5, <2>1 DEF Current
<1>6. CASE ServiceNext
  <2>1. ASSUME NEW w \in Server, NEW p \in Problem, Refuse(w, p) PROVE Current'
    BY <2>1, <1>2, <1>3 DEF Refuse, Code
  <2>2. ASSUME NEW w \in Server, NEW p \in Problem, TryAcquire(w, p) PROVE Current'
    <3> DEFINE new == [server |-> w, problem |-> p, at |-> "check", heard |-> TRUE]
    <3>1. new.at # "prove" /\ rpc' = Told({p}, Status("running")) /\ UNCHANGED revision
          /\ handlers' = handlers \cup {new}
      BY <2>2 DEF TryAcquire
    <3> HIDE DEF new
    <3>2. QED
      BY <3>1, <1>2, <1>3
  <2>3. ASSUME NEW p \in Problem, Lost(p) PROVE Current'
    BY <2>3, <1>2, <1>4 DEF Lost, Code
  <2>4. ASSUME NEW h \in handlers, Check(h) PROVE Current'
    <3>1. CASE Answer(h, Status("Unavailable")) \/ Answer(h, Status("InvalidArgument"))
      BY <2>4, <3>1, <1>2, <1>5 DEF Check, Code
    <3>2. ASSUME handlers' = (handlers \ {h}) \cup {[h EXCEPT !.at = "prove"]},
                 UNCHANGED rpc, revision[h.server] = Commit
          PROVE  Current'
      <4> DEFINE new == [h EXCEPT !.at = "prove"]
      <4>1. new.server = h.server
        BY <1>2 DEF Handler
      <4> HIDE DEF new
      <4>2. handlers' = (handlers \ {h}) \cup {new} /\ UNCHANGED revision
        BY <2>4, <3>2 DEF Check, new
      <4>3. QED
        BY <3>2, <4>1, <4>2 DEF Current
    <3>3. QED
      BY <2>4, <3>1, <3>2 DEF Check
  <2>5. ASSUME NEW h \in handlers, Proved(h) PROVE Current'
    <3>1. PICK b \in BOOLEAN : Answer(h, [code |-> "OK", solved |-> b, commit |-> revision[h.server]])
      BY <2>5 DEF Proved
    <3>2. revision[h.server] = Commit /\ UNCHANGED revision
      BY <2>5 DEF Proved, Current
    <3>3. QED
      BY <3>1, <3>2, <1>5
  <2>6. ASSUME NEW h \in handlers, ProveFails(h) PROVE Current'
    BY <2>6, <1>2, <1>5 DEF ProveFails, Code
  <2>7. ASSUME NEW w \in Server, Replace(w) PROVE Current'
    <3> DEFINE ps == {h.problem : h \in {g \in {k \in handlers : k.server = w} : g.heard}}
    <3>1. /\ rpc' = Told(ps, Status("Unavailable")) /\ handlers' \subseteq handlers
          /\ revision' = [revision EXCEPT ![w] = Commit]
      BY <2>7 DEF Replace
    <3>2. Status("Unavailable") \notin Case
      BY <1>2 DEF Code
    <3> HIDE DEF ps
    <3>3. \A p \in Problem : rpc'[p] \in Case => rpc'[p].commit = Commit
      BY <3>1, <3>2 DEF Told, Current
    <3>4. revision' \in [Server -> Revision]
      BY <3>1, WorkerAssumption DEF Current
    <3>5. \A h \in handlers' : h.at = "prove" => revision'[h.server] = Commit
      BY <3>1, <1>2 DEF Current
    <3>6. QED
      BY <3>3, <3>4, <3>5 DEF Current
  <2>8. QED
    BY <1>6, <2>1, <2>2, <2>3, <2>4, <2>5, <2>6, <2>7 DEF ServiceNext, Serve, Handle
<1>7. ASSUME NEW p \in Problem, Prove(p) \/ SieveAgain(p) PROVE Current'
  <2>1. CASE Call(p)
    <3>1. Status(IF canceled THEN "Canceled" ELSE "sent") \notin Case
      <4>1. CASE canceled
        BY <4>1, <1>2 DEF Code
      <4>2. CASE ~ canceled
        BY <4>2, <1>2
      <4>3. QED
        BY <4>1, <4>2
    <3>2. QED
      BY <2>1, <3>1, <1>3 DEF Call
  <2>2. CASE CallCanceled(p)
    BY <2>2, <1>2, <1>4 DEF CallCanceled, Code
  <2>3. CASE Retry(p) \/ Abort(p) \/ Send(p) \/ SendCanceled(p)
    <3>1. rpc' = Told({p}, Status("none")) /\ UNCHANGED <<revision, handlers>>
      BY <2>3 DEF Retry, Abort, Send, SendCanceled
    <3>2. QED
      BY <3>1, <1>2, <1>3
  <2>4. CASE GetFails(p) \/ Get(p) \/ AcquireProcess(p) \/ Sieve(p) \/ SieveAgain(p) \/ Skip(p)
             \/ AcquireInFlight(p) \/ AcquireFails(p) \/ Result(p)
    <3>1. UNCHANGED <<revision, handlers, rpc>>
      BY <2>4 DEF GetFails, Get, AcquireProcess, Sieve, SieveAgain, Skip, AcquireInFlight,
                  AcquireFails, Result, vars, service
    <3>2. QED
      BY <3>1 DEF Current
  <2>5. QED
    BY <1>7, <2>1, <2>2, <2>3, <2>4 DEF Prove
<1>8. CASE Collect \/ Wait \/ UNCHANGED vars
  BY <1>8 DEF Collect, Receive, ReceiveFails, CollectorReturns, Wait, vars, service, Current
<1>9. QED
  BY <1>6, <1>7, <1>8 DEF Next

(* Only answered cases, and nil for what was filtered out, reach the       *)
(* channel; only the former the report.                                    *)
LEMMA CollectedNext ==
  ASSUME Calls, Current, Collected, [Next]_vars
  PROVE  Collected'
<1>1. CASE UNCHANGED <<resultsChan, report>>
  BY <1>1 DEF Collected, Items
<1>2. resultsChan \in Seq(Items) /\ report \in Seq(Items \ {NoCase}) /\ NoCase \in Items
  BY DEF Collected, Items
<1>3. ASSUME NEW item \in Items, resultsChan' = Append(resultsChan, item), UNCHANGED report
      PROVE  Collected'
  BY <1>2, <1>3 DEF Collected, Items
<1>4. ASSUME NEW p \in Problem, Prove(p) \/ SieveAgain(p) PROVE Collected'
  <2>1. CASE Skip(p)
    BY <2>1, <1>2, <1>3 DEF Skip
  <2>2. CASE Send(p)
    <3> DEFINE item == [name |-> p, case |-> rpc[p]]
    <3>1. rpc[p] \in {c \in Case : c.commit = Commit}
      BY <2>2 DEF Send, At, Calls, Current
    <3>2. item \in Items
      BY <3>1 DEF Items
    <3> HIDE DEF item
    <3>3. resultsChan' = Append(resultsChan, item) /\ UNCHANGED report
      BY <2>2 DEF Send, item
    <3>4. QED
      BY <3>2, <3>3, <1>3
  <2>3. CASE ~ Skip(p) /\ ~ Send(p)
    <3>1. UNCHANGED <<resultsChan, report>>
      BY <1>4, <2>3 DEF Prove, Get, GetFails, AcquireProcess, Sieve, SieveAgain, AcquireInFlight,
           AcquireFails, Call, CallCanceled, Retry, Abort, Result, SendCanceled, vars, master
    <3>2. QED
      BY <3>1, <1>1
  <2>4. QED
    BY <2>1, <2>2, <2>3
<1>5. CASE Receive
  <2>1. resultsChan # <<>> /\ resultsChan' = Tail(resultsChan)
    BY <1>5 DEF Receive
  <2>2. Head(resultsChan) \in Items /\ Tail(resultsChan) \in Seq(Items)
    BY <2>1, <1>2
  <2>3. report' = report \/ (/\ Head(resultsChan) # NoCase
                             /\ report' = Append(report, Head(resultsChan)))
    BY <1>5 DEF Receive
  <2>4. report' \in Seq(Items \ {NoCase})
    BY <2>2, <2>3, <1>2
  <2>5. QED
    BY <2>1, <2>2, <2>4 DEF Collected, Items
<1>6. CASE ReceiveFails
  <2>1. /\ resultsChan # <<>> /\ resultsChan' = Tail(resultsChan) /\ UNCHANGED report
    BY <1>6 DEF ReceiveFails
  <2>2. Tail(resultsChan) \in Seq(Items)
    BY <2>1, <1>2
  <2>3. QED
    BY <2>1, <2>2, <1>2 DEF Collected, Items
<1>7. CASE CollectorReturns \/ Wait \/ (ServiceNext /\ UNCHANGED master) \/ UNCHANGED vars
  BY <1>7, <1>1 DEF CollectorReturns, Wait, vars, master
<1>8. QED
  BY <1>4, <1>5, <1>6, <1>7 DEF Next, Collect
-----------------------------------------------------------------------------
IInv == Exclusive /\ Calls /\ Counted /\ Current /\ Collected

(* The inductive invariant.                                                *)
LEMMA Invariance == Spec => []IInv
<1>1. Init => IInv
  BY ExclusiveInit, CallsInit, CountedInit, CurrentInit DEF IInv
<1>2. IInv /\ [Next]_vars => IInv'
  <2> SUFFICES ASSUME IInv, [Next]_vars PROVE IInv'
    OBVIOUS
  <2>1. Exclusive /\ Calls /\ Counted /\ Current /\ Collected
    BY DEF IInv
  <2>2. revision \in [Server -> Revision]
    BY <2>1 DEF Current
  <2>3. QED
    BY <2>1, <2>2, ExclusiveNext, CallsNext, CountedNext, CurrentNext, CollectedNext DEF IInv
<1>3. QED
  BY <1>1, <1>2, PTL DEF Spec

(* The semaphores hold as many units as goroutines are between Acquire()   *)
(* and Release(), on whichever way they left, and a call is open only for  *)
(* a goroutine that holds one.                                             *)
THEOREM SlotsReturned == Spec => []Throttled
<1>1. IInv => Throttled
  <2> SUFFICES ASSUME IInv PROVE Throttled
    OBVIOUS
  <2>1. Calls /\ Counted
    BY DEF IInv
  <2>2. \A p \in Problem : rpc[p].code # "none" => pc[p] \in {"wait", "send"}
    BY <2>1, Statuses DEF Calls
  <2>3. Are({"check"}) = {p \in Problem : At(p, "check")}
    BY DEF Are, At
  <2>4. QED
    BY <2>1, <2>2, <2>3 DEF Counted, Are, InFlight, Throttled
<1>2. QED
  BY <1>1, Invariance, PTL

(* No result of another revision than Commit reaches the report.           *)
THEOREM SameRevision == Spec => []OneRevision
<1>1. IInv => OneRevision
  <2> SUFFICES ASSUME IInv, NEW i \in 1..Len(report) PROVE report[i].case.commit = Commit
    BY DEF OneRevision
  <2>1. report \in Seq(Items \ {NoCase})
    BY DEF IInv, Collected
  <2>2. report[i] \in [name : Problem, case : {c \in Case : c.commit = Commit}]
    BY <2>1 DEF Items
  <2>3. QED
    BY <2>2
<1>2. QED
  BY <1>1, Invariance, PTL
-----------------------------------------------------------------------------
Bounded ==
  /\ valid \in BOOLEAN /\ faults \in 0..MaxFaults
  /\ equalityOnly \in BOOLEAN /\ refused \subseteq Problem
  /\ collecting \in BOOLEAN /\ canceled \in BOOLEAN
  /\ inFlightSem <= MaxInFlight /\ processSem <= MaxProcess
  /\ Len(resultsChan) <= ChanSize
  /\ taken \in 0..Cardinality(Problem)
  /\ outcome \in {"none", "error", "report"}

(* The units taken are natural numbers, as they count goroutines.          *)
LEMMA CountedNat == ASSUME Counted PROVE inFlightSem \in Nat /\ processSem \in Nat
<1>1. \A S : Are(S) \subseteq Problem
  BY DEF Are
<1>2. QED
  BY <1>1, MasterAssumption, FS_Subset, FS_CardinalityType DEF Counted

(* The limits hold at first.                                               *)
LEMMA BoundedInit == Init => Bounded
<1> SUFFICES ASSUME Init PROVE Bounded
  OBVIOUS
<1>1. Cardinality(Problem) \in Nat
  BY MasterAssumption, FS_CardinalityType
<1>2. /\ MaxFaults \in Nat /\ MaxInFlight \in Nat /\ MaxProcess \in Nat /\ ChanSize \in Nat
  BY WorkerAssumption, MasterAssumption
<1>3. /\ valid \in BOOLEAN /\ equalityOnly \in BOOLEAN /\ refused \subseteq Problem
      /\ collecting \in BOOLEAN /\ canceled \in BOOLEAN
  BY DEF Init, ServiceInit
<1>4. faults = 0 /\ inFlightSem = 0 /\ processSem = 0 /\ taken = 0 /\ Len(resultsChan) = 0
  BY DEF Init, ServiceInit
<1>5. outcome = "none"
  BY DEF Init
<1>6. QED
  BY <1>1, <1>2, <1>3, <1>4, <1>5 DEF Bounded

(* Each guard keeps its limit: the weights of the semaphores, the capacity *)
(* of the channel, the number of problems and the bound on faults.         *)
LEMMA BoundedNext ==
  ASSUME Counted, Collected, Bounded, [Next]_vars
  PROVE  Bounded'
<1> USE DEF Bounded
<1>1. /\ inFlightSem \in Nat /\ processSem \in Nat /\ Cardinality(Problem) \in Nat
      /\ MaxFaults \in Nat /\ MaxInFlight \in Nat /\ MaxProcess \in Nat /\ ChanSize \in Nat
  BY CountedNat, WorkerAssumption, MasterAssumption, FS_CardinalityType
<1>2. resultsChan \in Seq(Items)
  BY DEF Collected
<1>3. Fault => faults' \in 0..MaxFaults
  BY <1>1 DEF Fault
<1>4. CASE ServiceNext /\ UNCHANGED master
  <2>1. valid' = valid /\ (faults' = faults \/ Fault)
    BY <1>4 DEF ServiceNext, Serve, Refuse, TryAcquire, Lost, Handle, Check, Proved, ProveFails,
                Replace
  <2>2. QED
    BY <1>3, <1>4, <2>1 DEF master
<1>5. ASSUME NEW p \in Problem, Prove(p) \/ SieveAgain(p) PROVE Bounded'
  <2>1. CASE Get(p) \/ Call(p) \/ CallCanceled(p) \/ Retry(p) \/ Result(p) \/ SieveAgain(p)
    BY <2>1 DEF Get, Call, CallCanceled, Retry, Result, SieveAgain, vars, service, master
  <2>2. CASE GetFails(p) \/ AcquireFails(p)
    BY <2>2, <1>3 DEF GetFails, AcquireFails, Return, service
  <2>3. CASE AcquireProcess(p) \/ AcquireInFlight(p)
    BY <2>3, <1>1 DEF AcquireProcess, AcquireInFlight, service
  <2>4. CASE Sieve(p)
    BY <2>4, <1>1 DEF Sieve, service
  <2>5. CASE Abort(p) \/ SendCanceled(p)
    <3>1. inFlightSem' = inFlightSem \/ inFlightSem' = inFlightSem - 1
      BY <2>5 DEF Abort, SendCanceled
    <3>2. inFlightSem' <= MaxInFlight
      BY <3>1, <1>1
    <3>3. canceled' \in BOOLEAN
      BY <2>5 DEF Abort, SendCanceled, Return
    <3>4. QED
      BY <2>5, <3>2, <3>3 DEF Abort, SendCanceled
  <2>6. CASE Skip(p) \/ Send(p)
    <3>1. PICK item : resultsChan' = Append(resultsChan, item)
      BY <2>6 DEF Skip, Send
    <3>2. Len(resultsChan') = Len(resultsChan) + 1 /\ Len(resultsChan) \in Nat
      BY <3>1, <1>2
    <3>3. Len(resultsChan) < ChanSize
      BY <2>6 DEF Skip, Send
    <3>4. Len(resultsChan') <= ChanSize
      BY <3>2, <3>3, <1>1
    <3>5. inFlightSem' = inFlightSem \/ inFlightSem' = inFlightSem - 1
      BY <2>6 DEF Skip, Send
    <3>6. inFlightSem' <= MaxInFlight
      BY <3>5, <1>1
    <3>7. canceled' \in BOOLEAN
      BY <2>6 DEF Skip, Send, Return
    <3>8. QED
      BY <2>6, <3>4, <3>6, <3>7 DEF Skip, Send, service
  <2>7. QED
    BY <1>5, <2>1, <2>2, <2>3, <2>4, <2>5, <2>6 DEF Prove
<1>6. CASE Receive \/ ReceiveFails
  <2>1. Len(resultsChan') <= ChanSize
    <3>1. resultsChan # <<>> => Len(Tail(resultsChan)) = Len(resultsChan) - 1 /\ Len(resultsChan) \in Nat
      BY <1>2
    <3>2. QED
      BY <1>6, <3>1, <1>1 DEF Receive, ReceiveFails
  <2>2. taken' \in 0..Cardinality(Problem)
    BY <1>6, <1>1 DEF Receive, ReceiveFails, Expected
  <2>3. faults' \in 0..MaxFaults
    BY <1>6, <1>3 DEF Receive, ReceiveFails, service
  <2>4. collecting' \in BOOLEAN /\ canceled' \in BOOLEAN
    BY <1>6 DEF Receive, ReceiveFails
  <2>5. QED
    BY <1>6, <2>1, <2>2, <2>3, <2>4 DEF Receive, ReceiveFails, service
<1>7. CASE CollectorReturns \/ Wait \/ UNCHANGED vars
  BY <1>7 DEF CollectorReturns, Wait, vars, service, master
<1>8. QED
  BY <1>4, <1>5, <1>6, <1>7 DEF Next, Collect

(* Every variable of the workers and of run() keeps its type: neither      *)
(* semaphore goes below zero or beyond its weight, the channel does not    *)
(* overflow, and the collector takes no more than there are problems.      *)
THEOREM TypeCorrect == Spec => []TypeOK
<1>1. Init => Bounded
  BY BoundedInit
<1>2. IInv /\ Bounded /\ [Next]_vars => Bounded'
  BY BoundedNext DEF IInv
<1>3. IInv /\ Bounded => TypeOK
  <2> SUFFICES ASSUME IInv, Bounded PROVE TypeOK
    OBVIOUS
  <2>1. Exclusive /\ Calls /\ Counted /\ Current /\ Collected
    BY DEF IInv
  <2>2. ServiceTypeOK
    BY <2>1 DEF Exclusive, Calls, Current, Bounded, ServiceTypeOK
  <2>3. inFlightSem \in 0..MaxInFlight /\ processSem \in 0..MaxProcess
    BY <2>1, CountedNat, MasterAssumption DEF Bounded
  <2>4. Items \subseteq {NoCase} \cup [name : Problem, case : Case]
    BY DEF Items
  <2>5. Items \ {NoCase} \subseteq [name : Problem, case : Case]
    BY <2>4
  <2>6. resultsChan \in Seq({NoCase} \cup [name : Problem, case : Case])
    BY <2>1, <2>4 DEF Collected
  <2>7. report \in Seq([name : Problem, case : Case])
    <3>1. ASSUME NEW A, NEW B, A \subseteq B, report \in Seq(A) PROVE report \in Seq(B)
      BY <3>1
    <3>2. QED
      BY <2>1, <2>5, <3>1 DEF Collected
  <2>8. QED
    BY <2>1, <2>2, <2>3, <2>6, <2>7 DEF Bounded, Calls, TypeOK
<1>4. QED
  BY <1>1, <1>2, <1>3, Invariance, PTL DEF Spec

(***************************************************************************)
(* The report of run() is whole, for any number of problems, workers and   *)
(* faults, any limits and any order of events.                             *)
(***************************************************************************)

(* A sequence of results has one for p.                                    *)
Named(s, p) == \E i \in 1..Len(s) : s[i] # NoCase /\ s[i].name = p

(* No problem has two.                                                     *)
Once(s) ==
  \A i, j \in 1..Len(s) : s[i] # NoCase /\ s[j] # NoCase /\ s[i].name = s[j].name => i = j

(* A result that is added is the only one for its problem.                 *)
LEMMA Added ==
  ASSUME NEW s \in Seq(Items), NEW e \in Items
  PROVE  /\ \A p : Named(Append(s, e), p) <=> Named(s, p) \/ (e # NoCase /\ e.name = p)
         /\ Once(s) /\ (e # NoCase => ~ Named(s, e.name)) => Once(Append(s, e))
<1>1. /\ Len(Append(s, e)) = Len(s) + 1 /\ Len(s) \in Nat
      /\ Append(s, e)[Len(s) + 1] = e
      /\ \A i \in 1..Len(s) : Append(s, e)[i] = s[i]
  OBVIOUS
<1>2. 1..Len(Append(s, e)) = 1..Len(s) \cup {Len(s) + 1} /\ Len(s) + 1 \notin 1..Len(s)
  BY <1>1
<1> DEFINE t == Append(s, e)
           n == Len(s) + 1
           D == 1..Len(s)
<1>3. 1..Len(t) = D \cup {n} /\ n \notin D /\ t[n] = e /\ \A i \in D : t[i] = s[i]
  BY <1>1, <1>2
<1>4. /\ \A p : Named(s, p) <=> \E i \in D : s[i] # NoCase /\ s[i].name = p
      /\ \A p : Named(t, p) <=> \E i \in 1..Len(t) : t[i] # NoCase /\ t[i].name = p
  BY DEF Named
<1>5. /\ Once(s) <=> \A i, j \in D : s[i] # NoCase /\ s[j] # NoCase /\ s[i].name = s[j].name => i = j
      /\ Once(t) <=> \A i, j \in 1..Len(t) : t[i] # NoCase /\ t[j] # NoCase /\ t[i].name = t[j].name => i = j
  BY DEF Once
<1> HIDE DEF t, n, D
<1>6. \A p : Named(t, p) <=> Named(s, p) \/ (e # NoCase /\ e.name = p)
  BY <1>3, <1>4
<1>7. Once(s) /\ (e # NoCase => ~ Named(s, e.name)) => Once(t)
  BY <1>3, <1>4, <1>5
<1>8. QED
  BY <1>6, <1>7 DEF t

(* So is one that is taken from the front.                                 *)
LEMMA Removed ==
  ASSUME NEW s \in Seq(Items), s # <<>>
  PROVE  /\ \A p : Named(s, p) <=> Named(Tail(s), p) \/ (Head(s) # NoCase /\ Head(s).name = p)
         /\ Once(s) => Once(Tail(s)) /\ (Head(s) # NoCase => ~ Named(Tail(s), Head(s).name))
<1>1. /\ Len(Tail(s)) = Len(s) - 1 /\ Len(s) \in Nat /\ Len(s) # 0 /\ Head(s) = s[1]
      /\ \A i \in 1..Len(Tail(s)) : Tail(s)[i] = s[i + 1]
  OBVIOUS
<1>2. /\ \A i \in 1..Len(Tail(s)) : i + 1 \in 1..Len(s) /\ i + 1 # 1
      /\ \A j \in 1..Len(s) : j = 1 \/ (j - 1 \in 1..Len(Tail(s)) /\ s[j] = Tail(s)[j - 1])
      /\ 1 \in 1..Len(s)
  BY <1>1
<1>3. \A p : Named(s, p) <=> Named(Tail(s), p) \/ (Head(s) # NoCase /\ Head(s).name = p)
  <2>1. ASSUME NEW p, Named(s, p), ~ (Head(s) # NoCase /\ Head(s).name = p)
        PROVE  Named(Tail(s), p)
    <3>1. PICK j \in 1..Len(s) : s[j] # NoCase /\ s[j].name = p
      BY <2>1 DEF Named
    <3>2. j # 1
      BY <1>1, <2>1, <3>1
    <3>3. QED
      BY <1>2, <3>1, <3>2 DEF Named
  <2>2. ASSUME NEW p, Named(Tail(s), p) PROVE Named(s, p)
    <3>1. PICK i \in 1..Len(Tail(s)) : Tail(s)[i] # NoCase /\ Tail(s)[i].name = p
      BY <2>2 DEF Named
    <3>2. s[i + 1] # NoCase /\ s[i + 1].name = p /\ i + 1 \in 1..Len(s)
      BY <1>1, <1>2, <3>1
    <3>3. QED
      BY <3>2 DEF Named
  <2>3. ASSUME NEW p, Head(s) # NoCase, Head(s).name = p PROVE Named(s, p)
    BY <1>1, <1>2, <2>3 DEF Named
  <2>4. QED
    BY <2>1, <2>2, <2>3
<1>4. ASSUME Once(s) PROVE Once(Tail(s))
  <2> SUFFICES ASSUME NEW i \in 1..Len(Tail(s)), NEW j \in 1..Len(Tail(s)),
                      Tail(s)[i] # NoCase, Tail(s)[j] # NoCase, Tail(s)[i].name = Tail(s)[j].name
               PROVE  i = j
    BY DEF Once
  <2>1. i + 1 \in 1..Len(s) /\ j + 1 \in 1..Len(s) /\ Tail(s)[i] = s[i + 1] /\ Tail(s)[j] = s[j + 1]
    BY <1>1, <1>2
  <2>2. i + 1 = j + 1
    BY <1>4, <2>1 DEF Once
  <2>3. QED
    BY <2>2
<1>5. ASSUME Once(s), Head(s) # NoCase, Named(Tail(s), Head(s).name) PROVE FALSE
  <2>1. PICK i \in 1..Len(Tail(s)) : Tail(s)[i] # NoCase /\ Tail(s)[i].name = Head(s).name
    BY <1>5 DEF Named
  <2>2. i + 1 \in 1..Len(s) /\ s[i + 1] = Tail(s)[i] /\ i + 1 # 1
    BY <1>1, <1>2
  <2>3. QED
    BY <1>1, <1>2, <1>5, <2>1, <2>2 DEF Once
<1>6. QED
  BY <1>3, <1>4, <1>5
-----------------------------------------------------------------------------
Wanted == IF equalityOnly THEN HasEquality ELSE Problem

(* The filter has let pass what is wanted, and nothing else is called for. *)
Sieved ==
  /\ equalityOnly \in BOOLEAN
  /\ \A p \in Problem :
       /\ pc[p] \in {"throttle", "call", "wait", "send"} => p \in Wanted
       /\ pc[p] \in {"sieve", "check", "skip"} => equalityOnly
       /\ pc[p] = "skip" => p \notin Wanted

(* As long as there was no error: what has returned has sent one item, and *)
(* every item sent is in the report or on its way to it.                   *)
Accounted ==
  /\ Once(report) /\ Once(resultsChan)
  /\ \A p : ~ (Named(report, p) /\ Named(resultsChan, p))
  /\ \A p : Named(report, p) \/ Named(resultsChan, p)
              <=> p \in Problem /\ pc[p] = "returned" /\ p \in Wanted

Delivered ==
  /\ taken \in Nat
  /\ taken + Len(resultsChan) = Cardinality(Are({"returned"}))
  /\ Accounted

(* Nobody stops early but for an error.                                    *)
Ended ==
  /\ ~ collecting /\ ~ canceled => taken = Expected
  /\ outcome # "none" => ~ collecting /\ \A p \in Problem : pc[p] = "returned"
  /\ outcome = "report" => ~ canceled

RInv == Sieved /\ (~ canceled => Delivered) /\ Ended

(* Nothing has returned at first.                                          *)
LEMMA RInvInit == Init => RInv
<1> SUFFICES ASSUME Init PROVE RInv
  OBVIOUS
<1>1. Cardinality(Are({"returned"})) = 0
  <2>1. Are({"returned"}) = {}
    BY DEF Init, Are
  <2>2. QED
    BY <2>1, FS_EmptySet
<1>2. Sieved /\ Ended
  BY DEF Init, Sieved, Ended
<1>3. Accounted
  BY DEF Init, Accounted, Once, Named
<1>4. taken = 0 /\ Len(resultsChan) = 0
  BY DEF Init
<1>5. taken \in Nat /\ taken + Len(resultsChan) = Cardinality(Are({"returned"}))
  BY <1>1, <1>4
<1>6. QED
  BY <1>2, <1>3, <1>5 DEF RInv, Delivered

(* A goroutine moves within its way.                                       *)
LEMMA SievedMove ==
  ASSUME Calls, Sieved, UNCHANGED equalityOnly, NEW p \in Problem, NEW step, Goto(p, step),
         step \in {"throttle", "call", "wait", "send"} => p \in Wanted,
         step \in {"sieve", "check", "skip"} => equalityOnly,
         step = "skip" => p \notin Wanted
  PROVE  Sieved'
<1>1. \A q \in Problem : pc'[q] = IF q = p THEN step ELSE pc[q]
  BY DEF Goto, Calls
<1>2. Wanted' = Wanted
  BY DEF Wanted
<1>3. QED
  BY <1>1, <1>2 DEF Sieved

(* Every step of a goroutine is on its way.                                *)
LEMMA SievedNext ==
  ASSUME Calls, Sieved, [Next]_vars
  PROVE  Sieved'
<1>1. CASE UNCHANGED <<pc, equalityOnly>>
  BY <1>1 DEF Sieved, Wanted
<1>2. ASSUME NEW p \in Problem, Prove(p) PROVE Sieved'
  <2>1. CASE Get(p)
    BY <2>1, SievedMove DEF Get, Wanted, Sieved
  <2>2. CASE GetFails(p) \/ AcquireFails(p) \/ Skip(p) \/ Abort(p) \/ Send(p) \/ SendCanceled(p)
    BY <2>2, SievedMove DEF GetFails, AcquireFails, Skip, Abort, Send, SendCanceled, Return
  <2>3. CASE AcquireProcess(p)
    BY <2>3, SievedMove DEF AcquireProcess, At, Sieved
  <2>4. CASE Sieve(p)
    BY <2>4, SievedMove DEF Sieve, At, Sieved, Wanted
  <2>5. CASE AcquireInFlight(p) \/ Call(p) \/ Retry(p) \/ Result(p)
    BY <2>5, SievedMove DEF AcquireInFlight, Call, Retry, Result, At, Sieved
  <2>6. CASE CallCanceled(p)
    BY <2>6, <1>1 DEF CallCanceled, master
  <2>7. QED
    BY <1>2, <2>1, <2>2, <2>3, <2>4, <2>5, <2>6 DEF Prove
<1>3. CASE Collect \/ Wait \/ UNCHANGED vars \/ (ServiceNext /\ UNCHANGED master)
           \/ \E p \in Problem : SieveAgain(p)
  BY <1>1, <1>3 DEF Collect, Receive, ReceiveFails, CollectorReturns, Wait, SieveAgain, vars, master
<1>4. QED
  BY <1>2, <1>3 DEF Next
-----------------------------------------------------------------------------
(* A goroutine that does not return changes nothing of it.                 *)
LEMMA DeliveredMove ==
  ASSUME Calls, Delivered, UNCHANGED <<resultsChan, taken, report, equalityOnly>>,
         NEW p \in Problem, NEW step, Goto(p, step), pc[p] # "returned", step # "returned"
  PROVE  Delivered'
<1>1. \A q \in Problem : pc'[q] = "returned" <=> pc[q] = "returned"
  BY DEF Goto, Calls
<1>2. Are({"returned"})' = Are({"returned"})
  BY <1>1 DEF Are
<1>3. Wanted' = Wanted
  BY DEF Wanted
<1>4. Accounted'
  BY <1>1, <1>3 DEF Accounted, Delivered
<1>5. QED
  BY <1>2, <1>4 DEF Delivered

(* One that returns sends one item: its result, if it is wanted.           *)
LEMMA DeliveredReturn ==
  ASSUME Calls, Collected, Delivered, UNCHANGED <<taken, report, equalityOnly>>,
         NEW p \in Problem, Goto(p, "returned"), pc[p] # "returned",
         NEW e \in Items, resultsChan' = Append(resultsChan, e),
         e # NoCase <=> p \in Wanted, e # NoCase => e.name = p
  PROVE  Delivered'
<1>1. \A q \in Problem : pc'[q] = IF q = p THEN "returned" ELSE pc[q]
  BY DEF Goto, Calls
<1>2. Cardinality(Are({"returned"})') = Cardinality(Are({"returned"})) + 1
  BY Count DEF Calls
<1>3. resultsChan \in Seq(Items) /\ Len(resultsChan) \in Nat
      /\ Len(resultsChan') = Len(resultsChan) + 1
  BY DEF Collected
<1>4. Wanted' = Wanted
  BY DEF Wanted
<1>5. Accounted
  BY DEF Delivered
<1>6. ~ Named(report, p) /\ ~ Named(resultsChan, p)
  BY <1>5 DEF Accounted
<1>7. /\ \A q : Named(resultsChan', q) <=> Named(resultsChan, q) \/ (e # NoCase /\ q = p)
      /\ Once(resultsChan')
  BY <1>3, <1>5, <1>6, Added DEF Accounted
<1>8. \A q : Named(report, q) \/ Named(resultsChan', q)
               <=> q \in Problem /\ pc'[q] = "returned" /\ q \in Wanted
  <2>1. ASSUME NEW q, q # p
        PROVE  Named(report, q) \/ Named(resultsChan', q)
                 <=> q \in Problem /\ pc'[q] = "returned" /\ q \in Wanted
    BY <1>1, <1>5, <1>7, <2>1 DEF Accounted
  <2>2. Named(report, p) \/ Named(resultsChan', p) <=> p \in Wanted
    BY <1>6, <1>7
  <2>3. QED
    BY <1>1, <2>1, <2>2
<1>9. Accounted'
  BY <1>4, <1>5, <1>6, <1>7, <1>8 DEF Accounted
<1>10. QED
  BY <1>2, <1>3, <1>9 DEF Delivered

(* The collector moves the first item to the report, if it is a result.    *)
LEMMA DeliveredReceive ==
  ASSUME Calls, Collected, Delivered, Receive
  PROVE  Delivered'
<1> DEFINE e == Head(resultsChan)
<1>1. /\ resultsChan \in Seq(Items) /\ resultsChan # <<>> /\ report \in Seq(Items)
      /\ resultsChan' = Tail(resultsChan) /\ taken' = taken + 1
      /\ UNCHANGED <<pc, equalityOnly>>
  BY DEF Receive, Collected
<1>2. Len(resultsChan') = Len(resultsChan) - 1 /\ Len(resultsChan) \in Nat /\ e \in Items
  BY <1>1
<1>3. /\ \A q : Named(resultsChan, q) <=> Named(resultsChan', q) \/ (e # NoCase /\ e.name = q)
      /\ Once(resultsChan') /\ (e # NoCase => ~ Named(resultsChan', e.name))
  BY <1>1, Removed DEF Delivered, Accounted
<1>4. report' = IF e = NoCase THEN report ELSE Append(report, e)
  BY DEF Receive
<1> HIDE DEF e
<1>5. e # NoCase => ~ Named(report, e.name)
  BY <1>3 DEF Delivered, Accounted
<1>6. /\ \A q : Named(report', q) <=> Named(report, q) \/ (e # NoCase /\ e.name = q)
      /\ Once(report')
  <2>1. CASE e = NoCase
    BY <1>4, <2>1 DEF Delivered, Accounted
  <2>2. CASE e # NoCase
    BY <1>1, <1>2, <1>4, <1>5, <2>2, Added DEF Delivered, Accounted
  <2>3. QED
    BY <2>1, <2>2
<1>7. Wanted' = Wanted /\ Are({"returned"})' = Are({"returned"})
  BY <1>1 DEF Wanted, Are
<1>8. Accounted'
  BY <1>1, <1>3, <1>5, <1>6, <1>7 DEF Delivered, Accounted
<1>9. QED
  BY <1>1, <1>2, <1>7, <1>8 DEF Delivered

(* The only ways to return without an error are those that send.           *)
LEMMA DeliveredNext ==
  ASSUME Calls, Current, Collected, Sieved, ~ canceled => Delivered, [Next]_vars
  PROVE  ~ canceled' => Delivered'
<1> SUFFICES ASSUME ~ canceled' PROVE Delivered'
  OBVIOUS
<1>1. CASE UNCHANGED <<pc, resultsChan, taken, report, equalityOnly, canceled>>
  BY <1>1 DEF Delivered, Accounted, Once, Named, Are, Wanted
<1>2. ASSUME NEW p \in Problem, Prove(p) PROVE Delivered'
  <2>1. CASE Get(p) \/ AcquireProcess(p) \/ Sieve(p) \/ AcquireInFlight(p) \/ Call(p) \/ Retry(p)
             \/ Result(p)
    <3>1. PICK step : Goto(p, step) /\ step # "returned"
      BY <2>1 DEF Get, AcquireProcess, Sieve, AcquireInFlight, Call, Retry, Result
    <3>2. pc[p] # "returned" /\ UNCHANGED <<resultsChan, taken, report, equalityOnly, canceled>>
      BY <2>1 DEF Get, AcquireProcess, Sieve, AcquireInFlight, Call, Retry, Result, At
    <3>3. QED
      BY <3>1, <3>2, DeliveredMove
  <2>2. CASE GetFails(p) \/ AcquireFails(p) \/ Abort(p) \/ SendCanceled(p)
    BY <2>2 DEF GetFails, AcquireFails, Abort, SendCanceled, Return
  <2>3. CASE Skip(p)
    <3>1. /\ Goto(p, "returned") /\ pc[p] = "skip" /\ ~ canceled
          /\ resultsChan' = Append(resultsChan, NoCase)
          /\ UNCHANGED <<taken, report, equalityOnly>>
      BY <2>3 DEF Skip, Return, At
    <3>2. p \notin Wanted /\ NoCase \in Items
      BY <3>1 DEF Sieved, Items
    <3>3. QED
      BY <3>1, <3>2, DeliveredReturn
  <2>4. CASE Send(p)
    <3> DEFINE e == [name |-> p, case |-> rpc[p]]
    <3>1. /\ Goto(p, "returned") /\ pc[p] = "send" /\ ~ canceled
          /\ resultsChan' = Append(resultsChan, e)
          /\ UNCHANGED <<taken, report, equalityOnly>>
      BY <2>4 DEF Send, Return, At
    <3>2. p \in Wanted /\ rpc[p] \in Case /\ rpc[p].commit = Commit
      BY <3>1 DEF Sieved, Calls, Current
    <3>3. e \in [name : Problem, case : Case] /\ e # NoCase /\ e.name = p
      BY <3>2, MasterAssumption
    <3>4. e \in Items
      BY <3>2 DEF Items
    <3> HIDE DEF e
    <3>5. QED
      BY <3>1, <3>2, <3>3, <3>4, DeliveredReturn
  <2>5. CASE CallCanceled(p)
    BY <2>5, <1>1 DEF CallCanceled, master
  <2>6. QED
    BY <1>2, <2>1, <2>2, <2>3, <2>4, <2>5 DEF Prove
<1>3. CASE Receive
  BY <1>3, DeliveredReceive DEF Receive
<1>4. CASE ReceiveFails
  BY <1>4 DEF ReceiveFails
<1>5. CASE CollectorReturns \/ Wait \/ UNCHANGED vars \/ (ServiceNext /\ UNCHANGED master)
           \/ \E p \in Problem : SieveAgain(p)
  BY <1>1, <1>5 DEF CollectorReturns, Wait, SieveAgain, vars, master
<1>6. QED
  BY <1>2, <1>3, <1>4, <1>5 DEF Next, Collect

(* Once run() is over nothing of it moves.                                 *)
LEMMA EndedNext ==
  ASSUME Calls, Ended, [Next]_vars
  PROVE  Ended'
<1>1. CASE UNCHANGED <<pc, taken, collecting, canceled, outcome>>
  BY <1>1 DEF Ended, Expected
<1>2. ASSUME NEW p \in Problem, Prove(p), ~ CallCanceled(p) PROVE Ended'
  <2>1. CASE Get(p) \/ AcquireProcess(p) \/ Sieve(p) \/ AcquireInFlight(p) \/ Call(p) \/ Retry(p)
             \/ Result(p)
    <3>1. pc[p] # "returned" /\ UNCHANGED <<taken, collecting, canceled, outcome>>
      BY <2>1 DEF Get, AcquireProcess, Sieve, AcquireInFlight, Call, Retry, Result, At
    <3>2. QED
      BY <3>1 DEF Ended, Expected
  <2>2. CASE GetFails(p) \/ AcquireFails(p) \/ Skip(p) \/ Abort(p) \/ Send(p) \/ SendCanceled(p)
    <3>1. /\ pc[p] # "returned" /\ UNCHANGED <<taken, collecting, outcome>>
          /\ canceled => canceled'
      BY <2>2 DEF GetFails, AcquireFails, Skip, Abort, Send, SendCanceled, Return, At
    <3>2. QED
      BY <3>1 DEF Ended, Expected
  <2>3. QED
    BY <1>2, <2>1, <2>2 DEF Prove
<1>3. CASE Receive \/ ReceiveFails
  BY <1>3 DEF Receive, ReceiveFails, Ended
<1>4. CASE CollectorReturns
  BY <1>4 DEF CollectorReturns, Ended, Expected
<1>5. CASE Wait
  BY <1>5 DEF Wait, Ended, Expected, At
<1>6. CASE UNCHANGED vars \/ (ServiceNext /\ UNCHANGED master)
           \/ \E p \in Problem : SieveAgain(p) \/ CallCanceled(p)
  BY <1>1, <1>6 DEF SieveAgain, CallCanceled, vars, master
<1>7. QED
  BY <1>2, <1>3, <1>4, <1>5, <1>6 DEF Next, Collect
-----------------------------------------------------------------------------
(* At the end the channel is empty, so every wanted problem is in the      *)
(* report, and none twice.                                                 *)
LEMMA WholeAtTheEnd ==
  ASSUME Calls, Collected, RInv, outcome = "report"
  PROVE  /\ Len(report) = Cardinality(Wanted)
         /\ {report[i].name : i \in 1..Len(report)} = Wanted
<1>1. ~ canceled /\ ~ collecting /\ Delivered /\ taken = Cardinality(Problem)
      /\ \A p \in Problem : pc[p] = "returned"
  BY DEF RInv, Ended, Expected
<1>2. Are({"returned"}) = Problem
  BY <1>1 DEF Are
<1>3. Len(resultsChan) = 0
  <2>1. Len(resultsChan) \in Nat /\ taken \in Nat
        /\ taken + Len(resultsChan) = taken
    BY <1>1, <1>2 DEF Delivered, Collected
  <2>2. QED
    BY <2>1
<1>4. \A p : ~ Named(resultsChan, p)
  BY <1>3 DEF Named
<1>5. Wanted \subseteq Problem /\ IsFiniteSet(Wanted)
  <2>1. Wanted \subseteq Problem
    BY MasterAssumption DEF Wanted
  <2>2. QED
    BY <2>1, MasterAssumption, FS_Subset
<1>6. \A p : Named(report, p) <=> p \in Wanted
  BY <1>1, <1>4, <1>5 DEF Delivered, Accounted
<1>7. \A i \in 1..Len(report) : report[i] # NoCase
  BY DEF Collected
<1>8. {report[i].name : i \in 1..Len(report)} = Wanted
  BY <1>6, <1>7 DEF Named
<1> DEFINE f == [i \in 1..Len(report) |-> report[i].name]
<1>9. f \in Bijection(1..Len(report), Wanted)
  <2>1. \A i, j \in 1..Len(report) : report[i].name = report[j].name => i = j
    BY <1>1, <1>7 DEF Delivered, Accounted, Once
  <2>2. QED
    BY <1>8, <2>1 DEF Bijection, Injection, Surjection, IsInjective
<1>10. Cardinality(1..Len(report)) = Len(report) /\ IsFiniteSet(1..Len(report))
  <2>1. Len(report) \in Nat
    BY DEF Collected
  <2>2. QED
    <3>1. \A n \in Nat : 1 \in Int /\ n \in Int
      OBVIOUS
    <3>2. IsFiniteSet(1..Len(report))
      BY <2>1, <3>1, FS_Interval
    <3>3. Cardinality(1..Len(report)) = IF 1 > Len(report) THEN 0 ELSE Len(report) - 1 + 1
      BY <2>1, <3>1, FS_Interval
    <3>4. QED
      BY <2>1, <3>2, <3>3
<1>11. Cardinality(Wanted) = Cardinality(1..Len(report))
  BY <1>9, <1>10, FS_Bijection DEF ExistsBijection
<1>12. QED
  BY <1>8, <1>10, <1>11

(* A report that run() writes has exactly one case for every problem that  *)
(* was not filtered out, whatever was lost, refused, repeated or in which  *)
(* order it came.                                                          *)
THEOREM WholeReport == Spec => []ReportWhole
<1>1. Init => RInv
  BY RInvInit
<1>2. IInv /\ RInv /\ [Next]_vars => RInv'
  BY SievedNext, DeliveredNext, EndedNext DEF RInv, IInv
<1>3. IInv /\ RInv => ReportWhole
  BY WholeAtTheEnd DEF IInv, ReportWhole, Wanted
<1>4. QED
  BY <1>1, <1>2, <1>3, Invariance, PTL DEF Spec
=============================================================================
