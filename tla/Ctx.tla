---------------------------------- MODULE Ctx ----------------------------------
(***************************************************************************)
(* The contexts of utils/ctx.h.  Each has a mutex, and cancel() holds it   *)
(* while it cancels the children, so that a thread may hold the mutexes of *)
(* a whole path of the tree; constructors and destructors take the mutex   *)
(* of the base.  Contexts are counted by shared_ptr: the last thread that  *)
(* lets one go runs its destructor.  A context with a timeout has a thread *)
(* of its own, which waits for the deadline or the end of the context.     *)
(* Nobody can cancel a background context, and no thread takes another     *)
(* mutex with its mutex held: it is NoBase here.                           *)
(***************************************************************************)
EXTENDS Cancellation, Integers, Sequences, SequencesExt

CONSTANTS
  Thread,     \* the threads of the program
  NoActor     \* nobody

ASSUME CtxAssumption ==
  /\ Context \subseteq Nat
  /\ Thread \intersect Context = {} /\ NoActor \notin Thread \union Context

VARIABLES
  timed,      \* the contexts made by with_timeout
  expired,    \* those whose deadline has passed
  task,       \* timeout_task of each: "none", "waiting" or "called"
  children,   \* the children of each context
  mtx,        \* who holds the mutex of each context
  held,       \* the contexts each thread has a Ptr or a Cancel of
  stack       \* the calls each thread is in, the innermost last

vars == <<context, timed, expired, task, children, mtx, held, stack>>

Actor == Thread \union Context   \* timeout_task of context c is actor c

\* The calls, by the point a thread has reached: "new" is at the lock of add_child(),
\* "start" at the rest of the constructor, "cancel" at the lock of cancel(), "loop" in
\* the loop over the children "todo" with the mutex held, "dtor" at the destructor,
\* "join" at timeout_task.wait(), "del" at the lock of del_child().
Steps == {"new", "start", "cancel", "loop", "dtor", "join", "del"}
Call(step, c, todo) == [step |-> step, ctx |-> c, todo |-> todo]
At(step, c) == Call(step, c, {})
Calls == [step : Steps, ctx : Context, todo : SUBSET Context]

CtxInit ==
  /\ Init
  /\ timed = {} /\ expired = {}
  /\ task = [c \in Context |-> "none"]
  /\ children = [c \in Context |-> {}]
  /\ mtx = [c \in Context |-> NoActor]
  /\ held = [t \in Thread |-> {}]
  /\ stack = [a \in Actor |-> <<>>]
-----------------------------------------------------------------------------
Idle(a) == stack[a] = <<>>
Under(a) == Front(stack[a])
Top(a) == Last(stack[a])
In(a, step) == ~Idle(a) /\ Top(a).step = step
Becomes(a, calls) == stack' = [stack EXCEPT ![a] = Under(a) \o calls]
Free(c) == mtx[c] = NoActor

\* Whether t or the child k holds the only reference to c.
LastOf(c, ts, k) ==
  /\ \A t \in Thread \ ts : c \notin held[t]
  /\ \A j \in Context \ {k} : ~(base[j] = c /\ life[j] = "live")

\* ~CtxWithTimeout() or ~Ctx().
Destroying(c) == <<At(IF c \in timed THEN "dtor" ELSE "del", c)>>

\* with_cancel() and with_timeout(): the constructor begins.
New(t, c, b, timeout) ==
  /\ Idle(t) /\ life[c] = "unborn" /\ \A k \in Context : k < c => life[k] # "unborn"
  /\ b \in held[t] \union {NoBase}
  /\ base' = [base EXCEPT ![c] = b]
  /\ life' = [life EXCEPT ![c] = "live"]
  /\ timed' = IF timeout THEN timed \union {c} ELSE timed
  /\ stack' = [stack EXCEPT ![t] = <<At(IF b = NoBase THEN "start" ELSE "new", c)>>]
  /\ UNCHANGED <<done, asked, expired, task, children, mtx, held>>

\* Mutant: add_child() does not look whether the base is done.
BadAddChild(a) ==
  /\ In(a, "new") /\ Free(base[Top(a).ctx])
  /\ children' = [children EXCEPT ![base[Top(a).ctx]] = @ \union {Top(a).ctx}]
  /\ Becomes(a, <<At("start", Top(a).ctx)>>)
  /\ UNCHANGED <<context, timed, expired, task, mtx, held>>

\* add_child(): the new child of a context that is done is cancelled under its lock.
AddChild(a) ==
  /\ In(a, "new")
  /\ LET c == Top(a).ctx
         b == base[c]
     IN /\ Free(b)
        /\ children' = [children EXCEPT ![b] = @ \union {c}]
        /\ IF b \in done
           THEN /\ mtx' = [mtx EXCEPT ![b] = a]
                /\ Becomes(a, <<At("start", c), Call("loop", b, {c})>>)
           ELSE Becomes(a, <<At("start", c)>>) /\ UNCHANGED mtx
  /\ UNCHANGED <<context, timed, expired, task, held>>

\* The constructor of CtxWithTimeout starts timeout_task.  The thread shares what it gets,
\* a Ptr and a Cancel, with another one or keeps both.
Start(t, u) ==
  /\ In(t, "start")
  /\ LET c == Top(t).ctx
     IN /\ held' = [v \in Thread |-> IF v \in {t, u} THEN held[v] \union {c} ELSE held[v]]
        /\ task' = IF c \in timed THEN [task EXCEPT ![c] = "waiting"] ELSE task
  /\ Becomes(t, <<>>)
  /\ UNCHANGED <<context, timed, expired, children, mtx>>

\* The Cancel of with_cancel().
AskCancel(t, c) ==
  /\ Idle(t) /\ c \in held[t] \ (timed \union asked)
  /\ asked' = asked \union {c}
  /\ stack' = [stack EXCEPT ![t] = <<At("cancel", c)>>]
  /\ UNCHANGED <<base, life, done, timed, expired, task, children, mtx, held>>

Let(t, c) ==
  /\ Idle(t) /\ c \in held[t]
  /\ held' = [held EXCEPT ![t] = @ \ {c}]
  /\ stack' = IF LastOf(c, {t}, NoBase) THEN [stack EXCEPT ![t] = Destroying(c)] ELSE stack
  /\ UNCHANGED <<context, timed, expired, task, children, mtx>>
-----------------------------------------------------------------------------
\* cancel() takes the lock and returns at once when the context is done.  A critical
\* section in which no other mutex is taken is one step.
EnterCancel(a) ==
  /\ In(a, "cancel")
  /\ LET c == Top(a).ctx
     IN /\ Free(c)
        /\ IF c \in done
           THEN Becomes(a, <<>>) /\ UNCHANGED <<done, mtx>>
           ELSE /\ done' = done \union {c}
                /\ IF children[c] = {}
                   THEN Becomes(a, <<>>) /\ UNCHANGED mtx
                   ELSE /\ mtx' = [mtx EXCEPT ![c] = a]
                        /\ Becomes(a, <<Call("loop", c, children[c])>>)
  /\ UNCHANGED <<base, life, asked, timed, expired, task, children, held>>

CancelChild(a) ==
  /\ In(a, "loop")
  /\ \E k \in Top(a).todo :
       Becomes(a, <<Call("loop", Top(a).ctx, Top(a).todo \ {k}), At("cancel", k)>>)
  /\ UNCHANGED <<context, timed, expired, task, children, mtx, held>>

Unlock(a) ==
  /\ In(a, "loop") /\ Top(a).todo = {}
  /\ mtx' = [mtx EXCEPT ![Top(a).ctx] = NoActor]
  /\ Becomes(a, <<>>)
  /\ UNCHANGED <<context, timed, expired, task, children, held>>

Deadline(c) ==
  /\ c \in timed \ expired /\ life[c] = "live"
  /\ expired' = expired \union {c}
  /\ UNCHANGED <<context, timed, task, children, mtx, held, stack>>

\* Mutant: timeout_task wakes up before the deadline.
BadTaskWakes(c) ==
  /\ task[c] = "waiting"
  /\ task' = [task EXCEPT ![c] = "called"]
  /\ stack' = [stack EXCEPT ![c] = <<At("cancel", c)>>]
  /\ UNCHANGED <<context, timed, expired, children, mtx, held>>

\* timeout_task: wait_until() returns.
TaskWakes(c) ==
  /\ task[c] = "waiting" /\ c \in done \union expired
  /\ task' = [task EXCEPT ![c] = "called"]
  /\ stack' = [stack EXCEPT ![c] = <<At("cancel", c)>>]
  /\ UNCHANGED <<context, timed, expired, children, mtx, held>>
-----------------------------------------------------------------------------
\* ~CtxWithTimeout() cancels the context and waits for its thread.
Destructor(a) ==
  /\ In(a, "dtor")
  /\ Becomes(a, <<At("join", Top(a).ctx), At("cancel", Top(a).ctx)>>)
  /\ asked' = asked \union {Top(a).ctx}
  /\ UNCHANGED <<base, life, done, timed, expired, task, children, mtx, held>>

\* Mutant: the destructor does not wait for the thread.
BadJoined(c) == TRUE

Joined(c) == task[c] = "called" /\ Idle(c)

\* Mutant: the destructor keeps the mutex of the context.
BadJoin(a) ==
  /\ In(a, "join") /\ Joined(Top(a).ctx) /\ Free(Top(a).ctx)
  /\ mtx' = [mtx EXCEPT ![Top(a).ctx] = a]
  /\ Becomes(a, <<At("del", Top(a).ctx)>>)
  /\ UNCHANGED <<context, timed, expired, task, children, held>>

Join(a) ==
  /\ In(a, "join") /\ Joined(Top(a).ctx)
  /\ Becomes(a, <<At("del", Top(a).ctx)>>)
  /\ UNCHANGED <<context, timed, expired, task, children, mtx, held>>

\* ~Ctx(): del_child() of the base, whose last reference may have been this context's.
DelChild(a) ==
  /\ In(a, "del")
  /\ LET c == Top(a).ctx
         b == base[c]
     IN /\ life' = [life EXCEPT ![c] = "gone"]
        /\ IF b = NoBase
           THEN Becomes(a, <<>>) /\ UNCHANGED children
           ELSE /\ Free(b)
                /\ children' = [children EXCEPT ![b] = @ \ {c}]
                /\ Becomes(a, IF LastOf(b, {}, c) THEN Destroying(b) ELSE <<>>)
  /\ UNCHANGED <<base, done, asked, timed, expired, task, mtx, held>>
-----------------------------------------------------------------------------
Resume(a) ==
  \/ AddChild(a) \/ EnterCancel(a) \/ CancelChild(a) \/ Unlock(a)
  \/ Destructor(a) \/ Join(a) \/ DelChild(a)
  \/ a \in Thread /\ \E u \in Thread : Start(a, u)
  \/ a \in Context /\ TaskWakes(a)

Begin(t) ==
  \E c \in Context :
    \/ \E b \in Context \union {NoBase}, timeout \in BOOLEAN : New(t, c, b, timeout)
    \/ AskCancel(t, c) \/ Let(t, c)

CtxNext ==
  \/ \E t \in Thread : Begin(t)
  \/ \E a \in Actor : Resume(a)
  \/ \E c \in Context : Deadline(c)

CtxSpec == CtxInit /\ [][CtxNext]_vars
-----------------------------------------------------------------------------
TypeOK ==
  /\ ContextOK
  /\ timed \subseteq Context /\ expired \subseteq Context
  /\ task \in [Context -> {"none", "waiting", "called"}]
  /\ children \in [Context -> SUBSET Context]
  /\ mtx \in [Context -> Actor \union {NoActor}]
  /\ held \in [Thread -> SUBSET Context]
  /\ stack \in [Actor -> Seq(Calls)]

\* ~CtxWithTimeout() waits for its thread, and ~Ctx() for the lock of the base: no
\* thread is in, or about to enter, a member function of a context that is destroyed,
\* nor has such a context a locked mutex or a child that points to it.
Alive ==
  /\ \A a \in Actor : \A i \in DOMAIN stack[a] :
       \A c \in stack[a][i].todo \union {stack[a][i].ctx} :
         Live(c) /\ (base[c] = NoBase \/ Live(base[c]))
  /\ \A c \in Context : task[c] = "waiting" \/ ~Free(c) => Live(c)
  /\ \A c \in Context : Live(c) => \A k \in children[c] : Live(k)

\* A set that has the base of each of its contexts, as far as they have one.
HasBases(cs) == \A c \in cs : base[c] # NoBase => base[c] \in cs

\* The base of c, the base of this, and so on.
Above(c) ==
  {b \in Context : \A cs \in SUBSET Context :
     base[c] \in cs \union {NoBase} /\ HasBases(cs) => b \in cs}

\* cancel() has set the promises of the whole tree when it returns, and a context made
\* later from a part of that tree is done before its constructor returns.
Reaches ==
  \A c \in Context : (\E t \in Thread : c \in held[t]) =>
    \A b \in Above(c) : b \in done /\ Free(b) => c \in done

\* Whom a thread waits for: the holder of the mutex it needs, or the timeout_task it joins.
WaitsFor(a) ==
  CASE In(a, "new") \/ (In(a, "del") /\ base[Top(a).ctx] # NoBase) -> mtx[base[Top(a).ctx]]
    [] In(a, "cancel") -> mtx[Top(a).ctx]
    [] In(a, "join") /\ ~Joined(Top(a).ctx) -> Top(a).ctx
    [] OTHER -> NoActor

\* Threads cancel and destroy in any order, each with the mutexes of a path of the tree:
\* no threads ever wait for each other in a circle.
NoDeadlock == \A A \in (SUBSET Actor) \ {{}} : \E a \in A : WaitsFor(a) \notin A

\* Whatever the threads do, a context is done only when it was asked or its base is done,
\* and outlives all that were made from it.
Promise == INSTANCE Cancellation WITH asked <- asked \union expired
Implements == Promise!Spec
==============================================================================
