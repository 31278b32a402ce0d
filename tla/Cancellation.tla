----------------------------- MODULE Cancellation -----------------------------
(***************************************************************************)
(* What a tree of contexts promises to those who wait for one: a context   *)
(* is done only when somebody asked for it or its base is done, and once   *)
(* its base is done it will be done too, unless it is destroyed before.    *)
(* The locks and the threads of Ctx implement it.                          *)
(***************************************************************************)
EXTENDS Naturals

CONSTANTS
  Context,   \* the contexts
  NoBase     \* the base of a context that has no other

ASSUME CancellationAssumption == NoBase \notin Context

VARIABLES
  base,    \* the context each one was made from
  life,    \* "unborn", "live" or "gone"
  done,    \* the contexts that are done
  asked    \* the contexts somebody asked to be done: a call of cancel() or a deadline

context == <<base, life, done, asked>>

Lives == {"unborn", "live", "gone"}

ContextOK ==
  /\ base \in [Context -> Context \union {NoBase}]
  /\ life \in [Context -> Lives]
  /\ done \subseteq Context /\ asked \subseteq Context

Init ==
  /\ base = [c \in Context |-> NoBase]
  /\ life = [c \in Context |-> "unborn"]
  /\ done = {} /\ asked = {}

Live(c) == c # NoBase /\ life[c] = "live"

Create(c, b) ==
  /\ life[c] = "unborn" /\ (b = NoBase \/ Live(b))
  /\ base' = [base EXCEPT ![c] = b]
  /\ life' = [life EXCEPT ![c] = "live"]
  /\ UNCHANGED <<done, asked>>

Ask(c) ==
  /\ Live(c) /\ c \notin asked
  /\ asked' = asked \union {c}
  /\ UNCHANGED <<base, life, done>>

Finish(c) ==
  /\ Live(c) /\ c \notin done
  /\ c \in asked \/ base[c] \in done
  /\ done' = done \union {c}
  /\ UNCHANGED <<base, life, asked>>

Destroy(c) ==
  /\ Live(c) /\ \A k \in Context : base[k] = c => ~Live(k)
  /\ life' = [life EXCEPT ![c] = "gone"]
  /\ UNCHANGED <<base, done, asked>>

Next ==
  \E c \in Context :
    \/ \E b \in Context \union {NoBase} : Create(c, b)
    \/ Ask(c) \/ Finish(c) \/ Destroy(c)

Spec == Init /\ [][Next]_context
==============================================================================
