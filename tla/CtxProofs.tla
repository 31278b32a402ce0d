------------------------------- MODULE CtxProofs -------------------------------
(***************************************************************************)
(* What holds of any number of contexts and threads.                       *)
(***************************************************************************)
EXTENDS Ctx, SequenceTheorems, WellFoundedInduction, TLAPS

-----------------------------------------------------------------------------
\* Stacks of calls.

Frames(a) == 1..Len(stack[a])
Types == stack \in [Actor -> Seq(Calls)]

(* The parts of a frame.                                                   *)
LEMMA CallParts ==
  /\ \A f \in Calls : f.step \in Steps /\ f.ctx \in Context /\ f.todo \subseteq Context
  /\ \A s, c, cs : /\ Call(s, c, cs).step = s /\ Call(s, c, cs).ctx = c
                   /\ Call(s, c, cs).todo = cs
  /\ \A s, c : At(s, c).step = s /\ At(s, c).ctx = c /\ At(s, c).todo = {}
  /\ \A s \in Steps, c \in Context, cs \in SUBSET Context : Call(s, c, cs) \in Calls
  /\ \A s \in Steps, c \in Context : At(s, c) \in Calls
BY DEF Calls, Call, At

(* The frames of a stack.                                                  *)
LEMMA FrameTypes ==
  ASSUME Types, NEW a \in Actor
  PROVE  /\ Len(stack[a]) \in Nat
         /\ Idle(a) <=> Len(stack[a]) = 0
         /\ \A i \in Frames(a) : stack[a][i] \in Calls
<1>1. stack[a] \in Seq(Calls)
  BY DEF Types
<1>2. QED
  BY <1>1, EmptySeq, ElementOfSeq, LenProperties DEF Idle, Frames

(* The call a thread is in.                                                *)
LEMMA TopFrame ==
  ASSUME Types, NEW a \in Actor, NEW s, In(a, s)
  PROVE  /\ ~Idle(a) /\ Len(stack[a]) \in Nat \ {0} /\ Len(stack[a]) \in Frames(a)
         /\ Top(a) = stack[a][Len(stack[a])]
         /\ Top(a) \in Calls /\ Top(a).step = s
BY FrameTypes DEF In, Top, Last, Frames

OthersStay(a) ==
  /\ stack' \in [Actor -> Seq(Calls)]
  /\ \A b \in Actor : b # a => stack'[b] = stack[b]

(* Becomes(): the innermost frame of a is replaced by others.              *)
LEMMA Replaced ==
  ASSUME Types, NEW a \in Actor, ~Idle(a), NEW calls \in Seq(Calls), Becomes(a, calls)
  PROVE  /\ OthersStay(a)
         /\ Len(stack'[a]) = (Len(stack[a]) - 1) + Len(calls)
         /\ \A i \in 1..(Len(stack[a]) - 1) : stack'[a][i] = stack[a][i]
         /\ \A i \in 1..Len(calls) : stack'[a][(Len(stack[a]) - 1) + i] = calls[i]
<1> DEFINE s == stack[a]
           u == SubSeq(s, 1, Len(s) - 1)
<1>1. s \in Seq(Calls) /\ Len(s) \in Nat \ {0}
  BY FrameTypes DEF Types
<1>2. u \in Seq(Calls) /\ Len(u) = Len(s) - 1 /\ \A i \in 1..(Len(s) - 1) : u[i] = s[i]
  <2>1. \A i \in 1..(Len(s) - 1) : s[i] \in Calls
    BY <1>1, ElementOfSeq
  <2>2. QED
    BY <1>1, <2>1, SubSeqProperties
<1>3. stack' = [stack EXCEPT ![a] = u \o calls]
  BY DEF Becomes, Under, Front
<1> HIDE DEF s, u
<1>4. /\ u \o calls \in Seq(Calls)
      /\ Len(u \o calls) = Len(u) + Len(calls)
      /\ \A i \in 1..Len(u) : (u \o calls)[i] = u[i]
      /\ \A i \in 1..Len(calls) : (u \o calls)[Len(u) + i] = calls[i]
  <2>1. Len(u) \in Nat /\ Len(calls) \in Nat
    BY <1>2, LenProperties
  <2>2. /\ u \o calls \in Seq(Calls) /\ Len(u \o calls) = Len(u) + Len(calls)
        /\ \A i \in 1..Len(u) + Len(calls) :
             (u \o calls)[i] = IF i <= Len(u) THEN u[i] ELSE calls[i - Len(u)]
    BY <1>2, ConcatProperties
  <2>3. QED
    BY <2>1, <2>2
<1>5. stack'[a] = u \o calls /\ OthersStay(a)
  BY <1>3, <1>4 DEF Types, OthersStay
<1>6. QED
  BY <1>1, <1>2, <1>4, <1>5 DEF s

(* Frame i of thread a.                                                    *)
Depth(a) == Len(stack[a])
Step(a, i) == stack[a][i].step
Target(a, i) == stack[a][i].ctx
Todo(a, i) == stack[a][i].todo

(* The frames of all threads are calls.                                    *)
LEMMA FramesTyped ==
  ASSUME Types
  PROVE  \A a \in Actor :
           /\ Depth(a) \in Nat
           /\ Idle(a) <=> Depth(a) = 0
           /\ \A i \in 1..Depth(a) :
                Step(a, i) \in Steps /\ Target(a, i) \in Context /\ Todo(a, i) \subseteq Context
BY FrameTypes, CallParts DEF Depth, Step, Target, Todo, Frames

SameFrame(a, i) ==
  Step(a, i)' = Step(a, i) /\ Target(a, i)' = Target(a, i) /\ Todo(a, i)' = Todo(a, i)
NewFrame(a, i, f) ==
  Step(a, i)' = f.step /\ Target(a, i)' = f.ctx /\ Todo(a, i)' = f.todo

(* All frames stay but those of a above the first n.                       *)
Stays(a, n) ==
  /\ stack' \in [Actor -> Seq(Calls)]
  /\ \A b \in Actor : b # a => Depth(b)' = Depth(b) /\ \A i \in 1..Depth(b) : SameFrame(b, i)
  /\ \A i \in 1..n : SameFrame(a, i)

(* A call returns, turns into another, or calls; a thread begins with one. *)
LEMMA Moves ==
  ASSUME Types, NEW a \in Actor, NEW n, n = Depth(a)
  PROVE  /\ ~Idle(a) /\ Becomes(a, <<>>) => Stays(a, n - 1) /\ Depth(a)' = n - 1
         /\ \A f \in Calls : ~Idle(a) /\ Becomes(a, <<f>>) =>
              Stays(a, n - 1) /\ Depth(a)' = n /\ NewFrame(a, n, f)
         /\ \A f, g \in Calls : ~Idle(a) /\ Becomes(a, <<g, f>>) =>
              /\ Stays(a, n - 1) /\ Depth(a)' = n + 1
              /\ NewFrame(a, n, g) /\ NewFrame(a, n + 1, f)
         /\ \A f \in Calls : Idle(a) /\ stack' = [stack EXCEPT ![a] = <<f>>] =>
              Stays(a, n) /\ Depth(a)' = 1 /\ NewFrame(a, 1, f)
<1>1. n \in Nat /\ n = Len(stack[a]) /\ (Idle(a) <=> n = 0)
  BY FrameTypes DEF Depth
<1>2. OthersStay(a) /\ (\A i \in 1..(n - 1) : stack'[a][i] = stack[a][i]) => Stays(a, n - 1)
  BY DEF OthersStay, Stays, Depth, SameFrame, Step, Target, Todo
<1>3. ASSUME ~Idle(a), Becomes(a, <<>>) PROVE Stays(a, n - 1) /\ Depth(a)' = n - 1
  <2>1. <<>> \in Seq(Calls) /\ Len(<<>>) = 0
    OBVIOUS
  <2>2. /\ Len(stack'[a]) = (Len(stack[a]) - 1) + 0 /\ OthersStay(a)
        /\ \A i \in 1..(Len(stack[a]) - 1) : stack'[a][i] = stack[a][i]
    BY <1>3, <2>1, Replaced
  <2>3. QED
    BY <1>1, <1>2, <2>2 DEF Depth
<1>4. ASSUME NEW f \in Calls, ~Idle(a), Becomes(a, <<f>>)
      PROVE  Stays(a, n - 1) /\ Depth(a)' = n /\ NewFrame(a, n, f)
  <2>1. <<f>> \in Seq(Calls) /\ Len(<<f>>) = 1 /\ <<f>>[1] = f
    OBVIOUS
  <2>2. /\ Len(stack'[a]) = (Len(stack[a]) - 1) + 1 /\ OthersStay(a)
        /\ \A i \in 1..(Len(stack[a]) - 1) : stack'[a][i] = stack[a][i]
        /\ \A i \in 1..1 : stack'[a][(Len(stack[a]) - 1) + i] = <<f>>[i]
    BY <1>4, <2>1, Replaced
  <2>3. stack'[a][(Len(stack[a]) - 1) + 1] = f
    BY <2>1, <2>2
  <2>4. (Len(stack[a]) - 1) + 1 = n
    BY <1>1
  <2>5. QED
    BY <1>1, <1>2, <2>2, <2>3, <2>4 DEF Depth, NewFrame, Step, Target, Todo
<1>5. ASSUME NEW f \in Calls, NEW g \in Calls, ~Idle(a), Becomes(a, <<g, f>>)
      PROVE  /\ Stays(a, n - 1) /\ Depth(a)' = n + 1
             /\ NewFrame(a, n, g) /\ NewFrame(a, n + 1, f)
  <2>1. <<g, f>> \in Seq(Calls) /\ Len(<<g, f>>) = 2 /\ <<g, f>>[1] = g /\ <<g, f>>[2] = f
    OBVIOUS
  <2>2. /\ Len(stack'[a]) = (Len(stack[a]) - 1) + 2 /\ OthersStay(a)
        /\ \A i \in 1..(Len(stack[a]) - 1) : stack'[a][i] = stack[a][i]
        /\ \A i \in 1..2 : stack'[a][(Len(stack[a]) - 1) + i] = <<g, f>>[i]
    BY <1>5, <2>1, Replaced
  <2>3. /\ stack'[a][(Len(stack[a]) - 1) + 1] = g
        /\ stack'[a][(Len(stack[a]) - 1) + 2] = f
    BY <2>1, <2>2
  <2>4. (Len(stack[a]) - 1) + 1 = n /\ (Len(stack[a]) - 1) + 2 = n + 1
    BY <1>1
  <2>5. QED
    BY <1>1, <1>2, <2>2, <2>3, <2>4 DEF Depth, NewFrame, Step, Target, Todo
<1>6. ASSUME NEW f \in Calls, Idle(a), stack' = [stack EXCEPT ![a] = <<f>>]
      PROVE  Stays(a, n) /\ Depth(a)' = 1 /\ NewFrame(a, 1, f)
  <2>1. <<f>> \in Seq(Calls) /\ Len(<<f>>) = 1 /\ <<f>>[1] = f
    OBVIOUS
  <2>2. stack'[a] = <<f>> /\ OthersStay(a)
    BY <1>6, <2>1 DEF Types, OthersStay
  <2>3. QED
    BY <1>1, <1>6, <2>1, <2>2
    DEF Depth, NewFrame, Step, Target, Todo, Stays, OthersStay, SameFrame
<1>7. QED
  BY <1>3, <1>4, <1>5, <1>6
-----------------------------------------------------------------------------
\* The invariant.

(* Constructors and destructors are called by no other call; cancel() is   *)
(* called by the loop of the base, by add_child() and by the destructor.   *)
Shape ==
  \A a \in Actor : \A i \in 1..Depth(a) :
    /\ Step(a, i) \in {"new", "start", "dtor", "join", "del"} => i = 1 /\ a \in Thread
    /\ Step(a, i) \in {"new", "dtor", "del", "cancel"} => i = Depth(a)
    /\ Step(a, i) # "loop" => Todo(a, i) = {}
Nested ==
  \A a \in Actor : \A i, j \in 1..Depth(a) : j = i + 1 =>
    \/ Step(a, i) = "loop" /\ Target(a, j) \in children[Target(a, i)]
    \/ /\ Step(a, i) = "start" /\ Step(a, j) = "loop"
       /\ Target(a, j) = base[Target(a, i)] /\ Todo(a, j) \subseteq {Target(a, i)}
    \/ Step(a, i) = "join" /\ Target(a, j) = Target(a, i)

(* The mutexes a thread has are those of its loops, each of a descendant   *)
(* of the one before.                                                      *)
Downwards ==
  \A a \in Actor : \A i, j \in 1..Depth(a) :
    i < j /\ Step(a, i) = "loop" => Target(a, i) < Target(a, j)
Loops ==
  \A a \in Actor : \A i \in 1..Depth(a) : Step(a, i) = "loop" =>
    /\ mtx[Target(a, i)] = a /\ Target(a, i) \in done
    /\ Todo(a, i) \subseteq children[Target(a, i)]
Holders ==
  \A a \in Actor, c \in Context : mtx[c] = a =>
    \E i \in 1..Depth(a) : Step(a, i) = "loop" /\ Target(a, i) = c

(* Nobody else has a context while it is made and when it is destroyed.    *)
Outermost(a, steps, c) == Depth(a) > 0 /\ Step(a, 1) \in steps /\ Target(a, 1) = c
Entered ==
  \A a \in Actor, c \in Context : Outermost(a, {"cancel", "loop"}, c) =>
    IF a \in Thread THEN c \in held[a] ELSE c = a
Alone(c) ==
  /\ \A t \in Thread : c \notin held[t]
  /\ \A k \in Context : ~(base[k] = c /\ life[k] = "live")
Owns(a, c) == Outermost(a, {"new", "start", "dtor", "join", "del"}, c)
Owned ==
  \A a \in Thread, c \in Context : Owns(a, c) =>
    life[c] = "live" /\ Alone(c) /\ \A b \in Thread : Owns(b, c) => a = b
Constructed ==
  \A a \in Thread, c \in Context :
    /\ Outermost(a, {"new", "start"}, c) => task[c] = "none" /\ base[c] \in held[a] \union {NoBase}
    /\ Outermost(a, {"new"}, c) => base[c] # NoBase /\ c \notin children[base[c]]
    /\ Outermost(a, {"start"}, c) /\ base[c] # NoBase => c \in children[base[c]]
Destroyed ==
  \A a \in Thread, c \in Context :
    /\ Outermost(a, {"dtor", "join"}, c) => c \in timed
    /\ Outermost(a, {"del"}, c) /\ c \in timed => task[c] = "called" /\ Depth(c) = 0

(* A live context has a live base, which has it as a child once its        *)
(* constructor is past add_child().                                        *)
Bases ==
  /\ \A c \in Context : life[c] = "live" /\ base[c] # NoBase =>
       /\ life[base[c]] = "live"
       /\ c \in children[base[c]] \/ \E a \in Thread : Outermost(a, {"new"}, c)
  /\ \A c \in Context : base[c] # NoBase => base[c] < c
Kids == \A b \in Context : \A k \in children[b] : life[k] = "live" /\ base[k] = b
HeldLive == \A t \in Thread : \A c \in held[t] : life[c] = "live"
Born ==
  /\ \A c, k \in Context : life[c] # "unborn" /\ k < c => life[k] # "unborn"
  /\ \A c \in Context : life[c] = "unborn" => c \notin timed /\ task[c] = "none" /\ base[c] = NoBase
  /\ \E n \in Nat : \A c \in Context : life[c] # "unborn" => c <= n

(* timeout_task of c is called once, while c lives.                        *)
Tasks ==
  /\ expired \subseteq timed
  /\ \A c \in Context :
       /\ task[c] # "none" => c \in timed
       /\ task[c] = "waiting" => life[c] = "live"
       /\ Depth(c) > 0 => task[c] = "called" /\ life[c] = "live"

(* cancel() is called when there is a reason.                              *)
Wanted ==
  \A a \in Actor : \A i \in 1..Depth(a) : Step(a, i) = "cancel" =>
    \/ Target(a, i) \in asked \union expired \union done
    \/ base[Target(a, i)] \in done

Calling == Shape /\ Nested /\ Downwards
Locking == Loops /\ Holders
Owning == Entered /\ Owned /\ Constructed /\ Destroyed
Forest == Bases /\ Kids /\ HeldLive /\ Born
IInv == TypeOK /\ Calling /\ Locking /\ Owning /\ Forest /\ Tasks /\ Wanted

(* The call a thread is in, for an action that goes on with it.            *)
LEMMA InnermostCall ==
  ASSUME TypeOK, NEW a \in Actor, NEW s, In(a, s)
  PROVE  /\ Depth(a) \in Nat \ {0} /\ ~Idle(a) /\ Types
         /\ Step(a, Depth(a)) = s
         /\ Target(a, Depth(a)) = Top(a).ctx /\ Top(a).ctx \in Context
         /\ Todo(a, Depth(a)) = Top(a).todo /\ Top(a).todo \subseteq Context
         /\ \A b \in Actor :
           /\ Depth(b) \in Nat
           /\ Idle(b) <=> Depth(b) = 0
           /\ \A i \in 1..Depth(b) :
                Step(b, i) \in Steps /\ Target(b, i) \in Context /\ Todo(b, i) \subseteq Context
<1>1. Types
  BY DEF TypeOK, Types
<1>2. QED
  BY <1>1, TopFrame, CallParts, FramesTyped DEF Depth, Step, Target, Todo

(* Who makes or destroys which context is left as it is by the steps of    *)
(* cancel().                                                               *)
RolesStay ==
  \A x \in Actor, k \in Context :
    /\ Owns(x, k)' <=> Owns(x, k)
    /\ Outermost(x, {"new", "start"}, k)' <=> Outermost(x, {"new", "start"}, k)
    /\ Outermost(x, {"new"}, k)' <=> Outermost(x, {"new"}, k)
    /\ Outermost(x, {"start"}, k)' <=> Outermost(x, {"start"}, k)
    /\ Outermost(x, {"dtor", "join"}, k)' <=> Outermost(x, {"dtor", "join"}, k)
    /\ Outermost(x, {"del"}, k)' <=> Outermost(x, {"del"}, k)

(* Where no role changes and no thread of a timeout is started, what is   *)
(* said of owners and of the tree of contexts stays true.                  *)
LEMMA RolesKeep ==
  ASSUME IInv, RolesStay, \A k \in Context : task[k] = "none" => task'[k] = "none",
         UNCHANGED <<base, life, timed, children, held>>
  PROVE  Owned' /\ Constructed' /\ Forest'
<1>1. Owned'
  BY DEF IInv, Owning, Owned, RolesStay, Alone, Actor
<1>2. Constructed'
  BY DEF IInv, Owning, Constructed, RolesStay, Actor
<1>3. Bases'
  BY DEF IInv, Forest, Bases, RolesStay, Actor
<1>4. Kids' /\ HeldLive' /\ Born'
  BY DEF IInv, Forest, Kids, HeldLive, Born
<1>5. QED
  BY <1>1, <1>2, <1>3, <1>4 DEF Forest

(* The contexts a thread is in, or about to enter, live.                   *)
LEMMA FramesLive ==
  ASSUME IInv
  PROVE  \A a \in Actor : \A i \in 1..Depth(a) :
           /\ Target(a, i) \in Context /\ life[Target(a, i)] = "live"
           /\ \A k \in Todo(a, i) : k \in Context /\ life[k] = "live"
<1> SUFFICES ASSUME NEW a \in Actor, NEW i \in 1..Depth(a)
             PROVE  /\ Target(a, i) \in Context /\ life[Target(a, i)] = "live"
                    /\ \A k \in Todo(a, i) : k \in Context /\ life[k] = "live"
  OBVIOUS
<1>1. /\ Depth(a) \in Nat
      /\ \A j \in 1..Depth(a) :
           Step(a, j) \in Steps /\ Target(a, j) \in Context /\ Todo(a, j) \subseteq Context
  BY FramesTyped DEF IInv, TypeOK, Types
<1>2. ASSUME Step(a, 1) \in {"new", "start", "dtor", "join", "del"}
      PROVE  life[Target(a, 1)] = "live"
  BY <1>1, <1>2 DEF IInv, Calling, Shape, Owning, Owned, Owns, Outermost
<1>3. ASSUME Step(a, 1) \in {"cancel", "loop"}
      PROVE  life[Target(a, 1)] = "live"
  <2>1. Outermost(a, {"cancel", "loop"}, Target(a, 1)) /\ Target(a, 1) \in Context
    BY <1>1, <1>3 DEF Outermost
  <2>2. CASE a \in Thread
    BY <2>1, <2>2 DEF IInv, Owning, Entered, Forest, HeldLive
  <2>3. CASE a \notin Thread
    BY <1>1, <2>1, <2>3 DEF IInv, Owning, Entered, Tasks, Actor
  <2>4. QED
    BY <2>2, <2>3
<1>4. ASSUME NEW j \in 1..Depth(a), i = j + 1 PROVE life[Target(a, i)] = "live"
  <2>1. CASE Step(a, j) = "loop" /\ Target(a, i) \in children[Target(a, j)]
    BY <1>1, <2>1 DEF IInv, Forest, Kids
  <2>2. CASE Step(a, j) = "start" /\ Target(a, i) = base[Target(a, j)]
    <3>1. j = 1
      BY <2>2 DEF IInv, Calling, Shape
    <3>2. life[Target(a, j)] = "live" /\ base[Target(a, j)] # NoBase
      BY <1>1, <1>2, <2>2, <3>1, CancellationAssumption
    <3>3. QED
      BY <1>1, <2>2, <3>2 DEF IInv, Forest, Bases
  <2>3. CASE Step(a, j) = "join" /\ Target(a, i) = Target(a, j)
    BY <1>1, <1>2, <2>3 DEF IInv, Calling, Shape
  <2>4. QED
    BY <1>4, <2>1, <2>2, <2>3 DEF IInv, Calling, Nested
<1>5. life[Target(a, i)] = "live"
  <2>1. i = 1 \/ (i - 1 \in 1..Depth(a) /\ i = (i - 1) + 1)
    BY <1>1
  <2>2. QED
    BY <1>1, <1>2, <1>3, <1>4, <2>1 DEF Steps
<1>6. \A k \in Todo(a, i) : k \in Context /\ life[k] = "live"
  BY <1>1 DEF IInv, Calling, Shape, Locking, Loops, Forest, Kids
<1>7. QED
  BY <1>1, <1>5, <1>6

(* add_child().                                                            *)
LEMMA AddChildKeeps ==
  ASSUME IInv, NEW a \in Actor, AddChild(a)
  PROVE  IInv'
<1> DEFINE c == Target(a, 1)
           b == base[c]
<1>1. /\ Depth(a) = 1 /\ a \in Thread /\ c \in Context /\ Step(a, 1) = "new"
      /\ Top(a).ctx = c /\ Types /\ ~Idle(a)
      /\ \A x \in Actor : Depth(x) \in Nat /\ \A i \in 1..Depth(x) : Target(x, i) \in Context
  BY InnermostCall DEF AddChild, IInv, Calling, Shape
<1>2. /\ mtx[b] = NoActor /\ b \in Context /\ b \in held[a] /\ c \notin children[b]
      /\ life[c] = "live" /\ life[b] = "live" /\ Alone(c)
      /\ b < c
  BY <1>1 DEF IInv, Owning, Owned, Owns, Constructed, Forest, Bases, Outermost, TypeOK, ContextOK, AddChild, Free
<1>3. /\ mtx[b] = NoActor
      /\ children' = [children EXCEPT ![b] = @ \union {c}]
      /\ Stays(a, 0) /\ NewFrame(a, 1, At("start", c))
      /\ \/ b \in done /\ mtx' = [mtx EXCEPT ![b] = a]
            /\ Depth(a)' = 2 /\ NewFrame(a, 2, Call("loop", b, {c}))
         \/ b \notin done /\ mtx' = mtx /\ Depth(a)' = 1
      /\ UNCHANGED <<base, life, done, asked, timed, expired, task, held>>
  <2>1. At("start", c) \in Calls /\ Call("loop", b, {c}) \in Calls
    BY <1>1, <1>2, CallParts DEF Steps
  <2>2. /\ Becomes(a, <<At("start", c), Call("loop", b, {c})>>) =>
             Stays(a, 0) /\ Depth(a)' = 2 /\ NewFrame(a, 1, At("start", c)) /\ NewFrame(a, 2, Call("loop", b, {c}))
        /\ Becomes(a, <<At("start", c)>>) =>
             Stays(a, 0) /\ Depth(a)' = 1 /\ NewFrame(a, 1, At("start", c))
    BY <1>1, <2>1, Moves
  <2>3. QED
    BY <1>1, <2>2 DEF AddChild, Free, context
<1>30. c = Target(a, 1) /\ b = base[c] /\ Target(a, 1) = c
  OBVIOUS
<1> HIDE DEF c, b
<1>31. /\ \A x \in Actor : x # a => Depth(x)' = Depth(x) /\ \A i \in 1..Depth(x) : SameFrame(x, i)
       /\ Step(a, 1)' = "start" /\ Target(a, 1)' = c /\ Todo(a, 1)' = {}
  BY <1>3, CallParts DEF Stays, NewFrame
<1>32. /\ \A x \in Context : x # b => children'[x] = children[x]
       /\ children'[b] = children[b] \union {c}
  BY <1>2, <1>3 DEF IInv, TypeOK
<1>33. \A x \in Context : x # b => mtx'[x] = mtx[x]
  BY <1>2, <1>3 DEF IInv, TypeOK
<1>34. \/ /\ b \in done /\ mtx'[b] = a /\ Depth(a)' = 2
          /\ Step(a, 2)' = "loop" /\ Target(a, 2)' = b /\ Todo(a, 2)' = {c}
       \/ b \notin done /\ mtx'[b] = NoActor /\ Depth(a)' = 1
  BY <1>2, <1>3, CallParts DEF NewFrame, IInv, TypeOK
<1>4. UNCHANGED <<base, life, done, asked, timed, expired, task, held>>
  BY <1>3
<1>40. /\ mtx \in [Context -> Actor \union {NoActor}] /\ children \in [Context -> SUBSET Context]
       /\ base \in [Context -> Context \union {NoBase}]
       /\ mtx' \in [Context -> Actor \union {NoActor}] /\ children' \in [Context -> SUBSET Context]
  BY <1>1, <1>2, <1>3, <1>30 DEF IInv, TypeOK, ContextOK
<1>41. TypeOK'
  BY <1>3, <1>40 DEF IInv, TypeOK, ContextOK, Stays, Actor
<1>5. Shape'
  BY <1>1, <1>40, <1>30, <1>31, <1>32, <1>33, <1>34, <1>4 DEF IInv, Calling, Shape, SameFrame
<1>6. Nested'
  BY <1>1, <1>40, <1>30, <1>2, <1>31, <1>32, <1>33, <1>34, <1>4 DEF IInv, Calling, Nested, SameFrame
<1>7. Downwards'
  BY <1>1, <1>40, <1>30, <1>31, <1>32, <1>33, <1>34, <1>4 DEF IInv, Calling, Downwards, SameFrame
<1>8. Loops'
  <2>1. ASSUME NEW x \in Actor, x # a, NEW i \in 1..Depth(x)', Step(x, i)' = "loop"
        PROVE  /\ mtx'[Target(x, i)'] = x /\ Target(x, i)' \in done'
               /\ Todo(x, i)' \subseteq children'[Target(x, i)']
    <3>1. /\ Target(x, i)' = Target(x, i) /\ Todo(x, i)' = Todo(x, i) /\ Target(x, i) \in Context
          /\ mtx[Target(x, i)] = x /\ Target(x, i) \in done
          /\ Todo(x, i) \subseteq children[Target(x, i)]
      BY <1>1, <1>31, <2>1 DEF IInv, Locking, Loops, SameFrame
    <3>2. x # NoActor
      BY CtxAssumption DEF Actor
    <3>3. QED
      BY <1>2, <1>32, <1>33, <1>4, <3>1, <3>2
  <2>2. ASSUME NEW i \in 1..Depth(a)', Step(a, i)' = "loop"
        PROVE  /\ mtx'[Target(a, i)'] = a /\ Target(a, i)' \in done'
               /\ Todo(a, i)' \subseteq children'[Target(a, i)']
    <3>1. i = 2 /\ b \in done
      BY <1>31, <1>34, <2>2
    <3>2. QED
      BY <3>1, <1>32, <1>34, <1>4
  <2>3. QED
    BY <2>1, <2>2 DEF Loops
<1>9. Holders'
  BY <1>1, <1>40, <1>30, <1>2, <1>31, <1>32, <1>33, <1>34, <1>4, CtxAssumption DEF IInv, Locking, Holders, SameFrame, Actor
<1>10. \A x \in Actor, k \in Context :
         /\ Outermost(x, {"cancel", "loop"}, k)' <=> Outermost(x, {"cancel", "loop"}, k)
         /\ Owns(x, k)' <=> Owns(x, k)
         /\ Outermost(x, {"new", "start"}, k)' <=> Outermost(x, {"new", "start"}, k)
         /\ Outermost(x, {"new"}, k)' <=> Outermost(x, {"new"}, k) /\ x # a
         /\ Outermost(a, {"new"}, k) => k = c
         /\ Outermost(x, {"start"}, k)' <=> Outermost(x, {"start"}, k) \/ (x = a /\ k = c)
         /\ Outermost(x, {"dtor", "join"}, k)' <=> Outermost(x, {"dtor", "join"}, k)
         /\ Outermost(x, {"del"}, k)' <=> Outermost(x, {"del"}, k)
  BY <1>1, <1>40, <1>30, <1>31, <1>32, <1>33, <1>34, <1>4 DEF Outermost, Owns, SameFrame
<1>11. Entered'
  BY <1>30, <1>31, <1>32, <1>33, <1>34, <1>4, <1>10 DEF IInv, Owning, Entered
<1>12. Owned'
  BY <1>30, <1>31, <1>32, <1>33, <1>34, <1>4, <1>10 DEF IInv, Owning, Owned, Alone, Actor
<1>13. Constructed'
  <2> SUFFICES ASSUME NEW x \in Thread, NEW k \in Context
      PROVE  /\ Outermost(x, {"new", "start"}, k)' => task[k] = "none" /\ base[k] \in held[x] \union {NoBase}
             /\ Outermost(x, {"new"}, k)' => base[k] # NoBase /\ k \notin children'[base[k]]
             /\ Outermost(x, {"start"}, k)' /\ base[k] # NoBase => k \in children'[base[k]]
    BY <1>4 DEF Constructed
  <2>1. x \in Actor /\ base[k] \in Context \union {NoBase}
    BY <1>40 DEF Actor
  <2>2. Outermost(x, {"new"}, k) /\ x # a => k # c
    BY <1>1, <1>30 DEF Outermost, Owns, IInv, Owning, Owned
  <2>3. Outermost(x, {"new", "start"}, k)' => task[k] = "none" /\ base[k] \in held[x] \union {NoBase}
    BY <2>1, <1>10 DEF IInv, Owning, Constructed
  <2>4. Outermost(x, {"new"}, k)' => base[k] # NoBase /\ k \notin children'[base[k]]
    BY <2>1, <2>2, <1>10, <1>2, <1>32 DEF IInv, Owning, Constructed
  <2>5. Outermost(x, {"start"}, k)' /\ base[k] # NoBase => k \in children'[base[k]]
    BY <2>1, <1>10, <1>2, <1>30, <1>32 DEF IInv, Owning, Constructed
  <2>6. QED
    BY <2>3, <2>4, <2>5
<1>14. Destroyed'
  BY <1>1, <1>40, <1>30, <1>31, <1>32, <1>33, <1>34, <1>4, <1>10, CtxAssumption DEF IInv, Owning, Destroyed, Actor
<1>15. Bases'
  <2>1. ASSUME NEW k \in Context, life'[k] = "live", base'[k] # NoBase
        PROVE  /\ life'[base'[k]] = "live"
               /\ k \in children'[base'[k]] \/ \E x \in Thread : Outermost(x, {"new"}, k)'
    <3>1. /\ life[base[k]] = "live"
          /\ k \in children[base[k]] \/ \E x \in Thread : Outermost(x, {"new"}, k)
      BY <1>1, <1>4, <2>1 DEF IInv, Forest, Bases
    <3>2. ASSUME k \in children[base[k]]
          PROVE  k \in children'[base'[k]]
      <4>1. base[k] \in Context /\ base'[k] = base[k]
        BY <1>4, <1>40, <2>1
      <4>2. CASE base[k] = b
        BY <1>32, <3>2, <4>1, <4>2
      <4>3. CASE base[k] # b
        BY <1>32, <3>2, <4>1, <4>3
      <4>4. QED
        BY <4>2, <4>3
    <3>3. ASSUME NEW x \in Thread, Outermost(x, {"new"}, k), x # a
          PROVE  Outermost(x, {"new"}, k)'
      <4>1. x \in Actor
        BY DEF Actor
      <4>2. Depth(x)' = Depth(x) /\ \A i \in 1..Depth(x) : SameFrame(x, i)
        BY <1>31, <3>3, <4>1
      <4>3. 1 \in 1..Depth(x)
        <5>1. Depth(x) \in Nat
          BY <1>1, <4>1, FramesTyped DEF IInv
        <5>2. Depth(x) > 0
          BY <3>3 DEF Outermost
        <5>3. QED
          BY <5>1, <5>2
      <4>4. QED
        BY <3>3, <4>2, <4>3 DEF Outermost, SameFrame
    <3>4. ASSUME Outermost(a, {"new"}, k)
          PROVE  k \in children'[base'[k]]
      BY <1>4, <1>30, <1>32, <3>4 DEF Outermost
    <3>5. QED
      BY <1>4, <3>1, <3>2, <3>3, <3>4
  <2>2. \A k \in Context : base'[k] # NoBase => base'[k] < k
    BY <1>1, <1>4 DEF IInv, Forest, Bases
  <2>3. QED
    BY <2>1, <2>2 DEF Bases
<1>16. Kids' /\ HeldLive' /\ Born'
  BY <1>1, <1>40, <1>30, <1>2, <1>31, <1>32, <1>33, <1>34, <1>4 DEF IInv, Forest, Kids, HeldLive, Born
<1>17. Tasks'
  BY <1>1, <1>40, <1>30, <1>31, <1>32, <1>33, <1>34, <1>4, CtxAssumption DEF IInv, Tasks, Actor
<1>18. Wanted'
  BY <1>1, <1>40, <1>30, <1>31, <1>32, <1>33, <1>34, <1>4 DEF IInv, Wanted, SameFrame
<1>20. QED
  BY <1>41, <1>5, <1>6, <1>7, <1>8, <1>9, <1>11, <1>12, <1>13, <1>14, <1>15, <1>16, <1>17, <1>18
  DEF IInv, Calling, Locking, Owning, Forest
(* The lock is released at the end of cancel() and of add_child().         *)
LEMMA UnlockKeeps ==
  ASSUME IInv, NEW a \in Actor, Unlock(a)
  PROVE  IInv'
<1> DEFINE n == Depth(a)
           c == Target(a, n)
<1>1. /\ TypeOK /\ Types /\ ~Idle(a) /\ n \in Nat \ {0} /\ c \in Context
      /\ Step(a, n) = "loop" /\ Todo(a, n) = {} /\ Top(a).ctx = c
      /\ \A x \in Actor : Depth(x) \in Nat /\ \A i \in 1..Depth(x) : Target(x, i) \in Context
  BY InnermostCall DEF Unlock, IInv
<1>2. n = Depth(a) /\ c = Target(a, n)
  OBVIOUS
<1>3. /\ Stays(a, n - 1) /\ Depth(a)' = n - 1
      /\ mtx' = [mtx EXCEPT ![c] = NoActor]
      /\ UNCHANGED <<base, life, done, asked, timed, expired, task, children, held>>
  BY <1>1, Moves DEF Unlock, context
<1> HIDE DEF n, c
<1>4. TypeOK'
  BY <1>1, <1>3 DEF TypeOK, ContextOK, Stays
<1>5. /\ \A x \in Actor : x # a => Depth(x)' = Depth(x) /\ \A i \in 1..Depth(x) : SameFrame(x, i)
      /\ \A i \in 1..(n - 1) : SameFrame(a, i)
  BY <1>3 DEF Stays
<1>6. /\ mtx[c] = a /\ mtx'[c] = NoActor
      /\ \A x \in Context : x # c => mtx'[x] = mtx[x]
  BY <1>1, <1>2, <1>3 DEF TypeOK, IInv, Locking, Loops
<1>7. \A x \in Actor : \A i \in 1..Depth(x)' : x # a /\ Step(x, i) = "loop" => Target(x, i) # c
  BY <1>1, <1>5, <1>6 DEF IInv, Locking, Loops
<1>8. \A i \in 1..(n - 1) : Step(a, i) = "loop" => Target(a, i) # c
  BY <1>1, <1>2, CtxAssumption DEF IInv, Calling, Downwards
<1>9. Shape' /\ Nested' /\ Downwards'
  BY <1>1, <1>2, <1>3, <1>5 DEF IInv, Calling, Shape, Nested, Downwards, SameFrame
<1>10. Loops'
  BY <1>1, <1>2, <1>3, <1>5, <1>6, <1>7, <1>8 DEF IInv, Locking, Loops, SameFrame
<1>11. Holders'
  <2> SUFFICES ASSUME NEW x \in Actor, NEW k \in Context, mtx'[k] = x
               PROVE  \E i \in 1..Depth(x)' : Step(x, i)' = "loop" /\ Target(x, i)' = k
    BY DEF Holders
  <2>1. k # c /\ mtx[k] = x
    BY <1>1, <1>6, CtxAssumption DEF Actor
  <2>2. PICK i \in 1..Depth(x) : Step(x, i) = "loop" /\ Target(x, i) = k
    BY <2>1 DEF IInv, Locking, Holders
  <2>3. i \in 1..Depth(x)' /\ SameFrame(x, i)
    BY <1>1, <1>2, <1>3, <1>5, <2>1, <2>2
  <2>4. QED
    BY <2>2, <2>3 DEF SameFrame
<1>12. RolesStay
  BY <1>1, <1>2, <1>3, <1>5 DEF RolesStay, Owns, Outermost, SameFrame
<1>13. Owned' /\ Constructed' /\ Forest'
  BY <1>3, <1>12, RolesKeep
<1>14. Entered'
  <2>1. \A x \in Actor, k \in Context :
          Outermost(x, {"cancel", "loop"}, k)' => Outermost(x, {"cancel", "loop"}, k)
    BY <1>1, <1>2, <1>3, <1>5 DEF Outermost, SameFrame
  <2>2. QED
    BY <1>3, <2>1 DEF IInv, Owning, Entered
<1>15. Destroyed'
  BY <1>1, <1>2, <1>3, <1>5, <1>12, CtxAssumption DEF IInv, Owning, Destroyed, RolesStay, Actor
<1>16. Tasks'
  BY <1>1, <1>2, <1>3, <1>5, CtxAssumption DEF IInv, Tasks, Actor
<1>17. Wanted'
  BY <1>1, <1>2, <1>3, <1>5 DEF IInv, Wanted, SameFrame
<1>18. QED
  BY <1>4, <1>9, <1>10, <1>11, <1>13, <1>14, <1>15, <1>16, <1>17 DEF IInv, Calling, Locking, Owning

(* cancel() begins: it returns at once, or sets the promise and goes       *)
(* through the children.                                                   *)
LEMMA EnterCancelKeeps ==
  ASSUME IInv, NEW a \in Actor, EnterCancel(a)
  PROVE  IInv'
<1>0. PICK n, c : n = Depth(a) /\ c = Target(a, n)
  OBVIOUS
<1>1. /\ TypeOK /\ Types /\ ~Idle(a) /\ n \in Nat \ {0} /\ c \in Context
      /\ Step(a, n) = "cancel" /\ Top(a).ctx = c /\ mtx[c] = NoActor
      /\ \A x \in Actor : Depth(x) \in Nat /\ \A i \in 1..Depth(x) : Target(x, i) \in Context
  BY <1>0, InnermostCall DEF EnterCancel, Free, IInv
<1>2. n = Depth(a) /\ c = Target(a, n)
  BY <1>0
<1>3. /\ Call("loop", c, children[c]) \in Calls /\ children[c] \subseteq Context
  BY <1>1, CallParts DEF TypeOK, Steps
<1>4. /\ Stays(a, n - 1) /\ UNCHANGED <<base, life, asked, timed, expired, task, children, held>>
      /\ done \subseteq done' /\ done' \subseteq done \union {c} /\ c \in done'
      /\ \/ Depth(a)' = n - 1 /\ mtx' = mtx
         \/ /\ Depth(a)' = n /\ NewFrame(a, n, Call("loop", c, children[c]))
            /\ mtx' = [mtx EXCEPT ![c] = a]
  BY <1>1, <1>2, <1>3, Moves DEF EnterCancel, context
<1>5. TypeOK'
  BY <1>1, <1>4 DEF TypeOK, ContextOK, Stays
<1>6. /\ \A x \in Actor : x # a => Depth(x)' = Depth(x) /\ \A i \in 1..Depth(x) : SameFrame(x, i)
      /\ \A i \in 1..(n - 1) : SameFrame(a, i)
      /\ \A x \in Context : x # c => mtx'[x] = mtx[x]
  BY <1>1, <1>4 DEF Stays, TypeOK
<1>7. \/ Depth(a)' = n - 1 /\ mtx'[c] = NoActor
      \/ /\ Depth(a)' = n /\ mtx'[c] = a
         /\ Step(a, n)' = "loop" /\ Target(a, n)' = c /\ Todo(a, n)' = children[c]
  BY <1>1, <1>4, CallParts DEF NewFrame, TypeOK
<1>8. Shape' /\ Downwards'
  BY <1>1, <1>2, <1>6, <1>7 DEF IInv, Calling, Shape, Downwards, SameFrame
<1>9. Nested'
  BY <1>1, <1>2, <1>4, <1>6, <1>7 DEF IInv, Calling, Nested, SameFrame
<1>10. Loops'
  <2>1. ASSUME NEW x \in Actor, NEW i \in 1..Depth(x)', Step(x, i)' = "loop", x # a \/ i < n
        PROVE  /\ mtx'[Target(x, i)'] = x /\ Target(x, i)' \in done'
               /\ Todo(x, i)' \subseteq children'[Target(x, i)']
    <3>1. SameFrame(x, i) /\ i \in 1..Depth(x)
      BY <1>1, <1>2, <1>6, <1>7, <2>1
    <3>2. /\ mtx[Target(x, i)] = x /\ Target(x, i) \in done /\ Target(x, i) \in Context
          /\ Todo(x, i) \subseteq children[Target(x, i)]
      BY <1>1, <2>1, <3>1 DEF IInv, Locking, Loops, SameFrame
    <3>3. x # NoActor
      BY CtxAssumption DEF Actor
    <3>4. QED
      BY <1>1, <1>4, <1>6, <3>1, <3>2, <3>3 DEF SameFrame
  <2>2. ASSUME n \in 1..Depth(a)'
        PROVE  /\ mtx'[Target(a, n)'] = a /\ Target(a, n)' \in done'
               /\ Todo(a, n)' \subseteq children'[Target(a, n)']
    BY <1>1, <1>4, <1>7, <2>2
  <2>3. \A x \in Actor : \A i \in 1..Depth(x)' : x # a \/ i < n \/ (x = a /\ i = n)
    BY <1>1, <1>7
  <2>4. QED
    BY <2>1, <2>2, <2>3 DEF Loops
<1>11. Holders'
  <2> SUFFICES ASSUME NEW x \in Actor, NEW k \in Context, mtx'[k] = x
               PROVE  \E i \in 1..Depth(x)' : Step(x, i)' = "loop" /\ Target(x, i)' = k
    BY DEF Holders
  <2>1. CASE k = c
    BY <1>1, <1>7, <2>1, CtxAssumption DEF Actor
  <2>2. CASE k # c
    <3>1. PICK i \in 1..Depth(x) : Step(x, i) = "loop" /\ Target(x, i) = k
      BY <1>6, <2>2 DEF IInv, Locking, Holders
    <3>2. i \in 1..Depth(x)' /\ SameFrame(x, i)
      BY <1>1, <1>2, <1>6, <1>7, <2>2, <3>1
    <3>3. QED
      BY <3>1, <3>2 DEF SameFrame
  <2>3. QED
    BY <2>1, <2>2
<1>12. RolesStay
  BY <1>1, <1>2, <1>6, <1>7 DEF RolesStay, Owns, Outermost, SameFrame
<1>13. Owned' /\ Constructed' /\ Forest'
  BY <1>4, <1>12, RolesKeep
<1>14. Entered'
  <2>1. \A x \in Actor, k \in Context :
          Outermost(x, {"cancel", "loop"}, k)' => Outermost(x, {"cancel", "loop"}, k)
    BY <1>1, <1>2, <1>6, <1>7 DEF Outermost, SameFrame
  <2>2. QED
    BY <1>4, <2>1 DEF IInv, Owning, Entered
<1>15. Destroyed'
  BY <1>1, <1>2, <1>4, <1>6, <1>7, <1>12, CtxAssumption DEF IInv, Owning, Destroyed, RolesStay, Actor
<1>16. Tasks'
  BY <1>1, <1>2, <1>4, <1>6, <1>7, CtxAssumption DEF IInv, Tasks, Actor
<1>17. Wanted'
  BY <1>1, <1>2, <1>4, <1>6, <1>7 DEF IInv, Wanted, SameFrame
<1>18. QED
  BY <1>5, <1>8, <1>9, <1>10, <1>11, <1>13, <1>14, <1>15, <1>16, <1>17
  DEF IInv, Calling, Locking, Owning

(* The loop of cancel() and add_child() cancel a child.                    *)
LEMMA CancelChildKeeps ==
  ASSUME IInv, NEW a \in Actor, CancelChild(a)
  PROVE  IInv'
<1>0. PICK n, c : n = Depth(a) /\ c = Target(a, n)
  OBVIOUS
<1>1. PICK k \in Top(a).todo :
        Becomes(a, <<Call("loop", Top(a).ctx, Top(a).todo \ {k}), At("cancel", k)>>)
  BY DEF CancelChild
<1>2. /\ TypeOK /\ Types /\ ~Idle(a) /\ n \in Nat \ {0} /\ c \in Context
      /\ Step(a, n) = "loop" /\ Top(a).ctx = c /\ Top(a).todo = Todo(a, n)
      /\ Todo(a, n) \subseteq Context
      /\ \A x \in Actor : Depth(x) \in Nat /\ \A i \in 1..Depth(x) : Target(x, i) \in Context
  BY <1>0, InnermostCall DEF CancelChild, IInv
<1>3. n = Depth(a) /\ c = Target(a, n) /\ k \in Context
  BY <1>0, <1>2
<1>4. Call("loop", c, Todo(a, n) \ {k}) \in Calls /\ At("cancel", k) \in Calls
  BY <1>2, <1>3, CallParts DEF Steps
<1>5. /\ Stays(a, n - 1) /\ Depth(a)' = n + 1
      /\ NewFrame(a, n, Call("loop", c, Todo(a, n) \ {k})) /\ NewFrame(a, n + 1, At("cancel", k))
      /\ UNCHANGED <<base, life, done, asked, timed, expired, task, children, mtx, held>>
  BY <1>1, <1>2, <1>3, <1>4, Moves DEF CancelChild, context
<1>6. TypeOK'
  BY <1>2, <1>5 DEF TypeOK, ContextOK, Stays
<1>7. /\ \A x \in Actor : x # a => Depth(x)' = Depth(x) /\ \A i \in 1..Depth(x) : SameFrame(x, i)
      /\ \A i \in 1..(n - 1) : SameFrame(a, i)
      /\ Step(a, n)' = "loop" /\ Target(a, n)' = c /\ Todo(a, n)' = Todo(a, n) \ {k}
      /\ Step(a, n + 1)' = "cancel" /\ Target(a, n + 1)' = k /\ Todo(a, n + 1)' = {}
  BY <1>5, CallParts DEF Stays, NewFrame
<1>8. /\ k \in children[c] /\ c \in done /\ base[k] = c /\ c < k /\ c \in Nat /\ k \in Nat
  BY <1>1, <1>2, <1>3, CtxAssumption, CancellationAssumption
  DEF IInv, Locking, Loops, Forest, Kids, Bases
<1>9. Shape'
  BY <1>2, <1>3, <1>5, <1>7 DEF IInv, Calling, Shape, SameFrame
<1>10. Nested'
  BY <1>2, <1>3, <1>5, <1>7, <1>8 DEF IInv, Calling, Nested, SameFrame
<1>11. Downwards'
  <2>1. \A i \in 1..(n - 1) : Step(a, i) = "loop" => Target(a, i) < c /\ Target(a, i) \in Nat
    BY <1>2, <1>3, CtxAssumption DEF IInv, Calling, Downwards
  <2>2. QED
    BY <1>2, <1>3, <1>5, <1>7, <1>8, <2>1 DEF IInv, Calling, Downwards, SameFrame
<1>12. Loops'
  BY <1>2, <1>3, <1>5, <1>7 DEF IInv, Locking, Loops, SameFrame
<1>13. Holders'
  BY <1>2, <1>3, <1>5, <1>7 DEF IInv, Locking, Holders, SameFrame
<1>14. RolesStay
  BY <1>2, <1>3, <1>5, <1>7 DEF RolesStay, Owns, Outermost, SameFrame
<1>15. Owned' /\ Constructed' /\ Forest'
  BY <1>5, <1>14, RolesKeep
<1>16. Entered'
  <2>1. \A x \in Actor, j \in Context :
          Outermost(x, {"cancel", "loop"}, j)' => Outermost(x, {"cancel", "loop"}, j)
    BY <1>2, <1>3, <1>5, <1>7 DEF Outermost, SameFrame
  <2>2. QED
    BY <1>5, <2>1 DEF IInv, Owning, Entered
<1>17. Destroyed'
  BY <1>2, <1>3, <1>5, <1>7, <1>14, CtxAssumption DEF IInv, Owning, Destroyed, RolesStay, Actor
<1>18. Tasks'
  BY <1>2, <1>3, <1>5, <1>7, CtxAssumption DEF IInv, Tasks, Actor
<1>19. Wanted'
  BY <1>2, <1>3, <1>5, <1>7, <1>8 DEF IInv, Wanted, SameFrame
<1>20. QED
  BY <1>6, <1>9, <1>10, <1>11, <1>12, <1>13, <1>15, <1>16, <1>17, <1>18, <1>19
  DEF IInv, Calling, Locking, Owning

(* ~CtxWithTimeout() cancels the context.                                  *)
LEMMA DestructorKeeps ==
  ASSUME IInv, NEW a \in Actor, Destructor(a)
  PROVE  IInv'
<1>0. PICK c : c = Target(a, 1)
  OBVIOUS
<1>1. /\ TypeOK /\ Types /\ ~Idle(a) /\ Depth(a) = 1 /\ a \in Thread /\ c \in Context
      /\ Step(a, 1) = "dtor" /\ Top(a).ctx = c
      /\ \A x \in Actor : Depth(x) \in Nat
  BY <1>0, InnermostCall DEF Destructor, IInv, Calling, Shape
<1>2. /\ Stays(a, 0) /\ Depth(a)' = 2
      /\ NewFrame(a, 1, At("join", c)) /\ NewFrame(a, 2, At("cancel", c))
      /\ asked' = asked \union {c}
      /\ UNCHANGED <<base, life, done, timed, expired, task, children, mtx, held>>
  <2>1. At("join", c) \in Calls /\ At("cancel", c) \in Calls
    BY <1>1, CallParts DEF Steps
  <2>2. QED
    BY <1>1, <2>1, Moves DEF Destructor
<1>3. TypeOK'
  BY <1>1, <1>2 DEF TypeOK, ContextOK, Stays
<1>4. /\ \A x \in Actor : x # a => Depth(x)' = Depth(x) /\ \A i \in 1..Depth(x) : SameFrame(x, i)
      /\ Step(a, 1)' = "join" /\ Target(a, 1)' = c /\ Todo(a, 1)' = {}
      /\ Step(a, 2)' = "cancel" /\ Target(a, 2)' = c /\ Todo(a, 2)' = {}
  BY <1>2, CallParts DEF Stays, NewFrame
<1>5. Shape'
  BY <1>1, <1>2, <1>4 DEF IInv, Calling, Shape, SameFrame
<1>6. Nested'
  BY <1>1, <1>2, <1>4 DEF IInv, Calling, Nested, SameFrame
<1>7. Downwards'
  BY <1>1, <1>2, <1>4 DEF IInv, Calling, Downwards, SameFrame
<1>8. Loops'
  BY <1>1, <1>2, <1>4 DEF IInv, Locking, Loops, SameFrame
<1>9. Holders'
  BY <1>0, <1>1, <1>2, <1>4 DEF IInv, Locking, Holders, SameFrame
<1>10. RolesStay
  BY <1>0, <1>1, <1>2, <1>4 DEF RolesStay, Owns, Outermost, SameFrame
<1>11. Owned' /\ Constructed' /\ Forest'
  BY <1>2, <1>10, RolesKeep
<1>12. Entered'
  <2>1. \A x \in Actor, j \in Context :
          Outermost(x, {"cancel", "loop"}, j)' => Outermost(x, {"cancel", "loop"}, j)
    BY <1>1, <1>2, <1>4 DEF Outermost, SameFrame
  <2>2. QED
    BY <1>2, <2>1 DEF IInv, Owning, Entered
<1>13. Destroyed'
  BY <1>1, <1>2, <1>4, <1>10, CtxAssumption DEF IInv, Owning, Destroyed, RolesStay, Actor
<1>14. Tasks'
  BY <1>1, <1>2, <1>4, CtxAssumption DEF IInv, Tasks, Actor
<1>15. Wanted'
  BY <1>1, <1>2, <1>4 DEF IInv, Wanted, SameFrame
<1>16. QED
  BY <1>3, <1>5, <1>6, <1>7, <1>8, <1>9, <1>11, <1>12, <1>13, <1>14, <1>15
  DEF IInv, Calling, Locking, Owning

(* Then it waits for the thread of the timeout.                            *)
LEMMA JoinKeeps ==
  ASSUME IInv, NEW a \in Actor, Join(a)
  PROVE  IInv'
<1>0. PICK c : c = Target(a, Depth(a))
  OBVIOUS
<1>1. /\ TypeOK /\ Types /\ ~Idle(a) /\ Depth(a) \in Nat \ {0} /\ a \in Actor /\ c \in Context
      /\ Step(a, Depth(a)) = "join" /\ Top(a).ctx = c
      /\ \A x \in Actor : Depth(x) \in Nat /\ (Idle(x) <=> Depth(x) = 0)
  BY <1>0, InnermostCall DEF Join, IInv
<1>2. /\ Depth(a) = 1 /\ a \in Thread /\ c = Target(a, 1) /\ Step(a, 1) = "join"
      /\ task[c] = "called" /\ Depth(c) = 0
  <2>1. Depth(a) = 1 /\ a \in Thread
    BY <1>1 DEF IInv, Calling, Shape
  <2>2. QED
    BY <1>0, <1>1, <2>1 DEF Join, Joined, Actor
<1>3. /\ Stays(a, 0) /\ Depth(a)' = 1 /\ NewFrame(a, 1, At("del", c))
      /\ UNCHANGED <<base, life, done, asked, timed, expired, task, children, mtx, held>>
  <2>1. At("del", c) \in Calls
    BY <1>1, CallParts DEF Steps
  <2>2. QED
    BY <1>1, <1>2, <2>1, Moves DEF Join, context
<1>4. TypeOK'
  BY <1>1, <1>3 DEF TypeOK, ContextOK, Stays
<1>5. /\ \A x \in Actor : x # a => Depth(x)' = Depth(x) /\ \A i \in 1..Depth(x) : SameFrame(x, i)
      /\ Step(a, 1)' = "del" /\ Target(a, 1)' = c /\ Todo(a, 1)' = {}
  BY <1>3, CallParts DEF Stays, NewFrame
<1>6. Shape' /\ Nested' /\ Downwards'
  BY <1>1, <1>2, <1>3, <1>5 DEF IInv, Calling, Shape, Nested, Downwards, SameFrame
<1>7. Loops'
  BY <1>1, <1>2, <1>3, <1>5 DEF IInv, Locking, Loops, SameFrame
<1>8. Holders'
  BY <1>1, <1>2, <1>3, <1>5 DEF IInv, Locking, Holders, SameFrame
<1>9. \A x \in Actor, k \in Context :
        /\ Owns(x, k)' <=> Owns(x, k)
        /\ Outermost(x, {"new", "start"}, k)' <=> Outermost(x, {"new", "start"}, k)
        /\ Outermost(x, {"new"}, k)' <=> Outermost(x, {"new"}, k)
        /\ Outermost(x, {"start"}, k)' <=> Outermost(x, {"start"}, k)
        /\ Outermost(x, {"dtor", "join"}, k)' <=> Outermost(x, {"dtor", "join"}, k) /\ x # a
        /\ Outermost(x, {"del"}, k)' <=> Outermost(x, {"del"}, k) \/ (x = a /\ k = c)
        /\ Outermost(x, {"cancel", "loop"}, k)' <=> Outermost(x, {"cancel", "loop"}, k)
  BY <1>1, <1>2, <1>3, <1>5 DEF Owns, Outermost, SameFrame
<1>10. Owned' /\ Constructed' /\ Entered'
  BY <1>3, <1>9 DEF IInv, Owning, Owned, Constructed, Entered, Alone, Actor
<1>11. Destroyed'
  BY <1>1, <1>2, <1>3, <1>5, <1>9, CtxAssumption DEF IInv, Owning, Destroyed, Actor
<1>12. Forest'
  BY <1>3, <1>9 DEF IInv, Forest, Bases, Kids, HeldLive, Born, Actor
<1>13. Tasks'
  BY <1>1, <1>2, <1>3, <1>5, CtxAssumption DEF IInv, Tasks, Actor
<1>14. Wanted'
  BY <1>1, <1>2, <1>3, <1>5 DEF IInv, Wanted, SameFrame
<1>15. QED
  BY <1>4, <1>6, <1>7, <1>8, <1>10, <1>11, <1>12, <1>13, <1>14
  DEF IInv, Calling, Locking, Owning

(* The constructor ends.                                                   *)
LEMMA StartKeeps ==
  ASSUME IInv, NEW a \in Thread, NEW u \in Thread, Start(a, u)
  PROVE  IInv'
<1>0. PICK c : c = Target(a, 1)
  OBVIOUS
<1>1. /\ TypeOK /\ Types /\ ~Idle(a) /\ Depth(a) = 1 /\ a \in Actor /\ c \in Context
      /\ Step(a, 1) = "start" /\ Top(a).ctx = c
      /\ \A x \in Actor : Depth(x) \in Nat
  BY <1>0, InnermostCall DEF Start, IInv, Calling, Shape, Actor
<1>2. /\ Stays(a, 0) /\ Depth(a)' = 0
      /\ UNCHANGED <<base, life, done, asked, timed, expired, children, mtx>>
  BY <1>1, Moves DEF Start, context
<1>3. /\ held' = [v \in Thread |-> IF v \in {a, u} THEN held[v] \union {c} ELSE held[v]]
      /\ task' = IF c \in timed THEN [task EXCEPT ![c] = "waiting"] ELSE task
  BY <1>1 DEF Start
<1>4. TypeOK'
  BY <1>1, <1>2, <1>3 DEF TypeOK, ContextOK, Stays
<1>5. /\ \A x \in Actor : x # a => Depth(x)' = Depth(x) /\ \A i \in 1..Depth(x) : SameFrame(x, i)
      /\ \A v \in Thread : held[v] \subseteq held'[v] /\ held'[v] \subseteq held[v] \union {c}
      /\ \A k \in Context : k # c => task'[k] = task[k]
      /\ c \notin timed => task'[c] = task[c]
      /\ c \in timed => task'[c] = "waiting"
  BY <1>1, <1>2, <1>3 DEF Stays, TypeOK
<1>6. /\ life[c] = "live" /\ task[c] = "none" /\ Depth(c) = 0
      /\ \A x \in Thread : Owns(x, c) => x = a
  <2>1. Owns(a, c) /\ Outermost(a, {"new", "start"}, c)
    BY <1>0, <1>1 DEF Owns, Outermost
  <2>2. life[c] = "live" /\ task[c] = "none" /\ \A x \in Thread : Owns(x, c) => x = a
    BY <1>1, <2>1 DEF IInv, Owning, Owned, Constructed
  <2>3. QED
    BY <1>1, <2>2 DEF IInv, Tasks, Actor
<1>7. Shape' /\ Nested' /\ Downwards'
  BY <1>1, <1>2, <1>5 DEF IInv, Calling, Shape, Nested, Downwards, SameFrame
<1>8. Locking'
  BY <1>1, <1>2, <1>5 DEF IInv, Locking, Loops, Holders, SameFrame
<1>9. \A x \in Actor, k \in Context :
        /\ Owns(x, k)' <=> Owns(x, k) /\ x # a
        /\ Outermost(x, {"new", "start"}, k)' <=> Outermost(x, {"new", "start"}, k) /\ x # a
        /\ Outermost(x, {"new"}, k)' <=> Outermost(x, {"new"}, k)
        /\ Outermost(x, {"start"}, k)' <=> Outermost(x, {"start"}, k) /\ x # a
        /\ Outermost(x, {"dtor", "join"}, k)' <=> Outermost(x, {"dtor", "join"}, k)
        /\ Outermost(x, {"del"}, k)' <=> Outermost(x, {"del"}, k)
        /\ Outermost(x, {"cancel", "loop"}, k)' <=> Outermost(x, {"cancel", "loop"}, k)
  BY <1>1, <1>2, <1>5 DEF Owns, Outermost, SameFrame
<1>10. \A x \in Thread, k \in Context :
         Owns(x, k) /\ x # a => k # c /\ (Alone(k) => Alone(k)')
  BY <1>2, <1>5, <1>6 DEF Alone
<1>11. Entered'
  BY <1>5, <1>9 DEF IInv, Owning, Entered
<1>12. Owned'
  BY <1>2, <1>9, <1>10 DEF IInv, Owning, Owned, Actor
<1>13. \A x \in Thread, k \in Context :
         /\ Outermost(x, {"new", "start"}, k) => Owns(x, k)
         /\ Outermost(x, {"del"}, k) => Owns(x, k)
  BY DEF Outermost, Owns
<1>14. Constructed'
  BY <1>2, <1>5, <1>9, <1>10, <1>13 DEF IInv, Owning, Constructed, Actor
<1>15. Destroyed'
  <2>1. \A x \in Thread, k \in Context : Outermost(x, {"del"}, k)' => k # c
    BY <1>9, <1>10, <1>13, <1>1 DEF Outermost, Actor
  <2>2. \A k \in Context : Depth(k)' = Depth(k)
    BY <1>5, CtxAssumption DEF Actor
  <2>3. QED
    BY <1>2, <1>5, <1>9, <2>1, <2>2 DEF IInv, Owning, Destroyed, Actor
<1>16. Bases'
  BY <1>2, <1>9 DEF IInv, Forest, Bases, Actor
<1>17. Kids' /\ HeldLive' /\ Born'
  BY <1>2, <1>5, <1>6 DEF IInv, Forest, Kids, HeldLive, Born
<1>18. Tasks'
  <2>1. \A k \in Context : Depth(k)' = Depth(k)
    BY <1>5, CtxAssumption DEF Actor
  <2>2. QED
    BY <1>2, <1>5, <1>6, <2>1 DEF IInv, Tasks
<1>19. Wanted'
  BY <1>1, <1>2, <1>5 DEF IInv, Wanted, SameFrame
<1>20. QED
  BY <1>4, <1>7, <1>8, <1>11, <1>12, <1>14, <1>15, <1>16, <1>17, <1>18, <1>19
  DEF IInv, Calling, Owning, Forest

(* timeout_task wakes up.                                                  *)
LEMMA TaskWakesKeeps ==
  ASSUME IInv, NEW c \in Context, TaskWakes(c)
  PROVE  IInv'
<1>1. /\ TypeOK /\ Types /\ c \in Actor /\ c \notin Thread
      /\ task[c] = "waiting" /\ Depth(c) = 0 /\ Idle(c) /\ life[c] = "live"
      /\ \A x \in Actor : Depth(x) \in Nat
  <2>1. Types /\ c \in Actor /\ c \notin Thread /\ task[c] = "waiting"
    BY CtxAssumption DEF IInv, TypeOK, Types, Actor, TaskWakes
  <2>2. QED
    BY <2>1, FramesTyped DEF IInv, Tasks
<1>2. /\ Stays(c, 0) /\ Depth(c)' = 1 /\ NewFrame(c, 1, At("cancel", c))
      /\ task' = [task EXCEPT ![c] = "called"] /\ c \in done \union expired
      /\ UNCHANGED <<base, life, done, asked, timed, expired, children, mtx, held>>
  <2>1. At("cancel", c) \in Calls
    BY CallParts DEF Steps
  <2>2. QED
    BY <1>1, <2>1, Moves DEF TaskWakes, context
<1>3. TypeOK'
  BY <1>1, <1>2 DEF TypeOK, ContextOK, Stays
<1>4. /\ \A x \in Actor : x # c => Depth(x)' = Depth(x) /\ \A i \in 1..Depth(x) : SameFrame(x, i)
      /\ Step(c, 1)' = "cancel" /\ Target(c, 1)' = c /\ Todo(c, 1)' = {}
      /\ \A k \in Context : k # c => task'[k] = task[k]
      /\ task'[c] = "called"
  BY <1>1, <1>2, CallParts DEF Stays, NewFrame, TypeOK
<1>5. Shape' /\ Nested' /\ Downwards'
  BY <1>1, <1>2, <1>4 DEF IInv, Calling, Shape, Nested, Downwards, SameFrame
<1>6. Locking'
  BY <1>1, <1>2, <1>4 DEF IInv, Locking, Loops, Holders, SameFrame
<1>7. RolesStay
  BY <1>1, <1>2, <1>4 DEF RolesStay, Owns, Outermost, SameFrame
<1>8. Owned' /\ Constructed' /\ Forest'
  BY <1>1, <1>2, <1>4, <1>7, RolesKeep
<1>9. Entered'
  BY <1>1, <1>2, <1>4 DEF IInv, Owning, Entered, Outermost, SameFrame
<1>10. Destroyed'
  BY <1>1, <1>2, <1>4, <1>7, CtxAssumption DEF IInv, Owning, Destroyed, RolesStay, Actor
<1>11. Tasks'
  BY <1>1, <1>2, <1>4 DEF IInv, Tasks, Actor
<1>12. Wanted'
  BY <1>1, <1>2, <1>4 DEF IInv, Wanted, SameFrame
<1>13. QED
  BY <1>3, <1>5, <1>6, <1>8, <1>9, <1>10, <1>11, <1>12 DEF IInv, Calling, Owning

(* A deadline passes.                                                      *)
LEMMA DeadlineKeeps ==
  ASSUME IInv, NEW c \in Context, Deadline(c)
  PROVE  IInv'
<1>1. /\ expired' = expired \union {c} /\ c \in timed
      /\ UNCHANGED <<base, life, done, asked, timed, task, children, mtx, held, stack>>
  BY DEF Deadline, context
<1>2. /\ \A a : Depth(a)' = Depth(a) /\ \A i : SameFrame(a, i)
      /\ RolesStay
  BY <1>1 DEF Depth, Step, Target, Todo, SameFrame, RolesStay, Owns, Outermost
<1>3. TypeOK'
  BY <1>1 DEF IInv, TypeOK, ContextOK
<1>4. Shape' /\ Nested' /\ Downwards'
  BY <1>1, <1>2 DEF IInv, Calling, Shape, Nested, Downwards, SameFrame
<1>5. Locking'
  BY <1>1, <1>2 DEF IInv, Locking, Loops, Holders, SameFrame
<1>6. Owned' /\ Constructed' /\ Forest'
  BY <1>1, <1>2, RolesKeep
<1>7. Entered'
  BY <1>1, <1>2 DEF IInv, Owning, Entered, Outermost, SameFrame
<1>8. Destroyed'
  BY <1>1, <1>2 DEF IInv, Owning, Destroyed, RolesStay, Actor
<1>9. Tasks' /\ Wanted'
  BY <1>1, <1>2 DEF IInv, Tasks, Wanted, SameFrame
<1>10. QED
  BY <1>3, <1>4, <1>5, <1>6, <1>7, <1>8, <1>9 DEF IInv, Calling, Owning

(* The constructor begins.                                                 *)
LEMMA NewKeeps ==
  ASSUME IInv, NEW t \in Thread, NEW c \in Context, NEW b \in Context \union {NoBase},
         NEW timeout \in BOOLEAN, New(t, c, b, timeout)
  PROVE  IInv'
<1>0. PICK s : s = IF b = NoBase THEN "start" ELSE "new"
  OBVIOUS
<1>1. /\ TypeOK /\ Types /\ t \in Actor /\ Depth(t) = 0 /\ Idle(t)
      /\ life[c] = "unborn" /\ \A k \in Context : k < c => life[k] # "unborn"
      /\ b \in held[t] \union {NoBase}
      /\ \A x \in Actor : Depth(x) \in Nat /\ \A i \in 1..Depth(x) : Target(x, i) \in Context
  BY FramesTyped DEF New, IInv, TypeOK, Types, Actor
<1>2. /\ Stays(t, 0) /\ Depth(t)' = 1 /\ NewFrame(t, 1, At(s, c))
      /\ base' = [base EXCEPT ![c] = b] /\ life' = [life EXCEPT ![c] = "live"]
      /\ timed' \subseteq timed \union {c} /\ timed \subseteq timed'
      /\ UNCHANGED <<done, asked, expired, task, children, mtx, held>>
  <2>1. At(s, c) \in Calls
    BY <1>0, CallParts DEF Steps
  <2>2. QED
    BY <1>0, <1>1, <2>1, Moves DEF New
<1>3. TypeOK'
  <2>1. base' \in [Context -> Context \union {NoBase}] /\ life' \in [Context -> Lives]
    BY <1>1, <1>2 DEF TypeOK, ContextOK, Lives
  <2>2. QED
    BY <1>1, <1>2, <2>1 DEF TypeOK, ContextOK, Stays
<1>4. /\ \A x \in Actor : x # t => Depth(x)' = Depth(x) /\ \A i \in 1..Depth(x) : SameFrame(x, i)
      /\ Step(t, 1)' = s /\ Target(t, 1)' = c /\ Todo(t, 1)' = {}
      /\ \A k \in Context : k # c => base'[k] = base[k] /\ life'[k] = life[k]
      /\ base'[c] = b /\ life'[c] = "live"
  BY <1>1, <1>2, CallParts DEF Stays, NewFrame, TypeOK, ContextOK
<1>5. /\ c \notin timed /\ task[c] = "none" /\ base[c] = NoBase /\ Depth(c) = 0
      /\ \A v \in Thread : c \notin held[v]
      /\ \A k \in Context : ~(base[k] = c /\ life[k] = "live")
      /\ \A k \in Context : c \notin children[k]
      /\ b # c /\ (b # NoBase => life[b] = "live" /\ b \in Context /\ b < c)
  <2>1. c \notin timed /\ task[c] = "none" /\ base[c] = NoBase
    BY <1>1 DEF IInv, Forest, Born
  <2>2. Depth(c) = 0
    BY <1>1, <2>1 DEF IInv, Tasks, Actor
  <2>3. /\ \A v \in Thread : c \notin held[v]
        /\ \A k \in Context : ~(base[k] = c /\ life[k] = "live")
        /\ \A k \in Context : c \notin children[k]
    BY <1>1, CancellationAssumption DEF IInv, Forest, HeldLive, Kids, Bases
  <2>4. b # c
    BY <1>1, <2>3, CancellationAssumption
  <2>5. b # NoBase => life[b] = "live" /\ b \in Context
    BY <1>1 DEF IInv, Forest, HeldLive
  <2>6. b # NoBase => b < c
    BY <1>1, <2>4, <2>5, CtxAssumption DEF IInv, Forest, Born
  <2>7. QED
    BY <2>1, <2>2, <2>3, <2>4, <2>5, <2>6
<1>6. \A x \in Actor : \A i \in 1..Depth(x) : Target(x, i) # c
  BY <1>1, FramesLive
<1>7. Shape' /\ Downwards'
  BY <1>0, <1>1, <1>2, <1>4 DEF IInv, Calling, Shape, Downwards, SameFrame
<1>8. Nested'
  BY <1>1, <1>2, <1>4, <1>6 DEF IInv, Calling, Nested, SameFrame
<1>9. Locking'
  BY <1>0, <1>1, <1>2, <1>4 DEF IInv, Locking, Loops, Holders, SameFrame
<1>10. \A x \in Actor, k \in Context :
        /\ Owns(x, k)' <=> Owns(x, k) \/ (x = t /\ k = c)
        /\ Outermost(x, {"new", "start"}, k)' <=> Outermost(x, {"new", "start"}, k) \/ (x = t /\ k = c)
        /\ Outermost(x, {"new"}, k)' <=> Outermost(x, {"new"}, k) \/ (s = "new" /\ x = t /\ k = c)
        /\ Outermost(x, {"start"}, k)' <=> Outermost(x, {"start"}, k) \/ (s = "start" /\ x = t /\ k = c)
        /\ Outermost(x, {"dtor", "join"}, k)' <=> Outermost(x, {"dtor", "join"}, k)
        /\ Outermost(x, {"del"}, k)' <=> Outermost(x, {"del"}, k)
        /\ Outermost(x, {"cancel", "loop"}, k)' <=> Outermost(x, {"cancel", "loop"}, k)
        /\ k = c => /\ ~Owns(x, k) /\ ~Outermost(x, {"new", "start"}, k)
                    /\ ~Outermost(x, {"new"}, k) /\ ~Outermost(x, {"start"}, k)
                    /\ ~Outermost(x, {"dtor", "join"}, k) /\ ~Outermost(x, {"del"}, k)
  BY <1>0, <1>1, <1>2, <1>4, <1>6 DEF Owns, Outermost, SameFrame
<1>11. Entered'
  BY <1>2, <1>10 DEF IInv, Owning, Entered
<1>12. Owned'
  <2>1. Alone(c)'
    BY <1>2, <1>4, <1>5 DEF Alone
  <2>2. ASSUME NEW k \in Context, k # c, Alone(k) PROVE Alone(k)'
    <3>1. k # b
      BY <1>1, <2>2, CancellationAssumption DEF Alone
    <3>2. QED
      BY <1>2, <1>4, <2>2, <3>1 DEF Alone
  <2>3. QED
    BY <1>4, <1>10, <2>1, <2>2 DEF IInv, Owning, Owned, Actor
<1>13. Constructed'
  <2> SUFFICES ASSUME NEW x \in Thread, NEW k \in Context
      PROVE  /\ Outermost(x, {"new", "start"}, k)' =>
                  task[k] = "none" /\ base'[k] \in held[x] \union {NoBase}
             /\ Outermost(x, {"new"}, k)' => base'[k] # NoBase /\ k \notin children[base'[k]]
             /\ Outermost(x, {"start"}, k)' /\ base'[k] # NoBase => k \in children[base'[k]]
    BY <1>2 DEF Constructed
  <2>1. CASE k = c
    BY <1>0, <1>1, <1>4, <1>5, <1>10, <2>1 DEF Actor
  <2>2. CASE k # c
    BY <1>4, <1>10, <2>2 DEF IInv, Owning, Constructed, Actor
  <2>3. QED
    BY <2>1, <2>2
<1>14. Destroyed'
  BY <1>1, <1>2, <1>4, <1>10, CtxAssumption DEF IInv, Owning, Destroyed, New, Actor
<1>15. Bases'
  BY <1>0, <1>2, <1>4, <1>5, <1>10 DEF IInv, Forest, Bases, Actor
<1>16. Kids' /\ HeldLive'
  BY <1>2, <1>4, <1>5 DEF IInv, Forest, Kids, HeldLive
<1>17. Born'
  <2>1. PICK n \in Nat : \A k \in Context : life[k] # "unborn" => k <= n
    BY DEF IInv, Forest, Born
  <2>2. \A k \in Context : k \in Nat
    BY CtxAssumption
  <2>3. \E m \in Nat : \A k \in Context : life'[k] # "unborn" => k <= m
    <3>1. CASE c <= n
      BY <1>4, <2>1, <2>2, <3>1
    <3>2. CASE ~(c <= n)
      BY <1>4, <2>1, <2>2, <3>2
    <3>3. QED
      BY <3>1, <3>2
  <2>4. QED
    BY <1>1, <1>2, <1>4, <2>3 DEF IInv, Forest, Born
<1>18. Tasks'
  BY <1>1, <1>2, <1>4, CtxAssumption DEF IInv, Tasks, Actor
<1>19. Wanted'
  BY <1>0, <1>1, <1>2, <1>4, <1>6 DEF IInv, Wanted, SameFrame
<1>20. QED
  BY <1>3, <1>7, <1>8, <1>9, <1>11, <1>12, <1>13, <1>14, <1>15, <1>16, <1>17, <1>18, <1>19
  DEF IInv, Calling, Owning, Forest

(* A thread cancels what it was given a Cancel of.                         *)
LEMMA AskCancelKeeps ==
  ASSUME IInv, NEW t \in Thread, NEW c \in Context, AskCancel(t, c)
  PROVE  IInv'
<1>1. /\ TypeOK /\ Types /\ t \in Actor /\ Depth(t) = 0 /\ Idle(t) /\ c \in held[t]
      /\ \A x \in Actor : Depth(x) \in Nat
  BY FramesTyped DEF AskCancel, IInv, TypeOK, Types, Actor
<1>2. /\ Stays(t, 0) /\ Depth(t)' = 1 /\ NewFrame(t, 1, At("cancel", c))
      /\ asked' = asked \union {c}
      /\ UNCHANGED <<base, life, done, timed, expired, task, children, mtx, held>>
  <2>1. At("cancel", c) \in Calls
    BY CallParts DEF Steps
  <2>2. QED
    BY <1>1, <2>1, Moves DEF AskCancel
<1>3. TypeOK'
  BY <1>1, <1>2 DEF TypeOK, ContextOK, Stays
<1>4. /\ \A x \in Actor : x # t => Depth(x)' = Depth(x) /\ \A i \in 1..Depth(x) : SameFrame(x, i)
      /\ Step(t, 1)' = "cancel" /\ Target(t, 1)' = c /\ Todo(t, 1)' = {}
  BY <1>2, CallParts DEF Stays, NewFrame
<1>5. Shape' /\ Nested' /\ Downwards'
  BY <1>1, <1>2, <1>4 DEF IInv, Calling, Shape, Nested, Downwards, SameFrame
<1>6. Locking'
  BY <1>1, <1>2, <1>4 DEF IInv, Locking, Loops, Holders, SameFrame
<1>7. RolesStay
  BY <1>1, <1>2, <1>4 DEF RolesStay, Owns, Outermost, SameFrame
<1>8. Owned' /\ Constructed' /\ Forest'
  BY <1>2, <1>7, RolesKeep
<1>9. Entered'
  BY <1>1, <1>2, <1>4 DEF IInv, Owning, Entered, Outermost, SameFrame
<1>10. Destroyed'
  BY <1>1, <1>2, <1>4, <1>7, CtxAssumption DEF IInv, Owning, Destroyed, RolesStay, Actor
<1>11. Tasks'
  BY <1>1, <1>2, <1>4, CtxAssumption DEF IInv, Tasks, Actor
<1>12. Wanted'
  BY <1>1, <1>2, <1>4 DEF IInv, Wanted, SameFrame
<1>13. QED
  BY <1>3, <1>5, <1>6, <1>8, <1>9, <1>10, <1>11, <1>12 DEF IInv, Calling, Owning

(* A thread lets a context go, perhaps the last that had it.               *)
LEMMA LetKeeps ==
  ASSUME IInv, NEW t \in Thread, NEW c \in Context, Let(t, c)
  PROVE  IInv'
<1>0. PICK s : s = IF c \in timed THEN "dtor" ELSE "del"
  OBVIOUS
<1>1. /\ TypeOK /\ Types /\ t \in Actor /\ Depth(t) = 0 /\ Idle(t) /\ c \in held[t]
      /\ \A x \in Actor : Depth(x) \in Nat
  BY FramesTyped DEF Let, IInv, TypeOK, Types, Actor
<1>2. /\ held' = [held EXCEPT ![t] = @ \ {c}]
      /\ UNCHANGED <<base, life, done, asked, timed, expired, task, children, mtx>>
  BY DEF Let, context
<1>3. /\ \A v \in Thread : v # t => held'[v] = held[v]
      /\ held'[t] = held[t] \ {c}
  BY <1>1, <1>2 DEF TypeOK
<1>4. /\ stack' \in [Actor -> Seq(Calls)]
      /\ \A x \in Actor : x # t => Depth(x)' = Depth(x) /\ \A i \in 1..Depth(x) : SameFrame(x, i)
      /\ \/ Depth(t)' = 0
         \/ /\ Depth(t)' = 1 /\ Step(t, 1)' = s /\ Target(t, 1)' = c /\ Todo(t, 1)' = {}
            /\ LastOf(c, {t}, NoBase)
  <2>1. CASE LastOf(c, {t}, NoBase)
    <3>1. At(s, c) \in Calls /\ stack' = [stack EXCEPT ![t] = <<At(s, c)>>]
      BY <1>0, <2>1, CallParts DEF Let, Destroying, Steps
    <3>2. Stays(t, 0) /\ Depth(t)' = 1 /\ NewFrame(t, 1, At(s, c))
      BY <1>1, <3>1, Moves
    <3>3. QED
      BY <2>1, <3>2, CallParts DEF Stays, NewFrame
  <2>2. CASE ~LastOf(c, {t}, NoBase)
    <3>1. stack' = stack
      BY <2>2 DEF Let
    <3>2. \A x : Depth(x)' = Depth(x) /\ \A i : SameFrame(x, i)
      BY <3>1 DEF Depth, Step, Target, Todo, SameFrame
    <3>3. QED
      BY <1>1, <3>1, <3>2 DEF Types
  <2>3. QED
    BY <2>1, <2>2
<1>5. TypeOK'
  BY <1>1, <1>2, <1>4 DEF TypeOK, ContextOK
<1>6. /\ life[c] = "live"
      /\ \A x \in Thread : ~Owns(x, c)
      /\ Depth(t)' = 1 => Alone(c)'
  <2>1. life[c] = "live" /\ \A x \in Thread : ~Owns(x, c)
    BY <1>1 DEF IInv, Forest, HeldLive, Owning, Owned, Alone
  <2>2. ASSUME LastOf(c, {t}, NoBase) PROVE Alone(c)'
    BY <1>2, <1>3, <2>2, CancellationAssumption DEF LastOf, Alone
  <2>3. QED
    BY <1>4, <2>1, <2>2
<1>7. Shape' /\ Nested' /\ Downwards' /\ Locking'
  <2>1. s \in {"dtor", "del"}
    BY <1>0
  <2>2. Depth(t)' = 0 \/ Depth(t)' = 1
    BY <1>4
  <2>3. \A i \in 1..Depth(t)' : i = 1 /\ Depth(t)' = 1 /\ Step(t, i)' \in {"dtor", "del"} /\ Todo(t, i)' = {}
    BY <1>4, <2>1, <2>2
  <2>4. Shape'
    BY <1>1, <1>4, <2>3 DEF IInv, Calling, Shape, SameFrame
  <2>5. Nested'
    BY <1>1, <1>2, <1>4, <2>3 DEF IInv, Calling, Nested, SameFrame
  <2>6. Downwards'
    BY <1>1, <1>2, <1>4, <2>3 DEF IInv, Calling, Downwards, SameFrame
  <2>7. Loops'
    <3>1. mtx' = mtx /\ done' = done /\ children' = children
      BY <1>2
    <3>2. \A i \in 1..Depth(t)' : Step(t, i)' # "loop"
      BY <2>3
    <3>3. QED
      BY <1>4, <3>1, <3>2 DEF IInv, Locking, Loops, SameFrame
  <2>8. Holders'
    BY <1>1, <1>2, <1>4 DEF IInv, Locking, Holders, SameFrame
  <2>9. QED
    BY <2>4, <2>5, <2>6, <2>7, <2>8 DEF Locking
<1>9. \A x \in Actor, k \in Context :
        /\ Owns(x, k)' <=> Owns(x, k) \/ (Depth(t)' = 1 /\ x = t /\ k = c)
        /\ Outermost(x, {"new", "start"}, k)' <=> Outermost(x, {"new", "start"}, k)
        /\ Outermost(x, {"new"}, k)' <=> Outermost(x, {"new"}, k)
        /\ Outermost(x, {"start"}, k)' <=> Outermost(x, {"start"}, k)
        /\ Outermost(x, {"dtor", "join"}, k)' =>
             Outermost(x, {"dtor", "join"}, k) \/ (s = "dtor" /\ k = c)
        /\ Outermost(x, {"del"}, k)' => Outermost(x, {"del"}, k) \/ (s = "del" /\ k = c)
        /\ Outermost(x, {"cancel", "loop"}, k)' <=> Outermost(x, {"cancel", "loop"}, k)
        /\ Outermost(x, {"new", "start"}, k) \/ Outermost(x, {"cancel", "loop"}, k) => x # t
  BY <1>0, <1>1, <1>2, <1>4 DEF Owns, Outermost, SameFrame
<1>10. Entered'
  BY <1>3, <1>9 DEF IInv, Owning, Entered
<1>11. Owned'
  <2>1. \A k \in Context : Alone(k) => Alone(k)'
    BY <1>2, <1>3 DEF Alone
  <2>2. QED
    BY <1>2, <1>6, <1>9, <2>1 DEF IInv, Owning, Owned, Actor
<1>12. Constructed'
  BY <1>2, <1>3, <1>9 DEF IInv, Owning, Constructed, Actor
<1>13. Destroyed'
  BY <1>0, <1>1, <1>2, <1>4, <1>9, CtxAssumption DEF IInv, Owning, Destroyed, Actor
<1>14. Bases'
  BY <1>2, <1>9 DEF IInv, Forest, Bases, Actor
<1>15. Kids' /\ HeldLive' /\ Born'
  BY <1>2, <1>3 DEF IInv, Forest, Kids, HeldLive, Born
<1>16. Tasks'
  BY <1>1, <1>2, <1>4, CtxAssumption DEF IInv, Tasks, Actor
<1>17. Wanted'
  BY <1>0, <1>1, <1>2, <1>4 DEF IInv, Wanted, SameFrame
<1>18. QED
  BY <1>5, <1>7, <1>10, <1>11, <1>12, <1>13, <1>14, <1>15, <1>16, <1>17
  DEF IInv, Calling, Owning, Forest

(* ~Ctx() leaves the base, and may be the last to let it go.               *)
LEMMA DelChildKeeps ==
  ASSUME IInv, NEW a \in Actor, DelChild(a)
  PROVE  IInv'
<1>0. PICK c, b, s : c = Target(a, 1) /\ b = base[c] /\ s = IF b \in timed THEN "dtor" ELSE "del"
  OBVIOUS
<1>1. /\ TypeOK /\ Types /\ ~Idle(a) /\ Depth(a) = 1 /\ a \in Thread /\ c \in Context
      /\ Step(a, 1) = "del" /\ Top(a).ctx = c /\ b \in Context \union {NoBase}
      /\ \A x \in Actor : Depth(x) \in Nat /\ \A i \in 1..Depth(x) : Target(x, i) \in Context
  BY <1>0, InnermostCall DEF DelChild, IInv, Calling, Shape, TypeOK, ContextOK
<1>2. /\ life' = [life EXCEPT ![c] = "gone"]
      /\ UNCHANGED <<base, done, asked, timed, expired, task, mtx, held>>
  BY <1>1 DEF DelChild
<1>3. /\ Stays(a, 0)
      /\ \/ b = NoBase /\ Depth(a)' = 0 /\ children' = children
         \/ /\ b \in Context /\ mtx[b] = NoActor /\ children' = [children EXCEPT ![b] = @ \ {c}]
            /\ \/ Depth(a)' = 0
               \/ Depth(a)' = 1 /\ NewFrame(a, 1, At(s, b)) /\ LastOf(b, {}, c)
  <2>1. CASE b = NoBase
    BY <1>0, <1>1, <2>1, Moves DEF DelChild
  <2>2. CASE b # NoBase
    <3>1. /\ mtx[b] = NoActor /\ children' = [children EXCEPT ![b] = @ \ {c}]
          /\ Becomes(a, IF LastOf(b, {}, c) THEN <<At(s, b)>> ELSE <<>>)
      BY <1>0, <1>1, <2>2 DEF DelChild, Destroying, Free
    <3>2. At(s, b) \in Calls /\ b \in Context
      BY <1>0, <1>1, <2>2, CallParts DEF Steps
    <3>3. CASE LastOf(b, {}, c)
      BY <1>1, <3>1, <3>2, <3>3, Moves
    <3>4. CASE ~LastOf(b, {}, c)
      BY <1>1, <3>1, <3>2, <3>4, Moves
    <3>5. QED
      BY <3>3, <3>4
  <2>3. QED
    BY <2>1, <2>2
<1>4. TypeOK'
  <2>1. life' \in [Context -> Lives] /\ children' \in [Context -> SUBSET Context]
    BY <1>1, <1>2, <1>3 DEF TypeOK, ContextOK, Lives
  <2>2. QED
    BY <1>1, <1>2, <1>3, <2>1 DEF TypeOK, ContextOK, Stays
<1>5. /\ \A x \in Actor : x # a => Depth(x)' = Depth(x) /\ \A i \in 1..Depth(x) : SameFrame(x, i)
      /\ \A k \in Context : k # c => life'[k] = life[k]
      /\ life'[c] = "gone"
      /\ \A k \in Context : k # b => children'[k] = children[k]
      /\ b \in Context => mtx[b] = NoActor /\ children'[b] = children[b] \ {c}
      /\ \/ Depth(a)' = 0
         \/ /\ Depth(a)' = 1 /\ Step(a, 1)' = s /\ Target(a, 1)' = b /\ Todo(a, 1)' = {}
            /\ LastOf(b, {}, c) /\ b \in Context
  <2>1. \A x \in Actor : x # a => Depth(x)' = Depth(x) /\ \A i \in 1..Depth(x) : SameFrame(x, i)
    BY <1>3 DEF Stays
  <2>2. (\A k \in Context : k # c => life'[k] = life[k]) /\ life'[c] = "gone"
    BY <1>1, <1>2 DEF TypeOK, ContextOK
  <2>3. children \in [Context -> SUBSET Context] /\ NoBase \notin Context
    BY <1>1, CancellationAssumption DEF TypeOK
  <2>4. /\ \A k \in Context : k # b => children'[k] = children[k]
        /\ b \in Context => mtx[b] = NoActor /\ children'[b] = children[b] \ {c}
    BY <1>3, <2>3
  <2>5. NewFrame(a, 1, At(s, b)) =>
          Step(a, 1)' = s /\ Target(a, 1)' = b /\ Todo(a, 1)' = {}
    BY CallParts DEF NewFrame
  <2>6. \/ Depth(a)' = 0
        \/ /\ Depth(a)' = 1 /\ Step(a, 1)' = s /\ Target(a, 1)' = b /\ Todo(a, 1)' = {}
           /\ LastOf(b, {}, c) /\ b \in Context
    BY <1>3, <2>5
  <2>7. QED
    BY <2>1, <2>2, <2>4, <2>6
<1>6. /\ life[c] = "live" /\ Alone(c) /\ \A x \in Thread : Owns(x, c) => x = a
      /\ b \in Context => life[b] = "live" /\ b # c /\ \A x \in Thread : ~Owns(x, b)
      /\ c \in timed => task[c] = "called"
      /\ Depth(c) = 0 /\ task[c] # "waiting"
  <2>1. Owns(a, c) /\ Outermost(a, {"del"}, c)
    BY <1>0, <1>1 DEF Owns, Outermost
  <2>2. life[c] = "live" /\ Alone(c) /\ \A x \in Thread : Owns(x, c) => x = a
    BY <1>1, <2>1 DEF IInv, Owning, Owned
  <2>3. ASSUME b \in Context PROVE life[b] = "live" /\ b # c /\ \A x \in Thread : ~Owns(x, b)
    <3>1. life[b] = "live"
      BY <1>0, <1>1, <2>2, <2>3, CancellationAssumption DEF IInv, Forest, Bases
    <3>2. ~Alone(b)
      BY <1>0, <1>1, <2>2, <2>3 DEF Alone
    <3>3. QED
      BY <2>2, <2>3, <3>1, <3>2 DEF IInv, Owning, Owned
  <2>4. c \in timed => task[c] = "called" /\ Depth(c) = 0
    BY <1>1, <2>1 DEF IInv, Owning, Destroyed
  <2>5. c \notin timed => task[c] = "none" /\ Depth(c) = 0
    BY <1>1 DEF IInv, Tasks, Actor
  <2>6. QED
    BY <2>2, <2>3, <2>4, <2>5
<1>7. Shape' /\ Downwards'
  BY <1>0, <1>1, <1>2, <1>5 DEF IInv, Calling, Shape, Downwards, SameFrame
<1>8. \A x \in Actor : \A i \in 1..Depth(x) : Step(x, i) = "loop" => Target(x, i) # b
  BY <1>1, <1>5, CtxAssumption DEF IInv, Locking, Loops, Actor
<1>9. Nested'
  BY <1>1, <1>2, <1>5, <1>8 DEF IInv, Calling, Nested, SameFrame
<1>10. Loops'
  BY <1>0, <1>1, <1>2, <1>5, <1>8 DEF IInv, Locking, Loops, SameFrame
<1>11. Holders'
  BY <1>0, <1>1, <1>2, <1>5 DEF IInv, Locking, Holders, SameFrame
<1>12. \A x \in Actor, k \in Context :
         /\ Owns(x, k)' <=> (Owns(x, k) /\ x # a) \/ (Depth(a)' = 1 /\ x = a /\ k = b)
         /\ Outermost(x, {"new", "start"}, k)' <=> Outermost(x, {"new", "start"}, k)
         /\ Outermost(x, {"new"}, k)' <=> Outermost(x, {"new"}, k)
         /\ Outermost(x, {"start"}, k)' <=> Outermost(x, {"start"}, k)
         /\ Outermost(x, {"dtor", "join"}, k)' =>
              Outermost(x, {"dtor", "join"}, k) \/ (s = "dtor" /\ k = b)
         /\ Outermost(x, {"del"}, k)' => Outermost(x, {"del"}, k) \/ (s = "del" /\ k = b)
         /\ Outermost(x, {"cancel", "loop"}, k)' <=> Outermost(x, {"cancel", "loop"}, k)
         /\ Outermost(x, {"new", "start"}, k) => x # a /\ Owns(x, k)
  BY <1>0, <1>1, <1>2, <1>5 DEF Owns, Outermost, SameFrame
<1>13. Entered'
  BY <1>2, <1>12 DEF IInv, Owning, Entered
<1>14. Owned'
  <2>1. \A k \in Context : Alone(k) => Alone(k)'
    BY <1>2, <1>5 DEF Alone
  <2>2. Depth(a)' = 1 => Alone(b)'
    BY <1>2, <1>5 DEF Alone, LastOf
  <2>3. \A x \in Thread, k \in Context : Owns(x, k) /\ x # a => k # c
    BY <1>6
  <2>4. QED
    BY <1>2, <1>5, <1>6, <1>12, <2>1, <2>2, <2>3 DEF IInv, Owning, Owned, Actor
<1>15. Constructed'
  <2> SUFFICES ASSUME NEW x \in Thread, NEW k \in Context
      PROVE  /\ Outermost(x, {"new", "start"}, k)' =>
                  task[k] = "none" /\ base[k] \in held[x] \union {NoBase}
             /\ Outermost(x, {"new"}, k)' => base[k] # NoBase /\ k \notin children'[base[k]]
             /\ Outermost(x, {"start"}, k)' /\ base[k] # NoBase => k \in children'[base[k]]
    BY <1>2 DEF Constructed
  <2>1. x \in Actor /\ base[k] \in Context \union {NoBase}
    BY <1>1 DEF Actor, TypeOK, ContextOK
  <2>2. Outermost(x, {"new", "start"}, k) => k # c
    BY <1>6, <1>12, <2>1
  <2>3. Outermost(x, {"new", "start"}, k)' => task[k] = "none" /\ base[k] \in held[x] \union {NoBase}
    BY <1>12, <2>1 DEF IInv, Owning, Constructed
  <2>4. Outermost(x, {"new"}, k)' => base[k] # NoBase /\ k \notin children'[base[k]]
    BY <1>5, <1>12, <2>1 DEF IInv, Owning, Constructed
  <2>5. Outermost(x, {"start"}, k) => Outermost(x, {"new", "start"}, k)
    BY DEF Outermost
  <2>6. Outermost(x, {"start"}, k)' /\ base[k] # NoBase => k \in children'[base[k]]
    BY <1>5, <1>12, <2>1, <2>2, <2>5 DEF IInv, Owning, Constructed
  <2>7. QED
    BY <2>3, <2>4, <2>6
<1>16. Destroyed'
  BY <1>0, <1>1, <1>2, <1>5, <1>12, CtxAssumption DEF IInv, Owning, Destroyed, Actor
<1>17. Bases'
  <2> SUFFICES ASSUME NEW k \in Context
      PROVE  /\ life'[k] = "live" /\ base[k] # NoBase =>
                  /\ life'[base[k]] = "live"
                  /\ k \in children'[base[k]] \/ \E x \in Thread : Outermost(x, {"new"}, k)'
             /\ base[k] # NoBase => base[k] < k
    BY <1>2 DEF Bases
  <2>1. base[k] \in Context \union {NoBase} /\ (life'[k] = "live" => k # c /\ life[k] = "live")
    BY <1>1, <1>5 DEF TypeOK, ContextOK
  <2>2. life[k] = "live" => base[k] # c
    BY <1>6 DEF Alone
  <2>3. life'[k] = "live" /\ base[k] # NoBase => life'[base[k]] = "live"
    BY <1>5, <2>1, <2>2 DEF IInv, Forest, Bases
  <2>4. life'[k] = "live" /\ base[k] # NoBase =>
          k \in children'[base[k]] \/ \E x \in Thread : Outermost(x, {"new"}, k)'
    BY <1>5, <1>12, <2>1 DEF IInv, Forest, Bases, Actor
  <2>5. QED
    BY <2>3, <2>4 DEF IInv, Forest, Bases
<1>18. Kids'
  <2> SUFFICES ASSUME NEW j \in Context, NEW k \in children'[j]
               PROVE  life'[k] = "live" /\ base[k] = j
    BY <1>2 DEF Kids
  <2>1. k \in children[j] /\ (j = b => k # c) /\ k \in Context
    BY <1>1, <1>5 DEF TypeOK
  <2>2. life[k] = "live" /\ base[k] = j
    BY <2>1 DEF IInv, Forest, Kids
  <2>3. QED
    BY <1>0, <1>5, <2>1, <2>2
<1>19. HeldLive'
  BY <1>1, <1>2, <1>5, <1>6 DEF IInv, Forest, HeldLive, Alone, TypeOK
<1>20. Born'
  BY <1>2, <1>5, <1>6 DEF IInv, Forest, Born
<1>21. Tasks'
  <2>1. \A k \in Context : Depth(k)' = Depth(k)
    BY <1>1, <1>5, CtxAssumption DEF Actor
  <2>2. QED
    BY <1>2, <1>5, <1>6, <2>1 DEF IInv, Tasks
<1>22. Wanted'
  BY <1>0, <1>1, <1>2, <1>5 DEF IInv, Wanted, SameFrame
<1>23. QED
  BY <1>4, <1>7, <1>9, <1>10, <1>11, <1>13, <1>14, <1>15, <1>16, <1>17, <1>18, <1>19, <1>20, <1>21, <1>22
  DEF IInv, Calling, Locking, Owning, Forest

(* With no context and no call every part of the invariant holds.          *)
LEMMA IInvInit ==
  ASSUME CtxInit
  PROVE  IInv
<1>1. TypeOK
  <2>1. <<>> \in Seq(Calls)
    OBVIOUS
  <2>2. QED
    BY <2>1 DEF CtxInit, Init, TypeOK, ContextOK, Lives
<1>2. \A a \in Actor : Depth(a) = 0
  BY FramesTyped, <1>1 DEF CtxInit, TypeOK, Types, Idle
<1>3. /\ \A c \in Context : /\ mtx[c] = NoActor /\ base[c] = NoBase /\ life[c] = "unborn"
                            /\ children[c] = {} /\ task[c] = "none"
      /\ \A t \in Thread : held[t] = {}
      /\ timed = {} /\ expired = {}
  BY DEF CtxInit, Init
<1>4. \A a \in Actor : \A ss, c : ~Outermost(a, ss, c)
  BY <1>2 DEF Outermost
<1>5. Calling
  BY <1>2 DEF Calling, Shape, Nested, Downwards
<1>6. Locking
  BY <1>2, <1>3, CtxAssumption DEF Locking, Loops, Holders, Actor
<1>7. Owning
  BY <1>4 DEF Owning, Entered, Owned, Constructed, Destroyed, Owns, Actor
<1>8. Forest
  <2>1. \A c \in Context : life[c] # "unborn" => c <= 0
    BY <1>3
  <2>2. QED
    BY <1>3, <2>1 DEF Forest, Bases, Kids, HeldLive, Born
<1>9. Tasks /\ Wanted
  BY <1>2, <1>3 DEF Tasks, Wanted, Actor
<1>10. QED
  BY <1>1, <1>5, <1>6, <1>7, <1>8, <1>9 DEF IInv

(* Every step keeps the invariant.                                         *)
LEMMA IInvStep ==
  ASSUME IInv, [CtxNext]_vars
  PROVE  IInv'
<1>1. ASSUME NEW t \in Thread, Begin(t) PROVE IInv'
  <2>1. PICK c \in Context :
          \/ \E b \in Context \union {NoBase}, timeout \in BOOLEAN : New(t, c, b, timeout)
          \/ AskCancel(t, c) \/ Let(t, c)
    BY <1>1 DEF Begin
  <2>2. CASE \E b \in Context \union {NoBase}, timeout \in BOOLEAN : New(t, c, b, timeout)
    BY <2>2, NewKeeps
  <2>3. QED
    BY <2>1, <2>2, AskCancelKeeps, LetKeeps
<1>2. ASSUME NEW a \in Actor, Resume(a) PROVE IInv'
  <2>1. CASE a \in Thread /\ \E u \in Thread : Start(a, u)
    BY <2>1, StartKeeps
  <2>2. CASE a \in Context /\ TaskWakes(a)
    BY <2>2, TaskWakesKeeps
  <2>3. QED
    BY <1>2, <2>1, <2>2, AddChildKeeps, EnterCancelKeeps, CancelChildKeeps, UnlockKeeps,
       DestructorKeeps, JoinKeeps, DelChildKeeps DEF Resume
<1>3. ASSUME UNCHANGED vars PROVE IInv'
  <2>1. /\ UNCHANGED <<base, life, done, asked, timed, expired, task, children, mtx, held, stack>>
    BY <1>3 DEF vars, context
  <2>2. /\ \A a : Depth(a)' = Depth(a) /\ \A i : SameFrame(a, i)
        /\ RolesStay
    BY <2>1 DEF Depth, Step, Target, Todo, SameFrame, RolesStay, Owns, Outermost
  <2>3. TypeOK'
    BY <2>1 DEF IInv, TypeOK, ContextOK
  <2>4. Shape' /\ Nested' /\ Downwards'
    BY <2>1, <2>2 DEF IInv, Calling, Shape, Nested, Downwards, SameFrame
  <2>5. Locking'
    BY <2>1, <2>2 DEF IInv, Locking, Loops, Holders, SameFrame
  <2>6. Owned' /\ Constructed' /\ Forest'
    BY <2>1, <2>2, RolesKeep
  <2>7. Entered' /\ Destroyed'
    BY <2>1, <2>2 DEF IInv, Owning, Entered, Destroyed, Outermost, SameFrame, Actor
  <2>8. Tasks' /\ Wanted'
    BY <2>1, <2>2 DEF IInv, Tasks, Wanted, SameFrame
  <2>9. QED
    BY <2>3, <2>4, <2>5, <2>6, <2>7, <2>8 DEF IInv, Calling, Owning
<1>4. QED
  BY <1>1, <1>2, <1>3, DeadlineKeeps DEF CtxNext

(* The invariant holds of every reachable state.                           *)
THEOREM Invariant == CtxSpec => []IInv
<1>1. CtxInit => IInv
  BY IInvInit
<1>2. IInv /\ [CtxNext]_vars => IInv'
  BY IInvStep
<1>3. QED
  BY <1>1, <1>2, PTL DEF CtxSpec

(* The state is well-formed: every stack holds calls of members of         *)
(* contexts, by the points of them a thread can have reached.              *)
THEOREM TypeCorrect == CtxSpec => []TypeOK
<1>1. IInv => TypeOK
  BY DEF IInv
<1>2. QED
  BY <1>1, Invariant, PTL
-----------------------------------------------------------------------------
\* What follows from it.

(* No thread is in, or about to enter, a member of a context that is       *)
(* destroyed, whose thread has ended, which nobody holds the mutex of, and *)
(* which no live context has as a child.                                   *)
THEOREM NothingUsedAfterEnd == CtxSpec => []Alive
<1>1. ASSUME IInv PROVE Alive
  <2>1. /\ \A a \in Actor : DOMAIN stack[a] = 1..Depth(a)
        /\ \A a \in Actor : \A i : /\ stack[a][i].ctx = Target(a, i)
                                   /\ stack[a][i].todo = Todo(a, i)
    BY <1>1, LenProperties DEF IInv, TypeOK, Depth, Target, Todo
  <2>2. \A c \in Context : life[c] = "live" => Live(c) /\ (base[c] = NoBase \/ Live(base[c]))
    BY <1>1, CancellationAssumption DEF IInv, Forest, Bases, Live
  <2>3. \A a \in Actor : \A i \in 1..Depth(a) : \A c \in Todo(a, i) \union {Target(a, i)} :
          Live(c) /\ (base[c] = NoBase \/ Live(base[c]))
    BY <1>1, <2>2, FramesLive
  <2>4. ASSUME NEW c \in Context, task[c] = "waiting" \/ ~Free(c) PROVE Live(c)
    <3>1. CASE task[c] = "waiting"
      BY <1>1, <3>1, CancellationAssumption DEF IInv, Tasks, Live
    <3>2. CASE mtx[c] # NoActor
      <4>1. mtx[c] \in Actor
        BY <1>1, <3>2 DEF IInv, TypeOK
      <4>2. QED
        BY <1>1, <2>2, <4>1, FramesLive DEF IInv, Locking, Holders
    <3>3. QED
      BY <2>4, <3>1, <3>2 DEF Free
  <2>5. \A c \in Context : Live(c) => \A k \in children[c] : Live(k)
    BY <1>1, CancellationAssumption DEF IInv, TypeOK, Forest, Kids, Live
  <2>6. QED
    BY <2>1, <2>3, <2>4, <2>5 DEF Alive
<1>2. QED
  BY <1>1, Invariant, PTL

-----------------------------------------------------------------------------
\* Deadlock.

(* A set of numbers has a least one, and a greatest if it is bounded.      *)
LEMMA Least ==
  ASSUME NEW T \in SUBSET Nat, T # {} PROVE \E m \in T : \A i \in T : m <= i
<1>1. PICK m \in T : \A i \in T : ~(<<i, m>> \in OpToRel(<, Nat))
  BY WFMin, NatLessThanWellFounded
<1>2. \A i \in T : ~(i < m)
  BY <1>1 DEF OpToRel
<1>3. QED
  BY <1>2

(* A bounded, nonempty set of numbers has a greatest member.               *)
LEMMA Greatest ==
  ASSUME NEW S \in SUBSET Nat, S # {}, NEW n \in Nat, \A i \in S : i <= n
  PROVE  \E m \in S : \A i \in S : i <= m
<1> DEFINE T == {n - i : i \in S}
<1>1. T \in SUBSET Nat /\ T # {}
  <2>1. \A i \in S : n - i \in Nat
    OBVIOUS
  <2>2. QED
    BY <2>1
<1>2. PICK x \in T : \A y \in T : x <= y
  BY <1>1, Least
<1>3. PICK m \in S : x = n - m
  BY <1>2
<1>4. ASSUME NEW i \in S PROVE i <= m
  BY <1>2, <1>3
<1>5. QED
  BY <1>4

(* Thread a needs the mutex of c, which another thread has.                *)
Needs(a, c) ==
  /\ Depth(a) > 0 /\ mtx[c] = WaitsFor(a)
  /\ \/ Step(a, Depth(a)) \in {"new", "del"}
     \/ Step(a, Depth(a)) = "cancel" /\ c = Target(a, Depth(a))

(* A thread that waits needs a mutex, or joins a timeout_task.             *)
LEMMA Waiting ==
  ASSUME IInv, NEW a \in Actor, WaitsFor(a) # NoActor
  PROVE  \/ \E c \in Context : Needs(a, c)
         \/ /\ Depth(a) > 0 /\ Step(a, Depth(a)) = "join"
            /\ WaitsFor(a) = Target(a, Depth(a)) /\ WaitsFor(a) \in Context
<1>1. \A s, r : In(a, s) /\ In(a, r) => s = r
  BY DEF In
<1>2. TypeOK /\ base \in [Context -> Context \union {NoBase}]
  BY DEF IInv, TypeOK, ContextOK
<1>3. CASE In(a, "new") \/ (In(a, "del") /\ base[Top(a).ctx] # NoBase)
  <2>1. WaitsFor(a) = mtx[base[Top(a).ctx]]
    BY <1>1, <1>3 DEF WaitsFor
  <2>2. PICK s \in {"new", "del"} : In(a, s)
    BY <1>3
  <2>3. Depth(a) \in Nat \ {0} /\ Step(a, Depth(a)) = s /\ Target(a, Depth(a)) = Top(a).ctx
        /\ Top(a).ctx \in Context
    BY <1>2, <2>2, InnermostCall
  <2>4. base[Top(a).ctx] # NoBase
    <3>1. CASE s = "new"
      <4>1. Depth(a) = 1 /\ a \in Thread
        BY <2>3, <3>1 DEF IInv, Calling, Shape
      <4>2. Outermost(a, {"new"}, Top(a).ctx)
        BY <2>3, <3>1, <4>1 DEF Outermost
      <4>3. QED
        BY <2>3, <4>1, <4>2 DEF IInv, Owning, Constructed
    <3>2. CASE s = "del"
      BY <1>1, <1>3, <2>2, <3>2
    <3>3. QED
      BY <3>1, <3>2
  <2>5. base[Top(a).ctx] \in Context
    BY <1>2, <2>3, <2>4
  <2>6. QED
    BY <2>1, <2>2, <2>3, <2>5 DEF Needs
<1>4. CASE In(a, "cancel")
  <2>1. WaitsFor(a) = mtx[Top(a).ctx]
    BY <1>1, <1>4 DEF WaitsFor
  <2>2. QED
    BY <1>2, <1>4, <2>1, InnermostCall DEF Needs
<1>5. CASE In(a, "join") /\ ~Joined(Top(a).ctx)
  <2>1. WaitsFor(a) = Top(a).ctx
    BY <1>1, <1>5 DEF WaitsFor
  <2>2. QED
    BY <1>2, <1>5, <2>1, InnermostCall
<1>6. QED
  BY <1>3, <1>4, <1>5 DEF WaitsFor

(* No threads wait for each other in a circle: cancel() takes the mutexes  *)
(* from the root to the leaves, constructors and destructors take one with *)
(* no other held, and a timeout_task joins nobody.  Of the mutexes that    *)
(* are waited for in a circle, the one of the youngest context would be    *)
(* held by a thread that waits for that of a younger one.                  *)
THEOREM DeadlockFree == CtxSpec => []NoDeadlock
<1>1. ASSUME IInv, NEW A \in SUBSET Actor, A # {}, \A a \in A : WaitsFor(a) \in A
      PROVE  FALSE
  <2> DEFINE W == {c \in Context : \E a \in A : Needs(a, c)}
  <2>1. /\ \A a \in Actor : Depth(a) \in Nat /\ \A i \in 1..Depth(a) : Target(a, i) \in Context
        /\ Context \subseteq Nat /\ NoActor \notin A /\ Thread \intersect Context = {}
    BY <1>1, FramesTyped, CtxAssumption DEF IInv, TypeOK, Types, Actor
  <2>2. \A a \in A : WaitsFor(a) \in A /\ a \in Actor /\ WaitsFor(a) # NoActor
    BY <1>1, <2>1
  <2>3. ASSUME NEW c \in W
        PROVE  mtx[c] \in A /\ \E i \in 1..Depth(mtx[c]) :
                 Step(mtx[c], i) = "loop" /\ Target(mtx[c], i) = c
    <3>1. mtx[c] \in A
      BY <2>2 DEF Needs
    <3>2. QED
      BY <1>1, <2>2, <3>1 DEF IInv, Locking, Holders
  <2>4. CASE W # {}
    <3>1. PICK n \in Nat : \A c \in Context : life[c] # "unborn" => c <= n
      BY <1>1 DEF IInv, Forest, Born
    <3>2. \A c \in W : c <= n
      BY <1>1, <2>2, <2>3, <3>1, FramesLive
    <3>3. PICK c \in W : \A k \in W : k <= c
      BY <2>1, <2>4, <3>2, Greatest
    <3>4. PICK h \in A : h = mtx[c]
      BY <2>3
    <3>5. PICK i \in 1..Depth(h) : Step(h, i) = "loop" /\ Target(h, i) = c
      BY <2>3, <3>4
    <3>6. Step(h, Depth(h)) # "join" /\ Step(h, Depth(h)) \notin {"new", "del"}
      BY <1>1, <2>2, <2>1, <3>5 DEF IInv, Calling, Shape
    <3>7. PICK k \in Context : Needs(h, k)
      BY <1>1, <2>2, <3>6, Waiting
    <3>8. Step(h, Depth(h)) = "cancel" /\ k = Target(h, Depth(h)) /\ k \in W
      BY <3>6, <3>7 DEF Needs
    <3>9. i < Depth(h) /\ Depth(h) \in 1..Depth(h)
      BY <2>1, <2>2, <3>5, <3>8
    <3>10. c < k
      BY <1>1, <2>2, <3>5, <3>8, <3>9 DEF IInv, Calling, Downwards
    <3>11. QED
      BY <2>1, <3>3, <3>8, <3>10
  <2>5. CASE W = {}
    <3>1. \A a \in A : /\ Depth(a) > 0 /\ Step(a, Depth(a)) = "join"
                       /\ WaitsFor(a) \in Context /\ WaitsFor(a) \in A
      BY <1>1, <2>2, <2>5, Waiting
    <3>2. \A a \in A : a \in Thread
      BY <1>1, <2>1, <2>2, <3>1 DEF IInv, Calling, Shape
    <3>3. QED
      BY <1>1, <2>1, <3>1, <3>2
  <2>6. QED
    BY <2>4, <2>5
<1>2. IInv => NoDeadlock
  BY <1>1 DEF NoDeadlock
<1>3. QED
  BY <1>2, Invariant, PTL

-----------------------------------------------------------------------------
\* How cancel() reaches the tree.

(* Loop i of a is that of add_child(), called by a constructor, and not of *)
(* cancel().                                                               *)
Builds(a, i) == i = 2 /\ Step(a, 1) = "start"
Runs(a, i, c) == Step(a, i) = "loop" /\ Target(a, i) = c /\ ~Builds(a, i)

(* Loop i of a has still to cancel k, or does.                             *)
Visits(a, i, k) == k \in Todo(a, i) \/ (i < Depth(a) /\ Target(a, i + 1) = k)

(* The context is done, and cancel() does not go through its children.     *)
Whole(b) == b \in done /\ \A a \in Actor : \A i \in 1..Depth(a) : ~Runs(a, i, b)

(* The constructor of k is about to cancel it.                             *)
Adding(k) ==
  \E a \in Thread : /\ Depth(a) > 1 /\ Step(a, 1) = "start" /\ Target(a, 1) = k
                    /\ Step(a, 2) = "loop" /\ Visits(a, 2, k)

(* The children of a whole context are whole, but for new ones; those that *)
(* cancel() has gone through are.                                          *)
Inherited == \A b \in Context : \A k \in children[b] : Whole(b) => Whole(k) \/ Adding(k)
Gone ==
  \A a \in Actor : \A i \in 1..Depth(a), c \in Context : Runs(a, i, c) =>
    \A k \in children[c] : Visits(a, i, k) \/ Whole(k)
Reached == Inherited /\ Gone

(* Nobody goes through the children of a context whose mutex is free.      *)
LEMMA FreeWhole ==
  ASSUME IInv
  PROVE  \A c \in Context : mtx[c] = NoActor /\ c \in done => Whole(c)
BY CtxAssumption DEF IInv, Locking, Loops, Whole, Runs, Actor

(* Thread x is in no loop before and after the step, or stays where it is. *)
Calm(x) ==
  \/ Depth(x)' = Depth(x) /\ \A i \in 1..Depth(x) : SameFrame(x, i)
  \/ /\ \A i \in 1..Depth(x) : Step(x, i) # "loop"
     /\ \A i \in 1..Depth(x)' : Step(x, i)' # "loop"

(* What is whole or to be cancelled stays so.                              *)
LEMMA CalmFacts ==
  ASSUME TypeOK, TypeOK', \A x \in Actor : Calm(x), done' = done
  PROVE  /\ \A k \in Context : Whole(k)' <=> Whole(k)
         /\ \A k \in Context : Adding(k) => Adding(k)'
         /\ \A x \in Actor : \A i \in 1..Depth(x)', c \in Context : Runs(x, i, c)' =>
              /\ i \in 1..Depth(x) /\ Runs(x, i, c)
              /\ \A k : Visits(x, i, k) => Visits(x, i, k)'
<1>1. \A x \in Actor : Depth(x) \in Nat /\ Depth(x)' \in Nat
  BY LenProperties DEF TypeOK, Depth
<1>2. ASSUME NEW x \in Actor, NEW i \in 1..Depth(x)', Step(x, i)' = "loop"
      PROVE  /\ i \in 1..Depth(x) /\ Depth(x)' = Depth(x)
             /\ \A j \in 1..Depth(x) : SameFrame(x, j)
  BY <1>2 DEF Calm
<1>3. ASSUME NEW x \in Actor, NEW i \in 1..Depth(x), Step(x, i) = "loop"
      PROVE  /\ i \in 1..Depth(x)' /\ Depth(x)' = Depth(x)
             /\ \A j \in 1..Depth(x) : SameFrame(x, j)
  BY <1>3 DEF Calm
<1>4. ASSUME NEW x \in Actor, NEW i \in 1..Depth(x), Depth(x)' = Depth(x),
             \A j \in 1..Depth(x) : SameFrame(x, j)
      PROVE  /\ \A c : Runs(x, i, c)' <=> Runs(x, i, c)
             /\ \A k : Visits(x, i, k) <=> Visits(x, i, k)'
  <2>1. /\ SameFrame(x, i) /\ SameFrame(x, 1)
        /\ i < Depth(x) => SameFrame(x, i + 1)
    BY <1>1, <1>4
  <2>2. QED
    BY <1>4, <2>1 DEF SameFrame, Runs, Builds, Visits
<1>5. \A x \in Actor : \A c : (\E i \in 1..Depth(x)' : Runs(x, i, c)') <=> (\E i \in 1..Depth(x) : Runs(x, i, c))
  <2>1. ASSUME NEW x \in Actor, NEW c, NEW i \in 1..Depth(x)', Runs(x, i, c)'
        PROVE  i \in 1..Depth(x) /\ Runs(x, i, c)
    BY <1>2, <1>4, <2>1 DEF Runs
  <2>2. ASSUME NEW x \in Actor, NEW c, NEW i \in 1..Depth(x), Runs(x, i, c)
        PROVE  i \in 1..Depth(x)' /\ Runs(x, i, c)'
    BY <1>3, <1>4, <2>2 DEF Runs
  <2>3. QED
    BY <2>1, <2>2
<1>6. \A k \in Context : Whole(k)' <=> Whole(k)
  BY <1>5 DEF Whole
<1>7. ASSUME NEW k \in Context, Adding(k) PROVE Adding(k)'
  <2>1. PICK x \in Thread : /\ Depth(x) > 1 /\ Step(x, 1) = "start" /\ Target(x, 1) = k
                            /\ Step(x, 2) = "loop" /\ Visits(x, 2, k)
    BY <1>7 DEF Adding
  <2>2. x \in Actor /\ 1 \in 1..Depth(x) /\ 2 \in 1..Depth(x)
    BY <1>1, <2>1 DEF Actor
  <2>3. Depth(x)' = Depth(x) /\ SameFrame(x, 1) /\ SameFrame(x, 2) /\ Visits(x, 2, k)'
    BY <1>3, <1>4, <2>1, <2>2
  <2>4. QED
    BY <2>1, <2>3 DEF Adding, SameFrame
<1>8. ASSUME NEW x \in Actor, NEW i \in 1..Depth(x)', NEW c \in Context, Runs(x, i, c)'
      PROVE  /\ i \in 1..Depth(x) /\ Runs(x, i, c)
             /\ \A k : Visits(x, i, k) => Visits(x, i, k)'
  BY <1>2, <1>4, <1>8 DEF Runs
<1>9. QED
  BY <1>6, <1>7, <1>8

(* A step that changes no loop and makes nothing done keeps what has been  *)
(* reached.                                                                *)
LEMMA CalmKeeps ==
  ASSUME TypeOK, TypeOK', \A x \in Actor : Calm(x), done' = done, Reached,
         \A c \in Context : children'[c] \subseteq children[c]
  PROVE  Reached'
<1>1. children \in [Context -> SUBSET Context]
  BY DEF TypeOK
<1>2. Inherited'
  BY <1>1, CalmFacts DEF Reached, Inherited
<1>3. Gone'
  BY <1>1, CalmFacts DEF Reached, Gone
<1>4. QED
  BY <1>2, <1>3 DEF Reached

(* A thread that is in no loop makes a step, to calls that are no loops.   *)
LEMMA Calms ==
  ASSUME Types, NEW a \in Actor
  PROVE  /\ \A f \in Calls : Idle(a) /\ f.step # "loop" /\ stack' = [stack EXCEPT ![a] = <<f>>] =>
              \A x \in Actor : Calm(x)
         /\ Depth(a) = 1 /\ Step(a, 1) # "loop" =>
              /\ Becomes(a, <<>>) => \A x \in Actor : Calm(x)
              /\ \A f \in Calls : f.step # "loop" /\ Becomes(a, <<f>>) => \A x \in Actor : Calm(x)
              /\ \A f, g \in Calls :
                   f.step # "loop" /\ g.step # "loop" /\ Becomes(a, <<g, f>>) => \A x \in Actor : Calm(x)
<1>1. /\ Depth(a) \in Nat /\ (Idle(a) <=> Depth(a) = 0)
  BY FramesTyped
<1>2. ASSUME NEW n \in Nat, Stays(a, n), \A i \in 1..Depth(a) : Step(a, i) # "loop",
             \A i \in 1..Depth(a)' : Step(a, i)' # "loop"
      PROVE  \A x \in Actor : Calm(x)
  BY <1>2 DEF Stays, Calm
<1>3. ASSUME NEW f \in Calls, Idle(a), f.step # "loop", stack' = [stack EXCEPT ![a] = <<f>>]
      PROVE  \A x \in Actor : Calm(x)
  <2>1. Stays(a, 0) /\ Depth(a)' = 1 /\ NewFrame(a, 1, f)
    BY <1>1, <1>3, Moves
  <2>2. QED
    BY <1>1, <1>2, <1>3, <2>1 DEF NewFrame
<1>4. ASSUME Depth(a) = 1, Step(a, 1) # "loop", Becomes(a, <<>>)
      PROVE  \A x \in Actor : Calm(x)
  <2>1. Stays(a, 0) /\ Depth(a)' = 0
    BY <1>1, <1>4, Moves
  <2>2. QED
    BY <1>2, <1>4, <2>1
<1>5. ASSUME Depth(a) = 1, Step(a, 1) # "loop", NEW f \in Calls, f.step # "loop", Becomes(a, <<f>>)
      PROVE  \A x \in Actor : Calm(x)
  <2>1. Stays(a, 0) /\ Depth(a)' = 1 /\ NewFrame(a, 1, f)
    BY <1>1, <1>5, Moves
  <2>2. QED
    BY <1>2, <1>5, <2>1 DEF NewFrame
<1>6. ASSUME Depth(a) = 1, Step(a, 1) # "loop", NEW f \in Calls, NEW g \in Calls,
             f.step # "loop", g.step # "loop", Becomes(a, <<g, f>>)
      PROVE  \A x \in Actor : Calm(x)
  <2>1. Stays(a, 0) /\ Depth(a)' = 2 /\ NewFrame(a, 1, g) /\ NewFrame(a, 2, f)
    BY <1>1, <1>6, Moves
  <2>2. \A i \in 1..Depth(a)' : Step(a, i)' # "loop"
    BY <1>6, <2>1 DEF NewFrame
  <2>3. QED
    BY <1>2, <1>6, <2>1, <2>2
<1>7. QED
  BY <1>3, <1>4, <1>5, <1>6

(* All steps but those of cancel() and add_child().                        *)
LEMMA CalmSteps ==
  ASSUME IInv, Reached, IInv',
         \/ \E t \in Thread : Begin(t)
         \/ \E c \in Context : Deadline(c) \/ TaskWakes(c)
         \/ \E a \in Actor : Destructor(a) \/ Join(a) \/ DelChild(a)
         \/ \E t, u \in Thread : Start(t, u)
         \/ UNCHANGED vars
  PROVE  Reached'
<1>1. TypeOK /\ TypeOK' /\ Types /\ Thread \subseteq Actor /\ Context \subseteq Actor
  BY DEF IInv, TypeOK, Types, Actor
<1>2. ASSUME stack' = stack PROVE \A x \in Actor : Calm(x)
  BY <1>2 DEF Calm, Depth, SameFrame, Step, Target, Todo
<1>3. \A s \in Steps, c \in Context : At(s, c) \in Calls /\ At(s, c).step = s
  BY CallParts
<1>4. ASSUME NEW t \in Thread, Begin(t) PROVE Reached'
  <2>1. PICK c \in Context :
          \/ \E b \in Context \union {NoBase}, timeout \in BOOLEAN : New(t, c, b, timeout)
          \/ AskCancel(t, c) \/ Let(t, c)
    BY <1>4 DEF Begin
  <2>2. /\ At("start", c) \in Calls /\ At("start", c).step # "loop"
        /\ At("new", c) \in Calls /\ At("new", c).step # "loop"
        /\ At("cancel", c) \in Calls /\ At("cancel", c).step # "loop"
        /\ At("dtor", c) \in Calls /\ At("dtor", c).step # "loop"
        /\ At("del", c) \in Calls /\ At("del", c).step # "loop"
    BY <1>3 DEF Steps
  <2>3. ASSUME NEW b, NEW timeout, New(t, c, b, timeout) PROVE Reached'
    <3>1. /\ Idle(t) /\ UNCHANGED <<done, children>>
          /\ \/ stack' = [stack EXCEPT ![t] = <<At("start", c)>>]
             \/ stack' = [stack EXCEPT ![t] = <<At("new", c)>>]
      BY <2>3 DEF New
    <3>2. QED
      BY <1>1, <2>2, <3>1, Calms, CalmKeeps
  <2>4. CASE AskCancel(t, c)
    <3>1. /\ Idle(t) /\ UNCHANGED <<done, children>>
          /\ stack' = [stack EXCEPT ![t] = <<At("cancel", c)>>]
      BY <2>4 DEF AskCancel
    <3>2. QED
      BY <1>1, <2>2, <3>1, Calms, CalmKeeps
  <2>5. CASE Let(t, c)
    <3>1. /\ Idle(t) /\ UNCHANGED <<done, children>>
          /\ \/ stack' = [stack EXCEPT ![t] = <<At("dtor", c)>>]
             \/ stack' = [stack EXCEPT ![t] = <<At("del", c)>>]
             \/ stack' = stack
      BY <2>5 DEF Let, Destroying, context
    <3>2. \A x \in Actor : Calm(x)
      BY <1>1, <1>2, <2>2, <3>1, Calms
    <3>3. QED
      BY <1>1, <3>1, <3>2, CalmKeeps
  <2>6. QED
    BY <2>1, <2>3, <2>4, <2>5
<1>5. ASSUME NEW c \in Context, Deadline(c) \/ TaskWakes(c) PROVE Reached'
  <2>1. At("cancel", c) \in Calls /\ At("cancel", c).step # "loop"
    BY <1>3 DEF Steps
  <2>2. CASE Deadline(c)
    <3>1. stack' = stack /\ UNCHANGED <<done, children>>
      BY <2>2 DEF Deadline, context
    <3>2. QED
      BY <1>1, <1>2, <3>1, CalmKeeps
  <2>3. CASE TaskWakes(c)
    <3>1. Idle(c) /\ UNCHANGED <<done, children>> /\ stack' = [stack EXCEPT ![c] = <<At("cancel", c)>>]
      <4>1. Depth(c) \in Nat /\ ~(Depth(c) > 0)
        BY <1>1, <2>3, FramesTyped DEF IInv, Tasks, TaskWakes
      <4>2. QED
        BY <1>1, <2>3, <4>1, FramesTyped DEF TaskWakes, context
    <3>2. QED
      BY <1>1, <2>1, <3>1, Calms, CalmKeeps
  <2>4. QED
    BY <1>5, <2>2, <2>3
<1>6. ASSUME NEW a \in Actor, NEW s \in {"dtor", "join", "del", "start"}, In(a, s)
      PROVE  /\ Depth(a) = 1 /\ Step(a, 1) # "loop" /\ Top(a).ctx \in Context
  <2>1. /\ Depth(a) \in Nat \ {0} /\ Step(a, Depth(a)) = s /\ Top(a).ctx \in Context
    BY <1>1, <1>6, InnermostCall
  <2>2. Depth(a) = 1
    BY <2>1 DEF IInv, Calling, Shape
  <2>3. QED
    BY <2>1, <2>2
<1>7. ASSUME NEW a \in Actor, Destructor(a) \/ Join(a) \/ DelChild(a) PROVE Reached'
  <2>1. CASE Destructor(a)
    <3>1. /\ Depth(a) = 1 /\ Step(a, 1) # "loop" /\ Top(a).ctx \in Context
      BY <1>6, <2>1 DEF Destructor
    <3>2. /\ At("join", Top(a).ctx) \in Calls /\ At("join", Top(a).ctx).step # "loop"
          /\ At("cancel", Top(a).ctx) \in Calls /\ At("cancel", Top(a).ctx).step # "loop"
      BY <1>3, <3>1 DEF Steps
    <3>3. /\ Becomes(a, <<At("join", Top(a).ctx), At("cancel", Top(a).ctx)>>)
          /\ UNCHANGED <<done, children>>
      BY <2>1 DEF Destructor
    <3>4. QED
      BY <1>1, <3>1, <3>2, <3>3, Calms, CalmKeeps
  <2>2. CASE Join(a)
    <3>1. /\ Depth(a) = 1 /\ Step(a, 1) # "loop" /\ Top(a).ctx \in Context
      BY <1>6, <2>2 DEF Join
    <3>2. At("del", Top(a).ctx) \in Calls /\ At("del", Top(a).ctx).step # "loop"
      BY <1>3, <3>1 DEF Steps
    <3>3. Becomes(a, <<At("del", Top(a).ctx)>>) /\ UNCHANGED <<done, children>>
      BY <2>2 DEF Join, context
    <3>4. QED
      BY <1>1, <3>1, <3>2, <3>3, Calms, CalmKeeps
  <2>3. CASE DelChild(a)
    <3>1. /\ Depth(a) = 1 /\ Step(a, 1) # "loop" /\ Top(a).ctx \in Context
      BY <1>6, <2>3 DEF DelChild
    <3>2. PICK b : b = base[Top(a).ctx]
      OBVIOUS
    <3>3. b \in Context \union {NoBase}
      BY <1>1, <3>1, <3>2 DEF TypeOK, ContextOK
    <3>4. /\ b # NoBase => /\ At("dtor", b) \in Calls /\ At("dtor", b).step # "loop"
                           /\ At("del", b) \in Calls /\ At("del", b).step # "loop"
      BY <1>3, <3>3 DEF Steps
    <3>5. /\ done' = done
          /\ children' = children \/ children' = [children EXCEPT ![b] = @ \ {Top(a).ctx}]
          /\ \/ Becomes(a, <<>>)
             \/ b # NoBase /\ (Becomes(a, <<At("dtor", b)>>) \/ Becomes(a, <<At("del", b)>>))
      BY <2>3, <3>2 DEF DelChild, Destroying
    <3>6. \A c \in Context : children'[c] \subseteq children[c]
      <4>1. children \in [Context -> SUBSET Context]
        BY <1>1 DEF TypeOK
      <4>2. children' = children \/ children' = [children EXCEPT ![b] = @ \ {Top(a).ctx}]
        BY <3>5
      <4>3. QED
        BY <4>1, <4>2
    <3>7. \A x \in Actor : Calm(x)
      BY <1>1, <3>1, <3>4, <3>5, Calms
    <3>8. QED
      BY <1>1, <3>5, <3>6, <3>7, CalmKeeps
  <2>4. QED
    BY <1>7, <2>1, <2>2, <2>3
<1>8. ASSUME NEW t \in Thread, NEW u \in Thread, Start(t, u) PROVE Reached'
  <2>1. /\ Depth(t) = 1 /\ Step(t, 1) # "loop" /\ Becomes(t, <<>>) /\ UNCHANGED <<done, children>>
    BY <1>1, <1>6, <1>8 DEF Start, context
  <2>2. QED
    BY <1>1, <2>1, Calms, CalmKeeps
<1>9. ASSUME UNCHANGED vars PROVE Reached'
  <2>1. stack' = stack /\ UNCHANGED <<done, children>>
    BY <1>9 DEF vars, context
  <2>2. QED
    BY <1>1, <1>2, <2>1, CalmKeeps
<1>10. QED
  BY <1>4, <1>5, <1>7, <1>8, <1>9

(* add_child() cancels a new child of a context that is done.              *)
LEMMA AddChildReaches ==
  ASSUME IInv, Reached, IInv', NEW a \in Actor, AddChild(a)
  PROVE  Reached'
<1>0. PICK c, b : c = Top(a).ctx /\ b = base[c]
  OBVIOUS
<1>1. /\ TypeOK /\ TypeOK' /\ Types /\ ~Idle(a) /\ Depth(a) = 1 /\ a \in Thread /\ c \in Context
      /\ Step(a, 1) = "new" /\ Target(a, 1) = c
      /\ children \in [Context -> SUBSET Context]
  <2>1. TypeOK /\ TypeOK' /\ children \in [Context -> SUBSET Context] /\ In(a, "new")
    BY DEF IInv, TypeOK, AddChild
  <2>2. /\ Depth(a) \in Nat \ {0} /\ ~Idle(a) /\ Types /\ c \in Context
        /\ Step(a, Depth(a)) = "new" /\ Target(a, Depth(a)) = c
    BY <1>0, <2>1, InnermostCall
  <2>3. Depth(a) = 1 /\ a \in Thread
    BY <2>2 DEF IInv, Calling, Shape
  <2>4. QED
    BY <2>1, <2>2, <2>3
<1>2. b \in Context
  BY <1>0, <1>1 DEF IInv, Owning, Constructed, Outermost, TypeOK, ContextOK
<1>3. /\ mtx[b] = NoActor /\ done' = done /\ children' = [children EXCEPT ![b] = @ \union {c}]
      /\ \/ b \in done /\ Becomes(a, <<At("start", c), Call("loop", b, {c})>>)
         \/ b \notin done /\ Becomes(a, <<At("start", c)>>)
  BY <1>0 DEF AddChild, Free, context
<1>4. /\ At("start", c) \in Calls /\ Call("loop", b, {c}) \in Calls
      /\ At("start", c).step = "start" /\ At("start", c).ctx = c
      /\ Call("loop", b, {c}).step = "loop" /\ Call("loop", b, {c}).todo = {c}
  BY <1>1, <1>2, CallParts DEF Steps
<1>5. /\ \A k \in Context : k # b => children'[k] = children[k]
      /\ children'[b] = children[b] \union {c}
  BY <1>1, <1>2, <1>3
<1>6. \A x \in Actor : \A i \in 1..Depth(x) : ~Runs(x, i, b)
  BY <1>3, CtxAssumption DEF IInv, Locking, Loops, Runs, Actor
<1>7. CASE b \notin done
  <2>1. \A x \in Actor : Calm(x)
    BY <1>1, <1>3, <1>4, <1>7, Calms
  <2>2. ~Whole(b)
    BY <1>7 DEF Whole
  <2>3. Inherited'
    BY <1>1, <1>3, <1>5, <2>1, <2>2, CalmFacts DEF Reached, Inherited
  <2>4. Gone'
    BY <1>1, <1>3, <1>5, <1>6, <2>1, CalmFacts DEF Reached, Gone
  <2>5. QED
    BY <2>3, <2>4 DEF Reached
<1>8. CASE b \in done
  <2>1. /\ Stays(a, 0) /\ Depth(a)' = 2
        /\ Step(a, 1)' = "start" /\ Target(a, 1)' = c
        /\ Step(a, 2)' = "loop" /\ Todo(a, 2)' = {c}
    <3>1. PICK f, g : f = Call("loop", b, {c}) /\ g = At("start", c)
      OBVIOUS
    <3>2. f \in Calls /\ g \in Calls /\ Becomes(a, <<g, f>>)
      BY <1>3, <1>4, <1>8, <3>1
    <3>3. Stays(a, 0) /\ Depth(a)' = 2 /\ NewFrame(a, 1, g) /\ NewFrame(a, 2, f)
      BY <1>1, <3>2, Moves
    <3>4. QED
      BY <1>4, <3>1, <3>3 DEF NewFrame
  <2>2. \A x \in Actor : x # a => Depth(x)' = Depth(x) /\ \A i \in 1..Depth(x) : SameFrame(x, i)
    BY <2>1 DEF Stays
  <2>3. \A x \in Actor : Depth(x) \in Nat
    BY <1>1, FramesTyped
  <2>4. \A i \in 1..Depth(a) : \A k : ~Runs(a, i, k)
    BY <1>1 DEF Runs
  <2>5. \A i \in 1..Depth(a)' : \A k : ~Runs(a, i, k)'
    BY <2>1 DEF Runs, Builds
  <2>6. ASSUME NEW x \in Actor, x # a, NEW i \in 1..Depth(x)
        PROVE  /\ \A k : Runs(x, i, k)' <=> Runs(x, i, k)
               /\ \A k : Visits(x, i, k)' <=> Visits(x, i, k)
    <3>1. /\ SameFrame(x, i) /\ SameFrame(x, 1) /\ Depth(x)' = Depth(x)
          /\ i < Depth(x) => SameFrame(x, i + 1)
      BY <2>2, <2>3, <2>6
    <3>2. QED
      BY <2>6, <3>1 DEF SameFrame, Runs, Builds, Visits
  <2>7. \A k \in Context : Whole(k)' <=> Whole(k)
    BY <1>3, <2>2, <2>4, <2>5, <2>6 DEF Whole
  <2>8. ASSUME NEW k \in Context, Adding(k) PROVE Adding(k)'
    <3>1. PICK x \in Thread : /\ Depth(x) > 1 /\ Step(x, 1) = "start" /\ Target(x, 1) = k
                              /\ Step(x, 2) = "loop" /\ Visits(x, 2, k)
      BY <2>8 DEF Adding
    <3>2. x \in Actor /\ x # a /\ 1 \in 1..Depth(x) /\ 2 \in 1..Depth(x)
      BY <1>1, <2>3, <3>1 DEF Actor
    <3>3. Depth(x)' = Depth(x) /\ SameFrame(x, 1) /\ SameFrame(x, 2) /\ Visits(x, 2, k)'
      BY <2>2, <2>6, <3>1, <3>2
    <3>4. QED
      BY <3>1, <3>3 DEF Adding, SameFrame
  <2>9. Adding(c)'
    BY <1>1, <2>1 DEF Adding, Visits
  <2>10. Inherited'
    <3> SUFFICES ASSUME NEW j \in Context, NEW k \in children'[j], Whole(j)'
                 PROVE  Whole(k)' \/ Adding(k)'
      BY DEF Inherited
    <3>1. k = c \/ k \in children[j]
      BY <1>5
    <3>2. k \in Context
      BY <1>1, <3>1
    <3>3. QED
      BY <2>7, <2>8, <2>9, <3>1, <3>2 DEF Reached, Inherited
  <2>11. Gone'
    <3> SUFFICES ASSUME NEW x \in Actor, NEW i \in 1..Depth(x)', NEW d \in Context, Runs(x, i, d)',
                        NEW k \in children'[d]
                 PROVE  Visits(x, i, k)' \/ Whole(k)'
      BY DEF Gone
    <3>1. x # a /\ i \in 1..Depth(x) /\ Runs(x, i, d)
      BY <2>2, <2>5, <2>6
    <3>2. k \in children[d] /\ k \in Context
      BY <1>1, <1>5, <1>6, <3>1
    <3>3. QED
      BY <2>6, <2>7, <3>1, <3>2 DEF Reached, Gone
  <2>12. QED
    BY <2>10, <2>11 DEF Reached
<1>9. QED
  BY <1>7, <1>8

(* A call returns to a loop: the context it was for is whole.              *)
LEMMA ReturnReaches ==
  ASSUME TypeOK, TypeOK', Shape, Reached, NEW a \in Actor, NEW n, NEW c \in Context,
         n = Depth(a), n > 0, c = Target(a, n), Stays(a, n - 1), Depth(a)' = n - 1,
         children' = children, Whole(c)',
         \A k \in Context : Whole(k)' <=> Whole(k) \/ k = c,
         Whole(c) \/ \A k \in children[c] : Whole(k),
         ~(n = 2 /\ Step(a, 1) = "start")
  PROVE  Reached'
<1>1. /\ \A x \in Actor : Depth(x) \in Nat
      /\ \A x \in Actor : x # a => Depth(x)' = Depth(x) /\ \A i \in 1..Depth(x) : SameFrame(x, i)
      /\ \A i \in 1..(n - 1) : SameFrame(a, i)
      /\ children \in [Context -> SUBSET Context]
  BY FramesTyped DEF TypeOK, Types, Stays
<1>2. ASSUME NEW x \in Actor, NEW i \in 1..Depth(x)'
      PROVE  /\ i \in 1..Depth(x)
             /\ SameFrame(x, i) /\ SameFrame(x, 1) /\ \A k : Runs(x, i, k)' <=> Runs(x, i, k)
             /\ \A k : Visits(x, i, k) => Visits(x, i, k)' \/ k = c
  <2>1. /\ i \in 1..Depth(x) /\ SameFrame(x, i) /\ SameFrame(x, 1)
        /\ i < Depth(x) => \/ i < Depth(x)' /\ SameFrame(x, i + 1)
                           \/ x = a /\ i + 1 = n
    BY <1>1, <1>2
  <2>2. QED
    BY <2>1 DEF SameFrame, Runs, Builds, Visits
<1>3. ASSUME NEW k \in Context, Adding(k) PROVE Adding(k)' \/ k = c
  <2>1. PICK x \in Thread : /\ Depth(x) > 1 /\ Step(x, 1) = "start" /\ Target(x, 1) = k
                            /\ Step(x, 2) = "loop" /\ Visits(x, 2, k)
    BY <1>3 DEF Adding
  <2>2. x \in Actor
    BY DEF Actor
  <2>3. Depth(x)' > 1 /\ Depth(x)' \in Nat
    BY <1>1, <2>1, <2>2
  <2>4. 1 \in 1..Depth(x)' /\ 2 \in 1..Depth(x)'
    BY <2>3
  <2>5. SameFrame(x, 1) /\ SameFrame(x, 2) /\ (Visits(x, 2, k)' \/ k = c)
    BY <1>2, <2>1, <2>2, <2>4
  <2>6. QED
    BY <2>1, <2>3, <2>5 DEF Adding, SameFrame
<1>4. Inherited'
  <2> SUFFICES ASSUME NEW j \in Context, NEW k \in children[j], Whole(j)'
               PROVE  Whole(k)' \/ Adding(k)'
    BY DEF Inherited
  <2>1. k \in Context
    BY <1>1
  <2>2. CASE Whole(j)
    BY <1>3, <2>1, <2>2 DEF Reached, Inherited
  <2>3. CASE ~Whole(j)
    BY <2>1, <2>3
  <2>4. QED
    BY <2>2, <2>3
<1>5. Gone'
  <2> SUFFICES ASSUME NEW x \in Actor, NEW i \in 1..Depth(x)', NEW d \in Context, Runs(x, i, d)',
                      NEW k \in children[d]
               PROVE  Visits(x, i, k)' \/ Whole(k)'
    BY DEF Gone
  <2>1. i \in 1..Depth(x) /\ Runs(x, i, d) /\ k \in Context
    BY <1>1, <1>2
  <2>2. Visits(x, i, k) \/ Whole(k)
    BY <2>1 DEF Reached, Gone
  <2>3. QED
    BY <1>2, <2>1, <2>2
<1>6. QED
  BY <1>4, <1>5 DEF Reached

(* The end of cancel(), and of the loop of add_child().                    *)
LEMMA UnlockReaches ==
  ASSUME IInv, Reached, IInv', NEW a \in Actor, Unlock(a)
  PROVE  Reached'
<1>0. PICK n, c : n = Depth(a) /\ c = Target(a, n)
  OBVIOUS
<1>1. /\ TypeOK /\ TypeOK' /\ Types /\ Shape /\ ~Idle(a) /\ n \in Nat \ {0} /\ c \in Context
      /\ Step(a, n) = "loop" /\ Todo(a, n) = {}
      /\ \A x \in Actor : Depth(x) \in Nat /\ \A i \in 1..Depth(x) : Target(x, i) \in Context
      /\ children \in [Context -> SUBSET Context]
  <2>1. TypeOK /\ TypeOK' /\ Shape /\ children \in [Context -> SUBSET Context]
    BY DEF IInv, Calling, TypeOK
  <2>2. In(a, "loop") /\ Top(a).todo = {}
    BY DEF Unlock
  <2>3. QED
    BY <1>0, <2>1, <2>2, InnermostCall
<1>2. /\ Stays(a, n - 1) /\ Depth(a)' = n - 1 /\ done' = done /\ children' = children
  BY <1>0, <1>1, Moves DEF Unlock, context
<1>3. /\ \A x \in Actor : x # a => Depth(x)' = Depth(x) /\ \A i \in 1..Depth(x) : SameFrame(x, i)
      /\ \A i \in 1..(n - 1) : SameFrame(a, i)
  BY <1>2 DEF Stays
<1>4. ASSUME NEW x \in Actor, NEW i \in 1..Depth(x)'
      PROVE  /\ i \in 1..Depth(x) /\ \A k : Runs(x, i, k)' <=> Runs(x, i, k)
  <2>1. /\ i \in 1..Depth(x) /\ SameFrame(x, i) /\ SameFrame(x, 1)
    BY <1>0, <1>1, <1>2, <1>3, <1>4
  <2>2. QED
    BY <2>1 DEF SameFrame, Runs, Builds
<1>5. \A x \in Actor : \A i \in 1..Depth(x) : i \in 1..Depth(x)' \/ (x = a /\ i = n)
  BY <1>0, <1>1, <1>2, <1>3
<1>6. \A k \in Context : k # c \/ Builds(a, n) => (Whole(k)' <=> Whole(k))
  <2>1. \A k \in Context : k # c \/ Builds(a, n) => ~Runs(a, n, k)
    BY <1>0 DEF Runs
  <2>2. QED
    BY <1>2, <1>4, <1>5, <2>1 DEF Whole
<1>7. CASE ~Builds(a, n)
  <2>1. \A x \in Actor : \A i \in 1..Depth(x)' : ~Runs(x, i, c)
    <3> SUFFICES ASSUME NEW x \in Actor, NEW i \in 1..Depth(x)', Runs(x, i, c) PROVE FALSE
      OBVIOUS
    <3>1. i \in 1..Depth(x) /\ Step(x, i) = "loop" /\ Target(x, i) = c /\ n \in 1..n
      BY <1>1, <1>4 DEF Runs
    <3>2. x = a
      BY <1>0, <1>1, <3>1 DEF IInv, Locking, Loops
    <3>3. i < n /\ i \in 1..n
      BY <1>0, <1>1, <1>2, <3>1, <3>2
    <3>4. c < c
      BY <1>0, <3>1, <3>2, <3>3 DEF IInv, Calling, Downwards
    <3>5. QED
      BY <1>1, <3>4, CtxAssumption
  <2>2. c \in done /\ Runs(a, n, c) /\ n \in 1..Depth(a)
    BY <1>0, <1>1, <1>7 DEF IInv, Locking, Loops, Runs
  <2>3. Whole(c)'
    BY <1>2, <1>4, <2>1, <2>2 DEF Whole
  <2>4. \A k \in children[c] : Whole(k)
    BY <1>0, <1>1, <2>2 DEF Reached, Gone, Visits
  <2>5. \A k \in Context : Whole(k)' <=> Whole(k) \/ k = c
    BY <1>6, <2>3
  <2>6. ~(n = 2 /\ Step(a, 1) = "start")
    BY <1>7 DEF Builds
  <2>7. n > 0
    BY <1>1
  <2>8. QED
    BY <1>0, <1>1, <1>2, <2>3, <2>4, <2>5, <2>6, <2>7, ReturnReaches
<1>8. CASE Builds(a, n)
  <2>1. n = 2 /\ Step(a, 1) = "start" /\ Depth(a)' = 1
    BY <1>2, <1>8 DEF Builds
  <2>2. \A k \in Context : Whole(k)' <=> Whole(k)
    BY <1>6, <1>8
  <2>3. ASSUME NEW x \in Actor, x # a, NEW i \in 1..Depth(x)'
        PROVE  \A k : Visits(x, i, k) <=> Visits(x, i, k)'
    <3>1. /\ SameFrame(x, i) /\ Depth(x)' = Depth(x)
          /\ i < Depth(x) => SameFrame(x, i + 1)
      BY <1>1, <1>3, <2>3
    <3>2. QED
      BY <3>1 DEF SameFrame, Visits
  <2>4. ASSUME NEW k \in Context, Adding(k) PROVE Adding(k)'
    <3>1. PICK x \in Thread : /\ Depth(x) > 1 /\ Step(x, 1) = "start" /\ Target(x, 1) = k
                              /\ Step(x, 2) = "loop" /\ Visits(x, 2, k)
      BY <2>4 DEF Adding
    <3>2. x # a
      <4>1. Depth(a) = 2 /\ Todo(a, 2) = {}
        BY <1>0, <1>1, <2>1
      <4>2. ~Visits(a, 2, k)
        BY <4>1 DEF Visits
      <4>3. QED
        BY <3>1, <4>2
    <3>3. x \in Actor /\ 1 \in 1..Depth(x) /\ 2 \in 1..Depth(x)
      BY <1>1, <3>1 DEF Actor
    <3>4. Depth(x)' = Depth(x) /\ SameFrame(x, 1) /\ SameFrame(x, 2)
      BY <1>3, <3>2, <3>3
    <3>5. Visits(x, 2, k)'
      BY <2>3, <3>1, <3>2, <3>3, <3>4
    <3>6. QED
      BY <3>1, <3>4, <3>5 DEF Adding, SameFrame
  <2>5. Inherited'
    BY <1>1, <1>2, <2>2, <2>4 DEF Reached, Inherited
  <2>6. Gone'
    <3> SUFFICES ASSUME NEW x \in Actor, NEW i \in 1..Depth(x)', NEW d \in Context, Runs(x, i, d)',
                        NEW k \in children[d]
                 PROVE  Visits(x, i, k)' \/ Whole(k)'
      BY <1>2 DEF Gone
    <3>1. i \in 1..Depth(x) /\ Runs(x, i, d) /\ k \in Context
      BY <1>1, <1>4
    <3>2. x # a
      BY <1>1, <2>1, <3>1 DEF Runs
    <3>3. QED
      BY <2>2, <2>3, <3>1, <3>2 DEF Reached, Gone
  <2>7. QED
    BY <2>5, <2>6 DEF Reached
<1>9. QED
  BY <1>7, <1>8

(* The loop of cancel() and add_child() goes on with a child.              *)
LEMMA CancelChildReaches ==
  ASSUME IInv, Reached, IInv', NEW a \in Actor, CancelChild(a)
  PROVE  Reached'
<1>0. PICK n, c : n = Depth(a) /\ c = Target(a, n)
  OBVIOUS
<1>1. PICK k \in Top(a).todo :
        Becomes(a, <<Call("loop", Top(a).ctx, Top(a).todo \ {k}), At("cancel", k)>>)
  BY DEF CancelChild
<1>2. /\ TypeOK /\ TypeOK' /\ Types /\ ~Idle(a) /\ n \in Nat \ {0} /\ c \in Context
      /\ Step(a, n) = "loop" /\ Top(a).ctx = c /\ Top(a).todo = Todo(a, n)
      /\ Todo(a, n) \subseteq Context
      /\ children \in [Context -> SUBSET Context]
  <2>1. TypeOK /\ TypeOK' /\ children \in [Context -> SUBSET Context] /\ In(a, "loop")
    BY DEF IInv, TypeOK, CancelChild
  <2>2. QED
    BY <1>0, <2>1, InnermostCall
<1>3. k \in Todo(a, n) /\ k \in Context
  BY <1>1, <1>2
<1>4. PICK f, g : f = Call("loop", c, Todo(a, n) \ {k}) /\ g = At("cancel", k)
  OBVIOUS
<1>5. /\ f \in Calls /\ f.step = "loop" /\ f.ctx = c /\ f.todo = Todo(a, n) \ {k}
      /\ g \in Calls /\ g.step = "cancel" /\ g.ctx = k
  BY <1>2, <1>3, <1>4, CallParts DEF Steps
<1>6. /\ Stays(a, n - 1) /\ Depth(a)' = n + 1 /\ NewFrame(a, n, f) /\ NewFrame(a, n + 1, g)
      /\ done' = done /\ children' = children
  BY <1>0, <1>1, <1>2, <1>4, <1>5, Moves DEF CancelChild, context
<1>7. /\ \A x \in Actor : x # a => Depth(x)' = Depth(x) /\ \A i \in 1..Depth(x) : SameFrame(x, i)
      /\ \A i \in 1..(n - 1) : SameFrame(a, i)
      /\ Step(a, n)' = Step(a, n) /\ Target(a, n)' = Target(a, n) /\ Todo(a, n)' = Todo(a, n) \ {k}
      /\ Step(a, n + 1)' = "cancel" /\ Target(a, n + 1)' = k
      /\ \A x \in Actor : Depth(x) \in Nat
  BY <1>0, <1>2, <1>5, <1>6, FramesTyped DEF Stays, NewFrame
<1>8. ASSUME NEW x \in Actor, NEW i \in 1..Depth(x)
      PROVE  /\ i \in 1..Depth(x)' /\ Step(x, i)' = Step(x, i) /\ Target(x, i)' = Target(x, i)
             /\ Step(x, 1)' = Step(x, 1) /\ Target(x, 1)' = Target(x, 1)
             /\ \A j : Runs(x, i, j)' <=> Runs(x, i, j)
             /\ \A j : Visits(x, i, j)' <=> Visits(x, i, j)
  <2>1. /\ i \in 1..Depth(x)' /\ 1 \in 1..Depth(x)
        /\ \A j \in 1..Depth(x) : /\ Step(x, j)' = Step(x, j) /\ Target(x, j)' = Target(x, j)
                                  /\ Todo(x, j)' = Todo(x, j) \/ (x = a /\ j = n)
    BY <1>0, <1>2, <1>6, <1>7, <1>8 DEF SameFrame
  <2>2. \A j : Runs(x, i, j)' <=> Runs(x, i, j)
    BY <2>1 DEF Runs, Builds
  <2>3. CASE x = a /\ i = n
    BY <1>0, <1>2, <1>3, <1>6, <1>7, <2>1, <2>2, <2>3 DEF Visits
  <2>4. CASE ~(x = a /\ i = n)
    <3>1. /\ Todo(x, i)' = Todo(x, i)
          /\ i < Depth(x)' <=> i < Depth(x)
          /\ i < Depth(x) => Target(x, i + 1)' = Target(x, i + 1)
      BY <1>0, <1>6, <1>7, <1>8, <2>1, <2>4
    <3>2. QED
      BY <2>1, <2>2, <3>1 DEF Visits
  <2>5. QED
    BY <2>3, <2>4
<1>9. ASSUME NEW x \in Actor, NEW i \in 1..Depth(x)', Step(x, i)' = "loop"
      PROVE  i \in 1..Depth(x)
  <2>1. i \in 1..Depth(x) \/ (x = a /\ i = n + 1)
    BY <1>0, <1>6, <1>7, <1>9
  <2>2. QED
    BY <1>7, <1>9, <2>1
<1>10. \A j \in Context : Whole(j)' <=> Whole(j)
  <2>1. \A x \in Actor : \A j : (\E i \in 1..Depth(x)' : Runs(x, i, j)') <=> (\E i \in 1..Depth(x) : Runs(x, i, j))
    BY <1>8, <1>9 DEF Runs
  <2>2. QED
    BY <1>6, <2>1 DEF Whole
<1>11. ASSUME NEW j \in Context, Adding(j) PROVE Adding(j)'
  <2>1. PICK x \in Thread : /\ Depth(x) > 1 /\ Step(x, 1) = "start" /\ Target(x, 1) = j
                            /\ Step(x, 2) = "loop" /\ Visits(x, 2, j)
    BY <1>11 DEF Adding
  <2>2. x \in Actor /\ 2 \in 1..Depth(x) /\ Depth(x)' \in Nat
    BY <1>2, <1>7, <2>1, FramesTyped, LenProperties DEF Actor, TypeOK, Depth
  <2>3. 2 \in 1..Depth(x)' /\ Step(x, 1)' = "start" /\ Target(x, 1)' = j
        /\ Step(x, 2)' = "loop" /\ Visits(x, 2, j)'
    BY <1>8, <2>1, <2>2
  <2>4. QED
    BY <2>2, <2>3 DEF Adding
<1>12. Inherited'
  BY <1>2, <1>6, <1>10, <1>11 DEF Reached, Inherited
<1>13. Gone'
  <2> SUFFICES ASSUME NEW x \in Actor, NEW i \in 1..Depth(x)', NEW d \in Context, Runs(x, i, d)',
                      NEW j \in children[d]
               PROVE  Visits(x, i, j)' \/ Whole(j)'
    BY <1>6 DEF Gone
  <2>1. i \in 1..Depth(x) /\ j \in Context
    BY <1>2, <1>9 DEF Runs
  <2>2. Runs(x, i, d) /\ (Visits(x, i, j)' <=> Visits(x, i, j))
    BY <1>8, <2>1
  <2>3. QED
    BY <1>10, <2>1, <2>2 DEF Reached, Gone
<1>14. QED
  BY <1>12, <1>13 DEF Reached

(* cancel() begins.                                                        *)
LEMMA EnterCancelReaches ==
  ASSUME IInv, Reached, IInv', NEW a \in Actor, EnterCancel(a)
  PROVE  Reached'
<1>0. PICK n, c : n = Depth(a) /\ c = Target(a, n)
  OBVIOUS
<1>1. /\ TypeOK /\ TypeOK' /\ Types /\ Shape /\ ~Idle(a) /\ n \in Nat \ {0} /\ c \in Context
      /\ Step(a, n) = "cancel" /\ Top(a).ctx = c /\ mtx[c] = NoActor
      /\ \A x \in Actor : Depth(x) \in Nat /\ \A i \in 1..Depth(x) : Target(x, i) \in Context
      /\ children \in [Context -> SUBSET Context]
  <2>1. TypeOK /\ TypeOK' /\ Shape /\ children \in [Context -> SUBSET Context] /\ In(a, "cancel")
    BY DEF IInv, Calling, TypeOK, EnterCancel
  <2>2. /\ Types /\ ~Idle(a) /\ n \in Nat \ {0} /\ c \in Context
        /\ Step(a, n) = "cancel" /\ Top(a).ctx = c
        /\ \A x \in Actor : Depth(x) \in Nat /\ \A i \in 1..Depth(x) : Target(x, i) \in Context
    BY <1>0, <2>1, InnermostCall
  <2>3. mtx[c] = NoActor
    BY <2>2 DEF EnterCancel, Free
  <2>4. QED
    BY <2>1, <2>2, <2>3
<1>2. /\ \A x \in Actor : \A i \in 1..Depth(x) : ~Runs(x, i, c)
      /\ n \in 1..Depth(a)
  BY <1>0, <1>1, CtxAssumption DEF IInv, Locking, Loops, Runs, Actor
<1>3. ~(n = 2 /\ Step(a, 1) = "start")
  <2>1. n = 2 => 1 \in 1..Depth(a) /\ 2 \in 1..Depth(a) /\ 2 = 1 + 1
    BY <1>0, <1>1
  <2>2. QED
    BY <1>0, <1>1, <2>1 DEF IInv, Calling, Nested
<1>4. /\ done' = done \union {c} /\ children' = children
      /\ \/ Becomes(a, <<>>) /\ (c \in done \/ children[c] = {})
         \/ c \notin done /\ Becomes(a, <<Call("loop", c, children[c])>>)
  BY <1>1 DEF EnterCancel
<1>5. CASE Becomes(a, <<>>) /\ (c \in done \/ children[c] = {})
  <2>1. Stays(a, n - 1) /\ Depth(a)' = n - 1
    BY <1>0, <1>1, <1>5, Moves
  <2>2. /\ \A x \in Actor : x # a => Depth(x)' = Depth(x) /\ \A i \in 1..Depth(x) : SameFrame(x, i)
        /\ \A i \in 1..(n - 1) : SameFrame(a, i)
    BY <2>1 DEF Stays
  <2>3. ASSUME NEW x \in Actor, NEW i \in 1..Depth(x)'
        PROVE  /\ i \in 1..Depth(x) /\ \A k : Runs(x, i, k)' <=> Runs(x, i, k)
    <3>1. /\ i \in 1..Depth(x) /\ SameFrame(x, i) /\ SameFrame(x, 1)
      BY <1>0, <1>1, <2>1, <2>2, <2>3
    <3>2. QED
      BY <3>1 DEF SameFrame, Runs, Builds
  <2>4. \A x \in Actor : \A i \in 1..Depth(x) : i \in 1..Depth(x)' \/ (x = a /\ i = n)
    BY <1>0, <1>1, <2>1, <2>2
  <2>5. \A k : ~Runs(a, n, k)
    BY <1>1 DEF Runs
  <2>6. Whole(c)' /\ \A k \in Context : Whole(k)' <=> Whole(k) \/ k = c
    <3>1. Whole(c)'
      BY <1>2, <1>4, <2>3 DEF Whole
    <3>2. \A k \in Context : k # c => (Whole(k)' <=> Whole(k))
      BY <1>4, <2>3, <2>4, <2>5 DEF Whole
    <3>3. QED
      BY <3>1, <3>2
  <2>7. Whole(c) \/ \A k \in children[c] : Whole(k)
    BY <1>2, <1>5 DEF Whole
  <2>8. n > 0
    BY <1>1
  <2>9. QED
    BY <1>0, <1>1, <1>3, <1>4, <2>1, <2>6, <2>7, <2>8, ReturnReaches
<1>6. CASE c \notin done /\ Becomes(a, <<Call("loop", c, children[c])>>)
  <2>1. PICK f : f = Call("loop", c, children[c])
    OBVIOUS
  <2>2. f \in Calls /\ f.step = "loop" /\ f.ctx = c /\ f.todo = children[c]
    BY <1>1, <2>1, CallParts DEF Steps
  <2>3. Stays(a, n - 1) /\ Depth(a)' = n /\ NewFrame(a, n, f)
    BY <1>0, <1>1, <1>6, <2>1, <2>2, Moves
  <2>4. /\ \A x \in Actor : x # a => Depth(x)' = Depth(x) /\ \A i \in 1..Depth(x) : SameFrame(x, i)
        /\ \A i \in 1..(n - 1) : SameFrame(a, i)
        /\ Step(a, n)' = "loop" /\ Target(a, n)' = c /\ Todo(a, n)' = children[c]
    BY <2>2, <2>3 DEF Stays, NewFrame
  <2>5. /\ \A x \in Actor : Depth(x)' = Depth(x)
        /\ \A x \in Actor : \A j \in 1..Depth(x) :
             /\ Target(x, j)' = Target(x, j)
             /\ SameFrame(x, j) \/ (x = a /\ j = n)
    BY <1>0, <1>1, <2>3, <2>4 DEF SameFrame
  <2>6. Runs(a, n, c)' /\ \A k : k # c => ~Runs(a, n, k)'
    <3>1. ~(n = 2 /\ Step(a, 1)' = "start")
      <4>1. CASE n = 1
        BY <4>1
      <4>2. CASE n # 1
        BY <1>1, <1>3, <2>4, <4>2 DEF SameFrame
      <4>3. QED
        BY <4>1, <4>2
    <3>2. QED
      BY <2>4, <3>1 DEF Runs, Builds
  <2>7. ASSUME NEW x \in Actor, NEW i \in 1..Depth(x), ~(x = a /\ i = n)
        PROVE  /\ \A k : Runs(x, i, k)' <=> Runs(x, i, k)
               /\ \A k : Visits(x, i, k)' <=> Visits(x, i, k)
    <3>1. /\ SameFrame(x, i)
          /\ i < Depth(x) => Target(x, i + 1)' = Target(x, i + 1)
      BY <1>1, <2>5, <2>7
    <3>2. \A k : Visits(x, i, k)' <=> Visits(x, i, k)
      BY <2>5, <3>1 DEF SameFrame, Visits
    <3>3. i = 2 => (Step(x, 1)' = "start" <=> Step(x, 1) = "start")
      <4>1. SameFrame(x, 1) \/ (x = a /\ n = 1)
        BY <1>1, <2>5, <2>7
      <4>2. x = a /\ n = 1 => i = 1
        BY <1>0, <2>7
      <4>3. QED
        BY <4>1, <4>2 DEF SameFrame
    <3>4. \A k : Runs(x, i, k)' <=> Runs(x, i, k)
      BY <3>1, <3>3 DEF SameFrame, Runs, Builds
    <3>5. QED
      BY <3>2, <3>4
  <2>8. \A k \in Context : Whole(k)' <=> Whole(k)
    <3>1. ~Whole(c) /\ ~Whole(c)'
      BY <1>2, <1>6, <2>5, <2>6 DEF Whole
    <3>2. \A k \in Context : k # c => (Whole(k)' <=> Whole(k))
      <4>1. \A k : ~Runs(a, n, k)
        BY <1>1 DEF Runs
      <4>2. QED
        BY <1>2, <1>4, <2>5, <2>6, <2>7, <4>1 DEF Whole
    <3>3. QED
      BY <3>1, <3>2
  <2>9. ASSUME NEW k \in Context, Adding(k) PROVE Adding(k)'
    <3>1. PICK x \in Thread : /\ Depth(x) > 1 /\ Step(x, 1) = "start" /\ Target(x, 1) = k
                              /\ Step(x, 2) = "loop" /\ Visits(x, 2, k)
      BY <2>9 DEF Adding
    <3>2. x \in Actor /\ 1 \in 1..Depth(x) /\ 2 \in 1..Depth(x)
      BY <1>1, <3>1 DEF Actor
    <3>3. ~(x = a /\ 2 = n) /\ ~(x = a /\ 1 = n)
      BY <1>1, <3>1
    <3>4. SameFrame(x, 1) /\ SameFrame(x, 2) /\ Visits(x, 2, k)' /\ Depth(x)' = Depth(x)
      BY <2>5, <2>7, <3>1, <3>2, <3>3
    <3>5. QED
      BY <3>1, <3>4 DEF Adding, SameFrame
  <2>10. Inherited'
    BY <1>1, <1>4, <2>8, <2>9 DEF Reached, Inherited
  <2>11. Gone'
    <3> SUFFICES ASSUME NEW x \in Actor, NEW i \in 1..Depth(x)', NEW d \in Context, Runs(x, i, d)',
                        NEW k \in children[d]
                 PROVE  Visits(x, i, k)' \/ Whole(k)'
      BY <1>4 DEF Gone
    <3>1. CASE x = a /\ i = n
      BY <2>4, <2>6, <3>1 DEF Visits
    <3>2. CASE ~(x = a /\ i = n)
      <4>1. i \in 1..Depth(x) /\ k \in Context
        BY <1>1, <2>5
      <4>2. Runs(x, i, d) /\ (Visits(x, i, k)' <=> Visits(x, i, k))
        BY <2>7, <3>2, <4>1
      <4>3. QED
        BY <2>8, <4>1, <4>2 DEF Reached, Gone
    <3>3. QED
      BY <3>1, <3>2
  <2>12. QED
    BY <2>10, <2>11 DEF Reached
<1>7. QED
  BY <1>4, <1>5, <1>6

(* A thread that has a context finds it done once one above is done, and   *)
(* the cancel() of that one has returned: cancel() went through all its    *)
(* children, and each constructor that came later cancelled its own.       *)
THEOREM CancelReaches == CtxSpec => []Reaches
<1>1. ASSUME CtxInit PROVE Reached
  <2>1. TypeOK /\ \A a \in Actor : Depth(a) = 0
    <3>1. TypeOK
      BY <1>1, IInvInit DEF IInv
    <3>2. QED
      BY <1>1, <3>1, FramesTyped DEF CtxInit, TypeOK, Types, Idle
  <2>2. \A c \in Context : children[c] = {}
    BY <1>1 DEF CtxInit
  <2>3. QED
    BY <2>1, <2>2 DEF Reached, Inherited, Gone
<1>2. ASSUME IInv, IInv', Reached, [CtxNext]_vars PROVE Reached'
  <2>1. ASSUME NEW a \in Actor, Resume(a) PROVE Reached'
    BY <1>2, <2>1, AddChildReaches, EnterCancelReaches, CancelChildReaches, UnlockReaches, CalmSteps
    DEF Resume
  <2>2. QED
    BY <1>2, <2>1, CalmSteps DEF CtxNext
<1>3. ASSUME IInv, Reached PROVE Reaches
  <2> SUFFICES ASSUME NEW c \in Context, NEW t \in Thread, c \in held[t],
                      NEW b \in Above(c), b \in done, Free(b), c \notin done
               PROVE  FALSE
    BY DEF Reaches, Above
  <2> DEFINE attached(d) == base[d] = NoBase \/ d \in children[base[d]]
             cs == {d \in Context : life[d] = "live" /\ ~Whole(d) /\ ~Adding(d) /\ attached(d)}
  <2>1. base \in [Context -> Context \union {NoBase}] /\ Thread \subseteq Actor
    BY <1>3 DEF IInv, TypeOK, ContextOK, Actor
  <2>2. ASSUME NEW d \in Context, ~Alone(d), life[d] = "live"
        PROVE  ~Adding(d) /\ attached(d)
    <3>1. \A a \in Thread : ~Owns(a, d)
      BY <1>3, <2>2 DEF IInv, Owning, Owned
    <3>2. ~Adding(d)
      <4>1. \A a \in Actor : Depth(a) \in Nat
        BY <1>3, FramesTyped DEF IInv, TypeOK, Types
      <4>2. QED
        BY <2>1, <3>1, <4>1 DEF Adding, Owns, Outermost
    <3>3. attached(d)
      BY <1>3, <2>2, <3>1 DEF IInv, Forest, Bases, Owns, Outermost
    <3>4. QED
      BY <3>2, <3>3
  <2>3. HasBases(cs)
    <3> SUFFICES ASSUME NEW d \in cs, base[d] # NoBase PROVE base[d] \in cs
      BY DEF HasBases
    <3>1. base[d] \in Context /\ d \in children[base[d]] /\ life[base[d]] = "live"
      BY <1>3, <2>1 DEF IInv, Forest, Bases
    <3>2. ~Alone(base[d])
      BY DEF Alone
    <3>3. ~Whole(base[d])
      BY <1>3, <3>1 DEF Reached, Inherited
    <3>4. QED
      BY <2>2, <3>1, <3>2, <3>3
  <2>4. c \in cs
    <3>1. ~Alone(c) /\ life[c] = "live" /\ ~Whole(c)
      BY <1>3 DEF Alone, Whole, IInv, Forest, HeldLive
    <3>2. QED
      BY <2>2, <3>1
  <2>5. b \in cs
    <3>1. base[c] \in cs \union {NoBase}
      BY <2>3, <2>4 DEF HasBases
    <3>2. cs \in SUBSET Context
      OBVIOUS
    <3> HIDE DEF cs
    <3>3. QED
      BY <2>3, <3>1, <3>2 DEF Above
  <2>6. QED
    BY <1>3, <2>5, FreeWhole DEF Free
<1>4. QED
  BY <1>1, <1>2, <1>3, Invariant, PTL DEF CtxSpec

-----------------------------------------------------------------------------
\* What the tree of contexts promises.

(* A step changes what Cancellation speaks of in the way it allows.        *)
LEMMA StepImplements ==
  ASSUME IInv, [CtxNext]_vars
  PROVE  [Promise!Next]_(Promise!context)
<1>1. TypeOK /\ Types /\ NoBase \notin Context /\ Context \subseteq Actor /\ Thread \subseteq Actor
  BY CancellationAssumption DEF IInv, TypeOK, Types, Actor
<1>2. \A c \in Context : life[c] = "live" => Promise!Live(c)
  BY <1>1 DEF Promise!Live
<1>3. ASSUME UNCHANGED <<base, life, done, asked, expired>>
      PROVE  UNCHANGED Promise!context
  BY <1>3 DEF Promise!context
<1>4. ASSUME NEW c \in Context, life[c] = "live", asked' \union expired' = (asked \union expired) \union {c},
             UNCHANGED <<base, life, done>>
      PROVE  Promise!Next \/ UNCHANGED Promise!context
  <2>1. CASE c \in asked \union expired
    BY <1>4, <2>1 DEF Promise!context
  <2>2. CASE c \notin asked \union expired
    BY <1>2, <1>4, <2>2 DEF Promise!Next, Promise!Ask
  <2>3. QED
    BY <2>1, <2>2
<1>5. ASSUME NEW t \in Thread, Begin(t) PROVE Promise!Next \/ UNCHANGED Promise!context
  <2>1. PICK c \in Context :
          \/ \E b \in Context \union {NoBase}, timeout \in BOOLEAN : New(t, c, b, timeout)
          \/ AskCancel(t, c) \/ Let(t, c)
    BY <1>5 DEF Begin
  <2>2. ASSUME NEW b \in Context \union {NoBase}, NEW timeout \in BOOLEAN, New(t, c, b, timeout)
        PROVE  Promise!Next
    <3>1. b = NoBase \/ Promise!Live(b)
      BY <1>2, <2>2 DEF New, IInv, Forest, HeldLive
    <3>2. /\ life[c] = "unborn" /\ base' = [base EXCEPT ![c] = b]
          /\ life' = [life EXCEPT ![c] = "live"]
          /\ UNCHANGED <<done, asked, expired>>
      BY <2>2 DEF New
    <3>3. Promise!Create(c, b)
      BY <3>1, <3>2 DEF Promise!Create
    <3>4. QED
      BY <3>3 DEF Promise!Next
  <2>3. CASE AskCancel(t, c)
    <3>1. life[c] = "live" /\ asked' = asked \union {c} /\ UNCHANGED <<base, life, done, expired>>
      BY <2>3 DEF AskCancel, IInv, Forest, HeldLive
    <3>2. QED
      BY <1>4, <3>1
  <2>4. CASE Let(t, c)
    BY <1>3, <2>4 DEF Let, context
  <2>5. QED
    BY <2>1, <2>2, <2>3, <2>4
<1>6. ASSUME NEW a \in Actor, EnterCancel(a) PROVE Promise!Next \/ UNCHANGED Promise!context
  <2>1. PICK n, c : n = Depth(a) /\ c = Target(a, n)
    OBVIOUS
  <2>2. In(a, "cancel")
    BY <1>6 DEF EnterCancel
  <2>3. n \in 1..Depth(a) /\ Step(a, n) = "cancel" /\ Top(a).ctx = c /\ c \in Context
    BY <1>1, <2>1, <2>2, InnermostCall
  <2>4. life[c] = "live"
    BY <2>1, <2>3, FramesLive
  <2>5. CASE c \in done
    BY <1>3, <1>6, <2>3, <2>5 DEF EnterCancel
  <2>6. CASE c \notin done
    <3>1. done' = done \union {c} /\ UNCHANGED <<base, life, asked, expired>>
      BY <1>6, <2>3, <2>6 DEF EnterCancel
    <3>2. c \in asked \union expired \/ base[c] \in done
      BY <2>1, <2>3, <2>6 DEF IInv, Wanted
    <3>3. Promise!Finish(c)
      BY <1>2, <2>3, <2>4, <2>6, <3>1, <3>2 DEF Promise!Finish
    <3>4. QED
      BY <2>3, <3>3 DEF Promise!Next
  <2>7. QED
    BY <2>5, <2>6
<1>7. ASSUME NEW a \in Actor, Destructor(a) PROVE Promise!Next \/ UNCHANGED Promise!context
  <2>1. In(a, "dtor")
    BY <1>7 DEF Destructor
  <2>2. Top(a).ctx \in Context /\ life[Top(a).ctx] = "live"
    BY <1>1, <2>1, InnermostCall, FramesLive
  <2>3. asked' = asked \union {Top(a).ctx} /\ UNCHANGED <<base, life, done, expired>>
    BY <1>7 DEF Destructor
  <2>4. QED
    BY <1>4, <2>2, <2>3
<1>8. ASSUME NEW a \in Actor, DelChild(a) PROVE Promise!Next
  <2>1. In(a, "del")
    BY <1>8 DEF DelChild
  <2>2. PICK c : c = Top(a).ctx
    OBVIOUS
  <2>3. /\ Depth(a) \in Nat \ {0} /\ Step(a, Depth(a)) = "del" /\ Target(a, Depth(a)) = c
        /\ c \in Context
    BY <1>1, <2>1, <2>2, InnermostCall
  <2>4. Depth(a) = 1 /\ a \in Thread
    BY <2>3 DEF IInv, Calling, Shape
  <2>5. life[c] = "live" /\ Alone(c)
    BY <2>3, <2>4 DEF IInv, Owning, Owned, Owns, Outermost
  <2>6. life' = [life EXCEPT ![c] = "gone"] /\ UNCHANGED <<base, done, asked, expired>>
    BY <1>8, <2>2 DEF DelChild
  <2>7. \A k \in Context : base[k] = c => ~Promise!Live(k)
    BY <2>5 DEF Alone, Promise!Live
  <2>8. Promise!Destroy(c)
    BY <1>2, <2>3, <2>5, <2>6, <2>7 DEF Promise!Destroy
  <2>9. QED
    BY <2>3, <2>8 DEF Promise!Next
<1>9. ASSUME NEW a \in Actor, Resume(a) PROVE Promise!Next \/ UNCHANGED Promise!context
  <2>1. CASE AddChild(a)
    BY <1>3, <2>1 DEF AddChild, context
  <2>2. CASE CancelChild(a)
    BY <1>3, <2>2 DEF CancelChild, context
  <2>3. CASE Unlock(a)
    BY <1>3, <2>3 DEF Unlock, context
  <2>4. CASE Join(a)
    BY <1>3, <2>4 DEF Join, context
  <2>5. CASE \E u \in Thread : Start(a, u)
    BY <1>3, <2>5 DEF Start, context
  <2>6. CASE TaskWakes(a)
    BY <1>3, <2>6 DEF TaskWakes, context
  <2>7. QED
    BY <1>6, <1>7, <1>8, <1>9, <2>1, <2>2, <2>3, <2>4, <2>5, <2>6 DEF Resume
<1>10. ASSUME NEW c \in Context, Deadline(c) PROVE Promise!Next \/ UNCHANGED Promise!context
  <2>1. life[c] = "live" /\ expired' = expired \union {c} /\ UNCHANGED <<base, life, done, asked>>
    BY <1>10 DEF Deadline, context
  <2>2. QED
    BY <1>4, <2>1
<1>11. ASSUME UNCHANGED vars PROVE UNCHANGED Promise!context
  BY <1>3, <1>11 DEF vars, context
<1>12. QED
  BY <1>5, <1>9, <1>10, <1>11 DEF CtxNext

(* The locks and the threads of the contexts implement Cancellation: a     *)
(* context is done only when somebody asked for it or its base is done,    *)
(* and is destroyed only after all that were made from it.                 *)
THEOREM ImplementsCancellation == CtxSpec => Implements
<1>1. CtxInit => Promise!Init
  BY DEF CtxInit, Init, Promise!Init
<1>2. IInv /\ [CtxNext]_vars => [Promise!Next]_(Promise!context)
  BY StepImplements
<1>3. QED
  BY <1>1, <1>2, Invariant, PTL DEF CtxSpec, Implements, Promise!Spec

================================================================================
