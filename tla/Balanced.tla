------------------------------ MODULE Balanced ------------------------------
(***************************************************************************)
(* The search engine of lazyparam_prover/engine/balanced.h.  Div keeps a   *)
(* stack of saved alternatives; step() pops one, restores the allocator    *)
(* and the search state to it and works on the first spec of its           *)
(* continuation.  The engine knows nothing of tableaux: a task is a        *)
(* closure that either fails, offers alternatives (or_) or asks for        *)
(* several tasks (and_ ... done).  What a task does is the constant Run.   *)
(*                                                                         *)
(* A budget of "nodes" is shared by the tasks of a task set so that no     *)
(* division of it is tried twice: either the first task takes at most its  *)
(* share, or it takes more and the others are left with the rest.          *)
(*                                                                         *)
(* The definitions named Bad... are plausible mistakes, each of which one  *)
(* of the properties tells from the code.                                  *)
(***************************************************************************)
EXTENDS Integers, Sequences, SequencesExt

CONSTANTS
  Task,          \* the closures handed to or_() and and_()
  Val,           \* the search state except for nodes_used
  Run(_, _, _, _),  \* Run(t, n, v, m): what task t does in a state with
                    \* nodes_used = n and the rest v, when size_limit = m
  Need(_),       \* the nodes task t allocates before it can look at the limit
  Starts,        \* the tasks a search may start with
  StartVals,     \* the states a search may start with
  Limits,        \* the size limits a search may be given
  MaxLimit,      \* bound on them
  Cuts           \* the values the flag cut may be given

VARIABLES
  saves,   \* Div::saves, the last one on top
  state,   \* SearchState
  brk,     \* the top of the allocator A; a list node takes one unit
  limit,   \* the size_limit the engine was built with
  cut,     \* the flag Div::cut
  won      \* what the last step() returned

vars == <<saves, state, brk, limit, cut, won>>
-----------------------------------------------------------------------------
(* "trail" stands for clauses_used: the and-tasks run so far.              *)
State == [nodes_used : Nat, val : Val, trail : SUBSET Task]

CheckMin == [kind : {"checkmin"}, min : Nat]
OneTask  == [kind : {"task"}, task : Task, min : Nat, max : Nat]
TaskSet  == [kind : {"taskset"}, tasks : Seq(Task), max : Nat]
Spec_    == CheckMin \cup OneTask \cup TaskSet

(* A List<Spec>, first node first; "at" is the address of the node.        *)
Cont == Seq([at : Nat, spec : Spec_])

Save == [cont : Cont, ss : State, As : Nat]

Outcome == [kind : {"fail", "or", "and"}, nodes : Nat, val : Val, tasks : Seq(Task)]

(* What the engine expects of the outcome r of a task that has run with n  *)
(* nodes used and the limit m: it stays within the limit, offers only      *)
(* alternatives there is room for, and the tasks it asks for look at the   *)
(* limit themselves;                                                       *)
OutcomeFits(r, n, m) ==
  /\ r \in Outcome
  /\ n + r.nodes <= m
  /\ r.kind = "or" => \A i \in 1..Len(r.tasks) : n + r.nodes + Need(r.tasks[i]) <= m
  /\ r.kind = "and" => \A i \in 1..Len(r.tasks) : Need(r.tasks[i]) = 0

(* and of the task t, if there is room for what it needs.                  *)
TaskFits(t, n, v, m) ==
  /\ Need(t) \in Nat
  /\ n + Need(t) <= m => OutcomeFits(Run(t, n, v, m), n, m)

ASSUME EngineAssumption ==
  /\ MaxLimit \in Nat /\ Limits \subseteq 0..MaxLimit /\ Cuts \subseteq BOOLEAN
  /\ Starts \subseteq Task /\ StartVals \subseteq Val
  /\ \A t \in Starts : Need(t) \in Nat /\ \A l \in Limits : Need(t) <= l
-----------------------------------------------------------------------------
OneTaskSpec(t, min, max) == [kind |-> "task", task |-> t, min |-> min, max |-> max]
TaskSetSpec(ts, max) == [kind |-> "taskset", tasks |-> ts, max |-> max]
CheckMinSpec(min) == [kind |-> "checkmin", min |-> min]

(* List::add at allocator top b.                                           *)
Add(cont, spec, b) == <<[at |-> b, spec |-> spec]>> \o cont

(* List::pointer_equal: the first nodes have the same address.             *)
PointerEqual(c, d) ==
  \/ c = <<>> /\ d = <<>>
  \/ c # <<>> /\ d # <<>> /\ Head(c).at = Head(d).at

(* The last n nodes of a list.                                             *)
Suffix(c, n) == SubSeq(c, Len(c) - n + 1, Len(c))

(* The saved continuation c passes through the list cont.                  *)
Through(c, cont) == Len(c) >= Len(cont) /\ PointerEqual(Suffix(c, Len(cont)), cont)

BadKeptDropsOne(svs, cont) ==
  IF cut /\ svs # <<>> /\ Through(Last(svs).cont, cont) THEN Front(svs) ELSE svs

(* The first half of Div::save: with cut, the alternatives on top of the   *)
(* stack that would come back to cont are given up.                        *)
Kept(svs, cont) ==
  IF cut
  THEN SubSeq(svs, 1, CHOOSE k \in 0..Len(svs) :
         /\ k = 0 \/ ~ Through(svs[k].cont, cont)
         /\ \A j \in k + 1 .. Len(svs) : Through(svs[j].cont, cont))
  ELSE svs

BadSavedBeforeAdd(svs, cont, ss, b) ==
  Append(Kept(svs, cont), [cont |-> cont, ss |-> ss, As |-> b - 1])

Saved(svs, cont, ss, b) ==
  Append(Kept(svs, cont), [cont |-> cont, ss |-> ss, As |-> b])

(* The saves of a new Div: the start task alone, with the whole limit.     *)
Started(t, l, ss, b) ==
  <<[cont |-> Add(<<>>, OneTaskSpec(t, 0, l), b), ss |-> ss, As |-> b + 1]>>
StartState(v) == [nodes_used |-> 0, val |-> v, trail |-> {}]

Init ==
  \E t \in Starts, v \in StartVals, l \in Limits, c \in Cuts :
    /\ limit = l /\ cut = c
    /\ state = StartState(v)
    /\ saves = Started(t, l, state, 0)
    /\ brk = 1
    /\ won = FALSE
-----------------------------------------------------------------------------
(* The cases of Div::step.  Each starts with the pop of the last save and  *)
(* the restore of A and of the state; the others work on the first spec.   *)
Top == Last(saves)
Rest == Front(saves)
First == Head(Top.cont).spec
Later == Tail(Top.cont)
nodes == Top.ss.nodes_used

Popped(kind) ==
  /\ saves # <<>>
  /\ Top.cont # <<>> /\ First.kind = kind
  /\ won' = FALSE
  /\ UNCHANGED <<limit, cut>>

(* The step changes nothing but the stack.                                 *)
Leave(svs) == saves' = svs /\ state' = Top.ss /\ brk' = Top.As

(* Nothing left to do: a derivation has been found.                        *)
Succeed ==
  /\ saves # <<>> /\ Top.cont = <<>>
  /\ Leave(Rest)
  /\ won' = TRUE
  /\ UNCHANGED <<limit, cut>>

CheckMinFails ==
  /\ Popped("checkmin") /\ nodes < First.min
  /\ Leave(Rest)

CheckMinHolds ==
  /\ Popped("checkmin") /\ nodes >= First.min
  /\ Leave(Saved(Rest, Later, Top.ss, Top.As))

TaskTooBig ==
  /\ Popped("task") /\ nodes + First.min > First.max
  /\ Leave(Rest)

(* The continuation the Proxy gets: a task with a lower bound is followed  *)
(* by the check of it.                                                     *)
ProxyCont ==
  IF First.min > 0 THEN Add(Later, CheckMinSpec(nodes + First.min), Top.As) ELSE Later
ProxyBrk == IF First.min > 0 THEN Top.As + 1 ELSE Top.As

Ran == Run(First.task, nodes, Top.ss.val, First.max)

(* What a run of that kind with the outcome r leaves the search state in.  *)
After(kind, r) ==
  [nodes_used |-> nodes + r.nodes, val |-> r.val,
   trail |-> IF kind = "and" THEN Top.ss.trail \cup {First.task} ELSE Top.ss.trail]

Running(kind) ==
  /\ Popped("task") /\ nodes + First.min <= First.max
  /\ Ran.kind = kind
  /\ state' = After(kind, Ran)

TaskFails ==
  /\ Running("fail")
  /\ saves' = Rest /\ brk' = ProxyBrk

(* One Proxy::or_ per alternative; only the first can come upon a save     *)
(* that is not an alternative of the same task.                            *)
Offer(ts) ==
  /\ LET alt(i) == [cont |-> Add(ProxyCont, OneTaskSpec(ts[i], 0, First.max), ProxyBrk + i - 1),
                    ss |-> state', As |-> ProxyBrk + i]
     IN saves' = IF ts = <<>> THEN Rest
                 ELSE Kept(Rest, alt(1).cont) \o [i \in 1..Len(ts) |-> alt(i)]
  /\ brk' = ProxyBrk + Len(ts)

TaskOffers == Running("or") /\ Offer(Ran.tasks)

(* Proxy::and_ pushes in front, so done() saves the tasks last one first.  *)
TaskAsks ==
  /\ Running("and")
  /\ saves' = Saved(Rest, Add(ProxyCont, TaskSetSpec(Reverse(Ran.tasks), First.max), ProxyBrk),
                    state', ProxyBrk + 1)
  /\ brk' = ProxyBrk + 1

BadSetDoneKeepsHead ==
  /\ Popped("taskset") /\ First.tasks = <<>>
  /\ Leave(Saved(Rest, Top.cont, Top.ss, Top.As))

SetDone ==
  /\ Popped("taskset") /\ First.tasks = <<>>
  /\ Leave(Saved(Rest, Later, Top.ss, Top.As))

budget == First.max - nodes
BadHeadBudgetOfAll == First.max \div Len(First.tasks)
head_budget == budget \div Len(First.tasks)
others == Tail(First.tasks)
BadCanTakeMoreStrict == others # <<>> /\ head_budget + 1 < budget
CanTakeMore == others # <<>> /\ head_budget < budget

BadShareContAlone ==
  Add(Later, OneTaskSpec(Head(First.tasks), 0, nodes + head_budget), Top.As)

(* The first task takes at most its share and the others the whole rest.   *)
ShareCont ==
  LET c == IF others = <<>> THEN Later ELSE Add(Later, TaskSetSpec(others, First.max), Top.As)
  IN Add(c, OneTaskSpec(Head(First.tasks), 0, nodes + head_budget), Top.As + Len(c) - Len(Later))
ShareBrk == Top.As + Len(ShareCont) - Len(Later)

BadMoreContOverlaps ==
  Add(Add(Later, OneTaskSpec(Head(First.tasks), head_budget, First.max), ShareBrk),
      TaskSetSpec(others, First.max - (head_budget + 1)), ShareBrk + 1)

(* The first task takes more than its share, after the others.             *)
MoreCont ==
  Add(Add(Later, OneTaskSpec(Head(First.tasks), head_budget + 1, First.max), ShareBrk),
      TaskSetSpec(others, First.max - (head_budget + 1)), ShareBrk + 1)

SetSplits ==
  /\ Popped("taskset") /\ First.tasks # <<>>
  /\ LET share == Saved(Rest, ShareCont, Top.ss, ShareBrk) IN
     IF CanTakeMore
     THEN saves' = Saved(share, MoreCont, Top.ss, ShareBrk + 2) /\ brk' = ShareBrk + 2
     ELSE saves' = share /\ brk' = ShareBrk
  /\ state' = Top.ss

Next ==
  \/ Succeed
  \/ CheckMinFails \/ CheckMinHolds
  \/ TaskTooBig \/ TaskFails \/ TaskOffers \/ TaskAsks
  \/ SetDone \/ SetSplits

Spec == Init /\ [][Next]_vars

(* search() calls step() as long as there are saves and none has returned  *)
(* true.  Here it goes on, so as to see all that could be found.           *)
FairSpec == Spec /\ WF_vars(Next)
-----------------------------------------------------------------------------
(* The stack, the state and the allocator of Div keep their types: no      *)
(* nodes_used below zero, no save without its state.                       *)
TypeOK ==
  /\ saves \in Seq(Save)
  /\ state \in State
  /\ brk \in Nat
  /\ limit \in Limits
  /\ cut \in BOOLEAN
  /\ won \in BOOLEAN

(***************************************************************************)
(* What the engine relies on: the task that is about to run keeps its side *)
(* of the contract.  The engine owes it the room it needs.                 *)
(***************************************************************************)
FrameFits ==
  saves # <<>> /\ Top.cont # <<>> /\ First.kind = "task" /\ nodes + First.min <= First.max =>
    TaskFits(First.task, nodes, Top.ss.val, First.max)

(***************************************************************************)
(* The unsigned subtractions of step() ("sts->max-state->nodes_used" and   *)
(* "sts->max-(head_budget+1)") never wrap: whatever is still to be done in *)
(* a saved continuation has a maximum that the nodes used already respect, *)
(* the maxima grow along the continuation, and none exceeds the size       *)
(* limit of the search.                                                    *)
(***************************************************************************)
RoomLeft ==
  \A i \in 1..Len(saves) :
    LET cont == saves[i].cont
        bounded == {p \in 1..Len(cont) : cont[p].spec.kind # "checkmin"}
    IN /\ saves[i].ss.nodes_used <= limit
       /\ \A p \in bounded : /\ saves[i].ss.nodes_used <= cont[p].spec.max
                            /\ cont[p].spec.max <= limit
       /\ \A p, q \in bounded : p < q => cont[p].spec.max <= cont[q].spec.max

(***************************************************************************)
(* The allocator is rewound at every step, so addresses are used again.    *)
(* Still pointer_equal means equal lists: two saved continuations with a   *)
(* node at the same address share that node and all that follows it, and   *)
(* no save can be popped that would free a node of a save below it.        *)
(***************************************************************************)
NoAlias ==
  /\ \A i, j \in 1..Len(saves) :
       \A p \in 1..Len(saves[i].cont), q \in 1..Len(saves[j].cont) :
         saves[i].cont[p].at = saves[j].cont[q].at =>
           Suffix(saves[i].cont, Len(saves[i].cont) - p + 1)
             = Suffix(saves[j].cont, Len(saves[j].cont) - q + 1)
  /\ \A i, j \in 1..Len(saves) : i <= j =>
       \A p \in 1..Len(saves[i].cont) : saves[i].cont[p].at < saves[j].As

(***************************************************************************)
(* With cut, what has been solved once stays solved that way: no           *)
(* alternative below a save leads back to the continuation of that save.   *)
(* In particular no alternative is left once a derivation is found.        *)
(***************************************************************************)
Committed ==
  cut => \A i, j \in 1..Len(saves) :
           i < j => ~ Through(saves[i].cont, saves[j].cont)

(***************************************************************************)
(* The search for derivations within the limit ends: step() cannot be      *)
(* called forever.                                                         *)
(***************************************************************************)
Terminates == <>(saves = <<>>)
=============================================================================
