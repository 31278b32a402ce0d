# Verification of tptp_benchmark_go

The repository holds an automated theorem prover for clausal first-order logic
(`src/lazyparam_prover`, C++), wrappers around other provers (leancop, vampire,
E), a Haskell parser and proof validator, and a benchmark that runs any of them
on the TPTP and MPTP problem sets: a service of proving workers
(`src/cloud/worker`) and a master (`src/cloud/master`), in Go.

This directory models the parts with a behaviour of their own: how the prover
transforms equality, searches, backtracks, stays within its limits and accounts
for its proofs, how these are validated, and how the benchmark stays whole when
calls are lost and workers replaced. `PROJECT.json` maps every
definition to the lines it stands for.

    tlc -workers 2 -config MCBalanced.cfg MCBalanced      # model-check a run
    tlapm BalancedProofs.tla                              # check the proofs

## 1. Inventory

### The prover (one thread; `src/lazyparam_prover`)

| Component | State | Operations | Correct means |
|---|---|---|---|
| `memory/stack.h` `Stack` | blocks, `{begin,end,blocks_used}` | `alloc_bytes`, `save`, `restore` | live objects never overlap; a save keeps what was there |
| `memory/array.h` `RewindArray` | `data`, `diffs` | `set`, `resize`, `save`, `restore` | `restore` brings back the array that was saved |
| `memory/list.h` `List` | immutable nodes in the `Stack` | `add`, `tail`, `pointer_equal` | equal addresses mean equal lists |
| `engine/balanced.h` `Div`, `Proxy` | stack of saves, the search state, the allocator | `step`, `save`, `or_`, `and_`, `done` | every derivation within the limit once; no unsigned wrap; `cut` gives up no more than it says |
| `engine/engine.h` `iterative_deepening`, `balanced.h` `schedule` | limit, the saved state, two contexts | a search per limit, first with `cut` | each search starts afresh; the deadline is used and kept |
| `connection_tableau/frames` | none (closures over a branch) | `start`, `strong`, `weak` | a proof found is a proof; none within the limit is missed |
| `search_state.h`, `index.h` | clauses used, nodes used, the index | `allocate`, `get_matches` | nodes are paid for; filters lose nothing |
| `mgu.h`, `constrained_valuation.h`, `constraint.h` | the valuation and its undecided constraints | `mgu`, `unify`, `push_constraint` | no cycles; bindings and constraints mean what was asked |
| `lpo.h`, `kbo.h`, `fun_ord.h` | none | `cmp` | a reduction ordering |
| `eq_axioms.h`, `lpmod.h` | none | clauses to clauses | validity is kept; sources account for every clause |
| `lazy_paramodulation/frames`, `split.h` | the clauses to be built at the end | a second calculus, which rewrites with equations | a proof found is a proof |
| `derived.h`, `ground.h`, `parse.h`, `main.cc` | none | sources of a clause, grounding, output | what is printed is accepted by the validator |
| `engine/depth.h`, `controller.h` | | unused by `main.cc` | |
| parsers | none | | conversion of data |

`apply_trans()` rewrites the problem first. `schedule()` calls `iterative_deepening()`, this `search()`, this `Div::step`,
and this, through closures, the frames, which call the index, the valuation and
the constraints and answer through the `Proxy` (`or_`, `and_`, `done`).
Everything lives in the one `Stack` and the one `SearchState`, and both are
restored at each step: the hard part is that state is undone rather than copied
(the log of the array, the addresses that are used again, the budget that is
divided so that nothing is tried twice).

### The processes around it (`src/utils`, the drivers)

| Component | State | Operations | Correct means |
|---|---|---|---|
| `utils/ctx.h` `Ctx` | `mtx`, `children`, the promise, `timeout_task` | constructors, `cancel`, `wait`, destructors | cancelling reaches all descendants, no lock cycle, nothing used after its end |
| `utils/sys.h` `subprocess` | a process, two pipes, three threads | write, read, `waitpid`, kill at the end of the context | all the output, the call ends, only the subprocess is killed |
| `utils/limit.go`, `limit.cc` | a process group | run under a memory limit | killed once, and only this |
| `tableau.go`, `leancop`, `vampire`, `eprover` | none | convert, run, classify the exit | solved, not solved and error are told apart; they return |
| `leancop/prolog.go` | a schedule of option sets | run each for its share of the time | the first proof ends it, a share that is over does not, nor is the deadline an error |
| `tool`, `tptp_parser` (Haskell) | none | parse, `ValidateProof` | accepts exactly the proofs |

### The benchmark (`src/cloud`)

| Component | State | Operations | Correct means |
|---|---|---|---|
| `worker.go` `server` | `sem`, `commit` | `Prove` | one prover at a time; only its own commit |
| `master.go` `run` | goroutines, `inFlightSem`, `processSem`, `resultsChan`, the report, `gCtx` | a goroutine per problem, a collector | the report is whole and of one revision; the slots are kept and given back; it ends |
| `push.go`, problem sets, reports | files, the cloud | | input and output |

The master calls the workers by gRPC; calls may be lost, an instance may be
replaced, and a worker goes on with a call nobody waits for any more. An error
of any goroutine cancels the context they share.

The hazards, each with its line and the properties meant to catch it, are the
list `hazards` of `PROJECT.json`.

## 2. The modules

    Snapshots  <== RewindArray <-- RewindArrayProofs     (<== implements)
    StackAlloc <-- StackAllocProofs
    Balanced   <-- Schedule (extends) <-- BalancedProofs
    Balanced   <-- AndOrTrees (extends) <-- MCBalanced
    AndOrTrees, Schedule <-- TreeSchedule <-- AndOrTreesProofs (with BalancedProofs)
    Terms      <-- Valuation <-- MCValuation
    Terms      <-- Validator <-- Equality <-- Search <-- Tableau, LazyParamodulation
                                 Equality <-- MCEquality
    Tableau, LazyParamodulation, Schedule <-- Prover <-- MCProver
    Worker     <-- Master (extends) <-- MasterProofs, MCMaster
    Cancellation <== Ctx <-- CtxProofs, MCCtx
    Cancellation <-- Subprocess (extends) <-- SubprocessProofs, MCSubprocess
    Drivers    <-- DriversProofs

Definitions whose name begins with `Bad` are plausible mistakes; each is a
variant of the definition after it and no part of the model. They are listed
as `mutants`, and each makes the property named there fail.

**Snapshots, RewindArray.** `Snapshots` is what an undoable array promises: an
array with a stack of whole copies. `RewindArray` is the code: cells, the log
`diffs`, and saves that are two sizes. `Drop` is the caller giving up its
latest save: `mgu` does when it succeeds, the engine when it pops. Sizes of the
array and of the stack of saves are bounded by `MaxSize` and `MaxSaves`.

**StackAlloc.** Addresses are a block and an offset; an object is its extent.
`live` is a history of what was allocated and not given up, which the code does
not keep but relies on.

**Balanced.** One action per branch of `Div::step`; each begins with the pop and
the two restores (`Leave`, `Running`). A task is any closure: `Run` says whether
it fails, offers or asks, how many nodes it used and what it left in the state,
and `Need` how many it uses before it can look at `size_limit`. `FrameFits`
is the contract between engine and frames, which the code states nowhere: the task
that would run next keeps within the limit, and what it offers has room. It is a
property of a state, since the frames keep it only in states the prover gets to; the
run `prover` checks it of them. List nodes carry the address `at` the bump allocator gave them, which is
what `pointer_equal` compares and what makes `cut` delicate; `brk` is the number
of nodes below the top of the allocator. Unlike `search()`, the model goes on
after a derivation has been found, to see all that could be.

**Schedule.** The loops around the engine, for any frames, as the templates of the
code: `iterative_deepening()` with its limit and the pair of saves `mark`, and
`schedule()`, which calls it with `cut` and again without. `Deepen` is the top of
the loop with the constructor of `Div`, `Step` a step of `Div` with the return of
what it found, `Abandon` the bottom of the loop, `TimeOut` the end of one of the two
calls. The two deadlines are a clock with values 0, 1 (the first context is done) and 2
(the second too).

**AndOrTrees, MCBalanced.** The TODO above `search()` asks for a test of it on
random trees, "to make sure that is doesn't skip any part of search space".
`AndOrTrees` is that test for every tree: a goal may be closed by any of its
clauses, a clause has a cost, asks constraints of the shared state (`Solvable`
says which sets of them have a solution) and has goals in turn. `RunsTree` is what
the weak and the strong frame do on it; `TreesAssumption` (`Trees`) says what a tree
is, `Closings` what closes one, and `Derivations` which of these are within a limit
and solvable, without any order. `found` is a history of what step() returned true
for. `MCBalanced` has a family of trees, on which TLC evaluates the assumption.

**Terms.** Terms, atoms and clauses as trees, with what the prover does to
them: evaluation, `Mgu` with the occurs check, the two orders as `lpo.h` and
`kbo.h` compute them (`Lpo`, `Kbo`), order constraints with their prefix of pairs
found equal (`Reduce`), `Unify` and `PushConstraints`, which fail or leave a
valuation with its open constraints. The occurs check is kept where the code
has it, in `Assign`; a term that contains itself would make TLC recurse for ever.

**Valuation.** One action per call of the object `ConstrainedValuation`;
`history` is what has been asked of it since the start. `Save` and `Restore` are those
of the object, bindings and constraints; a restore goes back to the history of its save.

**Validator.** `DerAndClause` is a clause with its sources and constraints;
`ProtoProof` grounds the clauses of a derivation; the rest is `tool validate`:
each source is an instance of a clause of the problem or an axiom of equality
(`Classified`), and no interpretation makes all of them false
(`CounterExample`, the search of `Valid.hs` with its two ways to set an atom).

**Equality.** `ApplyTrans` is `apply_trans()`: the axioms of equality,
`Flatten...` with its variables for subterms, the restricted transitivity with
its three kinds of equation, and `Conv` of `lpmod.h`. Each yields clauses with
sources, which the output is made of.

**Search.** The index (order of clauses, precomputed matches, the filter of
`next()`), `Allocate`, `Branch` and `BranchSet`: what both calculi share, as
functions of the search state. The fallback of the index for an atom with more
than a hundred candidates (`index.h:145`) is left out.

**Tableau, LazyParamodulation.** The frames. A frame is a task, and `RunX` says
what it does: fail, offer tasks or ask for them, with the nodes it uses and the
state it leaves. Closures become records with the variables they capture. A
lazy clause is kept as the path and the terms it will be built from and is
built (`Forced`) only for a proof, as in `get_proof()`.

**TreeSchedule.** Schedule on AND-OR trees: each search has its own `found`. It says
what the searches mean for one another: that the limit is raised only when nothing
is left below it (`Exhausted`), and that what is returned at last is a cheapest
derivation (`Cheapest`). No run is about it: both are theorems.

**Prover.** `main()`: `ApplyTrans`, then Schedule with the frames of the chosen method
as tasks, then the proof. Its definitions are what `MCProver.cfg` gives to the
constants of Schedule.

**Worker, Master.** `Worker` is `Prove()` on several instances with the network:
handlers, the semaphore, the checks at the start, loss of a call, replacement
of an instance. `Master` has the goroutine of each problem as a program counter,
the collector, the channel and the two semaphores. `group.Wait()` is `Wait`;
cancellation is `canceled`. A goroutine reads `gCtx` where the code does: in
`Acquire`, in `select` and in the call. `processSem` has weight `MaxProcess` (100 in the
code) and the channel capacity `ChanSize` (1000). `refused` are the problems for which
`TptpHasEquality` never succeeds.

**Cancellation, Ctx.** `Cancellation` is what contexts promise: one is done
only when it was asked or its base is done, and outlives those made from it.
`Ctx` is the code. Each thread, those of the timeouts included, has a stack of
the member functions it is in (`stack`, the innermost last), and each action is what happens between
two points where a thread may have to wait: the lock of `add_child`, `cancel` or
`del_child`, and `timeout_task.wait()`. `held` are the copies of `Ptr` and
`Cancel`; the one who lets the last go runs the destructor. A context with a
background context as base has `NoBase`: a background context is never
cancelled, and nobody takes a second lock under its lock. Each `Cancel` is called once
at most (`asked`): a second call waits for the lock, finds the context done and returns.

**Subprocess.** `subprocess()` after the fork: the threads `twrite`, `tread`,
`tdone` and the caller (`main`), one action per system call, with the pipes as
counts of chunks and the process table as `child` and `status`. `Reaped` and
`Check` are the two `waitpid`. Of the contexts it uses `Cancellation` alone
(`Ask`, `Finish`, `Destroy`). The program that is run answers chunk by
chunk, or ends when it likes, or never.

**Drivers.** One call of `Prove()` of any of the drivers, chosen at the
start (`driver`): the conversion of `tableau.go`, then `RunWithMemLimit()` with
its goroutine `killer`, then the classification (`Vampire`, `Eprover`,
`Leancop`, `Tableau`) of how the prover `ended`. The fifth, "prolog", is the
schedule of `prolog.go`: `Strategies` runs one after the other, of which `stage`
are left with this one, each but the last with a context of its own (`slice`)
under that of the call; `ClassifyStrategy` and `RunFails` are its ways on. What a driver reads in an exit
status or in the output is one of `Endings`. The prover may start processes that
outlive it (`offspring`): `Wait()` waits for those that hold its output.

## 3. What is checked

| Run | Bounds | Properties |
|---|---|---|
| `rewind_array` | 2 values, 4 cells, 3 saves | `LogExact`: the log names the cells set. `SavesNested`: the DEBUG checks of `restore` cannot fail. `ImplementsSnapshots`: refinement of `Snapshots`. |
| `stack_alloc` | 3 blocks of 3 units, objects of 1 to 3, 3 saves | `Disjoint`: live objects do not overlap. `SavesKeep`: a save keeps what was there. |
| `balanced` | trees with 2 or 3 goals and two ways each, nested ones and degenerate ones; limits 1, 3, 4, 5, 8; with and without `cut` | `RoomLeft`: no subtraction wraps. `NoAlias`: addresses used again do not confuse `pointer_equal`. `Committed`: what cut leaves. `NothingTwice`, `Sound`, `NothingSkipped`: against the derivations by definition. `Terminates`. |
| `valuation` | two variables, a constant, a unary and a binary function, LPO and KBO over an order of functions that is not that of their ids, three calls or saves, restores | `Exact`: bindings and constraints kept mean just what was asked. `Ordered`: `cmp()` is the order of the definition, transitive, kept by contexts and instances. |
| `equality` | problems of one to three of 15 clauses, the five transformations; models of up to three elements (two if there is a function) | `KeepsValidity`: no axiom is missing or too strong (order constraints are left aside, so it says nothing of what they prune). `Justified`: each clause follows from its sources, and the validator knows these. `ValidatorExact`: it accepts ground clauses just when they are valid. |
| `prover` | connection tableau: all 255 sets of the 8 propositional clauses of one or two atoms over p and q (limit up to 4), 11 first-order problems (6), 11 with equality under each transformation (5, restricted transitivity 4); lazy paramodulation: the propositional sets of up to four clauses (4), the first-order problems (6) and those with equality (6) | `ProofSound`: the validator accepts what is printed. `FrameFits`: the frames keep the contract of the engine. `Paid`: no clause is used without its cost, and no equation by the lazy method for nothing. `NoCycles`. `StartsAfresh`: between two searches state and allocator are what the prover started with. `UsesItsTime`: no giving up before the deadline. `NothingMissed`: no valid propositional problem ends without a proof. `Returns`. |
| `prover_reflexivity` | one problem, LP modification | `ProofSound`: violated, see below. |
| `master` | 3 problems, any of which the tool may refuse, 2 instances, 2 slots, channel of 1, 1 fault | `OneProver`, `Throttled`, `ReportWhole`, `OneRevision`. `Ends`: it returns, unless a goroutine repeats for ever a call of the tool that always fails; that one holds up only those that wait for its unit. |
| `ctx` | 3 contexts in any tree, with and without timeouts, 2 threads besides those of the timeouts; symmetric threads | `Alive`: no member of a destroyed context is used. `Reaches`: a cancellation reaches every descendant. `NoDeadlock`: no threads wait for each other in a circle. `Implements`: refinement of `Cancellation`. |
| `subprocess` | 4 chunks each way through pipes of 1, with and without a deadline | `OutputWhole`: what is returned is all there was. `KilledInTime`: no kill before the end of the caller's context. `CallEnds`. |
| `drivers` | each of the five, a schedule of three strategies, any ending, processes that outlive the prover, deadline or cancellation at any point | `TimeoutIsUnsolved`: only a prover whose time is over is killed, and that is no error. `Returns`. `NothingLeft`: no process of the group survives. |
| `subprocess_kill` | as `subprocess` | `KillsOnlyTheSubprocess`: violated, see below. |

The type invariants of `RewindArray`, `Balanced`, `Master` (with `Worker`) and
`Subprocess` are theorems, that of `Drivers` is part of the invariant of its proof.

*Why the bounds are enough.* In `rewind_array` four cells and three saves let
cells be logged before, between and after nested saves, and a save be restored
after others were dropped. In `stack_alloc` objects that fill a block, that
leave a gap and that start a block all occur before and after restores across
blocks. The trees of `balanced` have shares of zero, shares with a remainder, a
first task that needs more than its share, sets that are divided twice, a
variable that makes choices conflict, and limits below, at and above the cost of
the derivations. In `valuation` two variables and three calls make variable chains, terms that
would contain themselves, constraints decided at once, later, or never, and
pairs found equal before others are. The clauses of `equality` have equations of both signs
between constants, variables and nested terms, equations that share a variable
with another atom, alone, in pairs and in threes, which is what makes
transitivity, symmetry and congruence necessary. Three elements tell constants apart. The propositional problems
of `prover` are all there are over two predicates, valid or not (with a limit of
4 every valid one has a proof); the first-order ones were chosen for shared
variables, two instances of one clause, variable chains, paths that do and do
not close, strong-only atoms and terms that would contain themselves; those with
equality for rewriting a goal, a clause, a variable, below a function, with an
equation of the problem and one of the branch. The run thus has the full program
on these inputs; in particular `NothingMissed` compares it with validity decided
by truth tables. In
`master` three problems contend for two slots and a channel of one. Two
instances, one perhaps of an earlier revision, and one fault at any point are
enough for a lost call that still runs while its retry meets a busy worker
(which answers `ResourceExhausted` and so ends the benchmark). The faults
cannot be unbounded: `Internal` and `Unavailable` are retried without limit, so
a prover that fails always would keep the master busy for ever. The tool that looks
for equality is retried without limit too, but there the failures that never end are
modelled: `refused` is any set of problems, chosen at the start, for which it fails
whenever it is called. One unit of `processSem` is enough for a goroutine that spins to
hold up others, two problems more for some to wait for it and some to be elsewhere.

In `ctx` three contexts make chains and pairs of siblings, two of them may have
timeouts at once with their threads, and a destructor can start those of all its
bases. In `subprocess` the input is more than both pipes hold together with
what the program has in hand, so that it must be read while it is written.

`CHECK_DEADLOCK FALSE` is set where the program ends: all runs but
`rewind_array` and `stack_alloc`. In `ctx` the last context may be
gone; `NoDeadlock` speaks of deadlock there.

### Fairness

* `Balanced`: the loop of `search()` goes on (`WF(Next)`).
* `Schedule`: time passes (`WF(Tick)`), and the program goes on with whatever it
  does outside of a step: the next search, its first step, the end of one. The
  number of further steps is left open, so nothing is assumed to be fast: that
  `Returns` holds rests on `search()` asking the context and on the two
  deadlines. The code asks every hundred steps, the model after any; a single
  step that never ended would be beyond the model.
* `Master`: strong fairness for each goroutine, as Go's scheduler runs every
  goroutine, the weighted semaphores serve in order and a channel serves blocked senders in
  order; weak fairness for the collector and for `Wait`. The step by which
  `TptpHasEquality` succeeds is one of the goroutine, so it is also assumed that the
  tool succeeds in the end for a problem that is not `refused`, if it is called often
  enough while `gCtx` is open; nothing is assumed for the others. For the service: calls
  are delivered, provers stop at their timeout, a roll-out is completed.

* `Subprocess`: threads are scheduled, deadlines pass, contexts keep their
  promise, and a program that is not stuck goes on unless a pipe blocks it.
  `CallEnds` asks for a deadline or a program that ends: `controller.h` runs its
  subprocess without a deadline.

* `Drivers`: the goroutines of Go are scheduled; the timeout of the request
  passes (`worker.go:53`, which sets one for every call, those of `prolog.go` at lines
  67-70 included; with a context that had no deadline its last strategy could run for
  ever); the commands of the conversion are killed with their context (`exec.CommandContext`). The prover
  itself owes nothing: it may run for ever.

### What was met on the way

* `lpmod.h:153`: an equation of two variables is unified away, and the instance
  of reflexivity this uses is not added to the sources. The proof printed for
  {X=Y, p}, {~p} is {x=x, p}, {~p}, which the validator refuses
  (`prover_reflexivity`). `Justified` allows for exactly this (`Equates`): such
  clauses follow from their sources and reflexivity. Every other clause of every
  transformation follows from its sources alone.
* The lazy method finds no proof of {s(a)}, {~s(b)}, {a#b} if b is greater
  than a. No document claims completeness, so `NothingMissed` asks for
  proofs of propositional problems only.
* `tableau.go:87`: a prover killed at the deadline, by the goroutine of
  `limit.go`, is reported as `Killed`, as if the kernel had killed it, while the
  other drivers report it as not solved.
* `tableau.go:45`: a deadline that passes in the conversion is wrapped, so line
  49 does not see it. The worker answers `Internal`, which the master retries.
* `tableau.go:86`, as `leancop.go`, assumes an `ExitError`: if the process cannot be started it
  panics (`StartFails`).

* `sys.h:137`: between the check that the subprocess still runs and `kill()`, it
  may exit and the other thread reap it; the pid is then free or another's
  (`subprocess_kill`).
* `sys.h:126`, `sys.h:34`: the comments at the end of `subprocess()` expect its
  tasks to end once the subprocess is killed. The task that waits for it calls
  `error()`, which ends the program, and the one that writes the input is sent
  `SIGPIPE`. A call whose context is over never returns; `CallEnds` counts the end
  of the program as its end.
* `limit.go:32`: the goroutine kills the group after `Wait()` has returned, too;
  if nothing is left of the group by then, its number may be another's.
* `derived.h:63`: `to_builder()` copies the shifted clauses and the shift, which then
  counts twice for a clause with an offset; the clauses it is called with in the
  transformations have none.

* `master.go:175` repeats `TptpHasEquality` until it succeeds. It never does once
  `gCtx` is done, nor for a problem the tool refuses or if its binary is missing, and
  `run()` hangs. The error is checked after the loop, but that `err` is the outer one
  (the loop shadows it) and never set. `Ends` excepts both cases (`Spins`) and says how
  far they reach: all other goroutines return, but for those that wait for a unit of
  `processSem` which such a one holds while `gCtx` is open.
* `master.go:227` sleeps four nanoseconds between retries.
* A worker answers `ResourceExhausted` while it still runs a call that was
  given up, and the master takes this for an error that ends everything. `ReportWhole` says that
  then no partial report is written.
* The checks `DEBUG if(...) error(...)` of `array.h` are compiled out; `SavesNested`
  and its proof show they cannot fail.

## 4. What is proved

For every value of the constants, by inductive invariants:

| Theorem | From | Argument |
|---|---|---|
| `RewindArrayProofs!TypeCorrect`, `LogCorrect`, `SavesCorrect` | `ArrayAssumption` | `Inv == TypeOK /\ LogExact /\ SavesNested` is inductive as a whole: a restore keeps the log exact because saves are nested, and saves stay nested because the log is exact. |
| `RewindArrayProofs!Refinement` | `ArrayAssumption` | Under `Inv` each operation maps to that of `Snapshots`: cells logged before a save keep their values, so the copy a save stands for (`CopyOf`) never changes. |
| `StackAllocProofs!NoOverlap`, `NothingLost` | `AllocAssumption` | Objects lie in order of allocation (`Ascending`), end below the top (`BelowTop`), and a save names a place between the objects it keeps and the later ones. |
| `BalancedProofs!TypeCorrect`, `RoomIsLeft` | `EngineAssumption`, `[]FrameFits` | `RoomLeft` is not inductive: when a task runs one must know that its nodes fit. `GoodStack` adds that only the first task of a continuation may use nodes before it looks at the limit (`Quiet`, `HeadFits`), and that maxima grow along it (`Bounds`), so that `CheckMin` and the two halves of a divided set keep room. |
| `BalancedProofs!AddressesTell` | `EngineAssumption`, `[]FrameFits` | `Layout`: nodes at one address share all that follows (`SameTail`), a continuation is laid out in order of allocation, and no save frees a node of one below it (`Clear`). What a frame adds is above all that is left. |
| `BalancedProofs!CutCommits` | the same | `Committed` needs that the saves which lead back to a place are neighbours at the top (`Apart`): a node shared by two saves is shared by all between them, so `save()` may stop at the first that does not. That `pointer_equal` finds them is `Layout`. |
| `BalancedProofs!SearchesStartAfresh` | none | `Untouched`: during a search `mark` is the state the prover started with and brk 0, whatever the frames do, and between searches state and allocator are `mark`. |
| `BalancedProofs!TimeIsUsed` | the same | Only the second `TimeOut` returns without a proof. |
| `BalancedProofs!EverySearchSafe`, `EverySearchWithinLimit`, `EveryFrameHasRoom` | `EngineAssumption`, `ScheduleAssumption`, `[]FrameFits` | The constructor of `Div` leads to an initial state of the engine (`Searches`), so that the invariants above hold in each search of a run: no subtraction wraps, no state exceeds the limit of its search, and a frame is run only with room for what it needs. |
| `AndOrTreesProofs!FoundSound`, `FoundOnce`, `FoundAll` | `FramesAssumption`, `TreesAssumption` | `Rests` is what a save stands for: the derivations that extend its trail by closing each item of its continuation within the bounds of that item. `Claims`: the saves stand for disjoint sets of derivations not found yet and, without cut, each derivation is found, or stood for by a save, or owed by the step under way. One lemma for each branch of `step()` says that it divides what the popped save stands for: offers by the clause that closes the goal (those not offered are too dear), a task set by the nodes of its first task, up to its share or more (`ShareWays`, `MoreWays`). With cut saves are dropped, so the rest still are disjoint. Induction over the tree is not needed: each step uses one level of `IsClosed`. |
| `AndOrTreesProofs!TreesSafe` | the same | The frames of a tree fit every limit in every state (`FramesAssumption`), so the hypothesis `[]FrameFits` goes. |
| `AndOrTreesProofs!LimitsExhausted`, `CheapestReturned` | these and `ScheduleAssumption` | `TreeRun`: in a search the invariant of the trees; before it, nothing is within any limit that was tried (`tried`), since a search that ends by itself without `cut` has found nothing, and `FoundAll` says it then has overlooked nothing. What the next search finds weighs just its limit. |
| `AndOrTreesProofs!NoEndlessSearch`, `EveryStepDescends` | `EngineAssumption`, `FramesAssumption`, `TreesAssumption` | Each step takes a save off and puts back such as are `Smaller`: fewer tasks are still to be done (`Todo`); or the same ones and fewer of them wait in a task set (`Queued`); or these too and the continuation is shorter. Of the continuations that are never popped below one is minimal, but the step that pops its save leaves smaller ones: so there is no endless descent. |
| `MasterProofs!OneAtATime` | `WorkerAssumption` | `Exclusive`: a semaphore is held by the one handler there is. |
| `MasterProofs!SlotsReturned` | `MasterAssumption` | `Calls` (a call is open only for a goroutine that waits, and has at most one handler that is heard) with `Counted`. |
| `MasterProofs!SameRevision` | both | `Current`: a prover runs only at the revision asked for, since an instance that changes loses its handlers; `Collected` follows the cases through the channel. |
| `MasterProofs!TypeCorrect` | both | the above with the limits (`Bounded`). |
| `MasterProofs!WholeReport` | both | `Accounted`: as long as there was no error, the goroutines that returned have sent one item each, and the problems named in the channel and in the report are, once each, those that returned and were wanted. `Ended`: the collector stops only when it has `taken` all there will be, unless there was an error, and then there is no report. |
| `SubprocessProofs!TypeCorrect`, `WholeOutput`, `NoEarlyKill` | `SubprocessAssumption` | `Reason`: only `tdone` asks for the end of the inner context, and only after a success, so if the caller finds the subprocess running its own context is over. `Drained`: a success means all was written, and the reader stops at an empty pipe nobody can fill. |
| `DriversProofs!DeadlineIsNoError` | `ScheduleAssumption` | `Signals` (who killed the prover, and that it has ended), `Stages` (what each point of the call knows of the processes and the strategies) and `Told`, for any number of strategies. |
| `CtxProofs!TypeCorrect`, `NothingUsedAfterEnd` | `CtxAssumption`, `CancellationAssumption` | `IInv`: which calls may lie on which in the stack of a thread (`Shape`, `Nested`, `Downwards`), that the mutexes held are exactly those of the loops (`Loops`, `Holders`), that who makes or destroys a context is alone with it (`Owned`) and what they find (`Constructed`, `Destroyed`), that a live context has a live base which has it as a child (`Bases`, `Kids`), and what a `timeout_task` may still do (`Tasks`). Every frame then is one of a live context (`FramesLive`). |
| `CtxProofs!DeadlockFree` | the same | Of the mutexes waited for in a circle take that of the youngest context: its holder is in a loop and waits for the mutex of a child, which is younger. Without mutexes a circle would be one of joins, but a `timeout_task` joins nobody. |
| `CtxProofs!CancelReaches` | the same | A context is `Whole` once its `cancel()` has returned. The children of a whole context are whole, but for one whose constructor is about to cancel it (`Inherited`); a `cancel()` on its way leaves whole children behind (`Gone`). The contexts that are not whole then have their bases among them, up to the root. |
| `CtxProofs!ImplementsCancellation` | the same | Each step maps to one of `Cancellation` or changes nothing there. That `cancel()` is called only for a reason is `Wanted`; that the last child is gone before its base is `Alone`. |

The theorems about `Balanced` and `Schedule` take `[]FrameFits` as a hypothesis: it is
what the frames owe to the engine in the states of a run. Of AND-OR trees it is
proved (`TreesSafe`, from `FramesAssumption`, which TLC evaluates on the trees of
`MCBalanced`). Of the real frames the run `prover` checks it. `SearchesStartAfresh`
and `TimeIsUsed` do without it.

`TreesAssumption` says of `Closings` and `Sub` only what their recursive
definitions say level by level; TLC checks it of the trees of `MCBalanced`, where
they are defined by recursion.

That a search ends (`Terminates`) is model-checked, and proved but for its last step:
there is no endless sequence of steps (`NoEndlessSearch` with `EveryStepDescends`),
and a fair search takes steps as long as a save is left, which is a statement about
`ENABLED`. So `FoundAll` is not about a point that may never come.

`Exhausted` and `Cheapest` are proved and are no property of a run.

Only model-checked:

* all liveness (`Terminates` as said, `Returns`, `Ends`, `CallEnds`, `NothingLeft`),
  which the prover does not do;
* what is about terms: `ProofSound`, `FrameFits` of the real frames, `Paid`, `NoCycles`,
  `NothingMissed`, `Exact`, `Ordered`, `KeepsValidity`, `Justified`, `ValidatorExact`.
  Terms are trees, and unification, the orders, flattening and the validator recurse
  over them, so these properties need induction over data, which is out of the
  prover's reach, in modules with `RECURSIVE` operators, which it does not accept.
  `Paid` and `FrameFits` of the frames are about numbers, but about those of clauses
  that such operators make.

## 5. What is not modelled, and the plan

Not planned: parsers and serialisation (data conversion), problem sets, reports and
image deployment (input and output), `ffprover` (an unfinished port),
`controller.h` (for an interface the frames no longer have), `engine/depth.h`
(never instantiated), the contents of memory, `ResetArray` (the counters
of KBO, which are zero between two calls), the
fallback of the index for atoms with more than a hundred candidates. Real time is
abstracted to order.

Would come next:

1. `Drivers` as the refinement of the steps `Proved` and `ProveFails` of `Worker`.
2. `FrameFits` of the frames of `Prover` as a theorem, which needs `Terms` without
   recursive operators; `EverySearchSafe` then is about the prover without a hypothesis.
