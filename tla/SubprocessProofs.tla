--------------------------- MODULE SubprocessProofs ---------------------------
(***************************************************************************)
(* What holds of subprocess() for any amount of input and output, pipes of *)
(* any size, any subprocess and any deadline.                              *)
(***************************************************************************)
EXTENDS Subprocess, TLAPS

(* The pipes hold what one side has written and the other not read.        *)
Counts ==
  /\ stdin \in Nat /\ stdin <= PipeSize /\ stdout \in Nat /\ stdout <= PipeSize
  /\ sent \in Nat /\ sent <= Input /\ received \in Nat
  /\ stdin <= sent /\ stdout + received <= Output

(* Where threads and subprocess may be.                                    *)
Places ==
  /\ limited \in BOOLEAN /\ program \in {"proper", "careless", "stuck"}
  /\ child \in {"running", "zombie", "reaped"}
  /\ status \in {"none", "ok", "failed", "killed"} /\ (status = "none" <=> Running)
  /\ twrite \in {"writing", "returned"} /\ tread \in {"reading", "returned"}
  /\ tdone \in {"waiting", "canceling", "returned"}
  /\ main \in {"waiting", "killing", "joining"}
  /\ stray \in BOOLEAN /\ outcome \in {"none", "returned", "error", "SIGPIPE"}

(* The inner context hangs below the one of the caller.                    *)
Nested == ContextOK /\ base[inner] = outer

(* Only tdone asks for the end of the inner context, after it has reaped a *)
(* subprocess that exited with success; otherwise it is done because the   *)
(* context of the caller is.                                               *)
Reason ==
  /\ inner \in asked => tdone # "waiting"
  /\ inner \in done => inner \in asked \/ outer \in done
  /\ tdone # "waiting" => status = "ok" /\ child = "reaped"

(* Nothing is written once the subprocess is gone, and success means that  *)
(* all was.                                                                *)
Drained ==
  /\ status = "ok" => AllWritten
  /\ tread = "returned" => stdout = 0 /\ ~Running
  /\ outcome = "returned" => tread = "returned" /\ tdone = "returned"

IInv == Counts /\ Places /\ Nested /\ Reason /\ Drained /\ KilledInTime

(* The threads are at their beginnings and the pipes empty.                *)
LEMMA IInvInit == SubprocessInit => IInv
<1> SUFFICES ASSUME SubprocessInit PROVE IInv
  OBVIOUS
<1> USE SubprocessAssumption DEF SubprocessInit
<1>1. Nested
  BY DEF Nested, ContextOK, Lives
<1>2. Counts
  BY DEF Counts
<1>3. Places
  <2>1. status = "none" <=> Running
    BY DEF Running
  <2>2. QED
    BY <2>1 DEF Places
<1>4. Reason /\ Drained /\ KilledInTime
  BY DEF Reason, Drained, KilledInTime
<1>5. QED
  BY <1>1, <1>2, <1>3, <1>4 DEF IInv

(* The parts of the invariant look at some variables only.                 *)
LEMMA IInvStutters == IInv /\ UNCHANGED vars => IInv'
BY DEF IInv, vars, context, process, threads, pipes, Counts, Places, Nested, ContextOK,
       Reason, Drained, KilledInTime, Running, AllWritten

(* The subprocess moves chunks, and ends with success only when it has     *)
(* written all.                                                            *)
LEMMA ChildKeeps == IInv /\ Child => IInv'
<1> SUFFICES ASSUME IInv, Child PROVE IInv'
  OBVIOUS
<1> USE SubprocessAssumption
    DEF IInv, Going, Running, Ends, context, process, threads, pipes, Nested, ContextOK,
        Counts, Places, Reason, Drained, KilledInTime, AllWritten
<1>1. CASE ChildReads
  BY <1>1 DEF ChildReads
<1>2. CASE ChildWrites
  BY <1>2 DEF ChildWrites
<1>3. CASE ChildExits
  BY <1>3 DEF ChildExits
<1>4. QED
  BY <1>1, <1>2, <1>3 DEF Child

(* The threads at the pipes: the reader stops at an empty pipe that nobody *)
(* can fill any more.                                                      *)
LEMMA PipesKeep == IInv /\ (Writer \/ Reader) => IInv'
<1> SUFFICES ASSUME IInv, Writer \/ Reader PROVE IInv'
  OBVIOUS
<1> USE SubprocessAssumption
    DEF IInv, Going, Running, End, context, process, threads, pipes, Nested, ContextOK,
        Counts, Places, Reason, Drained, KilledInTime, AllWritten
<1>1. CASE WriteChunk
  BY <1>1 DEF WriteChunk, MoreInput
<1>2. CASE BrokenPipe
  BY <1>2 DEF BrokenPipe
<1>3. CASE WriteDone
  BY <1>3 DEF WriteDone
<1>4. CASE ReadChunk
  BY <1>4 DEF ReadChunk
<1>5. CASE ReadDone
  BY <1>5 DEF ReadDone, EndOfFile
<1>6. QED
  BY <1>1, <1>2, <1>3, <1>4, <1>5 DEF Writer, Reader

(* tdone cancels after it has reaped.                                      *)
LEMMA WaiterKeeps == IInv /\ Waiter => IInv'
<1> SUFFICES ASSUME IInv, Waiter PROVE IInv'
  OBVIOUS
<1> USE SubprocessAssumption
    DEF IInv, Going, Running, End, context, process, threads, pipes, Nested, ContextOK,
        Counts, Places, Reason, Drained, KilledInTime, AllWritten
<1>1. CASE Reaped
  BY <1>1 DEF Reaped, Ask
<1>2. CASE ReapedInError
  BY <1>2 DEF ReapedInError
<1>3. CASE Canceled
  BY <1>3 DEF Canceled
<1>4. QED
  BY <1>1, <1>2, <1>3 DEF Waiter

(* The caller finds the subprocess running only if the inner context ended *)
(* with its own.                                                           *)
LEMMA CallerKeeps == IInv /\ Caller => IInv'
<1> SUFFICES ASSUME IInv, Caller PROVE IInv'
  OBVIOUS
<1> USE SubprocessAssumption
    DEF IInv, Going, Running, End, Ends, context, process, threads, pipes, Nested, ContextOK,
        Counts, Places, Reason, Drained, KilledInTime, AllWritten
<1>1. CASE Check
  BY <1>1 DEF Check
<1>2. CASE Kill
  BY <1>2 DEF Kill
<1>3. CASE KillLate
  BY <1>3 DEF KillLate
<1>4. CASE Return
  BY <1>4 DEF Return, Destroy, Lives
<1>5. QED
  BY <1>1, <1>2, <1>3, <1>4 DEF Caller

(* Contexts end because they are asked or because of their base.           *)
LEMMA ContextsKeep == IInv /\ (Expire \/ \E c \in Context : CtxEnds(c)) => IInv'
<1> SUFFICES ASSUME IInv, Expire \/ \E c \in Context : CtxEnds(c) PROVE IInv'
  OBVIOUS
<1> USE SubprocessAssumption
    DEF IInv, Going, Running, context, process, threads, pipes, Nested, ContextOK,
        Counts, Places, Reason, Drained, KilledInTime, AllWritten
<1>1. CASE Expire
  BY <1>1 DEF Expire, Ask
<1>2. ASSUME NEW c \in Context, CtxEnds(c)
      PROVE  IInv'
  BY <1>2 DEF CtxEnds, Finish
<1>3. QED
  BY <1>1, <1>2

(* The invariant holds for any sizes.                                      *)
THEOREM Invariance == SubprocessSpec => []IInv
<1>1. IInv /\ [SubprocessNext]_vars => IInv'
  BY IInvStutters, ChildKeeps, PipesKeep, WaiterKeeps, CallerKeeps, ContextsKeep
     DEF SubprocessNext
<1>2. QED
  BY <1>1, IInvInit, PTL DEF SubprocessSpec

(* The state keeps its type, and the pipes and the counts their limits.    *)
THEOREM TypeCorrect == SubprocessSpec => []TypeOK
<1>1. IInv => TypeOK
  BY SubprocessAssumption DEF IInv, Counts, Places, Nested, TypeOK
<1>2. QED
  BY <1>1, Invariance, PTL

(* subprocess() returns the whole output, however it is interleaved with   *)
(* the end of the subprocess and of the context.                           *)
THEOREM WholeOutput == SubprocessSpec => []OutputWhole
<1>1. IInv => OutputWhole
  BY SubprocessAssumption
     DEF IInv, Counts, Places, Reason, Drained, OutputWhole, AllWritten
<1>2. QED
  BY <1>1, Invariance, PTL

(* No kill() unless the context of the caller is over.                     *)
THEOREM NoEarlyKill == SubprocessSpec => []KilledInTime
<1>1. IInv => KilledInTime
  BY DEF IInv
<1>2. QED
  BY <1>1, Invariance, PTL
===============================================================================
