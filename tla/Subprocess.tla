------------------------------ MODULE Subprocess ------------------------------
(***************************************************************************)
(* subprocess() of utils/sys.h: the threads that write the input, read the *)
(* output and wait for the end of a subprocess, the caller, which waits    *)
(* for its context, and the kernel with the two pipes and the process.     *)
(* error() and SIGPIPE end the whole program.  Of the contexts it uses the *)
(* promise Cancellation only.                                              *)
(***************************************************************************)
EXTENDS Cancellation, Integers

CONSTANTS
  outer, inner,   \* the context of the caller and the one of with_cancel()
  Input, Output,  \* how many chunks the subprocess is given and writes
  PipeSize        \* how many chunks a pipe holds

ASSUME SubprocessAssumption ==
  /\ Context = {outer, inner} /\ outer # inner
  /\ Input \in Nat /\ Output \in Nat /\ PipeSize \in Nat \ {0}

VARIABLES
  limited,    \* the context of the caller has a deadline
  program,    \* a "proper" one answers each chunk before it reads the next, to the end of
              \* its input, a "careless" one may not and may fail, a "stuck" one never ends
  child,      \* the subprocess: "running", "zombie" or "reaped"
  status,     \* how it ended: "none", "ok", "failed" or "killed"
  stdin, stdout,    \* the chunks in the two pipes
  sent,       \* what twrite has written
  received,   \* output of tread
  twrite, tread, tdone, main,   \* where the threads are
  stray,      \* kill() has hit another process, which got the pid
  outcome     \* "none", "returned", or how the program ended: "error" or "SIGPIPE"

process == <<program, child, status>>
threads == <<twrite, tread, tdone, main>>
pipes == <<stdin, stdout, sent, received>>
vars == <<context, limited, process, pipes, threads, stray, outcome>>

\* The caller has forked and started its threads; with_cancel() has made the inner context.
SubprocessInit ==
  /\ base = [c \in Context |-> IF c = inner THEN outer ELSE NoBase]
  /\ life = [c \in Context |-> "live"]
  /\ done = {} /\ asked = {}
  /\ limited \in BOOLEAN
  /\ program \in {"proper", "careless", "stuck"}
  /\ child = "running" /\ status = "none"
  /\ stdin = 0 /\ stdout = 0 /\ sent = 0 /\ received = 0
  /\ twrite = "writing" /\ tread = "reading" /\ tdone = "waiting" /\ main = "waiting"
  /\ stray = FALSE /\ outcome = "none"

Going == outcome = "none"
End(how) == outcome' = how
Running == child = "running"
-----------------------------------------------------------------------------
AllWritten == received + stdout = Output
EndOfInput == stdin = 0 /\ twrite = "returned"

ChildReads ==
  /\ Going /\ Running /\ stdin > 0
  /\ program = "proper" => sent - stdin <= received + stdout \/ AllWritten
  /\ stdin' = stdin - 1
  /\ UNCHANGED <<context, limited, process, stdout, sent, received, threads, stray, outcome>>

ChildWrites ==
  /\ Going /\ Running /\ ~AllWritten /\ stdout < PipeSize
  /\ stdout' = stdout + 1
  /\ UNCHANGED <<context, limited, process, stdin, sent, received, threads, stray, outcome>>

Ends(how) == child' = "zombie" /\ status' = how

\* All ends of the pipes the child has are closed with it.
ChildExits ==
  /\ Going /\ Running
  /\ \/ program = "proper" /\ EndOfInput /\ AllWritten /\ Ends("ok")
     \/ program = "careless" /\ AllWritten /\ Ends("ok")
     \/ program = "careless" /\ Ends("failed")
  /\ UNCHANGED <<context, limited, program, pipes, threads, stray, outcome>>
-----------------------------------------------------------------------------
\* Mutant: one byte too many.
MoreInput == sent < Input

WriteChunk ==
  /\ Going /\ twrite = "writing" /\ MoreInput
  /\ Running /\ stdin < PipeSize
  /\ stdin' = stdin + 1 /\ sent' = sent + 1
  /\ UNCHANGED <<context, limited, process, stdout, received, threads, stray, outcome>>

\* write() to a pipe that nobody reads.
BrokenPipe ==
  /\ Going /\ twrite = "writing" /\ MoreInput
  /\ ~Running
  /\ End("SIGPIPE")
  /\ UNCHANGED <<context, limited, process, pipes, threads, stray>>

WriteDone ==
  /\ Going /\ twrite = "writing" /\ ~MoreInput
  /\ twrite' = "returned"
  /\ UNCHANGED <<context, limited, process, pipes, tread, tdone, main, stray, outcome>>

\* Mutant: the input is written before the output is read.
BadReadChunk ==
  /\ Going /\ tread = "reading" /\ stdout > 0 /\ twrite = "returned"
  /\ stdout' = stdout - 1 /\ received' = received + 1
  /\ UNCHANGED <<context, limited, process, stdin, sent, threads, stray, outcome>>

ReadChunk ==
  /\ Going /\ tread = "reading" /\ stdout > 0
  /\ stdout' = stdout - 1 /\ received' = received + 1
  /\ UNCHANGED <<context, limited, process, stdin, sent, threads, stray, outcome>>

\* Mutant: an empty pipe is taken for the end of the output.
BadEndOfFile == stdout = 0

\* read() returns nothing: the caller has closed its copy of the end the child writes to.
EndOfFile == stdout = 0 /\ ~Running

ReadDone ==
  /\ Going /\ tread = "reading" /\ EndOfFile
  /\ tread' = "returned"
  /\ UNCHANGED <<context, limited, process, pipes, twrite, tdone, main, stray, outcome>>
-----------------------------------------------------------------------------
\* Mutant: the context is cancelled as soon as the thread starts.
BadReaped ==
  /\ Going /\ tdone = "waiting" /\ Running
  /\ Ask(inner) /\ tdone' = "canceling"
  /\ UNCHANGED <<limited, process, pipes, twrite, tread, main, stray, outcome>>

\* waitpid() of tdone returns the subprocess, which has exited with success.
Reaped ==
  /\ Going /\ tdone = "waiting" /\ child = "zombie" /\ status = "ok"
  /\ child' = "reaped"
  /\ Ask(inner) /\ tdone' = "canceling"
  /\ UNCHANGED <<limited, program, status, pipes, twrite, tread, main, stray,
                 outcome>>

\* It has failed or was killed, or the caller has reaped it and waitpid() fails.
ReapedInError ==
  /\ Going /\ tdone = "waiting"
  /\ child = "reaped" \/ (child = "zombie" /\ status # "ok")
  /\ child' = "reaped"
  /\ End("error")
  /\ UNCHANGED <<context, limited, program, status, pipes, threads, stray>>

Canceled ==
  /\ Going /\ tdone = "canceling" /\ inner \in done
  /\ tdone' = "returned"
  /\ UNCHANGED <<context, limited, process, pipes, twrite, tread, main, stray, outcome>>
-----------------------------------------------------------------------------
Expire ==
  /\ Going /\ limited /\ Ask(outer)
  /\ UNCHANGED <<limited, process, pipes, threads, stray, outcome>>

CtxEnds(c) ==
  /\ Going /\ Finish(c)
  /\ UNCHANGED <<limited, process, pipes, threads, stray, outcome>>

\* ctx->wait() returns, and the caller asks whether the subprocess still runs; if it has
\* exited and nobody has reaped it, this waitpid() does.
Check ==
  /\ Going /\ main = "waiting" /\ inner \in done
  /\ main' = IF Running THEN "killing" ELSE "joining"
  /\ child' = IF Running THEN child ELSE "reaped"
  /\ UNCHANGED <<context, limited, program, status, pipes, twrite, tread,
                 tdone, stray, outcome>>

Kill ==
  /\ Going /\ main = "killing" /\ child # "reaped"
  /\ IF Running THEN Ends("killed") ELSE UNCHANGED <<child, status>>
  /\ main' = "joining"
  /\ UNCHANGED <<context, limited, program, pipes, twrite, tread, tdone,
                 stray, outcome>>

\* The pid has no process any more, or that of somebody else.
KillLate ==
  /\ Going /\ main = "killing" /\ child = "reaped"
  /\ \/ End("error") /\ UNCHANGED <<main, stray>>
     \/ stray' = TRUE /\ main' = "joining" /\ UNCHANGED outcome
  /\ UNCHANGED <<context, limited, process, pipes, twrite, tread, tdone>>

\* The last pointer to the inner context is the caller's.
Return ==
  /\ Going /\ main = "joining"
  /\ tdone = "returned" /\ twrite = "returned" /\ tread = "returned"
  /\ End("returned") /\ Destroy(inner)
  /\ UNCHANGED <<limited, process, pipes, threads, stray>>
-----------------------------------------------------------------------------
Child == ChildReads \/ ChildWrites \/ ChildExits
Writer == WriteChunk \/ BrokenPipe \/ WriteDone
Reader == ReadChunk \/ ReadDone
Waiter == Reaped \/ ReapedInError \/ Canceled
Caller == Check \/ Kill \/ KillLate \/ Return

SubprocessNext ==
  \/ Child \/ Writer \/ Reader \/ Waiter \/ Caller
  \/ Expire \/ \E c \in Context : CtxEnds(c)

SubprocessSpec == SubprocessInit /\ [][SubprocessNext]_vars

\* Threads are scheduled, time passes, and a program that is not stuck goes on whenever
\* the pipes let it.
FairSubprocess ==
  /\ SubprocessSpec
  /\ WF_vars(ChildReads) /\ WF_vars(ChildWrites) /\ WF_vars(ChildExits)
  /\ WF_vars(Writer) /\ WF_vars(Reader) /\ WF_vars(Waiter) /\ WF_vars(Caller)
  /\ WF_vars(Expire) /\ \A c \in Context : WF_vars(CtxEnds(c))
-----------------------------------------------------------------------------
TypeOK ==
  /\ ContextOK
  /\ limited \in BOOLEAN /\ program \in {"proper", "careless", "stuck"}
  /\ child \in {"running", "zombie", "reaped"}
  /\ status \in {"none", "ok", "failed", "killed"} /\ (status = "none" <=> Running)
  /\ stdin \in 0..PipeSize /\ stdout \in 0..PipeSize
  /\ sent \in 0..Input /\ received \in 0..Output
  /\ stdin <= sent /\ stdout + received <= Output
  /\ {twrite, tread, tdone, main} \subseteq
       {"writing", "reading", "waiting", "canceling", "killing", "joining", "returned"}
  /\ stray \in BOOLEAN /\ outcome \in {"none", "returned", "error", "SIGPIPE"}

\* subprocess() returns what the subprocess wrote, to the last chunk, and only when it has
\* exited with success and was reaped.
OutputWhole ==
  outcome = "returned" => received = Output /\ status = "ok" /\ child = "reaped"

\* The subprocess is killed, and its pid used, only when the context of the caller is over:
\* the end of the subprocess itself cancels the inner context too late for that.
KilledInTime == status = "killed" \/ stray \/ main = "killing" => outer \in done

\* The call comes to an end, whatever is in the pipes, if there is a deadline or the
\* subprocess comes to one.
CallEnds == limited \/ program # "stuck" ~> ~Going

\* sys.h:134, "kill the subprocess if still running": no other process is killed.
KillsOnlyTheSubprocess == ~stray
=============================================================================
