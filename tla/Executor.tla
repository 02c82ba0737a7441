------------------------------ MODULE Executor ------------------------------
(***************************************************************************)
(* One call of `execute_command` (src/src/executor.rs): the handler task,  *)
(* the two reader tasks, the spawned `stop_after` task (here: the stopper),*)
(* the child process and the processes it leaves behind.                   *)
(*                                                                         *)
(* Control is modelled in full, data only as far as the answer depends on  *)
(* it: what the readers keep of a stream is the subject of CappedOutput.   *)
(* Time is counted in whole seconds by Tick.  Unless PromptSpec is used,   *)
(* Tick may run while code is waiting for the processor: a task may be     *)
(* arbitrarily late, as under a loaded tokio runtime.                      *)
(*                                                                         *)
(* An operator X_Bug is X with a plausible bug in it.  No specification    *)
(* uses one: they serve to see the properties fail.                        *)
(***************************************************************************)
EXTENDS ExecutionResult

CONSTANTS
    Timeouts,      \* the values of `timeout_secs` to explore
    StopAfters,    \* ... of `stop_after_secs`; 0 stands for None and Some(0)
    Graces,        \* ... of `termination_grace_period`
    Signalable,    \* subset of BOOLEAN: may the server signal the child's uid?
    WaitErrors,    \* may waitpid fail?
    Daemons,       \* may a descendant inherit and keep a pipe?
    CallerMayDrop, \* may the caller drop the future of the call?
    Horizon        \* bound: the two ages stop counting here

ASSUME ExecutorAssumption ==
    /\ Timeouts \subseteq Nat /\ StopAfters \subseteq Nat /\ Graces \subseteq Nat
    /\ Signalable \subseteq BOOLEAN
    /\ WaitErrors \in BOOLEAN /\ Daemons \in BOOLEAN /\ CallerMayDrop \in BOOLEAN
    /\ Horizon \in Nat
    /\ \A t \in Timeouts \cup StopAfters : \A g \in Graces : t + 2*g + 2 < Horizon

VARIABLES
    call,      \* the parameters of the call
    pc,        \* where the handler is
    timer,     \* seconds left of the handler's own sleep or timeout
    kept,      \* the answer the handler has decided on while it cleans up
    answer,    \* what the caller got
    stopper,   \* the task spawned by handle_stop_after
    stopTimer, \* seconds left of its sleep
    cancelled, \* abort() reached the stopper while it was being polled
    reader,    \* the two collect_capped_lines tasks
    child,     \* the process, as the kernel sees it
    status,    \* its wait status, once it has died
    signals,   \* the signals the kernel has accepted for it
    writers,   \* who can write to each pipe: the child, a descendant
    stray,     \* a signal was sent to a pid already given back to the system
    age,       \* seconds since the call began, up to Horizon
    warnedFor  \* seconds since the first accepted signal, up to Horizon; -1 before

main    == <<pc, timer, kept, answer>>
stop    == <<stopper, stopTimer, cancelled>>
process == <<child, status, signals, writers, stray>>
clock   == <<age, warnedFor>>
vars    == <<call, main, stop, reader, process, clock>>

-----------------------------------------------------------------------------
(* Values *)

Streams == {"stdout", "stderr"}
Writers == {"child", "descendant"}

\* The configured budget: a positive stop_after replaces the timeout.
Budget == IF call.stop_after > 0 THEN call.stop_after ELSE call.timeout

\* The sleep between terminate_process and the check of the child.
SettleTime_OneSecond == 1
SettleTime_Doubled == 2 * (call.grace + 1)

SettleTime == call.grace + 1

-----------------------------------------------------------------------------
(* Signals *)

PidIsOurs == child \in {"running", "zombie"}

\* kill() with the termination signal: accepted by a running child or a zombie.
Warn == /\ signals' = IF child = "running" THEN signals \cup {"TERM"} ELSE signals
        /\ warnedFor' = IF warnedFor = -1 THEN 0 ELSE warnedFor

ForceKill_UnlessWarned ==
    signals' = IF call.signalable /\ child = "running" /\ signals = {}
               THEN signals \cup {"KILL"} ELSE signals

\* force_kill_process: the result of kill() is ignored.
ForceKill == signals' = IF call.signalable /\ child = "running"
                        THEN signals \cup {"KILL"} ELSE signals

-----------------------------------------------------------------------------
(* The handler: execute_command, handle_stop_after, handle_timeout *)

Reply(a) == pc' = "done" /\ answer' = a

SpawnFails ==
    /\ pc = "idle"
    /\ Reply(Err("not_found"))
    /\ UNCHANGED <<call, timer, kept, stop, reader, process, clock>>

\* The child is started with both pipes, then the readers, then (if stop_after
\* is positive) the stopper; otherwise the wait is bounded by the timeout.
Spawn ==
    /\ pc = "idle"
    /\ child' = "running"
    /\ writers' = [s \in Streams |-> {"child"}]
    /\ reader' = [s \in Streams |-> "reading"]
    /\ \/ /\ call.stop_after > 0
          /\ pc' = "race"
          /\ stopper' = "sleeping" /\ stopTimer' = call.stop_after
          /\ UNCHANGED timer
       \/ /\ call.stop_after = 0
          /\ pc' = "wait"
          /\ timer' = call.timeout
          /\ UNCHANGED <<stopper, stopTimer>>
    /\ UNCHANGED <<call, kept, answer, cancelled, status, signals, stray, clock>>

\* child.wait() has reaped the child before the timeout fired.
WaitCompletes ==
    /\ pc = "wait" /\ child = "zombie"
    /\ child' = "reaped"
    /\ kept' = Ok(exit_code_from_status(status), FALSE)
    /\ pc' = "join_stdout"
    /\ UNCHANGED <<call, timer, answer, stop, reader, status, signals, writers, stray, clock>>

WaitFails ==
    /\ WaitErrors /\ pc = "wait"
    /\ Reply(Err("failed"))
    /\ UNCHANGED <<call, timer, kept, stop, reader, process, clock>>

\* handle_timeout begins: a signal the kernel refuses costs no grace period.
TimeoutElapses ==
    /\ pc = "wait" /\ timer = 0
    /\ IF call.signalable
       THEN /\ Warn
            /\ pc' = "terminate" /\ timer' = call.grace
       ELSE /\ pc' = "settle" /\ timer' = SettleTime
            /\ UNCHANGED <<signals, warnedFor>>
    /\ UNCHANGED <<call, kept, answer, stop, reader, child, status, writers, stray, age>>

TerminateReturns ==
    /\ pc = "terminate" /\ timer = 0
    /\ pc' = "settle" /\ timer' = SettleTime
    /\ UNCHANGED <<call, kept, answer, stop, reader, process, clock>>

\* The stopper has finished: handle_stop_after starts its own sleep.
StopperJoined ==
    /\ pc = "race" /\ stopper = "finished"
    /\ pc' = "settle" /\ timer' = SettleTime
    /\ UNCHANGED <<call, kept, answer, stop, reader, process, clock>>

\* try_wait returns Some(status), on either path.
SettledDead ==
    /\ pc = "settle" /\ timer = 0 /\ child = "zombie"
    /\ child' = "reaped"
    /\ kept' = Ok(exit_code_from_status(status), call.stop_after > 0)
    /\ pc' = "join_stdout"
    /\ UNCHANGED <<call, timer, answer, stop, reader, status, signals, writers, stray, clock>>

\* try_wait returns None, or fails: force kill; a stopped call still reads its
\* output and reports success, a timed out one answers at once.
SettledAlive ==
    /\ pc = "settle" /\ timer = 0
    /\ child = "running" \/ WaitErrors
    /\ ForceKill
    /\ IF call.stop_after > 0
       THEN kept' = Ok(0, TRUE) /\ pc' = "join_stdout" /\ UNCHANGED answer
       ELSE Reply(Err("timeout")) /\ UNCHANGED kept
    /\ UNCHANGED <<call, timer, stop, reader, child, status, writers, stray, clock>>

\* select!: child.wait() has completed first.  abort() comes one step later, and
\* the stopper runs on another thread.
RaceReaps ==
    /\ pc = "race" /\ child = "zombie"
    /\ child' = "reaped"
    /\ kept' = Ok(exit_code_from_status(status), FALSE)
    /\ pc' = "abort"
    /\ UNCHANGED <<call, timer, answer, stop, reader, status, signals, writers, stray, clock>>

RaceFails ==
    /\ WaitErrors /\ pc = "race"
    /\ kept' = Err("failed")
    /\ pc' = "abort"
    /\ UNCHANGED <<call, timer, answer, stop, reader, process, clock>>

AbortStopper_Forgotten ==
    /\ pc = "abort"
    /\ IF kept.kind = "ok" THEN pc' = "join_stdout" /\ UNCHANGED answer ELSE Reply(kept)
    /\ UNCHANGED <<call, timer, kept, stop, reader, process, clock>>

\* abort() ends a task at an await; one that is being polled runs to its next await.
AbortStopper ==
    /\ pc = "abort"
    /\ stopper' = IF stopper \in {"sleeping", "grace"} THEN "aborted" ELSE stopper
    /\ cancelled' = (stopper = "polled")
    /\ IF kept.kind = "ok" THEN pc' = "join_stdout" /\ UNCHANGED answer ELSE Reply(kept)
    /\ UNCHANGED <<call, timer, kept, stopTimer, reader, process, clock>>

JoinStdout ==
    /\ pc = "join_stdout" /\ reader["stdout"] # "reading"
    /\ pc' = "join_stderr"
    /\ UNCHANGED <<call, timer, kept, answer, stop, reader, process, clock>>

JoinStderr_Detached ==
    /\ pc = "join_stderr"
    /\ Reply(kept)
    /\ UNCHANGED <<call, timer, kept, stop, reader, process, clock>>

JoinStderr ==
    /\ pc = "join_stderr" /\ reader["stderr"] # "reading"
    /\ Reply(kept)
    /\ UNCHANGED <<call, timer, kept, stop, reader, process, clock>>

Main == \/ SpawnFails \/ Spawn
        \/ WaitCompletes \/ WaitFails \/ TimeoutElapses \/ TerminateReturns
        \/ StopperJoined \/ SettledDead \/ SettledAlive
        \/ RaceReaps \/ RaceFails \/ AbortStopper
        \/ JoinStdout \/ JoinStderr

\* The caller drops the future: the child and the task handles are dropped with
\* it, which neither kills the child (no kill_on_drop) nor ends a task.
CallerDrops ==
    /\ CallerMayDrop /\ pc \notin {"idle", "abort", "done", "dropped"}
    /\ pc' = "dropped"
    /\ UNCHANGED <<call, timer, kept, answer, stop, reader, process, clock>>

-----------------------------------------------------------------------------
(* The stopper task: sleep(stop_after), then terminate_process(pid) *)

StopperWakes_AtOnce ==
    /\ stopper = "sleeping"
    /\ stopper' = "polled"
    /\ UNCHANGED <<call, main, stopTimer, cancelled, reader, process, clock>>

StopperWakes ==
    /\ stopper = "sleeping" /\ stopTimer = 0
    /\ stopper' = "polled"
    /\ UNCHANGED <<call, main, stopTimer, cancelled, reader, process, clock>>

\* kill() was accepted: sleep(grace), unless abort() got in first.
StopperSleeps == /\ stopper' = IF cancelled THEN "aborted" ELSE "grace"
                 /\ stopTimer' = call.grace

StopperKills ==
    /\ stopper = "polled" /\ PidIsOurs
    /\ IF call.signalable
       THEN Warn /\ StopperSleeps
       ELSE stopper' = "finished" /\ UNCHANGED <<stopTimer, signals, warnedFor>>
    /\ UNCHANGED <<call, main, cancelled, reader, child, status, writers, stray, age>>

\* The pid was captured at spawn and the child has been reaped since: the signal
\* finds nobody, or whoever has the pid now.
StopperKillsStray ==
    /\ stopper = "polled" /\ ~PidIsOurs
    /\ stray' = TRUE
    /\ \/ stopper' = "finished" /\ UNCHANGED stopTimer
       \/ StopperSleeps
    /\ UNCHANGED <<call, main, cancelled, reader, child, status, signals, writers, clock>>

StopperFinishes ==
    /\ stopper = "grace" /\ stopTimer = 0
    /\ stopper' = "finished"
    /\ UNCHANGED <<call, main, stopTimer, cancelled, reader, process, clock>>

Stopper == StopperWakes \/ StopperKills \/ StopperKillsStray \/ StopperFinishes

-----------------------------------------------------------------------------
(* The reader tasks *)

NoWriter(s) == writers[s] = {}

ReaderEof(s) ==
    /\ reader[s] = "reading" /\ NoWriter(s)
    /\ reader' = [reader EXCEPT ![s] = "eof"]
    /\ UNCHANGED <<call, main, stop, process, clock>>

\* The byte ceiling, a read error or a line that is not UTF-8 ends the loop early
\* (and so closes the read end of the pipe).
ReaderStops(s) ==
    /\ reader[s] = "reading"
    /\ reader' = [reader EXCEPT ![s] = "cut"]
    /\ UNCHANGED <<call, main, stop, process, clock>>

-----------------------------------------------------------------------------
(* The child, its descendants, the kernel and tokio's orphan queue *)

\* The kernel closes the pipes of a process that dies.
Dies(st) == /\ child' = "zombie" /\ status' = st
            /\ writers' = [s \in Streams |-> writers[s] \ {"child"}]

\* A process exits, or dies of a signal: of its own, or of the termination signal
\* if it has not caught it.
ChildExits(st) ==
    /\ child = "running"
    /\ st.signal \in {"none", "OTHER"} \cup (signals \cap {"TERM"})
    /\ Dies(st)
    /\ UNCHANGED <<call, main, stop, reader, signals, stray, clock>>

KernelKills ==
    /\ child = "running" /\ "KILL" \in signals
    /\ Dies(Signalled("KILL"))
    /\ UNCHANGED <<call, main, stop, reader, signals, stray, clock>>

\* A descendant inherits what the child has open.
Daemonizes(s) ==
    /\ Daemons /\ "child" \in writers[s]
    /\ writers' = [writers EXCEPT ![s] = @ \cup {"descendant"}]
    /\ UNCHANGED <<call, main, stop, reader, child, status, signals, stray, clock>>

\* A process closes or redirects its stdout or stderr; the child may go on running.
Closes(p, s) ==
    /\ p \in writers[s]
    /\ writers' = [writers EXCEPT ![s] = @ \ {p}]
    /\ UNCHANGED <<call, main, stop, reader, child, status, signals, stray, clock>>

Pipes == \E s \in Streams : Daemonizes(s) \/ \E p \in Writers : Closes(p, s)

\* A dropped Child that is still unreaped goes to tokio's orphan queue.
OrphanReaped ==
    /\ pc \in {"done", "dropped"} /\ child = "zombie"
    /\ child' = "reaped"
    /\ UNCHANGED <<call, main, stop, reader, status, signals, writers, stray, clock>>

Down_Wraps(n) == n - 1

Down(n)  == IF n > 0 THEN n - 1 ELSE 0
Older(n) == IF n < Horizon THEN n + 1 ELSE n

Tick ==
    /\ pc # "idle"
    /\ timer > 0 \/ stopTimer > 0 \/ age < Horizon \/ warnedFor \in 0 .. Horizon-1
    /\ timer' = Down(timer)
    /\ stopTimer' = Down(stopTimer)
    /\ age' = Older(age)
    /\ warnedFor' = IF warnedFor = -1 THEN -1 ELSE Older(warnedFor)
    /\ UNCHANGED <<call, pc, kept, answer, stopper, cancelled, reader, process>>

Environment ==
    \/ \E st \in Statuses : ChildExits(st)
    \/ Pipes \/ \E s \in Streams : ReaderStops(s)
    \/ CallerDrops

\* There is work to do, and not only a waitpid that may fail: a task whose await is
\* over, a signal to deliver, a process to reap, the end of a stream to read.
Ready ==
    \/ pc \in {"idle", "abort"}
    \/ pc \in {"wait", "race"} /\ child = "zombie"
    \/ pc \in {"wait", "terminate", "settle"} /\ timer = 0
    \/ pc = "race" /\ stopper = "finished"
    \/ pc = "join_stdout" /\ reader["stdout"] # "reading"
    \/ pc = "join_stderr" /\ reader["stderr"] # "reading"
    \/ stopper = "polled" \/ (stopper \in {"sleeping", "grace"} /\ stopTimer = 0)
    \/ child = "running" /\ "KILL" \in signals
    \/ pc \in {"done", "dropped"} /\ child = "zombie"
    \/ \E s \in Streams : reader[s] = "reading" /\ NoWriter(s)

\* What the server and the kernel do as soon as they get to it.
Work == \/ Main \/ Stopper \/ KernelKills \/ OrphanReaped
        \/ \E s \in Streams : ReaderEof(s)

-----------------------------------------------------------------------------
Init ==
    /\ call \in [timeout : Timeouts, stop_after : StopAfters, grace : Graces,
                 signalable : Signalable]
    /\ pc = "idle" /\ timer = 0 /\ kept = NoAnswer /\ answer = NoAnswer
    /\ stopper = "off" /\ stopTimer = 0 /\ cancelled = FALSE
    /\ reader = [s \in Streams |-> "off"]
    /\ child = "none" /\ status = NoStatus /\ signals = {} /\ stray = FALSE
    /\ writers = [s \in Streams |-> {}]
    /\ age = 0 /\ warnedFor = -1

\* The call is over; whatever it left behind goes on.
Finished == pc \in {"done", "dropped"} /\ UNCHANGED vars

Next == Work \/ Environment \/ Tick \/ Finished

\* The runtime polls a ready task, the kernel delivers a signal, time passes.
\* Nothing makes a child exit or a descendant let go of a pipe.
Fairness == /\ WF_vars(Main) /\ WF_vars(Stopper) /\ WF_vars(Tick)
            /\ WF_vars(KernelKills) /\ WF_vars(OrphanReaped)
            /\ \A s \in Streams : WF_vars(ReaderEof(s))

Spec     == Init /\ [][Next]_vars
FairSpec == Spec /\ Fairness

\* A lightly loaded server: time passes only when nothing is left to do.
PromptTick == ~Ready /\ Tick
PromptNext == Work \/ Environment \/ PromptTick \/ Finished
PromptSpec == Init /\ [][PromptNext]_vars

-----------------------------------------------------------------------------
(* Properties *)

Answered == answer # NoAnswer

HandlerTypes ==
    /\ call \in [timeout : Timeouts, stop_after : StopAfters, grace : Graces,
                 signalable : Signalable]
    /\ pc \in {"idle", "wait", "terminate", "settle", "race", "abort",
               "join_stdout", "join_stderr", "done", "dropped"}
    /\ kept \in Answers /\ answer \in Answers

TaskTypes ==
    /\ stopper \in {"off", "sleeping", "polled", "grace", "finished", "aborted"}
    /\ cancelled \in BOOLEAN
    /\ reader \in [Streams -> {"off", "reading", "eof", "cut"}]

ProcessTypes ==
    /\ child \in {"none", "running", "zombie", "reaped"}
    /\ status \in Statuses \cup {NoStatus}
    /\ signals \subseteq {"TERM", "KILL"} /\ writers \in [Streams -> SUBSET Writers]
    /\ stray \in BOOLEAN

ClockTypes ==
    /\ timer \in 0 .. Horizon /\ stopTimer \in 0 .. Horizon
    /\ age \in 0 .. Horizon /\ warnedFor \in -1 .. Horizon

\* The type invariant.
TypeOK == HandlerTypes /\ TaskTypes /\ ProcessTypes /\ ClockTypes

\* SIGKILL comes only after the whole budget, and only to a process that had a
\* termination signal and then the full grace period twice over plus a second
\* (terminate_process sleeps once, its callers again).
KillIsLast == "KILL" \in signals =>
    /\ warnedFor >= 2 * call.grace + 1
    /\ age >= Budget + 2 * call.grace + 1

\* No process is signalled before its budget (the timeout, or a positive
\* stop_after) is used up, whatever tasks run late.
NoEarlySignal == warnedFor >= 0 => age >= Budget

\* An exit code is never made up: an answer that carries one is about a reaped
\* child and has its code, except the 0 of a stop_after that had to force kill,
\* or could not.
HonestExitCode == answer.kind = "ok" =>
    \/ /\ child = "reaped"
       /\ answer.code = IF status.signal = "none" THEN status.code ELSE -1
    \/ /\ answer.code = 0 /\ answer.stopped
       /\ child = "running" => "KILL" \in signals \/ ~call.signalable

\* `stopped_after` is reported only for a call that has a stop_after and has lasted
\* that long and a settling time more.
StoppedIsLate == answer.stopped =>
    /\ call.stop_after > 0
    /\ age >= call.stop_after + call.grace + 1

\* A timeout is reported only after the timeout and a settling time, to a call
\* without stop_after, and leaves no process alive that could have been killed.
TimeoutCondemns == answer.kind = "timeout" =>
    /\ call.stop_after = 0
    /\ age >= call.timeout + call.grace + 1
    /\ child = "running" => "KILL" \in signals \/ ~call.signalable

\* The output of an answer is complete: each stream was read to the end, which
\* needs every process that could write to it gone or done with it, or cut by its
\* own reader.
OutputComplete == answer.kind = "ok" =>
    \A s \in Streams : reader[s] = "cut" \/ (reader[s] = "eof" /\ NoWriter(s))

\* A stopper left sleeping when the child is reaped never wakes: it can only be
\* too late for abort() if it was already being polled, or nobody was left to
\* abort it.
NoLateWake == [][StopperWakes => pc \in {"race", "abort", "dropped"}]_vars

\* What the contract sees of the call.
life      == IF child \in {"none", "running"}
             THEN IF child = "none" THEN "none" ELSE "alive" ELSE "dead"
condemned == "KILL" \in signals
drained   == \A s \in Streams : reader[s] \in {"eof", "cut"}

\* The call, whatever its tasks do, implements the contract of its caller.
Contract == INSTANCE ExecutionContract WITH stops    <- call.stop_after > 0,
                                            killable <- call.signalable
ImplementsContract == Contract!CSpec

\* A call is answered (or dropped), unless a descendant never closes a pipe, or
\* the call has to wait for the end of a process nobody may signal.
CallReturns == (call.signalable \/ call.stop_after = 0) =>
    <>(pc \in {"done", "dropped"}) \/ <>[](\E s \in Streams : "descendant" \in writers[s])

\* Under a caller that waits and a waitpid that works, no process the server may
\* signal outlives its budget for good.
NothingLeftRunning == call.signalable => <>[](child # "running")

\* On a lightly loaded server, a call whose process may be signalled and leaves no
\* descendant behind is answered by its budget, two grace periods and a second.
AnsweredByDeadline ==
    call.signalable /\ age > Budget + 2 * call.grace + 1 => pc \in {"done", "dropped"}
=============================================================================
