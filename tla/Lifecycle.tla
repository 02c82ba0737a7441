----------------------------- MODULE Lifecycle -----------------------------
(***************************************************************************)
(* The life of `command-mcp serve`: main (src/src/main.rs) from the        *)
(* telemetry guard to the end of the process, with the operating system's  *)
(* signals, the transport and the calls in flight.  What is loaded, how    *)
(* the websocket is guarded and what is served is the subject of           *)
(* Configuration; what a call does, that of ToolCall and Executor.         *)
(*                                                                         *)
(* mcp-core is external: its signal handlers remember a signal, the guard  *)
(* exports what was recorded when it is dropped, flush_and_exit drops it   *)
(* and ends the process, and `serve` reads standard input in a thread that *)
(* the end of the runtime waits for.                                       *)
(*                                                                         *)
(* An operator X_Bug is X with a plausible bug in it; see Executor.        *)
(***************************************************************************)
EXTENDS Integers

CONSTANTS
    Stdio,      \* subset of BOOLEAN: is standard input the transport?
    MaxCalls,   \* bound: calls in flight
    MaxRecords  \* bound: metrics recorded

ASSUME LifecycleAssumption ==
    Stdio \subseteq BOOLEAN /\ MaxCalls \in Nat /\ MaxRecords \in Nat

VARIABLES
    stdio,     \* the transport of this server
    stage,     \* where main is
    outcome,   \* what main has settled on
    exit,      \* how the process has ended
    guard,     \* main holds the telemetry guard
    flush,     \* what dropping the guard has come to
    signals,   \* the stop signals that have arrived and were remembered
    session,   \* what the future of `serve` would return if it were polled now
    polled,    \* ... when main was last polled (read by the properties only)
    reading,   \* a thread is blocked in a read of standard input
    calls,     \* calls in flight
    recorded,  \* metrics recorded
    owed,      \* ... when main settled on its outcome
    exported   \* ... when they were exported

telemetry == <<guard, flush, recorded, owed, exported>>
transport == <<stdio, session, polled, reading>>
vars      == <<stage, outcome, exit, signals, calls, telemetry, transport>>

StopSignals == {"SIGTERM", "SIGINT"}

Running == exit = "running"
At(s)   == Running /\ stage = s

-----------------------------------------------------------------------------
(* main: start and setup *)

\* `?` and `return`: the scope of main unwinds.
Settle(o, s) == outcome' = o /\ stage' = s /\ owed' = recorded

Fails(s) == /\ At(s)
            /\ Settle("error", "unwind")
            /\ UNCHANGED <<exit, guard, flush, signals, calls, recorded, exported, transport>>

InitTelemetry_GuardDropped ==
    /\ At("telemetry")
    /\ stage' = "signals" /\ flush' = "done"
    /\ UNCHANGED <<outcome, exit, guard, signals, calls, recorded, owed, exported, transport>>

InitTelemetry ==
    /\ At("telemetry")
    /\ stage' = "signals" /\ guard' = TRUE
    /\ UNCHANGED <<outcome, exit, flush, signals, calls, recorded, owed, exported, transport>>

\* StopSignals::install, then the setup, which ends when `serve` is first polled.
Steps == [signals |-> "load", load |-> "auth", auth |-> "service", service |-> "serve"]

Advance(s) ==
    /\ At(s)
    /\ stage' = Steps[s]
    /\ reading' = (s = "service" /\ stdio)
    /\ UNCHANGED <<outcome, exit, signals, calls, telemetry, stdio, session, polled>>

\* Config::from_file reads a file: nothing bounds how long that takes.
Load   == Advance("load")
SetUp  == \E s \in {"signals", "auth", "service"} : Advance(s)

SetupFails == \E s \in {"telemetry"} \cup DOMAIN Steps : Fails(s)

-----------------------------------------------------------------------------
(* main: select!, biased *)

PollServe_StopFirst ==
    /\ At("serve")
    /\ CASE signals # {}       -> Settle("signal", "flush_and_exit")
         [] session = "ended"  -> Settle("ok", "unwind")
         [] session = "failed" -> Settle("error", "unwind")
         [] OTHER              -> stage' = "stop" /\ UNCHANGED <<outcome, owed>>
    /\ UNCHANGED <<exit, guard, flush, signals, calls, recorded, exported, transport>>

\* The serve loop is polled first: its own result wins.
PollServe ==
    /\ At("serve")
    /\ CASE session = "ended"  -> Settle("ok", "unwind")
         [] session = "failed" -> Settle("error", "unwind")
         [] session = "open"   -> stage' = "stop" /\ UNCHANGED <<outcome, owed>>
    /\ UNCHANGED <<exit, guard, flush, signals, calls, recorded, exported, transport>>

PollStop_Returns ==
    /\ At("stop")
    /\ IF signals # {} THEN Settle("ok", "unwind")
       ELSE stage' = "parked" /\ UNCHANGED <<outcome, owed>>
    /\ UNCHANGED <<exit, guard, flush, signals, calls, recorded, exported, transport>>

PollStop ==
    /\ At("stop")
    /\ IF signals # {} THEN Settle("signal", "flush_and_exit")
       ELSE stage' = "parked" /\ UNCHANGED <<outcome, owed>>
    /\ UNCHANGED <<exit, guard, flush, signals, calls, recorded, exported, transport>>

\* A session that is over, or a signal, wakes main: a poll of the select begins.
Wake ==
    /\ At("parked") /\ (session # "open" \/ signals # {})
    /\ stage' = "serve" /\ polled' = session
    /\ UNCHANGED <<outcome, exit, signals, calls, telemetry, stdio, session, reading>>

-----------------------------------------------------------------------------
(* main: the ways out *)

\* The drop of the guard exports what there is, or gives up after its time budget.
DropGuard ==
    /\ guard' = FALSE
    /\ \/ flush' = "done" /\ exported' = recorded
       \/ flush' = "gave_up" /\ UNCHANGED exported
    /\ UNCHANGED <<recorded, owed>>

Unwind ==
    /\ At("unwind")
    /\ stage' = "unwound"
    /\ IF guard THEN DropGuard ELSE UNCHANGED telemetry
    /\ UNCHANGED <<outcome, exit, signals, calls, transport>>

\* The runtime is dropped, and waits for the thread that reads standard input.
RuntimeEnds ==
    /\ At("unwound") /\ ~reading
    /\ exit' = IF outcome = "ok" THEN "0" ELSE "1"
    /\ UNCHANGED <<stage, outcome, signals, calls, telemetry, transport>>

FlushAndExit ==
    /\ At("flush_and_exit")
    /\ DropGuard /\ exit' = "0"
    /\ UNCHANGED <<stage, outcome, signals, calls, transport>>

-----------------------------------------------------------------------------
(* The operating system, the client, the calls *)

Handled == stage \notin {"telemetry", "signals"}

\* A signal is remembered once the handlers are installed, and fatal before.
StopSignal(s) ==
    /\ Running
    /\ IF Handled THEN signals' = signals \cup {s} /\ UNCHANGED exit
       ELSE exit' = "killed by a stop signal" /\ UNCHANGED signals
    /\ UNCHANGED <<stage, outcome, calls, telemetry, transport>>

\* SIGHUP keeps its default disposition, SIGKILL has no other.
HangUp ==
    /\ Running
    /\ exit' = "killed"
    /\ UNCHANGED <<stage, outcome, signals, calls, telemetry, transport>>

Serving == Running /\ stage \in {"serve", "stop", "parked"} /\ session = "open"

\* The client closes the session, or just its end of standard input.
SessionEnds ==
    /\ Running /\ stage \notin {"telemetry"} \cup DOMAIN Steps /\ (session = "open" \/ reading)
    /\ session' = IF session = "open" THEN "ended" ELSE session
    /\ reading' = FALSE
    /\ UNCHANGED <<stdio, polled, stage, outcome, exit, signals, calls, telemetry>>

\* A port that is taken, a broken pipe: standard input may still be open.
SessionFails ==
    /\ Serving
    /\ session' = "failed"
    /\ reading' \in {reading, FALSE}
    /\ UNCHANGED <<stdio, polled, stage, outcome, exit, signals, calls, telemetry>>

CallStarts ==
    /\ Serving /\ calls < MaxCalls
    /\ calls' = calls + 1
    /\ UNCHANGED <<stage, outcome, exit, signals, telemetry, transport>>

CallEnds_Twice ==
    /\ Running /\ recorded < MaxRecords
    /\ calls' = calls - 1 /\ recorded' = recorded + 1
    /\ UNCHANGED <<stage, outcome, exit, guard, flush, signals, owed, exported, transport>>

\* A call records its metric on its own thread, whatever main is doing.
CallEnds ==
    /\ Running /\ calls > 0 /\ recorded < MaxRecords
    /\ calls' = calls - 1 /\ recorded' = recorded + 1
    /\ UNCHANGED <<stage, outcome, exit, guard, flush, signals, owed, exported, transport>>

-----------------------------------------------------------------------------
Init ==
    /\ stdio \in Stdio /\ stage = "telemetry" /\ outcome = "none" /\ exit = "running"
    /\ guard = FALSE /\ flush = "never" /\ signals = {}
    /\ session = "open" /\ polled = "open" /\ reading = FALSE
    /\ calls = 0 /\ recorded = 0 /\ owed = 0 /\ exported = 0

Main == \/ InitTelemetry \/ SetUp \/ PollServe \/ PollStop \/ Wake
        \/ Unwind \/ RuntimeEnds \/ FlushAndExit

Environment == \/ SetupFails \/ HangUp \/ SessionEnds \/ SessionFails \/ CallStarts \/ CallEnds
               \/ \E s \in StopSignals : StopSignal(s)

Gone == ~Running /\ UNCHANGED vars

Next == Main \/ Load \/ Environment \/ Gone

\* Main is polled when it is ready, and a flush has a time budget.  Nothing is asked of
\* the client, of the calls, or of the file system.
Spec     == Init /\ [][Next]_vars
FairSpec == Spec /\ WF_vars(Main)

-----------------------------------------------------------------------------
(* Properties *)

\* The type invariant.
TypeOK ==
    /\ stdio \in Stdio /\ guard \in BOOLEAN /\ reading \in BOOLEAN
    /\ stage \in {"telemetry", "serve", "stop", "parked", "unwind", "unwound",
                  "flush_and_exit"} \cup DOMAIN Steps
    /\ outcome \in {"none", "ok", "error", "signal"}
    /\ exit \in {"running", "0", "1", "killed by a stop signal", "killed"}
    /\ flush \in {"never", "done", "gave_up"} /\ signals \subseteq StopSignals
    /\ session \in {"open", "ended", "failed"} /\ polled \in {"open", "ended", "failed"}
    /\ calls \in 0 .. MaxCalls
    /\ recorded \in 0 .. MaxRecords /\ owed \in 0 .. recorded /\ exported \in 0 .. recorded

\* Every way out exports the metrics recorded until main knew that it would end, unless
\* the guard ran out of time: a stop, the end of the session, its failure, a failed
\* setup.  The window in which a stop signal is fatal is one in which nothing has been
\* recorded.
EveryExitFlushes ==
    /\ exit \in {"0", "1"} /\ outcome # "none" =>
         \/ flush = "done" /\ exported >= owed
         \/ flush = "gave_up"
         \/ flush = "never" /\ recorded = 0
    /\ exit = "killed by a stop signal" => recorded = 0 /\ calls = 0 /\ ~reading

\* The exit status is the reason: 0 is for a stop signal or a session its client closed,
\* 1 for a session that failed or for one that never began.  A session that was over
\* when main was polled reports its own result, whatever signals came with it: only one
\* that failed in the middle of that poll can be taken for stopped.
ExitSaysWhy ==
    /\ exit = "0" => \/ outcome = "signal" /\ signals # {} /\ polled = "open"
                     \/ outcome = "ok" /\ session = "ended"
    /\ exit = "1" => session = "failed" \/ (calls = 0 /\ recorded = 0)
    /\ session = "failed" /\ (signals = {} \/ polled = "failed") => exit # "0"

\* A stop signal, at whatever moment of the setup or of the session, ends the server
\* without waiting for any call, and so does the client's end of the session.  Two
\* things can keep it: a configuration file that never ends, and, after a session that
\* failed, a standard input that is still open.
EndsWhenAsked ==
    \/ (signals # {} \/ session = "ended") ~> ~Running
    \/ <>[](stage = "load")
    \/ <>[](session = "failed" /\ stage = "unwound" /\ reading)
=============================================================================
