-------------------------- MODULE LifecycleProofs --------------------------
(***************************************************************************)
(* Proofs about Lifecycle, for any number of calls and metrics and either  *)
(* transport: every way out of the server exports what it owes, and its    *)
(* exit status is the reason for it.                                       *)
(***************************************************************************)
EXTENDS Lifecycle, TLAPS

BeforeServe == {"telemetry", "signals", "load", "auth", "service"}
Leaving     == {"unwind", "unwound", "flush_and_exit"}

Empty == calls = 0 /\ recorded = 0

-----------------------------------------------------------------------------
(* The inductive invariant *)

\* Nothing happens before main serves.
Prepares == stage \in BeforeServe =>
    Empty /\ ~reading /\ session = "open" /\ polled = "open" /\ flush = "never"

\* main holds the guard until it leaves, or failed before it had one; once the scope
\* is unwound, what was owed is exported, given up, or nothing.
Guarded ==
    /\ stage \notin {"telemetry"} \cup Leaving => guard
    /\ stage = "unwind" => guard \/ (flush = "never" /\ Empty)
    /\ stage = "unwound" => \/ flush = "done" /\ exported >= owed
                            \/ flush = "gave_up"
                            \/ flush = "never" /\ Empty

\* main leaves with an outcome, and the outcome has a reason that does not go away;
\* past its first branch, the poll is one that began with a session still open.
HasReason ==
    /\ stage \in {"stop", "parked", "flush_and_exit"} => polled = "open"
    /\ polled # "open" => session = polled
    /\ outcome # "none" <=> stage \in Leaving
    /\ outcome = "signal" <=> stage = "flush_and_exit"
    /\ outcome = "signal" => signals # {}
    /\ outcome = "ok" => session = "ended"
    /\ outcome = "error" => session = "failed" \/ Empty

Inv == TypeOK /\ Prepares /\ Guarded /\ HasReason /\ EveryExitFlushes /\ ExitSaysWhy

-----------------------------------------------------------------------------
(* The steps of the setup. *)
LEMMA Setup ==
    /\ DOMAIN Steps = {"signals", "load", "auth", "service"}
    /\ Steps["signals"] = "load" /\ Steps["load"] = "auth"
    /\ Steps["auth"] = "service" /\ Steps["service"] = "serve"
  BY DEF Steps

\* The counters of the type invariant, and the rest of it.
Counts == /\ calls \in 0 .. MaxCalls
          /\ recorded \in 0 .. MaxRecords /\ owed \in 0 .. recorded /\ exported \in 0 .. recorded
Words  == /\ stdio \in Stdio /\ guard \in BOOLEAN /\ reading \in BOOLEAN
          /\ stage \in {"serve", "stop", "parked"} \cup BeforeServe \cup Leaving
          /\ outcome \in {"none", "ok", "error", "signal"}
          /\ exit \in {"running", "0", "1", "killed by a stop signal", "killed"}
          /\ flush \in {"never", "done", "gave_up"} /\ signals \subseteq StopSignals
          /\ session \in {"open", "ended", "failed"} /\ polled \in {"open", "ended", "failed"}

LEMMA TypesSplit == TypeOK <=> Counts /\ Words
  BY Setup DEF TypeOK, Counts, Words, BeforeServe, Leaving

\* The server starts in the invariant.
LEMMA InvInit == Init => Inv
<1> SUFFICES ASSUME Init PROVE Inv
  OBVIOUS
<1>1. TypeOK
  <2>1. Counts
    BY LifecycleAssumption DEF Init, Counts
  <2>2. Words
    BY DEF Init, Words, BeforeServe
  <2> QED
    BY <2>1, <2>2, TypesSplit
<1>2. Prepares /\ Guarded /\ HasReason
  BY DEF Init, Prepares, Guarded, HasReason, BeforeServe, Leaving, Empty
<1>3. EveryExitFlushes /\ ExitSaysWhy
  BY DEF Init, EveryExitFlushes, ExitSaysWhy
<1> QED
  BY <1>1, <1>2, <1>3 DEF Inv

\* The branches of the select that polls `serve` first.
LEMMA ServePolled ==
    ASSUME PollServe, session \in {"open", "ended", "failed"}
    PROVE  \/ session = "ended" /\ Settle("ok", "unwind")
           \/ session = "failed" /\ Settle("error", "unwind")
           \/ session = "open" /\ stage' = "stop" /\ UNCHANGED <<outcome, owed>>
<1>1. CASE session = "open"
  BY <1>1 DEF PollServe
<1>2. CASE session = "ended"
  BY <1>2 DEF PollServe
<1>3. CASE session = "failed"
  BY <1>3 DEF PollServe
<1> QED
  BY <1>1, <1>2, <1>3

\* The counters: what is owed or exported is what was recorded at that moment.
LEMMA CountsStep == Counts /\ Words /\ [Next]_vars => Counts'
<1> SUFFICES ASSUME Counts, Words, [Next]_vars PROVE Counts'
  OBVIOUS
<1> USE LifecycleAssumption DEF Counts, telemetry
<1>1. CASE UNCHANGED <<calls, telemetry>>
  BY <1>1
<1>2. CASE UNCHANGED <<calls, recorded, exported>> /\ owed' \in {owed, recorded}
  BY <1>2
<1>3. CASE UNCHANGED <<calls, recorded, owed>> /\ exported' \in {exported, recorded}
  BY <1>3
<1>4. CASE CallStarts
  BY <1>4 DEF CallStarts
<1>5. CASE CallEnds
  BY <1>5 DEF CallEnds
<1>6. CASE InitTelemetry \/ SetupFails \/ PollStop
  BY <1>2, <1>6 DEF InitTelemetry, SetupFails, Fails, PollStop, Settle
<1>7. CASE PollServe
  BY <1>2, <1>7, ServePolled DEF PollServe, Settle, Words
<1>8. CASE Unwind \/ FlushAndExit
  BY <1>1, <1>3, <1>8 DEF Unwind, FlushAndExit, DropGuard
<1> QED
  BY <1>1, <1>4, <1>5, <1>6, <1>7, <1>8
     DEF Next, Main, SetUp, Load, Environment, Gone, vars, Advance, Wake, RuntimeEnds,
         HangUp, StopSignal, SessionEnds, SessionFails

\* The rest of the types.
LEMMA WordsStep == Words /\ [Next]_vars => Words'
<1> SUFFICES ASSUME Words, [Next]_vars PROVE Words'
  OBVIOUS
<1>1. CASE UNCHANGED vars
  <2>1. /\ stdio' = stdio /\ guard' = guard /\ reading' = reading /\ stage' = stage
        /\ outcome' = outcome /\ exit' = exit /\ flush' = flush /\ signals' = signals
        /\ session' = session /\ polled' = polled
    BY <1>1 DEF vars, telemetry, transport
  <2>2. stdio' \in Stdio /\ guard' \in BOOLEAN /\ reading' \in BOOLEAN
    BY <2>1 DEF Words
  <2>3. stage' \in {"serve", "stop", "parked"} \cup BeforeServe \cup Leaving
    BY <2>1 DEF Words
  <2>4. /\ outcome' \in {"none", "ok", "error", "signal"}
        /\ exit' \in {"running", "0", "1", "killed by a stop signal", "killed"}
        /\ flush' \in {"never", "done", "gave_up"} /\ signals' \subseteq StopSignals
    BY <2>1 DEF Words
  <2>5. session' \in {"open", "ended", "failed"} /\ polled' \in {"open", "ended", "failed"}
    BY <2>1 DEF Words
  <2> QED
    BY <2>2, <2>3, <2>4, <2>5 DEF Words
<1> USE Setup DEF Words, telemetry, transport, BeforeServe, Leaving
<1>2. CASE InitTelemetry \/ Wake \/ SetupFails
  <2>1. CASE InitTelemetry
    BY <2>1 DEF InitTelemetry
  <2>2. CASE Wake
    BY <2>2 DEF Wake
  <2>3. CASE SetupFails
    BY <2>3 DEF SetupFails, Fails, Settle
  <2> QED
    BY <1>2, <2>1, <2>2, <2>3
<1>3. CASE \E s \in DOMAIN Steps : Advance(s)
  BY <1>3 DEF Advance
<1>4. CASE PollServe
  BY <1>4, ServePolled, ZenonT(30) DEF PollServe, Settle
<1>5. CASE PollStop
  BY <1>5, ZenonT(30) DEF PollStop, Settle
<1>6. CASE Unwind \/ RuntimeEnds \/ FlushAndExit
  <2>1. CASE Unwind
    BY <2>1 DEF Unwind, DropGuard
  <2>2. CASE RuntimeEnds
    <3>1. exit' \in {"running", "0", "1", "killed by a stop signal", "killed"}
      BY <2>2 DEF RuntimeEnds
    <3>2. /\ stdio' \in Stdio /\ guard' \in BOOLEAN /\ reading' \in BOOLEAN
          /\ stage' \in {"serve", "stop", "parked"} \cup BeforeServe \cup Leaving
      BY <2>2 DEF RuntimeEnds
    <3>3. /\ outcome' \in {"none", "ok", "error", "signal"}
          /\ flush' \in {"never", "done", "gave_up"} /\ signals' \subseteq StopSignals
          /\ session' \in {"open", "ended", "failed"} /\ polled' \in {"open", "ended", "failed"}
      BY <2>2 DEF RuntimeEnds
    <3> QED BY <3>1, <3>2, <3>3
  <2>3. CASE FlushAndExit
    BY <2>3, ZenonT(30) DEF FlushAndExit, DropGuard
  <2> QED
    BY <1>6, <2>1, <2>2, <2>3
<1>7. CASE HangUp \/ \E s \in StopSignals : StopSignal(s)
  BY <1>7 DEF HangUp, StopSignal
<1>8. CASE SessionEnds \/ SessionFails
  BY <1>8 DEF SessionEnds, SessionFails
<1>9. CASE CallStarts \/ CallEnds
  BY <1>9 DEF CallStarts, CallEnds
<1> QED
  BY <1>1, <1>2, <1>3, <1>4, <1>5, <1>6, <1>7, <1>8, <1>9
     DEF Next, Main, SetUp, Load, Environment, Gone

\* Both together.
LEMMA TypedStep == TypeOK /\ [Next]_vars => TypeOK'
<1>1. Counts' /\ Words' => TypeOK'
  BY Setup DEF TypeOK, Counts, Words, BeforeServe, Leaving
<1> QED
  BY <1>1, TypesSplit, CountsStep, WordsStep

\* Every step keeps the invariant; the exit status is set once, by the last step.
LEMMA InvStep == Inv /\ [Next]_vars => Inv'
<1> SUFFICES ASSUME Inv, [Next]_vars PROVE Inv'
  OBVIOUS
<1>0. TypeOK /\ Prepares /\ Guarded /\ HasReason /\ EveryExitFlushes /\ ExitSaysWhy
  BY DEF Inv
<1>00. TypeOK'
  BY <1>0, TypedStep
<1> SUFFICES Prepares' /\ Guarded' /\ HasReason' /\ EveryExitFlushes' /\ ExitSaysWhy'
  BY <1>00 DEF Inv
<1> USE <1>0, Setup DEF telemetry, transport, At, Running, BeforeServe, Leaving, Empty
<1>1. CASE UNCHANGED vars
  BY <1>1 DEF vars, Prepares, Guarded, HasReason, EveryExitFlushes, ExitSaysWhy
<1>2. CASE InitTelemetry
  BY <1>2 DEF InitTelemetry, Prepares, Guarded, HasReason, EveryExitFlushes, ExitSaysWhy
<1>3. CASE \E s \in DOMAIN Steps : Advance(s)
  <2>1. PICK s \in DOMAIN Steps : Advance(s)
    BY <1>3
  <2>2. /\ stage = s /\ stage' = Steps[s] /\ reading' = (s = "service" /\ stdio)
        /\ UNCHANGED <<outcome, exit, signals, calls, telemetry, stdio, session, polled>>
    BY <2>1 DEF Advance
  <2>3. Prepares'
    BY <2>2 DEF Prepares
  <2>4. Guarded' /\ HasReason'
    BY <2>2 DEF Prepares, Guarded, HasReason
  <2>5. EveryExitFlushes' /\ ExitSaysWhy'
    BY <2>1 DEF Advance, EveryExitFlushes, ExitSaysWhy
  <2> QED
    BY <2>3, <2>4, <2>5
<1>4. CASE SetupFails
  BY <1>4 DEF SetupFails, Fails, Settle, Prepares, Guarded, HasReason, EveryExitFlushes,
              ExitSaysWhy
<1>5. CASE PollServe
  BY <1>5 DEF PollServe, Settle, TypeOK, Prepares, Guarded, HasReason, EveryExitFlushes,
              ExitSaysWhy
<1>6. CASE PollStop \/ Wake
  BY <1>6 DEF PollStop, Wake, Settle, Prepares, Guarded, HasReason, EveryExitFlushes,
              ExitSaysWhy
<1>7. CASE Unwind
  BY <1>7 DEF Unwind, DropGuard, TypeOK, Prepares, Guarded, HasReason, EveryExitFlushes,
              ExitSaysWhy
<1>8. CASE RuntimeEnds
  <2>1. EveryExitFlushes'
    BY <1>8 DEF RuntimeEnds, Guarded, EveryExitFlushes
  <2>2. ExitSaysWhy'
    BY <1>8 DEF RuntimeEnds, HasReason, ExitSaysWhy, TypeOK
  <2>3. Prepares' /\ Guarded' /\ HasReason'
    BY <1>8 DEF RuntimeEnds, Prepares, Guarded, HasReason
  <2> QED
    BY <2>1, <2>2, <2>3
<1>9. CASE FlushAndExit
  <2>1. EveryExitFlushes'
    BY <1>9 DEF FlushAndExit, DropGuard, TypeOK, EveryExitFlushes
  <2>2. ExitSaysWhy'
    BY <1>9 DEF FlushAndExit, HasReason, ExitSaysWhy
  <2>3. Prepares' /\ Guarded' /\ HasReason'
    BY <1>9 DEF FlushAndExit, DropGuard, Prepares, Guarded, HasReason
  <2> QED
    BY <2>1, <2>2, <2>3
<1>10. CASE HangUp \/ \E s \in StopSignals : StopSignal(s)
  <2>1. /\ exit = "running" /\ exit' \in {"running", "killed", "killed by a stop signal"}
        /\ exit' = "killed by a stop signal" => stage \in {"telemetry", "signals"}
        /\ signals \subseteq signals'
        /\ UNCHANGED <<stage, outcome, calls, telemetry, transport>>
    BY <1>10 DEF HangUp, StopSignal, Handled
  <2>2. Prepares' /\ Guarded' /\ HasReason'
    BY <2>1 DEF Prepares, Guarded, HasReason
  <2>3. EveryExitFlushes' /\ ExitSaysWhy'
    BY <2>1 DEF Prepares, EveryExitFlushes, ExitSaysWhy
  <2> QED
    BY <2>2, <2>3
<1>11. CASE SessionEnds \/ SessionFails
  BY <1>11 DEF SessionEnds, SessionFails, Serving, Prepares, Guarded, HasReason,
               EveryExitFlushes, ExitSaysWhy
<1>12. CASE CallStarts \/ CallEnds
  <2>1. CASE CallStarts
    BY <2>1 DEF CallStarts, Serving, Prepares, Guarded, HasReason, EveryExitFlushes,
                ExitSaysWhy
  <2>2. CASE CallEnds
    BY <2>2 DEF CallEnds, TypeOK, Prepares, Guarded, HasReason, EveryExitFlushes, ExitSaysWhy
  <2> QED
    BY <1>12, <2>1, <2>2
<1> QED
  BY <1>1, <1>2, <1>3, <1>4, <1>5, <1>6, <1>7, <1>8, <1>9, <1>10, <1>11, <1>12
     DEF Next, Main, SetUp, Load, Environment, Gone

\* The invariant holds throughout the life of the server.
THEOREM Invariance == Spec => []Inv
  BY InvInit, InvStep, PTL DEF Spec

\* The types, and that no more is ever owed or exported than was recorded.
THEOREM TypeCorrect == Spec => []TypeOK
<1>1. Inv => TypeOK
  BY DEF Inv
<1> QED
  BY <1>1, Invariance, PTL

\* Every way out exports the metrics owed, unless the flush ran out of time; a stop
\* signal is fatal only while there is nothing to lose.
THEOREM ExitFlushes == Spec => []EveryExitFlushes
<1>1. Inv => EveryExitFlushes
  BY DEF Inv
<1> QED
  BY <1>1, Invariance, PTL

\* The exit status says why the server ended, as far as it can (a stop and a session its
\* client closed share 0): 0 is never made up, 1 is for a session that failed or never
\* began, and only a failure in the middle of the last poll can be taken for a stop.
THEOREM ExitIsTheReason == Spec => []ExitSaysWhy
<1>1. Inv => ExitSaysWhy
  BY DEF Inv
<1> QED
  BY <1>1, Invariance, PTL
=============================================================================
