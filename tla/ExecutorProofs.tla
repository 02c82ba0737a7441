--------------------------- MODULE ExecutorProofs ---------------------------
(***************************************************************************)
(* Proofs about Executor, for every set of timeouts, stop_afters, grace    *)
(* periods and exit codes: its type invariant, and the safety invariants   *)
(* of a call, from one inductive invariant, Inv.                           *)
(***************************************************************************)
EXTENDS Executor, TLAPS

-----------------------------------------------------------------------------
(* The inductive invariant *)

\* Before the process is started nothing has happened.
BeforeSpawn ==
    /\ pc = "idle" =>
         /\ child = "none" /\ stopper = "off" /\ answer = NoAnswer
         /\ kept = NoAnswer /\ ~cancelled /\ signals = {} /\ warnedFor = -1
    /\ \A s \in Streams : reader[s] = "off" <=> child = "none"

\* Which task is at work where: there is a stopper only under a stop_after, and
\* while the handler waits for it nobody has reaped the child or ended the task; an
\* answer is the handler's last step.
WhoRuns ==
    /\ pc # "done" => answer = NoAnswer
    /\ pc \in {"wait", "terminate"} => call.stop_after = 0
    /\ pc \in {"race", "abort"} => call.stop_after > 0
    /\ stopper # "off" => call.stop_after > 0
    /\ pc \in {"wait", "terminate", "settle", "race"} => child \in {"running", "zombie"}
    /\ pc = "race" => ~cancelled /\ stopper # "aborted"
    /\ pc \in {"abort", "join_stdout", "join_stderr"} => child # "none"
    /\ warnedFor = -1 => signals = {}

\* What each timer still owes: the ages when it has run out.
TimersOwe ==
    /\ pc = "wait" => age + timer >= call.timeout
    /\ pc = "terminate" =>
         /\ warnedFor >= 0 /\ warnedFor + timer >= call.grace
         /\ age >= call.timeout /\ age + timer >= call.timeout + call.grace
    /\ stopper = "sleeping" => age + stopTimer >= call.stop_after
    /\ stopper \in {"polled", "grace", "finished"} => age >= call.stop_after
    /\ pc = "race" /\ stopper = "grace" =>
         /\ warnedFor >= 0 /\ warnedFor + stopTimer >= call.grace
         /\ age + stopTimer >= call.stop_after + call.grace
    /\ pc = "race" /\ stopper = "finished" /\ call.signalable =>
         /\ warnedFor >= call.grace
         /\ age >= call.stop_after + call.grace
    /\ pc = "settle" =>
         /\ age + timer >= Budget + call.grace + 1
         /\ call.signalable =>
              /\ warnedFor >= 0 /\ warnedFor + timer >= 2 * call.grace + 1
              /\ age + timer >= Budget + 2 * call.grace + 1

\* The answer decided on is true already, and is the one that is given.
KeptIsTrue ==
    /\ pc \in {"join_stdout", "join_stderr"} => kept.kind = "ok"
    /\ kept.kind = "ok" =>
         \/ /\ child = "reaped"
            /\ kept.code = IF status.signal = "none" THEN status.code ELSE -1
         \/ /\ kept.code = 0 /\ kept.stopped
            /\ child = "running" => "KILL" \in signals \/ ~call.signalable
    /\ kept.stopped =>
         call.stop_after > 0 /\ age >= call.stop_after + call.grace + 1
    /\ kept.kind # "timeout" /\ (kept.stopped => kept.kind = "ok")
    /\ answer.kind = "ok" => answer = kept
    /\ answer.kind \in {"failed", "not_found"} => ~answer.stopped

\* Only a running child has a pipe of its own; a stream is at its end only when
\* nobody can write to it any more; the answer comes after both.
StreamsAreRead ==
    /\ \A s \in Streams : "child" \in writers[s] => child = "running"
    /\ \A s \in Streams : reader[s] = "eof" => child # "none" /\ NoWriter(s)
    /\ pc = "join_stderr" \/ answer.kind = "ok" => reader["stdout"] \in {"eof", "cut"}
    /\ answer.kind = "ok" => reader["stderr"] \in {"eof", "cut"}

\* What is decided is carried out: nobody is force killed before the handler has
\* settled, an aborted race failed or has its answer, and a stopper sleeps only as
\* long as somebody may still abort it, or nobody is left to.
Decided ==
    /\ pc \in {"idle", "wait", "terminate", "settle", "race"} => "KILL" \notin signals
    /\ pc = "abort" => kept.kind = "ok" \/ kept = Err("failed")
    /\ stopper = "sleeping" => pc \in {"race", "abort", "dropped"}

\* A dead process has a wait status.
DeadHasStatus == child \in {"zombie", "reaped"} => status \in Statuses

Typed == TypeOK /\ DeadHasStatus

\* The inductive invariant: types, tasks, timers and answers together.
Inv ==
    /\ Typed
    /\ BeforeSpawn /\ WhoRuns /\ TimersOwe
    /\ KillIsLast /\ NoEarlySignal
    /\ KeptIsTrue /\ StreamsAreRead /\ TimeoutCondemns
    /\ Decided

-----------------------------------------------------------------------------
(* Types *)

\* The answer for a dead process is an answer: exit_code_from_status is total.
LEMMA ExitCodeIsAnAnswer ==
    ASSUME NEW st \in Statuses, NEW b \in BOOLEAN
    PROVE  Ok(exit_code_from_status(st), b) \in Answers
  BY DEF Statuses, Exited, Signalled, exit_code_from_status, Ok, Answers, NoAnswer, Err

\* The other answers the handler builds.
LEMMA FixedAnswers ==
    /\ NoAnswer \in Answers /\ Ok(0, TRUE) \in Answers
    /\ Err("timeout") \in Answers /\ Err("failed") \in Answers
    /\ Err("not_found") \in Answers
  BY DEF Answers, ErrKinds, Ok

\* Every timer that is set fits below Horizon.
LEMMA TimersFit ==
    ASSUME call \in [timeout : Timeouts, stop_after : StopAfters, grace : Graces,
                    signalable : Signalable]
    PROVE  /\ call.timeout \in Nat /\ call.stop_after \in Nat /\ call.grace \in Nat
           /\ Horizon \in Nat
           /\ Budget \in Nat /\ Budget + 2 * call.grace + 2 < Horizon
           /\ call.timeout + 2 * call.grace + 2 < Horizon
           /\ call.stop_after + 2 * call.grace + 2 < Horizon
           /\ call.signalable \in BOOLEAN
  BY ExecutorAssumption DEF Budget

\* Whoever opens or closes a pipe, only a descendant of a child that has it joins it.
LEMMA PipesStep ==
    ASSUME Pipes, writers \in [Streams -> SUBSET Writers]
    PROVE  /\ writers' \in [Streams -> SUBSET Writers]
           /\ \A r \in Streams :
                \/ writers'[r] \subseteq writers[r]
                \/ Daemons /\ "child" \in writers[r] /\ writers'[r] = writers[r] \cup {"descendant"}
<1>1. PICK s \in Streams : Daemonizes(s) \/ \E p \in Writers : Closes(p, s)
  BY DEF Pipes
<1>2. CASE Daemonizes(s)
  BY <1>2 DEF Daemonizes, Writers
<1>3. CASE \E p \in Writers : Closes(p, s)
  BY <1>3 DEF Closes
<1> QED
  BY <1>1, <1>2, <1>3

\* A call starts with its types.
LEMMA TypedInit == Init => Typed
<1> SUFFICES ASSUME Init PROVE Typed
  OBVIOUS
<1>1. HandlerTypes
  BY FixedAnswers DEF Init, HandlerTypes
<1>2. TaskTypes
  BY DEF Init, TaskTypes
<1>3. ProcessTypes /\ DeadHasStatus
  BY DEF Init, ProcessTypes, DeadHasStatus
<1>4. ClockTypes
  BY ExecutorAssumption DEF Init, ClockTypes
<1> QED
  BY <1>1, <1>2, <1>3, <1>4 DEF Typed, TypeOK

\* Every step keeps the types; each case takes the four groups of variables in turn.
LEMMA TypedStep == Typed /\ [Next]_vars => Typed'
<1> SUFFICES ASSUME Typed, [Next]_vars PROVE Typed'
  OBVIOUS
<1>0. HandlerTypes /\ TaskTypes /\ ProcessTypes /\ ClockTypes /\ DeadHasStatus
  BY DEF Typed, TypeOK
<1> SUFFICES HandlerTypes' /\ TaskTypes' /\ ProcessTypes' /\ ClockTypes' /\ DeadHasStatus'
  BY DEF Typed, TypeOK
<1> USE <1>0 DEF main, stop, process, clock
<1>1. CASE UNCHANGED vars
  <2>1. HandlerTypes'
    BY <1>1 DEF vars, HandlerTypes
  <2>2. TaskTypes'
    BY <1>1 DEF vars, TaskTypes
  <2>3. ProcessTypes' /\ DeadHasStatus'
    BY <1>1 DEF vars, ProcessTypes, DeadHasStatus
  <2>4. ClockTypes'
    BY <1>1 DEF vars, ClockTypes
  <2> QED
    BY <2>1, <2>2, <2>3, <2>4
<1>2. CASE SpawnFails
  <2>1. HandlerTypes'
    BY <1>2, FixedAnswers DEF SpawnFails, Reply, HandlerTypes
  <2>2. TaskTypes'
    BY <1>2 DEF SpawnFails, Reply, TaskTypes
  <2>3. ProcessTypes' /\ DeadHasStatus'
    BY <1>2 DEF SpawnFails, Reply, ProcessTypes, DeadHasStatus
  <2>4. ClockTypes'
    BY <1>2 DEF SpawnFails, Reply, ClockTypes
  <2> QED
    BY <2>1, <2>2, <2>3, <2>4
<1>3. CASE Spawn
  <2>1. HandlerTypes'
    BY <1>3 DEF Spawn, HandlerTypes
  <2>2. TaskTypes'
    BY <1>3 DEF Spawn, TaskTypes
  <2>3. ProcessTypes' /\ DeadHasStatus'
    BY <1>3 DEF Spawn, Writers, ProcessTypes, DeadHasStatus
  <2>4. ClockTypes'
    BY <1>3, TimersFit DEF Spawn, ClockTypes, HandlerTypes
  <2> QED
    BY <2>1, <2>2, <2>3, <2>4
<1>4. CASE WaitCompletes \/ SettledDead \/ RaceReaps
  <2>0. kept' \in Answers
    <3>1. status \in Statuses
      BY <1>4 DEF WaitCompletes, SettledDead, RaceReaps, DeadHasStatus
    <3>2. /\ FALSE \in BOOLEAN /\ (call.stop_after > 0) \in BOOLEAN
      OBVIOUS
    <3>3. \/ kept' = Ok(exit_code_from_status(status), FALSE)
          \/ kept' = Ok(exit_code_from_status(status), call.stop_after > 0)
      BY <1>4 DEF WaitCompletes, SettledDead, RaceReaps
    <3> QED
      BY <3>1, <3>2, <3>3, ExitCodeIsAnAnswer
  <2>1. HandlerTypes'
    BY <1>4, <2>0, FixedAnswers DEF WaitCompletes, SettledDead, RaceReaps, HandlerTypes
  <2>2. TaskTypes'
    BY <1>4 DEF WaitCompletes, SettledDead, RaceReaps, TaskTypes
  <2>3. ProcessTypes' /\ DeadHasStatus'
    BY <1>4 DEF WaitCompletes, SettledDead, RaceReaps, ProcessTypes, DeadHasStatus
  <2>4. ClockTypes'
    BY <1>4 DEF WaitCompletes, SettledDead, RaceReaps, ClockTypes
  <2> QED
    BY <2>1, <2>2, <2>3, <2>4
<1>5. CASE WaitFails \/ RaceFails
  <2>1. HandlerTypes'
    BY <1>5, FixedAnswers DEF WaitFails, RaceFails, Reply, HandlerTypes
  <2>2. TaskTypes'
    BY <1>5 DEF WaitFails, RaceFails, Reply, TaskTypes
  <2>3. ProcessTypes' /\ DeadHasStatus'
    BY <1>5 DEF WaitFails, RaceFails, Reply, ProcessTypes, DeadHasStatus
  <2>4. ClockTypes'
    BY <1>5 DEF WaitFails, RaceFails, Reply, ClockTypes
  <2> QED
    BY <2>1, <2>2, <2>3, <2>4
<1>6. CASE TimeoutElapses \/ TerminateReturns \/ StopperJoined
  <2>1. HandlerTypes'
    BY <1>6
       DEF TimeoutElapses, TerminateReturns, StopperJoined, Warn, SettleTime,
           HandlerTypes
  <2>2. TaskTypes'
    BY <1>6
       DEF TimeoutElapses, TerminateReturns, StopperJoined, Warn, SettleTime,
           TaskTypes
  <2>3. ProcessTypes' /\ DeadHasStatus'
    BY <1>6
       DEF TimeoutElapses, TerminateReturns, StopperJoined, Warn, SettleTime,
           ProcessTypes, DeadHasStatus
  <2>4. ClockTypes'
    BY <1>6, TimersFit
       DEF TimeoutElapses, TerminateReturns, StopperJoined, Warn, SettleTime,
           ClockTypes, HandlerTypes
  <2> QED
    BY <2>1, <2>2, <2>3, <2>4
<1>7. CASE SettledAlive
  <2>1. HandlerTypes'
    BY <1>7, FixedAnswers DEF SettledAlive, ForceKill, Reply, HandlerTypes
  <2>2. TaskTypes'
    BY <1>7 DEF SettledAlive, ForceKill, Reply, TaskTypes
  <2>3. ProcessTypes' /\ DeadHasStatus'
    BY <1>7 DEF SettledAlive, ForceKill, Reply, ProcessTypes, DeadHasStatus
  <2>4. ClockTypes'
    BY <1>7 DEF SettledAlive, ForceKill, Reply, ClockTypes
  <2> QED
    BY <2>1, <2>2, <2>3, <2>4
<1>8. CASE AbortStopper
  <2>1. HandlerTypes'
    BY <1>8, FixedAnswers DEF AbortStopper, Reply, HandlerTypes
  <2>2. TaskTypes'
    BY <1>8 DEF AbortStopper, Reply, TaskTypes
  <2>3. ProcessTypes' /\ DeadHasStatus'
    BY <1>8 DEF AbortStopper, Reply, ProcessTypes, DeadHasStatus
  <2>4. ClockTypes'
    BY <1>8 DEF AbortStopper, Reply, ClockTypes
  <2> QED
    BY <2>1, <2>2, <2>3, <2>4
<1>9. CASE JoinStdout \/ JoinStderr
  <2>1. HandlerTypes'
    BY <1>9, FixedAnswers DEF JoinStdout, JoinStderr, Reply, HandlerTypes
  <2>2. TaskTypes'
    BY <1>9 DEF JoinStdout, JoinStderr, Reply, TaskTypes
  <2>3. ProcessTypes' /\ DeadHasStatus'
    BY <1>9 DEF JoinStdout, JoinStderr, Reply, ProcessTypes, DeadHasStatus
  <2>4. ClockTypes'
    BY <1>9 DEF JoinStdout, JoinStderr, Reply, ClockTypes
  <2> QED
    BY <2>1, <2>2, <2>3, <2>4
<1>10. CASE Stopper
  <2>1. HandlerTypes'
    BY <1>10
       DEF Stopper, StopperWakes, StopperKills, StopperKillsStray, StopperFinishes,
           StopperSleeps, Warn, HandlerTypes
  <2>2. TaskTypes'
    BY <1>10
       DEF Stopper, StopperWakes, StopperKills, StopperKillsStray, StopperFinishes,
           StopperSleeps, Warn, TaskTypes
  <2>3. ProcessTypes' /\ DeadHasStatus'
    BY <1>10
       DEF Stopper, StopperWakes, StopperKills, StopperKillsStray, StopperFinishes,
           StopperSleeps, Warn, ProcessTypes, DeadHasStatus
  <2>4. ClockTypes'
    BY <1>10, TimersFit
       DEF Stopper, StopperWakes, StopperKills, StopperKillsStray, StopperFinishes,
           StopperSleeps, Warn, ClockTypes, HandlerTypes
  <2> QED
    BY <2>1, <2>2, <2>3, <2>4
<1>11. CASE KernelKills \/ OrphanReaped
  <2>1. HandlerTypes'
    BY <1>11 DEF KernelKills, OrphanReaped, Dies, Statuses, HandlerTypes
  <2>2. TaskTypes'
    BY <1>11 DEF KernelKills, OrphanReaped, Dies, Statuses, TaskTypes
  <2>3. ProcessTypes' /\ DeadHasStatus'
    BY <1>11 DEF KernelKills, OrphanReaped, Dies, Statuses, ProcessTypes, DeadHasStatus
  <2>4. ClockTypes'
    BY <1>11 DEF KernelKills, OrphanReaped, Dies, Statuses, ClockTypes
  <2> QED
    BY <2>1, <2>2, <2>3, <2>4
<1>12. CASE \E s \in Streams : ReaderEof(s) \/ ReaderStops(s)
  <2>1. HandlerTypes'
    BY <1>12 DEF ReaderEof, ReaderStops, HandlerTypes
  <2>2. TaskTypes'
    BY <1>12 DEF ReaderEof, ReaderStops, TaskTypes
  <2>3. ProcessTypes' /\ DeadHasStatus'
    BY <1>12 DEF ReaderEof, ReaderStops, ProcessTypes, DeadHasStatus
  <2>4. ClockTypes'
    BY <1>12 DEF ReaderEof, ReaderStops, ClockTypes
  <2> QED
    BY <2>1, <2>2, <2>3, <2>4
<1>13. CASE \E st \in Statuses : ChildExits(st)
  <2>1. HandlerTypes'
    BY <1>13 DEF ChildExits, Dies, HandlerTypes
  <2>2. TaskTypes'
    BY <1>13 DEF ChildExits, Dies, TaskTypes
  <2>3. ProcessTypes' /\ DeadHasStatus'
    BY <1>13 DEF ChildExits, Dies, ProcessTypes, DeadHasStatus
  <2>4. ClockTypes'
    BY <1>13 DEF ChildExits, Dies, ClockTypes
  <2> QED
    BY <2>1, <2>2, <2>3, <2>4
<1>14. CASE Pipes
  <2>1. HandlerTypes'
    BY <1>14 DEF Pipes, Daemonizes, Closes, HandlerTypes
  <2>2. TaskTypes'
    BY <1>14 DEF Pipes, Daemonizes, Closes, TaskTypes
  <2>3. ProcessTypes' /\ DeadHasStatus'
    BY <1>14, PipesStep DEF Pipes, Daemonizes, Closes, ProcessTypes, DeadHasStatus
  <2>4. ClockTypes'
    BY <1>14 DEF Pipes, Daemonizes, Closes, ClockTypes
  <2> QED
    BY <2>1, <2>2, <2>3, <2>4
<1>15. CASE CallerDrops
  <2>1. HandlerTypes'
    BY <1>15 DEF CallerDrops, HandlerTypes
  <2>2. TaskTypes'
    BY <1>15 DEF CallerDrops, TaskTypes
  <2>3. ProcessTypes' /\ DeadHasStatus'
    BY <1>15 DEF CallerDrops, ProcessTypes, DeadHasStatus
  <2>4. ClockTypes'
    BY <1>15 DEF CallerDrops, ClockTypes
  <2> QED
    BY <2>1, <2>2, <2>3, <2>4
<1>16. CASE Tick
  <2>1. HandlerTypes'
    BY <1>16 DEF Tick, Down, Older, HandlerTypes
  <2>2. TaskTypes'
    BY <1>16 DEF Tick, Down, Older, TaskTypes
  <2>3. ProcessTypes' /\ DeadHasStatus'
    BY <1>16 DEF Tick, Down, Older, ProcessTypes, DeadHasStatus
  <2>4. ClockTypes'
    BY <1>16, ExecutorAssumption DEF Tick, Down, Older, ClockTypes
  <2> QED
    BY <2>1, <2>2, <2>3, <2>4
<1>17. CASE Finished
  <2>1. HandlerTypes'
    BY <1>17 DEF Finished, vars, HandlerTypes
  <2>2. TaskTypes'
    BY <1>17 DEF Finished, vars, TaskTypes
  <2>3. ProcessTypes' /\ DeadHasStatus'
    BY <1>17 DEF Finished, vars, ProcessTypes, DeadHasStatus
  <2>4. ClockTypes'
    BY <1>17 DEF Finished, vars, ClockTypes
  <2> QED
    BY <2>1, <2>2, <2>3, <2>4
<1> QED
  BY <1>1, <1>2, <1>3, <1>4, <1>5, <1>6, <1>7, <1>8, <1>9, <1>10, <1>11, <1>12, <1>13,
     <1>14, <1>15, <1>16, <1>17
     DEF Next, Work, Main, Environment

\* Every behaviour of a call keeps the types: in particular no timer goes below 0 or
\* above its bound, and only a dead process has its exit code reported.
THEOREM TypeCorrect == Spec => []TypeOK
<1>1. Typed => TypeOK
  BY DEF Typed
<1> QED
  BY <1>1, TypedInit, TypedStep, PTL DEF Spec

-----------------------------------------------------------------------------
(* Safety *)

\* Integers for the SMT solver.
LEMMA Numbers ==
    ASSUME Typed
    PROVE  /\ timer \in Int /\ stopTimer \in Int /\ age \in Int /\ warnedFor \in Int
           /\ 0 <= timer /\ 0 <= stopTimer /\ 0 <= age /\ -1 <= warnedFor
           /\ age <= Horizon /\ warnedFor <= Horizon
           /\ call.timeout \in Int /\ call.stop_after \in Int /\ call.grace \in Int
           /\ 0 <= call.timeout /\ 0 <= call.stop_after /\ 0 <= call.grace
           /\ Horizon \in Int
           /\ call.timeout + 2 * call.grace + 2 < Horizon
           /\ call.stop_after + 2 * call.grace + 2 < Horizon
  BY ExecutorAssumption, TimersFit DEF Typed, TypeOK, HandlerTypes, ClockTypes

\* A call starts in the invariant.
LEMMA InvInit == Init => Inv
<1> SUFFICES ASSUME Init PROVE Inv
  OBVIOUS
<1>1. Typed
  BY TypedInit
<1>2. BeforeSpawn /\ StreamsAreRead
  BY DEF Init, BeforeSpawn, StreamsAreRead, NoAnswer
<1>3. WhoRuns
  BY DEF Init, WhoRuns, NoAnswer
<1>4. TimersOwe
  BY DEF Init, TimersOwe
<1>5. KillIsLast /\ NoEarlySignal
  BY DEF Init, KillIsLast, NoEarlySignal
<1>6. KeptIsTrue /\ TimeoutCondemns
  BY DEF Init, KeptIsTrue, TimeoutCondemns, NoAnswer
<1>7. Decided
  BY DEF Init, Decided
<1> QED
  BY <1>1, <1>2, <1>3, <1>4, <1>5, <1>6, <1>7 DEF Inv

\* Every step keeps what is decided.
LEMMA DecidedStep == Inv /\ [Next]_vars => Decided'
<1> SUFFICES ASSUME Inv, [Next]_vars PROVE Decided'
  OBVIOUS
<1>0. Decided /\ WhoRuns /\ BeforeSpawn
  BY DEF Inv
<1> USE <1>0 DEF Decided, main, stop, process, clock
<1>1. CASE UNCHANGED vars
  BY <1>1 DEF vars
<1>2. CASE SpawnFails \/ Spawn
  BY <1>2 DEF SpawnFails, Spawn, Reply, BeforeSpawn
<1>3. CASE WaitCompletes \/ WaitFails \/ SettledDead \/ RaceReaps \/ RaceFails
  BY <1>3 DEF WaitCompletes, WaitFails, SettledDead, RaceReaps, RaceFails, Reply, Ok, WhoRuns
<1>4. CASE TimeoutElapses \/ TerminateReturns \/ StopperJoined
  BY <1>4 DEF TimeoutElapses, TerminateReturns, StopperJoined, Warn, WhoRuns
<1>5. CASE SettledAlive \/ AbortStopper \/ JoinStdout \/ JoinStderr
  BY <1>5 DEF SettledAlive, AbortStopper, JoinStdout, JoinStderr, Reply
<1>6. CASE Stopper
  BY <1>6
     DEF Stopper, StopperWakes, StopperKills, StopperKillsStray, StopperFinishes,
         StopperSleeps, Warn
<1>7. CASE KernelKills \/ OrphanReaped \/ CallerDrops \/ Tick \/ Finished
  BY <1>7 DEF KernelKills, OrphanReaped, CallerDrops, Tick, Finished, Dies, vars, WhoRuns
<1>8. CASE \E st \in Statuses : ChildExits(st)
  BY <1>8 DEF ChildExits, Dies
<1>9. CASE Pipes \/ \E s \in Streams : ReaderEof(s) \/ ReaderStops(s)
  BY <1>9 DEF ReaderEof, ReaderStops, Pipes, Daemonizes, Closes
<1> QED
  BY <1>1, <1>2, <1>3, <1>4, <1>5, <1>6, <1>7, <1>8, <1>9 DEF Next, Work, Main, Environment

\* Every step keeps the invariant: in each case the parts the step can disturb one by
\* one, then the rest together.
LEMMA InvStep == Inv /\ [Next]_vars => Inv'
<1> SUFFICES ASSUME Inv, [Next]_vars PROVE Inv'
  OBVIOUS
<1>0. /\ Typed /\ BeforeSpawn /\ WhoRuns /\ TimersOwe /\ KillIsLast /\ NoEarlySignal
      /\ KeptIsTrue /\ StreamsAreRead /\ TimeoutCondemns
  BY DEF Inv
<1>00. Typed' /\ Decided'
  BY <1>0, TypedStep, DecidedStep
<1> SUFFICES /\ BeforeSpawn' /\ WhoRuns' /\ TimersOwe' /\ KillIsLast' /\ NoEarlySignal'
             /\ KeptIsTrue' /\ StreamsAreRead' /\ TimeoutCondemns'
  BY <1>00 DEF Inv
<1> USE <1>0, Numbers DEF main, stop, process, clock, NoAnswer
<1>1. CASE UNCHANGED vars
  BY <1>1
     DEF vars, BeforeSpawn, WhoRuns, TimersOwe, KillIsLast, NoEarlySignal, KeptIsTrue,
         StreamsAreRead, TimeoutCondemns, Budget, NoWriter
<1>2. CASE SpawnFails
  <2>1. BeforeSpawn'
    BY <1>2 DEF SpawnFails, Reply, Err, BeforeSpawn
  <2>2. KeptIsTrue'
    BY <1>2
       DEF SpawnFails, Reply, Err, KeptIsTrue, TimersOwe, WhoRuns, BeforeSpawn, Budget
  <2>3. StreamsAreRead'
    BY <1>2
       DEF SpawnFails, Reply, Err, StreamsAreRead, WhoRuns, BeforeSpawn, NoWriter,
           Streams, KeptIsTrue
  <2>4. WhoRuns' /\ TimersOwe' /\ KillIsLast' /\ NoEarlySignal' /\ TimeoutCondemns'
    BY <1>2
       DEF SpawnFails, Reply, Err, WhoRuns, TimersOwe, KillIsLast, NoEarlySignal,
           TimeoutCondemns, Budget
  <2> QED
    BY <2>1, <2>2, <2>3, <2>4
<1>3. CASE Spawn
  <2>1. BeforeSpawn'
    BY <1>3 DEF Spawn, BeforeSpawn
  <2>2. WhoRuns'
    BY <1>3 DEF Spawn, WhoRuns, BeforeSpawn, TimersOwe
  <2>3. TimersOwe'
    BY <1>3 DEF Spawn, TimersOwe, WhoRuns, BeforeSpawn, Budget
  <2>4. KeptIsTrue'
    BY <1>3 DEF Spawn, KeptIsTrue, TimersOwe, WhoRuns, BeforeSpawn, Budget
  <2>5. StreamsAreRead'
    BY <1>3
       DEF Spawn, StreamsAreRead, WhoRuns, BeforeSpawn, NoWriter, Streams, KeptIsTrue
  <2>6. TimeoutCondemns'
    BY <1>3
       DEF Spawn, TimeoutCondemns, TimersOwe, WhoRuns, BeforeSpawn, Budget, KeptIsTrue
  <2>7. KillIsLast' /\ NoEarlySignal'
    BY <1>3 DEF Spawn, KillIsLast, NoEarlySignal, Budget
  <2> QED
    BY <2>1, <2>2, <2>3, <2>4, <2>5, <2>6, <2>7
<1>4. CASE WaitCompletes
  <2>1. WhoRuns'
    BY <1>4
       DEF WaitCompletes, Ok, exit_code_from_status, WhoRuns, BeforeSpawn, TimersOwe
  <2>2. KeptIsTrue'
    BY <1>4
       DEF WaitCompletes, Ok, exit_code_from_status, KeptIsTrue, TimersOwe, WhoRuns,
           BeforeSpawn, Budget
  <2>3. BeforeSpawn' /\ TimersOwe' /\ KillIsLast' /\ NoEarlySignal'
        /\ StreamsAreRead' /\ TimeoutCondemns'
    BY <1>4
       DEF WaitCompletes, Ok, exit_code_from_status, BeforeSpawn, TimersOwe,
           KillIsLast, NoEarlySignal, StreamsAreRead, TimeoutCondemns, Budget,
           NoWriter
  <2> QED
    BY <2>1, <2>2, <2>3
<1>5. CASE WaitFails \/ RaceFails
  <2>1. WhoRuns'
    BY <1>5 DEF WaitFails, RaceFails, Reply, Err, WhoRuns, BeforeSpawn, TimersOwe
  <2>2. KeptIsTrue'
    BY <1>5
       DEF WaitFails, RaceFails, Reply, Err, KeptIsTrue, TimersOwe, WhoRuns,
           BeforeSpawn, Budget
  <2>3. BeforeSpawn' /\ TimersOwe' /\ KillIsLast' /\ NoEarlySignal'
        /\ StreamsAreRead' /\ TimeoutCondemns'
    BY <1>5
       DEF WaitFails, RaceFails, Reply, Err, BeforeSpawn, TimersOwe, KillIsLast,
           NoEarlySignal, StreamsAreRead, TimeoutCondemns, Budget, NoWriter
  <2> QED
    BY <2>1, <2>2, <2>3
<1>6. CASE TimeoutElapses
  <2>1. WhoRuns'
    BY <1>6 DEF TimeoutElapses, Warn, SettleTime, WhoRuns, BeforeSpawn, TimersOwe
  <2>2. TimersOwe'
    BY <1>6
       DEF TimeoutElapses, Warn, SettleTime, TimersOwe, WhoRuns, BeforeSpawn, Budget
  <2>3. KillIsLast'
    BY <1>6
       DEF TimeoutElapses, Warn, SettleTime, KillIsLast, TimersOwe, WhoRuns,
           BeforeSpawn, Budget
  <2>4. NoEarlySignal'
    BY <1>6
       DEF TimeoutElapses, Warn, SettleTime, NoEarlySignal, TimersOwe, WhoRuns,
           BeforeSpawn, Budget
  <2>5. BeforeSpawn' /\ KeptIsTrue' /\ StreamsAreRead' /\ TimeoutCondemns'
    BY <1>6
       DEF TimeoutElapses, Warn, SettleTime, BeforeSpawn, KeptIsTrue, StreamsAreRead,
           TimeoutCondemns, Budget, NoWriter
  <2> QED
    BY <2>1, <2>2, <2>3, <2>4, <2>5
<1>7. CASE TerminateReturns \/ StopperJoined
  <2>1. WhoRuns'
    BY <1>7
       DEF TerminateReturns, StopperJoined, SettleTime, Typed, TypeOK, TaskTypes,
           WhoRuns, BeforeSpawn, TimersOwe
  <2>2. TimersOwe'
    BY <1>7
       DEF TerminateReturns, StopperJoined, SettleTime, Typed, TypeOK, TaskTypes,
           TimersOwe, WhoRuns, BeforeSpawn, Budget
  <2>3. BeforeSpawn' /\ KillIsLast' /\ NoEarlySignal' /\ KeptIsTrue'
        /\ StreamsAreRead' /\ TimeoutCondemns'
    BY <1>7
       DEF TerminateReturns, StopperJoined, SettleTime, Typed, TypeOK, TaskTypes,
           BeforeSpawn, KillIsLast, NoEarlySignal, KeptIsTrue, StreamsAreRead,
           TimeoutCondemns, Budget, NoWriter
  <2> QED
    BY <2>1, <2>2, <2>3
<1>8. CASE SettledDead
  <2>1. WhoRuns'
    BY <1>8 DEF SettledDead, Ok, exit_code_from_status, WhoRuns, BeforeSpawn, TimersOwe
  <2>2. KeptIsTrue'
    <3>1. CASE call.stop_after > 0
      BY <3>1, <1>8
         DEF SettledDead, Ok, exit_code_from_status, KeptIsTrue, TimersOwe, WhoRuns,
             BeforeSpawn, Budget
    <3>2. CASE ~(call.stop_after > 0)
      BY <3>2, <1>8
         DEF SettledDead, Ok, exit_code_from_status, KeptIsTrue, TimersOwe, WhoRuns,
             BeforeSpawn, Budget
    <3> QED
      BY <3>1, <3>2
  <2>3. BeforeSpawn' /\ TimersOwe' /\ KillIsLast' /\ NoEarlySignal'
        /\ StreamsAreRead' /\ TimeoutCondemns'
    BY <1>8
       DEF SettledDead, Ok, exit_code_from_status, BeforeSpawn, TimersOwe, KillIsLast,
           NoEarlySignal, StreamsAreRead, TimeoutCondemns, Budget, NoWriter
  <2> QED
    BY <2>1, <2>2, <2>3
<1>9. CASE SettledAlive
  <2>1. WhoRuns'
    BY <1>9 DEF SettledAlive, ForceKill, Reply, Err, Ok, WhoRuns, BeforeSpawn, TimersOwe
  <2>2. KillIsLast'
    BY <1>9
       DEF SettledAlive, ForceKill, Reply, Err, Ok, KillIsLast, TimersOwe, WhoRuns,
           BeforeSpawn, Budget
  <2>3. KeptIsTrue'
    BY <1>9
       DEF SettledAlive, ForceKill, Reply, Err, Ok, KeptIsTrue, TimersOwe, WhoRuns,
           BeforeSpawn, Budget
  <2>4. TimeoutCondemns'
    BY <1>9
       DEF SettledAlive, ForceKill, Reply, Err, Ok, TimeoutCondemns, TimersOwe,
           WhoRuns, BeforeSpawn, Budget, KeptIsTrue
  <2>5. BeforeSpawn' /\ TimersOwe' /\ NoEarlySignal' /\ StreamsAreRead'
    BY <1>9
       DEF SettledAlive, ForceKill, Reply, Err, Ok, BeforeSpawn, TimersOwe,
           NoEarlySignal, StreamsAreRead, Budget, NoWriter
  <2> QED
    BY <2>1, <2>2, <2>3, <2>4, <2>5
<1>10. CASE RaceReaps
  <2>1. WhoRuns'
    BY <1>10 DEF RaceReaps, Ok, exit_code_from_status, WhoRuns, BeforeSpawn, TimersOwe
  <2>2. KeptIsTrue'
    BY <1>10
       DEF RaceReaps, Ok, exit_code_from_status, KeptIsTrue, TimersOwe, WhoRuns,
           BeforeSpawn, Budget
  <2>3. BeforeSpawn' /\ TimersOwe' /\ KillIsLast' /\ NoEarlySignal'
        /\ StreamsAreRead' /\ TimeoutCondemns'
    BY <1>10
       DEF RaceReaps, Ok, exit_code_from_status, BeforeSpawn, TimersOwe, KillIsLast,
           NoEarlySignal, StreamsAreRead, TimeoutCondemns, Budget, NoWriter
  <2> QED
    BY <2>1, <2>2, <2>3
<1>11. CASE AbortStopper
  <2>1. WhoRuns'
    BY <1>11 DEF AbortStopper, Reply, WhoRuns, BeforeSpawn, TimersOwe
  <2>2. KeptIsTrue'
    BY <1>11
       DEF AbortStopper, Reply, KeptIsTrue, TimersOwe, WhoRuns, BeforeSpawn, Budget
  <2>3. StreamsAreRead'
    BY <1>11
       DEF AbortStopper, Reply, StreamsAreRead, WhoRuns, BeforeSpawn, NoWriter,
           Streams, KeptIsTrue
  <2>4. TimeoutCondemns'
    BY <1>11
       DEF AbortStopper, Reply, TimeoutCondemns, TimersOwe, WhoRuns, BeforeSpawn,
           Budget, KeptIsTrue
  <2>5. BeforeSpawn' /\ TimersOwe' /\ KillIsLast' /\ NoEarlySignal'
    BY <1>11
       DEF AbortStopper, Reply, BeforeSpawn, TimersOwe, KillIsLast, NoEarlySignal,
           Budget
  <2> QED
    BY <2>1, <2>2, <2>3, <2>4, <2>5
<1>12. CASE JoinStdout \/ JoinStderr
  <2>1. WhoRuns'
    BY <1>12
       DEF JoinStdout, JoinStderr, Reply, Typed, TypeOK, TaskTypes, WhoRuns,
           BeforeSpawn, TimersOwe
  <2>2. KeptIsTrue'
    BY <1>12
       DEF JoinStdout, JoinStderr, Reply, Typed, TypeOK, TaskTypes, KeptIsTrue,
           TimersOwe, WhoRuns, BeforeSpawn, Budget
  <2>3. StreamsAreRead'
    BY <1>12
       DEF JoinStdout, JoinStderr, Reply, Typed, TypeOK, TaskTypes, StreamsAreRead,
           WhoRuns, BeforeSpawn, NoWriter, Streams, KeptIsTrue
  <2>4. TimeoutCondemns'
    BY <1>12
       DEF JoinStdout, JoinStderr, Reply, Typed, TypeOK, TaskTypes, TimeoutCondemns,
           TimersOwe, WhoRuns, BeforeSpawn, Budget, KeptIsTrue
  <2>5. BeforeSpawn' /\ TimersOwe' /\ KillIsLast' /\ NoEarlySignal'
    BY <1>12
       DEF JoinStdout, JoinStderr, Reply, Typed, TypeOK, TaskTypes, BeforeSpawn,
           TimersOwe, KillIsLast, NoEarlySignal, Budget
  <2> QED
    BY <2>1, <2>2, <2>3, <2>4, <2>5
<1>13. CASE StopperWakes \/ StopperFinishes
  <2>1. WhoRuns'
    BY <1>13 DEF StopperWakes, StopperFinishes, WhoRuns, BeforeSpawn, TimersOwe
  <2>2. TimersOwe'
    BY <1>13 DEF StopperWakes, StopperFinishes, TimersOwe, WhoRuns, BeforeSpawn, Budget
  <2>3. BeforeSpawn' /\ KillIsLast' /\ NoEarlySignal' /\ KeptIsTrue'
        /\ StreamsAreRead' /\ TimeoutCondemns'
    BY <1>13
       DEF StopperWakes, StopperFinishes, BeforeSpawn, KillIsLast, NoEarlySignal,
           KeptIsTrue, StreamsAreRead, TimeoutCondemns, Budget, NoWriter
  <2> QED
    BY <2>1, <2>2, <2>3
<1>14. CASE StopperKills
  <2>1. WhoRuns'
    BY <1>14
       DEF StopperKills, StopperSleeps, Warn, PidIsOurs, WhoRuns, BeforeSpawn,
           TimersOwe
  <2>2. TimersOwe'
    BY <1>14
       DEF StopperKills, StopperSleeps, Warn, PidIsOurs, TimersOwe, WhoRuns,
           BeforeSpawn, Budget
  <2>3. KillIsLast'
    BY <1>14
       DEF StopperKills, StopperSleeps, Warn, PidIsOurs, KillIsLast, TimersOwe,
           WhoRuns, BeforeSpawn, Budget
  <2>4. NoEarlySignal'
    BY <1>14
       DEF StopperKills, StopperSleeps, Warn, PidIsOurs, NoEarlySignal, TimersOwe,
           WhoRuns, BeforeSpawn, Budget
  <2>5. BeforeSpawn' /\ KeptIsTrue' /\ StreamsAreRead' /\ TimeoutCondemns'
    BY <1>14
       DEF StopperKills, StopperSleeps, Warn, PidIsOurs, BeforeSpawn, KeptIsTrue,
           StreamsAreRead, TimeoutCondemns, Budget, NoWriter
  <2> QED
    BY <2>1, <2>2, <2>3, <2>4, <2>5
<1>15. CASE StopperKillsStray
  <2>1. WhoRuns'
    BY <1>15
       DEF StopperKillsStray, StopperSleeps, PidIsOurs, WhoRuns, BeforeSpawn,
           TimersOwe
  <2>2. TimersOwe'
    BY <1>15
       DEF StopperKillsStray, StopperSleeps, PidIsOurs, TimersOwe, WhoRuns,
           BeforeSpawn, Budget
  <2>3. BeforeSpawn' /\ KillIsLast' /\ NoEarlySignal' /\ KeptIsTrue'
        /\ StreamsAreRead' /\ TimeoutCondemns'
    BY <1>15
       DEF StopperKillsStray, StopperSleeps, PidIsOurs, BeforeSpawn, KillIsLast,
           NoEarlySignal, KeptIsTrue, StreamsAreRead, TimeoutCondemns, Budget,
           NoWriter
  <2> QED
    BY <2>1, <2>2, <2>3
<1>16. CASE KernelKills
  <2>1. WhoRuns'
    BY <1>16 DEF KernelKills, Dies, WhoRuns, BeforeSpawn, TimersOwe
  <2>2. KeptIsTrue'
    BY <1>16 DEF KernelKills, Dies, KeptIsTrue, TimersOwe, WhoRuns, BeforeSpawn, Budget
  <2>3. BeforeSpawn' /\ TimersOwe' /\ KillIsLast' /\ NoEarlySignal'
        /\ StreamsAreRead' /\ TimeoutCondemns'
    BY <1>16
       DEF KernelKills, Dies, BeforeSpawn, TimersOwe, KillIsLast, NoEarlySignal,
           StreamsAreRead, TimeoutCondemns, Budget, NoWriter
  <2> QED
    BY <2>1, <2>2, <2>3
<1>17. CASE OrphanReaped
  <2>1. WhoRuns'
    BY <1>17 DEF OrphanReaped, WhoRuns, BeforeSpawn, TimersOwe
  <2>2. KeptIsTrue'
    BY <1>17 DEF OrphanReaped, KeptIsTrue, TimersOwe, WhoRuns, BeforeSpawn, Budget
  <2>3. BeforeSpawn' /\ TimersOwe' /\ KillIsLast' /\ NoEarlySignal'
        /\ StreamsAreRead' /\ TimeoutCondemns'
    BY <1>17
       DEF OrphanReaped, BeforeSpawn, TimersOwe, KillIsLast, NoEarlySignal,
           StreamsAreRead, TimeoutCondemns, Budget, NoWriter
  <2> QED
    BY <2>1, <2>2, <2>3
<1>18. CASE \E s \in Streams : ReaderEof(s) \/ ReaderStops(s)
  <2>1. PICK s \in Streams : ReaderEof(s) \/ ReaderStops(s)
    BY <1>18
  <2>2. \A r \in Streams :
           \/ reader'[r] = reader[r]
           \/ reader[r] # "off" /\ reader'[r] = "cut"
           \/ reader[r] # "off" /\ reader'[r] = "eof" /\ NoWriter(r)
    BY <2>1 DEF ReaderEof, ReaderStops, Typed, TypeOK, TaskTypes
  <2>3. BeforeSpawn'
    BY <2>1, <2>2 DEF ReaderEof, ReaderStops, BeforeSpawn
  <2>4. StreamsAreRead'
    BY <2>1, <2>2
       DEF ReaderEof, ReaderStops, StreamsAreRead, BeforeSpawn, NoWriter, Streams
  <2>5. WhoRuns' /\ TimersOwe' /\ KillIsLast' /\ NoEarlySignal' /\ KeptIsTrue'
        /\ TimeoutCondemns'
    BY <2>1
       DEF ReaderEof, ReaderStops, WhoRuns, TimersOwe, KillIsLast, NoEarlySignal,
           KeptIsTrue, TimeoutCondemns, Budget
  <2> QED
    BY <2>3, <2>4, <2>5
<1>19. CASE \E st \in Statuses : ChildExits(st)
  <2>1. WhoRuns'
    BY <1>19 DEF ChildExits, Dies, WhoRuns, BeforeSpawn, TimersOwe
  <2>2. KeptIsTrue'
    BY <1>19 DEF ChildExits, Dies, KeptIsTrue, TimersOwe, WhoRuns, BeforeSpawn, Budget
  <2>3. TimeoutCondemns'
    BY <1>19
       DEF ChildExits, Dies, TimeoutCondemns, TimersOwe, WhoRuns, BeforeSpawn, Budget,
           KeptIsTrue
  <2>4. BeforeSpawn' /\ TimersOwe' /\ KillIsLast' /\ NoEarlySignal' /\ StreamsAreRead'
    BY <1>19
       DEF ChildExits, Dies, BeforeSpawn, TimersOwe, KillIsLast, NoEarlySignal,
           StreamsAreRead, Budget, NoWriter
  <2> QED
    BY <2>1, <2>2, <2>3, <2>4
<1>20. CASE Pipes
  <2>1. BeforeSpawn'
    BY <1>20 DEF Pipes, Daemonizes, Closes, BeforeSpawn
  <2>2. StreamsAreRead'
    <3>1. \A r \in Streams :
             \/ writers'[r] \subseteq writers[r]
             \/ "child" \in writers[r] /\ writers'[r] = writers[r] \cup {"descendant"}
      BY <1>20, PipesStep DEF Typed, TypeOK, ProcessTypes
    <3>2. UNCHANGED <<child, reader, pc, answer>>
      BY <1>20 DEF Pipes, Daemonizes, Closes
    <3> QED
      BY <3>1, <3>2 DEF StreamsAreRead, NoWriter
  <2>3. WhoRuns' /\ TimersOwe' /\ KillIsLast' /\ NoEarlySignal' /\ KeptIsTrue'
        /\ TimeoutCondemns'
    BY <1>20
       DEF Pipes, Daemonizes, Closes, WhoRuns, TimersOwe, KillIsLast,
           NoEarlySignal, KeptIsTrue, TimeoutCondemns, Budget
  <2> QED
    BY <2>1, <2>2, <2>3
<1>21. CASE CallerDrops
  <2>1. WhoRuns'
    BY <1>21 DEF CallerDrops, WhoRuns, BeforeSpawn, TimersOwe
  <2>2. BeforeSpawn' /\ TimersOwe' /\ KillIsLast' /\ NoEarlySignal'
        /\ KeptIsTrue' /\ StreamsAreRead' /\ TimeoutCondemns'
    BY <1>21
       DEF CallerDrops, BeforeSpawn, TimersOwe, KillIsLast, NoEarlySignal, KeptIsTrue,
           StreamsAreRead, TimeoutCondemns, Budget, NoWriter
  <2> QED
    BY <2>1, <2>2
<1>22. CASE Tick
  <2>1. TimersOwe'
    BY <1>22 DEF Tick, Down, Older, TimersOwe, WhoRuns, BeforeSpawn, Budget
  <2>2. KillIsLast'
    BY <1>22 DEF Tick, Down, Older, KillIsLast, TimersOwe, WhoRuns, BeforeSpawn, Budget
  <2>3. NoEarlySignal'
    BY <1>22
       DEF Tick, Down, Older, NoEarlySignal, TimersOwe, WhoRuns, BeforeSpawn, Budget
  <2>4. KeptIsTrue'
    BY <1>22 DEF Tick, Down, Older, KeptIsTrue, TimersOwe, WhoRuns, BeforeSpawn, Budget
  <2>5. TimeoutCondemns'
    BY <1>22
       DEF Tick, Down, Older, TimeoutCondemns, TimersOwe, WhoRuns, BeforeSpawn,
           Budget, KeptIsTrue
  <2>6. BeforeSpawn' /\ WhoRuns' /\ StreamsAreRead'
    BY <1>22 DEF Tick, Down, Older, BeforeSpawn, WhoRuns, StreamsAreRead, NoWriter
  <2> QED
    BY <2>1, <2>2, <2>3, <2>4, <2>5, <2>6
<1>23. CASE Finished
  BY <1>23
     DEF Finished, vars, BeforeSpawn, WhoRuns, TimersOwe, KillIsLast, NoEarlySignal,
         KeptIsTrue, StreamsAreRead, TimeoutCondemns, Budget, NoWriter
<1> QED
  BY <1>1, <1>2, <1>3, <1>4, <1>5, <1>6, <1>7, <1>8, <1>9, <1>10, <1>11, <1>12, <1>13,
     <1>14, <1>15, <1>16, <1>17, <1>18, <1>19, <1>20, <1>21, <1>22, <1>23
     DEF Next, Work, Main, Stopper, Environment

\* The invariant holds throughout every call, with any parameters and any lateness.
THEOREM Invariance == Spec => []Inv
  BY InvInit, InvStep, PTL DEF Spec

\* SIGKILL comes last: after the budget, a termination signal and twice the grace
\* period, however late the tasks run.
THEOREM KillLast == Spec => []KillIsLast
<1>1. Inv => KillIsLast
  BY DEF Inv
<1> QED
  BY <1>1, Invariance, PTL

\* No process is signalled before its budget is used up.
THEOREM SignalOnTime == Spec => []NoEarlySignal
<1>1. Inv => NoEarlySignal
  BY DEF Inv
<1> QED
  BY <1>1, Invariance, PTL

\* An exit code in an answer is the one of the reaped child, or the 0 of a
\* stop_after that left nothing alive it could kill.
THEOREM ExitCodeHonest == Spec => []HonestExitCode
<1>1. Inv => HonestExitCode
  BY DEF Inv, KeptIsTrue, HonestExitCode
<1> QED
  BY <1>1, Invariance, PTL

\* stopped_after is never reported early, nor without a stop_after.
THEOREM StoppedLate == Spec => []StoppedIsLate
<1>1. Inv => StoppedIsLate
  <2> SUFFICES ASSUME Inv, answer.stopped
               PROVE  call.stop_after > 0 /\ age >= call.stop_after + call.grace + 1
    BY DEF StoppedIsLate
  <2>1. answer.kind = "ok"
    BY DEF Inv, TimeoutCondemns, KeptIsTrue, Typed, TypeOK, HandlerTypes, Answers, NoAnswer,
           Err, ErrKinds
  <2> QED
    BY <2>1 DEF Inv, KeptIsTrue
<1> QED
  BY <1>1, Invariance, PTL

\* A timeout leaves nothing alive that could have been killed.
THEOREM TimeoutKills == Spec => []TimeoutCondemns
<1>1. Inv => TimeoutCondemns
  BY DEF Inv
<1> QED
  BY <1>1, Invariance, PTL

\* The output of an answer is complete, or cut by its own reader.
THEOREM OutputIsComplete == Spec => []OutputComplete
<1>1. Inv => OutputComplete
  BY DEF Inv, StreamsAreRead, OutputComplete, Streams
<1> QED
  BY <1>1, Invariance, PTL

\* The stopper's sleep ends only while the handler may still abort it, or after the
\* caller has dropped the call: no answered call signals its pid later.
THEOREM WakesInTime == Spec => NoLateWake
<1>1. Inv => (StopperWakes => pc \in {"race", "abort", "dropped"})
  BY DEF Inv, Decided, StopperWakes
<1> QED
  BY <1>1, Invariance, PTL DEF NoLateWake

-----------------------------------------------------------------------------
(* A lightly loaded server *)

\* What is left of each sleep and what has passed never exceed the deadline, and nobody
\* but the child holds a pipe.
OnTime ==
    /\ \A s \in Streams : "descendant" \notin writers[s]
    /\ pc = "idle" => age = 0
    /\ pc = "wait" => age + timer <= Budget
    /\ pc = "terminate" => age + timer <= Budget + call.grace
    /\ pc = "race" => stopper \in {"sleeping", "polled", "grace", "finished"}
    /\ pc = "race" /\ stopper = "sleeping" => age + stopTimer <= Budget
    /\ pc = "race" /\ stopper = "polled" => age <= Budget
    /\ pc = "race" /\ stopper = "grace" => age + stopTimer <= Budget + call.grace
    /\ pc = "race" /\ stopper = "finished" => age <= Budget + call.grace
    /\ pc = "settle" => age + timer <= Budget + 2 * call.grace + 1
    /\ pc = "abort" => age <= Budget + call.grace
    /\ pc \in {"join_stdout", "join_stderr"} /\ call.signalable =>
         age <= Budget + 2 * call.grace + 1

\* A call starts on time.
LEMMA OnTimeInit == Init => OnTime
  BY DEF Init, OnTime

\* A second passes: the sleep is a second shorter, the call at most a second older.
LEMMA Passing ==
    ASSUME NEW a \in Int, NEW b \in Int, NEW t \in Int, NEW u, NEW d \in Int,
           b <= a + 1, u = t - 1, a + t <= d
    PROVE  b + u <= d
  OBVIOUS

\* While time passes, nothing is ready: the sleep somebody waits for is not over, and
\* nobody waits for the readers.
LEMMA TickOnTime ==
    ASSUME Inv, OnTime, PromptTick
    PROVE  OnTime'
<1>0. /\ age' <= age + 1 /\ age' \in Int /\ age \in Int /\ Budget \in Int
      /\ timer' = Down(timer) /\ stopTimer' = Down(stopTimer) /\ ~Ready
      /\ timer \in Int /\ 0 <= timer /\ stopTimer \in Int /\ 0 <= stopTimer
      /\ UNCHANGED <<call, pc, stopper, writers>> /\ Budget' = Budget /\ pc # "idle"
      /\ call.grace \in Int
  <2>1. Typed /\ age' = Older(age)
    BY DEF Inv, PromptTick, Tick
  <2>2. age' <= age + 1 /\ age' \in Int
    BY <2>1, Numbers DEF Older
  <2>3. Budget \in Int
    BY <2>1, Numbers DEF Budget
  <2>4. UNCHANGED <<call, pc, stopper, writers>> /\ Budget' = Budget
    BY DEF PromptTick, Tick, process, Budget
  <2> QED
    BY <2>1, <2>2, <2>3, <2>4, Numbers DEF PromptTick, Tick
<1>1. CASE pc \in {"wait", "terminate", "settle"}
  <2>1. timer # 0
    BY <1>0, <1>1 DEF Ready
  <2>2. timer' = timer - 1
    BY <1>0, <2>1 DEF Down
  <2>3. CASE pc = "wait"
    <3>1. age + timer <= Budget
      BY <1>1, <2>3 DEF OnTime
    <3>2. age' + timer' <= Budget
      BY <1>0, <2>2, <3>1, Passing, Zenon
    <3> QED
      BY <1>0, <1>1, <2>3, <3>2 DEF OnTime
  <2>4. CASE pc = "terminate"
    <3>1. age + timer <= Budget + call.grace
      BY <1>1, <2>4 DEF OnTime
    <3>2. age' + timer' <= Budget + call.grace
      BY <1>0, <2>2, <3>1
    <3> QED
      BY <1>0, <1>1, <2>4, <3>2 DEF OnTime
  <2>5. CASE pc = "settle"
    <3>1. age + timer <= Budget + 2 * call.grace + 1
      BY <1>1, <2>5 DEF OnTime
    <3>2. age' + timer' <= Budget + 2 * call.grace + 1
      BY <1>0, <2>2, <3>1
    <3> QED
      BY <1>0, <1>1, <2>5, <3>2 DEF OnTime
  <2> QED
    BY <1>1, <2>3, <2>4, <2>5
<1>2. CASE pc = "race"
  <2>1. stopper \in {"sleeping", "grace"} /\ stopTimer # 0
    BY <1>0, <1>2 DEF Ready, OnTime
  <2>2. stopTimer' = stopTimer - 1
    BY <1>0, <2>1 DEF Down
  <2>3. CASE stopper = "sleeping"
    <3>1. age + stopTimer <= Budget
      BY <1>2, <2>3 DEF OnTime
    <3>2. age' + stopTimer' <= Budget
      BY <1>0, <2>2, <3>1, Passing, Zenon
    <3> QED
      BY <1>0, <1>2, <2>3, <3>2 DEF OnTime
  <2>4. CASE stopper = "grace"
    <3>1. age + stopTimer <= Budget + call.grace
      BY <1>2, <2>4 DEF OnTime
    <3>2. age' + stopTimer' <= Budget + call.grace
      BY <1>0, <2>2, <3>1
    <3> QED
      BY <1>0, <1>2, <2>4, <3>2 DEF OnTime
  <2> QED
    BY <2>1, <2>3, <2>4
<1>3. CASE pc \in {"join_stdout", "join_stderr"}
  <2>1. ~call.signalable
    <3>1. ASSUME call.signalable PROVE FALSE
      <4>1. child # "running"
        <5>1. kept.kind = "ok" /\ (child = "running" => "KILL" \in signals)
          BY <1>3, <3>1 DEF Inv, KeptIsTrue
        <5> QED
          BY <1>0, <5>1 DEF Ready
      <4>2. \A s \in Streams : NoWriter(s)
        <5>1. \A s \in Streams : writers[s] \subseteq Writers
          BY DEF Inv, Typed, TypeOK, ProcessTypes
        <5>2. \A s \in Streams : "child" \notin writers[s] /\ "descendant" \notin writers[s]
          BY <4>1 DEF OnTime, Inv, StreamsAreRead
        <5> QED
          BY <5>1, <5>2 DEF NoWriter, Writers
      <4>3. \A s \in Streams : reader[s] # "reading"
        BY <1>0, <4>2 DEF Ready
      <4> QED
        BY <1>0, <1>3, <4>3 DEF Ready, Streams
    <3> QED
      BY <3>1
  <2> QED
    BY <1>0, <1>3, <2>1 DEF OnTime
<1>4. CASE pc \notin {"wait", "terminate", "settle", "race", "join_stdout", "join_stderr"}
  <2>1. pc # "abort"
    BY <1>0 DEF Ready
  <2> QED
    BY <1>0, <1>4, <2>1 DEF OnTime
<1> QED
  BY <1>1, <1>2, <1>3, <1>4

\* The other steps take no time, and what they start fits into the deadline.
LEMMA WorkOnTime ==
    ASSUME Inv, OnTime, ~Daemons, Work \/ Environment
    PROVE  OnTime'
<1>0. /\ WhoRuns /\ OnTime /\ age' = age /\ call' = call /\ Budget' = Budget
      /\ age \in Int /\ timer \in Int /\ 0 <= timer /\ stopTimer \in Int /\ 0 <= stopTimer
      /\ call.grace \in Int /\ 0 <= call.grace /\ Budget \in Int /\ 0 <= Budget
      /\ call.timeout \in Int /\ call.stop_after \in Int /\ 0 <= call.stop_after
  <2>1. WhoRuns /\ Typed
    BY DEF Inv
  <2>2. UNCHANGED <<call, age>>
    BY DEF Work, Main, Stopper, Environment, SpawnFails, Spawn, WaitCompletes, WaitFails,
           TimeoutElapses, TerminateReturns, StopperJoined, SettledDead, SettledAlive,
           RaceReaps, RaceFails, AbortStopper, JoinStdout, JoinStderr, StopperWakes,
           StopperKills, StopperKillsStray, StopperFinishes, KernelKills, OrphanReaped,
           ReaderEof, ReaderStops, ChildExits, Pipes, Daemonizes, Closes, CallerDrops,
           clock
  <2>3. Budget \in Int /\ 0 <= Budget
    BY <2>1, Numbers DEF Budget
  <2> QED
    BY <2>1, <2>2, <2>3, Numbers DEF Budget
<1> USE <1>0 DEF main, stop, process
<1>1. CASE SpawnFails
  BY <1>1 DEF SpawnFails, Reply, OnTime
<1>2. CASE Spawn
  BY <1>2 DEF Spawn, OnTime, Budget
<1>3. CASE WaitCompletes \/ WaitFails
  <2>1. pc = "wait" /\ writers' = writers /\ pc' \in {"join_stdout", "done"}
    BY <1>3 DEF WaitCompletes, WaitFails, Reply
  <2>2. age <= Budget + 2 * call.grace + 1
    BY <2>1 DEF OnTime
  <2> QED
    BY <2>1, <2>2 DEF OnTime
<1>4. CASE TimeoutElapses
  BY <1>4 DEF TimeoutElapses, SettleTime, OnTime
<1>5. CASE TerminateReturns \/ StopperJoined
  BY <1>5 DEF TerminateReturns, StopperJoined, SettleTime, OnTime
<1>6. CASE SettledDead \/ SettledAlive
  <2>1. /\ pc = "settle" /\ timer = 0 /\ writers' = writers
        /\ pc' \in {"join_stdout", "done"}
    BY <1>6 DEF SettledDead, SettledAlive, Reply
  <2>2. age <= Budget + 2 * call.grace + 1
    BY <2>1 DEF OnTime
  <2> QED
    BY <2>1, <2>2 DEF OnTime
<1>7. CASE RaceReaps \/ RaceFails
  <2>1. pc = "race" /\ pc' \in {"abort"} /\ writers' = writers
    BY <1>7 DEF RaceReaps, RaceFails
  <2>2. age <= Budget + call.grace
    BY <2>1 DEF OnTime
  <2> QED
    BY <2>1, <2>2 DEF OnTime
<1>8. CASE AbortStopper \/ JoinStdout \/ JoinStderr \/ CallerDrops
  BY <1>8 DEF AbortStopper, JoinStdout, JoinStderr, CallerDrops, Reply, OnTime
<1>9. CASE StopperWakes \/ StopperFinishes
  BY <1>9 DEF StopperWakes, StopperFinishes, OnTime
<1>10. CASE StopperKills
  BY <1>10 DEF StopperKills, StopperSleeps, WhoRuns, OnTime
<1>11. CASE StopperKillsStray
  <2>1. pc # "race"
    BY <1>11 DEF StopperKillsStray, PidIsOurs, WhoRuns
  <2> QED
    BY <1>11, <2>1 DEF StopperKillsStray, OnTime
<1>12. CASE KernelKills \/ OrphanReaped \/ \E st \in Statuses : ChildExits(st)
  <2>1. \A r \in Streams : writers'[r] \subseteq writers[r]
    BY <1>12 DEF KernelKills, OrphanReaped, ChildExits, Dies
  <2>2. UNCHANGED <<pc, timer, stopper, stopTimer>>
    BY <1>12 DEF KernelKills, OrphanReaped, ChildExits
  <2> QED
    BY <2>1, <2>2 DEF OnTime
<1>13. CASE Pipes \/ \E s \in Streams : ReaderEof(s) \/ ReaderStops(s)
  <2>1. \A r \in Streams : writers'[r] \subseteq writers[r]
    BY <1>13, PipesStep DEF ReaderEof, ReaderStops, Inv, Typed, TypeOK, ProcessTypes
  <2>2. UNCHANGED <<pc, timer, stopper, stopTimer>>
    BY <1>13 DEF ReaderEof, ReaderStops, Pipes, Daemonizes, Closes
  <2> QED
    BY <2>1, <2>2 DEF OnTime
<1> QED
  BY <1>1, <1>2, <1>3, <1>4, <1>5, <1>6, <1>7, <1>8, <1>9, <1>10, <1>11, <1>12, <1>13
     DEF Work, Main, Stopper, Environment

\* When time passes only if nothing is ready, a call whose process may be signalled and
\* leaves no descendant behind is answered by its budget, two grace periods and a second.
THEOREM DeadlineKept ==
    ASSUME ~Daemons
    PROVE  PromptSpec => []AnsweredByDeadline
<1>1. Inv /\ OnTime /\ [PromptNext]_vars => Inv' /\ OnTime'
  <2> SUFFICES ASSUME Inv, OnTime, [PromptNext]_vars PROVE Inv' /\ OnTime'
    OBVIOUS
  <2>1. [Next]_vars
    BY DEF PromptNext, PromptTick, Next
  <2>2. Inv'
    BY <2>1, InvStep
  <2>3. OnTime'
    <3>1. CASE UNCHANGED vars
      BY <3>1 DEF vars, main, stop, process, clock, OnTime, Budget
    <3>2. CASE Work \/ Environment
      BY <3>2, WorkOnTime
    <3>3. CASE PromptTick
      BY <3>3, TickOnTime
    <3> QED
      BY <3>1, <3>2, <3>3 DEF PromptNext, Finished
  <2> QED
    BY <2>2, <2>3
<1>2. Inv /\ OnTime => AnsweredByDeadline
  <2> SUFFICES ASSUME Inv, OnTime, call.signalable, pc \notin {"done", "dropped"}
               PROVE  ~(age > Budget + 2 * call.grace + 1)
    BY DEF AnsweredByDeadline
  <2>1. Typed /\ TypeOK
    BY DEF Inv, Typed
  <2>2. /\ age \in Int /\ timer \in Int /\ 0 <= timer /\ stopTimer \in Int /\ 0 <= stopTimer
        /\ call.grace \in Int /\ 0 <= call.grace /\ Budget \in Int /\ 0 <= Budget
    BY <2>1, Numbers DEF Budget
  <2>3. pc \in {"idle", "wait", "terminate", "settle", "race", "abort",
                "join_stdout", "join_stderr"}
    BY <2>1 DEF TypeOK, HandlerTypes
  <2> QED
    BY <2>2, <2>3 DEF OnTime
<1> QED
  BY <1>1, <1>2, InvInit, OnTimeInit, PTL DEF PromptSpec

-----------------------------------------------------------------------------
(* Refinement *)

\* A step that leaves alone all that the contract sees is a stutter of the contract.
LEMMA Stutter ==
    ASSUME UNCHANGED <<call, child, status, signals, reader, answer>>
    PROVE  UNCHANGED Contract!cvars
  BY DEF Contract!cvars, life, condemned, drained

\* A reaped zombie is as dead as before.
LEMMA ReapingStutters ==
    ASSUME child = "zombie", child' = "reaped",
           UNCHANGED <<call, status, signals, reader, answer>>
    PROVE  UNCHANGED Contract!cvars
  BY DEF Contract!cvars, life, condemned, drained

\* The contract and the call deal in the same values.
LEMMA SameValues ==
    /\ Contract!NoStatus = NoStatus /\ Contract!Statuses = Statuses
    /\ Contract!NoAnswer = NoAnswer
    /\ \A k : Contract!Err(k) = Err(k)
    /\ \A c, b : Contract!Ok(c, b) = Ok(c, b)
    /\ \A st : Contract!exit_code_from_status(st) = exit_code_from_status(st)
  BY DEF Contract!NoStatus, NoStatus, Contract!Statuses, Statuses, Contract!NoAnswer,
         NoAnswer, Contract!Err, Err, Contract!Ok, Ok, Contract!exit_code_from_status,
         exit_code_from_status, Contract!Exited, Exited, Contract!Signalled, Signalled,
         Contract!NoCode, NoCode

\* The answers that join_stderr may give: kept, with a code that is the process's, or
\* the 0 of a stopped call that condemned what it could.
LEMMA KeptIsOwed ==
    ASSUME Inv, pc = "join_stderr"
    PROVE  \/ /\ life = "dead"
              /\ \E s \in {FALSE, call.stop_after > 0} :
                    kept = Ok(exit_code_from_status(status), s)
           \/ /\ call.stop_after > 0 /\ kept = Ok(0, TRUE)
              /\ call.signalable => condemned \/ life = "dead"
<1>1. kept.kind = "ok"
  BY DEF Inv, KeptIsTrue
<1>2. kept = Ok(kept.code, kept.stopped) /\ kept.stopped \in BOOLEAN
  BY <1>1 DEF Inv, Typed, TypeOK, HandlerTypes, Answers, NoAnswer, Err, ErrKinds, Ok
<1>3. child # "none"
  BY DEF Inv, WhoRuns
<1>4. CASE child = "reaped" /\ kept.code = IF status.signal = "none" THEN status.code ELSE -1
  <2>1. kept.stopped = FALSE \/ kept.stopped = (call.stop_after > 0)
    BY <1>1, <1>2 DEF Inv, KeptIsTrue
  <2> QED
    BY <1>2, <1>4, <2>1 DEF life, exit_code_from_status
<1>5. CASE /\ kept.code = 0 /\ kept.stopped
           /\ child = "running" => "KILL" \in signals \/ ~call.signalable
  BY <1>1, <1>2, <1>3, <1>5 DEF Inv, KeptIsTrue, life, condemned
<1> QED
  BY <1>1, <1>4, <1>5 DEF Inv, KeptIsTrue

\* Every step of a call is a step of the contract, or leaves alone what it sees.
LEMMA ContractStep == Inv /\ [Next]_vars => [Contract!CNext]_(Contract!cvars)
<1> SUFFICES ASSUME Inv, [Next]_vars PROVE Contract!CNext \/ UNCHANGED Contract!cvars
  OBVIOUS
<1>0. Typed /\ BeforeSpawn /\ WhoRuns /\ KeptIsTrue /\ StreamsAreRead /\ Decided
  BY DEF Inv
<1> USE <1>0, SameValues DEF main, stop, process, clock, Contract!CNext
<1>1. CASE UNCHANGED vars
  BY <1>1, Stutter DEF vars
<1>2. CASE SpawnFails
  BY <1>2
     DEF SpawnFails, Reply, Contract!AnswerNotFound, Contract!Answer, WhoRuns, BeforeSpawn,
         life, condemned, drained
<1>3. CASE Spawn
  <2>1. drained = FALSE /\ drained' = FALSE
    BY <1>3 DEF Spawn, BeforeSpawn, drained, Streams
  <2> QED
    BY <1>3, <2>1 DEF Spawn, Contract!Launch, BeforeSpawn, life, condemned
<1>4. CASE WaitCompletes \/ SettledDead \/ RaceReaps \/ OrphanReaped
  BY <1>4, ReapingStutters DEF WaitCompletes, SettledDead, RaceReaps, OrphanReaped
<1>5. CASE WaitFails
  BY <1>5
     DEF WaitFails, Reply, Contract!AnswerFailed, Contract!Answer, WhoRuns, life,
         condemned, drained
<1>6. CASE TimeoutElapses
  BY <1>6 DEF TimeoutElapses, Warn, Contract!cvars, life, condemned, drained
<1>7. CASE TerminateReturns \/ StopperJoined \/ RaceFails \/ JoinStdout \/ CallerDrops \/ Tick
  BY <1>7, Stutter
     DEF TerminateReturns, StopperJoined, RaceFails, JoinStdout, CallerDrops, Tick
<1>8. CASE SettledAlive
  <2>1. /\ "KILL" \notin signals /\ answer = NoAnswer /\ child # "none"
        /\ call.signalable \in BOOLEAN
    BY <1>8, TimersFit DEF SettledAlive, Decided, WhoRuns, Typed, TypeOK, HandlerTypes
  <2>2. CASE call.stop_after > 0 /\ call.signalable /\ child = "running"
    BY <1>8, <2>2
       DEF SettledAlive, ForceKill, Contract!Condemn, life, condemned, drained
  <2>3. CASE call.stop_after > 0 /\ ~(call.signalable /\ child = "running")
    BY <1>8, <2>3, Stutter DEF SettledAlive, ForceKill
  <2>4. CASE ~(call.stop_after > 0)
    <3>1. condemned' = (call.signalable /\ life = "alive")
      BY <1>8, <2>1 DEF SettledAlive, ForceKill, life, condemned
    <3>2. UNCHANGED <<call, status, life, drained>> /\ life # "none"
      BY <1>8, <2>1 DEF SettledAlive, life, drained
    <3> QED
      BY <1>8, <2>1, <2>4, <3>1, <3>2
         DEF SettledAlive, Reply, Contract!AnswerTimeout, Contract!Answer
  <2> QED
    BY <2>2, <2>3, <2>4
<1>9. CASE AbortStopper
  <2>1. CASE kept.kind = "ok"
    BY <1>9, <2>1, Stutter DEF AbortStopper
  <2>2. CASE kept.kind # "ok"
    BY <1>9, <2>2
       DEF AbortStopper, Reply, Contract!AnswerFailed, Contract!Answer, Decided, WhoRuns,
           life, condemned, drained
  <2> QED
    BY <2>1, <2>2
<1>10. CASE JoinStderr
  <2>1. drained
    BY <1>10
       DEF JoinStderr, StreamsAreRead, BeforeSpawn, WhoRuns, drained, Streams, Typed,
           TypeOK, TaskTypes
  <2>2. answer = NoAnswer /\ answer' = kept
    BY <1>10 DEF JoinStderr, Reply, WhoRuns
  <2>3. UNCHANGED <<call, child, status, signals, reader>>
    BY <1>10 DEF JoinStderr
  <2>4. UNCHANGED <<life, condemned, drained>>
    BY <2>3 DEF life, condemned, drained
  <2>5. Contract!AnswerExited \/ Contract!AnswerStopped
    BY <1>10, <2>1, <2>2, <2>3, <2>4, KeptIsOwed
       DEF JoinStderr, Contract!AnswerExited, Contract!AnswerStopped, Contract!Answer
  <2> QED
    BY <2>5
<1>11. CASE StopperWakes \/ StopperFinishes \/ StopperKillsStray
  BY <1>11, Stutter DEF StopperWakes, StopperFinishes, StopperKillsStray
<1>12. CASE StopperKills
  BY <1>12 DEF StopperKills, Warn, Contract!cvars, life, condemned, drained
<1>13. CASE KernelKills
  BY <1>13
     DEF KernelKills, Dies, Statuses, Contract!Die, life, condemned, drained
<1>14. CASE \E st \in Statuses : ChildExits(st)
  BY <1>14 DEF ChildExits, Dies, Contract!Die, life, condemned, drained
<1>15. CASE \E s \in Streams : ReaderEof(s) \/ ReaderStops(s)
  <2>1. PICK s \in Streams : ReaderEof(s) \/ ReaderStops(s)
    BY <1>15
  <2>2. UNCHANGED <<call, child, status, signals, answer, life, condemned>>
    BY <2>1 DEF ReaderEof, ReaderStops, life, condemned
  <2>3. drained = FALSE /\ drained' \in BOOLEAN
    BY <2>1 DEF ReaderEof, ReaderStops, drained
  <2>4. life # "none"
    BY <2>1 DEF ReaderEof, ReaderStops, BeforeSpawn, life
  <2>5. CASE drained'
    BY <2>2, <2>4, <2>5 DEF Contract!Drain
  <2>6. CASE ~drained'
    BY <2>2, <2>3, <2>6 DEF Contract!cvars
  <2> QED
    BY <2>5, <2>6
<1>16. CASE Pipes
  BY <1>16, Stutter DEF Pipes, Daemonizes, Closes
<1>17. CASE Finished
  BY <1>17, Stutter DEF Finished, vars
<1> QED
  BY <1>1, <1>2, <1>3, <1>4, <1>5, <1>6, <1>7, <1>8, <1>9, <1>10, <1>11, <1>12, <1>13,
     <1>14, <1>15, <1>16, <1>17
     DEF Next, Work, Main, Stopper, Environment

\* A call implements its contract: one answer, true about the process, and nothing
\* left alive that could have been killed, with any parameters, in any interleaving of
\* its tasks.
THEOREM Refinement == Spec => ImplementsContract
<1>1. Init => Contract!CInit
  <2> SUFFICES ASSUME Init PROVE Contract!CInit
    OBVIOUS
  <2>1. (call.stop_after > 0) \in BOOLEAN /\ call.signalable \in BOOLEAN
    BY TimersFit DEF Init
  <2>2. life = "none" /\ condemned = FALSE /\ drained = FALSE
    BY DEF Init, life, condemned, drained, Streams
  <2> QED
    BY <2>1, <2>2, SameValues DEF Init, Contract!CInit
<1> QED
  BY <1>1, ContractStep, Invariance, PTL DEF Spec, ImplementsContract, Contract!CSpec
=============================================================================
