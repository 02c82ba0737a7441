# Verification of command-mcp

command-mcp is an MCP server whose tools are command lines from a TOML file. A
`tools/call` becomes the arguments of a process; the process runs under a timeout,
its output is cut to a budget of lines, and an answer goes back to the client.
This directory holds TLA+ models of the program, TLC configurations that check
them, and proofs that TLAPS checks. Paths are those of the repository, which is
under `src/`: `src/src/executor.rs` is the executor.

Contents: 1 the system, 2 modules and code, 3 runs, 4 differences found between
code and documents, 5 proofs, 6 what is not modelled, 7 plan.

## 1. The system

| component | source | state | operations |
|---|---|---|---|
| Executor | `src/src/executor.rs` 168-465 | per call: handler, `stop_after` task, two readers, the child | `execute_command`, `handle_stop_after`, `handle_timeout`, `terminate_process`, `force_kill_process`, `exit_code_from_status` |
| Output collector | `src/src/executor.rs` 14-154 | head, tail (a ring), counts, the unfinished line | `collect_capped_lines`, `CappedOutput::render` |
| Tool calls | `src/src/service.rs` 106-440 | per call: argument vector, limits, answer; none between calls | `call_tool`, `execute_tool_call`, `execution_outcome` |
| Shell argument parser | `src/src/service.rs` 24-106 | the words, the word so far, two quote flags, an escape flag | `parse_shell_args` |
| Tool registry | `src/src/tools.rs` | the map of resolved tools, fixed after the start | `from_config`, `generate_tool_schema`, `validate_runtime_overrides` |
| Configuration | `src/src/config.rs` | the parsed file, fixed after the start | `validate`, `resolve_tool`, `default_arg_order`, `get_all_tools` |
| Server lifecycle | `src/src/main.rs` | telemetry guard, remembered stop signals, the session | start, serve, stop, flush, `resolve_ws_auth` |
| Schema output | `src/src/config_schema.rs` | none | prints static documents |
| Errors | `src/src/error.rs` | none | messages and codes |
| mcp-core | a dependency | protocol, transports, metrics, shutdown helpers | as the code uses them |

How they interact. `main` installs the stop signals, loads and validates the file,
decides how the websocket is guarded, builds the registry and serves; none of this
state changes afterwards. mcp-core calls `call_tool` for each request, each in its
own task. `execute_tool_call` builds the arguments and the limits and awaits
`execute_command`, which spawns the child and, for each call anew, up to three tasks.
The handler shares nothing with them but the child's pid (copied into the stopper)
and the join handles. It shares the child itself with the kernel.

What is hard, and the property each component owes:

- Executor. Four tasks, a process and its descendants run at their own pace: the
  timeout races with the end of the child, `abort` with the stopper's `kill`, a
  reader with a descendant that keeps the pipe. Signals may be refused, `waitpid` may
  fail, the caller may go away at any `await`. Owed: the answer is true about the
  process and its output is complete; no signal before its time and SIGKILL last; no
  process outlives its call; the call returns.
- Output collector. A ring over an unbounded stream, two budgets of which each may be
  zero, a byte ceiling that is looked at once a line. Owed: exactly the first and last
  lines, the true number of missing ones, bounded memory.
- Tool calls. Everything is decided before the process is started, and then the answer
  is classified twice. Owed: a refused call runs nothing; the command line is what the
  caller gave, in one order; no override above the MAX; metric and reply agree.
- Configuration and registry. Loops over HashMaps; checks made in one place and relied
  on in another. Owed: the verdict does not depend on an order, the later stages have
  nothing left to reject, what is served is what is in the file, and authentication
  that is asked for is never dropped.
- Shell argument parser. Each character may change what the next one means, and styles
  mix within a word. Owed: words come back as they were quoted, in order and complete.
- Tool list. What is advertised and what a call does are computed in different places
  from the same knobs, and a missing `arg_order` is guessed. Owed: what the schema allows
  is accepted and all of it is used.
- Server lifecycle. Signals, the end of the session and calls in flight meet `main` at
  any moment, and the two ways out differ: one unwinds and waits for the runtime, one
  ends the process. Owed: every way out flushes, the exit status tells why, and a stop
  ends the server.

`PROJECT.json` lists the hazards one by one, each at its line, with the properties
that would catch it, or with the reason why none does.

## 2. Modules and code

| module | what it is |
|---|---|
| `ExecutionResult` | exit codes, wait statuses, the answers of a call, `exit_code_from_status` |
| `ExecutionContract` | abstract: what one call of `execute_command` promises |
| `Executor` | detailed: one call, all tasks, processes and timers; implements the contract |
| `ExecutorClaims` | sentences of the documents about calls that the code does not keep |
| `CappedOutput`, `CappedOutputClaims` | the collector and `render` |
| `Configuration`, `MCConfiguration` | from the parsed file to the served tools |
| `ToolCall`, `MCToolCall` | one `tools/call`, over `ExecutionContract` |
| `ShellArgs`, `MCShellArgs` | `parse_shell_args`, and all short inputs with their meaning |
| `Catalog`, `MCCatalog` | `tools/list`, then a call the schema allows, over `ToolCall` |
| `Lifecycle` | `serve` from the telemetry guard to the end of the process |
| `MCValues` | parameters and JSON values shared by `MCToolCall` and `MCCatalog` |
| `ExecutorProofs`, `CappedOutputProofs`, `ConfigurationProofs`, `ToolCallProofs`, `ShellArgsProofs`, `CatalogProofs`, `LifecycleProofs` | the inductive invariant of each component and its theorems |
| `DataLemmas` | induction over sets of numbers, counting, shared by the proofs |

An operator whose name ends in `_Something` (`Down_Wraps`, `Seen_InGroup`) is another
operator with a plausible bug. No specification uses one; with it in place of the
right operator, a property named in `PROJECT.json` fails.

**Executor.** `pc` is the place of the handler: `wait` (the timed `child.wait()`),
`race` (the `select!` of `handle_stop_after`), `abort` (between the end of the select
and `abort()`), `terminate` and `settle` (the two sleeps), the two joins. `stopper` is
the spawned task; `polled` is its state between waking and its next `await`, the only
one in which `abort()` comes too late. `reader` has the two readers. `child`, `status`,
`signals` and `writers` are the kernel's view: a zombie still accepts signals, a reaped
child's pid is no longer ours, a pipe ends when neither the child nor a descendant is
among its `writers`; the child may close or redirect its own end and go on running, and a
descendant inherits only what is open. A reader that stops early (`cut`: ceiling, read error, not UTF-8)
is joined at once. `timer` and `stopTimer` count down in seconds; `age` and `warnedFor`
count up and exist for the properties only. `Tick` may run while code is waiting for
the processor, so every task may be arbitrarily late; in `PromptSpec` it may run only when
nothing is `Ready`. A `waitpid` that may fail is not something ready: it would keep time
from passing for good.
Which lines are read is left to `CappedOutput`; `Executor` needs only whether reading
has ended. The signal is TERM for SIGTERM and SIGINT alike.

**CappedOutput.** A line is its number. `read_line` is split into chunks so that the
unfinished line, which no check of the code bounds, is visible in `pending`.

**Configuration.** One action per group and tool of `validate`, `resolve_ws_auth`,
then `get_all_tools` and the registry, in the order of `main`. Every loop over the
groups takes them in any order. A limit is a pair (value, max) on each of two levels;
the model treats the five limits alike, except that a tool's own `timeout` may not be
0. Which of several errors is reported is left out.

**ToolCall.** `todo` is the list that the two emit loops go through. The argument
vector holds where each element comes from: a flag, a value, or the i-th word of a
value. A JSON value keeps what the code asks of it: its kind, whether it reads as off,
its amount and whether `as_i64` or `as_u64` can return it, its number of words. `Keep` is the
filter of the second emit loop (a recursive function, so that it can be proved about). `Running` is
`ExecutionContract!CNext`: any execution the contract allows, with `stops` bound to the
limit the call computed. `Executor` implements that contract (run `executor_safety`).
A value's `words` is what `ShellArgs` ends with: the number of its words, or -1 when its
result is `unclosed`.

**ShellArgs.** One action per arm of the `match`, over six classes of characters; t, n and
r, which name a control character after a backslash in double quotes, are one class.
A character of a word carries its place in the text. The text is never judged by a
second parser: `Init` writes it from a script, the pieces its writer meant, and `WordsOf`
reads the words off the pieces. A piece has a style (gap, bare, single, double), atoms (a
character, plain or after a backslash) and an end. `IsScript` says what can be written: a
bare character is a letter or escaped, a string holds what its quotes allow, and only the
last piece may be a backslash before nothing or a string without its closing quote.

**Catalog.** `resolve` and `generate_tool_schema` are functions of the tool; `Conventions`
is the chain of branches of `default_arg_order` as a table, the first row that applies
wins. `ClientCalls` is any client that keeps to types and `required`. The call is
`ToolCall`'s own actions up to `Execute`; what follows does not depend on the schema.

**Lifecycle.** `stage` is the place of `main`: the setup steps, `serve` and `stop` (the two
arms of the biased `select!`, polled in this order), `parked`, then `unwind` and `unwound`
(the return path) or `flush_and_exit`. `session` is what the future of `serve` would
return, and `polled` what it was when `main` was last polled; `reading` is the thread blocked in a read of standard input, for which the end
of the runtime waits. A call in flight is a number; when it ends it records one metric,
whatever `main` is doing. `owed` freezes what was recorded when `main` settled on its
way out.

## 3. Runs

| run | bounds | shows |
|---|---|---|
| `executor_safety` | timeouts, stop_afters, grace 0 and 1; exit codes 0 and 1; refused signals, failing waitpid, children that close their pipes, descendants that keep them, dropped calls all allowed | `Inv` of the proofs; `TypeOK`; `KillIsLast`, `NoEarlySignal`, `HonestExitCode`, `StoppedIsLate`, `TimeoutCondemns`, `OutputComplete`; `NoLateWake` (an action property); `ImplementsContract` (refinement) |
| `executor_liveness` | timeout, grace 1; stop_after 0 and 1; descendants | `CallReturns`, `NothingLeftRunning` under `FairSpec` |
| `executor_prompt` | timeouts 0, 2; stop_afters 0, 1, 3; grace 0 to 2; failing waitpid | `AnsweredByDeadline` when time passes only if nothing is ready |
| `capped_output` | budgets 0 to 3, ceiling 8 bytes, chunks of 1 and 3, lines up to 4 bytes | `HeadIsFirst`, `TailIsLast`, `RenderIsExact`, `KeepsWithinBudget` |
| `configuration` | every combination of a tool's and its group's limits; two groups with colliding names and bad tools; all authentication sections and command lines | `VerdictIsTheFiles`, `ValidateIsEnough`, `RegistryIsTheFile`, `AboveMaxIsMixed`, `AuthFailsClosed` |
| `tool_call` | three tools (a splitting, a required, a toggle parameter; one named like an override; one listed twice), 14 shapes of value, overrides below, at, above the max, negative, fractional, beyond i64 | `ArgvIsTheCall`, `ArgvInOrder`, `NothingRunsUnchecked`, `SuccessIsReal`, `RecordAgrees` |
| `shell_args` | all 9331 texts of up to 5 characters | `WordsAsQuoted`, `WordsAreTheText` |
| `catalog` | all 1024 sets of the ten names with a convention; each kind and type of parameter alone, also under the name of an override; mixed tools with and without an order, one order naming a parameter twice; overrides advertised or not | `AdvertisedIsAccepted`, `GivenIsUsed`, `ConventionKept` |
| `lifecycle` | both transports, 2 calls in flight, 3 metrics | `EveryExitFlushes`, `ExitSaysWhy`; `EndsWhenAsked` under `FairSpec` |
| `claim_*` | see 4 | each finds the state its claim forbids |

Why the bounds are enough. `Horizon` stops the two ages; the assumption
`t + 2*g + 2 < Horizon` puts it beyond every moment a property compares them with, so
nothing is hidden by the cap. Durations of 0 and 1 give every order of the timers, and
0 is the value the code treats specially; the proofs cover all others. In
`CappedOutput`, 8 bytes are 8 lines of one byte, more than two budgets of 3: head full,
ring full, ring turned over, and each boundary of `head + tail = total`. In
`Configuration`, a limit is missing, zero, below or above its neighbour on each level.
In `ToolCall` values are exhaustive per kind, and each parameter kind sees them all.
In `ShellArgs`, five characters hold a quoted string with an escape in it, two words, an
escape next to a quote, and every open quote; `EveryInput` has TLC count that each text
comes once. In `Catalog` an operand is sent one string, since its order does not depend
on it; the types are tried on single parameters with every shape of value. In `Lifecycle`
two calls and three metrics give a call that ends before, during and after the flush.

Fairness. `FairSpec` asks that the runtime polls ready tasks (`Main`, `Stopper`,
`ReaderEof`), that time passes, that the kernel delivers SIGKILL and that tokio reaps
orphans. Nothing is asked of a process: no child ever has to exit, no descendant has to
close a pipe. Hence the two exceptions of `CallReturns`: a descendant that keeps a pipe
for ever keeps the call, and a stopped call waits for a process nobody may signal.

In `Lifecycle`, `FairSpec` asks only that `main` is polled when it is ready
(`WF_vars(Main)`; the flush of mcp-core has a time budget, so it is one step); nothing is
asked of the client, of the calls, or of the file system. Hence the two exceptions of
`EndsWhenAsked`: a read of the configuration file that never ends, and a session that
failed while the client keeps standard input open.

`Finished`, `Ended`, `Over`, `Parsed`, `Decided` and `Gone` are stuttering steps of what is
over, so that the deadlock check stays on and finds any other state without a successor.

## 4. Differences between code and documents

- `claim_stopped`: a command that dies of the signal of its `stop_after` makes
  `child.wait()` win the `select!`; the answer has `stopped_after: false` and exit code
  -1, which the service reports as an error. Only a command that survives the whole
  grace period is reported as stopped. `src/tests/telemetry_metrics.rs:176` knows of it.
- `claim_returns`: when the child is dead the handler joins the readers, without a
  timeout. A descendant with the pipe open (a daemon, `cmd &`) keeps the call for ever.
- `claim_ceiling`: the byte ceiling is looked at only after a whole line, so a stream
  without newline, the very case its comment names, is read without bound.

Also seen while modelling, without a run:

- `terminate_process` sleeps the grace period, and its caller then sleeps it again plus a
  second before the force kill; `src/docs/configuration.md:47` promises one grace period.
- A line that is not UTF-8, or a read error, ends the reading without a mark, and the rest
  of the output is lost (`src/src/executor.rs:124`), although head and tail "reconstruct the
  full output whenever nothing was omitted" (`src/src/executor.rs:51`, and 80).
- `src/docs/configuration.md:139` and `src/src/config_schema.rs:173` require `secret` when
  `enabled = true`. `validate` (`src/src/config.rs:415`) takes any one of `secret`,
  `oidc_issuer` and `jwks_url`, and refuses a `secret` beside another: a file with only an
  `oidc_issuer` is served, and `VerdictIsTheFiles` says so.
- A value and a max are compared only if they are on the same level: a tool's
  `timeout = 3` in a group with `default_timeout_max = 2` is served, against
  `src/docs/configuration.md:132`. `AboveMaxIsMixed` says that this is the only way.
- An override such as `600.5` is advertised as a number, but `as_u64` does not take it: it
  is ignored, whatever the MAX, and the command runs, against
  `src/docs/configuration.md:102`. `GivenIsUsed` names the exception, and the like one of a
  toggle that is sent a fraction, of which no document speaks.
- A timeout is not started for a call with a positive `stop_after`, and a timed-out
  command that ends within the grace period is an ordinary result, against
  `src/PLAN.md:250-252`.
- An override of 0 for both line budgets means "everything", against "hard limits" in
  `src/docs/configuration.md:102`; a group's `default_timeout` may be 0, against
  `src/src/error.rs:64`.
- `default_arg_order` puts `recursive` before `source dest` and `pattern file`, but after
  `pattern path`, where it is left to the sorted rest.
- `parse_shell_args` is not a POSIX shell: `''` gives no word, a backslash at the very end
  vanishes, and in double quotes `\x` drops the backslash and `\n` is a newline.
- A stop ends the process with calls in flight: their children are not killed, and no
  timeout is left to end them.

## 5. Proofs

Checked by TLAPS for all values of the constants, from the named assumptions of the
modules only. Every safety invariant the runs check is a theorem; so are the action
property and the refinement. In each module of proofs `Inv` is the inductive invariant, `InvInit` and `InvStep` (or one lemma per action)
show that it is one, and each theorem follows from it.

| module | theorems | assumptions |
|---|---|---|
| `ExecutorProofs` | `TypeCorrect`, `Invariance`, `KillLast`, `SignalOnTime`, `ExitCodeHonest`, `StoppedLate`, `TimeoutKills`, `OutputIsComplete`, `WakesInTime`, `DeadlineKept`, `Refinement` | durations are natural numbers and the horizon lies beyond them; exit codes are natural numbers |
| `CappedOutputProofs` | `TypeCorrect`, `HeadCorrect`, `TailCorrect`, `RenderCorrect`, `WithinBudget` | budgets are natural numbers, chunks and ceiling positive |
| `ToolCallProofs` | `TypeCorrect`, `Invariance`, `RunsChecked`, `SuccessReal`, `RecordTrue`, `ArgumentsInOrder`, `ArgumentsAreTheCall` | requests have the shape `IsRequest`; `NameOrder` is a sequence of names without repetition; there is a limit `stop_after` |
| `CatalogProofs` | `CatalogInvariance`, `AcceptsWhatItSays`, `UsesWhatIsGiven`, `KeepsConventions` | the same, and each configured tool resolves to one that `IsTool` |
| `ConfigurationProofs` | `TypeCorrect`, `Invariance`, `VerdictTrue`, `ValidateSuffices`, `RegistryTrue`, `AboveMaxOnlyMixed`, `FailsClosed` | files have the shape serde gives them; no built-in default is above its built-in max; `NoGroup` is no group's name; a full name is a string |
| `ShellArgsProofs` | `TypeCorrect`, `Invariance`, `TextKept`, `WordsFound`, `EveryText` | the scripts are those that can be written (`IsScript`) |
| `LifecycleProofs` | `TypeCorrect`, `Invariance`, `ExitFlushes`, `ExitIsTheReason` | the numbers of calls and metrics are natural |

**Executor.** SIGKILL is late enough only because each timer still owes what the ages
lack, so `TimersOwe` says, for each place of the handler and the stopper, that age plus
timer covers the budget and the grace periods so far. It in turn needs to know which task
can be where: `WhoRuns` (a stopper only under a `stop_after`; nobody reaps the child while
the handler waits for it; no abort before the race is over) and `BeforeSpawn`. `KeptIsTrue`
says of the answer decided on what the theorem says of the one given; `StreamsAreRead`
carries the end of each stream from the reader to the answer; `Decided` says that nobody is
force killed before the handler has settled, and that a stopper still sleeping has
somebody to abort it, or nobody left to. `Horizon` is why the types come first: an age that
has stopped counting is still at least every sum in `TimersOwe` (lemma `Numbers`).

`Refinement` is the one the other modules lean on: `ToolCall` runs against
`ExecutionContract`, and every step of `Executor`, in any interleaving, is a step of that
contract or a stutter (`ContractStep`, one case per action, under `Inv`). The abstract
variables are functions of the state: `life`, `condemned`, `drained`, and the answer itself.

`DeadlineKept` is about `PromptSpec` without descendants (`~Daemons`). Its invariant,
`OnTime`, is the mirror of `TimersOwe`: age plus timer never exceeds the deadline of each
place. A tick needs a state in which nothing is ready, and `TickOnTime` shows that there
the sleep somebody waits for is not over, and nobody waits for a reader.

**CappedOutput.** The invariant is the two contents of head and tail as functions of the
number of lines; the work is in four lemmas about sequences of consecutive numbers
(appending to one, dropping its first). `WithinBudget` adds that each line has a byte.

**ToolCall.** `Inv` says what has been vetted at each place (`Vetted`), which answer is the
executor's (`AnswerIsReal`, from the contract), and which reply is owed to it
(`ReplyIsOwed`). The order of the arguments needs `InOrder`: what is built precedes what is
still in `todo`. `ArgvIsTheCall` counts: for every parameter the arguments emitted plus those
still to come equal what the caller gave times how often it is listed. Counting over a loop of
any length rests on the lemmas of `DataLemmas` about the number of places of a sequence with a
property. `KeepIs` says what the recursive filter `Keep` returns, by induction over its
prefix.

**Catalog.** After `tools/list` the state is one of `ToolCall` that has just started; from
then on the steps are `ToolCall`'s own, whose `InvStep`, order and counting are reused.
`CatalogInv` adds `Permitted`, what the client may have sent. `GivenIsUsed` follows from
the counting of `ToolCall`, `ConventionKept` from its order.

**Configuration.** `Vetted` says that what has been walked is good, so that at the end of
any walk, in whatever order the groups came, the file is (`AcceptableIs`). `Registers` says
that every tool of the file waits, is resolved, or is registered, each once (`Held`, `Queued`,
`Apart`, `Registered`); that full names are distinct is exactly what `validate` has
established, and without it the registry would overwrite a tool. `AboveMaxOnlyMixed` puts
`Acceptable`, which speaks of each level, and `RegistryIsTheFile`, which joins them, together.

**ShellArgs.** For order and completeness the invariant needs `Separated`: no word is empty,
and behind the last complete word there is white space already.

`WordsFound` has an invariant of its own, `Follows`: the parser stands between two pieces
(`Between`), or in one, before an atom of it or after the backslash of one (`Inside`); its
flags are those of that piece, and its words are what `Read` makes of the pieces and atoms
behind it. Nothing weaker is inductive: which arm of the match a character takes depends on
the quotes alone, and what it means to the writer on the piece. Three things carry the proof.
The places: where piece n begins and where its k-th atom does (`Upto`, `Past`), each a sum over
a recursive concatenation, with what the text has there (`MarkAt`, `AtomAt`, `EndAt`). The
kinds: what the first character of a piece tells of it (`FirstCharacters`), and that a quote
within a string is never the one that would close it (`WritableAtoms`). And
`GapsInARow`: the parser skips any number of white characters in one step, which are as many
gaps, all but the first without effect on the words. The two recursions, of the text and of
the words, are taken apart with `SetInduction`. `EveryText` shows that the assumption on
scripts leaves no input out: a text with one character more than a script's is the text of
another script, with one piece more, or with a last piece that has grown. That no text has
two scripts is counted by TLC only (`EveryInput`), up to five characters.

**Lifecycle.** `Prepares` (nothing happens before main serves), `Guarded` (main holds the
guard until it leaves, and what was owed is then exported, given up, or nothing) and
`HasReason` (an outcome has a reason that does not go away).

Induction. The induction theorems of the library take an operator as a parameter, which
the provers cannot instantiate. `DataLemmas` derives `SetInduction` from the well-ordering of
the natural numbers: a set that holds 0 and with each number the next holds them all. A
recursive definition is then proved about as a set of the numbers up to which it does what
it should; `RECURSIVE` operators remain out of reach, and the models have none.

What the proofs found in the models, each corrected since:

- `PromptSpec` let time pass only when no step at all was possible. With a `waitpid` that may
  fail a step is always possible while the handler waits, so that no budget was ever used up
  in that run. `Ready` now names what is to be done, and the run passes with it.
- `IsTool` had lost two of its conjuncts to a misplaced level of its list, and `Catalog` had an
  order that names a parameter twice neither in its instance nor in `GivenIsUsed`, which
  in addition chose between overlapping cases.
- `NameOrder` was not assumed to be a sequence, nor `NoGroup` to be different from a group's name.

Only model-checked:

- `CallReturns`, `NothingLeftRunning`, `EndsWhenAsked`: liveness, which needs ENABLED.
- The three claims, which are refuted and not proved.

## 6. Not modelled

- The Windows branches of the executor: no SIGTERM, no grace period there.
- `stdout.take()` and `child.id()` returning nothing: the pipes were asked for, and the
  pid is read before any wait.
- The error kinds no path returns (`StoppedAfter`, `SignalFailed`, `PermissionDenied`,
  `InvalidArguments`), and `CallError::internal`, whose two sources cannot fail.
- The text of lines, arguments, messages and schemas; TOML and JSON parsing.
- `config_schema.rs`, which has no state; mcp-core beyond its use here.
- The `config` subcommands, which print and return; of the schema of a tool its texts and
  the constraints `enum`, `minimum` and `maximum`, which no call is checked against.

## 7. Plan

All modules of 2 and all theorems of 5 are done. What could come next: the Windows branches of
the executor, as a second instance of `ExecutionContract`; a property of `flush_and_exit`
that says which children outlive the server, once the code promises anything of them.
