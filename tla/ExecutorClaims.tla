--------------------------- MODULE ExecutorClaims ---------------------------
(***************************************************************************)
(* What the documents and comments of the repository say of a call, where  *)
(* the code does something else.  Each is refuted by a run of its own; the *)
(* README says what each counterexample means.                             *)
(***************************************************************************)
EXTENDS Executor

\* "Whether execution was stopped due to stop_after" (src/src/executor.rs:30): a
\* command that died of the signal of its stop_after is reported as stopped.  In the
\* code child.wait() wins the select! as soon as the signal has worked.
StoppedMeansStopped ==
    (answer.kind = "ok" /\ call.stop_after > 0 /\ status.signal = "TERM") => answer.stopped

\* "`timeout`: Safety mechanism to prevent processes from running too long. Returns as
\* error if exceeded." (src/PLAN.md:281): a call without stop_after returns.  In the
\* code it waits, without any timeout, until the last descendant closes the pipes.
TimeoutAlwaysReturns == call.stop_after = 0 => <>(pc = "done")
=============================================================================
