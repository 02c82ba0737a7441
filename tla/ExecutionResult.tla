--------------------------- MODULE ExecutionResult ---------------------------
(***************************************************************************)
(* The values a call of `execute_command` deals in: wait statuses and the  *)
(* answer to the caller (src/src/executor.rs, src/src/error.rs).  Output   *)
(* text is not part of them: see CappedOutput.                             *)
(***************************************************************************)
EXTENDS Integers

CONSTANT ExitCodes  \* the codes a process may exit with

ASSUME ExitCodesAssumption == ExitCodes \subseteq Nat

\* std::process::ExitStatus: an exited process has a code, a signalled one none.
NoCode       == -2
Exited(c)    == [signal |-> "none", code |-> c]
Signalled(s) == [signal |-> s, code |-> NoCode]
NoStatus     == Exited(NoCode)  \* not dead yet
Statuses     == {Exited(c) : c \in ExitCodes}
                  \cup {Signalled(s) : s \in {"TERM", "KILL", "OTHER"}}

exit_code_ZeroIfSignalled(st) == IF st.signal = "none" THEN st.code ELSE 0

exit_code_from_status(st) == IF st.signal = "none" THEN st.code ELSE -1

\* Result<ExecutionResult>: "ok", or the ExecutionError it failed with.
NoAnswer             == [kind |-> "none", code |-> 0, stopped |-> FALSE]
Ok(c, stopped_after) == [kind |-> "ok", code |-> c, stopped |-> stopped_after]
Err(kind)            == [kind |-> kind, code |-> 0, stopped |-> FALSE]
ErrKinds             == {"timeout", "not_found", "failed"}
Answers == {NoAnswer} \cup {Err(k) : k \in ErrKinds}
             \cup [kind : {"ok"}, code : ExitCodes \cup {0, -1}, stopped : BOOLEAN]
=============================================================================
