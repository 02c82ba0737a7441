-------------------------- MODULE ExecutionContract --------------------------
(***************************************************************************)
(* What one call of `execute_command` promises its caller, without the     *)
(* tasks, timers and signals that bring it about: at most one answer, true *)
(* about the process, and nothing left alive that could have been killed.  *)
(* Executor implements it.                                                 *)
(***************************************************************************)
EXTENDS ExecutionResult

VARIABLES
    stops,      \* the call has a positive stop_after
    killable,   \* the server may signal the process
    life,       \* "none", "alive", "dead"
    status,     \* how the process died
    condemned,  \* the process has been sent SIGKILL
    drained,    \* both streams have been read as far as they ever will be
    answer      \* what the caller got

cvars == <<stops, killable, life, status, condemned, drained, answer>>

CInit ==
    /\ stops \in BOOLEAN /\ killable \in BOOLEAN
    /\ life = "none" /\ status = NoStatus
    /\ condemned = FALSE /\ drained = FALSE /\ answer = NoAnswer

-----------------------------------------------------------------------------
(* The process *)

Launch == /\ life = "none" /\ answer = NoAnswer
          /\ life' = "alive"
          /\ UNCHANGED <<stops, killable, status, condemned, drained, answer>>

Die == /\ life = "alive"
       /\ life' = "dead"
       /\ status' \in Statuses
       /\ UNCHANGED <<stops, killable, condemned, drained, answer>>

Drain == /\ life # "none"
         /\ drained' = TRUE
         /\ UNCHANGED <<stops, killable, life, status, condemned, answer>>

\* Only a call that stops its command condemns it before it answers.
Condemn == /\ life = "alive" /\ killable /\ stops
           /\ condemned' = TRUE
           /\ UNCHANGED <<stops, killable, life, status, drained, answer>>

-----------------------------------------------------------------------------
(* The answer: given once, and never taken back *)

Answer(a) == answer = NoAnswer /\ answer' = a

AnswerNotFound == /\ life = "none"
                  /\ Answer(Err("not_found"))
                  /\ UNCHANGED <<stops, killable, life, status, condemned, drained>>

\* The real exit code of a process that is dead, with all of its output; marked
\* as stopped only if the call asked for stop_after.
AnswerExited == /\ life = "dead" /\ drained
                /\ \E s \in {FALSE, stops} : Answer(Ok(exit_code_from_status(status), s))
                /\ UNCHANGED <<stops, killable, life, status, condemned, drained>>

\* A stopped command that had to be killed counts as a success.
AnswerStopped == /\ stops /\ drained
                 /\ killable => condemned \/ life = "dead"
                 /\ Answer(Ok(0, TRUE))
                 /\ UNCHANGED <<stops, killable, life, status, condemned, drained>>

\* A timeout condemns what is still alive.
AnswerTimeout == /\ ~stops /\ life # "none"
                 /\ condemned' = (killable /\ life = "alive")
                 /\ Answer(Err("timeout"))
                 /\ UNCHANGED <<stops, killable, life, status, drained>>

AnswerFailed == /\ life # "none"
                /\ Answer(Err("failed"))
                /\ UNCHANGED <<stops, killable, life, status, condemned, drained>>

CNext == \/ Launch \/ Die \/ Drain \/ Condemn
         \/ AnswerNotFound \/ AnswerExited \/ AnswerStopped
         \/ AnswerTimeout \/ AnswerFailed

CSpec == CInit /\ [][CNext]_cvars
=============================================================================
