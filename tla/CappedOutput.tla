---------------------------- MODULE CappedOutput ----------------------------
(***************************************************************************)
(* One run of `collect_capped_lines` over one stream, and what `render`    *)
(* makes of it (src/src/executor.rs).  A line is its number in the stream, *)
(* from 1: the properties are about which lines are kept, and where.  Its  *)
(* text matters only through its length, in bytes, newline included.       *)
(*                                                                         *)
(* read_line is a loop of its own: bytes arrive in chunks and gather in    *)
(* `pending` until the newline, the end of the stream or an error.         *)
(*                                                                         *)
(* An operator X_Bug is X with a plausible bug in it; see Executor.        *)
(***************************************************************************)
EXTENDS Integers, Sequences

CONSTANTS
    Budgets,        \* the values of keep_head and keep_tail to explore
    MAX_STREAM_BYTES,
    ChunkSizes,     \* how many bytes may arrive at once
    MaxPending      \* bound: the longest unfinished line explored

ASSUME CappedOutputAssumption ==
    /\ Budgets \subseteq Nat /\ ChunkSizes \subseteq Nat \ {0}
    /\ MAX_STREAM_BYTES \in Nat \ {0} /\ MaxPending \in Nat

VARIABLES
    keep_head, keep_tail,  \* the parameters
    head, tail,            \* the lines kept
    total_lines, bytes,    \* what has been read, in complete lines
    pending,               \* bytes of the line that read_line is gathering
    state                  \* "reading", or why the loop ended

param == <<keep_head, keep_tail>>
store == <<head, tail, total_lines, bytes>>
vars  == <<param, store, pending, state>>

Least(a, b) == IF a < b THEN a ELSE b

-----------------------------------------------------------------------------
(* collect_capped_lines_with_cap *)

keep_all == keep_head = 0 /\ keep_tail = 0

\* VecDeque as a ring of keep_tail lines.
PushRing_OffByOne(line) ==
    IF Len(tail) > keep_tail THEN Append(Tail(tail), line) ELSE Append(tail, line)
PushRing_Frozen(line) == IF Len(tail) = keep_tail THEN tail ELSE Append(tail, line)

PushRing(line) ==
    IF Len(tail) = keep_tail THEN Append(Tail(tail), line) ELSE Append(tail, line)

StoreLine_LastIntoHead(line) ==
    IF keep_all
    THEN tail' = Append(tail, line) /\ UNCHANGED head
    ELSE IF Len(head) <= keep_head
    THEN head' = Append(head, line) /\ UNCHANGED tail
    ELSE /\ tail' = IF keep_tail > 0 THEN PushRing(line) ELSE tail
         /\ UNCHANGED head

\* A line goes to the head until it is full, then to the tail.
StoreLine(line) ==
    IF keep_all
    THEN tail' = Append(tail, line) /\ UNCHANGED head
    ELSE IF Len(head) < keep_head
    THEN head' = Append(head, line) /\ UNCHANGED tail
    ELSE /\ tail' = IF keep_tail > 0 THEN PushRing(line) ELSE tail
         /\ UNCHANGED head

Init == /\ keep_head \in Budgets /\ keep_tail \in Budgets
        /\ head = <<>> /\ tail = <<>>
        /\ total_lines = 0 /\ bytes = 0 /\ pending = 0
        /\ state = "reading"

ChunkArrives(n) == /\ state = "reading" /\ pending + n <= MaxPending
                   /\ pending' = pending + n
                   /\ UNCHANGED <<param, store, state>>

CeilingReached_Ignored == FALSE

CeilingReached == bytes' >= MAX_STREAM_BYTES

\* read_line returns Ok(n): the newline came, or the stream ended in mid-line.
\* The ceiling is checked only now.
LineRead == /\ state = "reading" /\ pending > 0
            /\ bytes' = bytes + pending
            /\ pending' = 0
            /\ StoreLine(total_lines + 1)
            /\ total_lines' = total_lines + 1
            /\ state' = IF CeilingReached THEN "ceiling" ELSE "reading"
            /\ UNCHANGED param

\* Ok(0)
Eof == /\ state = "reading" /\ pending = 0
       /\ state' = "eof"
       /\ UNCHANGED <<param, store, pending>>

\* Err(_): a read error, or a line that is not UTF-8.  What is pending is lost.
ReadError == /\ state = "reading"
             /\ state' = "error"
             /\ UNCHANGED <<param, store, pending>>

Ended == state # "reading" /\ UNCHANGED vars

Next == (\E n \in ChunkSizes : ChunkArrives(n)) \/ LineRead \/ Eof \/ ReadError \/ Ended

Spec == Init /\ [][Next]_vars

-----------------------------------------------------------------------------
(* CappedOutput::render.  The "... (n lines omitted) ..." line is Omission(n). *)

Omission(n) == -n

omitted_FromHead ==
    IF total_lines > Len(head) THEN total_lines - Len(head) ELSE 0

omitted == LET n == Len(head) + Len(tail)
           IN IF total_lines > n THEN total_lines - n ELSE 0

render ==
    IF keep_all THEN tail
    ELSE IF keep_head > 0 /\ keep_tail > 0 /\ omitted > 0
    THEN head \o <<Omission(omitted)>> \o tail
    ELSE IF keep_head > 0 /\ keep_tail = 0 THEN head
    ELSE IF keep_tail > 0 /\ keep_head = 0 THEN tail
    ELSE head \o tail

-----------------------------------------------------------------------------
(* Properties *)

\* The type invariant; the ceiling is overshot by one line at the most.
TypeOK == /\ keep_head \in Budgets /\ keep_tail \in Budgets
          /\ head \in Seq(Nat) /\ tail \in Seq(Nat)
          /\ total_lines \in Nat /\ pending \in 0 .. MaxPending
          /\ bytes \in 0 .. MAX_STREAM_BYTES + MaxPending
          /\ state \in {"reading", "eof", "ceiling", "error"}

\* The m lines that follow the k-th.
Lines(k, m) == [i \in 1 .. m |-> k + i]

\* The head holds the first lines of the stream, in order, as many as it may.
HeadIsFirst == head = Lines(0, Least(total_lines, keep_head))

\* The tail holds the last of the lines that did not go to the head, in order, as
\* many as it may; all of them when both budgets are 0.
TailSize == IF keep_all THEN total_lines
            ELSE Least(total_lines - Least(total_lines, keep_head), keep_tail)
TailIsLast == tail = Lines(total_lines - TailSize, TailSize)

\* What the caller is shown: every line that fits or, with both budgets positive, the
\* first keep_head, how many are missing, and the last keep_tail; each line once.
Gap == IF keep_head > 0 /\ keep_tail > 0
       THEN <<Omission(total_lines - keep_head - keep_tail)>> ELSE <<>>
Shown == IF keep_all \/ total_lines <= keep_head + keep_tail
         THEN Lines(0, total_lines)
         ELSE Lines(0, keep_head) \o Gap \o Lines(total_lines - keep_tail, keep_tail)
RenderIsExact == render = Shown

\* Memory is bounded by the budgets, however many lines there are, unless both are 0;
\* then by the ceiling, each line being at least one byte.
KeepsWithinBudget == IF keep_all THEN Len(head) + Len(tail) <= bytes
                                 ELSE Len(head) + Len(tail) <= keep_head + keep_tail
=============================================================================
