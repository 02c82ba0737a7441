------------------------------ MODULE MCValues ------------------------------
(***************************************************************************)
(* Parameters of each kind and JSON values of each shape that the code     *)
(* tells apart, for the models of calls.                                   *)
(***************************************************************************)
EXTENDS Integers

Positional == [required |-> TRUE, flag |-> FALSE, takes_value |-> FALSE, split_args |-> FALSE]
Splitting  == [required |-> FALSE, flag |-> FALSE, takes_value |-> FALSE, split_args |-> TRUE]
Toggle     == [required |-> FALSE, flag |-> TRUE, takes_value |-> FALSE, split_args |-> FALSE]
Option     == [required |-> FALSE, flag |-> TRUE, takes_value |-> TRUE, split_args |-> FALSE]

Bounds(d, m, e, n) == [stop_after |-> [default |-> d, max |-> m], timeout |-> [default |-> e, max |-> n]]

Text(words, off)  == [kind |-> "string", amount |-> 0, fits |-> "neither", off |-> off, words |-> words]
Number(n, fits)   == [kind |-> "number", amount |-> n, fits |-> fits, off |-> FALSE, words |-> 0]
Plain(kind, off)  == [kind |-> kind, amount |-> 0, fits |-> "neither", off |-> off, words |-> 0]

AnyValue == {Text(0, TRUE), Text(1, TRUE), Text(1, FALSE), Text(2, FALSE), Text(-1, FALSE),
             Number(0, "i64"), Number(1, "i64"), Number(-1, "i64"), Number(1, "neither"),
             Number(9, "u64"), Plain("bool", TRUE), Plain("bool", FALSE),
             Plain("null", FALSE), Plain("other", FALSE)}
=============================================================================
