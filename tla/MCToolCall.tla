----------------------------- MODULE MCToolCall -----------------------------
(***************************************************************************)
(* Small calls for ToolCall: a tool with a parameter of each kind, one     *)
(* whose parameter has the name of an override, and one that lists a       *)
(* parameter twice; arguments of every shape that the code tells apart.    *)
(***************************************************************************)
EXTENDS ToolCall, MCValues

MCNameOrder == <<"args", "file", "quiet", "timeout">>
MCLimits    == {"stop_after", "timeout"}

ToolA == [parameters |-> [args |-> Splitting, file |-> Positional, quiet |-> Toggle],
          arg_order |-> <<"quiet">>, limits |-> Bounds(0, 2, 1, 2), json |-> FALSE]
ToolB == [parameters |-> [file |-> Positional, timeout |-> Option],
          arg_order |-> <<>>, limits |-> Bounds(1, 1, 3, 2), json |-> TRUE]
ToolC == [parameters |-> [args |-> Splitting, file |-> Positional],
          arg_order |-> <<"file", "args", "file">>, limits |-> Bounds(0, 0, 1, 1), json |-> TRUE]

Some1 == Text(1, FALSE)
Amounts == {Number(0, "i64"), Number(2, "i64"), Number(3, "i64"), Number(-1, "i64"),
            Number(9, "u64"), Number(3, "neither"), Text(1, FALSE)}

Maps(D, V) == [D -> V]
Join(f, g) == [n \in DOMAIN f \cup DOMAIN g |-> IF n \in DOMAIN g THEN g[n] ELSE f[n]]
Object(m)  == [kind |-> "object", map |-> m]
Call(t, m) == [known |-> TRUE, tool |-> t, arguments |-> Object(m)]

\* Arguments over several parameters, then overrides of both limits.
Shapes == {Call(ToolA, Join(f, g)) :
             f \in UNION {Maps(D, {Text(2, FALSE), Text(-1, FALSE)}) : D \in SUBSET {"args"}},
             g \in UNION {Maps(D, AnyValue) : D \in {{}, {"file"}, {"quiet"}}}}
  \cup {Call(ToolA, [args |-> v, file |-> Some1, quiet |-> w]) : v, w \in AnyValue}
Overrides == {Call(t, Join([n \in {"file"} |-> Some1], f)) : t \in {ToolA, ToolB, ToolC},
                 f \in UNION {Maps(D, Amounts) : D \in SUBSET MCLimits}}
Twice == {Call(ToolC, f) : f \in UNION {Maps(D, AnyValue) : D \in {{"args"}, {"file"}}}}
  \cup {Call(ToolC, [args |-> v, file |-> Some1]) : v \in AnyValue}
NoObject == {[known |-> b, tool |-> t, arguments |-> [kind |-> k, map |-> <<>>]] :
               b \in BOOLEAN, t \in {ToolA, ToolB}, k \in {"null", "other"}}

MCRequests == Shapes \cup Overrides \cup Twice \cup NoObject
=============================================================================
