----------------------------- MODULE MCCatalog -----------------------------
(***************************************************************************)
(* Small files for Catalog: every set of the names default_arg_order knows *)
(* as the parameters of a tool, and a parameter of every kind and type,    *)
(* alone, next to others, and under the name of an override.               *)
(***************************************************************************)
EXTENDS Catalog, MCValues, TLC

MCNameOrder == <<"args", "dest", "file", "follow", "lines", "path", "pattern", "program",
                 "recursive", "script", "source", "timeout">>
MCLimits    == {"stop_after", "timeout"}

Wide == Bounds(1, 2, 1, 2)

\* Optional toggles, required operands, and one value of each type.
KindOf(n) == IF n \in {"recursive", "follow"} THEN Toggle ELSE Positional
ByName(names) ==
    [parameters |-> [n \in names |-> KindOf(n)], types |-> [n \in names |-> "infer"],
     ordered |-> FALSE, arg_order |-> <<>>, limits |-> Wide, json |-> FALSE,
     sent |-> {Text(1, FALSE), Plain("bool", TRUE), Plain("bool", FALSE)}]
Conventional == {ByName(names) : names \in SUBSET (Names \ {"timeout", "args"})}

Kinds == {[k EXCEPT !.required = r] : k \in {Positional, Splitting, Toggle, Option}, r \in BOOLEAN}

Typed == {[parameters |-> n :> k, types |-> n :> t, ordered |-> FALSE, arg_order |-> <<>>,
           limits |-> Wide, json |-> FALSE, sent |-> AnyValue] :
            n \in {"file", "timeout"}, k \in Kinds, t \in ParamTypes}

Mixed == {[parameters |-> [args |-> Splitting, file |-> k, timeout |-> Option],
           types |-> [args |-> "infer", file |-> t, timeout |-> "integer"],
           ordered |-> TRUE, arg_order |-> o, limits |-> Wide, json |-> FALSE,
           sent |-> {Text(2, FALSE), Text(-1, FALSE), Number(2, "i64"), Number(3, "i64"),
                     Plain("bool", FALSE)}] :
            k \in {Positional, Toggle}, t \in {"infer", "boolean", "string"},
            o \in {<<>>, <<"timeout", "args">>, <<"file", "args", "file">>}}

MCConfigured == Conventional \cup Typed \cup Mixed
=============================================================================
