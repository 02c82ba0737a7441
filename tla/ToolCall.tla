------------------------------ MODULE ToolCall ------------------------------
(***************************************************************************)
(* One `tools/call`: CommandMcpService::call_tool and execute_tool_call    *)
(* (src/src/service.rs) with validate_runtime_overrides                    *)
(* (src/src/tools.rs).  Arguments become the command's argument vector,    *)
(* overrides become its limits, and the answer of the executor becomes a   *)
(* metric and a reply.  Of the executor only ExecutionContract is used,    *)
(* which Executor implements.                                              *)
(*                                                                         *)
(* The argument vector holds no text, but where each of its elements comes *)
(* from: the flag of a parameter, its value, or a word of its value.       *)
(*                                                                         *)
(* An operator X_Bug is X with a plausible bug in it; see Executor.        *)
(***************************************************************************)
EXTENDS ExecutionResult, Sequences, FiniteSets

CONSTANTS
    Requests,  \* the calls to explore: whether get_tool finds a tool, the tool, the arguments
    NameOrder, \* all parameter names, in the order `sort` gives
    Limits     \* the limits that can be overridden: "stop_after" and others

Names  == {NameOrder[i] : i \in 1 .. Len(NameOrder)}

Parameters == [required : BOOLEAN, flag : BOOLEAN, takes_value : BOOLEAN, split_args : BOOLEAN]

\* A JSON value: a number by its (floor of the) amount and whether as_i64 or only
\* as_u64 can return it; a string by whether it reads as "off" and by the number of
\* words that parse_shell_args finds in it, -1 for an unclosed quote.
Values == [kind : {"string", "number", "bool", "null", "other"}, amount : Int,
           fits : {"i64", "u64", "neither"}, off : BOOLEAN, words : Nat \cup {-1}]

\* A resolved tool, as validate lets it pass.
IsTool(t) == /\ DOMAIN t.parameters \subseteq Names
             /\ t.parameters \in [DOMAIN t.parameters -> Parameters]
             /\ \A p \in DOMAIN t.parameters : t.parameters[p].takes_value => t.parameters[p].flag
             /\ t.arg_order \in Seq(DOMAIN t.parameters)
             /\ t.limits \in [Limits -> [default : Nat, max : Nat]]
             /\ t.json \in BOOLEAN

IsArguments(a) == /\ a.kind \in {"null", "object", "other"}
                  /\ DOMAIN a.map \subseteq Names \cup Limits
                  /\ \A n \in DOMAIN a.map : a.map[n] \in Values

IsRequest(r) == r.known \in BOOLEAN /\ IsTool(r.tool) /\ IsArguments(r.arguments)

ASSUME ToolCallAssumption ==
    /\ NameOrder \in Seq(Names)
    /\ \A i, j \in 1 .. Len(NameOrder) : NameOrder[i] = NameOrder[j] => i = j
    /\ "stop_after" \in Limits
    /\ \A r \in Requests : IsRequest(r)

VARIABLES
    request,    \* the call: tool and arguments
    pc,         \* where it is
    todo,       \* the parameters still to be emitted
    tool_args,  \* the argument vector so far
    limits,     \* the limits the command is run under
    outcome,    \* the label recorded by record_tool_execution
    reply,      \* what the client got
    killable, life, status, condemned, drained, answer  \* see ExecutionContract

building  == <<todo, tool_args, limits>>
execution == <<killable, life, status, condemned, drained, answer>>
vars      == <<request, pc, building, outcome, reply, execution>>

Contract == INSTANCE ExecutionContract WITH stops <- limits["stop_after"] > 0

tool     == request.tool
args_map == IF request.arguments.kind = "object" THEN request.arguments.map ELSE <<>>

NoReply == [kind |-> "none", is_error |-> FALSE]
Replies == [kind : {"none", "invalid_params", "tool_error", "text", "json"}, is_error : BOOLEAN]

Answered(r) == reply' = r /\ pc' = "done"
InvalidParams == Answered([kind |-> "invalid_params", is_error |-> TRUE])
ToolError     == Answered([kind |-> "tool_error", is_error |-> TRUE])

-----------------------------------------------------------------------------
(* Arguments *)

\* The members of S in seq, in its order.  (SelectSeq, as a recursive function, so that
\* its result can be proved about.)
Keep(seq, S) ==
    LET kept[n \in 0 .. Len(seq)] ==
          IF n = 0 THEN <<>>
          ELSE IF seq[n] \in S THEN Append(kept[n - 1], seq[n]) ELSE kept[n - 1]
    IN kept[Len(seq)]

ListedIn(p, order) == \E i \in 1 .. Len(order) : order[i] = p
Unlisted == {p \in DOMAIN tool.parameters : ~ListedIn(p, tool.arg_order)}

Remaining_AlsoEmitted == Keep(NameOrder, DOMAIN tool.parameters)
Remaining_Reversed ==
    LET n == Len(NameOrder) IN Keep([i \in 1 .. n |-> NameOrder[n + 1 - i]], Unlisted)

\* The parameters not in arg_order, sorted.
Remaining == Keep(NameOrder, Unlisted)

truthy(v) == CASE v.kind \in {"bool", "string"} -> ~v.off
               [] v.kind = "number" -> v.fits = "i64" /\ v.amount # 0
               [] OTHER -> TRUE

Flag(p)    == [param |-> p, part |-> "flag", place |-> 0]
Value(p)   == [param |-> p, part |-> "value", place |-> 0]
Word(p, i) == [param |-> p, part |-> "word", place |-> i]

Splits(p) == /\ ~tool.parameters[p].flag /\ tool.parameters[p].split_args
             /\ args_map[p].kind = "string"

\* emit_param returns an error.
Refused(p) == \/ p \notin DOMAIN tool.parameters
              \/ p \notin DOMAIN args_map /\ tool.parameters[p].required
              \/ p \in DOMAIN args_map /\ Splits(p) /\ args_map[p].words = -1

\* What emit_param pushes for a parameter that is not refused.
Emitted(p) ==
    IF p \notin DOMAIN args_map THEN <<>>
    ELSE IF Splits(p) THEN [i \in 1 .. args_map[p].words |-> Word(p, i)]
    ELSE IF ~tool.parameters[p].flag THEN <<Value(p)>>
    ELSE IF tool.parameters[p].takes_value THEN <<Flag(p), Value(p)>>
    ELSE IF truthy(args_map[p]) THEN <<Flag(p)>> ELSE <<>>

UnknownTool ==
    /\ pc = "start" /\ ~request.known
    /\ ToolError
    /\ UNCHANGED <<request, building, outcome, execution>>

NotAnObject ==
    /\ pc = "start" /\ request.known /\ request.arguments.kind = "other"
    /\ InvalidParams
    /\ UNCHANGED <<request, building, outcome, execution>>

Begin ==
    /\ pc = "start" /\ request.known /\ request.arguments.kind # "other"
    /\ pc' = "emit" /\ todo' = tool.arg_order \o Remaining
    /\ UNCHANGED <<request, tool_args, limits, outcome, reply, execution>>

EmitParam ==
    /\ pc = "emit" /\ todo # <<>> /\ ~Refused(Head(todo))
    /\ tool_args' = tool_args \o Emitted(Head(todo)) /\ todo' = Tail(todo)
    /\ UNCHANGED <<request, pc, limits, outcome, reply, execution>>

RefuseParam ==
    /\ pc = "emit" /\ todo # <<>> /\ Refused(Head(todo))
    /\ InvalidParams
    /\ UNCHANGED <<request, building, outcome, execution>>

-----------------------------------------------------------------------------
(* Overrides *)

Overridden_Signed(k) == /\ k \in DOMAIN args_map /\ args_map[k].kind = "number"
                        /\ args_map[k].fits # "neither"

\* args_map.get(k).and_then(as_u64): only a non-negative integer is an override.
Overridden(k) == /\ k \in DOMAIN args_map /\ args_map[k].kind = "number"
                 /\ args_map[k].fits # "neither" /\ args_map[k].amount >= 0

ExceedsMax_OffByOne(k) == Overridden(k) /\ args_map[k].amount > tool.limits[k].max + 1

ExceedsMax(k) == Overridden(k) /\ args_map[k].amount > tool.limits[k].max

RefuseOverride ==
    /\ pc = "emit" /\ todo = <<>> /\ \E k \in Limits : ExceedsMax(k)
    /\ InvalidParams
    /\ UNCHANGED <<request, building, outcome, execution>>

\* unwrap_or and or; no stop_after is a stop_after of 0.
Execute ==
    /\ pc = "emit" /\ todo = <<>> /\ ~ \E k \in Limits : ExceedsMax(k)
    /\ limits' = [k \in Limits |-> IF Overridden(k) THEN args_map[k].amount
                                   ELSE tool.limits[k].default]
    /\ pc' = "execute"
    /\ UNCHANGED <<request, todo, tool_args, outcome, reply, execution>>

-----------------------------------------------------------------------------
(* Execution and reply *)

\* execute_command, and what goes on of it after its answer.
Running == /\ limits # <<>>
           /\ UNCHANGED <<request, pc, building, outcome, reply>>
           /\ Contract!CNext
           /\ pc = "execute" \/ UNCHANGED answer

execution_outcome_CodeFirst(a) ==
    CASE a.kind = "ok" /\ a.code = 0 -> "ok"
      [] a.kind = "ok" /\ a.code # 0 -> "nonzero_exit"
      [] a.kind = "timeout" -> "timeout"
      [] a.kind = "not_found" -> "command_not_found"
      [] OTHER -> "error"

execution_outcome(a) ==
    CASE a.kind = "ok" /\ a.stopped -> "stopped_after"
      [] a.kind = "ok" /\ ~a.stopped /\ a.code = 0 -> "ok"
      [] a.kind = "ok" /\ ~a.stopped /\ a.code # 0 -> "nonzero_exit"
      [] a.kind = "timeout" -> "timeout"
      [] a.kind = "not_found" -> "command_not_found"
      [] OTHER -> "error"

is_error_PositiveOnly == answer.code > 0 /\ ~answer.stopped

is_error == answer.code # 0 /\ ~answer.stopped

Record ==
    /\ pc = "execute" /\ answer # NoAnswer
    /\ outcome' = execution_outcome(answer) /\ pc' = "reply"
    /\ UNCHANGED <<request, building, reply, execution>>

ReplyError ==
    /\ pc = "reply" /\ answer.kind # "ok"
    /\ ToolError
    /\ UNCHANGED <<request, building, outcome, execution>>

\* Whether the standard output is JSON is the command's choice.
ReplyJson ==
    /\ pc = "reply" /\ answer.kind = "ok" /\ tool.json /\ ~is_error
    /\ Answered([kind |-> "json", is_error |-> FALSE])
    /\ UNCHANGED <<request, building, outcome, execution>>

ReplyText ==
    /\ pc = "reply" /\ answer.kind = "ok"
    /\ Answered([kind |-> "text", is_error |-> is_error])
    /\ UNCHANGED <<request, building, outcome, execution>>

\* The client goes away: the future can be dropped only at the await.
CallDropped ==
    /\ pc = "execute"
    /\ pc' = "dropped"
    /\ UNCHANGED <<request, building, outcome, reply, execution>>

-----------------------------------------------------------------------------
Init == /\ request \in Requests
        /\ pc = "start" /\ todo = <<>> /\ tool_args = <<>> /\ limits = <<>>
        /\ outcome = "none" /\ reply = NoReply
        /\ killable \in BOOLEAN /\ life = "none" /\ status = NoStatus
        /\ condemned = FALSE /\ drained = FALSE /\ answer = NoAnswer

Over == pc \in {"done", "dropped"} /\ UNCHANGED vars

Next == \/ UnknownTool \/ NotAnObject \/ Begin \/ EmitParam \/ RefuseParam
        \/ RefuseOverride \/ Execute \/ Running
        \/ Record \/ ReplyError \/ ReplyJson \/ ReplyText \/ CallDropped \/ Over

Spec == Init /\ [][Next]_vars

-----------------------------------------------------------------------------
(* Properties *)

\* The type invariant; every element of the argument vector is a parameter's.
TypeOK ==
    /\ IsTool(tool) /\ IsArguments(request.arguments)
    /\ pc \in {"start", "emit", "execute", "reply", "done", "dropped"}
    /\ todo \in Seq(Names)
    /\ \A i \in 1 .. Len(tool_args) :
         tool_args[i] \in [param : DOMAIN tool.parameters, part : {"flag", "value", "word"}, place : Nat]
    /\ limits = <<>> \/ limits \in [Limits -> Nat]
    /\ outcome \in {"none", "ok", "nonzero_exit", "stopped_after", "timeout",
                    "command_not_found", "error"}
    /\ reply \in Replies /\ answer \in Answers

\* How often a parameter is listed: as often as arg_order says, once if it does not.
Times(p) == IF ListedIn(p, tool.arg_order)
            THEN Cardinality({i \in 1 .. Len(tool.arg_order) : tool.arg_order[i] = p}) ELSE 1

PlacesOf(p, part) == {i \in 1 .. Len(tool_args) : tool_args[i].param = p /\ tool_args[i].part = part}

\* The command gets what the caller gave, all of it and nothing else: a value or its
\* words, or a flag, once for every time it is listed, and a value of a flagged
\* parameter right after its flag.
ArgvIsTheCall == life # "none" => \A p \in DOMAIN tool.parameters :
    LET q == tool.parameters[p]
        given == p \in DOMAIN args_map
        n(part) == Cardinality(PlacesOf(p, part))
    IN /\ n("flag") = IF given /\ q.flag /\ (q.takes_value \/ truthy(args_map[p]))
                      THEN Times(p) ELSE 0
       /\ n("value") = IF given /\ (q.takes_value \/ ~(q.flag \/ Splits(p)))
                       THEN Times(p) ELSE 0
       /\ n("word") = IF given /\ Splits(p) THEN Times(p) * args_map[p].words ELSE 0
       /\ q.takes_value => PlacesOf(p, "value") = {i + 1 : i \in PlacesOf(p, "flag")}

\* The place of a parameter in the command line: arg_order, then the sorted rest.
Rank(p) == IF ListedIn(p, tool.arg_order)
           THEN CHOOSE i \in 1 .. Len(tool.arg_order) : tool.arg_order[i] = p
           ELSE Len(tool.arg_order) + (CHOOSE i \in 1 .. Len(NameOrder) : NameOrder[i] = p)

\* The order of the arguments is the configured one, then that of the names, whatever
\* the HashMap says; words of a value stay in order.  (An arg_order that lists a name
\* twice puts it in two places.)
ArgvInOrder == (life # "none" /\ \A p \in DOMAIN tool.parameters : Times(p) = 1) =>
    \A i, j \in 1 .. Len(tool_args) : i < j =>
        \/ Rank(tool_args[i].param) < Rank(tool_args[j].param)
        \/ /\ tool_args[i].param = tool_args[j].param
           /\ tool_args[i].part = "word" => tool_args[i].place < tool_args[j].place

\* No process is started for a call that lacks a required parameter, has an unclosed
\* quote or asks for an integer above the MAX: every limit is the configured one (which may
\* itself be above the MAX) or an integer of the caller's up to the MAX.
NothingRunsUnchecked == life # "none" =>
    /\ \A p \in DOMAIN tool.parameters :
         /\ tool.parameters[p].required => p \in DOMAIN args_map
         /\ p \in DOMAIN args_map /\ Splits(p) => args_map[p].words >= 0
    /\ \A k \in Limits :
         \/ limits[k] = tool.limits[k].default /\ ~Overridden(k)
         \/ limits[k] <= tool.limits[k].max /\ limits[k] = args_map[k].amount

\* A reply that is no error is about a command whose output was read and that exited
\* with 0, or was stopped as asked; a structured one is no error.
SuccessIsReal == reply.kind \in {"text", "json"} =>
    /\ drained
    /\ ~reply.is_error => \/ life = "dead" /\ status = Exited(0)
                          \/ limits["stop_after"] > 0 /\ answer.stopped
    /\ reply.kind = "json" => ~reply.is_error

\* The metric of a call that was answered is recorded before its reply, once, and
\* agrees with it; a call that ran nothing records nothing.
RecordAgrees ==
    /\ outcome # "none" => answer # NoAnswer
    /\ pc \in {"reply", "done"} /\ limits # <<>> =>
         /\ outcome # "none"
         /\ reply # NoReply =>
              /\ (outcome \in {"ok", "stopped_after"}) <=> ~reply.is_error
              /\ (outcome \in {"timeout", "command_not_found", "error"})
                    <=> reply.kind = "tool_error"
======================================================================================================================================================
