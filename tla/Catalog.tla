------------------------------ MODULE Catalog ------------------------------
(***************************************************************************)
(* A client lists the tools and makes a call that the schema allows:       *)
(* resolve_tool's arg_order with default_arg_order (src/src/config.rs),    *)
(* generate_tool_schema (src/src/tools.rs), tools (src/src/service.rs),    *)
(* then the call itself, which is ToolCall up to the start of the command. *)
(*                                                                         *)
(* Descriptions, examples and the constraints enum, minimum and maximum    *)
(* are left out of the schema: the code does not check them in a call, and *)
(* a call that keeps to them is one of the calls below.                    *)
(*                                                                         *)
(* An operator X_Bug is X with a plausible bug in it; see Executor.        *)
(***************************************************************************)
EXTENDS ToolCall

CONSTANTS
    Configured, \* the tools of the file to explore, and the values clients send to each
    Exposed     \* subset of BOOLEAN: expose_runtime_overrides

VARIABLES
    configured,  \* the tool as it stands in the file
    exposed,     \* expose_runtime_overrides
    schema       \* what tools/list said of it

listing == <<configured, exposed, schema>>

ParamTypes == {"infer", "string", "integer", "number", "boolean", "enum"}

ASSUME CatalogAssumption ==
    /\ Exposed \subseteq BOOLEAN
    /\ \A c \in Configured :
         /\ c.types \in [DOMAIN c.parameters -> ParamTypes]
         /\ c.ordered \in BOOLEAN /\ c.sent \subseteq Values
         /\ IsTool([parameters |-> c.parameters, arg_order |-> c.arg_order,
                    limits |-> c.limits, json |-> c.json])

-----------------------------------------------------------------------------
(* resolve_tool *)

\* The conventions of default_arg_order, the first that applies wins: the names it asks
\* for, and the order it gives to those of its names that are there.
Conventions == <<
    [needs |-> {"source", "dest"},   order |-> <<"recursive", "source", "dest">>],
    [needs |-> {"pattern", "file"},  order |-> <<"recursive", "pattern", "file">>],
    [needs |-> {"pattern", "path"},  order |-> <<"pattern", "path">>],
    [needs |-> {"script", "file"},   order |-> <<"script", "file">>],
    [needs |-> {"program", "file"},  order |-> <<"program", "file">>],
    [needs |-> {"follow", "lines"},  order |-> <<"follow", "lines", "file">>],
    [needs |-> {"follow", "file"},   order |-> <<"follow", "lines", "file">>],
    [needs |-> {"path"},             order |-> <<"path">>],
    [needs |-> {"file"},             order |-> <<"file">>],
    [needs |-> {},                   order |-> NameOrder] >>

FirstConvention(names) ==
    Conventions[CHOOSE i \in 1 .. Len(Conventions) :
                  /\ Conventions[i].needs \subseteq names
                  /\ \A j \in 1 .. i - 1 : ~(Conventions[j].needs \subseteq names)]

default_arg_order_Sorted(names) == Keep(NameOrder, names)

default_arg_order_Unguarded(names) ==
    LET order == FirstConvention(names).order
    IN Keep(order, IF order = NameOrder THEN names ELSE names \cup {"lines"})

default_arg_order(names) == Keep(FirstConvention(names).order, names)

resolve(c) == [parameters |-> c.parameters, limits |-> c.limits, json |-> c.json,
               arg_order |-> IF c.ordered THEN c.arg_order
                             ELSE default_arg_order(DOMAIN c.parameters)]

-----------------------------------------------------------------------------
(* tools/list *)

\* An explicit type wins; a flag without a value is a toggle.
json_type(q, type) ==
    CASE type = "infer" -> IF q.flag /\ ~q.takes_value THEN "boolean" ELSE "string"
      [] type = "enum"  -> "string"
      [] OTHER          -> type

\* add_runtime_override_properties: the overrides, only when they are exposed.
override_properties == IF exposed THEN [k \in Limits |-> "number"] ELSE <<>>

\* An override takes the place of a parameter of the same name, which stays required.
generate_tool_schema ==
    [properties |-> [n \in DOMAIN override_properties \cup DOMAIN tool.parameters |->
                       IF n \in DOMAIN override_properties THEN override_properties[n]
                       ELSE json_type(tool.parameters[n], configured.types[n])],
     required |-> {p \in DOMAIN tool.parameters : tool.parameters[p].required}]

ListTools ==
    /\ pc = "list"
    /\ schema' = generate_tool_schema /\ pc' = "listed"
    /\ UNCHANGED <<configured, exposed, request, building, outcome, reply, execution>>

\* The values of a JSON type.
OfType(v, type) ==
    CASE type = "string"  -> v.kind = "string"
      [] type = "boolean" -> v.kind = "bool"
      [] type = "number"  -> v.kind = "number"
      [] type = "integer" -> v.kind = "number" /\ v.fits # "neither"

\* The client reads the schema and gives a value of its type to every property that is
\* required and to any of the others.
ClientCalls ==
    /\ pc = "listed"
    /\ \E given \in SUBSET DOMAIN schema.properties :
         /\ schema.required \subseteq given
         /\ \E map \in [given -> configured.sent] :
              /\ \A n \in given : OfType(map[n], schema.properties[n])
              /\ request' = [request EXCEPT !.arguments = [kind |-> "object", map |-> map]]
    /\ pc' = "start"
    /\ UNCHANGED <<listing, building, outcome, reply, execution>>

-----------------------------------------------------------------------------
CatalogInit ==
    /\ configured \in Configured /\ exposed \in Exposed
    /\ schema = [properties |-> <<>>, required |-> {}]
    /\ request = [known |-> TRUE, tool |-> resolve(configured),
                  arguments |-> [kind |-> "null", map |-> <<>>]]
    /\ pc = "list" /\ todo = <<>> /\ tool_args = <<>> /\ limits = <<>>
    /\ outcome = "none" /\ reply = NoReply
    /\ killable = TRUE /\ life = "none" /\ status = NoStatus
    /\ condemned = FALSE /\ drained = FALSE /\ answer = NoAnswer

Calling == /\ Begin \/ EmitParam \/ RefuseParam \/ RefuseOverride \/ Execute
           /\ UNCHANGED listing

Decided == pc \in {"execute", "done"} /\ UNCHANGED <<vars, listing>>

CatalogNext == ListTools \/ ClientCalls \/ Calling \/ Decided

CatalogSpec == CatalogInit /\ [][CatalogNext]_<<vars, listing>>

-----------------------------------------------------------------------------
(* Properties *)

\* What the schema allows is accepted: a call that keeps to it is refused only for a
\* quote it left open in a value that is split into words, or for a number above the
\* MAX of a limit.  No tool of a valid file is advertised with arguments it refuses.
AdvertisedIsAccepted == pc = "done" =>
    \/ \E p \in DOMAIN args_map \cap DOMAIN tool.parameters :
         /\ tool.parameters[p].split_args /\ args_map[p].kind = "string"
         /\ args_map[p].words = -1
    \/ \E k \in DOMAIN args_map \cap Limits :
         /\ args_map[k].kind = "number" /\ args_map[k].amount > tool.limits[k].max

\* Off, and numbers that are not read as they are: a toggle obeys only integers.
SaysNo(v)  == IF v.kind = "number" THEN v.amount = 0 \/ v.fits # "i64" ELSE v.off
IsLimit(v) == v.kind = "number" /\ v.fits # "neither" /\ v.amount >= 0

\* Whatever order the tool has, configured or by convention, an argument the schema
\* invites is used, once for every time it is listed and once if the order is guessed:
\* as a value, as all of its words, as the flag of a toggle, or as a limit; one that has
\* the name of both, as both.  Only the no of a toggle, and a number that can be no
\* limit, leave nothing.
GivenIsUsed == pc = "execute" => \A n \in DOMAIN args_map :
    LET v == args_map[n]
        q == tool.parameters[n]
        often == IF configured.ordered THEN Times(n) ELSE 1
        Count(part) == Cardinality(PlacesOf(n, part))
    IN /\ n \in DOMAIN tool.parameters =>
            /\ q.flag => Count("flag") = IF ~q.takes_value /\ SaysNo(v) THEN 0 ELSE often
            /\ Splits(n) => Count("word") = often * v.words
            /\ ~Splits(n) /\ (q.flag => q.takes_value) => Count("value") = often
       /\ n \in Limits /\ IsLimit(v) => limits[n] = v.amount

Before(a, b) == \A i, j \in 1 .. Len(tool_args) :
    tool_args[i].param = a /\ tool_args[j].param = b => i < j

\* Pairs of operands whose order commands agree on.
Operands == {<<"source", "dest">>, <<"pattern", "file">>, <<"pattern", "path">>,
             <<"script", "file">>, <<"program", "file">>}

\* A tool without an arg_order whose parameters make up one such pair gets it in that
\* order, whatever else it has and however the names sort; `recursive` comes first for
\* those it is an option of; a tool without any pair gets `follow`, `lines`, `file`.
ConventionKept == (pc = "execute" /\ ~configured.ordered) =>
    LET complete == {o \in Operands : {o[1], o[2]} \subseteq DOMAIN tool.parameters}
    IN /\ \A o \in complete : complete = {o} =>
            /\ Before(o[1], o[2])
            /\ o[1] = "source" \/ o = <<"pattern", "file">> => Before("recursive", o[1])
       /\ complete = {} /\ "follow" \in DOMAIN tool.parameters =>
            Before("follow", "lines") /\ Before("follow", "file") /\ Before("lines", "file")
=============================================================================
