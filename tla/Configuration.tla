---------------------------- MODULE Configuration ----------------------------
(***************************************************************************)
(* From the parsed TOML file to the tools that are served: `validate`      *)
(* (src/src/config.rs), `resolve_ws_auth` (src/src/main.rs), `resolve_tool`*)
(* and `ToolRegistry::from_config` (src/src/tools.rs), in the order main   *)
(* calls them.                                                             *)
(*                                                                         *)
(* The groups are in a HashMap: every loop over them takes them in any     *)
(* order.  An error is a rejection, by one of the three stages; which of   *)
(* several errors is reported is left out.                                 *)
(*                                                                         *)
(* An operator X_Bug is X with a plausible bug in it; see Executor.        *)
(***************************************************************************)
EXTENDS Integers, Sequences

CONSTANTS
    Files,       \* the files to explore
    GroupNames, ToolNames,
    FullName,    \* FullName[g, t] is "{g}_{t}"; two pairs may have the same
    Limits,      \* the limits in use, such as "timeout"
    BuiltIn      \* their built-in default and max

None == -1
Opt  == Nat \cup {None}

Pairs   == [default : Opt, max : Opt]
Signals == {"none", "SIGTERM", "SIGINT", "invalid"}
Methods == {"secret", "oidc_issuer", "jwks_url"}

\* `ordered`: every name in arg_order is a parameter; `flagged`: every parameter
\* with takes_value has a flag.
Tools  == [name : ToolNames, limits : [Limits -> Pairs], signal : Signals,
           ordered : BOOLEAN, flagged : BOOLEAN]
Groups == [limits : [Limits -> Pairs], signal : Signals, tools : Seq(Tools)]

NoGroup == "no group" \* none is in hand

ASSUME ConfigurationAssumption ==
    /\ NoGroup \notin GroupNames
    /\ FullName \in [GroupNames \X ToolNames -> STRING]
    /\ BuiltIn \in [Limits -> [default : Nat, max : Nat]]
    /\ \A k \in Limits : BuiltIn[k].default <= BuiltIn[k].max
    /\ \A f \in Files :
         /\ f.auth \in [enabled : BOOLEAN, methods : SUBSET Methods]
         /\ DOMAIN f.groups \subseteq GroupNames
         /\ \A g \in DOMAIN f.groups : f.groups[g] \in Groups

VARIABLES
    file,        \* the file; a missing [websocket_auth] is one that is not enabled
    cli,         \* the methods given on the command line
    stage,       \* what is being done
    rejectedBy,  \* the stage that found an error
    todo,        \* the groups this stage has not looked at
    group, at,   \* the group in hand, and how many of its tools are done
    tool_names,  \* the names validate has seen
    resolved,    \* the tools resolved, in any order of their groups
    tools,       \* the registry
    ws_auth      \* what guards the websocket

given   == <<file, cli>>
walk    == <<todo, group, at>>
service == <<resolved, tools, ws_auth>>
vars    == <<given, stage, rejectedBy, walk, tool_names, service>>

Reject(s) == stage' = "rejected" /\ rejectedBy' = s

-----------------------------------------------------------------------------
(* Config::validate *)

AuthIsValid(auth) == auth.enabled =>
    /\ auth.methods # {}
    /\ ~("secret" \in auth.methods /\ auth.methods \cap {"oidc_issuer", "jwks_url"} # {})
    /\ ~({"oidc_issuer", "jwks_url"} \subseteq auth.methods)

\* As if a max of 0 were no max.
PairIsValid_ZeroIsNone(p) == p.default # None /\ p.max > 0 => p.max >= p.default
PairIsValid_Strict(p) == p.default # None /\ p.max # None => p.max > p.default

\* validate_timeout_pair, validate_output_pair
PairIsValid(p) == p.default # None /\ p.max # None => p.max >= p.default

PairsAreValid(limits) == \A k \in Limits : PairIsValid(limits[k])

ToolIsValid(t) == /\ "timeout" \in Limits => t.limits["timeout"].default # 0
                  /\ t.signal # "invalid"
                  /\ PairsAreValid(t.limits)
                  /\ t.ordered /\ t.flagged

ValidateAuth ==
    /\ stage = "auth"
    /\ IF AuthIsValid(file.auth)
       THEN stage' = "groups" /\ UNCHANGED rejectedBy
       ELSE Reject("validate")
    /\ UNCHANGED <<given, walk, tool_names, service>>

ValidateGroup(g) ==
    /\ stage = "groups" /\ group = NoGroup /\ g \in todo
    /\ todo' = todo \ {g}
    /\ IF PairsAreValid(file.groups[g].limits) /\ file.groups[g].signal # "invalid"
       THEN group' = g /\ at' = 0 /\ UNCHANGED <<stage, rejectedBy>>
       ELSE Reject("validate") /\ UNCHANGED <<group, at>>
    /\ UNCHANGED <<given, tool_names, service>>

Seen_InGroup(full_name) ==
    \E i \in 1 .. at : FullName[group, file.groups[group].tools[i].name] = full_name

Seen(full_name) == full_name \in tool_names

ValidateTool ==
    /\ stage = "groups" /\ group # NoGroup /\ at < Len(file.groups[group].tools)
    /\ LET t == file.groups[group].tools[at + 1]
           full_name == FullName[group, t.name]
       IN IF ~Seen(full_name) /\ ToolIsValid(t)
          THEN /\ tool_names' = tool_names \cup {full_name}
               /\ at' = at + 1
               /\ UNCHANGED <<stage, rejectedBy>>
          ELSE Reject("validate") /\ UNCHANGED <<tool_names, at>>
    /\ UNCHANGED <<given, todo, group, service>>

GroupDone ==
    /\ stage = "groups" /\ group # NoGroup /\ at = Len(file.groups[group].tools)
    /\ group' = NoGroup /\ at' = 0
    /\ UNCHANGED <<given, stage, rejectedBy, todo, tool_names, service>>

Validated ==
    /\ stage = "groups" /\ group = NoGroup /\ todo = {}
    /\ stage' = "ws_auth"
    /\ UNCHANGED <<given, rejectedBy, walk, tool_names, service>>

-----------------------------------------------------------------------------
(* resolve_ws_auth: the command line first, then the file *)

\* The methods of the file, in the order they are looked for.
FileMethod(methods) ==
    IF "oidc_issuer" \in methods THEN "oidc_issuer"
    ELSE IF "jwks_url" \in methods THEN "jwks_url" ELSE "secret"

ResolveAuth_CliForgotten ==
    /\ stage = "ws_auth"
    /\ ws_auth' = IF ~file.auth.enabled THEN "no auth" ELSE FileMethod(file.auth.methods)
    /\ stage' = "resolve" /\ todo' = DOMAIN file.groups
    /\ UNCHANGED <<given, rejectedBy, group, at, tool_names, resolved, tools>>

ResolveAuth ==
    /\ stage = "ws_auth"
    /\ IF cli = {} /\ file.auth.enabled /\ file.auth.methods = {}
       THEN Reject("resolve_ws_auth") /\ UNCHANGED <<todo, ws_auth>>
       ELSE /\ ws_auth' = IF cli # {} THEN FileMethod(cli)
                          ELSE IF ~file.auth.enabled THEN "no auth"
                          ELSE FileMethod(file.auth.methods)
            /\ stage' = "resolve" /\ todo' = DOMAIN file.groups
            /\ UNCHANGED rejectedBy
    /\ UNCHANGED <<given, group, at, tool_names, resolved, tools>>

-----------------------------------------------------------------------------
(* get_all_tools, resolve_tool, ToolRegistry::from_config *)

FirstOf_NoBuiltIn(a, b, c) == IF a # None THEN a ELSE b

FirstOf(a, b, c) == IF a # None THEN a ELSE IF b # None THEN b ELSE c

resolve_signal(t, g) == IF t.signal # "none" THEN t.signal
                        ELSE IF g.signal # "none" THEN g.signal ELSE "SIGTERM"

resolve_tool_MaxOfBuiltIn(gname, t) ==
    LET g == file.groups[gname] IN
    [full_name |-> FullName[gname, t.name], group |-> gname, tool |-> t,
     signal |-> resolve_signal(t, g),
     limits |-> [k \in Limits |->
        [default |-> FirstOf(t.limits[k].default, g.limits[k].default, BuiltIn[k].default),
         max     |-> FirstOf(t.limits[k].max, None, BuiltIn[k].max)]]]

resolve_tool(gname, t) ==
    LET g == file.groups[gname] IN
    [full_name |-> FullName[gname, t.name], group |-> gname, tool |-> t,
     signal |-> resolve_signal(t, g),
     limits |-> [k \in Limits |->
        [default |-> FirstOf(t.limits[k].default, g.limits[k].default, BuiltIn[k].default),
         max     |-> FirstOf(t.limits[k].max, g.limits[k].max, BuiltIn[k].max)]]]

ResolveGroup(g) ==
    /\ stage = "resolve" /\ g \in todo
    /\ todo' = todo \ {g}
    /\ LET ts == file.groups[g].tools
       IN IF \E i \in 1 .. Len(ts) : resolve_signal(ts[i], file.groups[g]) = "invalid"
          THEN Reject("registry") /\ UNCHANGED resolved
          ELSE /\ resolved' = resolved \o [i \in 1 .. Len(ts) |-> resolve_tool(g, ts[i])]
               /\ UNCHANGED <<stage, rejectedBy>>
    /\ UNCHANGED <<given, group, at, tool_names, tools, ws_auth>>

Resolved ==
    /\ stage = "resolve" /\ todo = {}
    /\ stage' = "register"
    /\ UNCHANGED <<given, rejectedBy, walk, tool_names, service>>

Register ==
    /\ stage = "register" /\ resolved # <<>>
    /\ LET t == Head(resolved)
       IN IF t.full_name \in DOMAIN tools
          THEN Reject("registry") /\ UNCHANGED <<resolved, tools>>
          ELSE /\ tools' = [n \in DOMAIN tools \cup {t.full_name} |->
                              IF n = t.full_name THEN t ELSE tools[n]]
               /\ resolved' = Tail(resolved)
               /\ UNCHANGED <<stage, rejectedBy>>
    /\ UNCHANGED <<given, walk, tool_names, ws_auth>>

Serve ==
    /\ stage = "register" /\ resolved = <<>>
    /\ stage' = "serving"
    /\ UNCHANGED <<given, rejectedBy, walk, tool_names, service>>

-----------------------------------------------------------------------------
Init ==
    /\ file \in Files /\ cli \in SUBSET {"secret", "oidc_issuer"}
    /\ stage = "auth" /\ rejectedBy = "nobody"
    /\ todo = DOMAIN file.groups /\ group = NoGroup /\ at = 0
    /\ tool_names = {}
    /\ resolved = <<>> /\ tools = <<>> /\ ws_auth = "not decided"

Ended == stage \in {"serving", "rejected"} /\ UNCHANGED vars

Next == \/ ValidateAuth \/ ValidateTool \/ GroupDone \/ Validated
        \/ ResolveAuth \/ Resolved \/ Register \/ Serve \/ Ended
        \/ \E g \in GroupNames : ValidateGroup(g) \/ ResolveGroup(g)

Spec == Init /\ [][Next]_vars

-----------------------------------------------------------------------------
(* Properties *)

\* The type invariant; a registered tool has all its limits and a real signal.
TypeOK ==
    /\ file \in Files /\ cli \subseteq {"secret", "oidc_issuer"}
    /\ stage \in {"auth", "groups", "ws_auth", "resolve", "register", "serving", "rejected"}
    /\ rejectedBy \in {"nobody", "validate", "resolve_ws_auth", "registry"}
    /\ todo \subseteq DOMAIN file.groups /\ group \in DOMAIN file.groups \cup {NoGroup}
    /\ at \in Nat /\ tool_names \subseteq STRING
    /\ \A n \in DOMAIN tools : /\ tools[n].limits \in [Limits -> [default : Nat, max : Nat]]
                               /\ tools[n].signal \in {"SIGTERM", "SIGINT"}
    /\ ws_auth \in Methods \cup {"no auth", "not decided"}

\* The tools of the file: <<group, place in the group>>.
Places == UNION {{g} \X (1 .. Len(file.groups[g].tools)) : g \in DOMAIN file.groups}
ToolAt(p) == file.groups[p[1]].tools[p[2]]
NameAt(p) == FullName[p[1], ToolAt(p).name]

\* A good file, whatever order it is read in and whichever code looks at it.
Coherent(e) == /\ e.signal \in {"none", "SIGTERM", "SIGINT"}
               /\ \A k \in Limits : LET p == e.limits[k]
                                    IN None \in {p.default, p.max} \/ p.default <= p.max

Acceptable ==
    /\ file.auth.enabled => \E m \in Methods : file.auth.methods = {m}
    /\ \A g \in DOMAIN file.groups : Coherent(file.groups[g])
    /\ \A p \in Places : LET t == ToolAt(p) IN
         /\ Coherent(t) /\ t.ordered /\ t.flagged
         /\ \A k \in Limits \cap {"timeout"} : t.limits[k].default # 0
    /\ \A p, q \in Places : NameAt(p) = NameAt(q) => p = q

\* Whether a file is served does not depend on the order of a HashMap: all good files
\* are, and no other.
VerdictIsTheFiles == /\ stage = "serving" => Acceptable
                     /\ stage = "rejected" => ~Acceptable

\* validate leaves nothing for the later stages to find: the registry's own check for
\* duplicates, the signal check of resolve_tool and the fallback of resolve_ws_auth
\* are never needed.
ValidateIsEnough == stage = "rejected" => rejectedBy = "validate"

\* The value the most specific level gives.
Inherited(p, k, side) ==
    LET own == ToolAt(p).limits[k][side]
        grp == file.groups[p[1]].limits[k][side]
    IN CASE own # None -> own
         [] own = None /\ grp # None -> grp
         [] own = None /\ grp = None -> BuiltIn[k][side]

\* Every tool of the file is served under its own name, with limits of its own or of
\* its own group, and nothing else is.
RegistryIsTheFile == stage = "serving" =>
    /\ DOMAIN tools = {NameAt(p) : p \in Places}
    /\ \A p \in Places :
         /\ tools[NameAt(p)].tool = ToolAt(p) /\ tools[NameAt(p)].group = p[1]
         /\ tools[NameAt(p)].signal # "invalid"
         /\ \A k \in Limits : \A side \in {"default", "max"} :
              tools[NameAt(p)].limits[k][side] = Inherited(p, k, side)

\* The level a limit is taken from.
Level(p, k, side) == IF ToolAt(p).limits[k][side] # None THEN "tool"
                     ELSE IF file.groups[p[1]].limits[k][side] # None THEN "group"
                     ELSE "built-in"

\* validate compares a default with its max before either is inherited: the checks of
\* the levels, put together by resolve_tool, leave one way for a tool to be served
\* with a limit above its max, that the two are of different levels.
AboveMaxIsMixed == stage = "serving" =>
    \A p \in Places, k \in Limits :
        LET l == tools[NameAt(p)].limits[k]
        IN l.default > l.max => Level(p, k, "default") # Level(p, k, "max")

\* A file or a command line that asks for authentication gets it, from one method; the
\* command line is obeyed before the file.
AuthFailsClosed == stage = "serving" =>
    /\ file.auth.enabled \/ cli # {} => ws_auth # "no auth"
    /\ cli # {} => ws_auth \in cli
    /\ cli = {} /\ file.auth.enabled => file.auth.methods = {ws_auth}
=============================================================================
