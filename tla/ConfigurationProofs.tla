------------------------- MODULE ConfigurationProofs -------------------------
(***************************************************************************)
(* Proofs about Configuration, for every set of files whose values have    *)
(* their types: the type invariant, that validate rejects exactly the bad  *)
(* files and leaves nothing for the later stages to find, that the tools   *)
(* served are the file's, and that authentication is never dropped.        *)
(*                                                                         *)
(* The invariant says, of each stage, what it has looked at: validate's    *)
(* walk keeps the names and the soundness of the tools behind it, and      *)
(* from_config's keeps every tool of the file in exactly one of three      *)
(* places: in a group that waits, in `resolved', in the registry.          *)
(***************************************************************************)
EXTENDS Configuration, TLAPS

-----------------------------------------------------------------------------
(* The invariant *)

\* What resolve_tool makes of the tool at a place.
Entry(p) == resolve_tool(p[1], ToolAt(p))
Entries  == {Entry(p) : p \in Places}

Typed == TypeOK /\ resolved \in Seq(Entries)

\* The places that validate has behind it while it walks the groups.
Checked == {p \in Places : p[1] \notin todo /\ (p[1] = group => p[2] <= at)}

\* validate has passed.
Late == {"ws_auth", "resolve", "register", "serving"}

\* The stages of from_config.
Building == {"resolve", "register", "serving"}

Walks ==
    /\ stage \notin {"groups", "rejected"} => group = NoGroup
    /\ stage = "groups" /\ group # NoGroup =>
         group \notin todo /\ at <= Len(file.groups[group].tools)
    /\ stage = "auth" => tool_names = {} /\ todo = DOMAIN file.groups
    /\ stage \in {"auth", "groups", "ws_auth"} => resolved = <<>>
    /\ stage \in {"auth", "groups", "ws_auth", "resolve"} => tools = <<>>

\* What validate has seen is sound, and only a file that is not is rejected.
Walked ==
    /\ \A g \in DOMAIN file.groups \ todo : Coherent(file.groups[g])
    /\ \A p \in Checked : ToolIsValid(ToolAt(p))
    /\ \A p, q \in Checked : NameAt(p) = NameAt(q) => p = q
    /\ tool_names = {NameAt(p) : p \in Checked}

Vetted ==
    /\ stage \in {"groups"} \cup Late => AuthIsValid(file.auth)
    /\ stage = "groups" => Walked
    /\ stage \in Late => Acceptable
    /\ stage = "rejected" => rejectedBy = "validate" /\ ~Acceptable

\* The tool at p is in a group that get_all_tools has not resolved.
Waits(p) == stage = "resolve" /\ p[1] \in todo

\* Every tool waits, is resolved or is registered, and never under another's name.
Held == \A p \in Places : \/ Waits(p)
                          \/ NameAt(p) \in DOMAIN tools
                          \/ \E i \in 1 .. Len(resolved) : resolved[i] = Entry(p)

Queued == \A i \in 1 .. Len(resolved) :
    /\ \E p \in Places : ~Waits(p) /\ resolved[i] = Entry(p)
    /\ resolved[i].full_name \notin DOMAIN tools

Apart == \A i, j \in 1 .. Len(resolved) :
    resolved[i].full_name = resolved[j].full_name => i = j

Registered == \A n \in DOMAIN tools :
    \E p \in Places : n = NameAt(p) /\ tools[n] = Entry(p)

Registers == stage \in Building =>
    /\ Held /\ Queued /\ Apart /\ Registered
    /\ stage = "serving" => resolved = <<>>

\* What guards the websocket from resolve_ws_auth on.
Guard ==
    /\ file.auth.enabled \/ cli # {} => ws_auth # "no auth"
    /\ cli # {} => ws_auth \in cli
    /\ cli = {} /\ file.auth.enabled => file.auth.methods = {ws_auth}

Guarded == stage \in Building => Guard

Inv == Typed /\ Walks /\ Vetted /\ Registers /\ Guarded

-----------------------------------------------------------------------------
(* The file *)

\* The parts of a file have their types.
LEMMA FileFits ==
    ASSUME file \in Files
    PROVE  /\ file.auth \in [enabled : BOOLEAN, methods : SUBSET Methods]
           /\ DOMAIN file.groups \subseteq GroupNames
           /\ NoGroup \notin DOMAIN file.groups
           /\ \A g \in DOMAIN file.groups :
                /\ file.groups[g] \in Groups
                /\ file.groups[g].limits \in [Limits -> Pairs]
                /\ file.groups[g].signal \in Signals
                /\ file.groups[g].tools \in Seq(Tools)
                /\ Len(file.groups[g].tools) \in Nat
<1>1. /\ file.auth \in [enabled : BOOLEAN, methods : SUBSET Methods]
      /\ DOMAIN file.groups \subseteq GroupNames
      /\ \A g \in DOMAIN file.groups : file.groups[g] \in Groups
      /\ NoGroup \notin GroupNames
  BY ConfigurationAssumption
<1>2. ASSUME NEW e \in Groups
      PROVE  /\ e.limits \in [Limits -> Pairs] /\ e.signal \in Signals
             /\ e.tools \in Seq(Tools) /\ Len(e.tools) \in Nat
  BY DEF Groups
<1> QED BY <1>1, <1>2, Zenon

\* The places are those of the tools, and a tool has its parts.
LEMMA PlacesFit ==
    ASSUME file \in Files
    PROVE  /\ \A g \in DOMAIN file.groups : \A i \in 1 .. Len(file.groups[g].tools) :
                <<g, i>> \in Places
           /\ \A p \in Places :
                /\ p = <<p[1], p[2]>> /\ p[1] \in DOMAIN file.groups
                /\ p[2] \in 1 .. Len(file.groups[p[1]].tools)
                /\ ToolAt(p) \in Tools
                /\ NameAt(p) \in STRING
<1>1. \A g \in DOMAIN file.groups : \A i \in 1 .. Len(file.groups[g].tools) : <<g, i>> \in Places
  BY DEF Places
<1>2. ASSUME NEW p \in Places
      PROVE  /\ p = <<p[1], p[2]>> /\ p[1] \in DOMAIN file.groups
             /\ p[2] \in 1 .. Len(file.groups[p[1]].tools)
             /\ ToolAt(p) \in Tools /\ NameAt(p) \in STRING
  <2>1. PICK g \in DOMAIN file.groups : p \in {g} \X (1 .. Len(file.groups[g].tools))
    BY DEF Places
  <2>2. p[1] = g /\ p[2] \in 1 .. Len(file.groups[g].tools) /\ p = <<p[1], p[2]>>
    BY <2>1
  <2>3. file.groups[g].tools \in Seq(Tools) /\ g \in GroupNames
    BY FileFits
  <2>4. ToolAt(p) \in Tools
    BY <2>2, <2>3 DEF ToolAt
  <2>5. ToolAt(p).name \in ToolNames
    BY <2>4 DEF Tools
  <2>6. NameAt(p) \in STRING
    <3>1. FullName \in [GroupNames \X ToolNames -> STRING] /\ p[1] \in GroupNames
      BY <2>2, <2>3, ConfigurationAssumption
    <3>2. <<p[1], ToolAt(p).name>> \in GroupNames \X ToolNames
      BY <2>5, <3>1
    <3>3. NameAt(p) = FullName[<<p[1], ToolAt(p).name>>]
      BY Zenon DEF NameAt
    <3> QED BY <3>1, <3>2, <3>3, Zenon
  <2> QED BY <2>2, <2>4, <2>6
<1> QED BY <1>1, <1>2

\* The two ways to say that the values of a level agree: validate's and the file's.
LEMMA CoherentIs ==
    ASSUME NEW e, e.limits \in [Limits -> Pairs], e.signal \in Signals
    PROVE  Coherent(e) <=> PairsAreValid(e.limits) /\ e.signal # "invalid"
<1>1. ASSUME NEW p \in Pairs
      PROVE  PairIsValid(p) <=> None \in {p.default, p.max} \/ p.default <= p.max
  BY DEF PairIsValid, Pairs, Opt, None
<1>2. \A k \in Limits : e.limits[k] \in Pairs
  OBVIOUS
<1>3. PairsAreValid(e.limits)
      <=> \A k \in Limits : None \in {e.limits[k].default, e.limits[k].max}
                            \/ e.limits[k].default <= e.limits[k].max
  BY <1>1, <1>2, Zenon DEF PairsAreValid
<1>4. e.signal # "invalid" <=> e.signal \in {"none", "SIGTERM", "SIGINT"}
  BY DEF Signals
<1> QED BY <1>3, <1>4, Zenon DEF Coherent

\* What validate asks of one tool is what a good file has there.
LEMMA ToolIs ==
    ASSUME NEW t \in Tools
    PROVE  ToolIsValid(t) <=> /\ Coherent(t) /\ t.ordered /\ t.flagged
                              /\ \A k \in Limits \cap {"timeout"} : t.limits[k].default # 0
<1>1. t.limits \in [Limits -> Pairs] /\ t.signal \in Signals
  BY DEF Tools
<1>2. Coherent(t) <=> PairsAreValid(t.limits) /\ t.signal # "invalid"
  BY <1>1, CoherentIs
<1> QED BY <1>2, Zenon DEF ToolIsValid

\* validate's three checks of [websocket_auth] leave exactly one method.
LEMMA AuthIs ==
    ASSUME NEW auth \in [enabled : BOOLEAN, methods : SUBSET Methods]
    PROVE  AuthIsValid(auth) <=> (auth.enabled => \E m \in Methods : auth.methods = {m})
<1>1. auth.methods \subseteq {"secret", "oidc_issuer", "jwks_url"}
  BY DEF Methods
<1>2. ASSUME NEW m \in Methods, auth.methods = {m}
      PROVE  AuthIsValid(auth)
  BY <1>2 DEF AuthIsValid, Methods
<1>3. ASSUME AuthIsValid(auth), auth.enabled
      PROVE  \E m \in Methods : auth.methods = {m}
  <2>1. PICK m : m \in auth.methods
    BY <1>3 DEF AuthIsValid
  <2>2. \A n \in auth.methods : n = m
    BY <1>1, <1>3, <2>1 DEF AuthIsValid
  <2> QED BY <1>1, <2>1, <2>2 DEF Methods
<1>4. ~auth.enabled => AuthIsValid(auth)
  BY DEF AuthIsValid
<1> QED BY <1>2, <1>3, <1>4

\* A file is acceptable when all that validate asks of it holds.
LEMMA AcceptableIs ==
    ASSUME file \in Files
    PROVE  Acceptable <=>
             /\ AuthIsValid(file.auth)
             /\ \A g \in DOMAIN file.groups : Coherent(file.groups[g])
             /\ \A p \in Places : ToolIsValid(ToolAt(p))
             /\ \A p, q \in Places : NameAt(p) = NameAt(q) => p = q
<1>1. AuthIsValid(file.auth)
      <=> (file.auth.enabled => \E m \in Methods : file.auth.methods = {m})
  BY FileFits, AuthIs
<1>2. \A p \in Places : ToolIsValid(ToolAt(p)) <=>
        /\ Coherent(ToolAt(p)) /\ ToolAt(p).ordered /\ ToolAt(p).flagged
        /\ \A k \in Limits \cap {"timeout"} : ToolAt(p).limits[k].default # 0
  BY PlacesFit, ToolIs
<1> QED BY <1>1, <1>2, Zenon DEF Acceptable

\* What depends on the file alone stays while the file does.
LEMMA FileKept ==
    ASSUME file' = file
    PROVE  /\ Places' = Places
           /\ \A p : /\ ToolAt(p)' = ToolAt(p) /\ NameAt(p)' = NameAt(p)
                     /\ Entry(p)' = Entry(p)
           /\ Entries' = Entries
           /\ Acceptable' <=> Acceptable
<1>1. Places' = Places
  BY DEF Places
<1>2. \A p : ToolAt(p)' = ToolAt(p) /\ NameAt(p)' = NameAt(p)
  BY DEF ToolAt, NameAt
<1>3. \A p : Entry(p)' = Entry(p)
  BY <1>2 DEF Entry, resolve_tool
<1>4. Entries' = Entries
  BY <1>1, <1>3, Zenon DEF Entries
<1>5. Acceptable' <=> Acceptable
  BY <1>1, <1>2 DEF Acceptable
<1> QED BY <1>1, <1>2, <1>3, <1>4, <1>5

\* What resolve_tool makes of a tool of a good file: values at every level, a real signal.
LEMMA EntryFits ==
    ASSUME file \in Files, Acceptable, NEW p \in Places
    PROVE  /\ Entry(p).full_name = NameAt(p) /\ Entry(p).group = p[1]
           /\ Entry(p).tool = ToolAt(p)
           /\ Entry(p).limits \in [Limits -> [default : Nat, max : Nat]]
           /\ Entry(p).signal \in {"SIGTERM", "SIGINT"}
<1> DEFINE g == file.groups[p[1]]
           t == ToolAt(p)
           pair(k) ==
             [default |-> FirstOf(t.limits[k].default, g.limits[k].default, BuiltIn[k].default),
              max     |-> FirstOf(t.limits[k].max, g.limits[k].max, BuiltIn[k].max)]
<1>1. t \in Tools /\ p[1] \in DOMAIN file.groups /\ g \in Groups
  BY PlacesFit, FileFits
<1>2. t.limits \in [Limits -> Pairs] /\ g.limits \in [Limits -> Pairs]
  BY <1>1 DEF Tools, Groups
<1>3. Coherent(t) /\ Coherent(g)
  BY <1>1 DEF Acceptable
<1>4. t.signal \in {"none", "SIGTERM", "SIGINT"} /\ g.signal \in {"none", "SIGTERM", "SIGINT"}
  BY <1>3 DEF Coherent
<1>5. resolve_signal(t, g) \in {"SIGTERM", "SIGINT"}
  BY <1>4 DEF resolve_signal
<1>6. ASSUME NEW a \in Opt, NEW b \in Opt, NEW c \in Nat
      PROVE  FirstOf(a, b, c) \in Nat
  BY DEF FirstOf, Opt, None
<1>7. ASSUME NEW k \in Limits
      PROVE  /\ FirstOf(t.limits[k].default, g.limits[k].default, BuiltIn[k].default) \in Nat
             /\ FirstOf(t.limits[k].max, g.limits[k].max, BuiltIn[k].max) \in Nat
  <2>1. t.limits[k] \in Pairs /\ g.limits[k] \in Pairs
    BY <1>2
  <2>2. /\ t.limits[k].default \in Opt /\ t.limits[k].max \in Opt
        /\ g.limits[k].default \in Opt /\ g.limits[k].max \in Opt
    BY <2>1 DEF Pairs
  <2>3. BuiltIn[k].default \in Nat /\ BuiltIn[k].max \in Nat
    BY ConfigurationAssumption
  <2> QED BY <1>6, <2>2, <2>3, Zenon
<1>8. /\ Entry(p).full_name = FullName[p[1], t.name] /\ Entry(p).group = p[1]
      /\ Entry(p).tool = t /\ Entry(p).signal = resolve_signal(t, g)
      /\ Entry(p).limits = [k \in Limits |-> pair(k)]
  BY DEF Entry, resolve_tool
<1>9. Entry(p).limits \in [Limits -> [default : Nat, max : Nat]]
  <2>1. \A k \in Limits : pair(k) \in [default : Nat, max : Nat]
    BY <1>7
  <2> HIDE DEF pair
  <2> QED BY <1>8, <2>1
<1> HIDE DEF t, g, pair
<1> QED BY <1>5, <1>8, <1>9 DEF NameAt, t

-----------------------------------------------------------------------------
(* Config::validate *)

LEMMA InitInv == Init => Inv
<1> SUFFICES ASSUME Init PROVE Inv
  OBVIOUS
<1>1. Typed
  <2>1. DOMAIN tools = {} /\ resolved \in Seq(Entries)
    <3>1. tools = <<>> /\ resolved = <<>>
      BY DEF Init
    <3> QED BY <3>1
  <2>2. TypeOK
    BY <2>1 DEF Init, TypeOK
  <2> QED BY <2>1, <2>2 DEF Typed
<1>2. Walks /\ Vetted /\ Registers /\ Guarded
  BY DEF Init, Walks, Vetted, Late, Registers, Guarded, Building
<1> QED BY <1>1, <1>2 DEF Inv

\* A step of validate builds nothing.
LEMMA NothingBuilt ==
    ASSUME Inv, UNCHANGED <<given, service>>,
           stage \in {"auth", "groups"}, stage' \in {"groups", "ws_auth", "rejected"},
           rejectedBy' \in {rejectedBy, "validate"},
           todo' \subseteq DOMAIN file.groups, group' \in DOMAIN file.groups \cup {NoGroup},
           at' \in Nat, tool_names' \subseteq STRING
    PROVE  /\ Typed' /\ Registers' /\ Guarded'
           /\ resolved' = <<>> /\ tools' = <<>>
<1>1. resolved = <<>> /\ tools = <<>>
  BY DEF Inv, Walks
<1>2. file' = file /\ cli' = cli /\ resolved' = <<>> /\ tools' = <<>> /\ ws_auth' = ws_auth
  BY <1>1 DEF given, service
<1>3. TypeOK'
  <2>1. DOMAIN tools' = {}
    BY <1>2
  <2> QED BY <1>2, <2>1 DEF Inv, Typed, TypeOK
<1>4. resolved' \in Seq(Entries)'
  BY <1>2
<1>5. Registers' /\ Guarded'
  BY DEF Registers, Guarded, Building
<1> QED BY <1>2, <1>3, <1>4, <1>5 DEF Typed

LEMMA ValidateAuthStep == Inv /\ ValidateAuth => Inv'
<1> SUFFICES ASSUME Inv, ValidateAuth PROVE Inv'
  OBVIOUS
<1> USE DEF ValidateAuth, Reject, given, walk, service
<1>1. file' = file /\ file \in Files /\ (Acceptable' <=> Acceptable)
  BY FileKept DEF Inv, Typed, TypeOK
<1>2. Typed' /\ Registers' /\ Guarded' /\ resolved' = <<>> /\ tools' = <<>>
  <2>1. /\ todo' \subseteq DOMAIN file.groups /\ group' \in DOMAIN file.groups \cup {NoGroup}
        /\ at' \in Nat /\ tool_names' \subseteq STRING
    BY DEF Inv, Typed, TypeOK
  <2> QED BY <2>1, NothingBuilt
<1>3. group = NoGroup /\ tool_names = {} /\ todo = DOMAIN file.groups
  BY DEF Inv, Walks
<1>4. Walks'
  BY <1>2, <1>3 DEF Walks
<1>5. CASE AuthIsValid(file.auth)
  <2>1. Checked' = {}
    BY <1>1, <1>3, PlacesFit, FileKept DEF Checked
  <2>2. Walked'
    BY <1>1, <1>3, <2>1 DEF Walked
  <2> QED BY <1>1, <1>2, <1>4, <1>5, <2>2 DEF Inv, Vetted, Late
<1>6. CASE ~AuthIsValid(file.auth)
  <2>1. ~Acceptable
    BY <1>1, <1>6, AcceptableIs
  <2> QED BY <1>1, <1>2, <1>4, <1>6, <2>1 DEF Inv, Vetted, Late
<1> QED BY <1>5, <1>6

\* A step that rejects a bad file.
LEMMA RejectStep ==
    ASSUME Inv, UNCHANGED <<given, service>>, stage \in {"auth", "groups"},
           Reject("validate"), ~Acceptable,
           todo' \subseteq DOMAIN file.groups, group' \in DOMAIN file.groups \cup {NoGroup},
           at' \in Nat, tool_names' \subseteq STRING
    PROVE  Inv'
<1>1. stage' = "rejected" /\ rejectedBy' = "validate"
  BY DEF Reject
<1>2. Typed' /\ Registers' /\ Guarded' /\ resolved' = <<>> /\ tools' = <<>>
  BY <1>1, NothingBuilt
<1>3. Walks'
  BY <1>1, <1>2 DEF Walks
<1>4. ~Acceptable'
  BY FileKept DEF given
<1>5. Vetted'
  BY <1>1, <1>4 DEF Vetted, Late
<1> QED BY <1>2, <1>3, <1>5 DEF Inv

LEMMA ValidateGroupStep ==
    ASSUME Inv, NEW g, ValidateGroup(g)
    PROVE  Inv'
<1> USE DEF given, service
<1>1. /\ file' = file /\ file \in Files /\ g \in DOMAIN file.groups /\ g \notin todo'
      /\ stage = "groups" /\ group = NoGroup /\ todo \subseteq DOMAIN file.groups
      /\ todo' = todo \ {g} /\ UNCHANGED <<given, tool_names, service>>
      /\ at \in Nat /\ tool_names \subseteq STRING
  BY DEF Inv, Typed, TypeOK, ValidateGroup
<1>2. Coherent(file.groups[g])
      <=> PairsAreValid(file.groups[g].limits) /\ file.groups[g].signal # "invalid"
  BY <1>1, FileFits, CoherentIs
<1>3. CASE Coherent(file.groups[g])
  <2>1. group' = g /\ at' = 0 /\ stage' = stage /\ rejectedBy' = rejectedBy
    BY <1>2, <1>3 DEF ValidateGroup
  <2>2. Typed' /\ Registers' /\ Guarded' /\ resolved' = <<>> /\ tools' = <<>>
    BY <1>1, <2>1, NothingBuilt
  <2>3. Len(file.groups[g].tools) \in Nat
    BY <1>1, FileFits
  <2>4. Walks'
    BY <1>1, <2>1, <2>2, <2>3 DEF Walks
  <2>5. Checked' = Checked
    <3>1. \A p \in Places : p[1] \in DOMAIN file.groups /\ p[1] # NoGroup /\ p[2] \in Nat /\ p[2] > 0
      BY <1>1, PlacesFit, FileFits
    <3>2. g \in todo
      BY DEF ValidateGroup
    <3> QED BY <1>1, <2>1, <3>1, <3>2, FileKept DEF Checked
  <2>6. Walked
    BY <1>1 DEF Inv, Vetted
  <2>7. Walked'
    BY <1>1, <1>3, <2>5, <2>6, FileKept DEF Walked
  <2>8. AuthIsValid(file.auth)
    BY <1>1 DEF Inv, Vetted
  <2> QED BY <1>1, <2>1, <2>2, <2>4, <2>7, <2>8 DEF Inv, Vetted, Late
<1>4. CASE ~Coherent(file.groups[g])
  <2>1. Reject("validate") /\ group' = group /\ at' = at
    BY <1>2, <1>4 DEF ValidateGroup
  <2>2. ~Acceptable
    BY <1>1, <1>4, AcceptableIs
  <2> QED BY <1>1, <2>1, <2>2, RejectStep
<1> QED BY <1>3, <1>4

LEMMA ValidateToolStep == Inv /\ ValidateTool => Inv'
<1> SUFFICES ASSUME Inv, ValidateTool PROVE Inv'
  OBVIOUS
<1> USE DEF given, service
<1> DEFINE here == <<group, at + 1>>
<1>1. /\ file' = file /\ file \in Files /\ group \in DOMAIN file.groups /\ group # NoGroup
      /\ stage = "groups" /\ todo \subseteq DOMAIN file.groups /\ group \notin todo
      /\ at \in Nat /\ at < Len(file.groups[group].tools) /\ tool_names \subseteq STRING
      /\ UNCHANGED <<given, todo, group, service>>
  BY DEF Inv, Typed, TypeOK, ValidateTool, Walks
<1>2. Len(file.groups[group].tools) \in Nat
  BY <1>1, FileFits
<1>3. here \in Places /\ here[1] = group /\ here[2] = at + 1
  BY <1>1, <1>2, PlacesFit
<1>4. ToolAt(here) = file.groups[group].tools[at + 1]
      /\ NameAt(here) = FullName[group, ToolAt(here).name]
  <2>1. ToolAt(here) = file.groups[here[1]].tools[here[2]]
    BY Zenon DEF ToolAt
  <2>2. NameAt(here) = FullName[here[1], ToolAt(here).name]
    BY Zenon DEF NameAt
  <2> HIDE DEF here
  <2> QED BY <1>3, <2>1, <2>2, Zenon
<1>5. NameAt(here) \in STRING
  BY <1>1, <1>3, PlacesFit
<1>6. Walked /\ AuthIsValid(file.auth)
  BY <1>1 DEF Inv, Vetted
<1>7. here \notin Checked
  BY <1>1, <1>3 DEF Checked
<1> HIDE DEF here
<1>8. CASE ~Seen(NameAt(here)) /\ ToolIsValid(ToolAt(here))
  <2>1. /\ tool_names' = tool_names \cup {NameAt(here)} /\ at' = at + 1
        /\ stage' = stage /\ rejectedBy' = rejectedBy
    BY <1>4, <1>8 DEF ValidateTool
  <2>2. Typed' /\ Registers' /\ Guarded' /\ resolved' = <<>> /\ tools' = <<>>
    <3>1. at' \in Nat
      BY <1>1, <2>1
    <3>2. tool_names' \subseteq STRING
      BY <1>1, <1>5, <2>1, Zenon
    <3> QED BY <1>1, <2>1, <3>1, <3>2, NothingBuilt
  <2>3. Walks'
    BY <1>1, <1>2, <2>1, <2>2 DEF Walks
  <2>4. Checked' = Checked \cup {here}
    <3>1. \A p \in Places : /\ p = <<p[1], p[2]>> /\ p[2] \in Nat
                            /\ (p[1] = group /\ p[2] = at + 1 => p = here)
      BY <1>1, PlacesFit DEF here
    <3>2. \A p \in Places : p \in Checked' <=> p[1] \notin todo /\ (p[1] = group => p[2] <= at + 1)
      BY <1>1, <2>1, FileKept DEF Checked
    <3>3. \A p \in Places : p \in Checked <=> p[1] \notin todo /\ (p[1] = group => p[2] <= at)
      BY DEF Checked
    <3>4. Checked \subseteq Places /\ Checked' \subseteq Places
      BY <1>1, FileKept DEF Checked
    <3>5. ASSUME NEW p \in Places PROVE p \in Checked' <=> p \in Checked \/ p = here
      <4>1. p[2] \in Nat /\ (p[2] <= at + 1 <=> p[2] <= at \/ p[2] = at + 1)
        BY <1>1, <3>1
      <4> QED BY <1>1, <1>3, <3>1, <3>2, <3>3, <4>1
    <3> QED BY <1>3, <3>4, <3>5
  <2>5. NameAt(here) \notin tool_names
    BY <1>8 DEF Seen
  <2>6. Walked'
    BY <1>1, <1>6, <1>8, <2>1, <2>4, <2>5, FileKept DEF Walked
  <2> QED BY <1>1, <1>6, <2>1, <2>2, <2>3, <2>6 DEF Inv, Vetted, Late
<1>9. CASE ~(~Seen(NameAt(here)) /\ ToolIsValid(ToolAt(here)))
  <2>1. Reject("validate") /\ tool_names' = tool_names /\ at' = at
    BY <1>4, <1>9 DEF ValidateTool
  <2>2. ~Acceptable
    <3>1. CASE ~ToolIsValid(ToolAt(here))
      BY <1>1, <1>3, <3>1, AcceptableIs
    <3>2. CASE Seen(NameAt(here))
      <4>1. PICK p \in Checked : NameAt(p) = NameAt(here)
        BY <1>6, <3>2 DEF Seen, Walked
      <4>2. p \in Places /\ p # here
        BY <1>7, <4>1 DEF Checked
      <4> QED BY <1>3, <4>1, <4>2 DEF Acceptable
    <3> QED BY <1>9, <3>1, <3>2
  <2> QED BY <1>1, <2>1, <2>2, RejectStep
<1> QED BY <1>8, <1>9

LEMMA GroupDoneStep == Inv /\ GroupDone => Inv'
<1> SUFFICES ASSUME Inv, GroupDone PROVE Inv'
  OBVIOUS
<1> USE DEF given, service
<1>1. /\ file' = file /\ file \in Files /\ group \in DOMAIN file.groups /\ group # NoGroup
      /\ stage = "groups" /\ todo \subseteq DOMAIN file.groups /\ group \notin todo
      /\ at = Len(file.groups[group].tools) /\ tool_names \subseteq STRING
      /\ UNCHANGED <<given, stage, rejectedBy, todo, tool_names, service>>
      /\ group' = NoGroup /\ at' = 0
  BY DEF Inv, Typed, TypeOK, GroupDone, Walks
<1>2. Typed' /\ Registers' /\ Guarded' /\ resolved' = <<>> /\ tools' = <<>>
  BY <1>1, NothingBuilt
<1>3. Walks'
  BY <1>1, <1>2 DEF Walks
<1>4. Checked' = Checked
  <2>1. \A p \in Places : /\ p[1] # NoGroup
                          /\ (p[1] = group => p[2] <= at)
    BY <1>1, PlacesFit, FileFits
  <2> QED BY <1>1, <2>1, FileKept DEF Checked
<1>5. Walked /\ AuthIsValid(file.auth)
  BY <1>1 DEF Inv, Vetted
<1>6. Walked'
  BY <1>1, <1>4, <1>5, FileKept DEF Walked
<1> QED BY <1>1, <1>2, <1>3, <1>5, <1>6 DEF Inv, Vetted, Late

\* A walk that has come to its end has looked at every part of the file.
LEMMA ValidatedStep == Inv /\ Validated => Inv'
<1> SUFFICES ASSUME Inv, Validated PROVE Inv'
  OBVIOUS
<1> USE DEF given, service, walk
<1>1. /\ file' = file /\ file \in Files /\ group = NoGroup /\ todo = {} /\ stage = "groups"
      /\ tool_names \subseteq STRING /\ at \in Nat
      /\ UNCHANGED <<given, rejectedBy, walk, tool_names, service>>
      /\ stage' = "ws_auth"
  BY DEF Inv, Typed, TypeOK, Validated
<1>2. Typed' /\ Registers' /\ Guarded' /\ resolved' = <<>> /\ tools' = <<>>
  BY <1>1, NothingBuilt
<1>3. Walks'
  BY <1>1, <1>2 DEF Walks
<1>4. Walked /\ AuthIsValid(file.auth)
  BY <1>1 DEF Inv, Vetted
<1>5. Checked = Places
  BY <1>1, PlacesFit, FileFits DEF Checked
<1>6. Acceptable
  BY <1>1, <1>4, <1>5, AcceptableIs DEF Walked
<1>7. Acceptable'
  BY <1>1, <1>6, FileKept
<1> QED BY <1>1, <1>2, <1>3, <1>4, <1>7 DEF Inv, Vetted, Late

-----------------------------------------------------------------------------
(* resolve_ws_auth *)

\* The method taken is one of those given.
LEMMA FileMethodIs ==
    ASSUME NEW S, S \subseteq Methods, S # {}
    PROVE  FileMethod(S) \in S
BY DEF FileMethod, Methods

LEMMA ResolveAuthStep == Inv /\ ResolveAuth => Inv'
<1> SUFFICES ASSUME Inv, ResolveAuth PROVE Inv'
  OBVIOUS
<1> USE DEF given, service
<1>1. /\ stage = "ws_auth" /\ file' = file /\ cli' = cli /\ file \in Files
      /\ cli \subseteq Methods /\ UNCHANGED <<group, at, tool_names, resolved, tools>>
  BY DEF Inv, Typed, TypeOK, ResolveAuth, Methods
<1>2. resolved = <<>> /\ tools = <<>> /\ group = NoGroup
  BY <1>1 DEF Inv, Walks
<1>3. Acceptable /\ AuthIsValid(file.auth)
  BY <1>1 DEF Inv, Vetted, Late
<1>4. file.auth.enabled => \E m \in Methods : file.auth.methods = {m}
  BY <1>3 DEF Acceptable
<1>5. file.auth.methods \subseteq Methods
  BY <1>1, FileFits
<1>6. /\ ws_auth' = IF cli # {} THEN FileMethod(cli)
                    ELSE IF ~file.auth.enabled THEN "no auth"
                    ELSE FileMethod(file.auth.methods)
      /\ stage' = "resolve" /\ todo' = DOMAIN file.groups /\ rejectedBy' = rejectedBy
  BY <1>4 DEF ResolveAuth
<1>7. Guard'
  <2>1. "no auth" \notin Methods
    BY DEF Methods
  <2>2. CASE cli # {}
    BY <1>1, <1>6, <2>1, <2>2, FileMethodIs DEF Guard
  <2>3. CASE cli = {} /\ file.auth.enabled
    <3>1. ws_auth' = FileMethod(file.auth.methods)
      BY <1>6, <2>3
    <3>2. PICK m \in Methods : file.auth.methods = {m}
      BY <1>4, <2>3
    <3>3. ws_auth' \in file.auth.methods
      BY <1>5, <3>1, <3>2, FileMethodIs
    <3>4. ws_auth' = m
      BY <3>2, <3>3
    <3> QED BY <1>1, <2>1, <2>3, <3>2, <3>4 DEF Guard
  <2>4. CASE cli = {} /\ ~file.auth.enabled
    BY <1>1, <2>4 DEF Guard
  <2> QED BY <2>2, <2>3, <2>4
<1>8. ws_auth' \in Methods \cup {"no auth", "not decided"}
  BY <1>1, <1>4, <1>5, <1>6, FileMethodIs
<1>9. Typed'
  <2>1. DOMAIN tools' = {} /\ resolved' = <<>>
    BY <1>1, <1>2
  <2>2. TypeOK'
    BY <1>1, <1>6, <1>8, <2>1 DEF Inv, Typed, TypeOK
  <2>3. resolved' \in Seq(Entries)'
    BY <2>1
  <2> QED BY <2>2, <2>3 DEF Typed
<1>10. Walks'
  BY <1>1, <1>2, <1>6 DEF Walks
<1>11. Vetted'
  BY <1>1, <1>3, <1>6, FileKept DEF Vetted, Late
<1>12. Registers'
  <2>1. \A p \in Places' : Waits(p)'
    BY <1>1, <1>6, PlacesFit, FileKept DEF Waits
  <2>2. Held'
    BY <2>1 DEF Held
  <2>3. Len(resolved') = 0 /\ DOMAIN tools' = {}
    BY <1>1, <1>2
  <2>4. Queued' /\ Apart' /\ Registered'
    BY <2>3 DEF Queued, Apart, Registered
  <2> QED BY <1>6, <2>2, <2>4 DEF Registers
<1> QED BY <1>7, <1>9, <1>10, <1>11, <1>12 DEF Inv, Guarded

-----------------------------------------------------------------------------
(* get_all_tools, resolve_tool, ToolRegistry::from_config *)

\* What a step of from_config on a good file need show.
LEMMA BuildingStep ==
    ASSUME Inv, UNCHANGED <<given, group, at, tool_names, ws_auth, rejectedBy>>,
           stage \in Building, stage' \in Building,
           stage' = "resolve" => stage = "resolve" /\ tools' = tools,
           todo' \subseteq todo, resolved' \in Seq(Entries),
           Held', Queued', Apart', Registered',
           stage' = "serving" => resolved' = <<>>
    PROVE  Inv'
<1> USE DEF given
<1>1. file' = file /\ file \in Files /\ cli' = cli
  BY DEF Inv, Typed, TypeOK
<1>2. Acceptable /\ Acceptable'
  BY <1>1, FileKept DEF Inv, Vetted, Late, Building
<1>3. \A n \in DOMAIN tools' :
        /\ tools'[n].limits \in [Limits -> [default : Nat, max : Nat]]
        /\ tools'[n].signal \in {"SIGTERM", "SIGINT"}
  <2>1. \A n \in DOMAIN tools' : \E p \in Places : tools'[n] = Entry(p)
    BY <1>1, FileKept DEF Registered
  <2> QED BY <1>1, <1>2, <2>1, EntryFits
<1>4. TypeOK'
  <2>1. stage' \in {"auth", "groups", "ws_auth", "resolve", "register", "serving", "rejected"}
    BY DEF Building
  <2> QED BY <1>1, <1>3, <2>1 DEF Inv, Typed, TypeOK
<1>5. Typed'
  BY <1>1, <1>4, FileKept DEF Typed
<1>6. Walks'
  BY DEF Inv, Walks, Building
<1>7. Vetted'
  BY <1>1, <1>2, FileKept DEF Inv, Vetted, Late, Building
<1>8. Registers' /\ Guarded'
  <2>1. Guard'
    BY <1>1 DEF Inv, Guarded, Guard
  <2> QED BY <2>1 DEF Registers, Guarded
<1> QED BY <1>5, <1>6, <1>7, <1>8 DEF Inv

\* The members of two sequences joined.
LEMMA Joined ==
    ASSUME NEW S, NEW s \in Seq(S), NEW t \in Seq(S)
    PROVE  /\ s \o t \in Seq(S)
           /\ Len(s \o t) = Len(s) + Len(t)
           /\ \A i \in 1 .. Len(s) : i \in 1 .. Len(s \o t) /\ (s \o t)[i] = s[i]
           /\ \A i \in 1 .. Len(t) : Len(s) + i \in 1 .. Len(s \o t)
                                     /\ (s \o t)[Len(s) + i] = t[i]
           /\ \A i \in 1 .. Len(s \o t) : \/ i \in 1 .. Len(s)
                                          \/ \E j \in 1 .. Len(t) : i = Len(s) + j
<1>1. Len(s) \in Nat /\ Len(t) \in Nat
  OBVIOUS
<1>2. s \o t \in Seq(S) /\ Len(s \o t) = Len(s) + Len(t)
  OBVIOUS
<1>3. ASSUME NEW i \in 1 .. Len(s \o t), i \notin 1 .. Len(s)
      PROVE  i - Len(s) \in 1 .. Len(t) /\ i = Len(s) + (i - Len(s))
  BY <1>1, <1>2, <1>3
<1>4. \A i \in 1 .. Len(s) : i \in 1 .. Len(s \o t) /\ (s \o t)[i] = s[i]
  BY <1>1, <1>2
<1>5. \A i \in 1 .. Len(t) : Len(s) + i \in 1 .. Len(s \o t) /\ (s \o t)[Len(s) + i] = t[i]
  BY <1>1, <1>2
<1> QED BY <1>2, <1>3, <1>4, <1>5

LEMMA ResolveGroupStep ==
    ASSUME Inv, NEW g, ResolveGroup(g)
    PROVE  Inv'
<1> USE DEF given
<1> DEFINE ts    == file.groups[g].tools
           fresh == [i \in 1 .. Len(ts) |-> resolve_tool(g, ts[i])]
<1>1. /\ stage = "resolve" /\ g \in todo /\ todo' = todo \ {g} /\ file' = file
      /\ file \in Files /\ todo \subseteq DOMAIN file.groups /\ g \in DOMAIN file.groups
      /\ resolved \in Seq(Entries)
      /\ UNCHANGED <<given, group, at, tool_names, tools, ws_auth>>
  BY DEF Inv, Typed, TypeOK, ResolveGroup
<1>2. Acceptable /\ Held /\ Queued /\ Apart /\ tools = <<>>
  BY <1>1 DEF Inv, Vetted, Late, Registers, Building, Walks
<1>3. /\ Len(ts) \in Nat
      /\ \A i \in 1 .. Len(ts) : /\ <<g, i>> \in Places
                                 /\ Entry(<<g, i>>) = resolve_tool(g, ts[i])
                                 /\ Entry(<<g, i>>).signal = resolve_signal(ts[i], file.groups[g])
  BY <1>1, PlacesFit, FileFits DEF Entry, ToolAt, resolve_tool
<1>4. \A i \in 1 .. Len(ts) : resolve_signal(ts[i], file.groups[g]) # "invalid"
  BY <1>1, <1>2, <1>3, EntryFits
<1>5. resolved' = resolved \o fresh /\ stage' = stage /\ rejectedBy' = rejectedBy
  BY <1>4 DEF ResolveGroup
<1>6. /\ Len(fresh) = Len(ts)
      /\ \A i \in 1 .. Len(fresh) : fresh[i] = Entry(<<g, i>>) /\ <<g, i>> \in Places
  BY <1>3
<1>7. fresh \in Seq(Entries)
  <2>1. \A i \in 1 .. Len(ts) : resolve_tool(g, ts[i]) \in Entries
    BY <1>3, Zenon DEF Entries
  <2> QED BY <1>3, <2>1
<1> HIDE DEF fresh, ts
<1>8. /\ resolved' \in Seq(Entries)
      /\ \A i \in 1 .. Len(resolved) : i \in 1 .. Len(resolved') /\ resolved'[i] = resolved[i]
      /\ \A i \in 1 .. Len(fresh) : Len(resolved) + i \in 1 .. Len(resolved')
                                    /\ resolved'[Len(resolved) + i] = fresh[i]
      /\ \A i \in 1 .. Len(resolved') : \/ i \in 1 .. Len(resolved)
                                        \/ \E j \in 1 .. Len(fresh) : i = Len(resolved) + j
  BY <1>1, <1>5, <1>7, Joined
<1>9. Held'
  <2>1. SUFFICES ASSUME NEW p \in Places
                 PROVE  Waits(p)' \/ \E i \in 1 .. Len(resolved') : resolved'[i] = Entry(p)
    BY <1>1, FileKept DEF Held
  <2>2. CASE p[1] = g
    <3>1. PICK i \in 1 .. Len(fresh) : p = <<g, i>>
      BY <1>1, <1>6, <2>2, PlacesFit DEF ts
    <3>2. fresh[i] = Entry(p)
      <4>1. fresh[i] = Entry(<<g, i>>)
        BY <1>6, <3>1
      <4> QED BY <3>1, <4>1, Zenon
    <3> QED BY <1>8, <3>1, <3>2
  <2>3. CASE p[1] # g
    <3>1. Waits(p) => Waits(p)'
      BY <1>1, <1>5, <2>3 DEF Waits
    <3>2. DOMAIN tools = {}
      BY <1>2
    <3>3. ~Waits(p) => \E i \in 1 .. Len(resolved) : resolved[i] = Entry(p)
      BY <1>2, <3>2 DEF Held
    <3> QED BY <1>8, <3>1, <3>3
  <2> QED BY <2>2, <2>3
<1>10. \A i \in 1 .. Len(resolved') :
         \/ /\ i \in 1 .. Len(resolved) /\ resolved'[i] = resolved[i]
            /\ \E p \in Places : p[1] \notin todo /\ resolved'[i] = Entry(p)
         \/ \E j \in 1 .. Len(fresh) : /\ i = Len(resolved) + j /\ <<g, j>> \in Places
                                       /\ resolved'[i] = Entry(<<g, j>>)
  <2>1. ASSUME NEW i \in 1 .. Len(resolved)
        PROVE  \E p \in Places : p[1] \notin todo /\ resolved[i] = Entry(p)
    BY <1>1, <1>2 DEF Queued, Waits
  <2> QED BY <1>6, <1>8, <2>1
<1>11. Queued'
  <2>1. \A i \in 1 .. Len(resolved') : \E p \in Places : p[1] \notin todo' /\ resolved'[i] = Entry(p)
    <3>1. \A j : <<g, j>>[1] \notin todo'
      BY <1>1
    <3>2. todo' \subseteq todo
      BY <1>1
    <3> QED BY <1>10, <3>1, <3>2, Zenon
  <2>2. DOMAIN tools' = {}
    BY <1>1, <1>2
  <2> QED BY <1>1, <2>1, <2>2, FileKept DEF Queued, Waits
<1>12. Apart'
  <2>1. SUFFICES ASSUME NEW i \in 1 .. Len(resolved'), NEW j \in 1 .. Len(resolved'),
                        resolved'[i].full_name = resolved'[j].full_name
                 PROVE  i = j
    BY DEF Apart
  <2>2. \A p, q \in Places : Entry(p).full_name = Entry(q).full_name => p = q
    BY <1>1, <1>2, EntryFits DEF Acceptable
  <2>3. CASE i \in 1 .. Len(resolved) /\ j \in 1 .. Len(resolved)
    BY <1>2, <1>8, <2>1, <2>3 DEF Apart
  <2>4. ASSUME NEW a \in Places, a[1] \notin todo, NEW k, <<g, k>> \in Places,
               Entry(a).full_name = Entry(<<g, k>>).full_name
        PROVE  FALSE
    <3>1. a = <<g, k>>
      BY <2>2, <2>4
    <3> QED BY <1>1, <2>4, <3>1
  <2>5. CASE i \notin 1 .. Len(resolved) /\ j \notin 1 .. Len(resolved)
    <3>1. PICK a \in 1 .. Len(fresh) : i = Len(resolved) + a /\ <<g, a>> \in Places
                                       /\ resolved'[i] = Entry(<<g, a>>)
      BY <1>10, <2>5
    <3>2. PICK b \in 1 .. Len(fresh) : j = Len(resolved) + b /\ <<g, b>> \in Places
                                       /\ resolved'[j] = Entry(<<g, b>>)
      BY <1>10, <2>5
    <3>3. <<g, a>> = <<g, b>>
      BY <2>1, <2>2, <3>1, <3>2
    <3> QED BY <3>1, <3>2, <3>3
  <2>6. CASE i \in 1 .. Len(resolved) /\ j \notin 1 .. Len(resolved)
    <3>1. PICK a \in Places : a[1] \notin todo /\ resolved[i] = Entry(a)
      BY <1>1, <1>2, <2>6 DEF Queued, Waits
    <3>2. PICK b \in 1 .. Len(fresh) : <<g, b>> \in Places /\ resolved'[j] = Entry(<<g, b>>)
      BY <1>10, <2>6
    <3>3. resolved'[i] = Entry(a)
      BY <1>8, <2>6, <3>1
    <3> QED BY <2>1, <2>4, <3>1, <3>2, <3>3
  <2>7. CASE i \notin 1 .. Len(resolved) /\ j \in 1 .. Len(resolved)
    <3>1. PICK a \in Places : a[1] \notin todo /\ resolved[j] = Entry(a)
      BY <1>1, <1>2, <2>7 DEF Queued, Waits
    <3>2. PICK b \in 1 .. Len(fresh) : <<g, b>> \in Places /\ resolved'[i] = Entry(<<g, b>>)
      BY <1>10, <2>7
    <3>3. resolved'[j] = Entry(a)
      BY <1>8, <2>7, <3>1
    <3> QED BY <2>1, <2>4, <3>1, <3>2, <3>3
  <2> QED BY <2>3, <2>5, <2>6, <2>7
<1>13. Registered'
  <2>1. DOMAIN tools' = {}
    BY <1>1, <1>2
  <2> QED BY <2>1 DEF Registered
<1> QED BY <1>1, <1>5, <1>8, <1>9, <1>11, <1>12, <1>13, BuildingStep DEF Building

LEMMA ResolvedStep == Inv /\ Resolved => Inv'
<1> SUFFICES ASSUME Inv, Resolved PROVE Inv'
  OBVIOUS
<1> USE DEF given, walk, service
<1>1. /\ stage = "resolve" /\ todo = {} /\ file' = file /\ stage' = "register"
      /\ resolved \in Seq(Entries) /\ file \in Files
      /\ UNCHANGED <<given, rejectedBy, walk, tool_names, service>>
  BY DEF Inv, Typed, TypeOK, Resolved
<1>2. Held /\ Queued /\ Apart /\ Registered
  BY <1>1 DEF Inv, Registers, Building
<1>3. \A p : ~Waits(p) /\ ~Waits(p)'
  BY <1>1 DEF Waits
<1>4. Held' /\ Queued' /\ Apart' /\ Registered'
  BY <1>1, <1>2, <1>3, FileKept DEF Held, Queued, Apart, Registered
<1> QED BY <1>1, <1>4, BuildingStep DEF Building

LEMMA ServeStep == Inv /\ Serve => Inv'
<1> SUFFICES ASSUME Inv, Serve PROVE Inv'
  OBVIOUS
<1> USE DEF given, walk, service
<1>1. /\ stage = "register" /\ resolved = <<>> /\ file' = file /\ stage' = "serving"
      /\ resolved \in Seq(Entries) /\ file \in Files
      /\ UNCHANGED <<given, rejectedBy, walk, tool_names, service>>
  BY DEF Inv, Typed, TypeOK, Serve
<1>2. Held /\ Queued /\ Apart /\ Registered
  BY <1>1 DEF Inv, Registers, Building
<1>3. \A p : ~Waits(p) /\ ~Waits(p)'
  BY <1>1 DEF Waits
<1>4. Held' /\ Queued' /\ Apart' /\ Registered'
  BY <1>1, <1>2, <1>3, FileKept DEF Held, Queued, Apart, Registered
<1> QED BY <1>1, <1>4, BuildingStep DEF Building

\* The name that is registered is new: validate has seen to it, in another order.
LEMMA RegisterStep == Inv /\ Register => Inv'
<1> SUFFICES ASSUME Inv, Register PROVE Inv'
  OBVIOUS
<1> USE DEF given, walk
<1> DEFINE t == Head(resolved)
<1>1. /\ stage = "register" /\ resolved # <<>> /\ file' = file /\ file \in Files
      /\ resolved \in Seq(Entries) /\ UNCHANGED <<given, walk, tool_names, ws_auth>>
  BY DEF Inv, Typed, TypeOK, Register
<1>2. Acceptable /\ Held /\ Queued /\ Apart /\ Registered
  BY <1>1 DEF Inv, Vetted, Late, Registers, Building
<1>3. 1 \in 1 .. Len(resolved) /\ t = resolved[1] /\ Len(resolved) \in Nat
  BY <1>1
<1>4. t.full_name \notin DOMAIN tools
  BY <1>2, <1>3 DEF Queued
<1>5. /\ tools' = [n \in DOMAIN tools \cup {t.full_name} |->
                     IF n = t.full_name THEN t ELSE tools[n]]
      /\ resolved' = Tail(resolved) /\ stage' = stage /\ rejectedBy' = rejectedBy
  BY <1>4 DEF Register
<1>6. /\ DOMAIN tools' = DOMAIN tools \cup {t.full_name} /\ tools'[t.full_name] = t
      /\ \A n \in DOMAIN tools : tools'[n] = tools[n]
  BY <1>4, <1>5
<1>7. PICK h \in Places : t = Entry(h)
  BY <1>2, <1>3 DEF Queued
<1>8. t.full_name = NameAt(h)
  BY <1>1, <1>2, <1>7, EntryFits
<1>9. /\ resolved' \in Seq(Entries)
      /\ Len(resolved') = Len(resolved) - 1
      /\ \A i \in 1 .. Len(resolved') : /\ i + 1 \in 1 .. Len(resolved) /\ i + 1 # 1
                                        /\ resolved'[i] = resolved[i + 1]
      /\ \A i \in 1 .. Len(resolved) : i # 1 => i - 1 \in 1 .. Len(resolved') /\ (i - 1) + 1 = i
  BY <1>1, <1>3, <1>5
<1>10. \A p : ~Waits(p) /\ ~Waits(p)'
  BY <1>1, <1>5 DEF Waits
<1> HIDE DEF t
<1>11. Held'
  <2>1. SUFFICES ASSUME NEW p \in Places
                 PROVE  \/ NameAt(p) \in DOMAIN tools'
                        \/ \E i \in 1 .. Len(resolved') : resolved'[i] = Entry(p)
    BY <1>1, FileKept DEF Held
  <2>2. NameAt(p) \in DOMAIN tools \/ \E i \in 1 .. Len(resolved) : resolved[i] = Entry(p)
    BY <1>2, <1>10 DEF Held
  <2>3. CASE NameAt(p) \in DOMAIN tools
    BY <1>6, <2>3
  <2>4. ASSUME NEW i \in 1 .. Len(resolved), resolved[i] = Entry(p)
        PROVE  \/ NameAt(p) \in DOMAIN tools'
               \/ \E j \in 1 .. Len(resolved') : resolved'[j] = Entry(p)
    <3>1. CASE i = 1
      <4>1. t.full_name = NameAt(p)
        BY <1>1, <1>2, <1>3, <2>4, <3>1, EntryFits
      <4> QED BY <1>6, <4>1
    <3>2. CASE i # 1
      <4>1. i - 1 \in 1 .. Len(resolved') /\ resolved'[i - 1] = resolved[i]
        BY <1>9, <3>2
      <4> QED BY <2>4, <4>1
    <3> QED BY <3>1, <3>2
  <2> QED BY <2>2, <2>3, <2>4
<1>12. Queued'
  <2>1. ASSUME NEW i \in 1 .. Len(resolved')
        PROVE  /\ \E p \in Places : resolved'[i] = Entry(p)
               /\ resolved'[i].full_name \notin DOMAIN tools'
    <3>1. i + 1 \in 1 .. Len(resolved) /\ i + 1 # 1 /\ resolved'[i] = resolved[i + 1]
      BY <1>9
    <3>2. resolved[i + 1].full_name # t.full_name
      BY <1>2, <1>3, <3>1 DEF Apart
    <3>3. /\ \E p \in Places : resolved[i + 1] = Entry(p)
          /\ resolved[i + 1].full_name \notin DOMAIN tools
      BY <1>2, <3>1 DEF Queued
    <3> QED BY <1>6, <3>1, <3>2, <3>3, Zenon
  <2> QED BY <1>1, <1>10, <2>1, FileKept DEF Queued
<1>13. Apart'
  <2>1. SUFFICES ASSUME NEW i \in 1 .. Len(resolved'), NEW j \in 1 .. Len(resolved'),
                        resolved'[i].full_name = resolved'[j].full_name
                 PROVE  i = j
    BY DEF Apart
  <2>2. /\ i + 1 \in 1 .. Len(resolved) /\ j + 1 \in 1 .. Len(resolved)
        /\ resolved'[i] = resolved[i + 1] /\ resolved'[j] = resolved[j + 1]
    BY <1>9
  <2>3. i + 1 = j + 1
    <3>1. resolved[i + 1].full_name = resolved[j + 1].full_name
      BY <2>1, <2>2, Zenon
    <3> QED BY <1>2, <2>2, <3>1, Zenon DEF Apart
  <2> QED BY <2>3
<1>14. Registered'
  <2>1. ASSUME NEW n \in DOMAIN tools'
        PROVE  \E p \in Places : n = NameAt(p) /\ tools'[n] = Entry(p)
    <3>1. CASE n \in DOMAIN tools
      BY <1>2, <1>6, <3>1 DEF Registered
    <3>2. CASE n = t.full_name
      BY <1>6, <1>7, <1>8, <3>2
    <3> QED BY <1>6, <2>1, <3>1, <3>2
  <2> QED BY <1>1, <2>1, FileKept DEF Registered
<1> QED BY <1>1, <1>5, <1>9, <1>11, <1>12, <1>13, <1>14, BuildingStep DEF Building

LEMMA Unchanged == Inv /\ UNCHANGED vars => Inv'
<1> SUFFICES ASSUME Inv, UNCHANGED vars PROVE Inv'
  OBVIOUS
<1> USE DEF vars, given, walk, service
<1>1. file' = file
  OBVIOUS
<1>2. Typed' /\ Walks'
  BY FileKept DEF Inv, Typed, TypeOK, Walks
<1>3. Checked' = Checked
  BY FileKept DEF Checked
<1>4. Walked' <=> Walked
  BY <1>3, FileKept DEF Walked
<1>5. Vetted'
  BY <1>4, FileKept DEF Inv, Vetted
<1>6. \A p : Waits(p)' <=> Waits(p)
  BY DEF Waits
<1>7. Registers'
  BY <1>6, FileKept DEF Inv, Registers, Held, Queued, Apart, Registered
<1>8. Guarded'
  BY DEF Inv, Guarded, Guard
<1> QED BY <1>2, <1>5, <1>7, <1>8 DEF Inv

\* The invariant holds at every stage.
THEOREM Invariance == Spec => []Inv
<1>1. Inv /\ [Next]_vars => Inv'
  <2> SUFFICES ASSUME Inv, [Next]_vars PROVE Inv'
    OBVIOUS
  <2>1. ASSUME NEW g \in GroupNames, ValidateGroup(g) \/ ResolveGroup(g)
        PROVE  Inv'
    BY <2>1, ValidateGroupStep, ResolveGroupStep
  <2>2. CASE Ended \/ UNCHANGED vars
    BY <2>2, Unchanged DEF Ended
  <2> QED BY <2>1, <2>2, ValidateAuthStep, ValidateToolStep, GroupDoneStep, ValidatedStep,
             ResolveAuthStep, ResolvedStep, RegisterStep, ServeStep DEF Next
<1> QED BY <1>1, InitInv, PTL DEF Spec

-----------------------------------------------------------------------------
(* The properties *)

\* Every variable keeps its type; what is registered has all its limits and a signal
\* that can be sent.
THEOREM TypeCorrect == Spec => []TypeOK
<1>1. Inv => TypeOK
  BY DEF Inv, Typed
<1> QED BY <1>1, Invariance, PTL

\* The loops over a HashMap may take the groups in any order: a file is served only if
\* it is good, and rejected only if it is not.
THEOREM VerdictTrue == Spec => []VerdictIsTheFiles
<1>1. Inv => VerdictIsTheFiles
  BY DEF Inv, Vetted, Late, VerdictIsTheFiles
<1> QED BY <1>1, Invariance, PTL

\* The registry's check for duplicates, resolve_tool's check of the signal and the
\* fallback of resolve_ws_auth find nothing that validate let pass.
THEOREM ValidateSuffices == Spec => []ValidateIsEnough
<1>1. Inv => ValidateIsEnough
  BY DEF Inv, Vetted, ValidateIsEnough
<1> QED BY <1>1, Invariance, PTL

\* A file or command line that asks for authentication gets it.
THEOREM FailsClosed == Spec => []AuthFailsClosed
<1>1. Inv => AuthFailsClosed
  BY DEF Inv, Guarded, Building, Guard, AuthFailsClosed
<1> QED BY <1>1, Invariance, PTL

\* A limit of an entry is the one the most specific level gives.
LEMMA EntryInherits ==
    ASSUME NEW p \in Places, NEW k \in Limits, NEW side \in {"default", "max"}
    PROVE  Entry(p).limits[k][side] = Inherited(p, k, side)
<1> DEFINE own == ToolAt(p).limits[k]
           grp == file.groups[p[1]].limits[k]
<1>1. Entry(p).limits[k] = [default |-> FirstOf(own.default, grp.default, BuiltIn[k].default),
                            max     |-> FirstOf(own.max, grp.max, BuiltIn[k].max)]
  BY DEF Entry, resolve_tool
<1>2. Entry(p).limits[k][side] = FirstOf(own[side], grp[side], BuiltIn[k][side])
  BY <1>1
<1>3. Inherited(p, k, side) = FirstOf(own[side], grp[side], BuiltIn[k][side])
  BY Zenon DEF Inherited, FirstOf
<1> QED BY <1>2, <1>3

\* What the invariant says of the registry, when it is complete.
LEMMA RegistryOfInv == Inv => RegistryIsTheFile
<1> SUFFICES ASSUME Inv, stage = "serving" PROVE RegistryIsTheFile
  BY DEF RegistryIsTheFile
<1>1. file \in Files /\ Acceptable
  BY DEF Inv, Typed, TypeOK, Vetted, Late
<1>2. Held /\ Registered /\ Len(resolved) = 0 /\ \A p : ~Waits(p)
  BY DEF Inv, Registers, Building, Waits
<1>3. \A p \in Places : NameAt(p) \in DOMAIN tools
  BY <1>2 DEF Held
<1>4. \A p \in Places : tools[NameAt(p)] = Entry(p)
  <2>1. ASSUME NEW p \in Places
        PROVE  tools[NameAt(p)] = Entry(p)
    <3>1. PICK q \in Places : NameAt(p) = NameAt(q) /\ tools[NameAt(p)] = Entry(q)
      BY <1>2, <1>3 DEF Registered
    <3>2. p = q
      BY <1>1, <3>1 DEF Acceptable
    <3> QED BY <3>1, <3>2
  <2> QED BY <2>1
<1>5. DOMAIN tools = {NameAt(p) : p \in Places}
  BY <1>2, <1>3, Zenon DEF Registered
<1>6. ASSUME NEW p \in Places
      PROVE  /\ tools[NameAt(p)].tool = ToolAt(p) /\ tools[NameAt(p)].group = p[1]
             /\ tools[NameAt(p)].signal # "invalid"
  <2>1. /\ Entry(p).tool = ToolAt(p) /\ Entry(p).group = p[1]
        /\ Entry(p).signal \in {"SIGTERM", "SIGINT"}
    BY <1>1, EntryFits
  <2>2. tools[NameAt(p)] = Entry(p)
    BY <1>4
  <2> QED BY <2>1, <2>2
<1>7. \A p \in Places : \A k \in Limits : \A side \in {"default", "max"} :
        tools[NameAt(p)].limits[k][side] = Inherited(p, k, side)
  BY <1>4, EntryInherits, Zenon
<1> QED BY <1>5, <1>6, <1>7, Zenon DEF RegistryIsTheFile

\* Every tool of the file is served, under its own name and with the values of its own
\* levels, and nothing else is: none is dropped, served twice or mixed with another.
THEOREM RegistryTrue == Spec => []RegistryIsTheFile
<1> QED BY RegistryOfInv, Invariance, PTL

\* Whatever levels a tool's limits are inherited from, it is served with one above its
\* max only if the two are of different levels: within a level validate has seen both.
THEOREM AboveMaxOnlyMixed == Spec => []AboveMaxIsMixed
<1>1. Inv => AboveMaxIsMixed
  <2> SUFFICES ASSUME Inv, stage = "serving", NEW p \in Places, NEW k \in Limits,
                      Level(p, k, "default") = Level(p, k, "max")
               PROVE  ~(tools[NameAt(p)].limits[k].default > tools[NameAt(p)].limits[k].max)
    BY DEF AboveMaxIsMixed
  <2> DEFINE own == ToolAt(p).limits[k]
             grp == file.groups[p[1]].limits[k]
             l   == tools[NameAt(p)].limits[k]
  <2>1. file \in Files /\ Acceptable /\ RegistryIsTheFile
    BY RegistryOfInv DEF Inv, Typed, TypeOK, Vetted, Late
  <2>2. l.default = Inherited(p, k, "default") /\ l.max = Inherited(p, k, "max")
    BY <2>1 DEF RegistryIsTheFile
  <2>3. own \in Pairs /\ grp \in Pairs
    BY <2>1, PlacesFit, FileFits DEF Tools
  <2>4. Coherent(ToolAt(p)) /\ Coherent(file.groups[p[1]])
    BY <2>1, PlacesFit DEF Acceptable
  <2>5. /\ None \in {own.default, own.max} \/ own.default <= own.max
        /\ None \in {grp.default, grp.max} \/ grp.default <= grp.max
    BY <2>4 DEF Coherent
  <2>6. /\ BuiltIn[k].default \in Nat /\ BuiltIn[k].max \in Nat
        /\ BuiltIn[k].default <= BuiltIn[k].max
    BY ConfigurationAssumption
  <2>7. \/ own.default # None /\ own.max # None
        \/ own.default = None /\ own.max = None /\ grp.default # None /\ grp.max # None
        \/ own.default = None /\ own.max = None /\ grp.default = None /\ grp.max = None
    BY DEF Level
  <2>8. \/ l.default = own.default /\ l.max = own.max /\ own.default <= own.max
        \/ l.default = grp.default /\ l.max = grp.max /\ grp.default <= grp.max
        \/ l.default = BuiltIn[k].default /\ l.max = BuiltIn[k].max
    BY <2>2, <2>5, <2>7, Zenon DEF Inherited
  <2>9. ~(l.default > l.max)
    <3> HIDE DEF own, grp, l
    <3>1. /\ own.default \in Int /\ own.max \in Int
          /\ grp.default \in Int /\ grp.max \in Int
      BY <2>3 DEF Pairs, Opt, None
    <3> QED BY <2>6, <2>8, <3>1
  <2> QED BY <2>9
<1> QED BY <1>1, Invariance, PTL
=============================================================================
