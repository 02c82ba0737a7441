--------------------------- MODULE CatalogProofs ---------------------------
(***************************************************************************)
(* Proofs about Catalog, for every tool that validate lets pass: what      *)
(* tools/list advertises is accepted, all that is given is used, and the   *)
(* guessed order keeps its conventions.                                    *)
(*                                                                         *)
(* The call is ToolCall's, and so is its invariant: ClientCalls starts a   *)
(* call as ToolCall does, and the steps after it are steps of ToolCall.    *)
(***************************************************************************)
EXTENDS Catalog, ToolCallProofs

-----------------------------------------------------------------------------
(* default_arg_order *)

LEMMA TheConventions ==
    /\ Len(Conventions) = 10
    /\ Conventions[1] = [needs |-> {"source", "dest"}, order |-> <<"recursive", "source", "dest">>]
    /\ Conventions[2] = [needs |-> {"pattern", "file"}, order |-> <<"recursive", "pattern", "file">>]
    /\ Conventions[3] = [needs |-> {"pattern", "path"}, order |-> <<"pattern", "path">>]
    /\ Conventions[4] = [needs |-> {"script", "file"}, order |-> <<"script", "file">>]
    /\ Conventions[5] = [needs |-> {"program", "file"}, order |-> <<"program", "file">>]
    /\ Conventions[6] = [needs |-> {"follow", "lines"}, order |-> <<"follow", "lines", "file">>]
    /\ Conventions[7] = [needs |-> {"follow", "file"}, order |-> <<"follow", "lines", "file">>]
    /\ Conventions[8] = [needs |-> {"path"}, order |-> <<"path">>]
    /\ Conventions[9] = [needs |-> {"file"}, order |-> <<"file">>]
    /\ Conventions[10] = [needs |-> {}, order |-> NameOrder]
  BY DEF Conventions

\* Some convention is the first that applies: the last one always does.
LEMMA ConventionIs ==
    ASSUME NEW names
    PROVE  \E i \in 1 .. 10 :
             /\ FirstConvention(names) = Conventions[i] /\ Conventions[i].needs \subseteq names
             /\ \A j \in 1 .. i - 1 : ~(Conventions[j].needs \subseteq names)
<1> DEFINE T == {i \in 1 .. 10 : Conventions[i].needs \subseteq names}
           First(i) == /\ Conventions[i].needs \subseteq names
                       /\ \A j \in 1 .. i - 1 : ~(Conventions[j].needs \subseteq names)
<1>1. 10 \in T /\ T \subseteq Nat
  BY TheConventions
<1>2. PICK i \in T : \A j \in T : i <= j
  BY <1>1, LeastElement
<1>3. i \in 1 .. 10 /\ First(i)
  <2>1. \A j \in 1 .. i - 1 : j \in 1 .. 10 /\ ~(i <= j)
    BY <1>2
  <2> QED
    BY <1>2, <2>1
<1>4. FirstConvention(names) = Conventions[CHOOSE k \in 1 .. 10 : First(k)]
  BY TheConventions, Zenon DEF FirstConvention
<1> HIDE DEF First
<1>5. (CHOOSE k \in 1 .. 10 : First(k)) \in 1 .. 10 /\ First(CHOOSE k \in 1 .. 10 : First(k))
  BY <1>3, Zenon
<1> QED
  BY <1>4, <1>5, Zenon DEF First

\* The names that conventions are about, and all others.
Known == Names \cup {"source", "dest", "recursive", "pattern", "file", "path", "script",
                     "program", "follow", "lines"}

LEMMA ShortSequences ==
    ASSUME NEW X, NEW x \in X, NEW y \in X, NEW z \in X, x # y, y # z, x # z
    PROVE  /\ <<x>> \in Seq(X) /\ <<x, y>> \in Seq(X) /\ <<x, y, z>> \in Seq(X)
           /\ \A a, b \in 1 .. Len(<<x>>) : <<x>>[a] = <<x>>[b] => a = b
           /\ \A a, b \in 1 .. Len(<<x, y>>) : <<x, y>>[a] = <<x, y>>[b] => a = b
           /\ \A a, b \in 1 .. Len(<<x, y, z>>) : <<x, y, z>>[a] = <<x, y, z>>[b] => a = b
  OBVIOUS

\* A convention lists names, none of them twice.
LEMMA ConventionsFit ==
    ASSUME NEW i \in 1 .. 10
    PROVE  /\ Conventions[i].order \in Seq(Known)
           /\ \A a, b \in 1 .. Len(Conventions[i].order) :
                Conventions[i].order[a] = Conventions[i].order[b] => a = b
<1> DEFINE Fits(s) == /\ s \in Seq(Known)
                      /\ \A a, b \in 1 .. Len(s) : s[a] = s[b] => a = b
<1> SUFFICES Fits(Conventions[i].order)
  OBVIOUS
<1> HIDE DEF Fits
<1>1. CASE i \in 1 .. 9
  <2>1. ASSUME NEW x \in Known, NEW y \in Known, NEW z \in Known, x # y, y # z, x # z
        PROVE  Fits(<<x>>) /\ Fits(<<x, y>>) /\ Fits(<<x, y, z>>)
    BY <2>1, ShortSequences DEF Fits
  <2>2. {"source", "dest", "recursive", "pattern", "file", "path", "script", "program",
         "follow", "lines"} \subseteq Known
    BY DEF Known
  <2>4. CASE i \in {1, 2, 6, 7}
    <3>1. Conventions[i].order \in {<<"recursive", "source", "dest">>,
            <<"recursive", "pattern", "file">>, <<"follow", "lines", "file">>}
      BY <2>4, TheConventions
    <3>2. /\ Fits(<<"recursive", "source", "dest">>) /\ Fits(<<"recursive", "pattern", "file">>)
          /\ Fits(<<"follow", "lines", "file">>)
      BY <2>1, <2>2
    <3> QED
      BY <3>1, <3>2, Zenon
  <2>5. CASE i \in {3, 4, 5}
    <3>1. Conventions[i].order \in
            {<<"pattern", "path">>, <<"script", "file">>, <<"program", "file">>}
      BY <2>5, TheConventions
    <3>2. /\ Fits(<<"pattern", "path">>) /\ Fits(<<"script", "file">>)
          /\ Fits(<<"program", "file">>)
      BY <2>1, <2>2
    <3> QED
      BY <3>1, <3>2, Zenon
  <2>6. CASE i \in {8, 9}
    <3>1. Conventions[i].order \in {<<"path">>, <<"file">>}
      BY <2>6, TheConventions
    <3>2. Fits(<<"path">>) /\ Fits(<<"file">>)
      <4>1. "path" # "file" /\ "file" # "lines" /\ "path" # "lines"
        OBVIOUS
      <4> QED
        BY <2>1, <2>2, <4>1
    <3> QED
      BY <3>1, <3>2, Zenon
  <2> QED
    BY <1>1, <2>4, <2>5, <2>6
<1>2. CASE i = 10
  <2>1. Conventions[i].order = NameOrder
    BY <1>2, TheConventions
  <2>2. NameOrder \in Seq(Known)
    BY ToolCallAssumption DEF Known
  <2> QED
    BY <2>1, <2>2, ToolCallAssumption DEF Fits
<1> QED
  BY <1>1, <1>2

\* The guessed order lists parameters, each of them once at most, in the order of the
\* first convention that applies.
LEMMA DefaultOrder ==
    ASSUME NEW names
    PROVE  LET o == default_arg_order(names)
               c == FirstConvention(names).order
           IN /\ o \in Seq(names)
              /\ \A i, j \in 1 .. Len(o) : o[i] = o[j] => i = j
              /\ \A a \in 1 .. Len(c) : c[a] \in names => ListedIn(c[a], o)
              /\ \A i, j \in 1 .. Len(o) : \A a, b \in 1 .. Len(c) :
                   a < b /\ o[i] = c[a] /\ o[j] = c[b] => i < j
<1> DEFINE o == default_arg_order(names)
           c == FirstConvention(names).order
<1>1. /\ c \in Seq(Known)
      /\ \A a, b \in 1 .. Len(c) : c[a] = c[b] => a = b
  <2>1. PICK i \in 1 .. 10 : FirstConvention(names) = Conventions[i]
    BY ConventionIs
  <2>2. c = Conventions[i].order
    BY <2>1, Zenon
  <2> HIDE DEF c
  <2> QED
    BY <2>2, ConventionsFit
<1>2. o = Keep(c, names)
  BY DEF default_arg_order
<1> HIDE DEF o, c
<1>3. /\ o \in Seq(Known)
      /\ \A i \in 1 .. Len(o) : o[i] \in names /\ ListedIn(o[i], c)
      /\ \A p \in names : ListedIn(p, c) => ListedIn(p, o)
      /\ \A i, j \in 1 .. Len(o) : \A a, b \in 1 .. Len(c) :
           i < j /\ o[i] = c[a] /\ o[j] = c[b] => a < b
  BY <1>1, <1>2, KeepIs
<1>4. o \in Seq(names) /\ Len(o) \in Nat /\ Len(c) \in Nat
  BY <1>1, <1>3
<1>5. ASSUME NEW i \in 1 .. Len(o), NEW j \in 1 .. Len(o), NEW a \in 1 .. Len(c),
             NEW b \in 1 .. Len(c), a < b, o[i] = c[a], o[j] = c[b]
      PROVE  i < j
  <2>1. ~(j < i)
    <3>1. j < i => b < a
      BY <1>3, <1>5
    <3> QED
      BY <1>4, <1>5, <3>1
  <2>2. i # j
    BY <1>1, <1>4, <1>5
  <2> QED
    BY <1>4, <2>1, <2>2
<1>6. ASSUME NEW i \in 1 .. Len(o), NEW j \in 1 .. Len(o), o[i] = o[j]
      PROVE  i = j
  <2>1. PICK a \in 1 .. Len(c) : o[i] = c[a]
    BY <1>3 DEF ListedIn
  <2>2. i < j => a < a
    BY <1>3, <1>6, <2>1
  <2>3. j < i => a < a
    BY <1>3, <1>6, <2>1
  <2> QED
    BY <1>4, <2>2, <2>3
<1>7. \A a \in 1 .. Len(c) : c[a] \in names => ListedIn(c[a], o)
  BY <1>3 DEF ListedIn
<1> QED
  BY <1>4, <1>5, <1>6, <1>7 DEF o, c

-----------------------------------------------------------------------------
(* The tool and its schema *)

\* resolve_tool makes a tool that can be called: a guessed order is one of parameters.
LEMMA ResolvedFits ==
    ASSUME NEW c \in Configured
    PROVE  /\ IsTool(resolve(c)) /\ c.ordered \in BOOLEAN /\ c.sent \subseteq Values
           /\ resolve(c).parameters = c.parameters
<1> DEFINE t == [parameters |-> c.parameters, arg_order |-> c.arg_order,
                 limits |-> c.limits, json |-> c.json]
<1>1. IsTool(t) /\ c.ordered \in BOOLEAN /\ c.sent \subseteq Values
  BY CatalogAssumption
<1>2. /\ t.parameters = c.parameters /\ t.arg_order = c.arg_order
      /\ t.limits = c.limits /\ t.json = c.json
  OBVIOUS
<1>3. /\ resolve(c).parameters = c.parameters /\ resolve(c).limits = c.limits
      /\ resolve(c).json = c.json
      /\ resolve(c).arg_order = IF c.ordered THEN c.arg_order
                                ELSE default_arg_order(DOMAIN c.parameters)
  BY DEF resolve
<1>4. default_arg_order(DOMAIN c.parameters) \in Seq(DOMAIN c.parameters)
  BY DefaultOrder
<1> HIDE DEF t
<1>5. resolve(c).arg_order \in Seq(DOMAIN c.parameters)
  BY <1>1, <1>2, <1>3, <1>4 DEF IsTool
<1>6. IsTool(resolve(c))
  BY <1>1, <1>2, <1>3, <1>5, Zenon DEF IsTool
<1> QED
  BY <1>1, <1>3, <1>6

\* A guessed order lists a parameter once, or leaves it to the sorted rest.
LEMMA ListedOnce ==
    ASSUME request.tool = resolve(configured), ~configured.ordered,
           NEW p \in DOMAIN tool.parameters
    PROVE  Times(p) = 1
<1> DEFINE o == tool.arg_order
<1>1. \A i, j \in 1 .. Len(o) : o[i] = o[j] => i = j
  <2>1. o = default_arg_order(DOMAIN configured.parameters)
    BY DEF tool, resolve
  <2> HIDE DEF o
  <2> QED
    BY <2>1, DefaultOrder
<1>2. CASE ListedIn(p, o)
  <2>1. PICK k \in 1 .. Len(o) : o[k] = p
    BY <1>2 DEF ListedIn
  <2>2. {i \in 1 .. Len(o) : o[i] = p} = {k}
    BY <1>1, <2>1
  <2> QED
    BY <1>2, <2>2, FS_Singleton DEF Times
<1>3. CASE ~ListedIn(p, o)
  BY <1>3 DEF Times
<1> QED
  BY <1>2, <1>3

-----------------------------------------------------------------------------
(* The invariant *)

Catalogued ==
    /\ configured \in Configured /\ exposed \in BOOLEAN
    /\ request.tool = resolve(configured)
    /\ pc \in {"list", "listed", "start", "emit", "execute", "done"}
    /\ pc # "list" => schema = generate_tool_schema

\* Before the call nothing has happened.
Quiet ==
    /\ request = [known |-> TRUE, tool |-> resolve(configured),
                  arguments |-> [kind |-> "null", map |-> <<>>]]
    /\ todo = <<>> /\ tool_args = <<>> /\ limits = <<>>
    /\ outcome = "none" /\ reply = NoReply
    /\ life = "none" /\ status = NoStatus /\ drained = FALSE /\ answer = NoAnswer

\* The call keeps to the schema.
Permitted ==
    /\ request.known /\ request.arguments.kind = "object"
    /\ schema.required \subseteq DOMAIN args_map
    /\ DOMAIN args_map \subseteq DOMAIN schema.properties
    /\ \A n \in DOMAIN args_map : OfType(args_map[n], schema.properties[n])

Called ==
    /\ Inv /\ InOrder /\ Counted
    /\ Permitted
    /\ pc = "emit" => \A i \in 1 .. Len(todo) : todo[i] \in DOMAIN tool.parameters
    /\ AdvertisedIsAccepted

CatalogInv == /\ Catalogued
              /\ pc \in {"list", "listed"} => Quiet
              /\ pc \notin {"list", "listed"} => Called

LEMMA CatalogInvInit == CatalogInit => CatalogInv
<1> SUFFICES ASSUME CatalogInit PROVE CatalogInv
  OBVIOUS
<1>1. Catalogued
  <2>1. exposed \in BOOLEAN
    BY CatalogAssumption DEF CatalogInit
  <2>2. request.tool = resolve(configured)
    BY DEF CatalogInit
  <2> QED
    BY <2>1, <2>2 DEF CatalogInit, Catalogued
<1>2. Quiet /\ pc = "list"
  BY DEF CatalogInit, Quiet
<1> QED
  BY <1>1, <1>2 DEF CatalogInv

LEMMA ListToolsStep == CatalogInv /\ ListTools => CatalogInv'
<1> SUFFICES ASSUME CatalogInv, ListTools PROVE CatalogInv'
  OBVIOUS
<1>1. /\ pc = "list" /\ pc' = "listed" /\ schema' = generate_tool_schema
      /\ UNCHANGED <<configured, exposed, request, building, outcome, reply, execution>>
  BY DEF ListTools
<1>2. generate_tool_schema' = generate_tool_schema
  BY <1>1 DEF generate_tool_schema, override_properties, tool
<1>3. Catalogued'
  BY <1>1, <1>2 DEF CatalogInv, Catalogued
<1>4. Quiet'
  BY <1>1 DEF CatalogInv, Quiet, building, execution
<1> QED
  BY <1>1, <1>3, <1>4 DEF CatalogInv

\* The schema names parameters and overrides.
LEMMA SchemaFits ==
    ASSUME configured \in Configured, request.tool = resolve(configured)
    PROVE  /\ DOMAIN generate_tool_schema.properties \subseteq Names \cup Limits
           /\ generate_tool_schema.required
                = {p \in DOMAIN tool.parameters : tool.parameters[p].required}
<1>1. DOMAIN tool.parameters \subseteq Names
  BY ResolvedFits DEF tool, IsTool
<1>2. DOMAIN override_properties \subseteq Limits
  BY DEF override_properties
<1>3. /\ DOMAIN generate_tool_schema.properties
           = DOMAIN override_properties \cup DOMAIN tool.parameters
      /\ generate_tool_schema.required
           = {p \in DOMAIN tool.parameters : tool.parameters[p].required}
  BY DEF generate_tool_schema
<1> QED
  BY <1>1, <1>2, <1>3

\* A call that has come in satisfies the invariant of ToolCall.
LEMMA CallBegins == Started' => (Inv /\ InOrder /\ Counted)'
  BY InvInit, InOrderInit, CountedInit, PTL

LEMMA ClientCallsStep == CatalogInv /\ ClientCalls => CatalogInv'
<1> SUFFICES ASSUME CatalogInv, ClientCalls PROVE CatalogInv'
  OBVIOUS
<1>1. /\ pc = "listed" /\ pc' = "start" /\ Quiet /\ Catalogued
      /\ UNCHANGED <<configured, exposed, schema, building, outcome, reply, execution>>
      /\ schema = generate_tool_schema
  BY DEF ClientCalls, CatalogInv, Catalogued, listing
<1>2. PICK given \in SUBSET DOMAIN schema.properties : 
        /\ schema.required \subseteq given
        /\ \E map \in [given -> configured.sent] :
             /\ \A n \in given : OfType(map[n], schema.properties[n])
             /\ request' = [request EXCEPT !.arguments = [kind |-> "object", map |-> map]]
  BY DEF ClientCalls
<1>3. PICK map \in [given -> configured.sent] :
        /\ \A n \in given : OfType(map[n], schema.properties[n])
        /\ request' = [request EXCEPT !.arguments = [kind |-> "object", map |-> map]]
  BY <1>2
<1>4. request' = [known |-> TRUE, tool |-> resolve(configured),
                  arguments |-> [kind |-> "object", map |-> map]]
  BY <1>1, <1>3 DEF Quiet
<1>5. /\ request'.tool = resolve(configured) /\ request'.known
      /\ request'.arguments.kind = "object" /\ request'.arguments.map = map
      /\ tool' = tool /\ tool = resolve(configured) /\ args_map' = map
  BY <1>1, <1>4 DEF tool, args_map, Quiet
<1>6. resolve(configured)' = resolve(configured) /\ generate_tool_schema' = generate_tool_schema
  BY <1>1, <1>5 DEF resolve, generate_tool_schema, override_properties
<1>7. IsArguments(request'.arguments)
  <2>1. given \subseteq Names \cup Limits
    BY <1>1, <1>2, SchemaFits DEF Catalogued
  <2>2. configured.sent \subseteq Values
    BY <1>1, ResolvedFits DEF Catalogued
  <2> QED
    BY <1>3, <1>5, <2>1, <2>2 DEF IsArguments
<1>8. IsRequest(request)'
  BY <1>1, <1>4, <1>5, <1>7, ResolvedFits DEF IsRequest, Catalogued
<1>9. Started'
  BY <1>1, <1>8 DEF Started, Quiet, building, execution
<1>10. Catalogued'
  BY <1>1, <1>5, <1>6 DEF Catalogued
<1>11. Permitted'
  <2>1. DOMAIN args_map' = given /\ schema' = schema
    BY <1>1, <1>3, <1>5
  <2>2. \A n \in DOMAIN args_map' : OfType(args_map'[n], schema'.properties[n])
    BY <1>3, <1>5, <2>1, Zenon
  <2>3. schema'.required \subseteq DOMAIN args_map'
        /\ DOMAIN args_map' \subseteq DOMAIN schema'.properties
    BY <1>2, <2>1
  <2> QED
    BY <1>5, <2>2, <2>3, Zenon DEF Permitted, OfType
<1>12. AdvertisedIsAccepted'
  BY <1>1 DEF AdvertisedIsAccepted
<1> QED
  BY <1>1, <1>9, <1>10, <1>11, <1>12, CallBegins DEF CatalogInv, Called

\* What the call stands for does not change while it is processed.
LEMMA SameCall ==
    ASSUME CatalogInv, UNCHANGED <<request, configured, exposed, schema>>,
           pc # "list", pc' \in {"listed", "start", "emit", "execute", "done"}
    PROVE  /\ Catalogued' /\ (Permitted => Permitted')
           /\ tool' = tool /\ args_map' = args_map
<1>1. tool' = tool /\ args_map' = args_map
  BY DEF tool, args_map
<1>2. generate_tool_schema' = generate_tool_schema
  BY <1>1 DEF generate_tool_schema, override_properties
<1>3. resolve(configured)' = resolve(configured)
  BY DEF resolve
<1>4. Catalogued'
  BY <1>2, <1>3 DEF CatalogInv, Catalogued
<1>5. Permitted => Permitted'
  BY <1>1 DEF Permitted, OfType
<1> QED
  BY <1>1, <1>4, <1>5

\* Only what AdvertisedIsAccepted names is refused.
LEMMA RefusalIsDue ==
    ASSUME Catalogued, Called, RefuseParam \/ RefuseOverride
    PROVE  \/ \E p \in DOMAIN args_map \cap DOMAIN tool.parameters :
                /\ tool.parameters[p].split_args /\ args_map[p].kind = "string"
                /\ args_map[p].words = -1
           \/ \E k \in DOMAIN args_map \cap Limits :
                /\ args_map[k].kind = "number" /\ args_map[k].amount > tool.limits[k].max
<1>1. CASE RefuseParam
  <2> DEFINE p == Head(todo)
  <2>1. pc = "emit" /\ todo # <<>> /\ Refused(p) /\ todo \in Seq(Names)
    BY <1>1 DEF RefuseParam, Called, Inv, Typed, TypeOK
  <2>2. p \in DOMAIN tool.parameters
    BY <2>1 DEF Called
  <2>3. p \in DOMAIN args_map \/ ~tool.parameters[p].required
    <3>1. schema = generate_tool_schema
      BY <2>1 DEF Catalogued
    <3>2. tool.parameters[p].required => p \in schema.required
      BY <2>2, <3>1, SchemaFits DEF Catalogued
    <3> QED
      BY <3>2 DEF Called, Permitted
  <2> HIDE DEF p
  <2>4. p \in DOMAIN args_map /\ Splits(p) /\ args_map[p].words = -1
    BY <2>1, <2>2, <2>3 DEF Refused
  <2> QED
    BY <2>2, <2>4 DEF Splits
<1>2. CASE RefuseOverride
  BY <1>2 DEF RefuseOverride, ExceedsMax, Overridden
<1> QED
  BY <1>1, <1>2

\* All that is to be emitted is a parameter.
LEMMA AllAreParameters ==
    ASSUME IsRequest(request)
    PROVE  \A i \in 1 .. Len(tool.arg_order \o Remaining) :
             (tool.arg_order \o Remaining)[i] \in DOMAIN tool.parameters
<1>1. tool.arg_order \in Seq(DOMAIN tool.parameters)
  BY RequestFits
<1>2. Remaining \in Seq(DOMAIN tool.parameters)
  <2>1. Remaining \in Seq(Names) /\ \A i \in 1 .. Len(Remaining) : Remaining[i] \in DOMAIN tool.parameters
    BY RemainingIs DEF Unlisted
  <2> QED
    BY <2>1
<1>3. tool.arg_order \o Remaining \in Seq(DOMAIN tool.parameters)
  BY <1>1, <1>2, ConcatProperties
<1> QED
  BY <1>3, ElementOfSeq

LEMMA CallingStep == CatalogInv /\ Calling => CatalogInv'
<1> SUFFICES ASSUME CatalogInv, Calling PROVE CatalogInv'
  OBVIOUS
<1>1. /\ pc \in {"start", "emit"} /\ UNCHANGED <<request, configured, exposed, schema>>
      /\ pc' \in {"start", "emit", "execute", "done"} /\ [Next]_vars
  BY DEF Calling, listing, Begin, EmitParam, RefuseParam, RefuseOverride, Execute,
         InvalidParams, Answered, Next
<1>2. Catalogued /\ Called
  BY <1>1 DEF CatalogInv
<1>3. Inv' /\ InOrder' /\ Counted'
  BY <1>1, <1>2, InvStep, InOrderStep, CountedStep DEF Called, Inv
<1>4. Catalogued' /\ Permitted' /\ tool' = tool /\ args_map' = args_map
  BY <1>1, <1>2, SameCall DEF Called
<1>5. IsRequest(request) /\ todo \in Seq(Names)
  BY <1>2 DEF Called, Inv, Typed, TypeOK
<1>6. pc' = "emit" => \A i \in 1 .. Len(todo') : todo'[i] \in DOMAIN tool.parameters
  <2>1. CASE Begin
    BY <1>5, <2>1, AllAreParameters DEF Begin
  <2>2. CASE EmitParam
    <3>1. pc = "emit" /\ todo # <<>> /\ todo' = Tail(todo)
      BY <2>2 DEF EmitParam
    <3>2. todo \in Seq(DOMAIN tool.parameters)
      BY <1>2, <1>5, <3>1 DEF Called
    <3>3. todo' \in Seq(DOMAIN tool.parameters)
      BY <3>1, <3>2, HeadTailProperties
    <3> QED
      BY <3>3, ElementOfSeq
  <2>3. CASE RefuseParam \/ RefuseOverride \/ Execute
    BY <2>3 DEF RefuseParam, RefuseOverride, Execute, InvalidParams, Answered
  <2> QED
    BY <2>1, <2>2, <2>3 DEF Calling
<1>7. AdvertisedIsAccepted'
  <2>1. CASE RefuseParam \/ RefuseOverride
    BY <1>2, <1>4, <2>1, RefusalIsDue DEF AdvertisedIsAccepted
  <2>2. CASE Begin \/ EmitParam \/ Execute
    <3>1. pc' # "done"
      BY <2>2 DEF Begin, EmitParam, Execute
    <3> QED
      BY <3>1 DEF AdvertisedIsAccepted
  <2> QED
    BY <2>1, <2>2 DEF Calling
<1>8. Called'
  BY <1>3, <1>4, <1>6, <1>7 DEF Called
<1> QED
  BY <1>1, <1>4, <1>8 DEF CatalogInv

LEMMA NothingHappens == CatalogInv /\ UNCHANGED <<vars, listing>> => CatalogInv'
<1> SUFFICES ASSUME CatalogInv, UNCHANGED <<vars, listing>> PROVE CatalogInv'
  OBVIOUS
<1> USE DEF vars, listing, building, execution
<1>1. Catalogued' /\ tool' = tool /\ args_map' = args_map
  BY DEF CatalogInv, Catalogued, tool, args_map, generate_tool_schema,
         override_properties, resolve
<1>2. Quiet => Quiet'
  BY DEF Quiet, resolve
<1>3. Called => Called'
  <2> SUFFICES ASSUME Called PROVE Called'
    OBVIOUS
  <2>1. Inv' /\ InOrder' /\ Counted'
    BY InvStep, InOrderStep, CountedStep DEF Called, Inv
  <2>2. Permitted' /\ AdvertisedIsAccepted'
    BY <1>1 DEF Called, Permitted, OfType, AdvertisedIsAccepted
  <2> QED
    BY <1>1, <2>1, <2>2 DEF Called
<1> QED
  BY <1>1, <1>2, <1>3 DEF CatalogInv

THEOREM CatalogInvariance == CatalogSpec => []CatalogInv
<1>1. CatalogInv /\ [CatalogNext]_<<vars, listing>> => CatalogInv'
  BY ListToolsStep, ClientCallsStep, CallingStep, NothingHappens DEF CatalogNext, Decided
<1> QED
  BY <1>1, CatalogInvInit, PTL DEF CatalogSpec

-----------------------------------------------------------------------------
(* The properties *)

\* What the schema of a valid tool allows is accepted, but for an open quote and a
\* number above its MAX.
THEOREM AcceptsWhatItSays == CatalogSpec => []AdvertisedIsAccepted
<1>1. CatalogInv => AdvertisedIsAccepted
  <2>1. pc \in {"list", "listed"} => AdvertisedIsAccepted
    BY DEF AdvertisedIsAccepted
  <2> QED
    BY <2>1 DEF CatalogInv, Called
<1> QED
  BY <1>1, CatalogInvariance, PTL

\* What a client gives is used: no argument that the schema invites is dropped or, unless
\* the file lists it twice, used twice.
THEOREM UsesWhatIsGiven == CatalogSpec => []GivenIsUsed
<1>1. CatalogInv => GivenIsUsed
  <2> SUFFICES ASSUME CatalogInv, pc = "execute" PROVE GivenIsUsed
    BY DEF GivenIsUsed
  <2>1. /\ Catalogued /\ Permitted /\ Inv /\ Counted /\ IsRequest(request)
        /\ limits # <<>> /\ Vetted
    BY DEF CatalogInv, Called, Inv, Phases, Typed
  <2>2. ASSUME NEW n \in DOMAIN args_map, n \in DOMAIN tool.parameters
        PROVE  LET v == args_map[n]
                   q == tool.parameters[n]
                   often == IF configured.ordered THEN Times(n) ELSE 1
                   Count(part) == Cardinality(PlacesOf(n, part))
               IN /\ q.flag => Count("flag") = IF ~q.takes_value /\ SaysNo(v) THEN 0 ELSE often
                  /\ Splits(n) => Count("word") = often * v.words
                  /\ ~Splits(n) /\ (q.flag => q.takes_value) => Count("value") = often
    <3> DEFINE v == args_map[n]
               q == tool.parameters[n]
               often == IF configured.ordered THEN Times(n) ELSE 1
    <3>1. often = Times(n) /\ Times(n) \in Nat
      BY <2>1, <2>2, ListedOnce, TimesOfAll DEF Catalogued
    <3>2. ~Refused(n)
      BY <2>1, <2>2 DEF Vetted
    <3>3. \A part \in Parts : Cardinality(PlacesOf(n, part)) = often * Per(n, part)
      BY <2>1, <2>2, <3>1, CountIs
    <3>4. "flag" \in Parts /\ "value" \in Parts /\ "word" \in Parts
      BY DEF Parts
    <3>5. v.kind \in {"string", "number", "bool"}
      <4>1. OfType(v, schema.properties[n])
        BY <2>1 DEF Permitted
      <4>2. schema.properties[n] \in {"string", "boolean", "number", "integer"}
        <5>1. schema = generate_tool_schema
          BY <2>1 DEF Catalogued
        <5>2. CASE n \in DOMAIN override_properties
          BY <2>2, <5>1, <5>2 DEF generate_tool_schema, override_properties
        <5>3. CASE n \notin DOMAIN override_properties
          <6>1. schema.properties[n] = json_type(tool.parameters[n], configured.types[n])
            BY <2>2, <5>1, <5>3 DEF generate_tool_schema
          <6>2. configured.types[n] \in ParamTypes
            <7>1. tool.parameters = configured.parameters
              BY <2>1, ResolvedFits DEF Catalogued, tool
            <7> QED
              BY <2>1, <2>2, <7>1, CatalogAssumption DEF Catalogued
          <6>3. ASSUME NEW r, NEW type \in ParamTypes
                PROVE  json_type(r, type) \in {"string", "boolean", "number", "integer"}
            BY DEF json_type, ParamTypes
          <6> QED
            BY <6>1, <6>2, <6>3
        <5> QED
          BY <5>2, <5>3
      <4> QED
        BY <4>1, <4>2 DEF OfType
    <3>6. truthy(v) <=> ~SaysNo(v)
      BY <3>5 DEF truthy, SaysNo
    <3> HIDE DEF often
    <3>7. /\ Per(n, "flag") = IF q.flag /\ (q.takes_value \/ truthy(v)) THEN 1 ELSE 0
          /\ Per(n, "value") = IF q.takes_value \/ ~(q.flag \/ Splits(n)) THEN 1 ELSE 0
          /\ Per(n, "word") = IF Splits(n) THEN v.words ELSE 0
      BY <2>1, <2>2, <3>2, PerIs
    <3>8. /\ q.flag => Cardinality(PlacesOf(n, "flag"))
                         = IF ~q.takes_value /\ SaysNo(v) THEN 0 ELSE often
          /\ ~Splits(n) /\ (q.flag => q.takes_value) => Cardinality(PlacesOf(n, "value")) = often
      BY <3>1, <3>3, <3>4, <3>6, <3>7
    <3>9. Splits(n) => Cardinality(PlacesOf(n, "word")) = often * v.words
      BY <3>3, <3>4, <3>7
    <3> QED
      BY <3>8, <3>9 DEF often
  <2>3. ASSUME NEW n \in DOMAIN args_map, n \in Limits, IsLimit(args_map[n])
        PROVE  limits[n] = args_map[n].amount
    BY <2>1, <2>3 DEF Vetted, Overridden, IsLimit
  <2> QED
    BY <2>2, <2>3 DEF GivenIsUsed
<1> QED
  BY <1>1, CatalogInvariance, PTL

\* The arguments are in the order of the convention that applies first.
LEMMA ConventionOrders ==
    ASSUME CatalogInv, pc = "execute", ~configured.ordered,
           NEW c, c = FirstConvention(DOMAIN tool.parameters).order,
           NEW x \in 1 .. Len(c), NEW y \in 1 .. Len(c), x < y
    PROVE  Before(c[x], c[y])
<1> DEFINE names == DOMAIN tool.parameters
           o == tool.arg_order
<1>1. /\ InOrder /\ IsRequest(request) /\ tool_args \in Seq(Elements)
      /\ request.tool = resolve(configured) /\ configured \in Configured
  BY DEF CatalogInv, Catalogued, Called, Inv, Typed
<1>2. Once
  BY <1>1, ListedOnce DEF Once
<1>3. o = default_arg_order(names)
  BY <1>1, ResolvedFits DEF tool, resolve
<1> SUFFICES ASSUME NEW i \in 1 .. Len(tool_args), NEW j \in 1 .. Len(tool_args),
                    tool_args[i].param = c[x], tool_args[j].param = c[y]
             PROVE  i < j
  BY DEF Before
<1>4. c[x] \in names /\ c[y] \in names
  <2>1. tool_args[i] \in Elements /\ tool_args[j] \in Elements
    BY <1>1, ElementOfSeq
  <2> QED
    BY <2>1 DEF Elements
<1> HIDE DEF names, o
<1>5. /\ ListedIn(c[x], o) /\ ListedIn(c[y], o)
      /\ \A k, l \in 1 .. Len(o) : o[k] = c[x] /\ o[l] = c[y] => k < l
  BY <1>3, <1>4, DefaultOrder DEF names
<1>6. PICK k \in 1 .. Len(o) : o[k] = c[x]
  BY <1>5 DEF ListedIn
<1>7. PICK l \in 1 .. Len(o) : o[l] = c[y]
  BY <1>5 DEF ListedIn
<1>8. Rank(c[x]) = k /\ Rank(c[y]) = l /\ k < l /\ k \in Int /\ l \in Int
  BY <1>1, <1>2, <1>5, <1>6, <1>7, RankOfListed DEF o
<1>9. ~(j < i)
  <2>1. j < i => Rank(c[y]) < Rank(c[x]) \/ c[y] = c[x]
    BY <1>1, <1>2 DEF InOrder
  <2>2. c[y] # c[x]
    BY <1>8
  <2> QED
    BY <1>8, <2>1, <2>2
<1>10. i # j
  BY <1>8
<1> QED
  BY <1>9, <1>10

\* Nothing stands for a parameter that the tool does not have.
LEMMA NothingBefore ==
    ASSUME CatalogInv, pc = "execute", NEW a, NEW b,
           a \notin DOMAIN tool.parameters \/ b \notin DOMAIN tool.parameters
    PROVE  Before(a, b)
<1>1. tool_args \in Seq(Elements)
  BY DEF CatalogInv, Called, Inv, Typed
<1>2. \A i \in 1 .. Len(tool_args) : tool_args[i].param \in DOMAIN tool.parameters
  <2>1. \A i \in 1 .. Len(tool_args) : tool_args[i] \in Elements
    BY <1>1, ElementOfSeq
  <2> QED
    BY <2>1 DEF Elements
<1> QED
  BY <1>2 DEF Before

\* A tool without an arg_order gets its operands in the order that commands agree on.
THEOREM KeepsConventions == CatalogSpec => []ConventionKept
<1>1. CatalogInv => ConventionKept
  <2> DEFINE names == DOMAIN tool.parameters
             complete == {o \in Operands : {o[1], o[2]} \subseteq names}
             c == FirstConvention(names).order
             Applies(j) == Conventions[j].needs \subseteq names
  <2> SUFFICES ASSUME CatalogInv, pc = "execute", ~configured.ordered
               PROVE  /\ \A o \in complete : complete = {o} =>
                           /\ Before(o[1], o[2])
                           /\ o[1] = "source" \/ o = <<"pattern", "file">> => Before("recursive", o[1])
                      /\ complete = {} /\ "follow" \in names =>
                           /\ Before("follow", "lines") /\ Before("follow", "file")
                           /\ Before("lines", "file")
    BY DEF ConventionKept
  <2>1. /\ Applies(1) <=> <<"source", "dest">> \in complete
        /\ Applies(2) <=> <<"pattern", "file">> \in complete
        /\ Applies(3) <=> <<"pattern", "path">> \in complete
        /\ Applies(4) <=> <<"script", "file">> \in complete
        /\ Applies(5) <=> <<"program", "file">> \in complete
        /\ Applies(6) <=> {"follow", "lines"} \subseteq names
        /\ Applies(7) <=> {"follow", "file"} \subseteq names
    BY TheConventions DEF Operands
  <2>2. PICK i \in 1 .. 10 : /\ c = Conventions[i].order /\ Applies(i)
                             /\ \A j \in 1 .. i - 1 : ~Applies(j)
    BY ConventionIs
  <2>3. \A x, y \in 1 .. Len(c) : x < y => Before(c[x], c[y])
    BY ConventionOrders
  <2> HIDE DEF c, Applies
  <2>4. ASSUME NEW o \in complete, complete = {o}
        PROVE  /\ Before(o[1], o[2])
               /\ o[1] = "source" \/ o = <<"pattern", "file">> => Before("recursive", o[1])
    <3>1. o \in Operands
      OBVIOUS
    <3> HIDE DEF complete
    <3>2. CASE o = <<"source", "dest">>
      <4>1. i = 1
        BY <2>1, <2>2, <3>2
      <4>2. c = <<"recursive", "source", "dest">>
        BY <2>2, <4>1, TheConventions
      <4> QED
        BY <2>3, <3>2, <4>2
    <3>3. CASE o = <<"pattern", "file">>
      <4>1. i = 2
        BY <2>1, <2>2, <2>4, <3>3
      <4>2. c = <<"recursive", "pattern", "file">>
        BY <2>2, <4>1, TheConventions
      <4> QED
        BY <2>3, <3>3, <4>2
    <3>4. CASE o = <<"pattern", "path">>
      <4>1. i = 3
        BY <2>1, <2>2, <2>4, <3>4
      <4>2. c = <<"pattern", "path">>
        BY <2>2, <4>1, TheConventions
      <4> QED
        BY <2>3, <3>4, <4>2
    <3>5. CASE o = <<"script", "file">>
      <4>1. i = 4
        BY <2>1, <2>2, <2>4, <3>5
      <4>2. c = <<"script", "file">>
        BY <2>2, <4>1, TheConventions
      <4> QED
        BY <2>3, <3>5, <4>2
    <3>6. CASE o = <<"program", "file">>
      <4>1. i = 5
        BY <2>1, <2>2, <2>4, <3>6
      <4>2. c = <<"program", "file">>
        BY <2>2, <4>1, TheConventions
      <4> QED
        BY <2>3, <3>6, <4>2
    <3> QED
      BY <3>1, <3>2, <3>3, <3>4, <3>5, <3>6 DEF Operands
  <2>5. ASSUME complete = {}, "follow" \in names
        PROVE  Before("follow", "lines") /\ Before("follow", "file") /\ Before("lines", "file")
    <3>1. ~Applies(1) /\ ~Applies(2) /\ ~Applies(3) /\ ~Applies(4) /\ ~Applies(5)
      BY <2>1, <2>5
    <3> HIDE DEF complete
    <3>2. CASE "lines" \in names \/ "file" \in names
      <4>1. i = 6 \/ i = 7
        BY <2>1, <2>2, <2>5, <3>1, <3>2
      <4>2. c = <<"follow", "lines", "file">>
        BY <2>2, <4>1, TheConventions
      <4> QED
        BY <2>3, <4>2
    <3>3. CASE "lines" \notin names /\ "file" \notin names
      BY <3>3, NothingBefore
    <3> QED
      BY <3>2, <3>3
  <2> QED
    BY <2>4, <2>5
<1> QED
  BY <1>1, CatalogInvariance, PTL
=============================================================================
