--------------------------- MODULE ToolCallProofs ---------------------------
(***************************************************************************)
(* Proofs about ToolCall, for every tool, every arguments and every way    *)
(* the command ends that ExecutionContract allows: what is run has been    *)
(* checked, the arguments are in order, and reply and metric are true.     *)
(***************************************************************************)
EXTENDS ToolCall, DataLemmas

-----------------------------------------------------------------------------
(* Part of a sequence, and the parameters that arg_order does not list *)

\* What the loop has collected after n members.
Added(seq, S, s, n) == IF seq[n] \in S THEN Append(s, seq[n]) ELSE s
IsKept(seq, S, f, m) ==
    f = [n \in 0 .. m |-> IF n = 0 THEN <<>> ELSE Added(seq, S, f[n - 1], n)]

\* The recursion has a solution, on every range.
LEMMA KeptExists == ASSUME NEW seq, NEW S, NEW m \in Nat PROVE \E f : IsKept(seq, S, f, m)
<1> DEFINE D == {k \in Nat : \E f : IsKept(seq, S, f, k)}
<1>1. 0 \in D
  <2> DEFINE g == [n \in 0 .. 0 |-> <<>>]
  <2>1. g = [n \in 0 .. 0 |-> IF n = 0 THEN <<>> ELSE Added(seq, S, g[n - 1], n)]
    OBVIOUS
  <2> QED
    BY <2>1 DEF IsKept
<1>2. ASSUME NEW k \in Nat, k \in D PROVE k + 1 \in D
  <2>1. PICK f : IsKept(seq, S, f, k)
    BY <1>2
  <2> DEFINE g == [n \in 0 .. k + 1 |-> IF n = 0 THEN <<>> ELSE Added(seq, S, f[n - 1], n)]
  <2>2. \A n \in 0 .. k : g[n] = f[n]
    <3> TAKE n \in 0 .. k
    <3>1. n \in 0 .. k + 1
      OBVIOUS
    <3> DEFINE h(x) == IF x = 0 THEN <<>> ELSE Added(seq, S, f[x - 1], x)
    <3>2. f = [x \in 0 .. k |-> h(x)] /\ g = [x \in 0 .. k + 1 |-> h(x)]
      BY <2>1 DEF IsKept
    <3> HIDE DEF g, h
    <3>3. f[n] = h(n)
      BY <3>2
    <3>4. g[n] = h(n)
      BY <3>1, <3>2
    <3> QED
      BY <3>3, <3>4
  <2>3. \A n \in 1 .. k + 1 : g[n - 1] = f[n - 1]
    <3> HIDE DEF g
    <3>1. \A n \in 1 .. k + 1 : n - 1 \in 0 .. k
      OBVIOUS
    <3> QED
      BY <2>2, <3>1
  <2>4. g = [n \in 0 .. k + 1 |-> IF n = 0 THEN <<>> ELSE Added(seq, S, g[n - 1], n)]
    <3>1. \A n \in 0 .. k + 1 : (IF n = 0 THEN <<>> ELSE Added(seq, S, f[n - 1], n))
                                = (IF n = 0 THEN <<>> ELSE Added(seq, S, g[n - 1], n))
      <4> HIDE DEF g
      <4> TAKE n \in 0 .. k + 1
      <4>1. n # 0 => g[n - 1] = f[n - 1]
        BY <2>3
      <4> QED
        BY <4>1
    <3>2. [n \in 0 .. k + 1 |-> IF n = 0 THEN <<>> ELSE Added(seq, S, f[n - 1], n)]
          = [n \in 0 .. k + 1 |-> IF n = 0 THEN <<>> ELSE Added(seq, S, g[n - 1], n)]
      <4> HIDE DEF g
      <4> QED
        BY <3>1
    <3> QED
      BY <3>2
  <2>5. IsKept(seq, S, g, k + 1)
    <3> HIDE DEF g
    <3> QED
      BY <2>4 DEF IsKept
  <2> QED
    BY <2>5
<1> HIDE DEF D
<1>3. m \in D
  BY <1>1, <1>2, SetInduction
<1> QED
  BY <1>3 DEF D

\* Keep loses no member of S, adds none and changes no place with another.
LEMMA KeepIs ==
    ASSUME NEW N, NEW seq \in Seq(N), NEW S,
           \A i, j \in 1 .. Len(seq) : seq[i] = seq[j] => i = j
    PROVE  /\ Keep(seq, S) \in Seq(N)
           /\ \A i \in 1 .. Len(Keep(seq, S)) :
                Keep(seq, S)[i] \in S /\ ListedIn(Keep(seq, S)[i], seq)
           /\ \A p \in S : ListedIn(p, seq) => ListedIn(p, Keep(seq, S))
           /\ \A i, j \in 1 .. Len(Keep(seq, S)) : \A a, b \in 1 .. Len(seq) :
                i < j /\ Keep(seq, S)[i] = seq[a] /\ Keep(seq, S)[j] = seq[b] => a < b
<1> DEFINE kept[n \in 0 .. Len(seq)] ==
             IF n = 0 THEN <<>>
             ELSE IF seq[n] \in S THEN Append(kept[n - 1], seq[n])
                                            ELSE kept[n - 1]
<1>0. /\ Len(seq) \in Nat /\ \A n \in 1 .. Len(seq) : seq[n] \in N
      /\ \A i, j \in 1 .. Len(seq) : seq[i] = seq[j] => i = j
  BY LenProperties, ElementOfSeq
<1>1. kept = CHOOSE f : IsKept(seq, S, f, Len(seq))
  BY Zenon DEF IsKept, Added
<1>2. Keep(seq, S) = kept[Len(seq)]
  BY Zenon DEF Keep
<1> HIDE DEF kept
<1>3. /\ kept[0] = <<>>
      /\ \A n \in 1 .. Len(seq) :
           kept[n] = IF seq[n] \in S THEN Append(kept[n - 1], seq[n])
                                               ELSE kept[n - 1]
  <2>1. IsKept(seq, S, kept, Len(seq))
    BY <1>0, <1>1, KeptExists, Zenon
  <2>2. kept[0] = <<>> /\ \A n \in 1 .. Len(seq) : kept[n] = Added(seq, S, kept[n - 1], n)
    <3>1. 0 \in 0 .. Len(seq) /\ \A n \in 1 .. Len(seq) : n \in 0 .. Len(seq) /\ n # 0
      BY <1>0
    <3> QED
      BY <2>1, <3>1 DEF IsKept
  <2> QED
    BY <2>2 DEF Added
<1> DEFINE
      From(n)   == \A i \in 1 .. Len(kept[n]) :
                     \E a \in 1 .. n : kept[n][i] = seq[a] /\ seq[a] \in S
      Each(n)   == \A a \in 1 .. n : seq[a] \in S =>
                     \E i \in 1 .. Len(kept[n]) : kept[n][i] = seq[a]
      Sorted(n) == \A i, j \in 1 .. Len(kept[n]) : \A a, b \in 1 .. Len(seq) :
                     i < j /\ kept[n][i] = seq[a] /\ kept[n][j] = seq[b] => a < b
      Fits(n)   == kept[n] \in Seq(N) /\ From(n) /\ Each(n) /\ Sorted(n)
      D         == {n \in Nat : n <= Len(seq) => Fits(n)}
<1>4. Fits(0)
  BY <1>3
<1>5. ASSUME NEW n \in Nat, n + 1 <= Len(seq), Fits(n) PROVE Fits(n + 1)
  <2>0. /\ n + 1 \in 1 .. Len(seq) /\ seq[n + 1] \in N
        /\ \A a \in 1 .. n : a \in 1 .. Len(seq) /\ a \in 1 .. n + 1
        /\ \A a \in 1 .. n + 1 : a \in 1 .. n \/ a = n + 1
        /\ Len(kept[n]) \in Nat /\ (n + 1) - 1 = n
    BY <1>0, <1>5, LenProperties
  <2>1. CASE ~seq[n + 1] \in S
    <3>1. kept[n + 1] = kept[n]
      BY <1>3, <2>0, <2>1
    <3>2. From(n + 1)
      BY <1>5, <2>0, <3>1
    <3>3. Each(n + 1)
      BY <1>5, <2>0, <2>1, <3>1
    <3> QED
      BY <1>5, <3>1, <3>2, <3>3
  <2>2. CASE seq[n + 1] \in S
    <3>0. kept[n + 1] = Append(kept[n], seq[n + 1])
      BY <1>3, <2>0, <2>2
    <3>1. /\ kept[n + 1] \in Seq(N) /\ Len(kept[n + 1]) = Len(kept[n]) + 1
          /\ \A i \in 1 .. Len(kept[n]) : kept[n + 1][i] = kept[n][i]
          /\ kept[n + 1][Len(kept[n]) + 1] = seq[n + 1]
      BY <1>5, <2>0, <3>0, AppendProperties
    <3>2. From(n + 1)
      <4> TAKE i \in 1 .. Len(kept[n + 1])
      <4>1. CASE i \in 1 .. Len(kept[n])
        <5>1. PICK a \in 1 .. n : kept[n][i] = seq[a] /\ seq[a] \in S
          BY <1>5, <4>1
        <5>2. a \in 1 .. n + 1 /\ kept[n + 1][i] = seq[a]
          BY <2>0, <3>1, <4>1, <5>1
        <5> QED
          BY <5>1, <5>2
      <4>2. CASE i = Len(kept[n]) + 1
        BY <2>0, <2>2, <3>1, <4>2
      <4> QED
        BY <2>0, <3>1, <4>1, <4>2
    <3>3. Each(n + 1)
      <4> TAKE a \in 1 .. n + 1
      <4> HAVE seq[a] \in S
      <4>1. CASE a \in 1 .. n
        <5>1. PICK i \in 1 .. Len(kept[n]) : kept[n][i] = seq[a]
          BY <1>5, <4>1
        <5>2. i \in 1 .. Len(kept[n + 1])
          BY <2>0, <3>1
        <5> QED
          BY <3>1, <5>1, <5>2
      <4>2. CASE a = n + 1
        <5>1. Len(kept[n]) + 1 \in 1 .. Len(kept[n + 1])
          BY <2>0, <3>1
        <5> QED
          BY <3>1, <4>2, <5>1
      <4> QED
        BY <2>0, <4>1, <4>2
    <3>4. Sorted(n + 1)
      <4> SUFFICES ASSUME NEW i \in 1 .. Len(kept[n + 1]), NEW j \in 1 .. Len(kept[n + 1]),
                          NEW a \in 1 .. Len(seq), NEW b \in 1 .. Len(seq),
                          i < j, kept[n + 1][i] = seq[a], kept[n + 1][j] = seq[b]
                   PROVE  a < b
        OBVIOUS
      <4>1. i \in 1 .. Len(kept[n]) /\ kept[n][i] = seq[a]
        <5>1. i \in 1 .. Len(kept[n])
          BY <2>0, <3>1
        <5> QED
          BY <3>1, <5>1, Zenon
      <4>2. PICK c \in 1 .. n : kept[n][i] = seq[c]
        BY <1>5, <4>1
      <4>3. a = c /\ a < n + 1
        <5>1. c \in 1 .. Len(seq) /\ seq[a] = seq[c] /\ c < n + 1
          BY <2>0, <4>1, <4>2
        <5>2. a = c
          BY <1>0, <5>1
        <5> QED
          BY <5>1, <5>2
      <4>4. CASE j \in 1 .. Len(kept[n])
        BY <1>5, <3>1, <4>1, <4>4
      <4>5. CASE j = Len(kept[n]) + 1
        <5>1. b = n + 1
          BY <1>0, <2>0, <3>1, <4>5
        <5> QED
          BY <4>3, <5>1
      <4>6. j \in 1 .. Len(kept[n]) \/ j = Len(kept[n]) + 1
        BY <2>0, <3>1
      <4> QED
        BY <4>4, <4>5, <4>6, Zenon
    <3> QED
      BY <3>1, <3>2, <3>3, <3>4
  <2> QED
    BY <2>1, <2>2
<1> HIDE DEF Fits
<1>6. 0 \in D
  BY <1>4
<1>7. ASSUME NEW n \in Nat, n \in D PROVE n + 1 \in D
  <2>1. n + 1 <= Len(seq) => n <= Len(seq)
    BY <1>0
  <2> QED
    BY <1>5, <1>7, <2>1
<1> HIDE DEF D
<1>8. Len(seq) \in D
  BY <1>0, <1>6, <1>7, SetInduction
<1>9. Fits(Len(seq))
  BY <1>0, <1>8 DEF D
<1>10. \A i \in 1 .. Len(Keep(seq, S)) :
         Keep(seq, S)[i] \in S /\ ListedIn(Keep(seq, S)[i], seq)
  <2>1. ASSUME NEW i \in 1 .. Len(Keep(seq, S))
        PROVE  Keep(seq, S)[i] \in S /\ ListedIn(Keep(seq, S)[i], seq)
    <3>1. PICK a \in 1 .. Len(seq) : Keep(seq, S)[i] = seq[a] /\ seq[a] \in S
      BY <1>2, <1>9 DEF Fits
    <3> QED
      BY <3>1 DEF ListedIn
  <2> QED
    BY <2>1
<1>11. ASSUME NEW p \in S, ListedIn(p, seq) PROVE ListedIn(p, Keep(seq, S))
  <2>1. PICK a \in 1 .. Len(seq) : p = seq[a]
    BY <1>11 DEF ListedIn
  <2>2. \E i \in 1 .. Len(Keep(seq, S)) : Keep(seq, S)[i] = seq[a]
    BY <1>2, <1>9, <1>11, <2>1 DEF Fits
  <2> QED
    BY <2>1, <2>2 DEF ListedIn
<1> QED
  BY <1>2, <1>9, <1>10, <1>11 DEF Fits

\* Remaining holds names that are not listed, each that is not, in the order of names.
LEMMA RemainingIs ==
    /\ Remaining \in Seq(Names)
    /\ \A i \in 1 .. Len(Remaining) : Remaining[i] \in Unlisted
    /\ \A p \in Names : p \in Unlisted => ListedIn(p, Remaining)
    /\ \A i, j \in 1 .. Len(Remaining) : \A a, b \in 1 .. Len(NameOrder) :
         i < j /\ Remaining[i] = NameOrder[a] /\ Remaining[j] = NameOrder[b] => a < b
<1>1. \A p \in Names : ListedIn(p, NameOrder)
  BY DEF Names, ListedIn
<1> QED
  BY <1>1, ToolCallAssumption, KeepIs DEF Remaining

-----------------------------------------------------------------------------
(* The values of a call *)

Elements == [param : DOMAIN tool.parameters, part : {"flag", "value", "word"}, place : Nat]

\* The parts of a request have their types.
LEMMA RequestFits ==
    ASSUME IsRequest(request)
    PROVE  /\ IsTool(tool) /\ IsArguments(request.arguments)
           /\ \A n \in DOMAIN args_map : args_map[n] \in Values
           /\ tool.arg_order \in Seq(DOMAIN tool.parameters) /\ tool.arg_order \in Seq(Names)
           /\ DOMAIN tool.parameters \subseteq Names
<1>1. IsTool(tool) /\ IsArguments(request.arguments)
  BY DEF IsRequest, tool
<1>2. \A n \in DOMAIN args_map : args_map[n] \in Values
  <2>1. CASE request.arguments.kind = "object"
    BY <1>1, <2>1 DEF args_map, IsArguments
  <2>2. CASE request.arguments.kind # "object"
    BY <2>2 DEF args_map
  <2> QED
    BY <2>1, <2>2
<1>3. tool.arg_order \in Seq(Names)
  BY <1>1 DEF IsTool
<1> QED
  BY <1>1, <1>2, <1>3 DEF IsTool

\* What is to be emitted: every parameter, and nothing but names.
LEMMA EveryParameter ==
    ASSUME IsRequest(request)
    PROVE  /\ tool.arg_order \o Remaining \in Seq(Names)
           /\ \A p \in DOMAIN tool.parameters : ListedIn(p, tool.arg_order \o Remaining)
<1>1. /\ tool.arg_order \in Seq(Names) /\ Remaining \in Seq(Names)
      /\ Len(tool.arg_order) \in Nat /\ Len(Remaining) \in Nat
  BY RequestFits, RemainingIs, LenProperties
<1> DEFINE all == tool.arg_order \o Remaining
<1>2. /\ all \in Seq(Names) /\ Len(all) = Len(tool.arg_order) + Len(Remaining)
      /\ \A i \in 1 .. Len(tool.arg_order) : all[i] = tool.arg_order[i]
      /\ \A i \in 1 .. Len(Remaining) : all[Len(tool.arg_order) + i] = Remaining[i]
  BY <1>1, ConcatProperties
<1> HIDE DEF all
<1>3. ASSUME NEW p \in DOMAIN tool.parameters PROVE ListedIn(p, all)
  <2>1. CASE ListedIn(p, tool.arg_order)
    <3>1. PICK i \in 1 .. Len(tool.arg_order) : tool.arg_order[i] = p
      BY <2>1 DEF ListedIn
    <3>2. i \in 1 .. Len(all) /\ all[i] = p
      BY <1>1, <1>2, <3>1
    <3> QED
      BY <3>2 DEF ListedIn
  <2>2. CASE ~ListedIn(p, tool.arg_order)
    <3>1. ListedIn(p, Remaining)
      BY <2>2, RequestFits, RemainingIs DEF Unlisted
    <3>2. PICK i \in 1 .. Len(Remaining) : Remaining[i] = p
      BY <3>1 DEF ListedIn
    <3>3. Len(tool.arg_order) + i \in 1 .. Len(all) /\ all[Len(tool.arg_order) + i] = p
      BY <1>1, <1>2, <3>2
    <3> QED
      BY <3>3 DEF ListedIn
  <2> QED
    BY <2>1, <2>2
<1> QED
  BY <1>2, <1>3 DEF all

\* A parameter that is not refused puts elements of its own into the argument vector.
LEMMA EmittedTyped ==
    ASSUME IsRequest(request), NEW p, ~Refused(p)
    PROVE  p \in DOMAIN tool.parameters /\ Emitted(p) \in Seq(Elements)
<1>1. p \in DOMAIN tool.parameters
  BY DEF Refused
<1>2. Flag(p) \in Elements /\ Value(p) \in Elements
  BY <1>1 DEF Flag, Value, Elements
<1>3. ASSUME p \in DOMAIN args_map, Splits(p)
      PROVE  [i \in 1 .. args_map[p].words |-> Word(p, i)] \in Seq(Elements)
  <2>1. args_map[p] \in Values
    BY <1>3, RequestFits
  <2>2. args_map[p].words \in Nat
    BY <1>3, <2>1 DEF Values, Refused
  <2>3. \A i \in 1 .. args_map[p].words : Word(p, i) \in Elements
    BY <1>1, <2>2 DEF Word, Elements
  <2> QED
    BY <2>2, <2>3
<1> QED
  BY <1>1, <1>2, <1>3 DEF Emitted

\* The code of a status that a process can have is one that an answer can hold.
LEMMA ExitCodeFits ==
    ASSUME NEW st \in Statuses
    PROVE  /\ exit_code_from_status(st) \in ExitCodes \cup {-1}
           /\ exit_code_from_status(st) = 0 => st = Exited(0)
  BY ExitCodesAssumption DEF exit_code_from_status, Statuses, Exited, Signalled

\* The label of an answer, by what the answer says.
LEMMA OutcomeOf ==
    ASSUME NEW a \in Answers \ {NoAnswer}
    PROVE  execution_outcome(a) =
             IF a.kind = "ok"
             THEN IF a.stopped THEN "stopped_after"
                  ELSE IF a.code = 0 THEN "ok" ELSE "nonzero_exit"
             ELSE IF a.kind = "timeout" THEN "timeout"
             ELSE IF a.kind = "not_found" THEN "command_not_found" ELSE "error"
<1>1. CASE a.kind = "ok" /\ a.stopped
  BY <1>1, Zenon DEF execution_outcome
<1>2. CASE a.kind = "ok" /\ ~a.stopped /\ a.code = 0
  BY <1>2, Zenon DEF execution_outcome
<1>3. CASE a.kind = "ok" /\ ~a.stopped /\ a.code # 0
  BY <1>3, Zenon DEF execution_outcome
<1>4. CASE a.kind = "timeout"
  BY <1>4, Zenon DEF execution_outcome
<1>5. CASE a.kind = "not_found"
  BY <1>5, Zenon DEF execution_outcome
<1>6. CASE a.kind \notin {"ok", "timeout", "not_found"}
  BY <1>6, Zenon DEF execution_outcome
<1> QED
  BY <1>1, <1>2, <1>3, <1>4, <1>5, <1>6, Zenon

\* The contract and the call deal in the same values.
LEMMA SameValues ==
    /\ Contract!NoStatus = NoStatus /\ Contract!Statuses = Statuses
    /\ Contract!NoAnswer = NoAnswer
    /\ \A k : Contract!Err(k) = Err(k)
    /\ \A c, b : Contract!Ok(c, b) = Ok(c, b)
    /\ \A st : Contract!exit_code_from_status(st) = exit_code_from_status(st)
  BY DEF Contract!NoStatus, NoStatus, Contract!Statuses, Statuses, Contract!NoAnswer,
         NoAnswer, Contract!Err, Err, Contract!Ok, Ok, Contract!exit_code_from_status,
         exit_code_from_status, Contract!Exited, Exited, Contract!Signalled, Signalled,
         Contract!NoCode, NoCode

-----------------------------------------------------------------------------
(* Types *)

\* The types, with those of the process: what has died has a status.
Typed ==
    /\ TypeOK /\ IsRequest(request)
    /\ tool_args \in Seq(Elements)
    /\ life \in {"none", "alive", "dead"} /\ (life = "dead" => status \in Statuses)
    /\ drained \in BOOLEAN

\* A call that has come in.
Started == /\ IsRequest(request)
           /\ pc = "start" /\ todo = <<>> /\ tool_args = <<>> /\ limits = <<>>
           /\ outcome = "none" /\ reply = NoReply
           /\ life = "none" /\ status = NoStatus /\ drained = FALSE /\ answer = NoAnswer

LEMMA InitStarted == Init => Started
  BY ToolCallAssumption DEF Init, Started

LEMMA TypedInit == Started => Typed
<1> SUFFICES ASSUME Started PROVE Typed
  OBVIOUS
<1>1. IsTool(tool) /\ IsArguments(request.arguments) /\ IsRequest(request)
  BY RequestFits DEF Started
<1>2. todo = <<>> /\ tool_args = <<>> /\ <<>> \in Seq(Names) /\ <<>> \in Seq(Elements)
  BY EmptySeq DEF Started
<1>3. \A i \in 1 .. Len(tool_args) : tool_args[i] \in Elements
  BY <1>2
<1>4. reply \in Replies /\ answer \in Answers
  BY DEF Started, NoReply, Replies, Answers
<1>5. /\ pc = "start" /\ outcome = "none" /\ limits = <<>>
      /\ life = "none" /\ drained = FALSE
  BY DEF Started
<1> QED
  BY <1>1, <1>2, <1>3, <1>4, <1>5 DEF Typed, TypeOK, Elements

\* What a step of the contract may make of the process and the answer.
LEMMA RunningStep ==
    ASSUME Typed, Running
    PROVE  /\ UNCHANGED <<request, pc, building, outcome, reply>> /\ limits # <<>>
           /\ pc = "execute" \/ UNCHANGED answer
           /\ life' \in {"none", "alive", "dead"} /\ (life' = "dead" => status' \in Statuses)
           /\ drained' \in BOOLEAN /\ answer' \in Answers
           /\ drained => drained'
           /\ life = "dead" => life' = "dead" /\ status' = status
           /\ answer # NoAnswer => answer' = answer
           /\ answer' # answer /\ answer'.kind = "ok" =>
                /\ drained'
                /\ answer'.stopped => limits["stop_after"] > 0
                /\ answer'.code = 0 /\ ~answer'.stopped => life' = "dead" /\ status' = Exited(0)
<1> DEFINE stops == limits["stop_after"] > 0
<1>0. /\ UNCHANGED <<request, pc, building, outcome, reply>> /\ limits # <<>>
      /\ pc = "execute" \/ UNCHANGED answer
      /\ Contract!CNext
  BY DEF Running
<1>1. /\ life \in {"none", "alive", "dead"} /\ (life = "dead" => status \in Statuses)
      /\ drained \in BOOLEAN /\ answer \in Answers
  BY DEF Typed, TypeOK
<1> HIDE DEF stops
<1>2. CASE Contract!Launch \/ Contract!Die \/ Contract!Drain \/ Contract!Condemn
  BY <1>0, <1>1, <1>2, SameValues
     DEF Contract!Launch, Contract!Die, Contract!Drain, Contract!Condemn
<1>3. CASE Contract!AnswerNotFound \/ Contract!AnswerTimeout \/ Contract!AnswerFailed
  <2>1. /\ UNCHANGED <<life, status, drained>> /\ answer = NoAnswer
        /\ \E k \in ErrKinds : answer' = Err(k)
    BY <1>3, SameValues
       DEF Contract!AnswerNotFound, Contract!AnswerTimeout, Contract!AnswerFailed,
           Contract!Answer, ErrKinds
  <2>2. answer' \in Answers /\ answer'.kind # "ok"
    <3>1. PICK k \in ErrKinds : answer' = Err(k)
      BY <2>1
    <3>2. answer' \in Answers
      BY <3>1 DEF Answers
    <3> QED
      BY <3>1, <3>2 DEF Err, ErrKinds
  <2> QED
    BY <1>0, <1>1, <2>1, <2>2
<1>4. CASE Contract!AnswerExited
  <2>1. /\ UNCHANGED <<life, status, drained>> /\ answer = NoAnswer
        /\ life = "dead" /\ drained
        /\ \E s \in {FALSE, stops} : answer' = Ok(exit_code_from_status(status), s)
    BY <1>4, SameValues DEF Contract!AnswerExited, Contract!Answer, stops
  <2>2. PICK s \in {FALSE, stops} : answer' = Ok(exit_code_from_status(status), s)
    BY <2>1
  <2>3. s \in BOOLEAN /\ (s => limits["stop_after"] > 0)
    <3>1. limits["stop_after"] \in Nat
      BY <1>0, ToolCallAssumption DEF Typed, TypeOK
    <3>2. stops \in BOOLEAN
      BY <3>1 DEF stops
    <3>3. s \in BOOLEAN /\ (s => stops)
      <4>1. s = FALSE \/ s = stops
        BY <2>2
      <4>2. CASE s = FALSE
        BY <4>2
      <4>3. CASE s = stops
        BY <3>2, <4>3
      <4> QED
        BY <4>1, <4>2, <4>3
    <3> QED
      BY <3>3 DEF stops
  <2>4. /\ status \in Statuses /\ exit_code_from_status(status) \in ExitCodes \cup {-1}
        /\ exit_code_from_status(status) = 0 => status = Exited(0)
    BY <1>1, <2>1, ExitCodeFits
  <2>5. answer' \in Answers
    BY <2>2, <2>3, <2>4 DEF Answers, Ok
  <2>6. /\ answer'.stopped => limits["stop_after"] > 0
        /\ answer'.code = 0 /\ ~answer'.stopped => life' = "dead" /\ status' = Exited(0)
    BY <2>1, <2>2, <2>3, <2>4 DEF Ok
  <2> QED
    BY <1>0, <1>1, <2>1, <2>5, <2>6
<1>5. CASE Contract!AnswerStopped
  <2>1. /\ UNCHANGED <<life, status, drained>> /\ answer = NoAnswer /\ drained
        /\ limits["stop_after"] > 0 /\ answer' = Ok(0, TRUE)
    BY <1>5, SameValues DEF Contract!AnswerStopped, Contract!Answer
  <2>2. answer' \in Answers /\ answer'.stopped
    BY <2>1 DEF Answers, Ok
  <2> QED
    BY <1>0, <1>1, <2>1, <2>2
<1> QED
  BY <1>0, <1>2, <1>3, <1>4, <1>5 DEF Contract!CNext

\* The limits of a call are natural numbers.
LEMMA LimitsTyped ==
    ASSUME IsRequest(request), NEW k \in Limits
    PROVE  (IF Overridden(k) THEN args_map[k].amount ELSE tool.limits[k].default) \in Nat
<1>1. tool.limits[k].default \in Nat
  BY RequestFits DEF IsTool
<1>2. ASSUME Overridden(k) PROVE args_map[k].amount \in Nat
  <2>1. args_map[k] \in Values
    BY <1>2, RequestFits DEF Overridden
  <2> QED
    BY <1>2, <2>1 DEF Overridden, Values
<1> QED
  BY <1>1, <1>2

\* A step that answers or moves on without building anything.
LEMMA TypedAnswer ==
    ASSUME Typed, UNCHANGED <<request, building, execution>>,
           pc' \in {"execute", "reply", "done", "dropped"}, reply' \in Replies,
           outcome' \in {"none", "ok", "nonzero_exit", "stopped_after", "timeout",
                        "command_not_found", "error"}
    PROVE  Typed'
  BY DEF Typed, TypeOK, building, execution, tool, Elements

LEMMA TypedStep == Typed /\ [Next]_vars => Typed'
<1> SUFFICES ASSUME Typed, [Next]_vars PROVE Typed'
  OBVIOUS
<1>0. /\ TypeOK /\ IsRequest(request) /\ tool_args \in Seq(Elements)
      /\ todo \in Seq(Names) /\ reply \in Replies
  BY DEF Typed, TypeOK
<1>1. CASE UNCHANGED vars
  BY <1>1 DEF vars, building, execution, Typed, TypeOK, tool, Elements
<1>2. CASE UnknownTool \/ NotAnObject \/ RefuseParam \/ RefuseOverride
  <2>1. /\ UNCHANGED <<request, building, outcome, execution>> /\ pc' = "done"
        /\ \E k \in {"invalid_params", "tool_error"} :
             reply' = [kind |-> k, is_error |-> TRUE]
    BY <1>2
       DEF UnknownTool, NotAnObject, RefuseParam, RefuseOverride, InvalidParams, ToolError,
           Answered
  <2>2. reply' \in Replies
    BY <2>1 DEF Replies
  <2> QED
    BY <1>0, <2>1, <2>2, TypedAnswer DEF TypeOK
<1>3. CASE Begin
  <2>1. /\ UNCHANGED <<request, tool_args, limits, outcome, reply, execution>>
        /\ pc' = "emit" /\ todo' \in Seq(Names)
    BY <1>0, <1>3, EveryParameter DEF Begin
  <2> QED
    BY <2>1 DEF Typed, TypeOK, execution, tool, Elements
<1>4. CASE EmitParam
  <2> DEFINE p == Head(todo)
  <2>1. /\ UNCHANGED <<request, pc, limits, outcome, reply, execution>>
        /\ todo # <<>> /\ ~Refused(p) /\ tool_args' = tool_args \o Emitted(p)
        /\ todo' = Tail(todo)
    BY <1>4 DEF EmitParam
  <2> HIDE DEF p
  <2>2. todo' \in Seq(Names) /\ tool_args' \in Seq(Elements)
    BY <1>0, <2>1, EmittedTyped, ConcatProperties, HeadTailProperties
  <2>3. Elements' = Elements /\ tool' = tool
    BY <2>1 DEF Elements, tool
  <2>4. \A i \in 1 .. Len(tool_args') : tool_args'[i] \in Elements
    BY <2>2, ElementOfSeq
  <2> QED
    BY <2>1, <2>2, <2>3, <2>4 DEF Typed, TypeOK, execution, Elements
<1>5. CASE Execute
  <2>1. /\ UNCHANGED <<request, todo, tool_args, outcome, reply, execution>>
        /\ pc' = "execute" /\ limits' \in [Limits -> Nat]
    BY <1>0, <1>5, LimitsTyped DEF Execute
  <2> QED
    BY <2>1 DEF Typed, TypeOK, execution, tool, Elements
<1>6. CASE Running
  <2>1. /\ UNCHANGED <<request, pc, building, outcome, reply>>
        /\ life' \in {"none", "alive", "dead"} /\ (life' = "dead" => status' \in Statuses)
        /\ drained' \in BOOLEAN /\ answer' \in Answers
    BY <1>6, RunningStep
  <2> QED
    BY <2>1 DEF Typed, TypeOK, building, tool, Elements
<1>7. CASE Record
  <2>1. /\ UNCHANGED <<request, building, reply, execution>> /\ pc' = "reply"
        /\ answer \in Answers \ {NoAnswer} /\ outcome' = execution_outcome(answer)
    BY <1>0, <1>7 DEF Record, TypeOK
  <2>2. outcome' \in {"none", "ok", "nonzero_exit", "stopped_after", "timeout",
                     "command_not_found", "error"}
    BY <2>1, OutcomeOf
  <2> QED
    BY <1>0, <2>1, <2>2, TypedAnswer
<1>8. CASE ReplyError \/ ReplyJson \/ ReplyText
  <2>0. is_error \in BOOLEAN
    BY DEF is_error
  <2>1. /\ UNCHANGED <<request, building, outcome, execution>> /\ pc' = "done"
        /\ \/ reply' = [kind |-> "tool_error", is_error |-> TRUE]
           \/ reply' = [kind |-> "json", is_error |-> FALSE]
           \/ reply' = [kind |-> "text", is_error |-> is_error]
    BY <1>8 DEF ReplyError, ReplyJson, ReplyText, ToolError, Answered
  <2> HIDE DEF is_error
  <2>2. reply' \in Replies
    <3>1. [kind |-> "tool_error", is_error |-> TRUE] \in Replies
      BY DEF Replies
    <3>2. [kind |-> "json", is_error |-> FALSE] \in Replies
      BY DEF Replies
    <3>3. [kind |-> "text", is_error |-> is_error] \in Replies
      BY <2>0 DEF Replies
    <3> QED
      BY <2>1, <3>1, <3>2, <3>3, Zenon
  <2> QED
    BY <1>0, <2>1, <2>2, TypedAnswer DEF TypeOK
<1>9. CASE CallDropped
  <2>1. /\ UNCHANGED <<request, building, outcome, reply, execution>> /\ pc' = "dropped"
    BY <1>9 DEF CallDropped
  <2> QED
    BY <1>0, <2>1, TypedAnswer DEF TypeOK
<1> QED
  BY <1>1, <1>2, <1>3, <1>4, <1>5, <1>6, <1>7, <1>8, <1>9 DEF Next, Over

\* The types hold for every request: in particular, every element of an argument vector
\* comes from a parameter of the tool.
THEOREM TypeCorrect == Spec => []TypeOK
<1>1. Typed => TypeOK
  BY DEF Typed
<1> QED
  BY <1>1, InitStarted, TypedInit, TypedStep, PTL DEF Spec

-----------------------------------------------------------------------------
(* The invariant *)

\* Nothing runs before there are limits, and the metric is the one of the answer.
Phases ==
    /\ pc \in {"start", "emit"} => limits = <<>>
    /\ pc \in {"execute", "reply", "dropped"} => limits # <<>>
    /\ limits = <<>> => life = "none" /\ answer = NoAnswer /\ outcome = "none"
    /\ pc \in {"execute", "dropped"} => outcome = "none"
    /\ pc = "reply" \/ (pc = "done" /\ limits # <<>>) =>
         answer # NoAnswer /\ outcome = execution_outcome(answer)

\* While parameters are being emitted, those that will be refused are still to come;
\* limits are set only when none is left, and only to what is allowed.
Vetted ==
    /\ pc = "emit" => \A p \in DOMAIN tool.parameters : Refused(p) => ListedIn(p, todo)
    /\ limits # <<>> =>
         /\ \A p \in DOMAIN tool.parameters : ~Refused(p)
         /\ \A k \in Limits :
              \/ limits[k] = tool.limits[k].default /\ ~Overridden(k)
              \/ limits[k] <= tool.limits[k].max /\ limits[k] = args_map[k].amount

\* An answer with a result is about output that has been read, and about how the
\* process died unless the call stopped it.
AnswerIsReal == answer.kind = "ok" =>
    /\ drained
    /\ answer.stopped => limits["stop_after"] > 0
    /\ answer.code = 0 /\ ~answer.stopped => life = "dead" /\ status = Exited(0)

\* There is a reply when the call is done, and it is the one its answer calls for.
ReplyIsOwed ==
    /\ pc # "done" => reply = NoReply
    /\ pc = "done" =>
         IF limits # <<>> /\ answer.kind = "ok"
         THEN /\ reply.kind \in {"text", "json"} /\ (reply.is_error <=> is_error)
              /\ reply.kind = "json" => ~is_error
         ELSE /\ reply.kind \in {"invalid_params", "tool_error"} /\ reply.is_error
              /\ limits # <<>> => reply.kind = "tool_error"

Inv == Typed /\ Phases /\ Vetted /\ AnswerIsReal /\ ReplyIsOwed

LEMMA InvInit == Started => Inv
<1> SUFFICES ASSUME Started PROVE Inv
  OBVIOUS
<1>1. Typed
  BY TypedInit
<1>2. Phases /\ Vetted /\ ReplyIsOwed
  BY DEF Started, Phases, Vetted, ReplyIsOwed
<1>3. AnswerIsReal
  BY DEF Started, AnswerIsReal, NoAnswer
<1> QED
  BY <1>1, <1>2, <1>3 DEF Inv

LEMMA InvStep == Inv /\ [Next]_vars => Inv'
<1> SUFFICES ASSUME Inv, [Next]_vars PROVE Inv'
  OBVIOUS
<1>0. /\ Typed /\ Typed' /\ Phases /\ Vetted /\ AnswerIsReal /\ ReplyIsOwed
      /\ TypeOK /\ IsRequest(request)
  BY TypedStep DEF Inv, Typed
<1>1. CASE UNCHANGED vars
  BY <1>0, <1>1
     DEF vars, building, execution, Inv, Phases, Vetted, AnswerIsReal, ReplyIsOwed, tool,
         args_map, Refused, Splits, Overridden, ListedIn, is_error
<1>2. CASE UnknownTool \/ NotAnObject \/ RefuseParam \/ RefuseOverride
  <2>1. /\ UNCHANGED <<request, building, outcome, execution>>
        /\ pc \in {"start", "emit"} /\ pc' = "done"
        /\ \E k \in {"invalid_params", "tool_error"} :
             reply' = [kind |-> k, is_error |-> TRUE]
    BY <1>2
       DEF UnknownTool, NotAnObject, RefuseParam, RefuseOverride, InvalidParams, ToolError,
           Answered
  <2>2. limits = <<>> /\ limits' = <<>> /\ UNCHANGED execution
    BY <1>0, <2>1 DEF Phases, building
  <2>3. Phases' /\ Vetted'
    BY <1>0, <2>1, <2>2 DEF Phases, Vetted, execution
  <2>4. AnswerIsReal'
    BY <1>0, <2>2 DEF AnswerIsReal, Phases, execution, NoAnswer
  <2>5. ReplyIsOwed'
    BY <2>1, <2>2 DEF ReplyIsOwed
  <2> QED
    BY <1>0, <2>3, <2>4, <2>5 DEF Inv
<1>3. CASE Begin
  <2>1. /\ UNCHANGED <<request, limits, outcome, reply, life, status, drained, answer>>
        /\ pc = "start" /\ pc' = "emit" /\ todo' = tool.arg_order \o Remaining
    BY <1>3 DEF Begin, execution
  <2>2. Vetted'
    <3>1. \A p \in DOMAIN tool.parameters : ListedIn(p, todo')
      BY <1>0, <2>1, EveryParameter
    <3>2. limits' = <<>>
      BY <1>0, <2>1 DEF Phases
    <3> QED
      BY <2>1, <3>1, <3>2 DEF Vetted, tool, ListedIn
  <2> QED
    BY <1>0, <2>1, <2>2 DEF Inv, Phases, AnswerIsReal, ReplyIsOwed
<1>4. CASE EmitParam
  <2>1. /\ UNCHANGED <<request, pc, limits, outcome, reply, life, status, drained, answer>>
        /\ pc = "emit" /\ todo # <<>> /\ ~Refused(Head(todo)) /\ todo' = Tail(todo)
    BY <1>4 DEF EmitParam, execution
  <2>2. todo \in Seq(Names)
    BY <1>0 DEF TypeOK
  <2>3. \A p \in DOMAIN tool.parameters : Refused(p) => ListedIn(p, Tail(todo))
    <3> SUFFICES ASSUME NEW p \in DOMAIN tool.parameters, Refused(p)
                 PROVE  ListedIn(p, Tail(todo))
      OBVIOUS
    <3>1. PICK i \in 1 .. Len(todo) : todo[i] = p
      BY <1>0, <2>1 DEF Vetted, ListedIn
    <3>2. i # 1
      BY <2>1, <3>1
    <3>3. /\ Len(todo) \in Nat /\ Len(Tail(todo)) = Len(todo) - 1
          /\ \A j \in 1 .. Len(Tail(todo)) : Tail(todo)[j] = todo[j + 1]
      BY <2>1, <2>2, HeadTailProperties, LenProperties
    <3>4. i - 1 \in 1 .. Len(Tail(todo)) /\ (i - 1) + 1 = i
      BY <3>1, <3>2, <3>3
    <3> QED
      BY <3>1, <3>3, <3>4 DEF ListedIn
  <2>4. Vetted'
    BY <1>0, <2>1, <2>3 DEF Vetted, Phases, tool, args_map, Refused, Splits, ListedIn
  <2> QED
    BY <1>0, <2>1, <2>4 DEF Inv, Phases, AnswerIsReal, ReplyIsOwed, is_error
<1>5. CASE Execute
  <2>1. /\ UNCHANGED <<request, outcome, reply, life, status, drained, answer>>
        /\ pc = "emit" /\ pc' = "execute" /\ todo = <<>>
        /\ ~ \E k \in Limits : ExceedsMax(k)
        /\ limits' = [k \in Limits |-> IF Overridden(k) THEN args_map[k].amount
                                       ELSE tool.limits[k].default]
    BY <1>5 DEF Execute, execution
  <2>2. limits' # <<>>
    <3>1. DOMAIN limits' = Limits /\ "stop_after" \in Limits
      BY <2>1, ToolCallAssumption
    <3> QED
      BY <3>1
  <2>3. \A p \in DOMAIN tool.parameters : ~Refused(p)
    BY <1>0, <2>1 DEF Vetted, ListedIn
  <2>4. ASSUME NEW k \in Limits
        PROVE  \/ limits'[k] = tool.limits[k].default /\ ~Overridden(k)
               \/ limits'[k] <= tool.limits[k].max /\ limits'[k] = args_map[k].amount
    <3>1. CASE ~Overridden(k)
      BY <2>1, <3>1
    <3>2. CASE Overridden(k)
      <4>1. /\ limits'[k] = args_map[k].amount /\ args_map[k] \in Values
            /\ ~(args_map[k].amount > tool.limits[k].max)
        BY <1>0, <2>1, <3>2, RequestFits DEF ExceedsMax, Overridden
      <4>2. args_map[k].amount \in Int /\ tool.limits[k].max \in Int
        BY <1>0, <4>1, RequestFits DEF Values, IsTool
      <4> QED
        BY <4>1, <4>2
    <3> QED
      BY <3>1, <3>2
  <2>5. Vetted'
    <3>1. UNCHANGED <<tool, args_map>>
      BY <2>1 DEF tool, args_map
    <3>2. \A p : Refused(p)' <=> Refused(p)
      BY <3>1 DEF Refused, Splits
    <3>3. \A k : Overridden(k)' <=> Overridden(k)
      BY <3>1 DEF Overridden
    <3> QED
      BY <2>1, <2>3, <2>4, <3>1, <3>2, <3>3 DEF Vetted
  <2>6. Phases' /\ AnswerIsReal' /\ ReplyIsOwed'
    BY <1>0, <2>1, <2>2 DEF Phases, AnswerIsReal, ReplyIsOwed, NoAnswer
  <2> QED
    BY <1>0, <2>5, <2>6 DEF Inv
<1>6. CASE Running
  <2>1. /\ UNCHANGED <<request, pc, todo, tool_args, limits, outcome, reply>>
        /\ limits # <<>>
        /\ pc = "execute" \/ UNCHANGED answer
        /\ drained => drained'
        /\ life = "dead" => life' = "dead" /\ status' = status
        /\ answer # NoAnswer => answer' = answer
        /\ answer' # answer /\ answer'.kind = "ok" =>
             /\ drained'
             /\ answer'.stopped => limits["stop_after"] > 0
             /\ answer'.code = 0 /\ ~answer'.stopped => life' = "dead" /\ status' = Exited(0)
    BY <1>0, <1>6, RunningStep DEF building
  <2>2. Phases'
    BY <1>0, <2>1 DEF Phases
  <2>3. Vetted'
    BY <1>0, <2>1 DEF Vetted, tool, args_map, Refused, Splits, Overridden, ListedIn
  <2>4. AnswerIsReal'
    BY <1>0, <2>1 DEF AnswerIsReal
  <2>5. ReplyIsOwed'
    BY <1>0, <2>1 DEF ReplyIsOwed, is_error
  <2> QED
    BY <1>0, <2>2, <2>3, <2>4, <2>5 DEF Inv
<1>7. CASE Record \/ CallDropped
  <2>1. /\ UNCHANGED <<request, todo, limits, reply, life, status, drained, answer>>
        /\ pc = "execute"
        /\ \/ /\ pc' = "reply" /\ answer # NoAnswer
              /\ outcome' = execution_outcome(answer)
           \/ pc' = "dropped" /\ outcome' = outcome
    BY <1>7 DEF Record, CallDropped, building, execution
  <2>2. Phases'
    BY <1>0, <2>1 DEF Phases, execution_outcome
  <2>3. Vetted'
    BY <1>0, <2>1 DEF Vetted, tool, args_map, Refused, Splits, Overridden, ListedIn
  <2>4. AnswerIsReal' /\ ReplyIsOwed'
    BY <1>0, <2>1 DEF AnswerIsReal, ReplyIsOwed
  <2> QED
    BY <1>0, <2>2, <2>3, <2>4 DEF Inv
<1>8. CASE ReplyError \/ ReplyJson \/ ReplyText
  <2>1. /\ UNCHANGED <<request, todo, limits, outcome, life, status, drained, answer>>
        /\ pc = "reply" /\ pc' = "done"
        /\ \/ /\ answer.kind # "ok"
              /\ reply' = [kind |-> "tool_error", is_error |-> TRUE]
           \/ /\ answer.kind = "ok" /\ ~is_error
              /\ reply' = [kind |-> "json", is_error |-> FALSE]
           \/ /\ answer.kind = "ok"
              /\ reply' = [kind |-> "text", is_error |-> is_error]
    BY <1>8 DEF ReplyError, ReplyJson, ReplyText, ToolError, Answered, building, execution
  <2>2. Phases'
    BY <1>0, <2>1 DEF Phases, execution_outcome
  <2>3. Vetted'
    BY <1>0, <2>1 DEF Vetted, tool, args_map, Refused, Splits, Overridden, ListedIn
  <2>4. AnswerIsReal'
    BY <1>0, <2>1 DEF AnswerIsReal
  <2>5. ReplyIsOwed'
    <3>1. limits' # <<>> /\ (is_error' <=> is_error)
      BY <1>0, <2>1 DEF Phases, is_error
    <3> QED
      BY <2>1, <3>1 DEF ReplyIsOwed
  <2> QED
    BY <1>0, <2>2, <2>3, <2>4, <2>5 DEF Inv
<1> QED
  BY <1>1, <1>2, <1>3, <1>4, <1>5, <1>6, <1>7, <1>8 DEF Next, Over

\* The invariant holds throughout every call.
THEOREM Invariance == Spec => []Inv
  BY InitStarted, InvInit, InvStep, PTL DEF Spec

\* No call starts a process with a required parameter missing, an unclosed quote, or an
\* override above the configured MAX, whatever its arguments are.  Of a configured
\* default nothing is said: it may be above the MAX.
THEOREM RunsChecked == Spec => []NothingRunsUnchecked
<1>1. Inv => NothingRunsUnchecked
  <2> SUFFICES ASSUME Inv, life # "none" PROVE NothingRunsUnchecked
    BY DEF NothingRunsUnchecked
  <2>1. limits # <<>> /\ Vetted /\ IsRequest(request)
    BY DEF Inv, Phases, Typed
  <2>2. ASSUME NEW p \in DOMAIN tool.parameters
        PROVE  /\ tool.parameters[p].required => p \in DOMAIN args_map
               /\ p \in DOMAIN args_map /\ Splits(p) => args_map[p].words >= 0
    <3>1. ~Refused(p)
      BY <2>1 DEF Vetted
    <3>2. ASSUME p \in DOMAIN args_map, Splits(p) PROVE args_map[p].words >= 0
      <4>1. args_map[p] \in Values
        BY <2>1, <3>2, RequestFits
      <4> QED
        BY <3>1, <3>2, <4>1 DEF Refused, Values
    <3> QED
      BY <3>1, <3>2 DEF Refused
  <2> QED
    BY <2>1, <2>2 DEF Vetted, NothingRunsUnchecked
<1> QED
  BY <1>1, Invariance, PTL

\* A reply without is_error is about a command that ended well, or was stopped as asked,
\* and whose output was read.
THEOREM SuccessReal == Spec => []SuccessIsReal
<1>1. Inv => SuccessIsReal
  <2> SUFFICES ASSUME Inv, reply.kind \in {"text", "json"} PROVE SuccessIsReal
    BY DEF SuccessIsReal
  <2>1. /\ limits # <<>> /\ answer.kind = "ok" /\ (reply.is_error <=> is_error)
        /\ reply.kind = "json" => ~is_error
    BY DEF Inv, ReplyIsOwed, NoReply
  <2> QED
    BY <2>1 DEF Inv, AnswerIsReal, SuccessIsReal, is_error
<1> QED
  BY <1>1, Invariance, PTL

\* Metric and reply of an answered call agree, and a call that ran nothing records none.
THEOREM RecordTrue == Spec => []RecordAgrees
<1>1. Inv => RecordAgrees
  <2> SUFFICES ASSUME Inv PROVE RecordAgrees
    OBVIOUS
  <2>1. outcome # "none" => answer # NoAnswer
    BY DEF Inv, Phases, Typed, TypeOK
  <2>2. ASSUME pc \in {"reply", "done"}, limits # <<>>
        PROVE  /\ outcome # "none"
               /\ reply # NoReply =>
                    /\ (outcome \in {"ok", "stopped_after"}) <=> ~reply.is_error
                    /\ (outcome \in {"timeout", "command_not_found", "error"})
                          <=> reply.kind = "tool_error"
    <3>1. answer \in Answers \ {NoAnswer} /\ outcome = execution_outcome(answer)
      BY <2>2 DEF Inv, Phases, Typed, TypeOK
    <3>2. outcome = IF answer.kind = "ok"
                    THEN IF answer.stopped THEN "stopped_after"
                         ELSE IF answer.code = 0 THEN "ok" ELSE "nonzero_exit"
                    ELSE IF answer.kind = "timeout" THEN "timeout"
                    ELSE IF answer.kind = "not_found" THEN "command_not_found" ELSE "error"
      BY <3>1, OutcomeOf
    <3>3. reply # NoReply =>
            \/ answer.kind = "ok" /\ reply.kind # "tool_error" /\ (reply.is_error <=> is_error)
            \/ answer.kind # "ok" /\ reply.kind = "tool_error" /\ reply.is_error
      BY <2>2 DEF Inv, ReplyIsOwed
    <3> QED
      BY <3>2, <3>3 DEF is_error
  <2> QED
    BY <2>1, <2>2 DEF RecordAgrees
<1> QED
  BY <1>1, Invariance, PTL

-----------------------------------------------------------------------------
(* The order of the arguments *)

\* No parameter is listed twice.
Once == \A p \in DOMAIN tool.parameters : Times(p) = 1

\* A parameter that arg_order lists has the rank of its place there ...
LEMMA RankOfListed ==
    ASSUME IsRequest(request), Once, NEW i \in 1 .. Len(tool.arg_order)
    PROVE  Rank(tool.arg_order[i]) = i
<1> DEFINE p == tool.arg_order[i]
           P == {j \in 1 .. Len(tool.arg_order) : tool.arg_order[j] = p}
<1>0. Len(tool.arg_order) \in Nat /\ i \in P
  BY RequestFits, LenProperties
<1>1. p \in DOMAIN tool.parameters /\ ListedIn(p, tool.arg_order)
  BY RequestFits, ElementOfSeq DEF ListedIn
<1>2. Cardinality(P) = 1
  BY <1>1 DEF Once, Times
<1>3. IsFiniteSet(P)
  <2>1. IsFiniteSet(1 .. Len(tool.arg_order))
    BY <1>0, FS_Interval
  <2>2. P \in SUBSET (1 .. Len(tool.arg_order))
    OBVIOUS
  <2> QED
    BY <2>1, <2>2, FS_Subset, Zenon
<1> HIDE DEF P
<1>4. P = {i}
  <2>1. PICK j : P = {j}
    BY <1>2, <1>3, FS_Singleton
  <2> QED
    BY <1>0, <2>1
<1>5. \A j \in 1 .. Len(tool.arg_order) : tool.arg_order[j] = p => j = i
  BY <1>4 DEF P
<1>6. (CHOOSE j \in 1 .. Len(tool.arg_order) : tool.arg_order[j] = p) = i
  BY <1>5
<1> QED
  BY <1>1, <1>6 DEF Rank

\* ... and one that it does not, that of its name after all of them.
LEMMA RankOfUnlisted ==
    ASSUME NEW a \in 1 .. Len(NameOrder), NameOrder[a] \in Unlisted
    PROVE  Rank(NameOrder[a]) = Len(tool.arg_order) + a
<1>1. \A i \in 1 .. Len(NameOrder) : NameOrder[i] = NameOrder[a] => i = a
  BY ToolCallAssumption
<1>2. (CHOOSE i \in 1 .. Len(NameOrder) : NameOrder[i] = NameOrder[a]) = a
  BY <1>1
<1> QED
  BY <1>2 DEF Rank, Unlisted

\* The ranks rise over all that is to be emitted.
LEMMA RanksRise ==
    ASSUME IsRequest(request), Once,
           NEW i \in 1 .. Len(tool.arg_order \o Remaining),
           NEW j \in 1 .. Len(tool.arg_order \o Remaining), i < j
    PROVE  Rank((tool.arg_order \o Remaining)[i]) < Rank((tool.arg_order \o Remaining)[j])
<1> DEFINE all == tool.arg_order \o Remaining
           n   == Len(tool.arg_order)
<1>1. /\ tool.arg_order \in Seq(Names) /\ Remaining \in Seq(Names)
      /\ n \in Nat /\ Len(Remaining) \in Nat
  BY RequestFits, RemainingIs, LenProperties
<1>2. /\ Len(all) = n + Len(Remaining)
      /\ \A k \in 1 .. n : all[k] = tool.arg_order[k]
      /\ \A k \in 1 .. Len(Remaining) : all[n + k] = Remaining[k]
  BY <1>1, ConcatProperties
<1>3. i \in 1 .. Len(all) /\ j \in 1 .. Len(all)
  OBVIOUS
<1> HIDE DEF all, n
<1>4. \A k \in 1 .. Len(all) : k \in 1 .. n \/ (k - n \in 1 .. Len(Remaining) /\ n + (k - n) = k)
  BY <1>1, <1>2
<1>5. ASSUME NEW k \in 1 .. n PROVE Rank(all[k]) = k
  BY <1>2, RankOfListed DEF n
<1>6. ASSUME NEW k \in 1 .. Len(all), k \notin 1 .. n
      PROVE  \E a \in 1 .. Len(NameOrder) :
               Remaining[k - n] = NameOrder[a] /\ Rank(all[k]) = n + a
  <2>1. k - n \in 1 .. Len(Remaining) /\ all[k] = Remaining[k - n]
    BY <1>2, <1>4, <1>6
  <2>2. Remaining[k - n] \in Unlisted /\ Remaining[k - n] \in Names
    BY <1>1, <2>1, RemainingIs, ElementOfSeq
  <2>3. PICK a \in 1 .. Len(NameOrder) : Remaining[k - n] = NameOrder[a]
    BY <2>2 DEF Names
  <2> QED
    BY <2>1, <2>2, <2>3, RankOfUnlisted DEF n
<1>7. Len(NameOrder) \in Nat
  BY ToolCallAssumption, LenProperties
<1>8. CASE i \in 1 .. n /\ j \in 1 .. n
  <2>1. Rank(all[i]) = i /\ Rank(all[j]) = j
    BY <1>5, <1>8
  <2> QED
    BY <2>1 DEF all
<1>9. CASE i \in 1 .. n /\ j \notin 1 .. n
  <2>1. PICK a \in 1 .. Len(NameOrder) : Rank(all[j]) = n + a
    BY <1>3, <1>6, <1>9
  <2>2. Rank(all[i]) = i
    BY <1>5, <1>9
  <2>3. i < n + a
    BY <1>1, <1>7, <1>9
  <2> QED
    BY <2>1, <2>2, <2>3 DEF all
<1>10. CASE i \notin 1 .. n /\ j \notin 1 .. n
  <2>1. PICK a \in 1 .. Len(NameOrder) : Remaining[i - n] = NameOrder[a] /\ Rank(all[i]) = n + a
    BY <1>3, <1>6, <1>10
  <2>2. PICK b \in 1 .. Len(NameOrder) : Remaining[j - n] = NameOrder[b] /\ Rank(all[j]) = n + b
    BY <1>3, <1>6, <1>10
  <2>3. i - n \in 1 .. Len(Remaining) /\ j - n \in 1 .. Len(Remaining) /\ i - n < j - n
    BY <1>1, <1>3, <1>4, <1>10
  <2>4. a < b
    BY <2>1, <2>2, <2>3, RemainingIs
  <2>5. n + a < n + b
    BY <1>1, <1>7, <2>4
  <2> QED
    BY <2>1, <2>2, <2>5 DEF all
<1>11. ~(i \notin 1 .. n /\ j \in 1 .. n)
  BY <1>1, <1>3
<1> QED
  BY <1>8, <1>9, <1>10, <1>11 DEF all

\* What one parameter puts into the argument vector is its own, words in their order.
LEMMA EmittedInOrder ==
    ASSUME IsRequest(request), NEW p, ~Refused(p)
    PROVE  /\ \A i \in 1 .. Len(Emitted(p)) : Emitted(p)[i].param = p
           /\ \A i, j \in 1 .. Len(Emitted(p)) :
                i < j /\ Emitted(p)[i].part = "word" => Emitted(p)[i].place < Emitted(p)[j].place
<1>1. CASE p \in DOMAIN args_map /\ Splits(p)
  <2>1. args_map[p].words \in Nat
    <3>1. args_map[p] \in Values
      BY <1>1, RequestFits
    <3> QED
      BY <1>1, <3>1 DEF Values, Refused
  <2>2. Emitted(p) = [i \in 1 .. args_map[p].words |-> Word(p, i)]
    BY <1>1 DEF Emitted
  <2>3. Len(Emitted(p)) = args_map[p].words /\ \A i \in 1 .. Len(Emitted(p)) : Emitted(p)[i] = Word(p, i)
    BY <2>1, <2>2
  <2>4. \A i \in 1 .. Len(Emitted(p)) : Emitted(p)[i].param = p /\ Emitted(p)[i].place = i
    <3>1. \A i : Word(p, i).param = p /\ Word(p, i).place = i
      BY DEF Word
    <3> QED
      BY <2>3, <3>1, Zenon
  <2> HIDE DEF Emitted
  <2> QED
    BY <2>4
<1>2. CASE ~(p \in DOMAIN args_map /\ Splits(p))
  <2>1. Emitted(p) \in {<<>>, <<Value(p)>>, <<Flag(p), Value(p)>>, <<Flag(p)>>}
    BY <1>2 DEF Emitted
  <2> HIDE DEF Emitted
  <2> QED
    BY <2>1 DEF Value, Flag
<1> QED
  BY <1>1, <1>2

\* The arguments so far are in order, what is still to come comes after them, and is in
\* order itself.
InOrder ==
    /\ pc = "start" => tool_args = <<>>
    /\ Once =>
         /\ \A i, j \in 1 .. Len(tool_args) : i < j =>
              \/ Rank(tool_args[i].param) < Rank(tool_args[j].param)
              \/ /\ tool_args[i].param = tool_args[j].param
                 /\ tool_args[i].part = "word" => tool_args[i].place < tool_args[j].place
         /\ pc = "emit" =>
              /\ \A i \in 1 .. Len(tool_args) : \A j \in 1 .. Len(todo) :
                    Rank(tool_args[i].param) < Rank(todo[j])
              /\ \A i, j \in 1 .. Len(todo) : i < j => Rank(todo[i]) < Rank(todo[j])

LEMMA InOrderInit == Started => InOrder
<1> SUFFICES ASSUME Started PROVE InOrder
  OBVIOUS
<1>1. tool_args = <<>> /\ Len(tool_args) = 0 /\ pc = "start"
  BY DEF Started
<1> QED
  BY <1>1 DEF InOrder

\* Emitting the next parameter keeps the order.
LEMMA EmitKeepsOrder ==
    ASSUME Typed, InOrder, Once, EmitParam
    PROVE  /\ \A i, j \in 1 .. Len(tool_args') : i < j =>
                \/ Rank(tool_args'[i].param) < Rank(tool_args'[j].param)
                \/ /\ tool_args'[i].param = tool_args'[j].param
                   /\ tool_args'[i].part = "word" => tool_args'[i].place < tool_args'[j].place
           /\ \A i \in 1 .. Len(tool_args') : \A j \in 1 .. Len(todo') :
                Rank(tool_args'[i].param) < Rank(todo'[j])
           /\ \A i, j \in 1 .. Len(todo') : i < j => Rank(todo'[i]) < Rank(todo'[j])
<1> DEFINE p == Head(todo)
           e == Emitted(p)
           n == Len(tool_args)
<1>1. /\ pc = "emit" /\ todo # <<>> /\ ~Refused(p) /\ tool_args' = tool_args \o e
      /\ todo' = Tail(todo) /\ IsRequest(request)
      /\ todo \in Seq(Names) /\ tool_args \in Seq(Elements)
  BY DEF EmitParam, Typed, TypeOK
<1>2. /\ e \in Seq(Elements)
      /\ \A i \in 1 .. Len(e) : e[i].param = p
      /\ \A i, j \in 1 .. Len(e) : i < j /\ e[i].part = "word" => e[i].place < e[j].place
  BY <1>1, EmittedTyped, EmittedInOrder
<1> HIDE DEF e
<1>3. /\ n \in Nat /\ Len(e) \in Nat /\ Len(tool_args') = n + Len(e)
      /\ \A i \in 1 .. n : tool_args'[i] = tool_args[i]
      /\ \A i \in 1 .. Len(e) : tool_args'[n + i] = e[i]
  BY <1>1, <1>2, ConcatProperties, LenProperties
<1>4. /\ Len(todo) \in Nat \ {0} /\ Len(todo') = Len(todo) - 1 /\ p = todo[1]
      /\ \A j \in 1 .. Len(todo') : todo'[j] = todo[j + 1]
  BY <1>1, HeadTailProperties, LenProperties, EmptySeq
<1>5. /\ \A i \in 1 .. n : Rank(tool_args[i].param) < Rank(p)
      /\ \A i \in 1 .. n : \A j \in 1 .. Len(todo) : Rank(tool_args[i].param) < Rank(todo[j])
      /\ \A i, j \in 1 .. Len(todo) : i < j => Rank(todo[i]) < Rank(todo[j])
  BY <1>1, <1>4 DEF InOrder
<1> HIDE DEF p, n
<1>6. ASSUME NEW i \in 1 .. Len(tool_args'), i \notin 1 .. n
      PROVE  /\ i - n \in 1 .. Len(e) /\ tool_args'[i] = e[i - n]
             /\ tool_args'[i].param = p
  <2>1. i - n \in 1 .. Len(e) /\ n + (i - n) = i
    BY <1>3, <1>6
  <2> QED
    BY <1>2, <1>3, <2>1
<1>7. \A j \in 1 .. Len(todo') : Rank(p) < Rank(todo'[j])
  <2> TAKE j \in 1 .. Len(todo')
  <2>1. j + 1 \in 1 .. Len(todo) /\ 1 \in 1 .. Len(todo) /\ 1 < j + 1
    BY <1>4
  <2> QED
    BY <1>4, <1>5, <2>1
<1>8. ASSUME NEW i \in 1 .. Len(tool_args'), NEW j \in 1 .. Len(tool_args'), i < j
      PROVE  \/ Rank(tool_args'[i].param) < Rank(tool_args'[j].param)
             \/ /\ tool_args'[i].param = tool_args'[j].param
                /\ tool_args'[i].part = "word" => tool_args'[i].place < tool_args'[j].place
  <2>1. CASE j \in 1 .. n
    <3>1. i \in 1 .. n /\ tool_args'[i] = tool_args[i] /\ tool_args'[j] = tool_args[j]
      BY <1>3, <1>8, <2>1
    <3> QED
      BY <1>8, <2>1, <3>1 DEF InOrder, n
  <2>2. CASE i \in 1 .. n /\ j \notin 1 .. n
    BY <1>3, <1>5, <1>6, <2>2
  <2>3. CASE i \notin 1 .. n /\ j \notin 1 .. n
    <3>1. i - n < j - n
      BY <1>3, <1>8
    <3> QED
      BY <1>2, <1>6, <2>3, <3>1
  <2> QED
    BY <1>3, <1>8, <2>1, <2>2, <2>3
<1>9. ASSUME NEW i \in 1 .. Len(tool_args'), NEW j \in 1 .. Len(todo')
      PROVE  Rank(tool_args'[i].param) < Rank(todo'[j])
  <2>1. CASE i \in 1 .. n
    <3>1. j + 1 \in 1 .. Len(todo)
      BY <1>4
    <3> QED
      BY <1>3, <1>4, <1>5, <2>1, <3>1
  <2>2. CASE i \notin 1 .. n
    BY <1>6, <1>7, <2>2
  <2> QED
    BY <2>1, <2>2
<1>10. ASSUME NEW i \in 1 .. Len(todo'), NEW j \in 1 .. Len(todo'), i < j
       PROVE  Rank(todo'[i]) < Rank(todo'[j])
  <2>1. i + 1 \in 1 .. Len(todo) /\ j + 1 \in 1 .. Len(todo) /\ i + 1 < j + 1
    BY <1>4, <1>10
  <2> QED
    BY <1>4, <1>5, <2>1
<1> QED
  BY <1>8, <1>9, <1>10

LEMMA InOrderStep == Typed /\ InOrder /\ [Next]_vars => InOrder'
<1> SUFFICES ASSUME Typed, InOrder, [Next]_vars PROVE InOrder'
  OBVIOUS
<1>1. CASE EmitParam
  <2>1. UNCHANGED <<tool, pc>> /\ pc = "emit"
    BY <1>1 DEF EmitParam, tool
  <2>2. (Once' <=> Once) /\ \A p : Rank(p)' = Rank(p)
    BY <2>1 DEF Once, Times, Rank, ListedIn
  <2> QED
    BY <1>1, <2>1, <2>2, EmitKeepsOrder DEF InOrder
<1>2. CASE Begin
  <2>1. /\ UNCHANGED <<tool, tool_args>> /\ pc = "start" /\ pc' = "emit"
        /\ todo' = tool.arg_order \o Remaining /\ tool_args' = <<>>
        /\ IsRequest(request)
    BY <1>2 DEF Begin, tool, InOrder, Typed
  <2>2. (Once' <=> Once) /\ \A p : Rank(p)' = Rank(p)
    BY <2>1 DEF Once, Times, Rank, ListedIn
  <2>3. Len(tool_args') = 0
    BY <2>1
  <2>4. Once => \A i, j \in 1 .. Len(todo') : i < j => Rank(todo'[i]) < Rank(todo'[j])
    BY <2>1, RanksRise
  <2> QED
    BY <2>1, <2>2, <2>3, <2>4 DEF InOrder
<1>3. CASE ~EmitParam /\ ~Begin
  <2>1. /\ UNCHANGED <<tool, tool_args, todo>>
        /\ pc' = "start" => pc = "start"
        /\ pc' = "emit" => pc = "emit"
    BY <1>3
       DEF Next, vars, building, tool, UnknownTool, NotAnObject, RefuseParam,
           RefuseOverride, InvalidParams, ToolError, Answered, Execute, Running, Record,
           ReplyError, ReplyJson, ReplyText, CallDropped, Over
  <2>2. (Once' <=> Once) /\ \A p : Rank(p)' = Rank(p)
    BY <2>1 DEF Once, Times, Rank, ListedIn
  <2> QED
    BY <2>1, <2>2 DEF InOrder
<1> QED
  BY <1>1, <1>2, <1>3

\* The arguments of every command are in the configured order, then that of the names,
\* and the words of a value in theirs.
THEOREM ArgumentsInOrder == Spec => []ArgvInOrder
<1>1. InOrder => ArgvInOrder
  BY DEF InOrder, Once, ArgvInOrder
<1> QED
  BY <1>1, InitStarted, TypedInit, TypedStep, InOrderInit, InOrderStep, PTL DEF Spec


-----------------------------------------------------------------------------
(* The number of the arguments *)

\* The elements of the argument vector that are a part of a parameter, and how many of
\* them emit_param pushes for it at a time.
Of(p, part)  == {e \in Elements : e.param = p /\ e.part = part}
Per(p, part) == Tally(Emitted(p), Of(p, part))

\* What is to be emitted lists a parameter as often as it should.
LEMMA TimesOfAll ==
    ASSUME IsRequest(request), NEW p \in DOMAIN tool.parameters
    PROVE  Tally(tool.arg_order \o Remaining, {p}) = Times(p) /\ Times(p) \in Nat
<1>1. /\ tool.arg_order \in Seq(Names) /\ Remaining \in Seq(Names) /\ p \in Names
      /\ Len(tool.arg_order) \in Nat /\ Len(Remaining) \in Nat
  BY RequestFits, RemainingIs, LenProperties
<1>2. Tally(tool.arg_order \o Remaining, {p})
        = Tally(tool.arg_order, {p}) + Tally(Remaining, {p})
  BY <1>1, TallyConcat
<1>3. Tally(tool.arg_order, {p}) \in Nat /\ Tally(Remaining, {p}) \in Nat
  BY <1>1, HitsFinite
<1>4. CASE ListedIn(p, tool.arg_order)
  <2>1. Tally(Remaining, {p}) = 0
    <3>1. \A i \in 1 .. Len(Remaining) : Remaining[i] \notin {p}
      BY <1>4, RemainingIs DEF Unlisted
    <3> QED
      BY <3>1, TallyNone
  <2>2. Times(p) = Tally(tool.arg_order, {p})
    <3>1. {i \in 1 .. Len(tool.arg_order) : tool.arg_order[i] = p} = Hits(tool.arg_order, {p})
      BY DEF Hits
    <3> QED
      BY <1>4, <3>1 DEF Times, Tally
  <2> QED
    BY <1>2, <1>3, <2>1, <2>2
<1>5. CASE ~ListedIn(p, tool.arg_order)
  <2>1. Tally(tool.arg_order, {p}) = 0
    <3>1. \A i \in 1 .. Len(tool.arg_order) : tool.arg_order[i] \notin {p}
      BY <1>5 DEF ListedIn
    <3> QED
      BY <3>1, TallyNone
  <2>2. Tally(Remaining, {p}) = 1
    <3>1. PICK k \in 1 .. Len(Remaining) : Remaining[k] = p
      BY <1>1, <1>5, RemainingIs DEF Unlisted, ListedIn
    <3>2. PICK a \in 1 .. Len(NameOrder) : p = NameOrder[a]
      BY <1>1 DEF Names
    <3>3. Len(NameOrder) \in Nat
      BY ToolCallAssumption, LenProperties
    <3>4. ASSUME NEW i \in 1 .. Len(Remaining), Remaining[i] = p PROVE i = k
      <4>1. i < k => a < a
        BY <3>1, <3>2, <3>4, RemainingIs
      <4>2. k < i => a < a
        BY <3>1, <3>2, <3>4, RemainingIs
      <4> QED
        BY <1>1, <3>3, <4>1, <4>2
    <3>5. \A i \in 1 .. Len(Remaining) : Remaining[i] \in {p} <=> i = k
      BY <3>1, <3>4
    <3> QED
      <4> HIDE DEF Unlisted
      <4>1. Hits(Remaining, {p}) = {k}
        BY <3>1, <3>5 DEF Hits
      <4> QED
        BY <4>1, FS_Singleton DEF Tally
  <2>3. Times(p) = 1
    BY <1>5 DEF Times
  <2> QED
    BY <1>2, <2>1, <2>2, <2>3
<1> QED
  BY <1>4, <1>5

\* What emit_param pushes for a parameter, by the kind of the parameter.
LEMMA PerIs ==
    ASSUME IsRequest(request), NEW p \in DOMAIN tool.parameters, ~Refused(p)
    PROVE  LET q == tool.parameters[p]
               given == p \in DOMAIN args_map
           IN /\ Per(p, "flag") = IF given /\ q.flag /\ (q.takes_value \/ truthy(args_map[p]))
                                  THEN 1 ELSE 0
              /\ Per(p, "value") = IF given /\ (q.takes_value \/ ~(q.flag \/ Splits(p)))
                                   THEN 1 ELSE 0
              /\ Per(p, "word") = IF given /\ Splits(p) THEN args_map[p].words ELSE 0
              /\ given /\ Splits(p) => args_map[p].words \in Nat
              /\ q.takes_value => Hits(Emitted(p), Of(p, "value"))
                                   = {i + 1 : i \in Hits(Emitted(p), Of(p, "flag"))}
<1> DEFINE q == tool.parameters[p]
           given == p \in DOMAIN args_map
<1>1. q.takes_value => q.flag
  <2>1. IsTool(tool)
    BY RequestFits
  <2> QED
    BY <2>1, Zenon DEF IsTool
<1>2. /\ \A part : Value(p) \in Of(p, part) <=> part = "value"
      /\ \A part : Flag(p) \in Of(p, part) <=> part = "flag"
  BY DEF Value, Flag, Of, Elements
<1>3. CASE given /\ Splits(p)
  <2>1. args_map[p].words \in Nat
    <3>1. args_map[p] \in Values
      BY <1>3, RequestFits
    <3> QED
      BY <1>3, <3>1 DEF Values, Refused
  <2>2. Emitted(p) = [i \in 1 .. args_map[p].words |-> Word(p, i)]
    BY <1>3 DEF Emitted
  <2>3. /\ Len(Emitted(p)) = args_map[p].words
        /\ \A i \in 1 .. Len(Emitted(p)) : Emitted(p)[i] = Word(p, i) /\ i \in Nat
    BY <2>1, <2>2
  <2> HIDE DEF Emitted
  <2>4. \A i \in Nat : \A part : Word(p, i) \in Of(p, part) <=> part = "word"
    BY DEF Word, Of, Elements
  <2>5. \A i \in 1 .. Len(Emitted(p)) : \A part : Emitted(p)[i] \in Of(p, part) <=> part = "word"
    BY <2>3, <2>4, Zenon
  <2>6. Per(p, "flag") = 0 /\ Per(p, "value") = 0
    BY <2>5, TallyNone DEF Per
  <2>7. Per(p, "word") = args_map[p].words
    <3>1. Hits(Emitted(p), Of(p, "word")) = 1 .. args_map[p].words
      BY <2>3, <2>5 DEF Hits
    <3> QED
      BY <2>1, <3>1, FS_Interval DEF Per, Tally
  <2>8. ~q.flag
    BY <1>3 DEF Splits
  <2> QED
    BY <1>1, <1>3, <2>1, <2>6, <2>7, <2>8
<1>4. CASE ~(given /\ Splits(p))
  <2> DEFINE Nothing == Per(p, "flag") = 0 /\ Per(p, "value") = 0 /\ Per(p, "word") = 0
  <2>1. CASE ~given \/ (q.flag /\ ~q.takes_value /\ ~truthy(args_map[p]))
    <3>1. Emitted(p) = <<>>
      BY <1>4, <2>1 DEF Emitted
    <3>2. \A part : Hits(Emitted(p), Of(p, part)) = {} /\ Per(p, part) = 0
      BY <3>1, TallyNone DEF Per
    <3> QED
      BY <1>4, <2>1, <3>2
  <2>2. CASE given /\ ~q.flag
    <3>1. Emitted(p) = <<Value(p)>>
      BY <1>4, <2>2 DEF Emitted
    <3>2. Len(Emitted(p)) = 1 /\ Emitted(p)[1] = Value(p)
      BY <3>1
    <3> HIDE DEF Emitted
    <3>3. \A i \in 1 .. Len(Emitted(p)) : i = 1 /\ Emitted(p)[i] = Value(p)
      BY <3>2
    <3>4. Per(p, "flag") = 0 /\ Per(p, "word") = 0
      BY <1>2, <3>3, TallyNone DEF Per
    <3>5. Per(p, "value") = 1
      <4>1. /\ 1 \in 1 .. Len(Emitted(p))
            /\ \A i \in 1 .. Len(Emitted(p)) : Emitted(p)[i] \in Of(p, "value") <=> i = 1
        BY <1>2, <3>2, <3>3
      <4> QED
        BY <4>1, TallyOne DEF Per
    <3> QED
      BY <1>1, <1>4, <2>2, <3>4, <3>5
  <2>3. CASE given /\ q.flag /\ ~q.takes_value /\ truthy(args_map[p])
    <3>1. Emitted(p) = <<Flag(p)>>
      BY <1>4, <2>3 DEF Emitted
    <3>2. Len(Emitted(p)) = 1 /\ Emitted(p)[1] = Flag(p)
      BY <3>1
    <3> HIDE DEF Emitted
    <3>3. \A i \in 1 .. Len(Emitted(p)) : i = 1 /\ Emitted(p)[i] = Flag(p)
      BY <3>2
    <3>4. Per(p, "value") = 0 /\ Per(p, "word") = 0
      BY <1>2, <3>3, TallyNone DEF Per
    <3>5. Per(p, "flag") = 1
      <4>1. /\ 1 \in 1 .. Len(Emitted(p))
            /\ \A i \in 1 .. Len(Emitted(p)) : Emitted(p)[i] \in Of(p, "flag") <=> i = 1
        BY <1>2, <3>2, <3>3
      <4> QED
        BY <4>1, TallyOne DEF Per
    <3> QED
      BY <1>4, <2>3, <3>4, <3>5
  <2>4. CASE given /\ q.flag /\ q.takes_value
    <3>1. Emitted(p) = <<Flag(p), Value(p)>>
      BY <1>4, <2>4 DEF Emitted
    <3>2. Len(Emitted(p)) = 2 /\ Emitted(p)[1] = Flag(p) /\ Emitted(p)[2] = Value(p)
      BY <3>1
    <3> HIDE DEF Emitted
    <3>3. \A i \in 1 .. Len(Emitted(p)) : /\ i = 1 \/ i = 2
                                          /\ i = 1 => Emitted(p)[i] = Flag(p)
                                          /\ i = 2 => Emitted(p)[i] = Value(p)
      BY <3>2
    <3>4. Per(p, "word") = 0
      BY <1>2, <3>3, TallyNone DEF Per
    <3>5. Hits(Emitted(p), Of(p, "flag")) = {1} /\ Per(p, "flag") = 1
      <4>1. /\ 1 \in 1 .. Len(Emitted(p))
            /\ \A i \in 1 .. Len(Emitted(p)) : Emitted(p)[i] \in Of(p, "flag") <=> i = 1
        BY <1>2, <3>2, <3>3
      <4> QED
        BY <4>1, TallyOne DEF Per
    <3>6. Hits(Emitted(p), Of(p, "value")) = {2} /\ Per(p, "value") = 1
      <4>1. /\ 2 \in 1 .. Len(Emitted(p))
            /\ \A i \in 1 .. Len(Emitted(p)) : Emitted(p)[i] \in Of(p, "value") <=> i = 2
        BY <1>2, <3>2, <3>3
      <4> QED
        BY <4>1, TallyOne DEF Per
    <3> QED
      BY <1>4, <2>4, <3>4, <3>5, <3>6
  <2> QED
    BY <2>1, <2>2, <2>3, <2>4
<1> QED
  BY <1>3, <1>4

\* A parameter puts nothing of another one into the argument vector.
LEMMA OthersNone ==
    ASSUME IsRequest(request), NEW r, ~Refused(r), NEW p, p # r, NEW part
    PROVE  /\ Hits(Emitted(r), Of(p, part)) = {}
           /\ Tally(Emitted(r), Of(p, part)) = 0
<1>1. \A i \in 1 .. Len(Emitted(r)) : Emitted(r)[i] \notin Of(p, part)
  BY EmittedInOrder DEF Of
<1> QED
  BY <1>1, TallyNone

Parts == {"flag", "value", "word"}

\* Of a parameter that is not refused there is as much in the argument vector, and still
\* to come, as there should be in the end; a value stands where its flag wants it.
Counted ==
    /\ pc = "start" => tool_args = <<>>
    /\ limits # <<>> => todo = <<>>
    /\ pc = "emit" \/ limits # <<>> =>
         \A p \in DOMAIN tool.parameters : \A part \in Parts : ~Refused(p) =>
            Tally(tool_args, Of(p, part)) + Tally(todo, {p}) * Per(p, part)
              = Times(p) * Per(p, part)
    /\ \A p \in DOMAIN tool.parameters : tool.parameters[p].takes_value =>
         Hits(tool_args, Of(p, "value")) = {i + 1 : i \in Hits(tool_args, Of(p, "flag"))}

\* What only the request decides.
LEMMA OfTheRequest ==
    ASSUME UNCHANGED request
    PROVE  /\ UNCHANGED <<tool, args_map, Elements, Remaining>>
           /\ \A p : (Refused(p)' <=> Refused(p)) /\ Times(p)' = Times(p)
           /\ \A p, part : Of(p, part)' = Of(p, part) /\ Per(p, part)' = Per(p, part)
<1>1. UNCHANGED <<tool, args_map>>
  BY DEF tool, args_map
<1>2. UNCHANGED <<Elements, Remaining>>
  BY <1>1 DEF Elements, Remaining, Unlisted
<1>3. \A p : (Refused(p)' <=> Refused(p)) /\ Times(p)' = Times(p)
  BY <1>1 DEF Refused, Splits, Times, ListedIn
<1>4. \A p, part : Of(p, part)' = Of(p, part)
  BY <1>2 DEF Of
<1>5. \A p : Emitted(p)' = Emitted(p)
  BY <1>1 DEF Emitted, Splits, truthy
<1> QED
  BY <1>1, <1>2, <1>3, <1>4, <1>5 DEF Per

LEMMA CountedInit == Started => Counted
<1> SUFFICES ASSUME Started PROVE Counted
  OBVIOUS
<1>1. tool_args = <<>> /\ limits = <<>> /\ pc = "start"
  BY DEF Started
<1>2. \A T : Hits(tool_args, T) = {}
  BY <1>1, TallyNone
<1> QED
  BY <1>1, <1>2 DEF Counted

\* One more, or one less to come, makes no difference.
LEMMA OneLess ==
    ASSUME NEW have \in Nat, NEW left \in Nat, NEW per \in Nat
    PROVE  (have + per) + left * per = have + (left + 1) * per
  OBVIOUS

\* Emitting the next parameter keeps the count.
LEMMA EmitKeepsCount ==
    ASSUME Typed, Counted, EmitParam,
           NEW p \in DOMAIN tool.parameters, NEW part \in Parts, ~Refused(p)
    PROVE  Tally(tool_args', Of(p, part)) + Tally(todo', {p}) * Per(p, part)
             = Times(p) * Per(p, part)
<1> DEFINE r == Head(todo)
           T == Of(p, part)
<1>1. /\ pc = "emit" /\ todo # <<>> /\ ~Refused(r) /\ tool_args' = tool_args \o Emitted(r)
      /\ todo' = Tail(todo) /\ IsRequest(request)
      /\ todo \in Seq(Names) /\ tool_args \in Seq(Elements)
  BY DEF EmitParam, Typed, TypeOK
<1>2. Tally(tool_args, T) + Tally(todo, {p}) * Per(p, part) = Times(p) * Per(p, part)
  BY <1>1 DEF Counted
<1>3. Tally(tool_args', T) = Tally(tool_args, T) + Tally(Emitted(r), T)
  BY <1>1, EmittedTyped, TallyConcat
<1>4. Tally(todo, {p}) = Tally(todo', {p}) + (IF r \in {p} THEN 1 ELSE 0)
  BY <1>1, TallyTail
<1>5. /\ Tally(tool_args, T) \in Nat /\ Tally(todo', {p}) \in Nat /\ Per(p, part) \in Nat
  <2>1. todo' \in Seq(Names)
    BY <1>1, HeadTailProperties
  <2>2. Emitted(p) \in Seq(Elements)
    BY <1>1, EmittedTyped
  <2> QED
    BY <1>1, <2>1, <2>2, HitsFinite DEF Per
<1> HIDE DEF r, T
<1>6. CASE r = p
  <2>1. Tally(Emitted(r), T) = Per(p, part)
    BY <1>6 DEF Per, T
  <2>2. Tally(tool_args', T) + Tally(todo', {p}) * Per(p, part)
          = Tally(tool_args, T) + (Tally(todo', {p}) + 1) * Per(p, part)
    BY <1>3, <1>5, <2>1, OneLess
  <2>3. Tally(todo, {p}) = Tally(todo', {p}) + 1
    BY <1>4, <1>6
  <2> QED
    BY <1>2, <2>2, <2>3 DEF T
<1>7. CASE r # p
  <2>1. Tally(Emitted(r), T) = 0
    BY <1>1, <1>7, OthersNone DEF T
  <2>2. Tally(tool_args', T) = Tally(tool_args, T) /\ Tally(todo', {p}) = Tally(todo, {p})
    BY <1>3, <1>4, <1>5, <1>7, <2>1
  <2> QED
    BY <1>2, <2>2 DEF T
<1> QED
  BY <1>6, <1>7

\* It keeps values after their flags, too.
LEMMA EmitKeepsPairs ==
    ASSUME Typed, Counted, EmitParam,
           NEW p \in DOMAIN tool.parameters, tool.parameters[p].takes_value
    PROVE  Hits(tool_args', Of(p, "value")) = {i + 1 : i \in Hits(tool_args', Of(p, "flag"))}
<1> DEFINE r == Head(todo)
           V == Hits(tool_args, Of(p, "value"))
           F == Hits(tool_args, Of(p, "flag"))
           v == Hits(Emitted(r), Of(p, "value"))
           f == Hits(Emitted(r), Of(p, "flag"))
           n == Len(tool_args)
<1>1. /\ ~Refused(r) /\ tool_args' = tool_args \o Emitted(r) /\ IsRequest(request)
      /\ tool_args \in Seq(Elements)
  BY DEF EmitParam, Typed
<1>2. Emitted(r) \in Seq(Elements)
  BY <1>1, EmittedTyped
<1>3. /\ Hits(tool_args', Of(p, "value")) = V \cup {n + i : i \in v}
      /\ Hits(tool_args', Of(p, "flag")) = F \cup {n + i : i \in f}
  BY <1>1, <1>2, HitsConcat
<1>4. V = {i + 1 : i \in F}
  BY DEF Counted
<1>5. v = {i + 1 : i \in f}
  <2>1. CASE r = p
    BY <1>1, <2>1, PerIs
  <2>2. CASE r # p
    BY <1>1, <2>2, OthersNone
  <2> QED
    BY <2>1, <2>2
<1>6. n \in Nat /\ f \subseteq Int
  BY <1>1, <1>2, LenProperties DEF Hits
<1> HIDE DEF r, V, F, v, f, n
<1>7. {n + j : j \in v} = {k + 1 : k \in {n + i : i \in f}}
  <2>1. \A i \in f : n + (i + 1) = (n + i) + 1
    BY <1>6
  <2>2. {n + j : j \in v} = {n + (i + 1) : i \in f}
    BY <1>5
  <2>3. {k + 1 : k \in {n + i : i \in f}} = {(n + i) + 1 : i \in f}
    OBVIOUS
  <2> QED
    BY <2>1, <2>2, <2>3
<1> QED
  BY <1>3, <1>4, <1>7

LEMMA CountedStep == Inv /\ Counted /\ [Next]_vars => Counted'
<1> SUFFICES ASSUME Inv, Counted, [Next]_vars PROVE Counted'
  OBVIOUS
<1>0. Typed /\ Phases /\ IsRequest(request)
  BY DEF Inv, Typed
<1>1. CASE EmitParam
  <2>1. UNCHANGED <<request, pc, limits>> /\ pc = "emit" /\ limits = <<>>
    BY <1>0, <1>1 DEF EmitParam, Phases
  <2> QED
    BY <1>0, <1>1, <2>1, OfTheRequest, EmitKeepsCount, EmitKeepsPairs DEF Counted
<1>2. CASE Begin
  <2>1. /\ UNCHANGED <<request, tool_args, limits>> /\ tool_args = <<>> /\ limits = <<>>
        /\ pc' = "emit" /\ todo' = tool.arg_order \o Remaining
    BY <1>0, <1>2 DEF Begin, Counted, Phases
  <2>2. ASSUME NEW p \in DOMAIN tool.parameters, NEW part \in Parts, ~Refused(p)
        PROVE  Tally(tool_args', Of(p, part)) + Tally(todo', {p}) * Per(p, part)
                 = Times(p) * Per(p, part)
    <3>1. Tally(tool_args', Of(p, part)) = 0
      BY <2>1, TallyNone
    <3>2. Tally(todo', {p}) = Times(p) /\ Times(p) \in Nat
      BY <1>0, <2>1, TimesOfAll
    <3>3. Per(p, part) \in Nat
      BY <1>0, <2>2, EmittedTyped, HitsFinite DEF Per
    <3> QED
      BY <3>1, <3>2, <3>3
  <2> QED
    BY <2>1, <2>2, OfTheRequest DEF Counted
<1>3. CASE ~EmitParam /\ ~Begin
  <2>1. /\ UNCHANGED <<request, tool_args, todo>>
        /\ pc' = "start" => pc = "start"
        /\ pc' = "emit" => pc = "emit"
        /\ limits' # <<>> => limits # <<>> \/ (pc = "emit" /\ todo = <<>>)
    BY <1>3
       DEF Next, vars, building, UnknownTool, NotAnObject, RefuseParam,
           RefuseOverride, InvalidParams, ToolError, Answered, Execute, Running, Record,
           ReplyError, ReplyJson, ReplyText, CallDropped, Over
  <2> QED
    BY <2>1, OfTheRequest DEF Counted
<1> QED
  BY <1>1, <1>2, <1>3

\* When all is emitted, the number of elements is what the count says.
LEMMA CountIs ==
    ASSUME Inv, Counted, limits # <<>>, NEW p \in DOMAIN tool.parameters, NEW part \in Parts
    PROVE  /\ PlacesOf(p, part) = Hits(tool_args, Of(p, part))
           /\ Cardinality(PlacesOf(p, part)) = Times(p) * Per(p, part)
<1>1. todo = <<>> /\ IsRequest(request) /\ tool_args \in Seq(Elements) /\ ~Refused(p)
  BY DEF Inv, Vetted, Counted, Typed
<1>2. PlacesOf(p, part) = Hits(tool_args, Of(p, part))
  <2>1. \A i \in 1 .. Len(tool_args) : tool_args[i] \in Elements
    BY <1>1, ElementOfSeq
  <2> QED
    BY <2>1 DEF PlacesOf, Hits, Of
<1>3. Tally(todo, {p}) = 0
  BY <1>1, TallyNone
<1>4. Tally(tool_args, Of(p, part)) + Tally(todo, {p}) * Per(p, part) = Times(p) * Per(p, part)
  BY <1>1 DEF Counted
<1>5. Tally(tool_args, Of(p, part)) \in Nat /\ Per(p, part) \in Nat
  BY <1>1, EmittedTyped, HitsFinite DEF Per
<1>6. Tally(tool_args, Of(p, part)) = Times(p) * Per(p, part)
  BY <1>3, <1>4, <1>5
<1> QED
  BY <1>2, <1>6 DEF Tally

\* Every command gets what its caller gave, all of it and nothing else: every value, word
\* and flag as often as it is listed, and the value of a flag right after it.
THEOREM ArgumentsAreTheCall == Spec => []ArgvIsTheCall
<1>1. Inv /\ Counted => ArgvIsTheCall
  <2> SUFFICES ASSUME Inv, Counted, life # "none", NEW p \in DOMAIN tool.parameters
               PROVE  LET q == tool.parameters[p]
                          given == p \in DOMAIN args_map
                          n(part) == Cardinality(PlacesOf(p, part))
                      IN /\ n("flag") = IF given /\ q.flag /\ (q.takes_value \/ truthy(args_map[p]))
                                        THEN Times(p) ELSE 0
                         /\ n("value") = IF given /\ (q.takes_value \/ ~(q.flag \/ Splits(p)))
                                         THEN Times(p) ELSE 0
                         /\ n("word") = IF given /\ Splits(p) THEN Times(p) * args_map[p].words
                                        ELSE 0
                         /\ q.takes_value => PlacesOf(p, "value") = {i + 1 : i \in PlacesOf(p, "flag")}
    BY DEF ArgvIsTheCall
  <2>1. /\ limits # <<>> /\ todo = <<>> /\ IsRequest(request) /\ tool_args \in Seq(Elements)
        /\ ~Refused(p)
    BY DEF Inv, Phases, Vetted, Counted, Typed
  <2>2. \A part \in Parts : PlacesOf(p, part) = Hits(tool_args, Of(p, part))
    BY <2>1, CountIs
  <2>3. \A part \in Parts : Cardinality(PlacesOf(p, part)) = Times(p) * Per(p, part)
    BY <2>1, CountIs
  <2>4. Times(p) \in Nat /\ "flag" \in Parts /\ "value" \in Parts /\ "word" \in Parts
    BY <2>1, TimesOfAll DEF Parts
  <2>5. tool.parameters[p].takes_value =>
           PlacesOf(p, "value") = {i + 1 : i \in PlacesOf(p, "flag")}
    BY <2>2, <2>4 DEF Counted
  <2> QED
    BY <2>1, <2>3, <2>4, <2>5, PerIs
<1> QED
  BY <1>1, InitStarted, InvInit, InvStep, CountedInit, CountedStep, PTL DEF Spec
=============================================================================
