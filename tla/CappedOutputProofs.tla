------------------------- MODULE CappedOutputProofs -------------------------
(***************************************************************************)
(* Proofs about CappedOutput, for all budgets, chunk sizes and ceilings:   *)
(* the reader keeps exactly the first and the last lines, within bounds.   *)
(***************************************************************************)
EXTENDS CappedOutput, SequenceTheorems, TLAPS

\* A run of lines is a sequence of that length.
LEMMA LinesLength ==
    ASSUME NEW k \in Nat, NEW m \in Nat
    PROVE  Lines(k, m) \in Seq(Nat) /\ Len(Lines(k, m)) = m
  BY DEF Lines

\* Its i-th line.
LEMMA LineAt ==
    ASSUME NEW k \in Nat, NEW m \in Nat, NEW i \in 1 .. m
    PROVE  Lines(k, m)[i] = k + i
  BY DEF Lines

\* Runs of lines grow at the end ...
LEMMA AppendLine ==
    ASSUME NEW k \in Nat, NEW m \in Nat
    PROVE  Append(Lines(k, m), k + m + 1) = Lines(k, m + 1)
<1>1. Lines(k, m) \in Seq(Nat) /\ Len(Lines(k, m)) = m
  BY DEF Lines
<1> QED
  BY <1>1 DEF Lines

\* ... and slide when their first line is dropped.
LEMMA SlideLine ==
    ASSUME NEW k \in Nat, NEW m \in Nat \ {0}
    PROVE  Append(Tail(Lines(k, m)), k + m + 1) = Lines(k + 1, m)
<1>1. Lines(k, m) \in Seq(Nat) /\ Len(Lines(k, m)) = m /\ Lines(k, m) # <<>>
  BY LinesLength
<1>2. /\ Tail(Lines(k, m)) \in Seq(Nat) /\ Len(Tail(Lines(k, m))) = m - 1
      /\ \A i \in 1 .. m - 1 : Tail(Lines(k, m))[i] = Lines(k, m)[i + 1]
  BY <1>1, HeadTailProperties
<1>3. Tail(Lines(k, m)) = Lines(k + 1, m - 1)
  <2>1. Lines(k + 1, m - 1) \in Seq(Nat) /\ Len(Lines(k + 1, m - 1)) = m - 1
    BY LinesLength
  <2>2. \A i \in 1 .. m - 1 : Lines(k, m)[i + 1] = Lines(k + 1, m - 1)[i]
    BY DEF Lines
  <2> QED
    BY <1>2, <2>1, <2>2, SeqEqual
<1>4. k + 1 \in Nat /\ m - 1 \in Nat /\ (k + 1) + (m - 1) + 1 = k + m + 1
      /\ (m - 1) + 1 = m
  OBVIOUS
<1>5. Append(Lines(k + 1, m - 1), (k + 1) + (m - 1) + 1) = Lines(k + 1, (m - 1) + 1)
  BY <1>4, AppendLine
<1> QED
  BY <1>3, <1>4, <1>5

\* The inductive invariant: what is kept, reading only below the ceiling, and a byte
\* at least for every line.
Inv == /\ TypeOK
       /\ HeadIsFirst /\ TailIsLast
       /\ state = "reading" => bytes < MAX_STREAM_BYTES
       /\ total_lines <= bytes

\* Reading starts in the invariant.
LEMMA InvInit == Init => Inv
<1> SUFFICES ASSUME Init PROVE Inv
  OBVIOUS
<1>1. TypeOK
  BY CappedOutputAssumption DEF Init, TypeOK
<1>2. keep_head \in Nat /\ keep_tail \in Nat
  BY CappedOutputAssumption DEF Init
<1>3. HeadIsFirst /\ TailIsLast
  BY <1>2 DEF Init, HeadIsFirst, TailIsLast, TailSize, keep_all, Lines, Least
<1> QED
  BY <1>1, <1>3, CappedOutputAssumption DEF Init, Inv

\* A line that is read finds its place: at the end of the head, or at the end of the tail,
\* from which it pushes the oldest line out if the tail is full.
LEMMA LineReadStep ==
    ASSUME Inv, LineRead
    PROVE  HeadIsFirst' /\ TailIsLast'
<1> DEFINE n == total_lines
<1>1. /\ keep_head \in Nat /\ keep_tail \in Nat /\ n \in Nat
      /\ keep_head' = keep_head /\ keep_tail' = keep_tail /\ total_lines' = n + 1
      /\ StoreLine(n + 1)
  BY CappedOutputAssumption DEF Inv, TypeOK, LineRead, param
<1>2. head = Lines(0, Least(n, keep_head)) /\ tail = Lines(n - TailSize, TailSize)
  BY DEF Inv, HeadIsFirst, TailIsLast
<1>3. Len(head) = Least(n, keep_head) /\ Least(n, keep_head) \in Nat
  BY <1>1, <1>2, LinesLength DEF Least
<1>4. TailSize \in Nat /\ TailSize <= n /\ Len(tail) = TailSize
  <2>1. TailSize \in Nat /\ TailSize <= n
    BY <1>1 DEF TailSize, Least
  <2> QED
    BY <1>1, <1>2, <2>1, LinesLength
<1>5. CASE keep_all
  <2>1. tail' = Append(Lines(0, n), n + 1) /\ head' = head
    BY <1>1, <1>2, <1>5 DEF StoreLine, TailSize
  <2>2. tail' = Lines(0, n + 1)
    <3>1. 0 \in Nat /\ 0 + n + 1 = n + 1
      BY <1>1
    <3> QED
      BY <1>1, <2>1, <3>1, AppendLine
  <2> QED
    BY <1>1, <1>2, <1>5, <2>1, <2>2
       DEF HeadIsFirst, TailIsLast, TailSize, keep_all, Least
<1>6. CASE ~keep_all /\ n < keep_head
  <2>1. Least(n, keep_head) = n /\ Least(n + 1, keep_head) = n + 1
    BY <1>1, <1>6 DEF Least
  <2>2. head' = Append(Lines(0, n), n + 1) /\ tail' = tail
    BY <1>1, <1>2, <1>3, <1>6, <2>1 DEF StoreLine
  <2>3. head' = Lines(0, n + 1)
    <3>1. 0 \in Nat /\ 0 + n + 1 = n + 1
      BY <1>1
    <3> QED
      BY <1>1, <2>2, <3>1, AppendLine
  <2>4. TailSize = 0 /\ TailSize' = 0
    BY <1>1, <1>6, <2>1 DEF TailSize, keep_all, Least
  <2>5. Lines(n, 0) = Lines(n + 1, 0)
    BY <1>1 DEF Lines
  <2> QED
    BY <1>1, <1>2, <2>1, <2>2, <2>3, <2>4, <2>5 DEF HeadIsFirst, TailIsLast
<1>7. CASE ~keep_all /\ ~(n < keep_head)
  <2>1. Least(n, keep_head) = keep_head /\ Least(n + 1, keep_head) = keep_head
    BY <1>1, <1>7 DEF Least
  <2>2. head' = head /\ HeadIsFirst'
    BY <1>1, <1>2, <1>3, <1>7, <2>1 DEF StoreLine, HeadIsFirst
  <2>3. TailSize = Least(n - keep_head, keep_tail)
        /\ TailSize' = Least(n + 1 - keep_head, keep_tail)
    BY <1>1, <1>7, <2>1 DEF TailSize, keep_all
  <2>4. CASE keep_tail = 0
    <3>1. tail' = tail /\ TailSize = 0 /\ TailSize' = 0
      BY <1>1, <1>3, <1>7, <2>1, <2>3, <2>4 DEF StoreLine, Least
    <3>2. Lines(n, 0) = Lines(n + 1, 0)
      BY <1>1 DEF Lines
    <3> QED
      BY <1>1, <1>2, <2>2, <3>1, <3>2 DEF TailIsLast
  <2>5. CASE keep_tail > 0 /\ TailSize = keep_tail
    <3>1. tail' = Append(Tail(Lines(n - keep_tail, keep_tail)), n + 1)
      BY <1>1, <1>2, <1>3, <1>4, <1>7, <2>1, <2>5 DEF StoreLine, PushRing
    <3>2. TailSize' = keep_tail
      BY <1>1, <1>7, <2>3, <2>5 DEF Least
    <3>3. tail' = Lines(n - keep_tail + 1, keep_tail)
      <4>1. n - keep_tail \in Nat /\ keep_tail \in Nat \ {0}
        BY <1>1, <1>4, <2>5
      <4>2. (n - keep_tail) + keep_tail + 1 = n + 1
        BY <1>1
      <4> HIDE DEF n
      <4> QED
        BY <3>1, <4>1, <4>2, SlideLine
    <3> QED
      BY <1>1, <2>2, <3>2, <3>3 DEF TailIsLast
  <2>6. CASE keep_tail > 0 /\ TailSize # keep_tail
    <3>1. tail' = Append(Lines(n - TailSize, TailSize), n + 1)
      BY <1>1, <1>2, <1>3, <1>4, <1>7, <2>1, <2>6 DEF StoreLine, PushRing
    <3>2. TailSize' = TailSize + 1 /\ n - TailSize \in Nat
      BY <1>1, <1>4, <1>7, <2>3, <2>6 DEF Least
    <3>3. tail' = Lines(n - TailSize, TailSize + 1)
      <4>1. (n - TailSize) + TailSize + 1 = n + 1
        BY <1>1, <1>4
      <4> QED
        BY <1>4, <3>1, <3>2, <4>1, AppendLine
    <3> QED
      BY <1>1, <1>4, <2>2, <3>2, <3>3 DEF TailIsLast
  <2> QED
    BY <1>1, <2>4, <2>5, <2>6, <2>2
<1> QED
  BY <1>5, <1>6, <1>7

\* Every step keeps the invariant: only LineRead touches what is kept.
LEMMA InvStep == Inv /\ [Next]_vars => Inv'
<1> SUFFICES ASSUME Inv, [Next]_vars PROVE Inv'
  OBVIOUS
<1>0. /\ TypeOK /\ HeadIsFirst /\ TailIsLast
      /\ state = "reading" => bytes < MAX_STREAM_BYTES
      /\ total_lines <= bytes
  BY DEF Inv
<1>1. CASE LineRead
  <2>1. HeadIsFirst' /\ TailIsLast'
    BY <1>1, LineReadStep
  <2>2. /\ keep_head' \in Budgets /\ keep_tail' \in Budgets
        /\ total_lines' \in Nat /\ pending' \in 0 .. MaxPending
        /\ state' \in {"reading", "eof", "ceiling", "error"}
    BY <1>0, <1>1, CappedOutputAssumption DEF LineRead, TypeOK, param
  <2>3. bytes' \in 0 .. MAX_STREAM_BYTES + MaxPending
    BY <1>0, <1>1, CappedOutputAssumption DEF LineRead, TypeOK
  <2>4. state' = "reading" => bytes' < MAX_STREAM_BYTES
    BY <1>1, <2>3, CappedOutputAssumption DEF LineRead, CeilingReached
  <2>5. head' \in Seq(Nat) /\ tail' \in Seq(Nat)
    <3>1. /\ head \in Seq(Nat) /\ tail \in Seq(Nat) /\ total_lines + 1 \in Nat
          /\ keep_tail \in Nat
          /\ StoreLine(total_lines + 1)
      BY <1>0, <1>1, CappedOutputAssumption DEF TypeOK, LineRead
    <3>2. /\ Append(head, total_lines + 1) \in Seq(Nat)
          /\ Append(tail, total_lines + 1) \in Seq(Nat)
      BY <3>1
    <3>3. CASE keep_tail > 0 /\ Len(tail) = keep_tail
      <4>1. Tail(tail) \in Seq(Nat)
        BY <3>1, <3>3, HeadTailProperties
      <4>2. Append(Tail(tail), total_lines + 1) \in Seq(Nat)
        BY <3>1, <4>1
      <4> QED
        BY <3>1, <3>2, <4>2 DEF StoreLine, PushRing
    <3>4. CASE ~(keep_tail > 0 /\ Len(tail) = keep_tail)
      BY <3>1, <3>2, <3>4 DEF StoreLine, PushRing
    <3> QED
      BY <3>3, <3>4
  <2>6. total_lines' <= bytes'
    BY <1>0, <1>1 DEF LineRead, TypeOK
  <2> QED
    BY <2>1, <2>2, <2>3, <2>4, <2>5, <2>6 DEF Inv, TypeOK
<1>2. CASE UNCHANGED store /\ UNCHANGED param
  <2>1. HeadIsFirst' /\ TailIsLast'
    BY <1>0, <1>2 DEF store, param, HeadIsFirst, TailIsLast, TailSize, keep_all
  <2>2. pending' \in 0 .. MaxPending /\ state' \in {"reading", "eof", "ceiling", "error"}
        /\ (state' = "reading" => state = "reading")
    <3>1. CASE \E n \in ChunkSizes : ChunkArrives(n)
      BY <1>0, <3>1, CappedOutputAssumption DEF ChunkArrives, TypeOK
    <3>2. CASE Eof \/ ReadError
      BY <1>0, <3>2 DEF Eof, ReadError, TypeOK
    <3>3. CASE UNCHANGED vars
      BY <1>0, <3>3 DEF vars, TypeOK
    <3>4. CASE LineRead
      BY <1>0, <3>4, CappedOutputAssumption DEF LineRead, TypeOK
    <3> QED
      BY <3>1, <3>2, <3>3, <3>4 DEF Next, Ended
  <2> QED
    BY <1>0, <1>2, <2>1, <2>2 DEF Inv, TypeOK, store, param
<1> QED
  BY <1>1, <1>2 DEF Next, ChunkArrives, Eof, ReadError, Ended, vars

THEOREM Invariance == Spec => []Inv
  BY InvInit, InvStep, PTL DEF Spec

\* The types, and with them the bound on what is read in complete lines.
THEOREM TypeCorrect == Spec => []TypeOK
<1>1. Inv => TypeOK
  BY DEF Inv
<1> QED
  BY <1>1, Invariance, PTL

\* The head is the first keep_head lines of the stream.
THEOREM HeadCorrect == Spec => []HeadIsFirst
<1>1. Inv => HeadIsFirst
  BY DEF Inv
<1> QED
  BY <1>1, Invariance, PTL

\* The tail is the last keep_tail lines of the rest.
THEOREM TailCorrect == Spec => []TailIsLast
<1>1. Inv => TailIsLast
  BY DEF Inv
<1> QED
  BY <1>1, Invariance, PTL

\* The lengths of what is kept.
LEMMA KeptLengths ==
    ASSUME Inv
    PROVE  /\ keep_head \in Nat /\ keep_tail \in Nat /\ total_lines \in Nat
           /\ Len(head) = Least(total_lines, keep_head)
           /\ TailSize \in Nat /\ TailSize <= total_lines /\ Len(tail) = TailSize
           /\ head \in Seq(Nat) /\ tail \in Seq(Nat)
<1>1. keep_head \in Nat /\ keep_tail \in Nat /\ total_lines \in Nat
  BY CappedOutputAssumption DEF Inv, TypeOK
<1>2. Least(total_lines, keep_head) \in Nat /\ TailSize \in Nat /\ TailSize <= total_lines
  BY <1>1 DEF Least, TailSize
<1> QED
  BY <1>1, <1>2, LinesLength DEF Inv, TypeOK, HeadIsFirst, TailIsLast

\* What is kept stays within the budgets, and without any within the bytes read.
THEOREM WithinBudget == Spec => []KeepsWithinBudget
<1>1. Inv => KeepsWithinBudget
  <2> SUFFICES ASSUME Inv PROVE KeepsWithinBudget
    OBVIOUS
  <2>1. total_lines <= bytes /\ bytes \in Nat
    BY CappedOutputAssumption DEF Inv, TypeOK
  <2>2. CASE keep_all
    BY <2>1, <2>2, KeptLengths DEF KeepsWithinBudget, TailSize, keep_all, Least
  <2>3. CASE ~keep_all
    BY <2>3, KeptLengths DEF KeepsWithinBudget, TailSize, Least
  <2> QED
    BY <2>2, <2>3
<1> QED
  BY <1>1, Invariance, PTL

\* What the caller is shown is exactly the first and the last lines, and between them the
\* true number of the lines left out.
THEOREM RenderCorrect == Spec => []RenderIsExact
<1>1. Inv => RenderIsExact
  <2> SUFFICES ASSUME Inv PROVE render = Shown
    BY DEF RenderIsExact
  <2>0. /\ keep_head \in Nat /\ keep_tail \in Nat /\ total_lines \in Nat
        /\ head = Lines(0, Least(total_lines, keep_head))
        /\ tail = Lines(total_lines - TailSize, TailSize)
        /\ Len(head) = Least(total_lines, keep_head)
        /\ TailSize \in Nat /\ TailSize <= total_lines /\ Len(tail) = TailSize
        /\ head \in Seq(Nat) /\ tail \in Seq(Nat)
    BY KeptLengths DEF Inv, HeadIsFirst, TailIsLast
  <2>1. CASE keep_all
    <3>1. TailSize = total_lines /\ total_lines - total_lines = 0
      BY <2>0, <2>1 DEF TailSize
    <3>2. render = tail
      BY <2>1 DEF render, keep_all
    <3>3. Shown = Lines(0, total_lines)
      BY <2>1 DEF Shown
    <3> QED
      BY <2>0, <3>1, <3>2, <3>3
  <2>2. CASE ~keep_all /\ total_lines > keep_head + keep_tail
    <3>1. Least(total_lines, keep_head) = keep_head /\ TailSize = keep_tail
      BY <2>0, <2>2 DEF Least, TailSize
    <3>2. omitted = total_lines - keep_head - keep_tail /\ omitted > 0
      <4>1. Len(head) = keep_head /\ Len(tail) = keep_tail
        BY <2>0, <3>1
      <4> QED
        BY <2>0, <2>2, <4>1 DEF omitted
    <3>3. /\ keep_head = 0 => head = <<>>
          /\ keep_tail = 0 => tail = <<>>
      BY <2>0, <3>1
    <3>7. Shown = head \o Gap \o tail
      BY <2>0, <2>2, <3>1 DEF Shown
    <3>4. CASE keep_head > 0 /\ keep_tail > 0
      BY <2>0, <2>2, <3>2, <3>4, <3>7 DEF render, Gap
    <3>5. CASE keep_head > 0 /\ keep_tail = 0
      <4>1. render = head
        BY <2>0, <2>2, <3>5 DEF render
      <4>2. head \o <<>> = head
        BY <2>0, ConcatEmptySeq
      <4> QED
        BY <2>0, <3>3, <3>5, <3>7, <4>1, <4>2 DEF Gap
    <3>6. CASE keep_head = 0 /\ keep_tail > 0
      <4>1. render = tail
        BY <2>0, <2>2, <3>6 DEF render
      <4>2. <<>> \o <<>> = <<>> /\ <<>> \o tail = tail
        BY <2>0, ConcatEmptySeq
      <4> QED
        <5>1. Gap = <<>> /\ head = <<>>
          BY <3>3, <3>6 DEF Gap
        <5>2. head \o Gap = <<>>
          BY <4>2, <5>1
        <5> QED
          BY <3>7, <4>1, <4>2, <5>2
    <3> QED
      BY <2>0, <2>2, <3>4, <3>5, <3>6 DEF keep_all
  <2>3. CASE ~keep_all /\ total_lines <= keep_head + keep_tail
    <3>0. Least(total_lines, keep_head) + TailSize = total_lines
      BY <2>0, <2>3 DEF TailSize, Least
    <3>1. omitted = 0 /\ Len(head) + Len(tail) = total_lines
      <4>1. Len(head) + Len(tail) = total_lines /\ Len(head) \in Nat /\ Len(tail) \in Nat
        BY <2>0, <3>0 DEF Least
      <4> QED
        BY <4>1 DEF omitted
    <3>2. head \o tail = Lines(0, total_lines)
      <4>1. /\ head \o tail \in Seq(Nat) /\ Len(head \o tail) = total_lines
            /\ Lines(0, total_lines) \in Seq(Nat)
            /\ Len(Lines(0, total_lines)) = total_lines
        BY <2>0, <3>1, ConcatProperties, LinesLength
      <4>2. \A i \in 1 .. total_lines : (head \o tail)[i] = 0 + i
        <5>1. \A i \in 1 .. Len(head) : head[i] = 0 + i
          <6>1. Least(total_lines, keep_head) \in Nat
            BY <2>0 DEF Least
          <6> QED
            BY <2>0, <6>1, LineAt
        <5>2. /\ total_lines - TailSize \in Nat /\ total_lines - TailSize = Len(head)
              /\ Len(head) \in Nat /\ Len(tail) \in Nat
          <6>1. Len(head) \in Nat /\ Len(tail) = TailSize
            BY <2>0, LenProperties
          <6> QED
            BY <2>0, <3>1, <6>1
        <5>3. \A i \in 1 .. Len(tail) : tail[i] = Len(head) + i
          <6> TAKE i \in 1 .. Len(tail)
          <6>1. Lines(total_lines - TailSize, TailSize)[i] = (total_lines - TailSize) + i
            BY <2>0, <5>2 DEF Lines
          <6> QED
            BY <2>0, <5>2, <6>1
        <5>4. \A i \in 1 .. Len(head) + Len(tail) :
                 (head \o tail)[i] = IF i <= Len(head) THEN head[i] ELSE tail[i - Len(head)]
          BY <2>0, ConcatProperties
        <5> QED
          BY <3>1, <5>1, <5>2, <5>3, <5>4
      <4>3. \A i \in 1 .. total_lines : Lines(0, total_lines)[i] = 0 + i
        BY <2>0, LineAt
      <4> QED
        BY <4>1, <4>2, <4>3, SeqEqual
    <3>3. keep_tail = 0 => tail = <<>>
      BY <2>0, <2>3 DEF TailSize, Least
    <3>4. keep_head = 0 => head = <<>>
      BY <2>0 DEF Least
    <3>5. render = head \o tail
      <4>1. head \o <<>> = head /\ <<>> \o tail = tail
        BY <2>0, ConcatEmptySeq
      <4>2. CASE keep_head > 0 /\ keep_tail > 0
        BY <2>3, <3>1, <4>2 DEF render
      <4>3. CASE keep_head > 0 /\ keep_tail = 0
        <5>1. render = head
          BY <2>0, <2>3, <4>3 DEF render
        <5> QED
          BY <3>3, <4>1, <4>3, <5>1
      <4>4. CASE keep_head = 0 /\ keep_tail > 0
        <5>1. render = tail
          BY <2>0, <2>3, <4>4 DEF render
        <5> QED
          BY <3>4, <4>1, <4>4, <5>1
      <4> QED
        BY <2>0, <2>3, <4>2, <4>3, <4>4 DEF keep_all
    <3>6. Shown = Lines(0, total_lines)
      BY <2>3 DEF Shown
    <3> QED
      BY <3>2, <3>5, <3>6
  <2> QED
    BY <2>0, <2>1, <2>2, <2>3
<1> QED
  BY <1>1, Invariance, PTL
=============================================================================
