-------------------------- MODULE ShellArgsProofs --------------------------
(***************************************************************************)
(* Proofs about ShellArgs, for every input: what the parser puts into the  *)
(* words is in the order of the input, nothing ordinary is lost, words are *)
(* separated only by white space, and they are the words that were meant.  *)
(* EveryText says that what can be meant leaves no input out.              *)
(***************************************************************************)
EXTENDS ShellArgs, DataLemmas

-----------------------------------------------------------------------------
(* Sequences one after the other *)

\* Two of them: the elements of the first, then those of the second.
LEMMA ConcatPlaces ==
    ASSUME NEW X, NEW u \in Seq(X), NEW v \in Seq(X), NEW w, w = u \o v
    PROVE  /\ w \in Seq(X) /\ Len(u) \in Nat /\ Len(v) \in Nat /\ Len(w) = Len(u) + Len(v)
           /\ \A i \in 1 .. Len(u) : w[i] = u[i]
           /\ \A i \in 1 .. Len(v) : w[Len(u) + i] = v[i]
<1>1. Len(u) \in Nat /\ Len(v) \in Nat
  BY LenProperties
<1>2. w \in Seq(X) /\ Len(w) = Len(u) + Len(v)
  BY ConcatProperties
<1>3. ASSUME NEW i \in 1 .. Len(u) PROVE w[i] = u[i]
  <2>1. i \in 1 .. Len(u) + Len(v) /\ i <= Len(u)
    BY <1>1
  <2> QED
    BY <2>1, ConcatProperties
<1>4. ASSUME NEW i \in 1 .. Len(v) PROVE w[Len(u) + i] = v[i]
  <2>1. /\ Len(u) + i \in 1 .. Len(u) + Len(v) /\ ~(Len(u) + i <= Len(u))
        /\ (Len(u) + i) - Len(u) = i
    BY <1>1
  <2> QED
    BY <2>1, ConcatProperties
<1> QED
  BY <1>1, <1>2, <1>3, <1>4

\* The recursion of Joins has a solution, on every range ...
LEMMA JoinsExist ==
    ASSUME NEW ss, NEW m \in Nat
    PROVE  \E f : f = [n \in 0 .. m |-> IF n = 0 THEN <<>> ELSE f[n - 1] \o ss[n]]
<1> DEFINE Solved(k) ==
      \E f : f = [n \in 0 .. k |-> IF n = 0 THEN <<>> ELSE f[n - 1] \o ss[n]]
<1>1. Solved(0)
  <2> DEFINE g == [n \in 0 .. 0 |-> <<>>]
  <2>1. g = [n \in 0 .. 0 |-> IF n = 0 THEN <<>> ELSE g[n - 1] \o ss[n]]
    OBVIOUS
  <2> QED
    BY <2>1
<1>2. ASSUME NEW k \in Nat, Solved(k) PROVE Solved(k + 1)
  <2>1. PICK f : f = [n \in 0 .. k |-> IF n = 0 THEN <<>> ELSE f[n - 1] \o ss[n]]
    BY <1>2
  <2> DEFINE g == [n \in 0 .. k + 1 |-> IF n = 0 THEN <<>> ELSE f[n - 1] \o ss[n]]
  <2>2. \A n \in 0 .. k : g[n] = f[n]
    BY <2>1
  <2>3. \A n \in 1 .. k + 1 : g[n - 1] = f[n - 1]
    <3> HIDE DEF g
    <3>1. \A n \in 1 .. k + 1 : n - 1 \in 0 .. k
      OBVIOUS
    <3> QED
      BY <2>2, <3>1
  <2>4. \A n \in 0 .. k + 1 : (IF n = 0 THEN <<>> ELSE f[n - 1] \o ss[n])
                              = (IF n = 0 THEN <<>> ELSE g[n - 1] \o ss[n])
    <3> HIDE DEF g
    <3> TAKE n \in 0 .. k + 1
    <3>1. n # 0 => g[n - 1] = f[n - 1]
      BY <2>3
    <3> QED
      BY <3>1
  <2>5. [n \in 0 .. k + 1 |-> IF n = 0 THEN <<>> ELSE f[n - 1] \o ss[n]]
        = [n \in 0 .. k + 1 |-> IF n = 0 THEN <<>> ELSE g[n - 1] \o ss[n]]
    <3> HIDE DEF g
    <3> QED
      BY <2>4
  <2>6. g = [n \in 0 .. k + 1 |-> IF n = 0 THEN <<>> ELSE g[n - 1] \o ss[n]]
    BY <2>5
  <2> QED
    BY <2>6
<1> DEFINE S == {k \in Nat : Solved(k)}
<1> HIDE DEF Solved
<1>3. 0 \in S /\ \A k \in Nat : k \in S => k + 1 \in S
  BY <1>1, <1>2
<1> HIDE DEF S
<1>4. m \in S
  BY <1>3, SetInduction
<1> QED
  BY <1>4 DEF S, Solved

\* ... so that Joins is one: it begins with nothing and adds one sequence after the other.
LEMMA JoinsStep ==
    ASSUME NEW ss, Len(ss) \in Nat
    PROVE  /\ Joins(ss)[0] = <<>>
           /\ \A n \in 1 .. Len(ss) : Joins(ss)[n] = Joins(ss)[n - 1] \o ss[n]
<1> DEFINE join[n \in 0 .. Len(ss)] == IF n = 0 THEN <<>> ELSE join[n - 1] \o ss[n]
<1>1. join = CHOOSE f : f = [n \in 0 .. Len(ss) |-> IF n = 0 THEN <<>> ELSE f[n - 1] \o ss[n]]
  BY Zenon
<1>2. Joins(ss) = join
  BY Zenon DEF Joins
<1> HIDE DEF join
<1>3. join = [n \in 0 .. Len(ss) |-> IF n = 0 THEN <<>> ELSE join[n - 1] \o ss[n]]
  BY <1>1, JoinsExist, Zenon
<1> QED
  BY <1>2, <1>3

\* All of it are sequences of the same elements.
LEMMA JoinsTyped ==
    ASSUME NEW X, NEW ss \in Seq(Seq(X)), NEW m \in 0 .. Len(ss)
    PROVE  Joins(ss)[m] \in Seq(X) /\ Len(Joins(ss)[m]) \in Nat
<1>0. Len(ss) \in Nat /\ \A n \in 1 .. Len(ss) : ss[n] \in Seq(X)
  BY LenProperties, ElementOfSeq
<1> DEFINE S == {n \in Nat : n <= Len(ss) => Joins(ss)[n] \in Seq(X)}
<1>1. 0 \in S
  BY <1>0, JoinsStep, EmptySeq
<1>2. ASSUME NEW n \in Nat, n \in S PROVE n + 1 \in S
  <2>1. SUFFICES ASSUME n + 1 <= Len(ss) PROVE Joins(ss)[n + 1] \in Seq(X)
    OBVIOUS
  <2>2. n + 1 \in 1 .. Len(ss) /\ (n + 1) - 1 = n
    BY <1>0, <2>1
  <2>3. Joins(ss)[n + 1] = Joins(ss)[n] \o ss[n + 1]
    BY <1>0, <2>2, JoinsStep
  <2>4. Joins(ss)[n] \in Seq(X) /\ ss[n + 1] \in Seq(X)
    BY <1>0, <1>2, <2>1
  <2> QED
    BY <2>3, <2>4, ConcatProperties
<1> HIDE DEF S
<1>3. m \in Nat /\ m <= Len(ss)
  BY <1>0
<1>4. m \in S
  BY <1>1, <1>2, <1>3, SetInduction
<1>5. Joins(ss)[m] \in Seq(X)
  BY <1>3, <1>4 DEF S
<1> QED
  BY <1>5, LenProperties

\* What is joined first stays where it is.
LEMMA JoinsPrefix ==
    ASSUME NEW X, NEW ss \in Seq(Seq(X)), NEW n \in 0 .. Len(ss), NEW m \in n .. Len(ss)
    PROVE  /\ Len(Joins(ss)[n]) <= Len(Joins(ss)[m])
           /\ \A i \in 1 .. Len(Joins(ss)[n]) : Joins(ss)[m][i] = Joins(ss)[n][i]
<1> DEFINE J(k) == Joins(ss)[k]
           E(k) == ss[k]
<1>0. Len(ss) \in Nat /\ n \in Nat /\ m \in Nat /\ n <= m /\ m <= Len(ss)
  <2>1. Len(ss) \in Nat
    BY LenProperties
  <2> QED
    BY <2>1
<1>1. /\ \A k \in 0 .. Len(ss) : J(k) \in Seq(X) /\ Len(J(k)) \in Nat
      /\ \A k \in 1 .. Len(ss) : E(k) \in Seq(X) /\ Len(E(k)) \in Nat /\ J(k) = J(k - 1) \o E(k)
  <2>1. \A k \in 1 .. Len(ss) : ss[k] \in Seq(X)
    BY ElementOfSeq
  <2> QED
    BY <1>0, <2>1, LenProperties, JoinsTyped, JoinsStep
<1> HIDE DEF J, E
<1> DEFINE S == {d \in Nat : n + d <= Len(ss) =>
                   /\ Len(J(n)) <= Len(J(n + d))
                   /\ \A i \in 1 .. Len(J(n)) : J(n + d)[i] = J(n)[i]}
<1>2. 0 \in S
  <2>1. n + 0 = n /\ n \in 0 .. Len(ss)
    BY <1>0
  <2>2. Len(J(n)) <= Len(J(n))
    BY <1>1, <2>1
  <2> QED
    BY <2>1, <2>2
<1>3. ASSUME NEW d \in Nat, d \in S PROVE d + 1 \in S
  <2>1. SUFFICES ASSUME n + (d + 1) <= Len(ss)
                 PROVE  /\ Len(J(n)) <= Len(J(n + (d + 1)))
                        /\ \A i \in 1 .. Len(J(n)) : J(n + (d + 1))[i] = J(n)[i]
    OBVIOUS
  <2>2. PICK k \in 1 .. Len(ss) : k = n + (d + 1) /\ k - 1 = n + d
    BY <1>0, <2>1
  <2>3. /\ Len(J(n)) <= Len(J(k - 1))
        /\ \A i \in 1 .. Len(J(n)) : J(k - 1)[i] = J(n)[i]
    <3>1. n + d <= Len(ss)
      BY <1>0, <2>1
    <3> QED
      BY <1>3, <2>2, <3>1
  <2> HIDE DEF S
  <2>4. /\ J(k - 1) \in Seq(X) /\ Len(J(k - 1)) \in Nat /\ Len(J(n)) \in Nat
        /\ E(k) \in Seq(X) /\ Len(E(k)) \in Nat /\ J(k) = J(k - 1) \o E(k)
    <3>1. k - 1 \in 0 .. Len(ss) /\ n \in 0 .. Len(ss)
      BY <1>0
    <3> QED
      BY <1>1, <3>1
  <2>5. /\ Len(J(k)) = Len(J(k - 1)) + Len(E(k))
        /\ \A i \in 1 .. Len(J(k - 1)) : J(k)[i] = J(k - 1)[i]
    BY <2>4, ConcatPlaces
  <2>6. Len(J(n)) <= Len(J(k)) /\ \A i \in 1 .. Len(J(n)) : i \in 1 .. Len(J(k - 1))
    BY <2>3, <2>4, <2>5
  <2>7. \A i \in 1 .. Len(J(n)) : J(k)[i] = J(n)[i]
    BY <2>3, <2>5, <2>6
  <2> QED
    BY <2>2, <2>6, <2>7
<1> HIDE DEF S
<1>4. m - n \in Nat /\ n + (m - n) = m
  BY <1>0
<1>5. m - n \in S
  BY <1>2, <1>3, <1>4, SetInduction
<1> QED
  BY <1>0, <1>4, <1>5 DEF S, J

\* Where the n-th sequence is: after those before it.
LEMMA JoinedPlaces ==
    ASSUME NEW X, NEW ss \in Seq(Seq(X)), NEW n \in 1 .. Len(ss)
    PROVE  /\ Joined(ss) \in Seq(X)
           /\ Len(Joins(ss)[n - 1]) \in Nat /\ Len(ss[n]) \in Nat
           /\ Len(Joins(ss)[n]) = Len(Joins(ss)[n - 1]) + Len(ss[n])
           /\ Len(Joins(ss)[n]) <= Len(Joined(ss))
           /\ \A j \in 1 .. Len(ss[n]) : Joined(ss)[Len(Joins(ss)[n - 1]) + j] = ss[n][j]
<1> DEFINE J(k) == Joins(ss)[k]
           E == ss[n]
           a == Len(J(n - 1))
<1>1. /\ Len(ss) \in Nat /\ n \in 0 .. Len(ss) /\ n - 1 \in 0 .. Len(ss)
      /\ Len(ss) \in n .. Len(ss) /\ Len(ss) \in 0 .. Len(ss)
  <2>1. Len(ss) \in Nat
    BY LenProperties
  <2> QED
    BY <2>1
<1>2. E \in Seq(X) /\ Len(E) \in Nat /\ J(n) = J(n - 1) \o E
  <2>1. E \in Seq(X)
    BY ElementOfSeq
  <2> QED
    BY <1>1, <2>1, LenProperties, JoinsStep
<1>3. /\ J(n - 1) \in Seq(X) /\ a \in Nat /\ J(n) \in Seq(X)
      /\ Joined(ss) = J(Len(ss)) /\ Joined(ss) \in Seq(X)
  BY <1>1, JoinsTyped DEF Joined
<1>4. /\ Len(J(n)) <= Len(Joined(ss))
      /\ \A i \in 1 .. Len(J(n)) : Joined(ss)[i] = J(n)[i]
  <2>1. /\ Len(Joins(ss)[n]) <= Len(Joins(ss)[Len(ss)])
        /\ \A i \in 1 .. Len(Joins(ss)[n]) : Joins(ss)[Len(ss)][i] = Joins(ss)[n][i]
    BY <1>1, JoinsPrefix
  <2> QED
    BY <2>1, Zenon DEF Joined
<1> HIDE DEF J, E
<1>5. /\ Len(J(n)) = a + Len(E)
      /\ \A j \in 1 .. Len(E) : J(n)[a + j] = E[j]
  BY <1>2, <1>3, ConcatPlaces
<1> HIDE DEF a
<1>6. ASSUME NEW j \in 1 .. Len(E) PROVE Joined(ss)[a + j] = E[j]
  <2>1. a + j \in 1 .. Len(J(n))
    BY <1>2, <1>3, <1>5
  <2> QED
    BY <1>4, <1>5, <2>1
<1> QED
  BY <1>2, <1>3, <1>4, <1>5, <1>6 DEF J, E, a

-----------------------------------------------------------------------------
(* The text of a script *)

\* Sequences of one element and of two.
LEMMA ShortSeqs ==
    ASSUME NEW X, NEW x \in X, NEW y \in X
    PROVE  /\ <<x>> \in Seq(X) /\ Len(<<x>>) = 1 /\ <<x>>[1] = x
           /\ <<x, y>> \in Seq(X) /\ Len(<<x, y>>) = 2 /\ <<x, y>>[1] = x /\ <<x, y>>[2] = y
  OBVIOUS

\* An atom is one character, after a backslash or not.
LEMMA AtomTextIsText ==
    ASSUME NEW a \in Atoms
    PROVE  /\ AtomText(a) \in Seq(Chars) /\ Len(AtomText(a)) \in {1, 2}
           /\ a.escaped => /\ Len(AtomText(a)) = 2
                           /\ AtomText(a)[1] = "backslash" /\ AtomText(a)[2] = a.char
           /\ ~a.escaped => Len(AtomText(a)) = 1 /\ AtomText(a)[1] = a.char
<1>1. a.char \in Chars /\ "backslash" \in Chars
  BY DEF Atoms, Chars
<1>2. CASE a.escaped
  <2>1. AtomText(a) = <<"backslash", a.char>>
    BY <1>2 DEF AtomText
  <2> QED
    BY <1>1, <1>2, <2>1, ShortSeqs
<1>3. CASE ~a.escaped
  <2>1. AtomText(a) = <<a.char>>
    BY <1>3 DEF AtomText
  <2> QED
    BY <1>1, <1>3, <2>1, ShortSeqs
<1> QED
  BY <1>2, <1>3

\* A mark is one character, or none.
LEMMA MarkIsText ==
    ASSUME NEW style
    PROVE  /\ Mark(style) \in Seq(Chars) /\ Len(Mark(style)) \in {0, 1}
           /\ style = "single" => Mark(style) = <<"quote">> /\ Len(Mark(style)) = 1
           /\ style = "double" => Mark(style) = <<"dquote">> /\ Len(Mark(style)) = 1
           /\ style \notin Quotes => Mark(style) = <<>> /\ Len(Mark(style)) = 0
<1>1. "quote" \in Chars /\ "dquote" \in Chars
  BY DEF Chars
<1>2. CASE style = "single"
  <2>1. Mark(style) = <<"quote">> /\ style # "double" /\ style \in Quotes
    BY <1>2 DEF Mark, Quotes
  <2>2. <<"quote">> \in Seq(Chars) /\ Len(<<"quote">>) = 1
    BY <1>1
  <2> QED
    BY <1>2, <2>1, <2>2, Zenon
<1>3. CASE style = "double"
  <2>1. Mark(style) = <<"dquote">> /\ style # "single" /\ style \in Quotes
    BY <1>3 DEF Mark, Quotes
  <2>2. <<"dquote">> \in Seq(Chars) /\ Len(<<"dquote">>) = 1
    BY <1>1
  <2> QED
    BY <1>3, <2>1, <2>2, Zenon
<1>4. CASE style \notin Quotes
  <2>1. Mark(style) = <<>> /\ style # "single" /\ style # "double"
    BY <1>4 DEF Mark, Quotes
  <2> QED
    BY <1>4, <2>1, EmptySeq
<1> QED
  BY <1>2, <1>3, <1>4 DEF Quotes

\* The parts of a piece: its mark, its atoms, its end.
LEMMA PieceParts ==
    ASSUME NEW p \in Pieces
    PROVE  /\ p.atoms \in Seq(Atoms) /\ Len(p.atoms) \in Nat
           /\ p.end \in Seq(Chars) /\ Len(p.end) \in Nat
           /\ AtomTexts(p) \in Seq(Seq(Chars)) /\ Len(AtomTexts(p)) = Len(p.atoms)
           /\ \A i \in 1 .. Len(p.atoms) :
                 p.atoms[i] \in Atoms /\ AtomTexts(p)[i] = AtomText(p.atoms[i])
<1>1. p.atoms \in Seq(Atoms) /\ p.end \in Seq(Chars)
  BY DEF Pieces
<1>2. Len(p.atoms) \in Nat /\ Len(p.end) \in Nat /\ \A i \in 1 .. Len(p.atoms) : p.atoms[i] \in Atoms
  BY <1>1, LenProperties, ElementOfSeq
<1>3. \A i \in 1 .. Len(p.atoms) : AtomText(p.atoms[i]) \in Seq(Chars)
  BY <1>2, AtomTextIsText
<1>4. AtomTexts(p) \in Seq(Seq(Chars))
  BY <1>2, <1>3, IsASeq DEF AtomTexts
<1>5. /\ Len(AtomTexts(p)) = Len(p.atoms)
      /\ \A i \in 1 .. Len(p.atoms) : AtomTexts(p)[i] = AtomText(p.atoms[i])
  BY <1>2 DEF AtomTexts
<1> QED
  BY <1>1, <1>2, <1>4, <1>5

\* How many characters of a piece are before its atom k + 1.
Past(p, k) == Len(Mark(p.style)) + Len(Joins(AtomTexts(p))[k])

\* A piece has a text: first its mark ...
LEMMA PieceText ==
    ASSUME NEW p \in Pieces
    PROVE  /\ Text(p) \in Seq(Chars) /\ Len(Text(p)) \in Nat
           /\ \A k \in 0 .. Len(p.atoms) : Past(p, k) \in Nat
           /\ Past(p, 0) = Len(Mark(p.style))
           /\ p.style = "single" => Text(p)[1] = "quote"
           /\ p.style = "double" => Text(p)[1] = "dquote"
<1> DEFINE A == AtomTexts(p)
           M == Mark(p.style)
<1>1. /\ M \in Seq(Chars) /\ Len(M) \in Nat /\ A \in Seq(Seq(Chars)) /\ Len(A) = Len(p.atoms)
      /\ Len(A) \in Nat /\ p.end \in Seq(Chars) /\ Joins(A)[0] = <<>>
  <2>1. /\ M \in Seq(Chars) /\ Len(M) \in Nat /\ A \in Seq(Seq(Chars)) /\ Len(A) = Len(p.atoms)
        /\ Len(A) \in Nat /\ p.end \in Seq(Chars)
    BY PieceParts, MarkIsText
  <2> QED
    BY <2>1, JoinsStep
<1>2. \A k \in 0 .. Len(p.atoms) : Joins(A)[k] \in Seq(Chars) /\ Len(Joins(A)[k]) \in Nat
  BY <1>1, JoinsTyped
<1>3. Joined(A) \in Seq(Chars)
  <2>1. Len(A) \in 0 .. Len(p.atoms)
    BY <1>1
  <2> QED
    BY <1>2, <2>1 DEF Joined
<1>4. (\A k \in 0 .. Len(p.atoms) : Past(p, k) \in Nat) /\ Past(p, 0) = Len(M)
  <2>1. Len(<<>>) = 0
    OBVIOUS
  <2> HIDE DEF A, M
  <2>2. \A k : Past(p, k) = Len(M) + Len(Joins(A)[k])
    BY DEF Past, A, M
  <2>3. 0 \in 0 .. Len(p.atoms)
    BY <1>1
  <2>4. Len(Joins(A)[0]) = 0
    BY <1>1, <2>1, Zenon
  <2>5. Past(p, 0) = Len(M)
    BY <1>1, <2>2, <2>4
  <2>6. ASSUME NEW k \in 0 .. Len(p.atoms) PROVE Past(p, k) \in Nat
    <3>1. Len(M) \in Nat /\ Len(Joins(A)[k]) \in Nat
      BY <1>1, <1>2
    <3> QED
      BY <2>2, <3>1
  <2> QED
    BY <2>5, <2>6
<1>5. Text(p) = (M \o Joined(A)) \o p.end
  BY DEF Text
<1> HIDE DEF A
<1>6. /\ Text(p) \in Seq(Chars)
      /\ \A i \in 1 .. Len(M) : Text(p)[i] = M[i]
  <2> HIDE DEF M
  <2>1. /\ M \o Joined(A) \in Seq(Chars) /\ Len(Joined(A)) \in Nat /\ Len(p.end) \in Nat
        /\ Len(M \o Joined(A)) = Len(M) + Len(Joined(A))
        /\ \A i \in 1 .. Len(M) : (M \o Joined(A))[i] = M[i]
    BY <1>1, <1>3, PieceParts, ConcatPlaces
  <2>2. \A i \in 1 .. Len(M) : i \in 1 .. Len(M \o Joined(A))
    BY <1>1, <2>1
  <2>3. /\ Text(p) \in Seq(Chars)
        /\ \A i \in 1 .. Len(M \o Joined(A)) : Text(p)[i] = (M \o Joined(A))[i]
    BY <1>1, <1>5, <2>1, ConcatPlaces
  <2> QED
    BY <2>1, <2>2, <2>3
<1>7. p.style = "single" => Text(p)[1] = "quote"
  <2>1. p.style = "single" => M = <<"quote">> /\ 1 \in 1 .. Len(M)
    BY MarkIsText
  <2> QED
    BY <1>6, <2>1
<1>8. p.style = "double" => Text(p)[1] = "dquote"
  <2>1. p.style = "double" => M = <<"dquote">> /\ 1 \in 1 .. Len(M)
    BY MarkIsText
  <2> QED
    BY <1>6, <2>1
<1> QED
  BY <1>4, <1>6, <1>7, <1>8, LenProperties

\* ... then its atoms ...
LEMMA AtomPlaces ==
    ASSUME NEW p \in Pieces, NEW k \in 1 .. Len(p.atoms)
    PROVE  /\ Past(p, k - 1) \in Nat
           /\ Past(p, k) = Past(p, k - 1) + Len(AtomText(p.atoms[k]))
           /\ Past(p, k) <= Len(Text(p))
           /\ \A j \in 1 .. Len(AtomText(p.atoms[k])) :
                 Text(p)[Past(p, k - 1) + j] = AtomText(p.atoms[k])[j]
<1> DEFINE M == Mark(p.style)
           A == AtomTexts(p)
           J(i) == Joins(A)[i]
           E == AtomText(p.atoms[k])
           U == Joined(A)
<1>1. /\ M \in Seq(Chars) /\ Len(M) \in Nat /\ p.end \in Seq(Chars) /\ Len(p.end) \in Nat
      /\ A \in Seq(Seq(Chars)) /\ k \in 1 .. Len(A) /\ A[k] = E
  BY PieceParts, MarkIsText
<1>2. /\ Past(p, k) = Len(M) + Len(J(k)) /\ Past(p, k - 1) = Len(M) + Len(J(k - 1))
      /\ Text(p) = (M \o U) \o p.end
  BY DEF Past, Text
<1>3. /\ U \in Seq(Chars) /\ Len(J(k - 1)) \in Nat /\ Len(E) \in Nat
      /\ Len(J(k)) = Len(J(k - 1)) + Len(E) /\ Len(J(k)) <= Len(U)
      /\ \A j \in 1 .. Len(E) : U[Len(J(k - 1)) + j] = E[j]
  <2> HIDE DEF E
  <2> QED
    BY <1>1, JoinedPlaces
<1> DEFINE b == Len(J(k - 1))
           c == Len(J(k))
           t == M \o U
           z == p.end
<1> HIDE DEF A, M, J, E, U
<1>4. /\ t \in Seq(Chars) /\ Len(U) \in Nat /\ Len(t) = Len(M) + Len(U)
      /\ \A i \in 1 .. Len(U) : t[Len(M) + i] = U[i]
  <2>1. M \in Seq(Chars) /\ U \in Seq(Chars) /\ t = M \o U
    BY <1>1, <1>3
  <2> HIDE DEF t
  <2> QED
    BY <2>1, ConcatPlaces
<1>5. /\ z \in Seq(Chars) /\ Len(z) \in Nat /\ Text(p) = t \o z
      /\ Past(p, k) = Len(M) + c /\ Past(p, k - 1) = Len(M) + b
      /\ b \in Nat /\ c = b + Len(E) /\ c <= Len(U)
      /\ \A j \in 1 .. Len(E) : U[b + j] = E[j]
  BY <1>1, <1>2, <1>3
<1> HIDE DEF b, c, t, z
<1>6. Len(Text(p)) = Len(t) + Len(z) /\ \A i \in 1 .. Len(t) : Text(p)[i] = t[i]
  <2>1. t \in Seq(Chars) /\ z \in Seq(Chars) /\ Text(p) = t \o z
    BY <1>4, <1>5
  <2> QED
    BY <2>1, ConcatPlaces
<1>7. ASSUME NEW j \in 1 .. Len(E) PROVE Text(p)[Past(p, k - 1) + j] = E[j]
  <2>1. b + j \in 1 .. Len(U) /\ Len(M) + (b + j) \in 1 .. Len(t)
        /\ Past(p, k - 1) + j = Len(M) + (b + j)
    <3>1. /\ Len(M) \in Nat /\ b \in Nat /\ Len(E) \in Nat /\ Len(U) \in Nat
          /\ c = b + Len(E) /\ c <= Len(U)
          /\ Len(t) = Len(M) + Len(U) /\ Past(p, k - 1) = Len(M) + b
      BY <1>1, <1>3, <1>4, <1>5
    <3> QED
      BY <3>1
  <2>2. Text(p)[Len(M) + (b + j)] = U[b + j]
    BY <1>4, <1>6, <2>1
  <2> QED
    BY <1>5, <2>1, <2>2
<1>8. /\ Past(p, k - 1) \in Nat /\ Past(p, k) = Past(p, k - 1) + Len(E)
      /\ Past(p, k) <= Len(Text(p))
  <2>1. /\ Len(M) \in Nat /\ b \in Nat /\ Len(E) \in Nat /\ Len(U) \in Nat /\ Len(z) \in Nat
        /\ c = b + Len(E) /\ c <= Len(U) /\ Len(t) = Len(M) + Len(U)
        /\ Len(Text(p)) = Len(t) + Len(z)
        /\ Past(p, k) = Len(M) + c /\ Past(p, k - 1) = Len(M) + b
    BY <1>1, <1>3, <1>4, <1>5, <1>6
  <2> QED
    BY <2>1
<1> QED
  BY <1>7, <1>8 DEF E

\* ... and then its end.
LEMMA EndPlaces ==
    ASSUME NEW p \in Pieces
    PROVE  /\ Past(p, Len(p.atoms)) \in Nat
           /\ Len(Text(p)) = Past(p, Len(p.atoms)) + Len(p.end)
           /\ \A j \in 1 .. Len(p.end) : Text(p)[Past(p, Len(p.atoms)) + j] = p.end[j]
<1> DEFINE A == AtomTexts(p)
           M == Mark(p.style)
           J == Joined(A)
<1>1. /\ M \in Seq(Chars) /\ Len(M) \in Nat /\ A \in Seq(Seq(Chars)) /\ Len(A) = Len(p.atoms)
      /\ Len(A) \in Nat /\ p.end \in Seq(Chars) /\ Len(p.end) \in Nat
  BY PieceParts, MarkIsText
<1>2. Past(p, Len(p.atoms)) = Len(M) + Len(J) /\ Text(p) = (M \o J) \o p.end
  <2>1. Past(p, Len(A)) = Len(M) + Len(J)
    BY DEF Past, Joined
  <2> QED
    BY <1>1, <2>1 DEF Text
<1>3. J \in Seq(Chars) /\ Len(J) \in Nat
  <2>1. Len(A) \in 0 .. Len(A)
    BY <1>1
  <2> QED
    BY <1>1, <2>1, JoinsTyped DEF Joined
<1> HIDE DEF A, M, J
<1>4. M \o J \in Seq(Chars) /\ Len(M \o J) = Len(M) + Len(J)
  BY <1>1, <1>3, ConcatProperties
<1> QED
  BY <1>1, <1>2, <1>3, <1>4, ConcatPlaces

\* The texts of the pieces.
LEMMA TextsTyped ==
    ASSUME NEW s \in Seq(Pieces)
    PROVE  /\ Len(s) \in Nat /\ Texts(s) \in Seq(Seq(Chars)) /\ Len(Texts(s)) = Len(s)
           /\ \A n \in 1 .. Len(s) : s[n] \in Pieces /\ Texts(s)[n] = Text(s[n])
<1>1. Len(s) \in Nat /\ \A n \in 1 .. Len(s) : s[n] \in Pieces
  BY LenProperties, ElementOfSeq
<1>2. \A n \in 1 .. Len(s) : Text(s[n]) \in Seq(Chars)
  BY <1>1, PieceText
<1>3. Texts(s) \in Seq(Seq(Chars))
  BY <1>1, <1>2, IsASeq DEF Texts
<1>4. Len(Texts(s)) = Len(s) /\ \A n \in 1 .. Len(s) : Texts(s)[n] = Text(s[n])
  BY <1>1 DEF Texts
<1> QED
  BY <1>1, <1>3, <1>4

\* A script of pieces has a text of characters.
LEMMA TextIsText ==
    ASSUME NEW s \in Seq(Pieces)
    PROVE  TextOf(s) \in Seq(Chars)
<1>1. Texts(s) \in Seq(Seq(Chars)) /\ Len(Texts(s)) \in 0 .. Len(Texts(s))
  BY TextsTyped
<1> QED
  BY <1>1, JoinsTyped DEF TextOf, Joined

-----------------------------------------------------------------------------
(* Where the pieces of a script are in its text *)

\* How many characters the first n pieces have.
Upto(s, n) == Len(Joins(Texts(s))[n])

\* The pieces take up the whole text ...
LEMMA UptoEnds ==
    ASSUME NEW s \in Seq(Pieces)
    PROVE  /\ \A n \in 0 .. Len(s) : Upto(s, n) \in Nat
           /\ Upto(s, 0) = 0 /\ Upto(s, Len(s)) = Len(TextOf(s))
<1>1. /\ Len(s) \in Nat /\ Texts(s) \in Seq(Seq(Chars)) /\ Len(Texts(s)) = Len(s)
  BY TextsTyped
<1>2. \A n \in 0 .. Len(s) : Upto(s, n) \in Nat
  BY <1>1, JoinsTyped DEF Upto
<1>3. Upto(s, 0) = 0
  <2>1. Joins(Texts(s))[0] = <<>>
    BY <1>1, JoinsStep
  <2>2. Len(<<>>) = 0
    OBVIOUS
  <2> QED
    BY <2>1, <2>2, Zenon DEF Upto
<1>4. Upto(s, Len(s)) = Len(TextOf(s))
  BY <1>1, Zenon DEF Upto, TextOf, Joined
<1> QED
  BY <1>2, <1>3, <1>4

\* ... one after the other.
LEMMA PiecePlaces ==
    ASSUME NEW s \in Seq(Pieces), NEW n \in Nat, n < Len(s), NEW p, p = s[n + 1]
    PROVE  /\ p \in Pieces /\ n + 1 \in 1 .. Len(s)
           /\ Upto(s, n) \in Nat /\ Len(Text(p)) \in Nat
           /\ Upto(s, n + 1) = Upto(s, n) + Len(Text(p))
           /\ Upto(s, n + 1) <= Len(TextOf(s)) /\ Len(TextOf(s)) \in Nat
           /\ \A j \in 1 .. Len(Text(p)) : TextOf(s)[Upto(s, n) + j] = Text(p)[j]
<1>1. /\ Len(s) \in Nat /\ Texts(s) \in Seq(Seq(Chars)) /\ Len(Texts(s)) = Len(s)
      /\ \A i \in 1 .. Len(s) : s[i] \in Pieces /\ Texts(s)[i] = Text(s[i])
  BY TextsTyped
<1>2. n + 1 \in 1 .. Len(s) /\ (n + 1) - 1 = n
  BY <1>1
<1>3. p \in Pieces /\ Texts(s)[n + 1] = Text(p)
  BY <1>1, <1>2
<1> DEFINE ts == Texts(s)
           m == n + 1
<1>4. ts \in Seq(Seq(Chars)) /\ m \in 1 .. Len(ts) /\ ts[m] = Text(p)
  BY <1>1, <1>2, <1>3
<1> HIDE DEF ts, m
<1>5. /\ Len(Joins(ts)[m - 1]) \in Nat /\ Len(ts[m]) \in Nat /\ Joined(ts) \in Seq(Chars)
      /\ Len(Joins(ts)[m]) = Len(Joins(ts)[m - 1]) + Len(ts[m])
      /\ Len(Joins(ts)[m]) <= Len(Joined(ts))
      /\ \A j \in 1 .. Len(ts[m]) : Joined(ts)[Len(Joins(ts)[m - 1]) + j] = ts[m][j]
  BY <1>4, JoinedPlaces
<1>6. /\ Upto(s, n) = Len(Joins(ts)[m - 1]) /\ Upto(s, n + 1) = Len(Joins(ts)[m])
      /\ TextOf(s) = Joined(ts)
  BY <1>2, Zenon DEF Upto, TextOf, ts, m
<1>7. Len(TextOf(s)) \in Nat
  BY <1>5, <1>6, LenProperties
<1> QED
  BY <1>2, <1>3, <1>4, <1>5, <1>6, <1>7, Zenon

\* Within a quoted string, the first character is its mark.
LEMMA MarkAt ==
    ASSUME NEW s \in Seq(Pieces), NEW n \in Nat, n < Len(s), NEW p, p = s[n + 1]
    PROVE  /\ Past(p, 0) \in Nat
           /\ p.style \in Quotes => Past(p, 0) = 1 /\ Upto(s, n) + 1 <= Len(TextOf(s))
           /\ p.style \notin Quotes => Past(p, 0) = 0
           /\ p.style = "single" => TextOf(s)[Upto(s, n) + 1] = "quote"
           /\ p.style = "double" => TextOf(s)[Upto(s, n) + 1] = "dquote"
<1>0. /\ p \in Pieces /\ Upto(s, n) \in Nat /\ Len(Text(p)) \in Nat
      /\ Upto(s, n + 1) = Upto(s, n) + Len(Text(p)) /\ Upto(s, n + 1) <= Len(TextOf(s))
      /\ Len(TextOf(s)) \in Nat
      /\ \A j \in 1 .. Len(Text(p)) : TextOf(s)[Upto(s, n) + j] = Text(p)[j]
  BY PiecePlaces
<1>1. /\ p \in Pieces /\ Upto(s, n) \in Nat /\ Len(Text(p)) \in Nat
      /\ Upto(s, n + 1) = Upto(s, n) + Len(Text(p)) /\ Upto(s, n + 1) <= Len(TextOf(s))
      /\ Len(TextOf(s)) \in Nat
  BY <1>0
<1>2. \A j \in 1 .. Len(Text(p)) : TextOf(s)[Upto(s, n) + j] = Text(p)[j]
  BY <1>0
<1>3. /\ Past(p, 0) = Len(Mark(p.style))
      /\ p.style = "single" => Text(p)[1] = "quote"
      /\ p.style = "double" => Text(p)[1] = "dquote"
  BY <1>1, PieceText
<1>4. /\ p.style \in Quotes => Past(p, 0) = 1
      /\ p.style \notin Quotes => Past(p, 0) = 0
  BY <1>3, MarkIsText DEF Quotes
<1>5. ASSUME p.style \in Quotes PROVE 1 \in 1 .. Len(Text(p)) /\ Upto(s, n) + 1 <= Len(TextOf(s))
  <2>1. Past(p, 0) <= Len(Text(p))
    <3>1. CASE Len(p.atoms) = 0
      <4>1. Len(Text(p)) = Past(p, 0) + Len(p.end) /\ Past(p, 0) \in Nat /\ Len(p.end) \in Nat
        BY <1>1, <3>1, EndPlaces, PieceParts
      <4> QED
        BY <4>1
    <3>2. CASE Len(p.atoms) # 0
      <4>1. 1 \in 1 .. Len(p.atoms) /\ p.atoms[1] \in Atoms
        <5>1. Len(p.atoms) \in Nat
          BY <1>1, PieceParts
        <5>2. 1 \in 1 .. Len(p.atoms)
          BY <3>2, <5>1
        <5> QED
          BY <1>1, <5>2, PieceParts
      <4>2. /\ Past(p, 1 - 1) \in Nat /\ Past(p, 1) <= Len(Text(p))
            /\ Past(p, 1) = Past(p, 1 - 1) + Len(AtomText(p.atoms[1]))
        BY <1>1, <4>1, AtomPlaces
      <4>3. Len(AtomText(p.atoms[1])) \in {1, 2} /\ 1 - 1 = 0
        BY <4>1, AtomTextIsText
      <4> QED
        BY <1>1, <4>2, <4>3
    <3> QED
      BY <3>1, <3>2
  <2> QED
    BY <1>1, <1>4, <1>5, <2>1
<1>6. Past(p, 0) \in Nat
  BY <1>4
<1>7. ASSUME p.style = "single" PROVE TextOf(s)[Upto(s, n) + 1] = "quote"
  BY <1>2, <1>3, <1>5, <1>7 DEF Quotes
<1>8. ASSUME p.style = "double" PROVE TextOf(s)[Upto(s, n) + 1] = "dquote"
  BY <1>2, <1>3, <1>5, <1>8 DEF Quotes
<1> QED
  BY <1>4, <1>5, <1>6, <1>7, <1>8

\* Atom k + 1 of a piece is one character, or two when it is escaped.
AtomStands(text, s, n, k, p, a) ==
    /\ a \in Atoms /\ Past(p, k) \in Nat
    /\ a.escaped => /\ text[Upto(s, n) + Past(p, k) + 1] = "backslash"
                    /\ text[Upto(s, n) + Past(p, k) + 2] = a.char
                    /\ Past(p, k + 1) = Past(p, k) + 2
    /\ ~a.escaped => /\ text[Upto(s, n) + Past(p, k) + 1] = a.char
                     /\ Past(p, k + 1) = Past(p, k) + 1
    /\ Upto(s, n) + Past(p, k + 1) <= Len(text)

LEMMA AtomAt ==
    ASSUME NEW s \in Seq(Pieces), NEW n \in Nat, n < Len(s), NEW p, p = s[n + 1],
           NEW k \in Nat, k < Len(p.atoms), NEW a, a = p.atoms[k + 1]
    PROVE  AtomStands(TextOf(s), s, n, k, p, a)
<1>0. /\ p \in Pieces /\ Upto(s, n) \in Nat /\ Len(Text(p)) \in Nat
      /\ Upto(s, n + 1) = Upto(s, n) + Len(Text(p)) /\ Upto(s, n + 1) <= Len(TextOf(s))
      /\ Len(TextOf(s)) \in Nat
      /\ \A j \in 1 .. Len(Text(p)) : TextOf(s)[Upto(s, n) + j] = Text(p)[j]
  BY PiecePlaces
<1>1. /\ p \in Pieces /\ Upto(s, n) \in Nat /\ Len(Text(p)) \in Nat
      /\ Upto(s, n + 1) = Upto(s, n) + Len(Text(p)) /\ Upto(s, n + 1) <= Len(TextOf(s))
      /\ Len(TextOf(s)) \in Nat
  BY <1>0
<1>2. \A j \in 1 .. Len(Text(p)) : TextOf(s)[Upto(s, n) + j] = Text(p)[j]
  BY <1>0
<1>3. Len(p.atoms) \in Nat
  BY <1>1, PieceParts
<1>4. k + 1 \in 1 .. Len(p.atoms) /\ (k + 1) - 1 = k
  BY <1>3
<1>5. a \in Atoms
  BY <1>1, <1>4, PieceParts
<1>6. /\ Past(p, k) \in Nat /\ Past(p, k + 1) = Past(p, k) + Len(AtomText(a))
      /\ Past(p, k + 1) <= Len(Text(p))
      /\ \A j \in 1 .. Len(AtomText(a)) : Text(p)[Past(p, k) + j] = AtomText(a)[j]
  <2>1. /\ Past(p, (k + 1) - 1) \in Nat
        /\ Past(p, k + 1) = Past(p, (k + 1) - 1) + Len(AtomText(p.atoms[k + 1]))
        /\ Past(p, k + 1) <= Len(Text(p))
        /\ \A j \in 1 .. Len(AtomText(p.atoms[k + 1])) :
              Text(p)[Past(p, (k + 1) - 1) + j] = AtomText(p.atoms[k + 1])[j]
    BY <1>1, <1>4, AtomPlaces
  <2> QED
    BY <1>4, <2>1, Zenon
<1>7. Len(AtomText(a)) \in Nat
  BY <1>5, AtomTextIsText
<1>8. ASSUME NEW j \in 1 .. Len(AtomText(a))
      PROVE  TextOf(s)[Upto(s, n) + Past(p, k) + j] = AtomText(a)[j]
  <2>1. Past(p, k) + j \in 1 .. Len(Text(p))
        /\ Upto(s, n) + Past(p, k) + j = Upto(s, n) + (Past(p, k) + j)
    BY <1>1, <1>6, <1>7, SMTT(30)
  <2>2. TextOf(s)[Upto(s, n) + (Past(p, k) + j)] = Text(p)[Past(p, k) + j]
    BY <1>2, <2>1
  <2> QED
    BY <1>6, <2>1, <2>2, Zenon
<1>9. Upto(s, n) + Past(p, k + 1) <= Len(TextOf(s))
  <2>1. Past(p, k + 1) \in Nat
    BY <1>6, <1>7
  <2>2. Past(p, k + 1) <= Len(Text(p))
    BY <1>6
  <2> QED
    BY <1>1, <2>1, <2>2
<1>10. CASE a.escaped
  <2>1. Len(AtomText(a)) = 2 /\ AtomText(a)[1] = "backslash" /\ AtomText(a)[2] = a.char
    BY <1>5, <1>10, AtomTextIsText
  <2>2. 1 \in 1 .. Len(AtomText(a)) /\ 2 \in 1 .. Len(AtomText(a))
    BY <2>1
  <2>3. /\ TextOf(s)[Upto(s, n) + Past(p, k) + 1] = "backslash"
        /\ TextOf(s)[Upto(s, n) + Past(p, k) + 2] = a.char
    BY <1>8, <2>1, <2>2, Zenon
  <2>4. Past(p, k + 1) = Past(p, k) + 2
    BY <1>6, <2>1, Zenon
  <2> QED
    BY <1>5, <1>6, <1>10, <1>9, <2>3, <2>4, Zenon DEF AtomStands
<1>11. CASE ~a.escaped
  <2>1. Len(AtomText(a)) = 1 /\ AtomText(a)[1] = a.char
    BY <1>5, <1>11, AtomTextIsText
  <2>2. 1 \in 1 .. Len(AtomText(a))
    BY <2>1
  <2>3. TextOf(s)[Upto(s, n) + Past(p, k) + 1] = a.char
    BY <1>8, <2>1, <2>2, Zenon
  <2>4. Past(p, k + 1) = Past(p, k) + 1
    BY <1>6, <2>1, Zenon
  <2> QED
    BY <1>5, <1>6, <1>11, <1>9, <2>3, <2>4, Zenon DEF AtomStands
<1> QED
  BY <1>10, <1>11

\* The end of a piece is nothing or one character, and then the next piece begins.
EndStands(text, s, n, k, p) ==
    /\ Past(p, k) \in Nat /\ Upto(s, n + 1) <= Len(text)
    /\ p.end = <<>> => Upto(s, n + 1) = Upto(s, n) + Past(p, k)
    /\ \A c : p.end = <<c>> => /\ Upto(s, n + 1) = Upto(s, n) + Past(p, k) + 1
                               /\ text[Upto(s, n) + Past(p, k) + 1] = c

LEMMA EndAt ==
    ASSUME NEW s \in Seq(Pieces), NEW n \in Nat, n < Len(s), NEW p, p = s[n + 1]
    PROVE  EndStands(TextOf(s), s, n, Len(p.atoms), p)
<1> DEFINE h == Past(p, Len(p.atoms))
<1>0. /\ p \in Pieces /\ Upto(s, n) \in Nat /\ Len(Text(p)) \in Nat
      /\ Upto(s, n + 1) = Upto(s, n) + Len(Text(p)) /\ Upto(s, n + 1) <= Len(TextOf(s))
      /\ Len(TextOf(s)) \in Nat
      /\ \A j \in 1 .. Len(Text(p)) : TextOf(s)[Upto(s, n) + j] = Text(p)[j]
  BY PiecePlaces
<1>1. /\ p \in Pieces /\ Upto(s, n) \in Nat /\ Len(Text(p)) \in Nat
      /\ Upto(s, n + 1) = Upto(s, n) + Len(Text(p)) /\ Upto(s, n + 1) <= Len(TextOf(s))
  BY <1>0
<1>2. \A j \in 1 .. Len(Text(p)) : TextOf(s)[Upto(s, n) + j] = Text(p)[j]
  BY <1>0
<1>3. h \in Nat /\ Len(Text(p)) = h + Len(p.end)
  BY <1>1, EndPlaces
<1>4. \A j \in 1 .. Len(p.end) : Text(p)[h + j] = p.end[j]
  BY <1>1, EndPlaces
<1> HIDE DEF h
<1>5. ASSUME p.end = <<>> PROVE Upto(s, n + 1) = Upto(s, n) + h
  <2>1. Len(p.end) = 0
    BY <1>5
  <2> QED
    BY <1>1, <1>3, <2>1
<1>6. ASSUME NEW c, p.end = <<c>>
      PROVE  Upto(s, n + 1) = Upto(s, n) + h + 1 /\ TextOf(s)[Upto(s, n) + h + 1] = c
  <2>1. Len(p.end) = 1 /\ p.end[1] = c
    BY <1>6
  <2>2. /\ 1 \in 1 .. Len(p.end) /\ h + 1 \in 1 .. Len(Text(p))
        /\ Upto(s, n + 1) = Upto(s, n) + h + 1 /\ Upto(s, n) + h + 1 = Upto(s, n) + (h + 1)
    BY <1>1, <1>3, <2>1
  <2>3. TextOf(s)[Upto(s, n) + (h + 1)] = Text(p)[h + 1]
    BY <1>2, <2>2
  <2>4. Text(p)[h + 1] = c
    BY <1>4, <2>1, <2>2
  <2> QED
    BY <2>2, <2>3, <2>4, Zenon
<1> QED
  BY <1>1, <1>3, <1>5, <1>6, Zenon DEF h, EndStands

-----------------------------------------------------------------------------
(* What the pieces of a script are *)

\* The parts a piece is put together from.
LEMMA PieceFields ==
    ASSUME NEW p, NEW x, NEW y, NEW z, p = [style |-> x, atoms |-> y, end |-> z]
    PROVE  p.style = x /\ p.atoms = y /\ p.end = z
  OBVIOUS

\* A quoted string, closed or not.
IsQuoted(p) == p.style \in Quotes /\ p.atoms \in Seq(Writable[p.style])

\* The quotes hold what can be written between them.
LEMMA WritableAtoms ==
    ASSUME NEW p, IsQuoted(p), NEW k \in 1 .. Len(p.atoms), NEW a, a = p.atoms[k]
    PROVE  /\ p.style \in {"single", "double"}
           /\ p.style = "single" => ~a.escaped /\ a.char # "quote"
           /\ p.style = "double" => a.escaped \/ (a.char # "dquote" /\ a.char # "backslash")
<1>1. a \in Writable[p.style]
  BY ElementOfSeq DEF IsQuoted
<1>2. Writable.single = Writable["single"] /\ Writable.double = Writable["double"]
  BY Zenon
<1>3. p.style = "single" => ~a.escaped /\ a.char # "quote"
  BY <1>1 DEF Writable
<1>4. p.style = "double" => a.escaped \/ (a.char # "dquote" /\ a.char # "backslash")
  BY <1>1 DEF Writable
<1> QED
  BY <1>3, <1>4 DEF IsQuoted, Quotes

\* A gap, a character outside quotes, a string, and what only the end of a script can be.
Kind(s, n, p) ==
    \/ IsPiece(p) /\ p = Gap
    \/ /\ IsPiece(p) /\ p.style = "bare" /\ p.end = <<>>
       /\ Len(p.atoms) = 1 /\ p.atoms[1] \in Writable.bare
    \/ IsPiece(p) /\ IsQuoted(p) /\ p.end = Mark(p.style)
    \/ n + 1 = Len(s) /\ p.style = "bare" /\ p.end = <<"backslash">> /\ Len(p.atoms) = 0
    \/ n + 1 = Len(s) /\ IsQuoted(p) /\ p.end = <<>>
    \/ n + 1 = Len(s) /\ IsQuoted(p) /\ p.style = "double" /\ p.end = <<"backslash">>

LEMMA Kinds ==
    ASSUME NEW s, IsScript(s), NEW n \in Nat, n < Len(s), NEW p, p = s[n + 1]
    PROVE  p \in Pieces /\ Kind(s, n, p)
<1> USE DEF Kind
<1>1. n + 1 \in 1 .. Len(s) /\ s \in Seq(Pieces)
  BY LenProperties DEF IsScript
<1>2. p \in Pieces
  BY <1>1, ElementOfSeq
<1>3. CASE IsPiece(p)
  <2>1. CASE \E a \in Writable.bare : p = Bare(a)
    BY <1>2, <1>3, <2>1 DEF Bare
  <2>2. CASE \E q \in Quotes : p.atoms \in Seq(Writable[q]) /\ p = Quoted(q, p.atoms)
    <3>1. PICK q \in Quotes : p.atoms \in Seq(Writable[q]) /\ p = Quoted(q, p.atoms)
      BY <2>2
    <3>2. p.style = q /\ p.end = Mark(q)
      BY <3>1, PieceFields DEF Quoted
    <3> QED
      BY <1>2, <1>3, <3>1, <3>2, Zenon DEF IsQuoted
  <2> QED
    BY <1>2, <1>3, <2>1, <2>2 DEF IsPiece
<1>4. CASE n + 1 = Len(s) /\ IsLast(p)
  <2>1. CASE p = Dangling
    <3>1. p.style = "bare" /\ p.end = <<"backslash">> /\ p.atoms = <<>>
      BY <2>1, PieceFields DEF Dangling
    <3>2. Len(p.atoms) = 0
      BY <3>1, EmptySeq
    <3> QED
      BY <1>2, <1>4, <3>1, <3>2, Zenon
  <2>2. CASE \E q \in Quotes : p.atoms \in Seq(Writable[q]) /\ p = Open(q, p.atoms)
    <3>1. PICK q \in Quotes : p.atoms \in Seq(Writable[q]) /\ p = Open(q, p.atoms)
      BY <2>2
    <3>2. p.style = q /\ p.end = <<>>
      BY <3>1, PieceFields DEF Open
    <3> QED
      BY <1>2, <1>4, <3>1, <3>2, Zenon DEF IsQuoted
  <2>3. CASE p.atoms \in Seq(Writable.double) /\ p = OpenThen(p.atoms)
    <3>1. p.style = "double" /\ p.end = <<"backslash">>
      BY <2>3, PieceFields DEF OpenThen
    <3>2. IsQuoted(p)
      BY <2>3, <3>1 DEF IsQuoted, Quotes
    <3> QED
      BY <1>2, <1>4, <3>1, <3>2, Zenon
  <2> QED
    BY <1>4, <2>1, <2>2, <2>3, Zenon DEF IsLast
<1> QED
  BY <1>1, <1>3, <1>4, Zenon DEF IsScript

\* A string that is not the last piece is closed.
LEMMA PieceIsClosed ==
    ASSUME NEW p, IsPiece(p), p.style \in Quotes
    PROVE  p.end = Mark(p.style)
<1>1. p # Gap /\ ~ \E a \in Writable.bare : p = Bare(a)
  BY DEF Gap, Bare, Quotes
<1>2. PICK q \in Quotes : p = Quoted(q, p.atoms)
  BY <1>1, Zenon DEF IsPiece
<1> QED
  BY <1>2, PieceFields DEF Quoted

\* The first character of a piece tells what kind it is of.
StartsWith(s, n, p, c) ==
    \/ c = "white" /\ p = Gap /\ IsPiece(p) /\ Upto(s, n + 1) = Upto(s, n) + 1
    \/ /\ c \in Ordinary /\ p.style = "bare" /\ IsPiece(p)
       /\ Len(p.atoms) = 1 /\ ~p.atoms[1].escaped /\ p.atoms[1].char = c
       /\ Upto(s, n + 1) = Upto(s, n) + 1
    \/ /\ c = "backslash" /\ p.style = "bare" /\ Past(p, 0) = 0
       /\ IF 0 < Len(p.atoms) THEN p.atoms[1].escaped ELSE p.end = <<"backslash">>
    \/ c = "quote" /\ p.style = "single" /\ Past(p, 0) = 1
    \/ c = "dquote" /\ p.style = "double" /\ Past(p, 0) = 1

LEMMA FirstCharacters ==
    ASSUME NEW s, IsScript(s), NEW n \in Nat, n < Len(s), NEW p, p = s[n + 1],
           NEW c, c = TextOf(s)[Upto(s, n) + 1]
    PROVE  Upto(s, n) + 1 <= Len(TextOf(s)) /\ StartsWith(s, n, p, c)
<1> USE DEF StartsWith
<1>1. s \in Seq(Pieces) /\ Len(s) \in Nat
  BY LenProperties DEF IsScript
<1>2. /\ p \in Pieces /\ Upto(s, n) \in Nat /\ Upto(s, n + 1) <= Len(TextOf(s))
      /\ Len(TextOf(s)) \in Nat
  BY <1>1, PiecePlaces
<1>3. /\ Past(p, 0) \in Nat
      /\ p.style \in Quotes => Past(p, 0) = 1 /\ Upto(s, n) + 1 <= Len(TextOf(s))
      /\ p.style \notin Quotes => Past(p, 0) = 0
      /\ p.style = "single" => c = "quote"
      /\ p.style = "double" => c = "dquote"
  BY <1>1, MarkAt
<1>8. /\ p.end = <<>> => Upto(s, n + 1) = Upto(s, n) + Past(p, Len(p.atoms))
      /\ \A e : p.end = <<e>> =>
           /\ Upto(s, n + 1) = Upto(s, n) + Past(p, Len(p.atoms)) + 1
           /\ TextOf(s)[Upto(s, n) + Past(p, Len(p.atoms)) + 1] = e
  <2>1. EndStands(TextOf(s), s, n, Len(p.atoms), p)
    BY <1>1, EndAt, Zenon
  <2> QED
    BY <2>1, Zenon DEF EndStands
<1>4. CASE IsPiece(p) /\ p = Gap
  <2>1. p.style \notin Quotes /\ p.end = <<"white">> /\ Len(p.atoms) = 0
    BY <1>4 DEF Gap, Quotes
  <2>2. /\ Upto(s, n + 1) = Upto(s, n) + Past(p, Len(p.atoms)) + 1
        /\ TextOf(s)[Upto(s, n) + Past(p, Len(p.atoms)) + 1] = "white"
    BY <1>8, <2>1
  <2>3. Upto(s, n) + Past(p, Len(p.atoms)) = Upto(s, n)
    <3>1. Past(p, Len(p.atoms)) = 0
      BY <1>3, <2>1, Zenon
    <3> QED
      BY <1>2, <3>1
  <2>4. c = "white" /\ Upto(s, n + 1) = Upto(s, n) + 1
    BY <2>2, <2>3, Zenon
  <2> QED
    BY <1>2, <1>4, <2>4
<1>5. CASE /\ IsPiece(p) /\ p.style = "bare" /\ p.end = <<>>
           /\ Len(p.atoms) = 1 /\ p.atoms[1] \in Writable.bare
  <2>1. p.style \notin Quotes /\ Past(p, 0) = 0
    BY <1>3, <1>5 DEF Quotes
  <2> DEFINE a == p.atoms[1]
  <2>2. /\ a.escaped => /\ TextOf(s)[Upto(s, n) + Past(p, 0) + 1] = "backslash"
                        /\ Past(p, 0 + 1) = Past(p, 0) + 2
        /\ ~a.escaped => /\ TextOf(s)[Upto(s, n) + Past(p, 0) + 1] = a.char
                         /\ Past(p, 0 + 1) = Past(p, 0) + 1
    <3>1. PICK k \in Nat : k = 0
      OBVIOUS
    <3>2. k < Len(p.atoms) /\ a = p.atoms[k + 1]
      BY <1>5, <3>1
    <3>3. /\ a.escaped => /\ TextOf(s)[Upto(s, n) + Past(p, k) + 1] = "backslash"
                          /\ Past(p, k + 1) = Past(p, k) + 2
          /\ ~a.escaped => /\ TextOf(s)[Upto(s, n) + Past(p, k) + 1] = a.char
                           /\ Past(p, k + 1) = Past(p, k) + 1
      <4> HIDE DEF a
      <4>1. AtomStands(TextOf(s), s, n, k, p, a)
        BY <1>1, <3>2, AtomAt, Zenon
      <4> QED
        BY <4>1, Zenon DEF AtomStands
    <3> QED
      BY <3>1, <3>3, Zenon
  <2>3. Upto(s, n + 1) = Upto(s, n) + Past(p, 1)
    BY <1>5, <1>8
  <2>4. Upto(s, n) + Past(p, 0) + 1 = Upto(s, n) + 1
    BY <1>2, <2>1
  <2>5. CASE a.escaped
    <3>1. c = "backslash"
      BY <2>2, <2>4, <2>5, Zenon
    <3>2. Past(p, 1) = 2
      BY <2>1, <2>2, <2>5
    <3>3. Upto(s, n) + 1 <= Len(TextOf(s))
      BY <1>2, <2>3, <3>2
    <3>4. 0 < Len(p.atoms) /\ p.atoms[1].escaped
      BY <1>5, <2>5
    <3> QED
      BY <1>2, <1>5, <2>1, <3>1, <3>3, <3>4, Zenon
  <2>6. CASE ~a.escaped
    <3>1. c = a.char
      BY <2>2, <2>4, <2>6, Zenon
    <3>2. Past(p, 1) = 1
      BY <2>1, <2>2, <2>6
    <3>3. Upto(s, n + 1) = Upto(s, n) + 1
      BY <2>3, <3>2, Zenon
    <3>4. a.char \in Ordinary
      BY <1>5, <2>6 DEF Writable
    <3> QED
      BY <1>2, <1>5, <2>6, <3>1, <3>3, <3>4, Zenon
  <2> QED
    BY <2>5, <2>6
<1>6. CASE p.style = "bare" /\ p.end = <<"backslash">> /\ Len(p.atoms) = 0
  <2>1. p.style \notin Quotes /\ Past(p, 0) = 0
    BY <1>3, <1>6 DEF Quotes
  <2>2. /\ Upto(s, n + 1) = Upto(s, n) + Past(p, Len(p.atoms)) + 1
        /\ TextOf(s)[Upto(s, n) + Past(p, Len(p.atoms)) + 1] = "backslash"
    BY <1>6, <1>8
  <2>3. Upto(s, n) + Past(p, Len(p.atoms)) = Upto(s, n)
    <3>1. Past(p, Len(p.atoms)) = 0
      BY <1>6, <2>1, Zenon
    <3> QED
      BY <1>2, <3>1
  <2>4. c = "backslash" /\ Upto(s, n) + 1 <= Len(TextOf(s))
    BY <1>2, <2>2, <2>3, Zenon
  <2>5. ~(0 < Len(p.atoms))
    BY <1>6
  <2> QED
    BY <1>2, <1>6, <2>1, <2>4, <2>5, Zenon
<1>7. CASE IsQuoted(p)
  BY <1>2, <1>3, <1>7 DEF IsQuoted, Quotes
<1> QED
  BY <1>4, <1>5, <1>6, <1>7, Kinds, ZenonT(60) DEF Kind

-----------------------------------------------------------------------------
(* What a script means *)

Nothing == [words |-> <<>>, word |-> <<>>]

\* The recursion of Read has a solution, on every range ...
LEMMA ReadExist ==
    ASSUME NEW ss, NEW m \in Nat
    PROVE  \E f : f = [n \in 0 .. m |-> IF n = 0 THEN Nothing ELSE Then(f[n - 1], ss[n])]
<1> DEFINE Solved(k) ==
      \E f : f = [n \in 0 .. k |-> IF n = 0 THEN Nothing ELSE Then(f[n - 1], ss[n])]
<1>1. Solved(0)
  <2> DEFINE g == [n \in 0 .. 0 |-> Nothing]
  <2>1. g = [n \in 0 .. 0 |-> IF n = 0 THEN Nothing ELSE Then(g[n - 1], ss[n])]
    OBVIOUS
  <2> QED
    BY <2>1
<1>2. ASSUME NEW k \in Nat, Solved(k) PROVE Solved(k + 1)
  <2>1. PICK f : f = [n \in 0 .. k |-> IF n = 0 THEN Nothing ELSE Then(f[n - 1], ss[n])]
    BY <1>2
  <2> DEFINE g == [n \in 0 .. k + 1 |-> IF n = 0 THEN Nothing ELSE Then(f[n - 1], ss[n])]
  <2>2. \A n \in 0 .. k : g[n] = f[n]
    BY <2>1
  <2>3. \A n \in 1 .. k + 1 : g[n - 1] = f[n - 1]
    <3> HIDE DEF g
    <3>1. \A n \in 1 .. k + 1 : n - 1 \in 0 .. k
      OBVIOUS
    <3> QED
      BY <2>2, <3>1
  <2>4. \A n \in 0 .. k + 1 : (IF n = 0 THEN Nothing ELSE Then(f[n - 1], ss[n]))
                              = (IF n = 0 THEN Nothing ELSE Then(g[n - 1], ss[n]))
    <3> HIDE DEF g
    <3> TAKE n \in 0 .. k + 1
    <3>1. n # 0 => g[n - 1] = f[n - 1]
      BY <2>3
    <3> QED
      BY <3>1
  <2>5. [n \in 0 .. k + 1 |-> IF n = 0 THEN Nothing ELSE Then(f[n - 1], ss[n])]
        = [n \in 0 .. k + 1 |-> IF n = 0 THEN Nothing ELSE Then(g[n - 1], ss[n])]
    <3> HIDE DEF g
    <3> QED
      BY <2>4
  <2>6. g = [n \in 0 .. k + 1 |-> IF n = 0 THEN Nothing ELSE Then(g[n - 1], ss[n])]
    BY <2>5
  <2> QED
    BY <2>6
<1> DEFINE S == {k \in Nat : Solved(k)}
<1> HIDE DEF Solved
<1>3. 0 \in S /\ \A k \in Nat : k \in S => k + 1 \in S
  BY <1>1, <1>2
<1> HIDE DEF S
<1>4. m \in S
  BY <1>3, SetInduction
<1> QED
  BY <1>4 DEF S, Solved

\* ... so that Read is one: it begins with nothing and takes one piece after the other.
LEMMA ReadStep ==
    ASSUME NEW ss, Len(ss) \in Nat
    PROVE  /\ Read(ss)[0] = Nothing
           /\ \A n \in 1 .. Len(ss) : Read(ss)[n] = Then(Read(ss)[n - 1], ss[n])
<1> DEFINE read[n \in 0 .. Len(ss)] == IF n = 0 THEN Nothing ELSE Then(read[n - 1], ss[n])
<1>1. read = CHOOSE f : f = [n \in 0 .. Len(ss) |-> IF n = 0 THEN Nothing ELSE Then(f[n - 1], ss[n])]
  BY Zenon
<1>2. Read(ss) = read
  BY Zenon DEF Read, Nothing
<1> HIDE DEF read
<1>3. read = [n \in 0 .. Len(ss) |-> IF n = 0 THEN Nothing ELSE Then(read[n - 1], ss[n])]
  BY <1>1, ReadExist, Zenon
<1> QED
  BY <1>2, <1>3

\* The first k characters a piece stands for.
Begun(p, k) == [i \in 1 .. k |-> Value(p, i)]

\* They are added one by one, and are in the end what the piece means.
LEMMA BegunStep ==
    ASSUME NEW p \in Pieces
    PROVE  /\ Begun(p, 0) = <<>> /\ Begun(p, Len(p.atoms)) = Meaning(p)
           /\ \A k \in 0 .. Len(p.atoms) : Begun(p, k) \in Seq(Meant)
           /\ \A k \in Nat : k < Len(p.atoms) =>
                /\ Value(p, k + 1) \in Meant
                /\ Begun(p, k + 1) = Append(Begun(p, k), Value(p, k + 1))
<1>1. Len(p.atoms) \in Nat /\ \A i \in 1 .. Len(p.atoms) : p.atoms[i] \in Atoms
  BY PieceParts
<1>2. ASSUME NEW i \in 1 .. Len(p.atoms) PROVE Value(p, i) \in Meant
  <2>1. p.atoms[i].char \in Chars
    BY <1>1 DEF Atoms
  <2>2. p.atoms[i].char \in Meant /\ "control" \in Meant
    BY <2>1 DEF Meant
  <2> QED
    BY <2>2, Zenon DEF Value
<1>3. Begun(p, 0) = <<>> /\ Begun(p, Len(p.atoms)) = Meaning(p)
  <2>1. 1 .. 0 = {}
    OBVIOUS
  <2> QED
    BY <2>1 DEF Begun, Meaning
<1> DEFINE v(i) == Value(p, i)
<1>4. \A i \in 1 .. Len(p.atoms) : v(i) \in Meant
  BY <1>2
<1>5. \A k : Begun(p, k) = [i \in 1 .. k |-> v(i)]
  BY DEF Begun
<1> HIDE DEF v
<1>6. ASSUME NEW k \in 0 .. Len(p.atoms)
      PROVE  [i \in 1 .. k |-> v(i)] \in Seq(Meant) /\ Len([i \in 1 .. k |-> v(i)]) = k
  <2>1. k \in Nat /\ \A i \in 1 .. k : v(i) \in Meant
    BY <1>1, <1>4
  <2>2. [i \in 1 .. k |-> v(i)] \in Seq(Meant)
    BY <2>1, IsASeq
  <2> QED
    BY <2>1, <2>2
<1>7. ASSUME NEW k \in Nat, k < Len(p.atoms)
      PROVE  v(k + 1) \in Meant /\ Begun(p, k + 1) = Append(Begun(p, k), v(k + 1))
  <2> DEFINE f == [i \in 1 .. k |-> v(i)]
             g == [i \in 1 .. k + 1 |-> v(i)]
             h == Append(f, v(k + 1))
  <2>1. k \in 0 .. Len(p.atoms) /\ k + 1 \in 0 .. Len(p.atoms) /\ k + 1 \in 1 .. Len(p.atoms)
    BY <1>1, <1>7
  <2>2. v(k + 1) \in Meant
    BY <1>4, <2>1
  <2>3. f \in Seq(Meant) /\ Len(f) = k /\ g \in Seq(Meant) /\ Len(g) = k + 1
    BY <1>6, <2>1
  <2>4. (\A i \in 1 .. k : f[i] = v(i)) /\ \A i \in 1 .. k + 1 : g[i] = v(i)
    OBVIOUS
  <2> HIDE DEF f, g
  <2>5. /\ h \in Seq(Meant) /\ Len(h) = k + 1 /\ h[k + 1] = v(k + 1)
        /\ \A i \in 1 .. k : h[i] = f[i]
    BY <2>2, <2>3, AppendProperties
  <2> HIDE DEF h
  <2>6. \A i \in 1 .. k + 1 : i \in 1 .. k \/ i = k + 1
    OBVIOUS
  <2>7. \A i \in 1 .. Len(g) : g[i] = h[i]
    BY <2>3, <2>4, <2>5, <2>6
  <2>8. g = h
    BY <2>3, <2>5, <2>7, SeqEqual
  <2>9. Begun(p, k + 1) = g /\ Begun(p, k) = f
    BY <1>5 DEF f, g
  <2> QED
    BY <2>2, <2>8, <2>9 DEF h
<1> QED
  BY <1>3, <1>5, <1>6, <1>7 DEF v

\* Closing a word, if there is one.
LEMMA CloseWord ==
    ASSUME NEW r, r.words \in Seq(Seq(Meant)), r.word \in Seq(Meant)
    PROVE  /\ Close(r).words \in Seq(Seq(Meant)) /\ Close(r).word = <<>>
           /\ Close(Close(r)) = Close(r)
           /\ r.word = <<>> => Close(r).words = r.words
           /\ r.word # <<>> => Close(r).words = Append(r.words, r.word)
<1>1. CASE r.word = <<>>
  BY <1>1 DEF Close
<1>2. CASE r.word # <<>>
  <2> DEFINE a == Append(r.words, r.word)
  <2>1. a \in Seq(Seq(Meant))
    BY AppendProperties
  <2>2. Close(r) = [words |-> a, word |-> <<>>]
    BY <1>2 DEF Close
  <2> HIDE DEF a
  <2>3. Close(r).words = a /\ Close(r).word = <<>>
    BY <2>2
  <2>4. Close(Close(r)) = Close(r)
    BY <2>3 DEF Close
  <2> QED
    BY <1>2, <2>1, <2>3, <2>4 DEF a
<1> QED
  BY <1>1, <1>2

\* A piece that is no gap adds to the word.
LEMMA ThenPiece ==
    ASSUME NEW r, NEW p \in Pieces, p # Gap
    PROVE  Then(r, p).words = r.words /\ Then(r, p).word = r.word \o Meaning(p)
  BY DEF Then

\* What is read are words of characters.
LEMMA ReadTyped ==
    ASSUME NEW s \in Seq(Pieces), NEW m \in 0 .. Len(s)
    PROVE  Read(s)[m].words \in Seq(Seq(Meant)) /\ Read(s)[m].word \in Seq(Meant)
<1>0. Len(s) \in Nat /\ \A n \in 1 .. Len(s) : s[n] \in Pieces
  BY LenProperties, ElementOfSeq
<1> DEFINE R(n) == Read(s)[n]
           Good(n) == R(n).words \in Seq(Seq(Meant)) /\ R(n).word \in Seq(Meant)
<1>1. R(0) = Nothing /\ \A n \in 1 .. Len(s) : R(n) = Then(R(n - 1), s[n])
  BY <1>0, ReadStep
<1> HIDE DEF R
<1> DEFINE S == {n \in Nat : n <= Len(s) => Good(n)}
<1>2. 0 \in S
  <2>1. R(0).words = <<>> /\ R(0).word = <<>>
    BY <1>1 DEF Nothing
  <2>2. Good(0)
    BY <2>1, EmptySeq
  <2> QED
    BY <2>2
<1>3. ASSUME NEW n \in Nat, n \in S PROVE n + 1 \in S
  <2>1. SUFFICES ASSUME n + 1 <= Len(s) PROVE Good(n + 1)
    OBVIOUS
  <2>2. n + 1 \in 1 .. Len(s) /\ (n + 1) - 1 = n /\ n <= Len(s)
    BY <1>0, <2>1
  <2>3. R(n).words \in Seq(Seq(Meant)) /\ R(n).word \in Seq(Meant)
    BY <1>3, <2>2
  <2>4. R(n + 1) = Then(R(n), s[n + 1])
    <3>1. R(n + 1) = Then(R((n + 1) - 1), s[n + 1])
      BY <1>1, <2>2
    <3> QED
      BY <2>2, <3>1, Zenon
  <2>5. CASE s[n + 1] = Gap
    <3>1. R(n + 1) = Close(R(n))
      BY <2>4, <2>5, Zenon DEF Then
    <3>2. Close(R(n)).words \in Seq(Seq(Meant)) /\ Close(R(n)).word = <<>>
      BY <2>3, CloseWord
    <3> QED
      BY <3>1, <3>2, EmptySeq
  <2>6. CASE s[n + 1] # Gap
    <3> DEFINE p == s[n + 1]
    <3>1. p \in Pieces
      BY <1>0, <2>2
    <3>2. R(n + 1).words = R(n).words /\ R(n + 1).word = R(n).word \o Meaning(p)
      BY <2>4, <2>6, <3>1, ThenPiece, Zenon
    <3>3. Meaning(p) \in Seq(Meant)
      <4>1. Len(p.atoms) \in 0 .. Len(p.atoms)
        BY <3>1, PieceParts
      <4> QED
        BY <3>1, <4>1, BegunStep
    <3> HIDE DEF p
    <3>4. R(n).word \o Meaning(p) \in Seq(Meant)
      BY <2>3, <3>3, ConcatProperties
    <3> QED
      BY <2>3, <3>2, <3>4
  <2> QED
    BY <2>5, <2>6
<1> HIDE DEF S
<1>4. m \in Nat /\ m <= Len(s)
  BY <1>0
<1>5. m \in S
  BY <1>2, <1>3, <1>4, SetInduction
<1> QED
  BY <1>4, <1>5 DEF S, R

-----------------------------------------------------------------------------
(* Types *)

\* What is pushed is a character at its place.
LEMMA PushTyped ==
    ASSUME TypeOK, More, NEW c \in Meant, Push(c)
    PROVE  current_arg' \in Seq(Pushed)
<1>1. [at |-> next, char |-> c] \in Pushed
  BY DEF TypeOK, Pushed
<1> QED
  BY <1>1, AppendProperties DEF TypeOK, Push

\* The words, with the one being read.
LEMMA WithCurrentTyped ==
    ASSUME TypeOK
    PROVE  WithCurrent \in Seq(Seq(Pushed))
  BY AppendProperties DEF TypeOK, WithCurrent

\* The next character is one.
LEMMA NextIsChar ==
    ASSUME TypeOK, More
    PROVE  /\ input[next] \in Chars /\ input[next] \in Meant /\ "control" \in Meant
           /\ Len(input) \in Nat /\ next + 1 \in 1 .. Len(input) + 1
  BY ElementOfSeq DEF TypeOK, More, Meant

\* The parser starts with its types.
LEMMA TypedInit == Init => TypeOK
<1> SUFFICES ASSUME Init PROVE TypeOK
  OBVIOUS
<1>1. input \in Seq(Chars)
  BY TextIsText, ScriptsAssumption DEF Init, IsScript
<1>2. Len(input) \in Nat
  BY <1>1, LenProperties
<1>3. <<>> \in Seq(Pushed) /\ <<>> \in Seq(Seq(Pushed))
  BY EmptySeq
<1>4. next \in 1 .. Len(input) + 1
  BY <1>2 DEF Init
<1> QED
  BY <1>1, <1>3, <1>4, Zenon DEF Init, TypeOK

\* Every arm of the parser keeps the types.
LEMMA TypedStep == TypeOK /\ [Next]_vars => TypeOK'
<1> SUFFICES ASSUME TypeOK, [Next]_vars PROVE TypeOK'
  OBVIOUS
<1> USE DEF given, mode
<1>0. Len(input) \in Nat
  BY LenProperties DEF TypeOK
<1>1. CASE UNCHANGED vars
  BY <1>1 DEF vars, TypeOK
<1>2. CASE EscapedChar
  <2>1. More
    BY <1>2 DEF EscapedChar
  <2>2. current_arg' \in Seq(Pushed)
    BY <1>2, <2>1, NextIsChar, PushTyped DEF EscapedChar
  <2> QED
    BY <1>2, <2>1, <2>2, NextIsChar DEF EscapedChar, TypeOK
<1>3. CASE Literal
  <2>1. More
    BY <1>3 DEF Literal
  <2>2. current_arg' \in Seq(Pushed)
    BY <1>3, <2>1, NextIsChar, PushTyped DEF Literal
  <2> QED
    BY <1>3, <2>1, <2>2, NextIsChar DEF Literal, TypeOK
<1>4. CASE Escape \/ SingleQuote \/ DoubleQuote
  <2>1. More
    BY <1>4 DEF Escape, SingleQuote, DoubleQuote, Reads
  <2>2. next' \in 1 .. Len(input) + 1
    BY <1>4, <2>1, NextIsChar DEF Escape, SingleQuote, DoubleQuote
  <2>3. CASE Escape
    BY <2>2, <2>3 DEF Escape, TypeOK
  <2>4. CASE SingleQuote
    BY <2>2, <2>4 DEF SingleQuote, Reads, TypeOK
  <2>5. CASE DoubleQuote
    BY <2>2, <2>5 DEF DoubleQuote, Reads, TypeOK
  <2> QED
    BY <1>4, <2>3, <2>4, <2>5
<1>5. CASE White
  <2>1. args' \in Seq(Seq(Pushed)) /\ current_arg' \in Seq(Pushed)
    BY <1>5, WithCurrentTyped, EmptySeq DEF White
  <2>2. next' \in 1 .. Len(input) + 1
    BY <1>0, <1>5 DEF White, TypeOK
  <2> QED
    BY <1>5, <2>1, <2>2 DEF White, TypeOK
<1>6. CASE Finish
  <2>1. args' \in Seq(Seq(Pushed)) /\ current_arg' \in Seq(Pushed)
    BY <1>6, WithCurrentTyped, EmptySeq DEF Finish, TypeOK
  <2> QED
    BY <1>6, <2>1 DEF Finish, TypeOK
<1> QED
  BY <1>1, <1>2, <1>3, <1>4, <1>5, <1>6 DEF Next, Parsed

\* The types: one quote at most is open, and no escape is pending within single quotes.
THEOREM TypeCorrect == Spec => []TypeOK
  BY TypedInit, TypedStep, PTL DEF Spec

-----------------------------------------------------------------------------
(* Order *)

\* No word is empty, and between words there is white space, also before the word
\* that has not begun.
Separated ==
    /\ \A w \in 1 .. Len(args) : args[w] # <<>>
    /\ result = "none" /\ current_arg = <<>> /\ args # <<>> =>
         \E i \in 1 .. next - 1 :
            input[i] = "white" /\ Place(Len(args), Len(args[Len(args)])) < i

\* The inductive invariant.
Inv == TypeOK /\ Separated /\ KeepsOrder /\ NothingLost

\* The words so far: none is empty, and each of their characters has a place.
LEMMA WordShape ==
    ASSUME TypeOK, Separated
    PROVE  /\ Words \in Seq(Seq(Pushed)) /\ Len(Words) \in Nat
           /\ \A w \in 1 .. Len(Words) : Len(Words[w]) \in Nat \ {0}
           /\ \A w \in 1 .. Len(Words) : \A k \in 1 .. Len(Words[w]) : Place(w, k) \in Nat
<1>1. Words \in Seq(Seq(Pushed))
  BY WithCurrentTyped DEF Words
<1>2. \A w \in 1 .. Len(Words) : Words[w] \in Seq(Pushed)
  BY <1>1, ElementOfSeq
<1>3. \A w \in 1 .. Len(Words) : Words[w] # <<>>
  <2> TAKE w \in 1 .. Len(Words)
  <2>1. CASE current_arg = <<>>
    BY <2>1 DEF Words, WithCurrent, Separated
  <2>2. CASE current_arg # <<>>
    <3>1. /\ Len(Words) = Len(args) + 1 /\ Len(args) \in Nat
          /\ \A i \in 1 .. Len(args) : Words[i] = args[i]
          /\ Words[Len(args) + 1] = current_arg
      BY <2>2, AppendProperties, LenProperties DEF Words, WithCurrent, TypeOK
    <3> QED
      BY <2>2, <3>1 DEF Separated
  <2> QED
    BY <2>1, <2>2
<1>4. \A w \in 1 .. Len(Words) : Len(Words[w]) \in Nat \ {0}
  BY <1>2, <1>3, EmptySeq
<1>5. ASSUME NEW w \in 1 .. Len(Words), NEW k \in 1 .. Len(Words[w])
      PROVE  Place(w, k) \in Nat
  <2>1. Words[w][k] \in Pushed
    BY <1>2, ElementOfSeq
  <2> QED
    BY <2>1 DEF Place, Pushed
<1> QED
  BY <1>1, <1>4, <1>5, LenProperties

\* A character that is pushed becomes the last of the last word, or a word of its own;
\* all others stay where they are.
LEMMA PushedWords ==
    ASSUME TypeOK, Separated, More, NEW c \in Meant, Push(c), UNCHANGED args
    PROVE  \E n \in Nat \ {0} :
             /\ Len(Words') = n /\ Len(Words) \in {n - 1, n}
             /\ \A w \in 1 .. n - 1 : Words'[w] = Words[w]
             /\ Len(Words) = n =>
                  /\ Len(Words'[n]) = Len(Words[n]) + 1
                  /\ \A k \in 1 .. Len(Words[n]) : Words'[n][k] = Words[n][k]
             /\ Len(Words) = n - 1 => Len(Words'[n]) = 1 /\ current_arg = <<>> /\ Words = args
             /\ Words'[n][Len(Words'[n])] = [at |-> next, char |-> c]
<1> DEFINE ch == [at |-> next, char |-> c]
           n  == Len(args) + 1
<1>1. ch \in Pushed
  BY DEF TypeOK, Pushed
<1>2. /\ current_arg \in Seq(Pushed) /\ args \in Seq(Seq(Pushed)) /\ Len(args) \in Nat
      /\ current_arg' \in Seq(Pushed) /\ current_arg' # <<>>
      /\ Len(current_arg') = Len(current_arg) + 1 /\ Len(current_arg) \in Nat
      /\ \A k \in 1 .. Len(current_arg) : current_arg'[k] = current_arg[k]
      /\ current_arg'[Len(current_arg) + 1] = ch
  BY <1>1, AppendProperties, LenProperties DEF TypeOK, Push
<1> HIDE DEF ch
<1>3. /\ Len(Words') = n /\ Words'[n] = current_arg'
      /\ \A w \in 1 .. Len(args) : Words'[w] = args[w]
  <2>1. Words' = Append(args, current_arg')
    BY <1>2 DEF Words, WithCurrent
  <2> QED
    BY <1>2, <2>1, AppendProperties
<1>4. n \in Nat \ {0} /\ n - 1 = Len(args)
  BY <1>2
<1> HIDE DEF n
<1>5. CASE current_arg = <<>>
  <2>1. Words = args /\ Len(current_arg) = 0 /\ Len(Words) = n - 1 /\ Len(Words) # n
    BY <1>5, <1>4 DEF Words, WithCurrent
  <2>2. Len(Words'[n]) = 1 /\ Words'[n][1] = ch
    BY <1>2, <1>3, <2>1
  <2> QED
    BY <1>3, <1>5, <1>4, <2>1, <2>2 DEF ch
<1>6. CASE current_arg # <<>>
  <2>1. Words = Append(args, current_arg)
    BY <1>6 DEF Words, WithCurrent
  <2>2. /\ Len(Words) = n /\ Words[n] = current_arg
        /\ \A w \in 1 .. Len(args) : Words[w] = args[w]
    BY <1>2, <1>4, <2>1, AppendProperties DEF n
  <2>3. /\ Len(Words'[n]) = Len(Words[n]) + 1
        /\ \A k \in 1 .. Len(Words[n]) : Words'[n][k] = Words[n][k]
        /\ Words'[n][Len(Words'[n])] = ch
    BY <1>2, <1>3, <2>2
  <2> QED
    BY <1>3, <1>4, <2>2, <2>3 DEF ch
<1> QED
  BY <1>5, <1>6

\* A place before one that was passed lies before the next.
LEMMA LastPlace ==
    ASSUME NEW m \in Nat, NEW i \in 1 .. m - 1
    PROVE  /\ i \in 1 .. m /\ i < m
           /\ \A a, b \in Nat : a < b /\ b < i => a < i
  OBVIOUS

\* Pushing the next character keeps the order and loses nothing.
LEMMA PushKeeps ==
    ASSUME Inv, More, NEW c \in Meant, Push(c), UNCHANGED <<args, input>>,
           next' = next + 1, c = input[next] \/ (c = "control" /\ input[next] = "t")
    PROVE  KeepsOrder' /\ NothingLost' /\ Separated'
<1>0. /\ TypeOK /\ Separated /\ KeepsOrder /\ NothingLost
      /\ next \in Nat \ {0} /\ result = "none"
  BY LenProperties DEF Inv, TypeOK, More
<1>1. PICK n \in Nat \ {0} :
         /\ Len(Words') = n /\ Len(Words) \in {n - 1, n}
         /\ \A w \in 1 .. n - 1 : Words'[w] = Words[w]
         /\ Len(Words) = n =>
              /\ Len(Words'[n]) = Len(Words[n]) + 1
              /\ \A k \in 1 .. Len(Words[n]) : Words'[n][k] = Words[n][k]
         /\ Len(Words) = n - 1 => Len(Words'[n]) = 1 /\ current_arg = <<>> /\ Words = args
         /\ Words'[n][Len(Words'[n])] = [at |-> next, char |-> c]
  BY <1>0, PushedWords
<1>2. /\ Len(Words) \in Nat
      /\ \A w \in 1 .. Len(Words) : Len(Words[w]) \in Nat \ {0}
      /\ \A w \in 1 .. Len(Words) : \A k \in 1 .. Len(Words[w]) :
            Words[w][k].at \in 1 .. next - 1
  BY <1>0, WordShape DEF KeepsOrder, Place
<1>3. \A w \in 1 .. Len(Words) : Words[w][Len(Words[w])].at \in Nat
  <2> TAKE w \in 1 .. Len(Words)
  <2>1. Len(Words[w]) \in 1 .. Len(Words[w])
    BY <1>2
  <2>2. Words[w][Len(Words[w])].at \in 1 .. next - 1
    BY <1>2, <2>1
  <2> QED
    BY <2>2
<1> DEFINE m == Len(Words'[n])
<1>4. /\ m \in Nat \ {0} /\ Words'[n][m].at = next /\ Words'[n][m].char = c
      /\ m > 1 => Len(Words) = n /\ m = Len(Words[n]) + 1
  <2>1. CASE Len(Words) = n
    BY <1>1, <1>2, <2>1
  <2>2. CASE Len(Words) = n - 1
    <3>1. m = 1 /\ Words'[n][m].at = next /\ Words'[n][m].char = c
      BY <1>1, <2>2
    <3> QED
      BY <3>1
  <2> QED
    BY <1>1, <2>1, <2>2
\* Every place but the last is an old one.
<1>5. ASSUME NEW w \in 1 .. n, NEW k \in 1 .. Len(Words'[w]), w # n \/ k # m
      PROVE  /\ w \in 1 .. Len(Words) /\ k \in 1 .. Len(Words[w])
             /\ Words'[w][k] = Words[w][k]
  BY <1>1, <1>2, <1>4, <1>5
<1>6. ASSUME NEW w \in 1 .. Len(Words), NEW k \in 1 .. Len(Words[w])
      PROVE  /\ w \in 1 .. n /\ k \in 1 .. Len(Words'[w])
             /\ Words'[w][k] = Words[w][k]
  BY <1>1, <1>2, <1>4
<1>7. KeepsOrder'
  <2>0. Len(Words') = n /\ next' - 1 = next /\ input' = input
    BY <1>0, <1>1
  <2> SUFFICES ASSUME NEW w \in 1 .. n, NEW k \in 1 .. Len(Words'[w])
               PROVE  /\ Words'[w][k].at \in 1 .. next
                      /\ \/ Words'[w][k].char = input[Words'[w][k].at]
                         \/ Words'[w][k].char = "control" /\ input[Words'[w][k].at] = "t"
                      /\ \A l \in 1 .. k - 1 : Words'[w][l].at < Words'[w][k].at
                      /\ \A v \in 1 .. w - 1 : \A l \in 1 .. Len(Words'[v]) :
                            Words'[v][l].at < Words'[w][k].at
    BY <2>0 DEF KeepsOrder, Place
  <2>1. CASE w = n /\ k = m
    <3>1. Words'[w][k].at = next /\ Words'[w][k].char = c
      BY <1>4, <2>1
    <3>2. ASSUME NEW l \in 1 .. k - 1 PROVE Words'[w][l].at < next
      <4>1. l \in 1 .. Len(Words'[w]) /\ l # m
        BY <1>4, <2>1
      <4>2. w \in 1 .. Len(Words) /\ l \in 1 .. Len(Words[w]) /\ Words'[w][l] = Words[w][l]
        BY <1>5, <4>1
      <4> QED
        BY <1>0, <1>2, <4>2
    <3>3. ASSUME NEW v \in 1 .. w - 1, NEW l \in 1 .. Len(Words'[v])
          PROVE  Words'[v][l].at < next
      <4>1. v \in 1 .. n /\ v # n
        BY <2>1
      <4>2. v \in 1 .. Len(Words) /\ l \in 1 .. Len(Words[v]) /\ Words'[v][l] = Words[v][l]
        BY <1>5, <4>1
      <4> QED
        BY <1>0, <1>2, <4>2
    <3> QED
      BY <1>0, <3>1, <3>2, <3>3
  <2>2. CASE w # n \/ k # m
    <3>1. w \in 1 .. Len(Words) /\ k \in 1 .. Len(Words[w]) /\ Words'[w][k] = Words[w][k]
      BY <1>5, <2>2
    <3>2. /\ Words[w][k].at \in 1 .. next - 1
          /\ \/ Words[w][k].char = input[Words[w][k].at]
             \/ Words[w][k].char = "control" /\ input[Words[w][k].at] = "t"
          /\ \A l \in 1 .. k - 1 : Words[w][l].at < Words[w][k].at
          /\ \A v \in 1 .. w - 1 : \A l \in 1 .. Len(Words[v]) :
                Words[v][l].at < Words[w][k].at
      BY <1>0, <3>1 DEF KeepsOrder, Place
    <3>3. ASSUME NEW l \in 1 .. k - 1 PROVE Words'[w][l].at < Words'[w][k].at
      <4>1. l \in 1 .. Len(Words[w])
        BY <1>2, <3>1
      <4>2. Words'[w][l] = Words[w][l]
        BY <1>6, <3>1, <4>1
      <4> QED
        BY <3>1, <3>2, <4>2
    <3>4. ASSUME NEW v \in 1 .. w - 1, NEW l \in 1 .. Len(Words'[v])
          PROVE  Words'[v][l].at < Words'[w][k].at
      <4>1. v \in 1 .. n /\ v # n
        BY <1>1, <3>1
      <4>2. l \in 1 .. Len(Words[v]) /\ Words'[v][l] = Words[v][l]
        BY <1>5, <4>1
      <4> QED
        BY <3>1, <3>2, <4>2
    <3> QED
      BY <1>0, <3>1, <3>2, <3>3, <3>4
  <2> QED
    BY <2>1, <2>2
<1>8. NothingLost'
  <2>0. Len(Words') = n /\ next' - 1 = next /\ input' = input
    BY <1>0, <1>1
  <2>1. ASSUME NEW i \in 1 .. next, input[i] \in Ordinary
        PROVE  \E w \in 1 .. n : \E k \in 1 .. Len(Words'[w]) : Words'[w][k].at = i
    <3>1. CASE i = next
      BY <1>1, <1>4, <3>1
    <3>2. CASE i # next
      <4>0. PICK w \in 1 .. Len(Words) : \E k \in 1 .. Len(Words[w]) : Words[w][k].at = i
        BY <1>0, <2>1, <3>2 DEF NothingLost, Place
      <4>1. PICK k \in 1 .. Len(Words[w]) : Words[w][k].at = i
        BY <4>0
      <4>2. w \in 1 .. n /\ k \in 1 .. Len(Words'[w]) /\ Words'[w][k].at = i
        BY <1>6, <4>1
      <4> QED
        BY <4>2
    <3> QED
      BY <3>1, <3>2
  <2>2. ASSUME NEW v \in 1 .. n, NEW w \in 1 .. n, v < w
        PROVE  \E i \in 1 .. next : /\ input[i] = "white"
                                    /\ Words'[v][Len(Words'[v])].at < i
                                    /\ i < Words'[w][1].at
    <3>1. v \in 1 .. n - 1 /\ v \in 1 .. Len(Words) /\ Words'[v] = Words[v]
      BY <1>1, <2>2
    <3>2. CASE w \in 1 .. Len(Words)
      <4>1. 1 \in 1 .. Len(Words[w]) /\ Words'[w][1] = Words[w][1]
        BY <1>2, <1>6, <3>2
      <4>2. PICK i \in 1 .. next - 1 : /\ input[i] = "white"
                                      /\ Words[v][Len(Words[v])].at < i /\ i < Words[w][1].at
        BY <1>0, <2>2, <3>1, <3>2 DEF NothingLost, Place
      <4>3. i \in 1 .. next
        BY <1>0
      <4> QED
        BY <3>1, <4>1, <4>2, <4>3
    <3>3. CASE w \notin 1 .. Len(Words)
      <4>1. w = n /\ Len(Words) = n - 1 /\ m = 1 /\ current_arg = <<>> /\ Words = args
        BY <1>1, <2>2, <3>3
      <4>2. Words'[w][1].at = next
        BY <1>4, <4>1
      <4>3. PICK i \in 1 .. next - 1 :
               input[i] = "white" /\ Words[n - 1][Len(Words[n - 1])].at < i
        <5>1. args # <<>> /\ Len(args) = n - 1
          BY <3>1, <4>1
        <5>2. \E i \in 1 .. next - 1 :
                 input[i] = "white" /\ args[Len(args)][Len(args[Len(args)])].at < i
          BY <1>0, <4>1, <5>1 DEF Separated, Place
        <5> QED
          BY <4>1, <5>1, <5>2
      <4>4. CASE v = n - 1
        <5>1. Words'[v][Len(Words'[v])].at < i
          BY <3>1, <4>3, <4>4, Zenon
        <5>2. i \in 1 .. next /\ i < Words'[w][1].at
          BY <1>0, <4>2, LastPlace, Zenon
        <5> QED
          BY <4>3, <5>1, <5>2, Zenon
      <4>5. CASE v # n - 1
        <5>1. /\ n - 1 \in 1 .. Len(Words) /\ v \in 1 .. (n - 1) - 1
              /\ Len(Words[v]) \in 1 .. Len(Words[v])
              /\ Len(Words[n - 1]) \in 1 .. Len(Words[n - 1])
          BY <1>2, <3>1, <4>1, <4>5
        <5>2. Words[v][Len(Words[v])].at < Words[n - 1][Len(Words[n - 1])].at
          BY <1>0, <5>1 DEF KeepsOrder, Place
        <5>3. /\ Words[v][Len(Words[v])].at \in Nat
              /\ Words[n - 1][Len(Words[n - 1])].at \in Nat
          BY <1>3, <3>1, <5>1
        <5> QED
          <6>1. Words[v][Len(Words[v])].at < i
            BY <1>0, <4>3, <5>2, <5>3, LastPlace, SMTT(30)
          <6>2. Words'[v][Len(Words'[v])].at < i
            BY <3>1, <6>1, Zenon
          <6>3. i \in 1 .. next /\ i < Words'[w][1].at
            BY <1>0, <4>2, LastPlace, Zenon
          <6> QED
            BY <4>3, <6>2, <6>3, Zenon
      <4> QED
        BY <4>4, <4>5
    <3> QED
      BY <3>2, <3>3
  <2> QED
    BY <2>0, <2>1, <2>2 DEF NothingLost, Place
<1>9. Separated'
  <2>1. current_arg' # <<>>
    <3>1. [at |-> next, char |-> c] \in Pushed /\ current_arg \in Seq(Pushed)
      BY <1>0 DEF TypeOK, Pushed
    <3> QED
      BY <3>1, AppendProperties DEF Push
  <2> QED
    BY <1>0, <2>1 DEF Separated
<1> QED
  BY <1>7, <1>8, <1>9

\* Going on from one place to a later one.
LEMMA GoingOn ==
    ASSUME NEW a \in Nat, NEW b \in Nat, a <= b
    PROVE  /\ \A i \in 1 .. a - 1 : i \in 1 .. b - 1
           /\ \A i \in 1 .. b - 1 : i \in 1 .. a - 1 \/ i \in a .. b - 1
           /\ a # 0 /\ a < b => a \in a .. b - 1 /\ a \in 1 .. b - 1
  OBVIOUS

\* Passing over characters that are not ordinary, with the words as they are, keeps the
\* order and loses nothing.
LEMMA SkipKeeps ==
    ASSUME Inv, UNCHANGED input, Words' = Words, next' \in Nat, next <= next',
           \A i \in next .. next' - 1 : input[i] \notin Ordinary
    PROVE  KeepsOrder' /\ NothingLost'
<1>0. /\ TypeOK /\ KeepsOrder /\ NothingLost
      /\ next \in Nat \ {0} /\ next' \in Nat /\ next <= next'
  BY LenProperties DEF Inv, TypeOK
<1>1. /\ \A i \in 1 .. next - 1 : i \in 1 .. next' - 1
      /\ \A i \in 1 .. next' - 1 : i \in 1 .. next - 1 \/ i \in next .. next' - 1
  BY <1>0, GoingOn
<1>2. KeepsOrder'
  BY <1>0, <1>1 DEF KeepsOrder, Place
<1>3. NothingLost'
  <2>1. ASSUME NEW i \in 1 .. next' - 1, input[i] \in Ordinary
        PROVE  \E w \in 1 .. Len(Words) : \E k \in 1 .. Len(Words[w]) : Words[w][k].at = i
    <3>1. i \in 1 .. next - 1
      <4>1. i \notin next .. next' - 1
        BY <2>1
      <4> QED
        BY <1>1, <4>1
    <3> QED
      BY <1>0, <2>1, <3>1 DEF NothingLost, Place
  <2>2. ASSUME NEW v \in 1 .. Len(Words), NEW w \in 1 .. Len(Words), v < w
        PROVE  \E i \in 1 .. next' - 1 : /\ input[i] = "white"
                                         /\ Words[v][Len(Words[v])].at < i
                                         /\ i < Words[w][1].at
    BY <1>0, <1>1, <2>2 DEF NothingLost, Place
  <2> QED
    BY <2>1, <2>2 DEF NothingLost, Place
<1> QED
  BY <1>2, <1>3

\* The parser starts with no words.
LEMMA InvInit == Init => Inv
<1> SUFFICES ASSUME Init PROVE Inv
  OBVIOUS
<1>1. TypeOK
  BY TypedInit
<1>2. Words = <<>> /\ Len(Words) = 0 /\ next = 1 /\ args = <<>> /\ Len(args) = 0
  BY DEF Init, Words, WithCurrent
<1>3. Separated
  BY <1>2 DEF Separated
<1>4. KeepsOrder /\ NothingLost
  BY <1>2 DEF KeepsOrder, NothingLost
<1> QED
  BY <1>1, <1>3, <1>4 DEF Inv

\* Every arm of the parser keeps the invariant.
LEMMA InvStep == Inv /\ [Next]_vars => Inv'
<1> SUFFICES ASSUME Inv, [Next]_vars PROVE Inv'
  OBVIOUS
<1> USE DEF given, mode
<1>0. /\ TypeOK /\ TypeOK' /\ Separated /\ KeepsOrder /\ NothingLost
      /\ next \in Nat \ {0} /\ Len(input) \in Nat
  BY TypedStep, LenProperties DEF Inv, TypeOK
<1>1. CASE UNCHANGED vars
  <2>1. UNCHANGED <<input, next, args, current_arg, result>> /\ Words' = Words
    BY <1>1 DEF vars, Words, WithCurrent
  <2>2. KeepsOrder' /\ NothingLost'
    <3>1. next' \in Nat /\ next <= next' /\ next .. next' - 1 = {}
      BY <1>0, <2>1
    <3> QED
      BY <2>1, <3>1, SkipKeeps
  <2>3. Separated'
    BY <1>0, <2>1 DEF Separated, Place
  <2> QED
    BY <1>0, <2>2, <2>3 DEF Inv
<1>2. CASE EscapedChar \/ Literal
  <2> DEFINE c == IF EscapedChar /\ in_double_quote /\ input[next] = "t"
                  THEN "control" ELSE input[next]
  <2>1. /\ More /\ UNCHANGED <<args, input>> /\ next' = next + 1
        /\ c = input[next] \/ (c = "control" /\ input[next] = "t")
    BY <1>2 DEF EscapedChar, Literal
  <2>2. Push(c)
    <3>1. CASE EscapedChar
      BY <3>1 DEF EscapedChar
    <3>2. CASE Literal
      <4>1. ~EscapedChar
        BY <3>2 DEF Literal, EscapedChar
      <4> QED
        BY <3>2, <4>1 DEF Literal
    <3> QED
      BY <1>2, <3>1, <3>2
  <2>3. c \in Meant
    BY <1>0, <2>1, NextIsChar
  <2> HIDE DEF c
  <2> QED
    BY <1>0, <2>1, <2>2, <2>3, PushKeeps DEF Inv
<1>3. CASE Escape \/ SingleQuote \/ DoubleQuote
  <2>1. /\ UNCHANGED <<input, args, current_arg, result>> /\ next' = next + 1
        /\ input[next] \notin Ordinary
    BY <1>3 DEF Escape, SingleQuote, DoubleQuote, Reads, Ordinary
  <2>2. Words' = Words
    BY <2>1 DEF Words, WithCurrent
  <2>3. KeepsOrder' /\ NothingLost'
    <3>1. \A i \in next .. next' - 1 : input[i] \notin Ordinary
      BY <1>0, <2>1
    <3> QED
      BY <1>0, <2>1, <2>2, <3>1, SkipKeeps
  <2>4. Separated'
    <3>1. \A i : i \in 1 .. next - 1 => i \in 1 .. next' - 1
      BY <1>0, <2>1
    <3>2. ASSUME result = "none", current_arg = <<>>, args # <<>>
          PROVE  Words = args
      BY <3>2 DEF Words, WithCurrent
    <3> QED
      BY <1>0, <2>1, <2>2, <3>1, <3>2 DEF Separated, Place
  <2> QED
    BY <1>0, <2>3, <2>4 DEF Inv
<1>4. CASE White
  <2>1. /\ UNCHANGED <<input, result>> /\ args' = WithCurrent /\ current_arg' = <<>>
        /\ next' \in next + 1 .. Len(input) + 1
        /\ \A i \in next .. next' - 1 : input[i] = "white"
    BY <1>4 DEF White
  <2>2. Words' = Words /\ args' = Words
    BY <2>1 DEF Words, WithCurrent
  <2>3. KeepsOrder' /\ NothingLost'
    <3>1. next' \in Nat /\ next <= next'
      BY <1>0, <2>1
    <3>2. \A i \in next .. next' - 1 : input[i] \notin Ordinary
      BY <2>1 DEF Ordinary
    <3> QED
      BY <2>1, <2>2, <3>1, <3>2, SkipKeeps
  <2>4. Separated'
    <3>1. \A w \in 1 .. Len(Words) : Len(Words[w]) \in Nat \ {0}
      BY <1>0, WordShape
    <3>2. \A w \in 1 .. Len(args') : args'[w] # <<>>
      BY <2>2, <3>1
    <3>3. ASSUME Words # <<>>
          PROVE  \E i \in 1 .. next' - 1 : /\ input[i] = "white"
                                          /\ Words[Len(Words)][Len(Words[Len(Words)])].at < i
      <4>1. Len(Words) \in 1 .. Len(Words)
        BY <1>0, <3>3, WordShape, EmptySeq
      <4>2. Len(Words[Len(Words)]) \in 1 .. Len(Words[Len(Words)])
        BY <3>1, <4>1
      <4>3. Words[Len(Words)][Len(Words[Len(Words)])].at \in 1 .. next - 1
        BY <1>0, <4>1, <4>2 DEF KeepsOrder, Place
      <4>4. next \in 1 .. next' - 1 /\ input[next] = "white"
        <5>1. next' \in Nat /\ next < next' /\ next <= next'
          BY <1>0, <2>1
        <5>2. next \in next .. next' - 1 /\ next \in 1 .. next' - 1
          BY <1>0, <5>1, GoingOn, Zenon
        <5> QED
          BY <2>1, <5>2
      <4>5. Words[Len(Words)][Len(Words[Len(Words)])].at < next
        BY <1>0, <4>3
      <4> QED
        BY <4>4, <4>5
    <3> QED
      BY <2>1, <2>2, <3>2, <3>3 DEF Separated, Place
  <2> QED
    BY <1>0, <2>3, <2>4 DEF Inv
<1>5. CASE Finish
  <2>1. /\ UNCHANGED <<input, next>> /\ result' # "none"
        /\ \/ UNCHANGED <<args, current_arg>>
           \/ args' = WithCurrent /\ current_arg' = <<>>
    BY <1>5 DEF Finish
  <2>2. Words' = Words /\ (args' = args \/ args' = Words)
    BY <2>1 DEF Words, WithCurrent
  <2>3. KeepsOrder' /\ NothingLost'
    <3>1. next' \in Nat /\ next <= next' /\ next .. next' - 1 = {}
      BY <1>0, <2>1
    <3> QED
      BY <2>1, <2>2, <3>1, SkipKeeps
  <2>4. Separated'
    <3>1. \A w \in 1 .. Len(Words) : Words[w] # <<>>
      BY <1>0, WordShape
    <3> QED
      BY <1>0, <2>1, <2>2, <3>1 DEF Separated
  <2> QED
    BY <1>0, <2>3, <2>4 DEF Inv
<1> QED
  BY <1>1, <1>2, <1>3, <1>4, <1>5 DEF Next, Parsed

-----------------------------------------------------------------------------
THEOREM Invariance == Spec => []Inv
  BY InvInit, InvStep, PTL DEF Spec

\* What the words hold is in the order of the input, each character at most once, and is
\* what the input has there; no ordinary character is lost, and a word ends only at white
\* space: for every input, not only those a run lists.
THEOREM TextKept == Spec => []WordsAreTheText
<1>1. Inv => WordsAreTheText
  BY DEF Inv, WordsAreTheText
<1> QED
  BY <1>1, Invariance, PTL

-----------------------------------------------------------------------------
(* The words that were meant *)

\* The words as characters, without their places.
Spellings(ws) == [i \in 1 .. Len(ws) |-> Spelled(ws[i])]

\* What is in the words so far.
IsRead(words, word) == Spellings(args) = words /\ Spelled(current_arg) = word

\* A word has as many characters as places.
LEMMA SpelledTyped ==
    ASSUME NEW w \in Seq(Pushed)
    PROVE  /\ Spelled(w) \in Seq(Meant) /\ Len(Spelled(w)) = Len(w) /\ Len(w) \in Nat
           /\ \A i \in 1 .. Len(w) : Spelled(w)[i] = w[i].char
           /\ w = <<>> <=> Spelled(w) = <<>>
<1>1. Len(w) \in Nat /\ \A i \in 1 .. Len(w) : w[i] \in Pushed
  BY LenProperties, ElementOfSeq
<1>2. \A i \in 1 .. Len(w) : w[i].char \in Meant
  BY <1>1 DEF Pushed
<1>3. Spelled(w) \in Seq(Meant)
  BY <1>1, <1>2, IsASeq DEF Spelled
<1>4. Len(Spelled(w)) = Len(w) /\ \A i \in 1 .. Len(w) : Spelled(w)[i] = w[i].char
  BY <1>1 DEF Spelled
<1>5. w = <<>> <=> Spelled(w) = <<>>
  BY <1>3, <1>4, EmptySeq
<1> QED
  BY <1>1, <1>3, <1>4, <1>5

\* One more character in a word is one more in what it spells.
LEMMA SpelledPush ==
    ASSUME NEW w \in Seq(Pushed), NEW c \in Meant, NEW i \in Nat
    PROVE  Spelled(Append(w, [at |-> i, char |-> c])) = Append(Spelled(w), c)
<1> DEFINE ch == [at |-> i, char |-> c]
           x  == Append(w, ch)
           y  == Append(Spelled(w), c)
<1>1. ch \in Pushed /\ ch.char = c
  BY DEF Pushed
<1> HIDE DEF ch
<1>2. /\ x \in Seq(Pushed) /\ Len(x) = Len(w) + 1 /\ x[Len(w) + 1] = ch
      /\ \A k \in 1 .. Len(w) : x[k] = w[k]
  BY <1>1, AppendProperties
<1>3. /\ Spelled(w) \in Seq(Meant) /\ Len(Spelled(w)) = Len(w) /\ Len(w) \in Nat
      /\ \A k \in 1 .. Len(w) : Spelled(w)[k] = w[k].char
  BY SpelledTyped
<1>4. /\ y \in Seq(Meant) /\ Len(y) = Len(w) + 1 /\ y[Len(w) + 1] = c
      /\ \A k \in 1 .. Len(w) : y[k] = w[k].char
  <2> DEFINE z == Spelled(w)
  <2> HIDE DEF z
  <2>1. z \in Seq(Meant) /\ Len(z) = Len(w) /\ \A k \in 1 .. Len(w) : z[k] = w[k].char
    BY <1>3 DEF z
  <2>2. y = Append(z, c)
    BY DEF z
  <2> HIDE DEF y
  <2> QED
    BY <1>3, <2>1, <2>2, AppendProperties
<1> HIDE DEF x, y
<1>5. /\ Spelled(x) \in Seq(Meant) /\ Len(Spelled(x)) = Len(x)
      /\ \A k \in 1 .. Len(x) : Spelled(x)[k] = x[k].char
  BY <1>2, SpelledTyped
<1>6. \A k \in 1 .. Len(w) + 1 : k \in 1 .. Len(w) \/ k = Len(w) + 1
  BY <1>3
<1>7. \A k \in 1 .. Len(Spelled(x)) : Spelled(x)[k] = y[k]
  BY <1>1, <1>2, <1>4, <1>5, <1>6
<1>8. Spelled(x) = y
  BY <1>2, <1>4, <1>5, <1>7, SeqEqual
<1> QED
  BY <1>8 DEF x, y, ch

\* One more word.
LEMMA SpellingsAppend ==
    ASSUME NEW ws \in Seq(Seq(Pushed)), NEW w \in Seq(Pushed)
    PROVE  Spellings(ws) \in Seq(Seq(Meant)) /\ Spellings(Append(ws, w)) = Append(Spellings(ws), Spelled(w))
<1> DEFINE M == Seq(Meant)
           v == Spelled(w)
           z == Spellings(ws)
           x == Append(ws, w)
           y == Append(z, v)
<1>1. /\ x \in Seq(Seq(Pushed)) /\ Len(x) = Len(ws) + 1 /\ x[Len(ws) + 1] = w /\ Len(ws) \in Nat
      /\ \A k \in 1 .. Len(ws) : x[k] = ws[k]
  BY AppendProperties, LenProperties
<1>2. v \in M /\ \A k \in 1 .. Len(ws) : Spelled(ws[k]) \in M
  <2>1. \A k \in 1 .. Len(ws) : ws[k] \in Seq(Pushed)
    BY ElementOfSeq
  <2> QED
    BY <2>1, SpelledTyped
<1> HIDE DEF M
<1>3. z \in Seq(M)
  BY <1>1, <1>2, IsASeq DEF Spellings
<1>4. Len(z) = Len(ws) /\ \A k \in 1 .. Len(ws) : z[k] = Spelled(ws[k])
  BY <1>1 DEF Spellings
<1> HIDE DEF z, v, x
<1>5. /\ y \in Seq(M) /\ Len(y) = Len(ws) + 1 /\ y[Len(ws) + 1] = v
      /\ \A k \in 1 .. Len(ws) : y[k] = Spelled(ws[k])
  BY <1>1, <1>2, <1>3, <1>4, AppendProperties
<1> HIDE DEF y
<1>6. \A k \in 1 .. Len(ws) + 1 : k \in 1 .. Len(ws) \/ k = Len(ws) + 1
  BY <1>1
<1>7. \A k \in 1 .. Len(x) : Spelled(x[k]) = y[k]
  BY <1>1, <1>5, <1>6 DEF v
<1>8. Spellings(x) \in Seq(M)
  <2>1. \A k \in 1 .. Len(x) : Spelled(x[k]) \in M
    <3>1. \A k \in 1 .. Len(x) : x[k] \in Seq(Pushed)
      BY <1>1, ElementOfSeq
    <3> QED
      BY <3>1, SpelledTyped DEF M
  <2>2. Len(x) \in Nat
    BY <1>1
  <2> QED
    BY <2>1, <2>2, IsASeq DEF Spellings
<1>9. Len(Spellings(x)) = Len(x) /\ \A k \in 1 .. Len(x) : Spellings(x)[k] = Spelled(x[k])
  BY <1>1 DEF Spellings
<1>10. Spellings(x) = y
  BY <1>1, <1>5, <1>7, <1>8, <1>9, SeqEqual, ZenonT(60)
<1> QED
  BY <1>3, <1>10 DEF M, v, x, y, z

\* A character that is pushed is read.
LEMMA PushIsRead ==
    ASSUME TypeOK, NEW words, NEW word, IsRead(words, word), NEW c \in Meant, Push(c), UNCHANGED args
    PROVE  Spellings(args') = words /\ Spelled(current_arg') = Append(word, c)
<1>1. current_arg \in Seq(Pushed) /\ next \in Nat
  BY LenProperties DEF TypeOK
<1>2. Spelled(Append(current_arg, [at |-> next, char |-> c])) = Append(Spelled(current_arg), c)
  BY <1>1, SpelledPush
<1> QED
  BY <1>2, Zenon DEF Push, IsRead

\* A word that ends is closed.
LEMMA CloseIsRead ==
    ASSUME TypeOK, NEW r, IsRead(r.words, r.word)
    PROVE  Spellings(WithCurrent) = Close(r).words /\ Close(r).word = <<>> /\ Spelled(<<>>) = <<>>
<1>1. /\ args \in Seq(Seq(Pushed)) /\ current_arg \in Seq(Pushed)
      /\ Spellings(args) = r.words /\ Spelled(current_arg) = r.word
  BY DEF TypeOK, IsRead
<1>2. /\ r.words \in Seq(Seq(Meant)) /\ r.word \in Seq(Meant)
      /\ current_arg = <<>> <=> r.word = <<>>
      /\ Spellings(Append(args, current_arg)) = Append(r.words, r.word)
  <2>1. /\ Spellings(args) \in Seq(Seq(Meant))
        /\ Spellings(Append(args, current_arg)) = Append(Spellings(args), Spelled(current_arg))
    BY <1>1, SpellingsAppend
  <2>2. /\ Spelled(current_arg) \in Seq(Meant)
        /\ current_arg = <<>> <=> Spelled(current_arg) = <<>>
    BY <1>1, SpelledTyped
  <2> QED
    BY <1>1, <2>1, <2>2, Zenon
<1>3. /\ Close(r).word = <<>>
      /\ r.word = <<>> => Close(r).words = r.words
      /\ r.word # <<>> => Close(r).words = Append(r.words, r.word)
  BY <1>2, CloseWord
<1>4. Spelled(<<>>) = <<>>
  <2>1. <<>> \in Seq(Pushed)
    BY EmptySeq
  <2> QED
    BY <2>1, SpelledTyped
<1>5. CASE current_arg = <<>>
  BY <1>1, <1>2, <1>3, <1>4, <1>5, Zenon DEF WithCurrent
<1>6. CASE current_arg # <<>>
  BY <1>1, <1>2, <1>3, <1>4, <1>6, Zenon DEF WithCurrent
<1> QED
  BY <1>5, <1>6

\* What the next piece adds to what is read.
LEMMA ReadNext ==
    ASSUME NEW s \in Seq(Pieces), NEW n \in Nat, n < Len(s), NEW p, p = s[n + 1]
    PROVE  /\ Read(s)[n].words \in Seq(Seq(Meant)) /\ Read(s)[n].word \in Seq(Meant)
           /\ p = Gap => Read(s)[n + 1] = Close(Read(s)[n])
           /\ p # Gap => /\ Read(s)[n + 1].words = Read(s)[n].words
                         /\ Read(s)[n + 1].word = Read(s)[n].word \o Meaning(p)
<1>1. Len(s) \in Nat
  BY LenProperties
<1>2. n \in 0 .. Len(s) /\ n + 1 \in 1 .. Len(s) /\ (n + 1) - 1 = n
  BY <1>1
<1>3. Read(s)[n].words \in Seq(Seq(Meant)) /\ Read(s)[n].word \in Seq(Meant)
  BY <1>2, ReadTyped
<1>4. p \in Pieces
  BY <1>2, ElementOfSeq
<1>5. Read(s)[n + 1] = Then(Read(s)[n], p)
  <2>1. Read(s)[n + 1] = Then(Read(s)[(n + 1) - 1], s[n + 1])
    BY <1>1, <1>2, ReadStep
  <2> QED
    BY <1>2, <2>1, Zenon
<1>6. p = Gap => Read(s)[n + 1] = Close(Read(s)[n])
  BY <1>5, Zenon DEF Then
<1>7. p # Gap => /\ Read(s)[n + 1].words = Read(s)[n].words
                 /\ Read(s)[n + 1].word = Read(s)[n].word \o Meaning(p)
  BY <1>4, <1>5, ThenPiece, Zenon
<1> QED
  BY <1>3, <1>6, <1>7

\* Appending to the end of two sequences appends to the second.
LEMMA AppendToConcat ==
    ASSUME NEW X, NEW u \in Seq(X), NEW v \in Seq(X), NEW x \in X
    PROVE  u \o Append(v, x) = Append(u \o v, x)
<1> DEFINE w == u \o v
           l == u \o Append(v, x)
           r == Append(w, x)
           z == Append(v, x)
<1>1. /\ w \in Seq(X) /\ Len(u) \in Nat /\ Len(v) \in Nat /\ Len(w) = Len(u) + Len(v)
      /\ \A i \in 1 .. Len(u) : w[i] = u[i]
      /\ \A i \in 1 .. Len(v) : w[Len(u) + i] = v[i]
  BY ConcatPlaces
<1>2. /\ z \in Seq(X) /\ Len(z) = Len(v) + 1 /\ z[Len(v) + 1] = x
      /\ \A i \in 1 .. Len(v) : z[i] = v[i]
  BY AppendProperties
<1>3. l = u \o z
  OBVIOUS
<1> HIDE DEF l, w, z
<1>4. /\ l \in Seq(X) /\ Len(l) = Len(u) + Len(z)
      /\ \A i \in 1 .. Len(u) : l[i] = u[i]
      /\ \A i \in 1 .. Len(z) : l[Len(u) + i] = z[i]
  <2>1. z \in Seq(X)
    BY <1>2
  <2>2. /\ l \in Seq(X) /\ Len(u) \in Nat /\ Len(z) \in Nat /\ Len(l) = Len(u) + Len(z)
        /\ \A i \in 1 .. Len(u) : l[i] = u[i]
        /\ \A i \in 1 .. Len(z) : l[Len(u) + i] = z[i]
    BY <1>3, <2>1, ConcatPlaces
  <2> QED
    BY <2>2
<1>5. /\ r \in Seq(X) /\ Len(r) = Len(w) + 1 /\ r[Len(w) + 1] = x
      /\ \A i \in 1 .. Len(w) : r[i] = w[i]
  BY <1>1, AppendProperties
<1> HIDE DEF r
<1>6. ASSUME NEW i \in 1 .. Len(l) PROVE l[i] = r[i]
  <2>1. CASE i \in 1 .. Len(u)
    BY <1>1, <1>4, <1>5, <2>1
  <2>2. CASE \E j \in 1 .. Len(v) : i = Len(u) + j
    <3>1. PICK j \in 1 .. Len(v) : i = Len(u) + j
      BY <2>2
    <3>2. j \in 1 .. Len(z) /\ i \in 1 .. Len(w)
      BY <1>1, <1>2, <3>1
    <3> QED
      BY <1>1, <1>2, <1>4, <1>5, <3>1, <3>2
  <2>3. CASE i = Len(u) + Len(v) + 1
    <3>1. /\ Len(v) + 1 \in 1 .. Len(z) /\ Len(u) + (Len(v) + 1) = i /\ Len(w) + 1 = i
      BY <1>1, <1>2, <2>3
    <3> QED
      BY <1>2, <1>4, <1>5, <3>1, Zenon
  <2>4. \/ i \in 1 .. Len(u)
        \/ i - Len(u) \in 1 .. Len(v) /\ i = Len(u) + (i - Len(u))
        \/ i = Len(u) + Len(v) + 1
    <3>1. Len(u) \in Nat /\ Len(v) \in Nat /\ Len(l) = Len(u) + Len(v) + 1 /\ i \in 1 .. Len(l)
      BY <1>1, <1>2, <1>4
    <3> QED
      BY <3>1
  <2> QED
    BY <2>1, <2>2, <2>3, <2>4
<1>7. Len(l) = Len(r)
  BY <1>1, <1>2, <1>4, <1>5
<1>8. l = r
  BY <1>4, <1>5, <1>6, <1>7, SeqEqual
<1> QED
  BY <1>8 DEF l, r, w

\* A word grows with the piece that is being read.
LEMMA WordGrows ==
    ASSUME NEW p \in Pieces, NEW word \in Seq(Meant)
    PROVE  /\ word \o Begun(p, 0) = word /\ word \o Begun(p, Len(p.atoms)) = word \o Meaning(p)
           /\ \A k \in Nat : k < Len(p.atoms) =>
                /\ Value(p, k + 1) \in Meant
                /\ word \o Begun(p, k + 1) = Append(word \o Begun(p, k), Value(p, k + 1))
<1>1. /\ Begun(p, 0) = <<>> /\ Begun(p, Len(p.atoms)) = Meaning(p)
      /\ \A k \in 0 .. Len(p.atoms) : Begun(p, k) \in Seq(Meant)
      /\ \A k \in Nat : k < Len(p.atoms) =>
           /\ Value(p, k + 1) \in Meant
           /\ Begun(p, k + 1) = Append(Begun(p, k), Value(p, k + 1))
  BY BegunStep
<1>2. Len(p.atoms) \in Nat
  BY PieceParts
<1>3. word \o Begun(p, 0) = word
  BY <1>1, ConcatEmptySeq
<1>4. ASSUME NEW k \in Nat, k < Len(p.atoms)
      PROVE  /\ Value(p, k + 1) \in Meant
             /\ word \o Begun(p, k + 1) = Append(word \o Begun(p, k), Value(p, k + 1))
  <2>1. k \in 0 .. Len(p.atoms)
    BY <1>2, <1>4
  <2> DEFINE b == Begun(p, k)
             v == Value(p, k + 1)
  <2>2. b \in Seq(Meant) /\ v \in Meant /\ Begun(p, k + 1) = Append(b, v)
    BY <1>1, <1>4, <2>1
  <2> HIDE DEF b, v
  <2>3. word \o Append(b, v) = Append(word \o b, v)
    BY <2>2, AppendToConcat
  <2> QED
    BY <2>2, <2>3, Zenon DEF b, v
<1> QED
  BY <1>1, <1>3, <1>4, Zenon

\* White space between two pieces is one gap per character, and all of it ends one word.
LEMMA GapsInARow ==
    ASSUME NEW s, IsScript(s), NEW n \in 0 .. Len(s), \A i \in 1 .. n : IsPiece(s[i]),
           NEW d \in Nat,
           \A j \in 1 .. d : /\ Upto(s, n) + j <= Len(TextOf(s))
                             /\ TextOf(s)[Upto(s, n) + j] = "white"
    PROVE  /\ n + d \in 0 .. Len(s) /\ Upto(s, n + d) = Upto(s, n) + d
           /\ \A i \in 1 .. n + d : IsPiece(s[i])
           /\ d # 0 => Read(s)[n + d] = Close(Read(s)[n])
<1> DEFINE R(i) == Read(s)[i]
           U(i) == Upto(s, i)
           Q(e) == /\ n + e <= Len(s) /\ U(n + e) = U(n) + e
                   /\ \A i \in 1 .. n + e : IsPiece(s[i])
                   /\ Close(R(n + e)) = Close(R(n))
                   /\ e # 0 => R(n + e) = Close(R(n))
           S == {e \in Nat : e <= d => Q(e)}
<1>1. /\ s \in Seq(Pieces) /\ Len(s) \in Nat /\ n \in Nat /\ n <= Len(s)
  <2>1. s \in Seq(Pieces) /\ Len(s) \in Nat
    BY LenProperties DEF IsScript
  <2> QED
    BY <2>1
<1>2. (\A i \in 0 .. Len(s) : U(i) \in Nat) /\ U(Len(s)) = Len(TextOf(s))
  BY <1>1, UptoEnds
<1>3. R(n).words \in Seq(Seq(Meant)) /\ R(n).word \in Seq(Meant)
  BY <1>1, ReadTyped
<1>4. Close(Close(R(n))) = Close(R(n))
  BY <1>3, CloseWord
<1>5. \A j \in 1 .. d : U(n) + j <= Len(TextOf(s)) /\ TextOf(s)[U(n) + j] = "white"
  OBVIOUS
<1>6. ASSUME NEW m \in Nat, m < Len(s), TextOf(s)[U(m) + 1] = "white"
      PROVE  s[m + 1] = Gap /\ IsPiece(s[m + 1]) /\ U(m + 1) = U(m) + 1 /\ R(m + 1) = Close(R(m))
  <2> DEFINE c == TextOf(s)[U(m) + 1]
             p == s[m + 1]
  <2>1. c = "white" /\ c \notin Ordinary
    BY <1>6 DEF Ordinary
  <2>2. p = Gap /\ IsPiece(p) /\ U(m + 1) = U(m) + 1
    <3>1. c = TextOf(s)[Upto(s, m) + 1]
      OBVIOUS
    <3> HIDE DEF c, p
    <3>2. p = s[m + 1]
      BY DEF p
    <3> QED
      BY <1>6, <2>1, <3>1, <3>2, FirstCharacters DEF StartsWith
  <2> QED
    BY <1>1, <1>6, <2>2, ReadNext
<1> HIDE DEF R, U
<1>7. 0 \in S
  <2>1. n + 0 = n /\ U(n) + 0 = U(n)
    BY <1>1, <1>2
  <2> QED
    BY <1>1, <2>1
<1>8. ASSUME NEW e \in Nat, e \in S PROVE e + 1 \in S
  <2>1. SUFFICES ASSUME e + 1 <= d PROVE Q(e + 1)
    OBVIOUS
  <2>2. e <= d /\ e + 1 \in 1 .. d
    BY <2>1
  <2>3. Q(e)
    BY <1>8, <2>2
  <2>4. PICK m \in Nat : m = n + e
    BY <1>1
  <2>5. /\ m <= Len(s) /\ U(m) = U(n) + e /\ Close(R(m)) = Close(R(n))
        /\ \A i \in 1 .. m : IsPiece(s[i])
    BY <2>3, <2>4
  <2> HIDE DEF Q, S
  <2>6. U(n) \in Nat /\ U(m) + 1 = U(n) + (e + 1)
    BY <1>1, <1>2, <2>5
  <2>7. TextOf(s)[U(m) + 1] = "white" /\ U(m) + 1 <= Len(TextOf(s))
    BY <1>5, <2>2, <2>6
  <2>8. m < Len(s)
    <3>1. m # Len(s)
      <4> SUFFICES ASSUME m = Len(s) PROVE FALSE
        OBVIOUS
      <4>1. U(m) = Len(TextOf(s)) /\ U(m) \in Nat
        BY <1>1, <1>2
      <4>2. U(m) + 1 <= U(m)
        BY <2>7, <4>1
      <4> QED
        BY <4>1, <4>2
    <3> QED
      BY <1>1, <2>5, <3>1
  <2>9. s[m + 1] = Gap /\ IsPiece(s[m + 1]) /\ U(m + 1) = U(m) + 1 /\ R(m + 1) = Close(R(m))
    BY <1>6, <2>7, <2>8
  <2>10. /\ n + (e + 1) = m + 1 /\ m + 1 <= Len(s) /\ e + 1 # 0
         /\ \A i \in 1 .. m + 1 : i \in 1 .. m \/ i = m + 1
    BY <1>1, <2>4, <2>8
  <2>11. U(m + 1) = U(n) + (e + 1)
    BY <2>6, <2>9
  <2>12. \A i \in 1 .. m + 1 : IsPiece(s[i])
    BY <2>5, <2>9, <2>10
  <2>13. R(m + 1) = Close(R(n)) /\ Close(R(m + 1)) = Close(R(n))
    BY <1>4, <2>5, <2>9, Zenon
  <2> QED
    BY <2>10, <2>11, <2>12, <2>13, Zenon DEF Q
<1> HIDE DEF S
<1>9. d \in S
  BY <1>7, <1>8, SetInduction
<1>10. Q(d)
  BY <1>9 DEF S
<1> QED
  BY <1>1, <1>10 DEF U, R

\* The parser is between two pieces: the words are what the pieces before mean.
Between(n) ==
    /\ next = Upto(script, n) + 1
    /\ ~in_single_quote /\ ~in_double_quote /\ ~escaped
    /\ \A i \in 1 .. n : IsPiece(script[i])
    /\ IsRead(Read(script)[n].words, Read(script)[n].word)

\* It is within piece p, after k of its atoms; after the backslash of the next one too
\* when escaped. The quotes that are open are those of the piece.
Inside(n, k, p) ==
    /\ next = Upto(script, n) + Past(p, k) + (IF escaped THEN 2 ELSE 1)
    /\ in_single_quote <=> p.style = "single"
    /\ in_double_quote <=> p.style = "double"
    /\ p # Gap /\ (p.style = "bare" => escaped)
    /\ escaped => IF k < Len(p.atoms) THEN p.atoms[k + 1].escaped ELSE p.end = <<"backslash">>
    /\ \A i \in 1 .. n : IsPiece(script[i])
    /\ IsRead(Read(script)[n].words, Read(script)[n].word \o Begun(p, k))

\* The parser follows the script.
Follows == result = "none" =>
    \/ \E n \in 0 .. Len(script) : Between(n)
    \/ \E n \in 0 .. Len(script) - 1 : \E k \in 0 .. Len(script[n + 1].atoms) :
          Inside(n, k, script[n + 1])

\* What is given stays given.
Given == script \in Scripts /\ input = TextOf(script)

LEMMA GivenScript ==
    ASSUME Given
    PROVE  /\ IsScript(script) /\ script \in Seq(Pieces) /\ Len(script) \in Nat
           /\ Upto(script, Len(script)) = Len(input) /\ Len(input) \in Nat
<1>1. IsScript(script) /\ script \in Seq(Pieces) /\ input = TextOf(script)
  BY ScriptsAssumption DEF Given, IsScript
<1>2. Len(script) \in Nat /\ Upto(script, Len(script)) = Len(input)
  BY <1>1, LenProperties, UptoEnds
<1>3. Len(input) \in Nat
  BY <1>1, TextIsText, LenProperties
<1> QED
  BY <1>1, <1>2, <1>3

\* Where a step may lead.
LEMMA ToBetween ==
    ASSUME script' = script, result' = "none", NEW n \in 0 .. Len(script),
           next' = Upto(script, n) + 1,
           ~in_single_quote', ~in_double_quote', ~escaped',
           \A i \in 1 .. n : IsPiece(script[i]),
           Spellings(args') = Read(script)[n].words, Spelled(current_arg') = Read(script)[n].word
    PROVE  Follows' /\ WordsAsQuoted'
<1>1. Between(n)'
  BY Zenon DEF Between, IsRead
<1>2. Follows'
  BY <1>1, Zenon DEF Follows
<1>3. WordsAsQuoted'
  BY DEF WordsAsQuoted
<1> QED
  BY <1>2, <1>3

LEMMA ToInside ==
    ASSUME script' = script, result' = "none", NEW n \in 0 .. Len(script) - 1, NEW p, p = script[n + 1],
           NEW k \in 0 .. Len(p.atoms), Inside(n, k, p)'
    PROVE  Follows' /\ WordsAsQuoted'
<1>1. Inside(n, k, script[n + 1])'
  BY Zenon
<1>2. \E m \in 0 .. Len(script') - 1 : \E l \in 0 .. Len(script'[m + 1].atoms) :
         Inside(m, l, script[m + 1])'
  BY <1>1, Zenon
<1>3. Follows'
  BY <1>2, Zenon DEF Follows
<1>4. WordsAsQuoted'
  BY DEF WordsAsQuoted
<1> QED
  BY <1>3, <1>4

\* Around a piece.
LEMMA ThePiece ==
    ASSUME Given, NEW n \in 0 .. Len(script) - 1, NEW p, p = script[n + 1]
    PROVE  /\ p \in Pieces /\ Len(p.atoms) \in Nat
           /\ n \in Nat /\ n < Len(script) /\ n + 1 \in 0 .. Len(script)
           /\ Upto(script, n) \in Nat /\ Upto(script, n + 1) \in Nat
           /\ Read(script)[n].words \in Seq(Seq(Meant)) /\ Read(script)[n].word \in Seq(Meant)
<1>1. script \in Seq(Pieces) /\ Len(script) \in Nat
  BY GivenScript
<1>2. /\ n \in Nat /\ n < Len(script) /\ n + 1 \in 0 .. Len(script)
      /\ n \in 0 .. Len(script) /\ n + 1 \in 1 .. Len(script)
  BY <1>1
<1>3. p \in Pieces
  BY <1>1, <1>2, ElementOfSeq
<1>4. Len(p.atoms) \in Nat
  BY <1>3, PieceParts
<1>5. Upto(script, n) \in Nat /\ Upto(script, n + 1) \in Nat
  BY <1>1, <1>2, UptoEnds
<1>6. Read(script)[n].words \in Seq(Seq(Meant)) /\ Read(script)[n].word \in Seq(Meant)
  BY <1>1, <1>2, ReadTyped
<1> QED
  BY <1>2, <1>3, <1>4, <1>5, <1>6

\* The end of the input, with no quote open.
LEMMA FinishOk ==
    ASSUME TypeOK, Finish, ~in_single_quote, ~in_double_quote, ~IsOpen(script),
           IsRead(Read(script)[Len(script)].words, Read(script)[Len(script)].word)
    PROVE  Follows' /\ WordsAsQuoted'
<1>1. result' = "ok" /\ args' = WithCurrent /\ script' = script
  BY DEF Finish, given
<1>2. Spellings(args') = WordsOf(script)
  BY <1>1, CloseIsRead, Zenon DEF WordsOf
<1>3. [i \in 1 .. Len(args') |-> Spelled(args'[i])] = WordsOf(script')
  BY <1>1, <1>2, Zenon DEF Spellings
<1>4. ~IsOpen(script') /\ result' # "unclosed" /\ result' # "none"
  BY <1>1
<1>5. WordsAsQuoted'
  BY <1>3, <1>4 DEF WordsAsQuoted
<1>6. Follows'
  BY <1>4 DEF Follows
<1> QED
  BY <1>5, <1>6

\* The end of the input, with a quote open.
LEMMA FinishUnclosed ==
    ASSUME Finish, in_single_quote \/ in_double_quote, IsOpen(script)
    PROVE  Follows' /\ WordsAsQuoted'
<1>1. result' = "unclosed" /\ script' = script
  BY DEF Finish, given
<1>2. WordsAsQuoted'
  BY <1>1 DEF WordsAsQuoted
<1>3. Follows'
  BY <1>1 DEF Follows
<1> QED
  BY <1>2, <1>3

\* The arms of the parser, by what they need.
LEMMA Arms ==
    ASSUME TypeOK, Next, result = "none"
    PROVE  /\ EscapedChar \/ Escape \/ SingleQuote \/ DoubleQuote \/ White \/ Literal \/ Finish
           /\ next > Len(input) => Finish
           /\ EscapedChar => escaped
           /\ Escape \/ SingleQuote \/ DoubleQuote \/ White \/ Literal => ~escaped
           /\ Finish => next > Len(input)
           /\ script' = script /\ (result' = "none" \/ Finish)
<1>1. EscapedChar \/ Escape \/ SingleQuote \/ DoubleQuote \/ White \/ Literal \/ Finish
  BY DEF Next, Parsed
<1>2. EscapedChar => More /\ escaped /\ script' = script /\ result' = "none"
  BY DEF EscapedChar, given
<1>3. Escape \/ SingleQuote \/ DoubleQuote \/ White \/ Literal =>
        More /\ ~escaped /\ script' = script /\ result' = "none"
  BY DEF Escape, SingleQuote, DoubleQuote, White, Literal, Reads, given
<1>4. Finish => next > Len(input) /\ script' = script
  BY DEF Finish, given
<1>5. ASSUME next > Len(input) PROVE Finish
  <2>1. CASE More
    <3>1. next <= Len(input)
      BY <2>1 DEF More
    <3>2. next \in Nat /\ Len(input) \in Nat
      BY LenProperties DEF TypeOK
    <3> QED
      BY <1>5, <3>1, <3>2
  <2> QED
    BY <1>1, <1>2, <1>3, <2>1
<1> QED
  BY <1>1, <1>2, <1>3, <1>4, <1>5

\* After the last piece there is only the end.
LEMMA BetweenEnd ==
    ASSUME TypeOK, Given, result = "none", Between(Len(script)), Next
    PROVE  Follows' /\ WordsAsQuoted'
<1>1. Finish
  <2>1. next = Len(input) + 1 /\ Len(input) \in Nat
    BY GivenScript, Zenon DEF Between
  <2>2. next > Len(input)
    BY <2>1
  <2> QED
    BY <2>2, Arms
<1>2. /\ ~in_single_quote /\ ~in_double_quote
      /\ \A i \in 1 .. Len(script) : IsPiece(script[i])
      /\ IsRead(Read(script)[Len(script)].words, Read(script)[Len(script)].word)
  BY DEF Between
<1>3. ~IsOpen(script)
  BY <1>2, PieceIsClosed DEF IsOpen
<1> QED
  BY <1>1, <1>2, <1>3, FinishOk

\* White space between pieces.
LEMMA BetweenWhite ==
    ASSUME TypeOK, Given, result = "none", NEW n \in 0 .. Len(script) - 1, Between(n), White
    PROVE  Follows' /\ WordsAsQuoted'
<1>1. /\ IsScript(script) /\ Len(script) \in Nat /\ Len(input) \in Nat /\ input = TextOf(script)
  BY GivenScript DEF Given
<1>2. /\ next = Upto(script, n) + 1 /\ ~in_single_quote /\ ~in_double_quote /\ ~escaped
      /\ \A i \in 1 .. n : IsPiece(script[i])
      /\ IsRead(Read(script)[n].words, Read(script)[n].word)
  BY DEF Between
<1>3. /\ args' = WithCurrent /\ current_arg' = <<>> /\ script' = script /\ result' = "none"
      /\ next' \in next + 1 .. Len(input) + 1
      /\ \A i \in next .. next' - 1 : input[i] = "white"
      /\ ~in_single_quote' /\ ~in_double_quote' /\ ~escaped'
  BY <1>2 DEF White, given, mode
<1>4. Upto(script, n) \in Nat /\ n \in 0 .. Len(script)
  <2>1. PICK p : p = script[n + 1]
    OBVIOUS
  <2> QED
    BY <1>1, <2>1, ThePiece
<1> DEFINE d == next' - next
           u == Upto(script, n)
<1>5. d \in Nat /\ d # 0 /\ next' = (u + d) + 1
  BY <1>1, <1>2, <1>3, <1>4
<1>6. ASSUME NEW j \in 1 .. d PROVE u + j <= Len(TextOf(script)) /\ TextOf(script)[u + j] = "white"
  <2>1. u + j \in next .. next' - 1 /\ u + j <= Len(input)
    BY <1>1, <1>2, <1>3, <1>4, <1>6, SMTT(30)
  <2> QED
    BY <1>1, <1>3, <2>1
<1>7. PICK e \in Nat : e = d
  BY <1>5
<1>8. /\ n + e \in 0 .. Len(script) /\ Upto(script, n + e) = Upto(script, n) + e
      /\ \A i \in 1 .. n + e : IsPiece(script[i])
      /\ e # 0 => Read(script)[n + e] = Close(Read(script)[n])
  <2>1. \A j \in 1 .. e : /\ Upto(script, n) + j <= Len(TextOf(script))
                          /\ TextOf(script)[Upto(script, n) + j] = "white"
    BY <1>6, <1>7
  <2> QED
    BY <1>1, <1>2, <1>4, <2>1, GapsInARow
<1>9. PICK m \in 0 .. Len(script) : m = n + e
  BY <1>8
<1>10. next' = Upto(script, m) + 1
  BY <1>5, <1>7, <1>8, <1>9, Zenon
<1>11. Read(script)[m] = Close(Read(script)[n]) /\ \A i \in 1 .. m : IsPiece(script[i])
  BY <1>5, <1>7, <1>8, <1>9, Zenon
<1>12. Spellings(args') = Read(script)[m].words /\ Spelled(current_arg') = Read(script)[m].word
  <2> DEFINE r == Read(script)[n]
  <2>1. IsRead(r.words, r.word)
    BY <1>2
  <2> HIDE DEF r
  <2>2. Spellings(WithCurrent) = Close(r).words /\ Close(r).word = <<>> /\ Spelled(<<>>) = <<>>
    BY <2>1, CloseIsRead
  <2> QED
    BY <1>3, <1>11, <2>2, Zenon DEF r
<1> HIDE DEF d, u
<1> QED
  BY <1>3, <1>10, <1>11, <1>12, ToBetween

\* From between two pieces into the next, or over it.
LEMMA BetweenStep ==
    ASSUME TypeOK, Given, result = "none", NEW n \in 0 .. Len(script) - 1, Between(n), Next
    PROVE  Follows' /\ WordsAsQuoted'
<1>1. PICK p : p = script[n + 1]
  OBVIOUS
<1>2. /\ p \in Pieces /\ Len(p.atoms) \in Nat
      /\ n \in Nat /\ n < Len(script) /\ n + 1 \in 0 .. Len(script)
      /\ Upto(script, n) \in Nat /\ Upto(script, n + 1) \in Nat
      /\ Read(script)[n].words \in Seq(Seq(Meant)) /\ Read(script)[n].word \in Seq(Meant)
  BY <1>1, ThePiece
<1>3. /\ next = Upto(script, n) + 1 /\ ~in_single_quote /\ ~in_double_quote /\ ~escaped
      /\ \A i \in 1 .. n : IsPiece(script[i])
      /\ IsRead(Read(script)[n].words, Read(script)[n].word)
  BY DEF Between
<1>4. IsScript(script) /\ input = TextOf(script) /\ script \in Seq(Pieces) /\ Len(input) \in Nat
  BY GivenScript DEF Given
<1>5. PICK c : c = TextOf(script)[Upto(script, n) + 1]
  OBVIOUS
<1>6. Upto(script, n) + 1 <= Len(TextOf(script)) /\ StartsWith(script, n, p, c)
  BY <1>1, <1>2, <1>4, <1>5, FirstCharacters, Zenon
<1>7. input[next] = c /\ ~(next > Len(input))
  <2>1. input[next] = c
    BY <1>3, <1>4, <1>5, Zenon
  <2>2. next <= Len(input)
    BY <1>3, <1>4, <1>6, Zenon
  <2> QED
    BY <1>2, <1>3, <1>4, <2>1, <2>2
<1>8. /\ Escape \/ SingleQuote \/ DoubleQuote \/ White \/ Literal
      /\ script' = script /\ result' = "none"
  BY <1>3, <1>7, Arms
<1>9. Read(script)[n].word \o Begun(p, 0) = Read(script)[n].word /\ (p.style # "gap" => p # Gap)
  BY <1>2, WordGrows, SMTT(30) DEF Gap
<1>10. PICK k \in 0 .. Len(p.atoms) : k = 0 /\ k + 1 = 1
  BY <1>2
<1>11. /\ Spellings(args) = Read(script)[n].words
       /\ Spelled(current_arg) = Read(script)[n].word \o Begun(p, k)
  BY <1>3, <1>9, <1>10, Zenon DEF IsRead
<1>12. CASE White
  BY <1>12, BetweenWhite
<1>13. CASE Escape
  <2>1. /\ c = "backslash" /\ next' = next + 1 /\ escaped' /\ args' = args
        /\ current_arg' = current_arg /\ ~in_single_quote' /\ ~in_double_quote'
    BY <1>3, <1>7, <1>13 DEF Escape, Reads
  <2>2. /\ p.style = "bare" /\ Past(p, 0) = 0
        /\ IF 0 < Len(p.atoms) THEN p.atoms[1].escaped ELSE p.end = <<"backslash">>
    BY <1>6, <2>1 DEF StartsWith, Ordinary
  <2>3. p # Gap /\ p.style # "single" /\ p.style # "double"
    BY <1>9, <2>2
  <2>4. next' = Upto(script, n) + Past(p, k) + (IF escaped' THEN 2 ELSE 1)
    <3>1. Past(p, k) = Past(p, 0)
      BY <1>10, Zenon
    <3> QED
      BY <1>2, <1>3, <2>1, <2>2, <3>1
  <2>5. /\ in_single_quote' <=> p.style = "single"
        /\ in_double_quote' <=> p.style = "double"
        /\ p.style = "bare" => escaped'
        /\ escaped' => IF k < Len(p.atoms) THEN p.atoms[k + 1].escaped ELSE p.end = <<"backslash">>
    BY <1>10, <2>1, <2>2, <2>3, Zenon
  <2> QED
    <3>1. /\ Spellings(args') = Read(script)[n].words
          /\ Spelled(current_arg') = Read(script)[n].word \o Begun(p, k)
      BY <1>11, <2>1, Zenon
    <3>0. script' = script /\ \A i \in 1 .. n : IsPiece(script[i])
      BY <1>3, <1>8
    <3>2. IsRead(Read(script)[n].words, Read(script)[n].word \o Begun(p, k))'
      BY <3>0, <3>1, Zenon DEF IsRead
    <3>3. next' = Upto(script', n) + Past(p, k) + (IF escaped' THEN 2 ELSE 1)
      BY <3>0, <2>4
    <3>4. Inside(n, k, p)'
      BY <2>3, <2>5, <3>0, <3>2, <3>3, Zenon DEF Inside
    <3> QED
      BY <1>1, <1>8, <3>4, ToInside
<1>14. CASE SingleQuote
  <2>1. /\ c = "quote" /\ next' = next + 1 /\ ~escaped' /\ args' = args
        /\ current_arg' = current_arg /\ in_single_quote' /\ ~in_double_quote'
    BY <1>3, <1>7, <1>14 DEF SingleQuote, Reads
  <2>2. p.style = "single" /\ Past(p, 0) = 1
    BY <1>6, <2>1 DEF StartsWith, Ordinary
  <2>3. p # Gap /\ p.style # "bare" /\ p.style # "double"
    BY <1>9, <2>2
  <2>4. next' = Upto(script, n) + Past(p, k) + (IF escaped' THEN 2 ELSE 1)
    <3>1. Past(p, k) = Past(p, 0)
      BY <1>10, Zenon
    <3> QED
      BY <1>2, <1>3, <2>1, <2>2, <3>1
  <2>5. /\ in_single_quote' <=> p.style = "single"
        /\ in_double_quote' <=> p.style = "double"
        /\ p.style = "bare" => escaped'
        /\ escaped' => IF k < Len(p.atoms) THEN p.atoms[k + 1].escaped ELSE p.end = <<"backslash">>
    BY <1>10, <2>1, <2>2, <2>3, Zenon
  <2> QED
    <3>1. /\ Spellings(args') = Read(script)[n].words
          /\ Spelled(current_arg') = Read(script)[n].word \o Begun(p, k)
      BY <1>11, <2>1, Zenon
    <3>0. script' = script /\ \A i \in 1 .. n : IsPiece(script[i])
      BY <1>3, <1>8
    <3>2. IsRead(Read(script)[n].words, Read(script)[n].word \o Begun(p, k))'
      BY <3>0, <3>1, Zenon DEF IsRead
    <3>3. next' = Upto(script', n) + Past(p, k) + (IF escaped' THEN 2 ELSE 1)
      BY <3>0, <2>4
    <3>4. Inside(n, k, p)'
      BY <2>3, <2>5, <3>0, <3>2, <3>3, Zenon DEF Inside
    <3> QED
      BY <1>1, <1>8, <3>4, ToInside
<1>15. CASE DoubleQuote
  <2>1. /\ c = "dquote" /\ next' = next + 1 /\ ~escaped' /\ args' = args
        /\ current_arg' = current_arg /\ ~in_single_quote' /\ in_double_quote'
    BY <1>3, <1>7, <1>15 DEF DoubleQuote, Reads
  <2>2. p.style = "double" /\ Past(p, 0) = 1
    BY <1>6, <2>1 DEF StartsWith, Ordinary
  <2>3. p # Gap /\ p.style # "bare" /\ p.style # "single"
    BY <1>9, <2>2
  <2>4. next' = Upto(script, n) + Past(p, k) + (IF escaped' THEN 2 ELSE 1)
    <3>1. Past(p, k) = Past(p, 0)
      BY <1>10, Zenon
    <3> QED
      BY <1>2, <1>3, <2>1, <2>2, <3>1
  <2>5. /\ in_single_quote' <=> p.style = "single"
        /\ in_double_quote' <=> p.style = "double"
        /\ p.style = "bare" => escaped'
        /\ escaped' => IF k < Len(p.atoms) THEN p.atoms[k + 1].escaped ELSE p.end = <<"backslash">>
    BY <1>10, <2>1, <2>2, <2>3, Zenon
  <2> QED
    <3>1. /\ Spellings(args') = Read(script)[n].words
          /\ Spelled(current_arg') = Read(script)[n].word \o Begun(p, k)
      BY <1>11, <2>1, Zenon
    <3>0. script' = script /\ \A i \in 1 .. n : IsPiece(script[i])
      BY <1>3, <1>8
    <3>2. IsRead(Read(script)[n].words, Read(script)[n].word \o Begun(p, k))'
      BY <3>0, <3>1, Zenon DEF IsRead
    <3>3. next' = Upto(script', n) + Past(p, k) + (IF escaped' THEN 2 ELSE 1)
      BY <3>0, <2>4
    <3>4. Inside(n, k, p)'
      BY <2>3, <2>5, <3>0, <3>2, <3>3, Zenon DEF Inside
    <3> QED
      BY <1>1, <1>8, <3>4, ToInside
<1>16. CASE Literal
  <2>1. /\ c # "backslash" /\ c # "quote" /\ c # "dquote" /\ c # "white"
        /\ Push(c) /\ next' = next + 1 /\ args' = args
        /\ ~escaped' /\ ~in_single_quote' /\ ~in_double_quote'
    BY <1>3, <1>7, <1>16 DEF Literal, IsLiteral, mode
  <2>2. /\ p.style = "bare" /\ IsPiece(p) /\ Len(p.atoms) = 1 /\ p.atoms[1].char = c
        /\ Upto(script, n + 1) = Upto(script, n) + 1
    BY <1>6, <2>1 DEF StartsWith
  <2>3. /\ Value(p, 1) = c /\ p # Gap
    <3>1. p # Gap /\ p.style # "double"
      BY <1>9, <2>2
    <3> QED
      BY <2>2, <3>1, Zenon DEF Value
  <2>4. /\ c \in Meant
        /\ Read(script)[n].word \o Meaning(p) = Append(Read(script)[n].word, c)
    <3> DEFINE w == Read(script)[n].word
    <3>1. /\ w \o Begun(p, 0) = w /\ w \o Begun(p, Len(p.atoms)) = w \o Meaning(p)
          /\ \A l \in Nat : l < Len(p.atoms) =>
               /\ Value(p, l + 1) \in Meant
               /\ w \o Begun(p, l + 1) = Append(w \o Begun(p, l), Value(p, l + 1))
      <4>1. w \in Seq(Meant)
        BY <1>2
      <4> HIDE DEF w
      <4> QED
        BY <1>2, <4>1, WordGrows
    <3> HIDE DEF w
    <3>2. PICK l \in Nat : l = 0 /\ l < Len(p.atoms) /\ l + 1 = 1
      BY <2>2
    <3>3. /\ Value(p, l + 1) \in Meant
          /\ w \o Begun(p, l + 1) = Append(w \o Begun(p, l), Value(p, l + 1))
      BY <3>1, <3>2
    <3> QED
      BY <2>2, <2>3, <3>1, <3>2, <3>3, Zenon DEF w
  <2>5. /\ Spellings(args') = Read(script)[n].words
        /\ Spelled(current_arg') = Append(Read(script)[n].word, c)
    BY <1>3, <2>1, <2>4, PushIsRead
  <2>6. /\ Read(script)[n + 1].words = Read(script)[n].words
        /\ Read(script)[n + 1].word = Read(script)[n].word \o Meaning(p)
    <3>0. script \in Seq(Pieces) /\ n \in Nat /\ n < Len(script) /\ p = script[n + 1]
      BY <1>1, <1>2, <1>4
    <3>1. /\ Read(script)[n].words \in Seq(Seq(Meant)) /\ Read(script)[n].word \in Seq(Meant)
          /\ p = Gap => Read(script)[n + 1] = Close(Read(script)[n])
          /\ p # Gap => /\ Read(script)[n + 1].words = Read(script)[n].words
                        /\ Read(script)[n + 1].word = Read(script)[n].word \o Meaning(p)
      BY <3>0, ReadNext, Zenon
    <3> QED
      BY <2>3, <3>1
  <2>7. /\ Spellings(args') = Read(script)[n + 1].words
        /\ Spelled(current_arg') = Read(script)[n + 1].word
    BY <2>4, <2>5, <2>6, Zenon
  <2>8. \A i \in 1 .. n + 1 : IsPiece(script[i])
    <3>1. \A i \in 1 .. n + 1 : i \in 1 .. n \/ i = n + 1
      BY <1>2
    <3> QED
      BY <1>1, <1>3, <2>2, <3>1
  <2>9. next' = Upto(script, n + 1) + 1
    BY <1>2, <1>3, <2>1, <2>2
  <2> QED
    BY <1>2, <1>8, <2>1, <2>7, <2>8, <2>9, ToBetween, Zenon
<1> QED
  BY <1>8, <1>12, <1>13, <1>14, <1>15, <1>16

\* The next character of a piece is pushed.
LEMMA PieceGrows ==
    ASSUME TypeOK, NEW r, NEW p \in Pieces, NEW k \in Nat, k < Len(p.atoms), r.word \in Seq(Meant),
           IsRead(r.words, r.word \o Begun(p, k)), Push(Value(p, k + 1)), args' = args
    PROVE  Spellings(args') = r.words /\ Spelled(current_arg') = r.word \o Begun(p, k + 1)
<1> DEFINE v == Value(p, k + 1)
           w == r.word
<1>1. v \in Meant /\ w \o Begun(p, k + 1) = Append(w \o Begun(p, k), v)
  <2>1. w \in Seq(Meant)
    OBVIOUS
  <2> HIDE DEF w, v
  <2>2. \A i \in Nat : i < Len(p.atoms) =>
          /\ Value(p, i + 1) \in Meant
          /\ w \o Begun(p, i + 1) = Append(w \o Begun(p, i), Value(p, i + 1))
    BY <2>1, WordGrows
  <2> QED
    BY <2>2, Zenon DEF v
<1>2. IsRead(r.words, w \o Begun(p, k)) /\ Push(v)
  OBVIOUS
<1> HIDE DEF v, w
<1>3. Spellings(args') = r.words /\ Spelled(current_arg') = Append(w \o Begun(p, k), v)
  BY <1>1, <1>2, PushIsRead
<1> QED
  BY <1>1, <1>3, Zenon DEF w

\* What the input has at the next atom of a piece.
LEMMA AtomIsThere ==
    ASSUME Given, NEW n \in 0 .. Len(script) - 1, NEW p, p = script[n + 1],
           NEW k \in 0 .. Len(p.atoms), k < Len(p.atoms), NEW a, a = p.atoms[k + 1]
    PROVE  AtomStands(input, script, n, k, p, a) /\ k \in Nat /\ k + 1 \in 0 .. Len(p.atoms)
<1>1. script \in Seq(Pieces) /\ input = TextOf(script)
  BY GivenScript DEF Given
<1>2. n \in Nat /\ n < Len(script) /\ Len(p.atoms) \in Nat
  BY ThePiece
<1>3. k \in Nat /\ k + 1 \in 0 .. Len(p.atoms)
  BY <1>2
<1>4. AtomStands(TextOf(script), script, n, k, p, a)
  BY <1>1, <1>2, <1>3, AtomAt, Zenon
<1> QED
  BY <1>1, <1>3, <1>4, Zenon

\* What it has at the end of a piece.
LEMMA EndIsThere ==
    ASSUME Given, NEW n \in 0 .. Len(script) - 1, NEW p, p = script[n + 1],
           NEW k, k = Len(p.atoms)
    PROVE  EndStands(input, script, n, k, p) /\ Kind(script, n, p)
<1>1. script \in Seq(Pieces) /\ input = TextOf(script) /\ IsScript(script)
  BY GivenScript DEF Given
<1>2. n \in Nat /\ n < Len(script)
  BY ThePiece
<1>6. EndStands(input, script, n, k, p)
  <2>1. EndStands(TextOf(script), script, n, Len(p.atoms), p)
    BY <1>1, <1>2, EndAt, Zenon
  <2> QED
    BY <1>1, <2>1, Zenon
<1>7. Kind(script, n, p)
  BY <1>1, <1>2, Kinds
<1> QED
  BY <1>6, <1>7

\* A piece that is no gap has been read when all its atoms have.
LEMMA PieceRead ==
    ASSUME Given, NEW n \in 0 .. Len(script) - 1, NEW p, p = script[n + 1], p # Gap,
           NEW k, k = Len(p.atoms)
    PROVE  /\ Read(script)[n + 1].words = Read(script)[n].words
           /\ Read(script)[n + 1].word = Read(script)[n].word \o Begun(p, k)
<1>1. script \in Seq(Pieces)
  BY GivenScript
<1>2. n \in Nat /\ n < Len(script)
  BY ThePiece
<1> DEFINE s == script
<1>4. s \in Seq(Pieces) /\ n \in Nat /\ n < Len(s) /\ p = s[n + 1]
  BY <1>1, <1>2
<1> HIDE DEF s
<1>5. /\ Read(s)[n].words \in Seq(Seq(Meant)) /\ Read(s)[n].word \in Seq(Meant)
      /\ p = Gap => Read(s)[n + 1] = Close(Read(s)[n])
      /\ p # Gap => /\ Read(s)[n + 1].words = Read(s)[n].words
                    /\ Read(s)[n + 1].word = Read(s)[n].word \o Meaning(p)
  BY <1>4, ReadNext
<1>6. Begun(p, k) = Meaning(p)
  BY DEF Begun, Meaning
<1> QED
  BY <1>5, <1>6, Zenon DEF s

\* From a piece that has been read the parser goes on.
LEMMA PieceDone ==
    ASSUME Given, NEW n \in 0 .. Len(script) - 1, NEW p, p = script[n + 1], p # Gap,
           IsPiece(p), \A i \in 1 .. n : IsPiece(script[i]), NEW k, k = Len(p.atoms),
           script' = script, result' = "none", next' = Upto(script, n + 1) + 1,
           ~in_single_quote', ~in_double_quote', ~escaped',
           Spellings(args') = Read(script)[n].words,
           Spelled(current_arg') = Read(script)[n].word \o Begun(p, k)
    PROVE  Follows' /\ WordsAsQuoted'
<1>1. n \in Nat /\ n + 1 \in 0 .. Len(script)
  BY ThePiece
<1>2. /\ Read(script)[n + 1].words = Read(script)[n].words
      /\ Read(script)[n + 1].word = Read(script)[n].word \o Begun(p, k)
  BY PieceRead
<1>3. \A i \in 1 .. n + 1 : IsPiece(script[i])
  <2>1. \A i \in 1 .. n + 1 : i \in 1 .. n \/ i = n + 1
    BY <1>1
  <2> QED
    BY <2>1
<1>4. PICK m : m = n + 1
  OBVIOUS
<1>5. /\ m \in 0 .. Len(script) /\ next' = Upto(script, m) + 1
      /\ \A i \in 1 .. m : IsPiece(script[i])
      /\ Spellings(args') = Read(script)[m].words /\ Spelled(current_arg') = Read(script)[m].word
  BY <1>1, <1>2, <1>3, <1>4, Zenon
<1> QED
  BY <1>5, ToBetween

\* An escaped character of a piece.
LEMMA EscapedInside ==
    ASSUME TypeOK, Given, result = "none", Next,
           NEW n \in 0 .. Len(script) - 1, NEW p, p = script[n + 1],
           NEW k \in 0 .. Len(p.atoms), Inside(n, k, p), escaped, k < Len(p.atoms)
    PROVE  Follows' /\ WordsAsQuoted'
<1>1. /\ p \in Pieces /\ Len(p.atoms) \in Nat
      /\ n \in Nat /\ n < Len(script) /\ n + 1 \in 0 .. Len(script)
      /\ Upto(script, n) \in Nat /\ Upto(script, n + 1) \in Nat
      /\ Read(script)[n].words \in Seq(Seq(Meant)) /\ Read(script)[n].word \in Seq(Meant)
  BY ThePiece
<1>3. /\ next = Upto(script, n) + Past(p, k) + 2 /\ p.atoms[k + 1].escaped /\ p # Gap
      /\ in_single_quote <=> p.style = "single"
      /\ in_double_quote <=> p.style = "double"
      /\ \A i \in 1 .. n : IsPiece(script[i])
      /\ IsRead(Read(script)[n].words, Read(script)[n].word \o Begun(p, k))
  BY Zenon DEF Inside
<1>4. IsScript(script) /\ input = TextOf(script) /\ script \in Seq(Pieces) /\ Len(input) \in Nat
  BY GivenScript DEF Given
<1>5. PICK a : a = p.atoms[k + 1]
  OBVIOUS
<1>2. AtomStands(input, script, n, k, p, a) /\ k \in Nat /\ k + 1 \in 0 .. Len(p.atoms)
  BY <1>5, AtomIsThere
<1>6. /\ Past(p, k) \in Nat /\ Past(p, k + 1) = Past(p, k) + 2
      /\ input[Upto(script, n) + Past(p, k) + 2] = a.char
      /\ Upto(script, n) + Past(p, k + 1) <= Len(input)
  BY <1>2, <1>3, <1>5, Zenon DEF AtomStands
<1>7. a.escaped /\ input[next] = a.char
  BY <1>3, <1>5, <1>6, Zenon
<1>8. next = Upto(script, n) + Past(p, k + 1) /\ ~(next > Len(input))
  BY <1>1, <1>3, <1>4, <1>6, <1>7
<1>9. EscapedChar /\ script' = script /\ result' = "none"
  BY <1>8, Arms
<1>10. /\ Push(IF in_double_quote /\ input[next] = "t" THEN "control" ELSE input[next])
       /\ next' = next + 1 /\ args' = args /\ ~escaped'
       /\ in_single_quote' = in_single_quote /\ in_double_quote' = in_double_quote
  BY <1>9 DEF EscapedChar
<1>11. Push(Value(p, k + 1))
  <2>1. Value(p, k + 1) = IF p.style = "double" /\ a.escaped /\ a.char = "t" THEN "control" ELSE a.char
    BY <1>5, Zenon DEF Value
  <2>2. CASE p.style = "double"
    <3>1. in_double_quote
      BY <1>3, <2>2
    <3> QED
      BY <1>7, <1>10, <2>1, <2>2, <3>1, Zenon
  <2>3. CASE p.style # "double"
    <3>1. ~in_double_quote
      BY <1>3, <2>3
    <3> QED
      BY <1>7, <1>10, <2>1, <2>3, <3>1, Zenon
  <2> QED
    BY <2>2, <2>3
<1>12. /\ Spellings(args') = Read(script)[n].words
       /\ Spelled(current_arg') = Read(script)[n].word \o Begun(p, k + 1)
  BY <1>1, <1>2, <1>3, <1>10, <1>11, PieceGrows
<1>13. CASE p.style = "bare"
  <2>1. IsPiece(p) /\ p.end = <<>> /\ Len(p.atoms) = 1
    <3>1. Kind(script, n, p)
      BY <1>1, <1>4, Kinds
    <3> QED
      BY <1>1, <1>3, <1>13, <3>1 DEF Kind, IsQuoted, Quotes
  <2>2. PICK l : l = k + 1 /\ l = Len(p.atoms)
    BY <1>2, <2>1
  <2>3. next' = Upto(script, n + 1) + 1
    <3>1. EndStands(input, script, n, l, p)
      BY <2>2, EndIsThere
    <3>2. Upto(script, n + 1) = Upto(script, n) + Past(p, k + 1)
      BY <2>1, <2>2, <3>1, Zenon DEF EndStands
    <3> QED
      BY <1>8, <1>10, <3>2, Zenon
  <2>4. Spelled(current_arg') = Read(script)[n].word \o Begun(p, l)
    BY <1>12, <2>2, Zenon
  <2>5. ~in_single_quote' /\ ~in_double_quote' /\ ~escaped'
    BY <1>3, <1>10, <1>13
  <2> QED
    BY <1>3, <1>9, <1>12, <2>1, <2>2, <2>3, <2>4, <2>5, PieceDone
<1>14. CASE p.style # "bare"
  <2>1. next' = Upto(script, n) + Past(p, k + 1) + (IF escaped' THEN 2 ELSE 1)
    BY <1>8, <1>10, Zenon
  <2>2. Inside(n, k + 1, p)'
    BY <1>3, <1>9, <1>10, <1>12, <1>14, <2>1, Zenon DEF Inside, IsRead
  <2> QED
    BY <1>2, <1>9, <2>2, ToInside
<1> QED
  BY <1>13, <1>14

\* The input ends within a string.
LEMMA StringIsOpen ==
    ASSUME TypeOK, Given, result = "none", Next,
           NEW n \in 0 .. Len(script) - 1, NEW p, p = script[n + 1], IsQuoted(p),
           p.end = <<>> \/ p.end = <<"backslash">>,
           in_single_quote <=> p.style = "single", in_double_quote <=> p.style = "double",
           next > Len(input)
    PROVE  Follows' /\ WordsAsQuoted'
<1>1. n + 1 \in 1 .. Len(script)
  BY GivenScript
<1>2. p.style \in Quotes /\ (in_single_quote \/ in_double_quote)
  BY DEF IsQuoted, Quotes
<1>3. p.end # Mark(p.style)
  <2>1. Mark("single") = <<"quote">> /\ Mark("double") = <<"dquote">>
    BY DEF Mark
  <2>2. Mark(p.style) = <<"quote">> \/ Mark(p.style) = <<"dquote">>
    BY <1>2, <2>1, Zenon DEF Quotes
  <2>3. ASSUME NEW m, m = <<"quote">> \/ m = <<"dquote">>
        PROVE  m # <<>> /\ m # <<"backslash">>
    <3>1. Len(m) = 1 /\ (m[1] = "quote" \/ m[1] = "dquote")
      BY <2>3
    <3>2. Len(<<>>) = 0
      BY EmptySeq
    <3>3. m # <<>>
      BY <3>1, <3>2
    <3>4. m # <<"backslash">>
      BY <3>1
    <3> QED
      BY <3>3, <3>4
  <2> QED
    BY <2>2, <2>3, Zenon
<1>4. IsOpen(script)
  BY <1>1, <1>2, <1>3, Zenon DEF IsOpen
<1>5. Finish
  BY Arms
<1> QED
  BY <1>2, <1>4, <1>5, FinishUnclosed

\* A backslash that nothing follows.
LEMMA EscapedEnd ==
    ASSUME TypeOK, Given, result = "none", Next,
           NEW n \in 0 .. Len(script) - 1, NEW p, p = script[n + 1],
           NEW k \in 0 .. Len(p.atoms), Inside(n, k, p), escaped, ~(k < Len(p.atoms))
    PROVE  Follows' /\ WordsAsQuoted'
<1>1. /\ p \in Pieces /\ Len(p.atoms) \in Nat
      /\ n \in Nat /\ n < Len(script) /\ n + 1 \in 0 .. Len(script)
      /\ Upto(script, n) \in Nat /\ Upto(script, n + 1) \in Nat
  BY ThePiece
<1>2. k = Len(p.atoms)
  BY <1>1
<1>3. /\ next = Upto(script, n) + Past(p, k) + 2 /\ p.end = <<"backslash">> /\ p # Gap
      /\ in_single_quote <=> p.style = "single"
      /\ in_double_quote <=> p.style = "double"
      /\ \A i \in 1 .. n : IsPiece(script[i])
      /\ IsRead(Read(script)[n].words, Read(script)[n].word \o Begun(p, k))
  BY Zenon DEF Inside
<1>4. Len(script) \in Nat /\ Len(input) \in Nat /\ Upto(script, Len(script)) = Len(input)
  BY GivenScript
<1>5. EndStands(input, script, n, k, p) /\ Kind(script, n, p)
  BY <1>2, EndIsThere
<1>6. Past(p, k) \in Nat /\ Upto(script, n + 1) = Upto(script, n) + Past(p, k) + 1
  BY <1>3, <1>5, Zenon DEF EndStands
<1>7. n + 1 = Len(script) /\ (p.style = "bare" \/ (IsQuoted(p) /\ p.style = "double"))
  <2>1. p.end # <<>> /\ (IsQuoted(p) => p.end # Mark(p.style))
    BY <1>3 DEF IsQuoted, Quotes, Mark
  <2> QED
    BY <1>3, <1>5, <2>1, Zenon DEF Kind
<1>8. next > Len(input)
  <2>1. Upto(script, n + 1) = Len(input)
    BY <1>4, <1>7, Zenon
  <2> QED
    BY <1>1, <1>3, <1>4, <1>6, <2>1
<1>9. CASE p.style = "bare"
  <2>1. ~in_single_quote /\ ~in_double_quote /\ p.style \notin Quotes
    BY <1>3, <1>9 DEF Quotes
  <2>2. ~IsOpen(script)
    <3>1. \A i \in 1 .. Len(script) : i \in 1 .. n \/ i = n + 1
      BY <1>1, <1>7
    <3>2. \A i \in 1 .. Len(script) : IsPiece(script[i]) \/ script[i].style \notin Quotes
      BY <1>3, <2>1, <3>1, Zenon
    <3> QED
      BY <3>2, PieceIsClosed DEF IsOpen
  <2>3. /\ Read(script)[n + 1].words = Read(script)[n].words
        /\ Read(script)[n + 1].word = Read(script)[n].word \o Begun(p, k)
    BY <1>2, <1>3, PieceRead
  <2>4. IsRead(Read(script)[Len(script)].words, Read(script)[Len(script)].word)
    BY <1>3, <1>7, <2>3, Zenon
  <2>5. Finish
    BY <1>8, Arms
  <2> QED
    BY <2>1, <2>2, <2>4, <2>5, FinishOk
<1>10. CASE IsQuoted(p)
  BY <1>3, <1>8, <1>10, StringIsOpen
<1> QED
  BY <1>7, <1>9, <1>10

\* An atom of a string, before its backslash if it has one.
LEMMA PlainInside ==
    ASSUME TypeOK, Given, result = "none", Next,
           NEW n \in 0 .. Len(script) - 1, NEW p, p = script[n + 1],
           NEW k \in 0 .. Len(p.atoms), Inside(n, k, p), ~escaped, k < Len(p.atoms)
    PROVE  Follows' /\ WordsAsQuoted'
<1>1. /\ p \in Pieces /\ Len(p.atoms) \in Nat
      /\ n \in Nat /\ n < Len(script) /\ n + 1 \in 0 .. Len(script)
      /\ Upto(script, n) \in Nat /\ Upto(script, n + 1) \in Nat
      /\ Read(script)[n].words \in Seq(Seq(Meant)) /\ Read(script)[n].word \in Seq(Meant)
  BY ThePiece
<1>2. /\ next = Upto(script, n) + Past(p, k) + 1 /\ p # Gap /\ p.style # "bare"
      /\ in_single_quote <=> p.style = "single"
      /\ in_double_quote <=> p.style = "double"
      /\ \A i \in 1 .. n : IsPiece(script[i])
      /\ IsRead(Read(script)[n].words, Read(script)[n].word \o Begun(p, k))
  BY Zenon DEF Inside
<1>3. PICK a : a = p.atoms[k + 1]
  OBVIOUS
<1>4. AtomStands(input, script, n, k, p, a) /\ k \in Nat /\ k + 1 \in 0 .. Len(p.atoms)
  BY <1>3, AtomIsThere
<1>5. k + 1 \in 1 .. Len(p.atoms)
  BY <1>1, <1>4
<1>6. IsQuoted(p)
  <2>1. Kind(script, n, p)
    BY EndIsThere
  <2> QED
    BY <1>2, <2>1, Zenon DEF Kind
<1>7. /\ p.style \in {"single", "double"}
      /\ p.style = "single" => ~a.escaped /\ a.char # "quote"
      /\ p.style = "double" => a.escaped \/ (a.char # "dquote" /\ a.char # "backslash")
  BY <1>3, <1>5, <1>6, WritableAtoms
<1>8. CASE a.escaped
  <2>1. /\ input[next] = "backslash" /\ Past(p, k) \in Nat /\ Past(p, k + 1) = Past(p, k) + 2
        /\ Upto(script, n) + Past(p, k + 1) <= Len(input)
    BY <1>2, <1>4, <1>8, Zenon DEF AtomStands
  <2>2. ~(next > Len(input))
    <3>1. Len(input) \in Nat
      BY GivenScript
    <3> QED
      BY <1>1, <1>2, <2>1, <3>1
  <2>3. ~in_single_quote
    BY <1>2, <1>7, <1>8
  <2>4. /\ Escape \/ SingleQuote \/ DoubleQuote \/ White \/ Literal
        /\ script' = script /\ result' = "none"
    BY <2>2, Arms
  <2>5. Escape
    BY <2>1, <2>3, <2>4 DEF SingleQuote, DoubleQuote, White, Literal, Reads, IsLiteral
  <2>6. /\ next' = next + 1 /\ escaped' /\ args' = args /\ current_arg' = current_arg
        /\ in_single_quote' = in_single_quote /\ in_double_quote' = in_double_quote
    BY <2>5 DEF Escape
  <2>7. next' = Upto(script, n) + Past(p, k) + (IF escaped' THEN 2 ELSE 1)
    BY <1>1, <1>2, <2>1, <2>6, SMTT(30)
  <2>8. IF k < Len(p.atoms) THEN p.atoms[k + 1].escaped ELSE p.end = <<"backslash">>
    BY <1>3, <1>8
  <2>9. Inside(n, k, p)'
    BY <1>2, <2>4, <2>6, <2>7, <2>8, Zenon DEF Inside, IsRead
  <2> QED
    BY <2>4, <2>9, ToInside
<1>9. CASE ~a.escaped
  <2>1. /\ input[next] = a.char /\ Past(p, k) \in Nat /\ Past(p, k + 1) = Past(p, k) + 1
        /\ Upto(script, n) + Past(p, k + 1) <= Len(input)
    BY <1>2, <1>4, <1>9, Zenon DEF AtomStands
  <2>2. ~(next > Len(input)) /\ next = Upto(script, n) + Past(p, k + 1)
    <3>1. Len(input) \in Nat
      BY GivenScript
    <3>2. next = Upto(script, n) + Past(p, k + 1)
      BY <1>1, <1>2, <2>1
    <3> QED
      BY <1>1, <2>1, <3>1, <3>2
  <2>3. /\ Escape \/ SingleQuote \/ DoubleQuote \/ White \/ Literal
        /\ script' = script /\ result' = "none"
    BY <2>2, Arms
  <2>4. Literal
    <3>1. /\ in_single_quote => a.char # "quote"
          /\ in_double_quote => a.char # "dquote" /\ a.char # "backslash"
          /\ in_single_quote \/ in_double_quote
      BY <1>2, <1>7, <1>9
    <3> QED
      BY <2>1, <2>3, <3>1 DEF Escape, SingleQuote, DoubleQuote, White, Reads
  <2>5. /\ Push(a.char) /\ next' = next + 1 /\ args' = args /\ ~escaped'
        /\ in_single_quote' = in_single_quote /\ in_double_quote' = in_double_quote
    BY <2>1, <2>4 DEF Literal, mode
  <2>6. Value(p, k + 1) = a.char
    BY <1>3, <1>9, Zenon DEF Value
  <2>7. /\ Spellings(args') = Read(script)[n].words
        /\ Spelled(current_arg') = Read(script)[n].word \o Begun(p, k + 1)
    BY <1>1, <1>2, <1>4, <2>5, <2>6, PieceGrows
  <2>8. next' = Upto(script, n) + Past(p, k + 1) + (IF escaped' THEN 2 ELSE 1)
    BY <2>2, <2>5, Zenon
  <2>9. Inside(n, k + 1, p)'
    BY <1>2, <2>3, <2>5, <2>7, <2>8, Zenon DEF Inside, IsRead
  <2> QED
    BY <1>4, <2>3, <2>9, ToInside
<1> QED
  BY <1>8, <1>9

\* The end of a string: the quote that closes it, a backslash that nothing follows, or
\* the end of the input.
LEMMA PlainEnd ==
    ASSUME TypeOK, Given, result = "none", Next,
           NEW n \in 0 .. Len(script) - 1, NEW p, p = script[n + 1],
           NEW k \in 0 .. Len(p.atoms), Inside(n, k, p), ~escaped, ~(k < Len(p.atoms))
    PROVE  Follows' /\ WordsAsQuoted'
<1>1. /\ p \in Pieces /\ Len(p.atoms) \in Nat
      /\ n \in Nat /\ n < Len(script) /\ n + 1 \in 0 .. Len(script)
      /\ Upto(script, n) \in Nat /\ Upto(script, n + 1) \in Nat
  BY ThePiece
<1>2. k = Len(p.atoms)
  BY <1>1
<1>3. /\ next = Upto(script, n) + Past(p, k) + 1 /\ p # Gap /\ p.style # "bare"
      /\ in_single_quote <=> p.style = "single"
      /\ in_double_quote <=> p.style = "double"
      /\ \A i \in 1 .. n : IsPiece(script[i])
      /\ IsRead(Read(script)[n].words, Read(script)[n].word \o Begun(p, k))
  BY Zenon DEF Inside
<1>4. Len(script) \in Nat /\ Len(input) \in Nat /\ Upto(script, Len(script)) = Len(input)
  BY GivenScript
<1>5. EndStands(input, script, n, k, p) /\ Kind(script, n, p)
  BY <1>2, EndIsThere
<1>6. /\ IsQuoted(p)
      /\ \/ IsPiece(p) /\ p.end = Mark(p.style)
         \/ n + 1 = Len(script) /\ p.end = <<>>
         \/ p.style = "double" /\ p.end = <<"backslash">>
  BY <1>3, <1>5, Zenon DEF Kind
<1>7. Past(p, k) \in Nat /\ Upto(script, n + 1) <= Len(input)
  BY <1>5, Zenon DEF EndStands
<1>8. ASSUME NEW c, p.end = <<c>>
      PROVE  /\ input[next] = c /\ Upto(script, n + 1) = next
             /\ Escape \/ SingleQuote \/ DoubleQuote \/ White \/ Literal
             /\ script' = script /\ result' = "none"
  <2>1. /\ Upto(script, n + 1) = Upto(script, n) + Past(p, k) + 1
        /\ input[Upto(script, n) + Past(p, k) + 1] = c
    BY <1>5, <1>8, Zenon DEF EndStands
  <2>2. input[next] = c /\ Upto(script, n + 1) = next
    BY <1>3, <2>1, Zenon
  <2>3. ~(next > Len(input))
    BY <1>1, <1>4, <1>7, <2>2
  <2> QED
    BY <2>2, <2>3, Arms
<1>9. CASE IsPiece(p) /\ p.end = Mark(p.style)
  <2>1. /\ next' = Upto(script, n + 1) + 1 /\ args' = args /\ current_arg' = current_arg
        /\ ~in_single_quote' /\ ~in_double_quote' /\ ~escaped'
        /\ script' = script /\ result' = "none"
    <3>1. CASE p.style = "single"
      <4>1. p.end = <<"quote">>
        BY <1>9, <3>1 DEF Mark
      <4>2. /\ input[next] = "quote" /\ Upto(script, n + 1) = next
            /\ Escape \/ SingleQuote \/ DoubleQuote \/ White \/ Literal
            /\ script' = script /\ result' = "none"
        BY <1>8, <4>1
      <4>3. in_single_quote /\ ~in_double_quote
        BY <1>3, <3>1
      <4>4. SingleQuote
        BY <4>2, <4>3 DEF Escape, DoubleQuote, White, Literal, IsLiteral, Reads
      <4> QED
        BY <4>2, <4>3, <4>4 DEF SingleQuote
    <3>2. CASE p.style = "double"
      <4>1. p.end = <<"dquote">>
        BY <1>9, <3>2 DEF Mark
      <4>2. /\ input[next] = "dquote" /\ Upto(script, n + 1) = next
            /\ Escape \/ SingleQuote \/ DoubleQuote \/ White \/ Literal
            /\ script' = script /\ result' = "none"
        BY <1>8, <4>1
      <4>3. in_double_quote /\ ~in_single_quote
        BY <1>3, <3>2
      <4>4. DoubleQuote
        BY <4>2, <4>3 DEF Escape, SingleQuote, White, Literal, IsLiteral, Reads
      <4> QED
        BY <4>2, <4>3, <4>4 DEF DoubleQuote
    <3> QED
      BY <1>6, <3>1, <3>2 DEF IsQuoted, Quotes
  <2>2. /\ Spellings(args') = Read(script)[n].words
        /\ Spelled(current_arg') = Read(script)[n].word \o Begun(p, k)
    BY <1>3, <2>1, Zenon DEF IsRead
  <2> QED
    BY <1>2, <1>3, <1>9, <2>1, <2>2, PieceDone
<1>10. CASE n + 1 = Len(script) /\ p.end = <<>>
  <2>1. Upto(script, n + 1) = Upto(script, n) + Past(p, k) /\ Upto(script, n + 1) = Len(input)
    BY <1>4, <1>5, <1>10, Zenon DEF EndStands
  <2>2. next > Len(input)
    BY <1>1, <1>3, <1>4, <1>7, <2>1
  <2> QED
    BY <1>3, <1>6, <1>10, <2>2, StringIsOpen
<1>11. CASE p.style = "double" /\ p.end = <<"backslash">>
  <2>1. /\ input[next] = "backslash"
        /\ Escape \/ SingleQuote \/ DoubleQuote \/ White \/ Literal
        /\ script' = script /\ result' = "none"
    BY <1>8, <1>11
  <2>2. in_double_quote /\ ~in_single_quote
    BY <1>3, <1>11
  <2>3. Escape
    BY <2>1, <2>2 DEF SingleQuote, DoubleQuote, White, Literal, IsLiteral, Reads
  <2>4. /\ next' = next + 1 /\ escaped' /\ args' = args /\ current_arg' = current_arg
        /\ in_single_quote' = in_single_quote /\ in_double_quote' = in_double_quote
    BY <2>3 DEF Escape
  <2>5. next' = Upto(script, n) + Past(p, k) + (IF escaped' THEN 2 ELSE 1)
    BY <1>1, <1>3, <1>7, <2>4
  <2>6. IF k < Len(p.atoms) THEN p.atoms[k + 1].escaped ELSE p.end = <<"backslash">>
    BY <1>11
  <2>7. Inside(n, k, p)'
    BY <1>3, <2>1, <2>4, <2>5, <2>6, Zenon DEF Inside, IsRead
  <2> QED
    BY <2>1, <2>7, ToInside
<1> QED
  BY <1>6, <1>9, <1>10, <1>11

-----------------------------------------------------------------------------
\* With these the words are those that were meant.
WInv == TypeOK /\ Given /\ Follows /\ WordsAsQuoted

LEMMA WInvInit == Init => WInv
<1> SUFFICES ASSUME Init PROVE WInv
  OBVIOUS
<1>1. TypeOK /\ Given
  BY TypedInit DEF Init, Given
<1>2. script \in Seq(Pieces) /\ Len(script) \in Nat
  BY <1>1, GivenScript
<1>3. Upto(script, 0) = 0 /\ Read(script)[0] = Nothing
  BY <1>2, UptoEnds, ReadStep
<1>4. Spellings(args) = <<>> /\ Spelled(current_arg) = <<>>
  BY DEF Init, Spellings, Spelled
<1>5. IsRead(Read(script)[0].words, Read(script)[0].word)
  <2>1. Nothing.words = <<>> /\ Nothing.word = <<>>
    BY DEF Nothing
  <2> QED
    BY <1>3, <1>4, <2>1, Zenon DEF IsRead
<1>6. Between(0)
  BY <1>3, <1>5 DEF Init, Between
<1>7. Follows
  <2>1. 0 \in 0 .. Len(script)
    BY <1>2
  <2> QED
    BY <1>6, <2>1, Zenon DEF Follows
<1>8. WordsAsQuoted
  BY DEF Init, WordsAsQuoted
<1> QED
  BY <1>1, <1>7, <1>8 DEF WInv

LEMMA WInvStep == WInv /\ [Next]_vars => WInv'
<1> SUFFICES ASSUME WInv, [Next]_vars PROVE WInv'
  OBVIOUS
<1>1. TypeOK /\ Given /\ Follows /\ WordsAsQuoted
  BY DEF WInv
<1>2. TypeOK'
  BY <1>1, TypedStep
<1>3. Given'
  BY <1>1 DEF Given, Next, EscapedChar, Escape, SingleQuote, DoubleQuote, White, Literal,
              Finish, Parsed, vars, given
<1>4. CASE UNCHANGED vars
  <2>1. /\ script' = script /\ next' = next /\ args' = args /\ current_arg' = current_arg
        /\ in_single_quote' = in_single_quote /\ in_double_quote' = in_double_quote
        /\ escaped' = escaped /\ result' = result
    BY <1>4 DEF vars, given, mode
  <2>2. Follows'
    BY <1>1, <2>1, Zenon DEF Follows, Between, Inside, IsRead
  <2>3. WordsAsQuoted'
    BY <1>1, <2>1, Zenon DEF WordsAsQuoted
  <2> QED
    BY <1>2, <1>3, <2>2, <2>3 DEF WInv
<1>5. CASE Next /\ result # "none"
  <2>1. UNCHANGED vars
    BY <1>5 DEF Next, EscapedChar, Escape, SingleQuote, DoubleQuote, White, Literal,
                Finish, Parsed, Reads, More
  <2> QED
    BY <1>4, <2>1
<1>6. CASE Next /\ result = "none"
  <2>1. Follows' /\ WordsAsQuoted'
    <3>1. CASE \E n \in 0 .. Len(script) : Between(n)
      <4>1. PICK n \in 0 .. Len(script) : Between(n)
        BY <3>1
      <4>2. n = Len(script) \/ n \in 0 .. Len(script) - 1
        BY <1>1, <4>1, GivenScript
      <4> QED
        BY <1>1, <1>6, <4>1, <4>2, BetweenEnd, BetweenStep
    <3>2. CASE \E n \in 0 .. Len(script) - 1 : \E k \in 0 .. Len(script[n + 1].atoms) :
                  Inside(n, k, script[n + 1])
      <4>1. PICK n \in 0 .. Len(script) - 1 : \E k \in 0 .. Len(script[n + 1].atoms) :
                  Inside(n, k, script[n + 1])
        BY <3>2
      <4>2. PICK p : p = script[n + 1]
        OBVIOUS
      <4>3. PICK k \in 0 .. Len(p.atoms) : Inside(n, k, p)
        BY <4>1, <4>2, Zenon
      <4>4. CASE escaped /\ k < Len(p.atoms)
        BY <1>1, <1>6, <4>2, <4>3, <4>4, EscapedInside
      <4>5. CASE escaped /\ ~(k < Len(p.atoms))
        BY <1>1, <1>6, <4>2, <4>3, <4>5, EscapedEnd
      <4>6. CASE ~escaped /\ k < Len(p.atoms)
        BY <1>1, <1>6, <4>2, <4>3, <4>6, PlainInside
      <4>7. CASE ~escaped /\ ~(k < Len(p.atoms))
        BY <1>1, <1>6, <4>2, <4>3, <4>7, PlainEnd
      <4> QED
        BY <4>4, <4>5, <4>6, <4>7
    <3> QED
      BY <1>1, <1>6, <3>1, <3>2, Zenon DEF Follows
  <2> QED
    BY <1>2, <1>3, <2>1 DEF WInv
<1> QED
  BY <1>4, <1>5, <1>6

\* The words are those the writer of the input meant, and an input is refused exactly
\* when it leaves a quote open: for every input that can be written, however long.
THEOREM WordsFound == Spec => []WordsAsQuoted
<1>1. WInv => WordsAsQuoted
  BY DEF WInv
<1> QED
  BY <1>1, WInvInit, WInvStep, PTL DEF Spec

-----------------------------------------------------------------------------
(* What can be written is every text *)

\* A sequence that is not empty is another one with one element more.
IsFront(b, s, n, x) == Len(b) = n /\ s = Append(b, x) /\ \A i \in 1 .. n : b[i] = s[i]

LEMMA FrontAndLast ==
    ASSUME NEW X, NEW s \in Seq(X), NEW n \in Nat, Len(s) = n + 1, NEW x, x = s[n + 1]
    PROVE  x \in X /\ \E b \in Seq(X) : IsFront(b, s, n, x)
<1> DEFINE b == [i \in 1 .. n |-> s[i]]
<1>1. s[n + 1] \in X /\ \A i \in 1 .. n : s[i] \in X
  BY ElementOfSeq
<1>2. b \in Seq(X)
  BY <1>1, IsASeq
<1>3. Len(b) = n /\ \A i \in 1 .. n : b[i] = s[i]
  OBVIOUS
<1> HIDE DEF b
<1> DEFINE r == Append(b, s[n + 1])
<1>4. /\ r \in Seq(X) /\ Len(r) = n + 1 /\ r[n + 1] = s[n + 1]
      /\ \A i \in 1 .. n : r[i] = b[i]
  BY <1>1, <1>2, <1>3, AppendProperties
<1> HIDE DEF r
<1>5. \A i \in 1 .. n + 1 : i \in 1 .. n \/ i = n + 1
  OBVIOUS
<1>6. \A i \in 1 .. Len(s) : s[i] = r[i]
  BY <1>3, <1>4, <1>5
<1>7. s = r
  BY <1>4, <1>6, SeqEqual
<1> QED
  BY <1>1, <1>2, <1>3, <1>7, Zenon DEF r, IsFront

\* One more sequence comes after those there are.
LEMMA JoinedAppend ==
    ASSUME NEW X, NEW ss \in Seq(Seq(X)), NEW e \in Seq(X)
    PROVE  Joined(ss) \in Seq(X) /\ Joined(Append(ss, e)) = Joined(ss) \o e
<1> DEFINE n  == Len(ss)
           tt == Append(ss, e)
<1>1. n \in Nat /\ Len(ss) = n
  BY LenProperties
<1>2. /\ tt \in Seq(Seq(X)) /\ Len(tt) = n + 1 /\ tt[n + 1] = e
      /\ \A i \in 1 .. n : tt[i] = ss[i]
  BY <1>1, AppendProperties
<1>3. Joined(ss) \in Seq(X)
  <2>1. n \in 0 .. Len(ss)
    BY <1>1
  <2> QED
    BY <2>1, JoinsTyped DEF Joined
<1>4. Joined(ss) = Joins(ss)[n] /\ Joined(tt) = Joins(tt)[n + 1]
  BY <1>2, Zenon DEF Joined
<1> HIDE DEF n, tt
<1>5. /\ Joins(ss)[0] = <<>> /\ \A k \in 1 .. n : Joins(ss)[k] = Joins(ss)[k - 1] \o ss[k]
  BY <1>1, JoinsStep
<1>6. /\ Joins(tt)[0] = <<>> /\ \A k \in 1 .. n + 1 : Joins(tt)[k] = Joins(tt)[k - 1] \o tt[k]
  <2>1. Len(tt) = n + 1 /\ n + 1 \in Nat
    BY <1>1, <1>2
  <2> QED
    BY <2>1, JoinsStep
<1> DEFINE I(k) == Joins(ss)[k]
           J(k) == Joins(tt)[k]
           S == {k \in Nat : k <= n => J(k) = I(k)}
<1>7. 0 \in S
  BY <1>5, <1>6
<1>8. ASSUME NEW k \in Nat, k \in S PROVE k + 1 \in S
  <2>1. SUFFICES ASSUME k + 1 <= n PROVE J(k + 1) = I(k + 1)
    OBVIOUS
  <2>2. k + 1 \in 1 .. n /\ k + 1 \in 1 .. n + 1 /\ (k + 1) - 1 = k /\ k <= n
    BY <1>1, <2>1
  <2>3. J(k) = I(k)
    BY <1>8, <2>2
  <2>4. I(k + 1) = I(k) \o ss[k + 1]
    BY <1>5, <2>2, Zenon
  <2>5. J(k + 1) = J(k) \o tt[k + 1]
    BY <1>6, <2>2, Zenon
  <2> HIDE DEF I, J
  <2> QED
    BY <1>2, <2>2, <2>3, <2>4, <2>5
<1> HIDE DEF S
<1>9. n \in S
  BY <1>1, <1>7, <1>8, SetInduction
<1>10. Joins(tt)[n] = Joins(ss)[n]
  <2> HIDE DEF I, J
  <2>1. J(n) = I(n)
    BY <1>1, <1>9 DEF S
  <2> QED
    BY <2>1 DEF I, J
<1>11. Joins(tt)[n + 1] = Joins(tt)[n] \o tt[n + 1]
  <2>1. n + 1 \in 1 .. n + 1 /\ (n + 1) - 1 = n
    BY <1>1
  <2> QED
    BY <1>6, <2>1, Zenon
<1> QED
  BY <1>2, <1>3, <1>4, <1>10, <1>11, Zenon DEF tt

\* The text of one more piece comes after the text there is.
LEMMA TextAppend ==
    ASSUME NEW s \in Seq(Pieces), NEW p \in Pieces
    PROVE  TextOf(s) \in Seq(Chars) /\ TextOf(Append(s, p)) = TextOf(s) \o Text(p)
<1> DEFINE r == Append(s, p)
           n == Len(s)
           u == Texts(s)
           v == Text(p)
           x == Append(u, v)
<1>1. /\ r \in Seq(Pieces) /\ Len(r) = n + 1 /\ r[n + 1] = p /\ n \in Nat
      /\ \A i \in 1 .. n : r[i] = s[i]
  BY AppendProperties, LenProperties
<1>2. /\ u \in Seq(Seq(Chars)) /\ Len(u) = n /\ \A i \in 1 .. n : u[i] = Text(s[i])
      /\ v \in Seq(Chars)
  BY TextsTyped, PieceText
<1> HIDE DEF u, v, n
<1>3. /\ x \in Seq(Seq(Chars)) /\ Len(x) = n + 1 /\ x[n + 1] = v
      /\ \A i \in 1 .. n : x[i] = u[i]
  BY <1>2, AppendProperties
<1> HIDE DEF x, r
<1>4. /\ Texts(r) \in Seq(Seq(Chars)) /\ Len(Texts(r)) = n + 1
      /\ \A i \in 1 .. n + 1 : Texts(r)[i] = Text(r[i])
  BY <1>1, TextsTyped
<1>5. \A i \in 1 .. n + 1 : Texts(r)[i] = x[i]
  <2> TAKE i \in 1 .. n + 1
  <2>1. i \in 1 .. n \/ i = n + 1
    BY <1>1
  <2>2. CASE i \in 1 .. n
    BY <1>1, <1>2, <1>3, <1>4, <2>2, Zenon
  <2>3. CASE i = n + 1
    BY <1>1, <1>3, <1>4, <2>3, Zenon DEF v
  <2> QED
    BY <2>1, <2>2, <2>3
<1>6. Texts(r) = x
  BY <1>3, <1>4, <1>5, SeqEqual, ZenonT(30)
<1>7. Joined(u) \in Seq(Chars) /\ Joined(x) = Joined(u) \o v
  BY <1>2, JoinedAppend DEF x
<1> QED
  BY <1>6, <1>7, Zenon DEF TextOf, u, v, r

\* The text of atoms, and what comes before the end of a piece.
Written(atoms)     == [i \in 1 .. Len(atoms) |-> AtomText(atoms[i])]
Body(style, atoms) == Mark(style) \o Joined(Written(atoms))

LEMMA WrittenTyped ==
    ASSUME NEW xs \in Seq(Atoms)
    PROVE  /\ Written(xs) \in Seq(Seq(Chars)) /\ Len(Written(xs)) = Len(xs) /\ Len(xs) \in Nat
           /\ \A i \in 1 .. Len(xs) : Written(xs)[i] = AtomText(xs[i])
<1>1. Len(xs) \in Nat /\ \A i \in 1 .. Len(xs) : xs[i] \in Atoms
  BY LenProperties, ElementOfSeq
<1>2. \A i \in 1 .. Len(xs) : AtomText(xs[i]) \in Seq(Chars)
  BY <1>1, AtomTextIsText
<1>3. Written(xs) \in Seq(Seq(Chars))
  BY <1>1, <1>2, IsASeq DEF Written
<1>4. Len(Written(xs)) = Len(xs) /\ \A i \in 1 .. Len(xs) : Written(xs)[i] = AtomText(xs[i])
  BY <1>1 DEF Written
<1> QED
  BY <1>1, <1>3, <1>4

LEMMA BodyGrows ==
    ASSUME NEW style, NEW atoms \in Seq(Atoms)
    PROVE  /\ Body(style, atoms) \in Seq(Chars) /\ Body(style, <<>>) = Mark(style)
           /\ \A a \in Atoms : Body(style, Append(atoms, a)) = Body(style, atoms) \o AtomText(a)
<1> DEFINE M == Mark(style)
<1>1. M \in Seq(Chars)
  BY MarkIsText
<1>2. \A xs \in Seq(Atoms) :
        /\ Written(xs) \in Seq(Seq(Chars)) /\ Len(Written(xs)) = Len(xs) /\ Len(xs) \in Nat
        /\ \A i \in 1 .. Len(xs) : Written(xs)[i] = AtomText(xs[i])
  BY WrittenTyped
<1>3. Joined(Written(atoms)) \in Seq(Chars)
  <2>1. Written(atoms) \in Seq(Seq(Chars)) /\ Len(Written(atoms)) \in 0 .. Len(Written(atoms))
    BY <1>2
  <2> QED
    BY <2>1, JoinsTyped DEF Joined
<1>4. Joined(Written(<<>>)) = <<>>
  <2>1. <<>> \in Seq(Atoms) /\ Len(<<>>) = 0
    BY EmptySeq
  <2>2. Len(Written(<<>>)) = 0 /\ Len(Written(<<>>)) \in Nat
    BY <1>2, <2>1
  <2>3. Joins(Written(<<>>))[0] = <<>>
    BY <2>2, JoinsStep
  <2> QED
    BY <2>2, <2>3, Zenon DEF Joined
<1>5. ASSUME NEW a \in Atoms PROVE Joined(Written(Append(atoms, a))) = Joined(Written(atoms)) \o AtomText(a)
  <2> DEFINE n == Len(atoms)
             b == Append(atoms, a)
             v == AtomText(a)
             x == Append(Written(atoms), v)
  <2>1. n \in Nat /\ b \in Seq(Atoms) /\ Len(b) = n + 1 /\ b[n + 1] = a /\ \A i \in 1 .. n : b[i] = atoms[i]
    BY LenProperties, AppendProperties
  <2>2. /\ Written(atoms) \in Seq(Seq(Chars)) /\ Len(Written(atoms)) = n
        /\ \A i \in 1 .. n : Written(atoms)[i] = AtomText(atoms[i])
    BY <1>2
  <2>3. v \in Seq(Chars)
    BY AtomTextIsText
  <2> HIDE DEF n, b, v
  <2>4. /\ Written(b) \in Seq(Seq(Chars)) /\ Len(Written(b)) = n + 1
        /\ \A i \in 1 .. n + 1 : Written(b)[i] = AtomText(b[i])
    BY <1>2, <2>1
  <2>5. /\ x \in Seq(Seq(Chars)) /\ Len(x) = n + 1 /\ x[n + 1] = v
        /\ \A i \in 1 .. n : x[i] = Written(atoms)[i]
    BY <2>2, <2>3, AppendProperties
  <2> HIDE DEF x
  <2>6. \A i \in 1 .. n + 1 : Written(b)[i] = x[i]
    <3> TAKE i \in 1 .. n + 1
    <3>1. i \in 1 .. n \/ i = n + 1
      BY <2>1
    <3>2. CASE i \in 1 .. n
      BY <2>1, <2>2, <2>4, <2>5, <3>2, Zenon
    <3>3. CASE i = n + 1
      BY <2>1, <2>4, <2>5, <3>3, Zenon DEF v
    <3> QED
      BY <3>1, <3>2, <3>3
  <2>7. Written(b) = x
    BY <2>4, <2>5, <2>6, SeqEqual, ZenonT(30)
  <2>8. Joined(x) = Joined(Written(atoms)) \o v
    BY <2>2, <2>3, JoinedAppend DEF x
  <2> QED
    BY <2>7, <2>8, Zenon DEF b, v
<1>6. /\ Body(style, atoms) = M \o Joined(Written(atoms)) /\ Body(style, <<>>) = M \o Joined(Written(<<>>))
      /\ \A a \in Atoms : Body(style, Append(atoms, a)) = M \o Joined(Written(Append(atoms, a)))
  BY DEF Body
<1> HIDE DEF M
<1>7. Body(style, atoms) \in Seq(Chars)
  BY <1>1, <1>3, <1>6, ConcatProperties
<1>8. Body(style, <<>>) = M
  BY <1>1, <1>4, <1>6, ConcatEmptySeq
<1>9. ASSUME NEW a \in Atoms PROVE Body(style, Append(atoms, a)) = Body(style, atoms) \o AtomText(a)
  <2>1. AtomText(a) \in Seq(Chars)
    BY AtomTextIsText
  <2>2. M \o (Joined(Written(atoms)) \o AtomText(a)) = (M \o Joined(Written(atoms))) \o AtomText(a)
    BY <1>1, <1>3, <2>1, ConcatAssociative, SMTT(30)
  <2> QED
    BY <1>5, <1>6, <2>2, Zenon
<1> QED
  BY <1>7, <1>8, <1>9 DEF M

\* A piece and its text.
Made(p, style, atoms, e) ==
    p \in Pieces /\ p.atoms = atoms /\ Text(p) = Body(style, atoms) \o e

LEMMA PieceOf ==
    ASSUME NEW style \in {"gap", "bare"} \cup Quotes, NEW atoms \in Seq(Atoms), NEW e \in Seq(Chars),
           NEW p, p = [style |-> style, atoms |-> atoms, end |-> e]
    PROVE  Made(p, style, atoms, e)
<1>1. p.style = style /\ p.atoms = atoms /\ p.end = e
  BY PieceFields
<1>2. p \in Pieces
  BY DEF Pieces
<1>3. Written(p.atoms) = AtomTexts(p)
  BY DEF Written, AtomTexts
<1>4. Text(p) = Body(style, atoms) \o e
  BY <1>1, <1>3, Zenon DEF Text, Body
<1> QED
  BY <1>1, <1>2, <1>4 DEF Made

LEMMA PiecesMade ==
    /\ Made(Gap, "gap", <<>>, <<"white">>) /\ Made(Dangling, "bare", <<>>, <<"backslash">>)
    /\ \A a \in Atoms : Made(Bare(a), "bare", <<a>>, <<>>)
    /\ \A atoms \in Seq(Atoms) :
         /\ \A q \in Quotes : /\ Made(Quoted(q, atoms), q, atoms, Mark(q))
                              /\ Made(Open(q, atoms), q, atoms, <<>>)
         /\ Made(OpenThen(atoms), "double", atoms, <<"backslash">>)
<1>1. <<>> \in Seq(Atoms) /\ <<>> \in Seq(Chars)
  BY EmptySeq
<1>2. <<"white">> \in Seq(Chars) /\ <<"backslash">> \in Seq(Chars)
  BY DEF Chars
<1>3. \A style : Mark(style) \in Seq(Chars)
  BY MarkIsText
<1>4. \A a \in Atoms : <<a>> \in Seq(Atoms)
  OBVIOUS
<1>5. /\ "gap" \in {"gap", "bare"} \cup Quotes /\ "bare" \in {"gap", "bare"} \cup Quotes
      /\ "double" \in {"gap", "bare"} \cup Quotes
      /\ \A q \in Quotes : q \in {"gap", "bare"} \cup Quotes
  BY DEF Quotes
<1>6. Made(Gap, "gap", <<>>, <<"white">>)
  BY <1>1, <1>2, <1>5, PieceOf, Zenon DEF Gap
<1>7. Made(Dangling, "bare", <<>>, <<"backslash">>)
  BY <1>1, <1>2, <1>5, PieceOf, Zenon DEF Dangling
<1>8. ASSUME NEW a \in Atoms PROVE Made(Bare(a), "bare", <<a>>, <<>>)
  BY <1>1, <1>4, <1>5, PieceOf, Zenon DEF Bare
<1>9. ASSUME NEW atoms \in Seq(Atoms)
      PROVE  /\ \A q \in Quotes : /\ Made(Quoted(q, atoms), q, atoms, Mark(q))
                                  /\ Made(Open(q, atoms), q, atoms, <<>>)
             /\ Made(OpenThen(atoms), "double", atoms, <<"backslash">>)
  <2>1. ASSUME NEW q \in Quotes PROVE Made(Quoted(q, atoms), q, atoms, Mark(q))
    BY <1>3, <1>5, PieceOf, Zenon DEF Quoted
  <2>2. ASSUME NEW q \in Quotes PROVE Made(Open(q, atoms), q, atoms, <<>>)
    BY <1>1, <1>5, PieceOf, Zenon DEF Open
  <2>3. Made(OpenThen(atoms), "double", atoms, <<"backslash">>)
    BY <1>2, <1>5, PieceOf, Zenon DEF OpenThen
  <2> QED
    BY <2>1, <2>2, <2>3
<1> QED
  BY <1>6, <1>7, <1>8, <1>9

\* What can be written is written with atoms.
LEMMA WritableIsAtoms ==
    ASSUME NEW q \in Quotes
    PROVE  /\ Writable[q] \subseteq Atoms /\ Writable.bare \subseteq Atoms
           /\ Writable.double = Writable["double"]
<1>1. Writable["single"] \subseteq Atoms /\ Writable["double"] \subseteq Atoms
  BY DEF Writable
<1>2. Writable[q] \subseteq Atoms
  BY <1>1, Zenon DEF Quotes
<1>3. Writable.bare \subseteq Atoms
  BY DEF Writable
<1>4. Writable.double = Writable["double"]
  BY Zenon
<1> QED
  BY <1>2, <1>3, <1>4

\* Any character begins a piece.
LEMMA FirstPiece ==
    ASSUME NEW c \in Chars
    PROVE  \E q \in Pieces : (IsPiece(q) \/ IsLast(q)) /\ Text(q) = <<c>>
<1>1. /\ <<>> \in Seq(Atoms) /\ <<>> \in Seq(Chars) /\ <<c>> \in Seq(Chars)
      /\ <<>> \o <<c>> = <<c>> /\ <<c>> \o <<>> = <<c>>
  <2>1. <<c>> \in Seq(Chars) /\ <<>> \in Seq(Chars) /\ <<>> \in Seq(Atoms)
    BY EmptySeq
  <2> QED
    BY <2>1, ConcatEmptySeq
<1>2. Mark("gap") = <<>> /\ Mark("bare") = <<>> /\ Mark("single") = <<"quote">> /\ Mark("double") = <<"dquote">>
  BY DEF Mark
<1>3. \A style : Body(style, <<>>) = Mark(style)
  BY <1>1, BodyGrows
<1>4. CASE c = "white"
  <2>1. Gap \in Pieces /\ Text(Gap) = Body("gap", <<>>) \o <<c>>
    BY <1>1, <1>4, PiecesMade, Zenon DEF Made
  <2>2. Text(Gap) = <<c>>
    BY <1>1, <1>2, <1>3, <2>1, Zenon
  <2> QED
    BY <2>1, <2>2 DEF IsPiece
<1>5. CASE c \in Ordinary
  <2>1. PICK a \in Atoms : a = [escaped |-> FALSE, char |-> c]
    BY DEF Atoms
  <2>2. a \in Writable.bare /\ AtomText(a) = <<c>>
    BY <1>5, <2>1 DEF Writable, AtomText
  <2>3. <<a>> \in Seq(Atoms) /\ <<a>> = Append(<<>>, a)
    BY <2>1
  <2>4. Bare(a) \in Pieces /\ Text(Bare(a)) = Body("bare", <<a>>) \o <<>>
    BY <1>1, <2>3, PiecesMade, Zenon DEF Made
  <2>5. Body("bare", Append(<<>>, a)) = Body("bare", <<>>) \o AtomText(a)
    BY <1>1, BodyGrows
  <2>6. Text(Bare(a)) = <<c>>
    BY <1>1, <1>2, <1>3, <2>2, <2>3, <2>4, <2>5, Zenon
  <2> QED
    BY <2>2, <2>4, <2>6 DEF IsPiece
<1>6. CASE c = "backslash"
  <2>1. Dangling \in Pieces /\ Text(Dangling) = Body("bare", <<>>) \o <<c>>
    BY <1>1, <1>6, PiecesMade, Zenon DEF Made
  <2>2. Text(Dangling) = <<c>>
    BY <1>1, <1>2, <1>3, <2>1, Zenon
  <2> QED
    BY <2>1, <2>2 DEF IsLast
<1>7. ASSUME NEW q \in Quotes, Mark(q) = <<c>>
      PROVE  \E p \in Pieces : (IsPiece(p) \/ IsLast(p)) /\ Text(p) = <<c>>
  <2>1. PICK p : p = Open(q, <<>>)
    OBVIOUS
  <2>2. p \in Pieces /\ p.atoms = <<>> /\ Text(p) = Body(q, <<>>) \o <<>>
    BY <1>1, <2>1, PiecesMade, Zenon DEF Made
  <2>3. Text(p) = <<c>>
    BY <1>1, <1>3, <1>7, <2>2, Zenon
  <2>4. p.atoms \in Seq(Writable[q]) /\ p = Open(q, p.atoms)
    BY <2>1, <2>2, EmptySeq
  <2> QED
    BY <2>2, <2>3, <2>4, Zenon DEF IsLast
<1>8. CASE c = "quote"
  BY <1>2, <1>7, <1>8 DEF Quotes
<1>9. CASE c = "dquote"
  BY <1>2, <1>7, <1>9 DEF Quotes
<1> QED
  BY <1>4, <1>5, <1>6, <1>8, <1>9 DEF Chars, Ordinary

\* A character after another.
LEMMA TwoCharacters ==
    ASSUME NEW X, NEW x \in X, NEW y \in X
    PROVE  <<x>> \o <<y>> = <<x, y>>
<1> DEFINE u == <<x>>
           v == <<y>>
           w == <<x, y>>
           z == u \o v
<1>1. /\ u \in Seq(X) /\ Len(u) = 1 /\ u[1] = x /\ v \in Seq(X) /\ Len(v) = 1 /\ v[1] = y
      /\ w \in Seq(X) /\ Len(w) = 2 /\ w[1] = x /\ w[2] = y
  BY ShortSeqs
<1> HIDE DEF u, v, w
<1>0. z = u \o v
  OBVIOUS
<1> HIDE DEF z
<1>2. /\ z \in Seq(X) /\ Len(u) \in Nat /\ Len(v) \in Nat /\ Len(z) = Len(u) + Len(v)
      /\ \A i \in 1 .. Len(u) : z[i] = u[i]
      /\ \A i \in 1 .. Len(v) : z[Len(u) + i] = v[i]
  <2>1. u \in Seq(X) /\ v \in Seq(X) /\ z = u \o v
    BY <1>0, <1>1
  <2> QED
    BY <2>1, ConcatPlaces
<1>3. Len(z) = 2 /\ z[1] = x /\ z[2] = y
  BY <1>1, <1>2
<1>4. \A i \in 1 .. Len(z) : z[i] = w[i]
  BY <1>1, <1>3
<1>5. z = w
  BY <1>1, <1>2, <1>3, <1>4, SeqEqual
<1> QED
  BY <1>5, Zenon DEF u, v, w, z

\* And goes on with one that is not complete.
LEMMA LastGrows ==
    ASSUME NEW p, IsLast(p), NEW c \in Chars
    PROVE  /\ p \in Pieces
           /\ \E r \in Pieces : (IsPiece(r) \/ IsLast(r)) /\ Text(r) = Text(p) \o <<c>>
<1>1. /\ <<>> \in Seq(Atoms) /\ <<>> \in Seq(Chars) /\ <<c>> \in Seq(Chars)
      /\ <<"backslash">> \in Seq(Chars) /\ <<"backslash">> \o <<c>> = <<"backslash", c>>
      /\ <<"backslash", c>> \in Seq(Chars)
  <2>1. "backslash" \in Chars
    BY DEF Chars
  <2>2. <<c>> \in Seq(Chars) /\ <<"backslash">> \in Seq(Chars) /\ <<"backslash", c>> \in Seq(Chars)
    BY <2>1, ShortSeqs
  <2>3. <<"backslash">> \o <<c>> = <<"backslash", c>>
    BY <2>1, TwoCharacters
  <2> QED
    BY <2>2, <2>3, EmptySeq
<1>2. PICK a \in Atoms : a = [escaped |-> TRUE, char |-> c] /\ AtomText(a) = <<"backslash", c>>
  <2>1. PICK a : a = [escaped |-> TRUE, char |-> c]
    OBVIOUS
  <2>2. a \in Atoms /\ a.escaped /\ a.char = c
    BY <2>1 DEF Atoms
  <2>3. AtomText(a) = <<"backslash", c>>
    BY <2>2, Zenon DEF AtomText
  <2> QED
    BY <2>1, <2>2, <2>3
<1>3. PICK b \in Atoms : b = [escaped |-> FALSE, char |-> c] /\ AtomText(b) = <<c>>
  <2>1. PICK b : b = [escaped |-> FALSE, char |-> c]
    OBVIOUS
  <2>2. b \in Atoms /\ ~b.escaped /\ b.char = c
    BY <2>1 DEF Atoms
  <2>3. AtomText(b) = <<c>>
    BY <2>2, Zenon DEF AtomText
  <2> QED
    BY <2>1, <2>2, <2>3
<1>4. ASSUME NEW q \in Quotes, NEW atoms \in Seq(Writable[q])
      PROVE  atoms \in Seq(Atoms)
  BY WritableIsAtoms, SeqMonotonic
<1>5. CASE p = Dangling
  <2>1. p \in Pieces /\ Text(p) = Body("bare", <<>>) \o <<"backslash">>
    BY <1>1, <1>5, PiecesMade, Zenon DEF Made
  <2>2. <<a>> \in Seq(Atoms) /\ <<a>> = Append(<<>>, a) /\ a \in Writable.bare
    BY <1>2 DEF Writable
  <2>3. Bare(a) \in Pieces /\ Text(Bare(a)) = Body("bare", <<a>>) \o <<>>
    BY <1>1, <2>2, PiecesMade, Zenon DEF Made
  <2>4. /\ Body("bare", Append(<<>>, a)) = Body("bare", <<>>) \o AtomText(a)
        /\ Body("bare", <<>>) = Mark("bare") /\ Mark("bare") = <<>>
    <3>1. Mark("bare") = <<>>
      BY DEF Mark
    <3>2. /\ Body("bare", <<>>) = Mark("bare")
          /\ \A x \in Atoms : Body("bare", Append(<<>>, x)) = Body("bare", <<>>) \o AtomText(x)
      BY <1>1, BodyGrows, Zenon
    <3> QED
      BY <3>1, <3>2, Zenon
  <2>5. \A t \in Seq(Chars) : t \o <<>> = t /\ <<>> \o t = t
    BY ConcatEmptySeq
  <2>6. Text(Bare(a)) = <<"backslash", c>> /\ Text(p) = <<"backslash">>
    <3>1. Body("bare", <<a>>) = <<"backslash", c>>
      BY <1>1, <1>2, <2>2, <2>4, <2>5, Zenon
    <3>2. Text(Bare(a)) = <<"backslash", c>>
      BY <1>1, <2>3, <2>5, <3>1, Zenon
    <3>3. Text(p) = <<"backslash">>
      BY <1>1, <2>1, <2>4, <2>5, Zenon
    <3> QED
      BY <3>2, <3>3
  <2>7. Text(Bare(a)) = Text(p) \o <<c>>
    BY <1>1, <2>6, Zenon
  <2> QED
    BY <2>1, <2>2, <2>3, <2>7, Zenon DEF IsPiece
<1>6. CASE \E q \in Quotes : p.atoms \in Seq(Writable[q]) /\ p = Open(q, p.atoms)
  <2>1. PICK q \in Quotes : p.atoms \in Seq(Writable[q]) /\ p = Open(q, p.atoms)
    BY <1>6
  <2>2. PICK atoms \in Seq(Writable[q]) : atoms = p.atoms
    BY <2>1
  <2>3. atoms \in Seq(Atoms) /\ p = Open(q, atoms)
    BY <1>4, <2>1, <2>2
  <2>4. p \in Pieces /\ Text(p) = Body(q, atoms) \o <<>>
    BY <1>1, <2>3, PiecesMade, Zenon DEF Made
  <2>5. Body(q, atoms) \in Seq(Chars) /\ Body(q, Append(atoms, b)) = Body(q, atoms) \o AtomText(b)
    BY <2>3, BodyGrows
  <2>6. Text(p) = Body(q, atoms)
    BY <2>4, <2>5, ConcatEmptySeq
  <2>7. CASE <<c>> = Mark(q)
    <3>1. PICK r : r = Quoted(q, atoms)
      OBVIOUS
    <3>2. r \in Pieces /\ r.atoms = atoms /\ Text(r) = Body(q, atoms) \o <<c>>
      BY <1>1, <2>3, <2>7, <3>1, PiecesMade, Zenon DEF Made
    <3>3. IsPiece(r)
      BY <2>2, <3>1, <3>2, Zenon DEF IsPiece
    <3> QED
      BY <2>4, <2>6, <3>2, <3>3, Zenon
  <2>8. CASE q = "double" /\ c = "backslash"
    <3>1. PICK r : r = OpenThen(atoms)
      OBVIOUS
    <3>2. r \in Pieces /\ r.atoms = atoms /\ Text(r) = Body(q, atoms) \o <<c>>
      BY <1>1, <2>3, <2>8, <3>1, PiecesMade, Zenon DEF Made
    <3>3. IsLast(r)
      BY <2>2, <2>8, <3>1, <3>2, WritableIsAtoms, Zenon DEF IsLast
    <3> QED
      BY <2>4, <2>6, <3>2, <3>3, Zenon
  <2>9. CASE <<c>> # Mark(q) /\ ~(q = "double" /\ c = "backslash")
    <3>1. b \in Writable[q]
      <4>1. Mark("single") = <<"quote">> /\ Mark("double") = <<"dquote">>
        BY DEF Mark
      <4>2. CASE q = "single"
        <5>1. c # "quote"
          BY <2>9, <4>1, <4>2
        <5>2. b \in Writable["single"]
          BY <1>3, <5>1 DEF Writable
        <5> QED
          BY <4>2, <5>2
      <4>3. CASE q = "double"
        <5>1. c # "dquote" /\ c # "backslash"
          BY <2>9, <4>1, <4>3
        <5>2. b \in Writable["double"]
          BY <1>3, <5>1 DEF Writable
        <5> QED
          BY <4>3, <5>2
      <4> QED
        BY <4>2, <4>3 DEF Quotes
    <3>2. PICK more \in Seq(Writable[q]) : more = Append(atoms, b)
      BY <3>1, AppendProperties
    <3>3. more \in Seq(Atoms) /\ Body(q, more) \in Seq(Chars)
      BY <1>4, <3>2, BodyGrows
    <3>4. PICK r : r = Open(q, more)
      OBVIOUS
    <3>5. r \in Pieces /\ r.atoms = more /\ Text(r) = Body(q, more) \o <<>>
      BY <1>1, <3>3, <3>4, PiecesMade, Zenon DEF Made
    <3>6. Text(r) = Body(q, more)
      BY <3>3, <3>5, ConcatEmptySeq
    <3>7. IsLast(r)
      BY <3>2, <3>4, <3>5, Zenon DEF IsLast
    <3>8. Text(r) = Text(p) \o <<c>>
      BY <1>3, <2>5, <2>6, <3>2, <3>6, Zenon
    <3> QED
      BY <2>4, <3>5, <3>7, <3>8, Zenon
  <2> QED
    BY <2>7, <2>8, <2>9
<1>7. CASE p.atoms \in Seq(Writable.double) /\ p = OpenThen(p.atoms)
  <2>1. PICK atoms \in Seq(Writable["double"]) : atoms = p.atoms
    BY <1>7, WritableIsAtoms DEF Quotes
  <2>2. atoms \in Seq(Atoms) /\ p = OpenThen(atoms) /\ "double" \in Quotes
    BY <1>4, <1>7, <2>1 DEF Quotes
  <2>3. p \in Pieces /\ Text(p) = Body("double", atoms) \o <<"backslash">>
    BY <1>1, <2>2, PiecesMade, Zenon DEF Made
  <2>4. /\ Body("double", atoms) \in Seq(Chars)
        /\ Body("double", Append(atoms, a)) = Body("double", atoms) \o AtomText(a)
    BY <2>2, BodyGrows
  <2>5. a \in Writable["double"]
    BY <1>2 DEF Writable
  <2>6. PICK more \in Seq(Writable["double"]) : more = Append(atoms, a)
    BY <2>5, AppendProperties
  <2>7. more \in Seq(Atoms) /\ Body("double", more) \in Seq(Chars)
    BY <1>4, <2>2, <2>6, BodyGrows
  <2>8. PICK r : r = Open("double", more)
    OBVIOUS
  <2>9. r \in Pieces /\ r.atoms = more /\ Text(r) = Body("double", more) \o <<>>
    BY <1>1, <2>2, <2>7, <2>8, PiecesMade, Zenon DEF Made
  <2>10. Text(r) = Body("double", more)
    BY <2>7, <2>9, ConcatEmptySeq
  <2>11. IsLast(r)
    BY <2>2, <2>6, <2>8, <2>9, Zenon DEF IsLast
  <2>12. Text(r) = Text(p) \o <<c>>
    <3>1. (Body("double", atoms) \o <<"backslash">>) \o <<c>>
          = Body("double", atoms) \o (<<"backslash">> \o <<c>>)
      BY <1>1, <2>4, ConcatAssociative
    <3> QED
      BY <1>1, <1>2, <2>3, <2>4, <2>6, <2>10, <3>1, Zenon
  <2> QED
    BY <2>3, <2>9, <2>11, <2>12, Zenon
<1> QED
  BY <1>5, <1>6, <1>7, Zenon DEF IsLast

\* So a text with one character more is a text that can be written.
LEMMA ScriptGrows ==
    ASSUME NEW s, IsScript(s), NEW c \in Chars
    PROVE  \E r : IsScript(r) /\ TextOf(r) = TextOf(s) \o <<c>>
<1>1. /\ s \in Seq(Pieces) /\ Len(s) \in Nat /\ \A i \in 1 .. Len(s) : s[i] \in Pieces
      /\ \A i \in 1 .. Len(s) : IsPiece(s[i]) \/ (i = Len(s) /\ IsLast(s[i]))
  BY LenProperties, ElementOfSeq DEF IsScript
<1>2. ASSUME NEW b \in Seq(Pieces), \A i \in 1 .. Len(b) : IsPiece(b[i]),
             NEW p \in Pieces, IsPiece(p) \/ IsLast(p)
      PROVE  IsScript(Append(b, p)) /\ TextOf(Append(b, p)) = TextOf(b) \o Text(p)
  <2> DEFINE r == Append(b, p)
             n == Len(b)
  <2>1. /\ r \in Seq(Pieces) /\ Len(r) = n + 1 /\ r[n + 1] = p /\ n \in Nat
        /\ \A i \in 1 .. n : r[i] = b[i]
    BY AppendProperties, LenProperties
  <2>2. TextOf(r) = TextOf(b) \o Text(p)
    BY TextAppend
  <2>3. \A i \in 1 .. n : IsPiece(b[i])
    BY <1>2
  <2> HIDE DEF r, n
  <2>4. ASSUME NEW i \in 1 .. Len(r) PROVE IsPiece(r[i]) \/ (i = Len(r) /\ IsLast(r[i]))
    <3>1. i \in 1 .. n \/ i = n + 1
      BY <2>1
    <3> QED
      BY <1>2, <2>1, <2>3, <3>1, Zenon
  <2>5. IsScript(r)
    BY <2>1, <2>4, Zenon DEF IsScript
  <2> QED
    BY <2>2, <2>5 DEF r
<1>3. CASE \A i \in 1 .. Len(s) : IsPiece(s[i])
  <2>1. PICK p \in Pieces : (IsPiece(p) \/ IsLast(p)) /\ Text(p) = <<c>>
    BY FirstPiece
  <2>2. IsScript(Append(s, p)) /\ TextOf(Append(s, p)) = TextOf(s) \o Text(p)
    BY <1>1, <1>2, <1>3, <2>1
  <2> QED
    BY <2>1, <2>2, Zenon
<1>4. CASE ~ \A i \in 1 .. Len(s) : IsPiece(s[i])
  <2>1. PICK i \in 1 .. Len(s) : ~IsPiece(s[i])
    BY <1>4
  <2>2. i = Len(s) /\ IsLast(s[i])
    BY <1>1, <2>1
  <2>3. PICK n \in Nat : n + 1 = Len(s)
    BY <1>1, <2>1
  <2>4. PICK p \in Pieces : p = s[n + 1] /\ IsLast(p)
    BY <1>1, <2>1, <2>2, <2>3
  <2>5. PICK b \in Seq(Pieces) : IsFront(b, s, n, p)
    <3>1. s \in Seq(Pieces) /\ n \in Nat /\ Len(s) = n + 1 /\ p = s[n + 1]
      BY <1>1, <2>3, <2>4
    <3> QED
      BY <3>1, FrontAndLast, Zenon
  <2>6. Len(b) = n /\ s = Append(b, p) /\ \A k \in 1 .. n : b[k] = s[k]
    BY <2>5 DEF IsFront
  <2>7. \A k \in 1 .. Len(b) : IsPiece(b[k])
    <3>1. \A k \in 1 .. n : k \in 1 .. Len(s) /\ k # Len(s)
      BY <2>3
    <3> QED
      BY <1>1, <2>6, <3>1
  <2>8. PICK r \in Pieces : (IsPiece(r) \/ IsLast(r)) /\ Text(r) = Text(p) \o <<c>>
    BY <2>4, LastGrows
  <2>9. /\ IsScript(Append(b, r)) /\ TextOf(Append(b, r)) = TextOf(b) \o Text(r)
        /\ TextOf(s) = TextOf(b) \o Text(p)
    BY <1>2, <2>4, <2>7, <2>8, <2>6
  <2>10. TextOf(b) \o (Text(p) \o <<c>>) = (TextOf(b) \o Text(p)) \o <<c>>
    <3>1. TextOf(b) \in Seq(Chars) /\ Text(p) \in Seq(Chars) /\ <<c>> \in Seq(Chars)
      BY TextIsText, PieceText
    <3> QED
      BY <3>1, ConcatAssociative
  <2> QED
    BY <2>8, <2>9, <2>10, Zenon
<1> QED
  BY <1>3, <1>4

\* Every text can be written with pieces, so that what is proved of scripts is proved of
\* every input of the parser.
THEOREM EveryText == \A t \in Seq(Chars) : \E s : IsScript(s) /\ TextOf(s) = t
<1> DEFINE CanBeWritten(t) == \E s : IsScript(s) /\ TextOf(s) = t
           S == {n \in Nat : \A t \in Seq(Chars) : Len(t) = n => CanBeWritten(t)}
<1>1. 0 \in S
  <2>1. <<>> \in Seq(Pieces) /\ Len(<<>>) = 0
    BY EmptySeq
  <2>2. IsScript(<<>>)
    BY <2>1 DEF IsScript
  <2>3. TextOf(<<>>) = <<>>
    <3>1. Len(Texts(<<>>)) = 0 /\ Len(Texts(<<>>)) \in Nat
      BY <2>1, TextsTyped
    <3>2. Joins(Texts(<<>>))[0] = <<>>
      BY <3>1, JoinsStep
    <3> QED
      BY <3>1, <3>2, Zenon DEF TextOf, Joined
  <2>4. ASSUME NEW t \in Seq(Chars), Len(t) = 0 PROVE t = <<>>
    BY <2>4, EmptySeq
  <2> QED
    BY <2>2, <2>3, <2>4
<1>2. ASSUME NEW n \in Nat, n \in S PROVE n + 1 \in S
  <2>1. SUFFICES ASSUME NEW t \in Seq(Chars), Len(t) = n + 1 PROVE CanBeWritten(t)
    OBVIOUS
  <2>2. PICK c \in Chars : c = t[n + 1]
    BY <2>1, FrontAndLast
  <2>3. PICK u \in Seq(Chars) : IsFront(u, t, n, c)
    BY <2>1, <2>2, FrontAndLast, Zenon
  <2>4. PICK s : IsScript(s) /\ TextOf(s) = u
    BY <1>2, <2>3 DEF IsFront
  <2>5. PICK r : IsScript(r) /\ TextOf(r) = u \o <<c>>
    BY <2>4, ScriptGrows
  <2>6. Append(u, c) = u \o <<c>>
    BY AppendIsConcat
  <2> QED
    BY <2>3, <2>5, <2>6, Zenon DEF IsFront
<1> HIDE DEF S
<1>3. Nat \subseteq S
  BY <1>1, <1>2, SetInduction
<1> QED
  <2> TAKE t \in Seq(Chars)
  <2>1. Len(t) \in S
    BY <1>3, LenProperties
  <2> QED
    BY <2>1 DEF S
=============================================================================
