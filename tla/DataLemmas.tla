----------------------------- MODULE DataLemmas -----------------------------
(***************************************************************************)
(* What the proofs about the parser, the argument builder and the          *)
(* configuration need to know of numbers and sequences: induction in a     *)
(* form without operator parameters, over a set of numbers, for functions  *)
(* that are defined recursively; and counting in sequences.                *)
(***************************************************************************)
EXTENDS Integers, Sequences, FiniteSets, WellFoundedInduction, SequenceTheorems,
        FunctionTheorems, FiniteSetTheorems, TLAPS

-----------------------------------------------------------------------------
(* Induction *)

\* A set of natural numbers that is not empty has a least element.
LEMMA LeastElement ==
    ASSUME NEW T, T \subseteq Nat, T # {}
    PROVE  \E x \in T : \A y \in T : x <= y
<1> DEFINE R == OpToRel(<, Nat)
<1>1. \E x \in T : \A y \in T : ~(<<y, x>> \in R)
  <2>1. IsWellFoundedOn(R, Nat)
    BY NatLessThanWellFounded
  <2> HIDE DEF R
  <2> QED
    BY <2>1, WFMin
<1>2. \A x, y \in Nat : <<y, x>> \in R <=> y < x
  BY DEF OpToRel
<1> HIDE DEF R
<1>3. PICK x \in T : \A y \in T : ~(<<y, x>> \in R)
  BY <1>1
<1>4. \A y \in T : x <= y
  <2> TAKE y \in T
  <2>1. x \in Nat /\ y \in Nat
    OBVIOUS
  <2>2. ~(y < x)
    BY <1>2, <1>3, <2>1
  <2> QED
    BY <2>1, <2>2
<1> QED
  BY <1>4

\* A set that has 0 and, with a number, the next one, has them all.
LEMMA SetInduction ==
    ASSUME NEW S, 0 \in S, \A n \in Nat : n \in S => n + 1 \in S
    PROVE  Nat \subseteq S
<1> SUFFICES ASSUME Nat \ S # {} PROVE FALSE
  OBVIOUS
<1>1. PICK x \in Nat \ S : \A y \in Nat \ S : x <= y
  BY LeastElement
<1>2. x # 0 /\ x - 1 \in Nat /\ x - 1 \in S
  BY <1>1
<1> QED
  BY <1>1, <1>2

-----------------------------------------------------------------------------
(* Counting *)

\* The places of a sequence that hold a member of T, and how many they are.
Hits(s, T)  == {i \in 1 .. Len(s) : s[i] \in T}
Tally(s, T) == Cardinality(Hits(s, T))

LEMMA HitsFinite ==
    ASSUME NEW X, NEW s \in Seq(X), NEW T
    PROVE  IsFiniteSet(Hits(s, T)) /\ Tally(s, T) \in Nat
<1>1. IsFiniteSet(1 .. Len(s))
  BY LenProperties, FS_Interval
<1>2. Hits(s, T) \in SUBSET (1 .. Len(s))
  BY DEF Hits
<1>3. IsFiniteSet(Hits(s, T))
  BY <1>1, <1>2, FS_Subset, Zenon
<1> QED
  BY <1>3, FS_CardinalityType DEF Tally

\* The places in a concatenation ...
LEMMA HitsConcat ==
    ASSUME NEW X, NEW s \in Seq(X), NEW t \in Seq(X), NEW T
    PROVE  Hits(s \o t, T) = Hits(s, T) \cup {Len(s) + i : i \in Hits(t, T)}
<1> DEFINE u == s \o t
<1>1. /\ Len(s) \in Nat /\ Len(t) \in Nat /\ Len(u) = Len(s) + Len(t)
      /\ \A i \in 1 .. Len(s) : u[i] = s[i]
      /\ \A i \in 1 .. Len(t) : u[Len(s) + i] = t[i]
  BY ConcatProperties, LenProperties
<1> HIDE DEF u
<1>2. ASSUME NEW k \in Hits(u, T)
      PROVE  k \in Hits(s, T) \/ \E i \in Hits(t, T) : k = Len(s) + i
  <2>1. k \in 1 .. Len(u) /\ u[k] \in T
    BY <1>2 DEF Hits
  <2>2. CASE k \in 1 .. Len(s)
    BY <1>1, <2>1, <2>2 DEF Hits
  <2>3. CASE k \notin 1 .. Len(s)
    <3>1. k - Len(s) \in 1 .. Len(t) /\ k = Len(s) + (k - Len(s))
      BY <1>1, <2>1, <2>3
    <3>2. k - Len(s) \in Hits(t, T)
      BY <1>1, <2>1, <3>1 DEF Hits
    <3> QED
      BY <3>1, <3>2
  <2> QED
    BY <2>2, <2>3
<1>3. ASSUME NEW k \in Hits(s, T) PROVE k \in Hits(u, T)
  BY <1>1 DEF Hits
<1>4. ASSUME NEW i \in Hits(t, T) PROVE Len(s) + i \in Hits(u, T)
  BY <1>1 DEF Hits
<1>5. Hits(u, T) = Hits(s, T) \cup {Len(s) + i : i \in Hits(t, T)}
  BY <1>2, <1>3, <1>4
<1> QED
  BY <1>5 DEF u

\* ... are as many as those of its parts.
LEMMA TallyConcat ==
    ASSUME NEW X, NEW s \in Seq(X), NEW t \in Seq(X), NEW T
    PROVE  Tally(s \o t, T) = Tally(s, T) + Tally(t, T)
<1> DEFINE S == Hits(s, T)
           H == Hits(t, T)
           M == {Len(s) + i : i \in H}
<1>0. Len(s) \in Nat /\ S \subseteq 1 .. Len(s) /\ H \subseteq 1 .. Len(t)
  BY LenProperties DEF Hits
<1>1. IsFiniteSet(S) /\ IsFiniteSet(H)
  BY HitsFinite
<1>2. IsFiniteSet(M) /\ Cardinality(M) = Cardinality(H)
  <2> DEFINE f == [i \in H |-> Len(s) + i]
  <2>1. \A i \in H : i \in Int
    BY <1>0
  <2> HIDE DEF H
  <2>2. f \in [H -> M] /\ \A a, b \in H : f[a] = f[b] => a = b
    BY <1>0, <2>1
  <2>3. \A k \in M : \E i \in H : f[i] = k
    OBVIOUS
  <2>4. f \in Bijection(H, M)
    <3> HIDE DEF f, M
    <3> QED
      BY <2>2, <2>3, Fun_IsBij
  <2>5. ExistsBijection(H, M)
    BY <2>4 DEF ExistsBijection
  <2> QED
    BY <1>1, <2>5, FS_Bijection
<1>3. S \cap M = {}
  BY <1>0
<1>4. Cardinality(S \cup M) = Cardinality(S) + Cardinality(M)
  <2> HIDE DEF S, M
  <2>1. Cardinality(S \cap M) = 0
    BY <1>3, FS_EmptySet
  <2>2. Cardinality(S) \in Nat /\ Cardinality(M) \in Nat
    BY <1>1, <1>2, FS_CardinalityType
  <2>3. Cardinality(S \cup M) = Cardinality(S) + Cardinality(M) - Cardinality(S \cap M)
    BY <1>1, <1>2, FS_Union
  <2> QED
    BY <2>1, <2>2, <2>3
<1>5. Hits(s \o t, T) = S \cup M
  BY HitsConcat
<1> QED
  BY <1>2, <1>4, <1>5 DEF Tally

\* A sequence without members of T.
LEMMA TallyNone ==
    ASSUME NEW s, NEW T, \A i \in 1 .. Len(s) : s[i] \notin T
    PROVE  Hits(s, T) = {} /\ Tally(s, T) = 0
<1>1. Hits(s, T) = {}
  BY DEF Hits
<1> QED
  BY <1>1, FS_EmptySet DEF Tally

\* A sequence with one of them.
LEMMA TallyOne ==
    ASSUME NEW s, NEW T, NEW k \in 1 .. Len(s),
           \A i \in 1 .. Len(s) : s[i] \in T <=> i = k
    PROVE  Hits(s, T) = {k} /\ Tally(s, T) = 1
<1>1. Hits(s, T) = {k}
  BY DEF Hits
<1> QED
  BY <1>1, FS_Singleton DEF Tally

\* Taking the head off.
LEMMA TallyTail ==
    ASSUME NEW X, NEW s \in Seq(X), s # <<>>, NEW T
    PROVE  Tally(s, T) = Tally(Tail(s), T) + (IF Head(s) \in T THEN 1 ELSE 0)
<1>1. /\ Head(s) \in X /\ Tail(s) \in Seq(X) /\ <<Head(s)>> \in Seq(X)
      /\ Len(<<Head(s)>>) = 1 /\ <<Head(s)>>[1] = Head(s)
  BY HeadTailProperties
<1>2. s = <<Head(s)>> \o Tail(s)
  <2>1. /\ Len(s) \in Nat \ {0} /\ Len(Tail(s)) = Len(s) - 1 /\ Head(s) = s[1]
        /\ \A i \in 1 .. Len(Tail(s)) : Tail(s)[i] = s[i + 1]
    BY HeadTailProperties, LenProperties, EmptySeq
  <2> DEFINE u == <<Head(s)>> \o Tail(s)
  <2>2. /\ u \in Seq(X) /\ Len(u) = 1 + Len(Tail(s))
        /\ \A i \in 1 .. 1 + Len(Tail(s)) : u[i] = IF i <= 1 THEN <<Head(s)>>[i] ELSE Tail(s)[i - 1]
    BY <1>1, ConcatProperties
  <2> HIDE DEF u
  <2>3. Len(u) = Len(s)
    BY <2>1, <2>2
  <2>4. \A i \in 1 .. Len(s) : u[i] = s[i]
    <3> TAKE i \in 1 .. Len(s)
    <3>1. CASE i = 1
      BY <1>1, <2>1, <2>2, <3>1
    <3>2. CASE i # 1
      <4>1. i - 1 \in 1 .. Len(Tail(s)) /\ (i - 1) + 1 = i /\ i \in 1 .. 1 + Len(Tail(s))
        BY <2>1, <3>2
      <4> QED
        BY <2>1, <2>2, <3>2, <4>1
    <3> QED
      BY <3>1, <3>2
  <2>5. u = s
    BY <2>2, <2>3, <2>4, SeqEqual
  <2> QED
    BY <2>5 DEF u
<1>3. Tally(s, T) = Tally(<<Head(s)>>, T) + Tally(Tail(s), T)
  <2>1. Tally(<<Head(s)>> \o Tail(s), T) = Tally(<<Head(s)>>, T) + Tally(Tail(s), T)
    BY <1>1, TallyConcat
  <2> QED
    BY <1>2, <2>1, Zenon
<1>4. Tally(Tail(s), T) \in Nat
  BY <1>1, HitsFinite
<1>5. CASE Head(s) \in T
  <2>1. Tally(<<Head(s)>>, T) = 1
    <3>1. 1 \in 1 .. Len(<<Head(s)>>) /\ \A i \in 1 .. Len(<<Head(s)>>) : <<Head(s)>>[i] \in T <=> i = 1
      BY <1>1, <1>5
    <3> QED
      BY <3>1, TallyOne
  <2> QED
    BY <1>3, <1>4, <1>5, <2>1
<1>6. CASE Head(s) \notin T
  <2>1. Tally(<<Head(s)>>, T) = 0
    <3>1. \A i \in 1 .. Len(<<Head(s)>>) : <<Head(s)>>[i] \notin T
      BY <1>1, <1>6
    <3> QED
      BY <3>1, TallyNone
  <2> QED
    BY <1>3, <1>4, <1>6, <2>1
<1> QED
  BY <1>5, <1>6
=============================================================================
