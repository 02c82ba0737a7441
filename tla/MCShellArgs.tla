---------------------------- MODULE MCShellArgs ----------------------------
(***************************************************************************)
(* Every input of up to MaxLength characters, as the pieces it consists    *)
(* of: EveryInput has TLC count that none is missing and none comes twice. *)
(***************************************************************************)
EXTENDS ShellArgs, FiniteSets

CONSTANT MaxLength \* bound: the characters of an input

\* What the quotes of each kind can hold, n characters in all.
Contents(q) ==
    LET holds[n \in 0 .. MaxLength] ==
          IF n = 0 THEN {<<>>}
          ELSE UNION {{Append(s, a) : s \in holds[n - Len(AtomText(a))]} :
                        a \in {b \in Writable[q] : Len(AtomText(b)) <= n}}
    IN holds

\* The pieces of n characters, and those that can only be the last.
PiecesOf(n) ==
    (IF n = 1 THEN {Gap} ELSE {})
    \cup {Bare(a) : a \in {b \in Writable.bare : Len(AtomText(b)) = n}}
    \cup (IF n < 2 THEN {} ELSE UNION {{Quoted(q, s) : s \in Contents(q)[n - 2]} : q \in Quotes})

LastPieces(n) ==
    UNION {{Open(q, s) : s \in Contents(q)[n - 1]} : q \in Quotes}
    \cup (IF n = 1 THEN {Dangling} ELSE {OpenThen(s) : s \in Contents("double")[n - 2]})

Closed[n \in 0 .. MaxLength] ==
    IF n = 0 THEN {<<>>}
    ELSE UNION {{Append(s, p) : s \in Closed[n - k], p \in PiecesOf(k)} : k \in 1 .. n}

MCScripts == UNION {Closed[n] : n \in 0 .. MaxLength}
    \cup UNION {{Append(s, p) : s \in Closed[n - k], p \in LastPieces(k)} :
                  <<n, k>> \in {q \in (1 .. MaxLength) \X (1 .. MaxLength) : q[2] <= q[1]}}

Inputs(n) == Cardinality(Chars) ^ n

ASSUME EveryInput == \A n \in 0 .. MaxLength :
    LET some == {s \in MCScripts : Len(TextOf(s)) = n}
    IN Cardinality(some) = Inputs(n) /\ Cardinality({TextOf(s) : s \in some}) = Inputs(n)
=============================================================================
