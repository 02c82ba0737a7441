----------------------------- MODULE ShellArgs -----------------------------
(***************************************************************************)
(* parse_shell_args (src/src/service.rs): the words of a positional value  *)
(* whose parameter has split_args.  One action per arm of its match.       *)
(*                                                                         *)
(* The input is given twice: as the text the parser reads, and as the      *)
(* pieces its writer meant (a gap, a character, a quoted string), which    *)
(* say what the words should be.                                           *)
(*                                                                         *)
(* An operator X_Bug is X with a plausible bug in it; see Executor.        *)
(***************************************************************************)
EXTENDS Integers, Sequences

CONSTANT Scripts \* the inputs to explore, each a sequence of pieces

\* The characters the parser tells apart: "t" stands for t, n and r, which name a
\* control character after a backslash in double quotes; "letter" for all others.
Chars   == {"letter", "t", "white", "quote", "dquote", "backslash"}
Meant   == Chars \cup {"control"}

\* How the writer of a text puts a character: plainly, or after a backslash.
Atoms == [escaped : BOOLEAN, char : Chars]

\* What may stand outside quotes, and between the quotes of each kind.
Ordinary == {"letter", "t"}
Writable == [bare   |-> {a \in Atoms : a.escaped \/ a.char \in Ordinary},
             single |-> {a \in Atoms : ~a.escaped /\ a.char # "quote"},
             double |-> {a \in Atoms : a.escaped \/ a.char \notin {"dquote", "backslash"}}]
Quotes   == {"single", "double"}

\* The mark a quoted string begins with, and normally ends with.
Mark(style) == CASE style = "single" -> <<"quote">>
                 [] style = "double" -> <<"dquote">>
                 [] OTHER            -> <<>>

\* A piece of a text: a gap between words, a character outside quotes, a quoted string.
Gap              == [style |-> "gap", atoms |-> <<>>, end |-> <<"white">>]
Bare(a)          == [style |-> "bare", atoms |-> <<a>>, end |-> <<>>]
Quoted(q, atoms) == [style |-> q, atoms |-> atoms, end |-> Mark(q)]

\* What only the end of a text can be: a backslash before nothing, a quote left open.
Dangling         == [style |-> "bare", atoms |-> <<>>, end |-> <<"backslash">>]
Open(q, atoms)   == [style |-> q, atoms |-> atoms, end |-> <<>>]
OpenThen(atoms)  == [style |-> "double", atoms |-> atoms, end |-> <<"backslash">>]

Pieces == [style : {"gap", "bare"} \cup Quotes, atoms : Seq(Atoms), end : Seq(Chars)]

IsPiece(p) ==
    \/ p = Gap
    \/ \E a \in Writable.bare : p = Bare(a)
    \/ \E q \in Quotes : p.atoms \in Seq(Writable[q]) /\ p = Quoted(q, p.atoms)

IsLast(p) ==
    \/ p = Dangling
    \/ \E q \in Quotes : p.atoms \in Seq(Writable[q]) /\ p = Open(q, p.atoms)
    \/ p.atoms \in Seq(Writable.double) /\ p = OpenThen(p.atoms)

IsScript(s) == /\ s \in Seq(Pieces)
               /\ \A i \in 1 .. Len(s) : IsPiece(s[i]) \/ (i = Len(s) /\ IsLast(s[i]))

ASSUME ScriptsAssumption == \A s \in Scripts : IsScript(s)

VARIABLES
    script,          \* what the writer of the input meant
    input,           \* the text of it
    next,            \* the place in it of the next character
    args,            \* the words found
    current_arg,     \* the word being read
    in_single_quote, in_double_quote, escaped,
    result           \* "none" until the end, then "ok" or "unclosed"

given == <<script, input>>
mode  == <<in_single_quote, in_double_quote, escaped>>
vars  == <<given, next, args, current_arg, mode, result>>

-----------------------------------------------------------------------------
(* The parser *)

\* A character of a word remembers its place in the input.
Pushed  == [at : Nat, char : Meant]

More    == result = "none" /\ next <= Len(input)
Reads(c) == More /\ ~escaped /\ input[next] = c

Push(c) == current_arg' = Append(current_arg, [at |-> next, char |-> c])

EscapedChar_Verbatim ==
    /\ More /\ escaped
    /\ Push(input[next])
    /\ escaped' = FALSE /\ next' = next + 1
    /\ UNCHANGED <<given, args, in_single_quote, in_double_quote, result>>

\* The character after a backslash, whatever it is.
EscapedChar ==
    /\ More /\ escaped
    /\ Push(IF in_double_quote /\ input[next] = "t" THEN "control" ELSE input[next])
    /\ escaped' = FALSE /\ next' = next + 1
    /\ UNCHANGED <<given, args, in_single_quote, in_double_quote, result>>

Escape ==
    /\ Reads("backslash") /\ ~in_single_quote
    /\ escaped' = TRUE /\ next' = next + 1
    /\ UNCHANGED <<given, args, current_arg, in_single_quote, in_double_quote, result>>

SingleQuote_Anywhere ==
    /\ Reads("quote")
    /\ in_single_quote' = ~in_single_quote /\ next' = next + 1
    /\ UNCHANGED <<given, args, current_arg, in_double_quote, escaped, result>>

SingleQuote ==
    /\ Reads("quote") /\ ~in_double_quote
    /\ in_single_quote' = ~in_single_quote /\ next' = next + 1
    /\ UNCHANGED <<given, args, current_arg, in_double_quote, escaped, result>>

DoubleQuote ==
    /\ Reads("dquote") /\ ~in_single_quote
    /\ in_double_quote' = ~in_double_quote /\ next' = next + 1
    /\ UNCHANGED <<given, args, current_arg, in_single_quote, escaped, result>>

WithCurrent == IF current_arg = <<>> THEN args ELSE Append(args, current_arg)

White_NotCleared ==
    /\ Reads("white") /\ ~in_single_quote /\ ~in_double_quote
    /\ args' = WithCurrent /\ UNCHANGED current_arg
    /\ next' = next + 1
    /\ UNCHANGED <<given, mode, result>>

\* The word ends, and the white space up to the next other character is skipped.
White ==
    /\ Reads("white") /\ ~in_single_quote /\ ~in_double_quote
    /\ args' = WithCurrent /\ current_arg' = <<>>
    /\ next' \in next + 1 .. Len(input) + 1
    /\ \A i \in next .. next' - 1 : input[i] = "white"
    /\ next' <= Len(input) => input[next'] # "white"
    /\ UNCHANGED <<given, mode, result>>

\* Neither a quote, nor an escape, nor a separator where it stands.
IsLiteral == /\ input[next] = "backslash" => in_single_quote
             /\ input[next] = "quote" => in_double_quote
             /\ input[next] = "dquote" => in_single_quote
             /\ input[next] = "white" => in_single_quote \/ in_double_quote

Literal ==
    /\ More /\ ~escaped /\ IsLiteral
    /\ Push(input[next])
    /\ next' = next + 1
    /\ UNCHANGED <<given, args, mode, result>>

\* A backslash at the very end escapes nothing, and leaves nothing.
Finish ==
    /\ result = "none" /\ next > Len(input)
    /\ IF in_single_quote \/ in_double_quote
       THEN result' = "unclosed" /\ UNCHANGED <<args, current_arg>>
       ELSE result' = "ok" /\ args' = WithCurrent /\ current_arg' = <<>>
    /\ UNCHANGED <<given, next, mode>>

-----------------------------------------------------------------------------
(* What the writer meant *)

\* The sequences of a sequence, one after the other: up to each place, and all of them.
Joins(ss)  == LET join[n \in 0 .. Len(ss)] == IF n = 0 THEN <<>> ELSE join[n - 1] \o ss[n]
              IN join
Joined(ss) == Joins(ss)[Len(ss)]

\* The text of an atom, of several, of a piece, of a script.
AtomText(a)  == IF a.escaped THEN <<"backslash", a.char>> ELSE <<a.char>>
AtomTexts(p) == [i \in 1 .. Len(p.atoms) |-> AtomText(p.atoms[i])]
Text(p)      == Mark(p.style) \o Joined(AtomTexts(p)) \o p.end
Texts(s)     == [i \in 1 .. Len(s) |-> Text(s[i])]
TextOf(s)    == Joined(Texts(s))

\* The characters a piece stands for: an escape within double quotes may name a control
\* character.
Value(p, i) == LET a == p.atoms[i]
               IN IF p.style = "double" /\ a.escaped /\ a.char = "t" THEN "control" ELSE a.char
Meaning(p)  == [i \in 1 .. Len(p.atoms) |-> Value(p, i)]

\* Adjacent pieces make one word; a word of nothing, such as '', is no word.
Close(r)    == IF r.word = <<>> THEN r ELSE [words |-> Append(r.words, r.word), word |-> <<>>]
Then(r, p)  == IF p = Gap THEN Close(r) ELSE [words |-> r.words, word |-> r.word \o Meaning(p)]
Read(s)     == LET read[n \in 0 .. Len(s)] ==
                     IF n = 0 THEN [words |-> <<>>, word |-> <<>>] ELSE Then(read[n - 1], s[n])
               IN read
WordsOf(s)  == Close(Read(s)[Len(s)]).words

IsOpen(s)   == \E i \in 1 .. Len(s) : s[i].style \in Quotes /\ s[i].end # Mark(s[i].style)

-----------------------------------------------------------------------------
Init ==
    /\ script \in Scripts /\ input = TextOf(script)
    /\ next = 1 /\ args = <<>> /\ current_arg = <<>>
    /\ in_single_quote = FALSE /\ in_double_quote = FALSE /\ escaped = FALSE
    /\ result = "none"

Parsed == result # "none" /\ UNCHANGED vars

Next == \/ EscapedChar \/ Escape \/ SingleQuote \/ DoubleQuote \/ White \/ Literal
        \/ Finish \/ Parsed

Spec == Init /\ [][Next]_vars

-----------------------------------------------------------------------------
(* Properties *)

\* The type invariant: the parser is in one quote at most, and no escape is pending
\* within single quotes.
TypeOK ==
    /\ input \in Seq(Chars) /\ next \in 1 .. Len(input) + 1
    /\ args \in Seq(Seq(Pushed)) /\ current_arg \in Seq(Pushed)
    /\ in_single_quote \in BOOLEAN /\ in_double_quote \in BOOLEAN /\ escaped \in BOOLEAN
    /\ ~(in_single_quote /\ in_double_quote) /\ ~(in_single_quote /\ escaped)
    /\ result \in {"none", "ok", "unclosed"}

Spelled(word) == [i \in 1 .. Len(word) |-> word[i].char]

\* The words are those the writer meant, in every style of quoting and every mixture of
\* styles within a word; an input is refused if, and only if, a quote is left open.
WordsAsQuoted ==
    /\ result = "unclosed" => IsOpen(script)
    /\ result = "ok" => /\ ~IsOpen(script)
                        /\ [i \in 1 .. Len(args) |-> Spelled(args[i])] = WordsOf(script)

Words == WithCurrent
Place(w, k) == Words[w][k].at

\* The characters of the words, read from the first word to the last, are in the order
\* of the input, each at most once, and what the input has there.
KeepsOrder ==
    \A w \in 1 .. Len(Words) : \A k \in 1 .. Len(Words[w]) :
        /\ Place(w, k) \in 1 .. next - 1
        /\ \/ Words[w][k].char = input[Place(w, k)]
           \/ Words[w][k].char = "control" /\ input[Place(w, k)] = "t"
        /\ \A l \in 1 .. k - 1 : Place(w, l) < Place(w, k)
        /\ \A v \in 1 .. w - 1 : \A l \in 1 .. Len(Words[v]) : Place(v, l) < Place(w, k)

\* No ordinary character is lost, and one word becomes two only where the input has
\* white space between them.
NothingLost ==
    /\ \A i \in 1 .. next - 1 : input[i] \in Ordinary =>
         \E w \in 1 .. Len(Words) : \E k \in 1 .. Len(Words[w]) : Place(w, k) = i
    /\ \A v, w \in 1 .. Len(Words) : v < w =>
         \E i \in 1 .. next - 1 : input[i] = "white" /\ Words[v][Len(Words[v])].at < i /\ i < Place(w, 1)

\* The words are the text without its quotes, escapes and gaps: no character is moved,
\* repeated, changed or lost, and words are divided at white space only.
WordsAreTheText == KeepsOrder /\ NothingLost
=============================================================================
