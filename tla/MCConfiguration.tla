--------------------------- MODULE MCConfiguration ---------------------------
(***************************************************************************)
(* Small files for Configuration: two groups whose tools can get the same  *)
(* name ("a" with "b_c", "a_b" with "c"), and every combination of the     *)
(* limits of one tool and its group.                                       *)
(***************************************************************************)
EXTENDS Configuration

MCGroupNames == {"a", "a_b"}
MCToolNames  == {"c", "b_c"}
MCFullName   == [p \in MCGroupNames \X MCToolNames |->
                   CASE p = <<"a", "c">> -> "a_c" [] p = <<"a_b", "b_c">> -> "a_b_b_c"
                     [] OTHER -> "a_b_c"]
MCLimits     == {"timeout", "stop_after"}
MCBuiltIn    == [timeout |-> [default |-> 2, max |-> 4], stop_after |-> [default |-> 0, max |-> 5]]

NoAuth   == [enabled |-> FALSE, methods |-> {}]
NoLimits == [k \in MCLimits |-> [default |-> None, max |-> None]]
Plain(t) == [name |-> t, limits |-> NoLimits, signal |-> "none", ordered |-> TRUE, flagged |-> TRUE]
PlainGroup(ts) == [limits |-> NoLimits, signal |-> "none", tools |-> ts]

\* One tool in one group, with all the limits.
SomePairs == [default : {None, 0, 1, 3}, max : {None, 0, 2}]
Timeout(p, q) == [timeout |-> p, stop_after |-> q]
LimitFiles ==
    {[auth |-> NoAuth,
      groups |-> [g \in {"a"} |->
         [PlainGroup(<<[Plain("c") EXCEPT !.limits = Timeout(p, q)]>>)
            EXCEPT !.limits = Timeout(r, s)]]] :
       p \in SomePairs, r \in SomePairs,
       q \in {[default |-> None, max |-> None], [default |-> 3, max |-> 2]},
       s \in {[default |-> None, max |-> None], [default |-> 6, max |-> None],
              [default |-> 1, max |-> 1], [default |-> 6, max |-> 7]}}

\* Two groups and up to three tools, with everything that can be wrong about them.
OddTools == {[Plain("c") EXCEPT !.signal = "invalid"], [Plain("b_c") EXCEPT !.signal = "SIGINT"],
             [Plain("c") EXCEPT !.ordered = FALSE], [Plain("c") EXCEPT !.flagged = FALSE]}
SomeTools == OddTools \cup {Plain("c"), Plain("b_c")}
ToolLists == {<<>>} \cup {<<t>> : t \in SomeTools} \cup (SomeTools \X {Plain("c"), Plain("b_c")})
NameFiles ==
    {[auth |-> NoAuth,
      groups |-> [a |-> [PlainGroup(x) EXCEPT !.signal = s], a_b |-> PlainGroup(y)]] :
       x \in ToolLists, s \in {"none", "SIGINT", "invalid"},
       y \in {<<>>, <<Plain("c")>>, <<Plain("b_c")>>, <<Plain("b_c"), Plain("b_c")>>}}

AuthFiles == {[auth |-> a, groups |-> [g \in {"a"} |-> PlainGroup(<<Plain("c")>>)]] :
                a \in [enabled : BOOLEAN, methods : SUBSET Methods]}

MCFiles == LimitFiles \cup NameFiles \cup AuthFiles
=============================================================================
