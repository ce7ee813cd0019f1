--------------------------------- MODULE MCShell ---------------------------------
EXTENDS Shell

Load(lines, n, f) == [lines |-> lines, n |-> n, faults |-> f]

(* All lines of up to three tokens; of those of four the ones without arrows    *)
(* and with a bar at most in second place, and the ones of words and arrows     *)
(* that end in any token.                                                       *)
T == {"a", "&", ";", "(", ")"}
Typed == BoundedSeq((Tokens \ Words) \cup {"a"}, 3) \cup [1..4 -> T] \cup
         {<<t[1], "|", t[2], t[3]>> : t \in [1..3 -> T]} \cup
         {Append(t, e) : t \in [1..3 -> {"a"} \cup Arrows], e \in (Tokens \ Words) \cup {"a"}}
Some == {<<"a", "|", "b", "|", "c">>, <<"(", "a", "|", "b", ")", ">", "f">>, <<"a", "&", ";", "b", "|", "c", "&">>,
         <<"(", "a", ";", "b", ")", "|", "c">>, <<"a", "<", "f", "|", "b", ">", "f">>}
SmallLoads == <<Load(Typed, 1, 0), Load(Some \cup {<<"a", "|", "b", "|", "c", "|", "f">>}, 1, 0), Load(Some, 1, 1),
                Load({<<"a", "|", "b">>, <<"a", "&">>, EOF, CD}, 2, 1)>>
================================================================================
