--------------------------------- MODULE MCMemory ---------------------------------
EXTENDS Memory

Load(held, low, n, l) == [kernel |-> held, low |-> low, calls |-> n, lanes |-> l]

(* Calls one after the other with enough and with too little memory, and two at *)
(* a time where they compete for the last pages; and calls that take what kinit *)
(* put at the bottom of the list.                                               *)
SmallLoads == {Load(k, TRUE, 5, 1) : k \in {4, 9, 10, 11, 12, 13}} \cup
              {Load(k, TRUE, 4, 2) : k \in {9, 10}} \cup
              {Load(0, FALSE, 2, 2)} \cup {Load(k, FALSE, 4, 1) : k \in 9..14}
================================================================================
