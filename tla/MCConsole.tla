-------------------------------- MODULE MCConsole --------------------------------
EXTENDS Console

Load(set, k, b, x, y) == [set |-> set, keys |-> k, bytes |-> b, kills |-> x, panics |-> y]

(* Much input, much output, and some of both. *)
SmallLoads == {Load({"a", "nl", "U"}, 4, 0, 0, 0), Load({"a", "D", "H"}, 3, 0, 0, 0), Load({"a"}, 1, 2, 0, 0), Load({}, 0, 6, 0, 0),
               Load({"nl", "P"}, 2, 0, 1, 0), Load({"a"}, 1, 1, 0, 1), Load({}, 0, 4, 0, 1)}
================================================================================
