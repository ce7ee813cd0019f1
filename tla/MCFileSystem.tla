------------------------------- MODULE MCFileSystem -------------------------------
EXTENDS FileSystem, TLC

CONSTANTS p1, p2

TwoProcs == {p1, p2}

Abs(e) == [abs |-> TRUE, elems |-> e]
Rel(e) == [abs |-> FALSE, elems |-> e]
Open(path, make, write, trunc) ==
    [op |-> "open", path |-> path, create |-> make, write |-> write, trunc |-> trunc]

Make(path, type) == [op |-> "make", path |-> path, type |-> type]
Unlink(path) == [op |-> "unlink", path |-> path]
Chdir(path) == [op |-> "chdir", path |-> path]

(* One process moves about and removes, the other makes and links. *)
SmallCalls ==
    p1 :> { Open(Rel(<<"g">>), TRUE, TRUE, FALSE), Unlink(Abs(<<"f">>)), Unlink(Abs(<<"d">>)),
            Unlink(Abs(<<"d", "e">>)), Chdir(Abs(<<"d", "e">>)), Chdir(Rel(<<"..">>)) } @@
    p2 :> { Open(Abs(<<"f">>), FALSE, TRUE, TRUE), Make(Abs(<<"g">>), "DIR"),
            Make(Abs(<<"g">>), "DEVICE"),
            [op |-> "link", path |-> Abs(<<"f">>), new |-> Abs(<<"d", "h">>)] }

TwoFiles == <<[name |-> "f", size |-> 1], [name |-> "g", size |-> 0]>>
================================================================================
