------------------------------ MODULE AtomicDisk ------------------------------
(* What the logging layer promises the file system: operations that run between *)
(* begin_op() and end_op() update blocks in memory, the updates of all of them  *)
(* become durable in one step and only while no operation is in progress, and a *)
(* crash takes the contents back to the last such step.                         *)

CONSTANTS Procs, Blocks, Vals, InitVal

VARIABLES
    durable,    \* what the blocks hold after a crash and recovery
    current,    \* what a read of the blocks returns now
    active      \* processes inside an operation

vars == <<durable, current, active>>

Init == /\ durable = [b \in Blocks |-> InitVal]
        /\ current = durable
        /\ active = {}

Begin(p) == /\ p \notin active
            /\ active' = active \cup {p}
            /\ UNCHANGED <<durable, current>>

Write(p, b, v) == /\ p \in active
                  /\ current' = [current EXCEPT ![b] = v]
                  /\ UNCHANGED <<durable, active>>

End(p) == /\ p \in active
          /\ active' = active \ {p}
          /\ UNCHANGED <<durable, current>>

Commit == /\ active = {}
          /\ durable' = current
          /\ UNCHANGED <<current, active>>

Crash == /\ current' = durable
         /\ active' = {}
         /\ UNCHANGED durable

Next == \/ \E p \in Procs : Begin(p) \/ End(p)
        \/ \E p \in Procs, b \in Blocks, v \in Vals : Write(p, b, v)
        \/ Commit
        \/ Crash

Spec == Init /\ [][Next]_vars
===============================================================================
