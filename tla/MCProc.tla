-------------------------------- MODULE MCProc --------------------------------
EXTENDS Proc

SmallTable == 1..4

Load(n, cpu, made, forked, k) ==
    [table |-> 1..n, cpus |-> cpu, forks |-> forked, kills |-> k,
     calls |-> [p \in Slots |-> IF p <= n THEN made[p] ELSE {}]]

(* Processes; one of them is killed; a process and its thread; threads of init; *)
(* threads that join each other; a thread that creates a thread.                *)
SmallLoads ==
    {Load(3, 2, [p \in 1..3 |-> {"fork", "exit", "wait"}], 2, 0),
     Load(3, 2, <<{"fork", "wait", "kill"}, {"fork", "wait"}, {"exit"}>>, 2, 1),
     Load(3, 2, <<{"fork", "wait"}, {"create_thread", "exit"}, {"exit", "thread_exit"}>>, 2, 0),
     Load(3, 2, <<{"create_thread", "wait"}, {"create_thread", "thread_exit"},
                  {"exit", "thread_exit"}>>, 2, 0),
     Load(3, 2, <<{"create_thread", "wait"}, {"join_thread", "thread_exit"},
                  {"join_thread", "thread_exit"}>>, 2, 0),
     Load(4, 1, <<{"fork"}, {"create_thread"}, {"create_thread"}, {"thread_exit"}>>, 3, 0)}
================================================================================
