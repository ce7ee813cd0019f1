--------------------------------- MODULE Proc ---------------------------------
(* The life of processes and threads (proc.c): fork(), exit(), wait(), kill(),  *)
(* create_thread(), join_thread(), thread_exit(), sleep() and wakeup(), the     *)
(* switch to and from the scheduler, and the test of killed in usertrap().      *)
(* User programs are arbitrary but for the calls they make (Loads).             *)
(*                                                                              *)
(* A process or thread is its slot in the table.  p->lock is held over more     *)
(* than one step only while its process switches to the scheduler (the set      *)
(* switching), and wait_lock by a process inside exit(), wait() or              *)
(* join_thread().  A loop over the table that runs under wait_lock is one step: *)
(* what it looks for cannot change meanwhile.                                   *)
EXTENDS Naturals, FiniteSets

CONSTANTS
    Slots,          \* slots of the process table, by number
    initproc,
    None,           \* a null pointer
    MAX_THREADS,
    CLEARED,        \* entries of infant_threads that allocproc() clears
    Loads           \* bounds: slots and processors used, calls the program in each slot
                    \* makes, processes created and calls of kill()

AllCalls == {"fork", "exit", "wait", "kill", "create_thread", "join_thread", "thread_exit"}

ASSUME ProcAssumption ==
    /\ Slots \subseteq Nat /\ initproc \in Slots /\ None \notin Slots
    /\ MAX_THREADS \in Nat \ {0} /\ CLEARED \in 0..MAX_THREADS
    /\ Loads \subseteq [table : SUBSET Slots, calls : [Slots -> SUBSET AllCalls],
                       cpus : Nat, forks : Nat, kills : Nat]

VARIABLES
    state, parent, chan, pid,   \* fields of struct proc
    killed,         \* processes with p->killed set
    thread,         \* those with p->is_thread set
    infants,        \* p->infant_threads
    cwd,            \* processes whose p->cwd is not null
    switching,      \* processes whose p->lock is held until the scheduler releases it
    oncpu,          \* processes some processor runs, or is about to leave
    wait_lock,      \* its holder
    pc,             \* where a process is in the kernel, or "user"
    np,             \* local: the new process, the infant or the thread to join
    fam,            \* local: whose infant_threads
    idx,            \* local: thread_idx, i
    nextpid,
    left,           \* what is left of the load
    panicked,       \* the kernel has stopped
    crossed         \* history: exit() of a thread has found an infant

fields == <<state, parent, chan, pid>>
family == <<thread, infants, cwd>>
locals == <<np, fam, idx>>
vars == <<fields, killed, family, switching, oncpu, wait_lock, pc, locals, nextpid, left,
          panicked, crossed>>

Entries == 1..MAX_THREADS

Init == /\ state = [p \in Slots |-> IF p = initproc THEN "RUNNABLE" ELSE "UNUSED"]
        /\ parent = [p \in Slots |-> None]
        /\ chan = [p \in Slots |-> None]
        /\ pid = [p \in Slots |-> IF p = initproc THEN 1 ELSE 0]
        /\ killed = {} /\ switching = {} /\ oncpu = {}
        /\ thread = {} /\ cwd = {initproc}
        /\ infants = [p \in Slots |-> [i \in Entries |-> None]]
        /\ wait_lock = None
        /\ pc = [p \in Slots |-> "user"]
        /\ np = [p \in Slots |-> None]
        /\ fam = [p \in Slots |-> None]
        /\ idx = [p \in Slots |-> 1]
        /\ nextpid = 2
        /\ left \in Loads
        /\ panicked = FALSE /\ crossed = FALSE

(* p executes at label; a process executes only on a processor and before it    *)
(* starts to switch away.                                                       *)
Executes(p) == p \in oncpu /\ p \notin switching /\ ~panicked
At(p, label) == Executes(p) /\ pc[p] = label
Goto(p, label) == pc' = [pc EXCEPT ![p] = label]
Unlocked(p) == p \notin switching

(* freeproc() *)
Freed(q) == /\ state' = [state EXCEPT ![q] = "UNUSED"]
            /\ parent' = [parent EXCEPT ![q] = None]
            /\ chan' = [chan EXCEPT ![q] = None]
            /\ pid' = [pid EXCEPT ![q] = 0]
            /\ killed' = killed \ {q}

(* wakeup(c) *)
Wakes(c) == {q \in Slots : state[q] = "SLEEPING" /\ chan[q] = c}
Woken(S) == [q \in Slots |-> IF q \in S THEN "RUNNABLE" ELSE state[q]]

--------------------------------------------------------------------------------
(* scheduler(), sched() and yield() *)

(* The scheduler takes p->lock, and the process releases it when it resumes:    *)
(* in forkret(), in yield(), or in sleep() after clearing chan.                 *)
Runnable(p) == state[p] = "RUNNABLE" /\ Unlocked(p)

Schedule(p) == /\ ~panicked
               /\ Runnable(p)
               /\ Cardinality(oncpu) < left.cpus
               /\ state' = [state EXCEPT ![p] = "RUNNING"]
               /\ chan' = [chan EXCEPT ![p] = None]
               /\ oncpu' = oncpu \cup {p}
               /\ UNCHANGED <<parent, pid, killed, family, switching, wait_lock, pc, locals>>
               /\ UNCHANGED <<nextpid, left, panicked, crossed>>

(* swtch() is done; the scheduler releases p->lock. *)
Switched(p) == /\ p \in switching
               /\ switching' = switching \ {p}
               /\ oncpu' = oncpu \ {p}
               /\ UNCHANGED <<fields, killed, family, wait_lock, pc, locals, nextpid, left>>
               /\ UNCHANGED <<panicked, crossed>>

(* A timer interrupt, wherever no spin-lock is held; a process that spins in    *)
(* acquire() has interrupts off.                                                *)
Spins(p) == /\ wait_lock # None
            /\ pc[p] \in {"fork_parent", "thread_parent", "exit", "exit_own", "thread_exit",
                         "exit_infant", "wait", "join_lock", "join_wake"}

yield(p) == /\ Executes(p) /\ wait_lock # p /\ ~Spins(p)
            /\ state' = [state EXCEPT ![p] = "RUNNABLE"]
            /\ switching' = switching \cup {p}
            /\ UNCHANGED <<parent, chan, pid, killed, family, oncpu, wait_lock, pc, locals>>
            /\ UNCHANGED <<nextpid, left, panicked, crossed>>

--------------------------------------------------------------------------------
(* usertrap(): a killed process exits at its next trap, else it makes a call. *)

Trap(p) == /\ At(p, "user")
           /\ IF p \in killed
              THEN Goto(p, "exit")
              ELSE \E call \in AllCalls : call \in left.calls[p] /\ Goto(p, call)
           /\ UNCHANGED <<fields, killed, family, switching, oncpu, wait_lock, locals>>
           /\ UNCHANGED <<nextpid, left, panicked, crossed>>

(* The way back to user space tests killed again. *)
Return(p) == Goto(p, IF p \in killed THEN "exit" ELSE "user")

(* The locals of a call that is over mean nothing. *)
Forget(p) == /\ np' = [np EXCEPT ![p] = None]
             /\ fam' = [fam EXCEPT ![p] = None]
             /\ idx' = [idx EXCEPT ![p] = 1]

(* A fault in the kernel, or its panic. *)
Panic == /\ panicked' = TRUE
         /\ UNCHANGED <<fields, killed, family, switching, oncpu, wait_lock, pc, locals>>
         /\ UNCHANGED <<nextpid, left>>

allocpid == nextpid + 1

(* The start of fork() and create_thread(): allocproc() and the copies, under   *)
(* np->lock.  The scan locks one slot at a time, so a lower one may be unused   *)
(* again by now.  Getting or copying memory may fail, before or after the       *)
(* entries are cleared; idup() of a null pointer is a fault.                    *)
Cleared(q) == [infants EXCEPT ![q] = [i \in Entries |-> IF i <= CLEARED THEN None ELSE @[i]]]

Alloc(p, q, call, next) ==
    /\ At(p, call) /\ left.forks > 0
    /\ q \in left.table /\ state[q] = "UNUSED" /\ Unlocked(q)
    /\ nextpid' = allocpid
    /\ left' = [left EXCEPT !.forks = @ - 1]
    /\ \/ /\ p \in cwd
          /\ state' = [state EXCEPT ![q] = "USED"]
          /\ pid' = [pid EXCEPT ![q] = nextpid]
          /\ infants' = Cleared(q)
          /\ cwd' = cwd \cup {q}
          /\ np' = [np EXCEPT ![p] = q]
          /\ Goto(p, next)
          /\ UNCHANGED <<parent, chan, killed>>
       \/ /\ Freed(q) /\ Return(p)
          /\ infants' \in {infants, Cleared(q)}
          /\ UNCHANGED <<np, cwd>>
    /\ UNCHANGED <<thread, switching, oncpu, wait_lock, fam, panicked, crossed>>

NoDirectory(p) ==
    /\ At(p, "fork") \/ At(p, "create_thread")
    /\ left.forks > 0 /\ \E q \in left.table : state[q] = "UNUSED" /\ Unlocked(q)
    /\ p \notin cwd /\ Panic /\ UNCHANGED crossed

NoSlot(p) ==
    /\ At(p, "fork") \/ At(p, "create_thread")
    /\ \A q \in left.table : state[q] # "UNUSED"
    /\ Return(p)
    /\ UNCHANGED <<fields, killed, family, switching, oncpu, wait_lock, locals>>
    /\ UNCHANGED <<nextpid, left, panicked, crossed>>

(* Their middle, under wait_lock: the parent. *)
Adopt(p, label, elder, next) ==
    /\ At(p, label)
    /\ wait_lock = None
    /\ parent' = [parent EXCEPT ![np[p]] = elder]
    /\ fam' = [fam EXCEPT ![p] = elder]
    /\ Goto(p, next)
    /\ UNCHANGED <<state, chan, pid, killed, family, switching, oncpu, wait_lock, np, idx>>
    /\ UNCHANGED <<nextpid, left, panicked, crossed>>

(* Their end, under np->lock again. *)
Publish(p, label) ==
    /\ At(p, label)
    /\ Unlocked(np[p])
    /\ state' = [state EXCEPT ![np[p]] = "RUNNABLE"]
    /\ Forget(p)
    /\ pc' = [pc EXCEPT ![np[p]] = "user",
                        ![p] = IF p \in killed THEN "exit" ELSE "user"]
    /\ UNCHANGED <<parent, chan, pid, killed, cwd, switching, oncpu, wait_lock>>
    /\ UNCHANGED <<nextpid, left, panicked, crossed>>

ForkAlloc(p, q) == Alloc(p, q, "fork", "fork_parent") /\ UNCHANGED idx
ForkParent(p) == Adopt(p, "fork_parent", p, "fork_run")
ForkRun(p) == /\ Publish(p, "fork_run")
              /\ thread' = thread \ {np[p]}
              /\ UNCHANGED infants

(* create_thread() picks an entry among its own, the first when none is empty.  *)
(* A thread gives the new one to the parent of its process, and enters it       *)
(* there; init has none.                                                        *)
Empty(p) == {i \in Entries : infants[p][i] = None}
Picked(p, i) == \/ i \in Empty(p) /\ \A j \in Empty(p) : i <= j
                \/ Empty(p) = {} /\ i = 1
Elder(p) == IF p \in thread THEN parent[parent[p]] ELSE p

ThreadAlloc(p, q) == /\ Alloc(p, q, "create_thread", "thread_parent")
                     /\ \E i \in Entries : Picked(p, i) /\ idx' = [idx EXCEPT ![p] = i]
ThreadParent(p) == Adopt(p, "thread_parent", Elder(p), "thread_run")
ThreadRun(p) ==
    \/ /\ fam[p] # None
       /\ Publish(p, "thread_run")
       /\ thread' = thread \cup {np[p]}
       /\ infants' = [infants EXCEPT ![fam[p]][idx[p]] = np[p]]
    \/ At(p, "thread_run") /\ fam[p] = None /\ Panic /\ UNCHANGED crossed

--------------------------------------------------------------------------------
(* exit() of a thread makes zombies of all that infant_threads of its parent    *)
(* names, of itself too, one after the other.  iput() of a null pointer is a    *)
(* fault.                                                                       *)

ExitFamily(p) ==
    /\ At(p, "exit") /\ p \in thread
    /\ fam' = [fam EXCEPT ![p] = parent[p]]
    /\ idx' = [idx EXCEPT ![p] = 1]
    /\ Goto(p, "exit_turn")
    /\ UNCHANGED <<fields, killed, family, switching, oncpu, wait_lock, np>>
    /\ UNCHANGED <<nextpid, left, panicked, crossed>>

ExitSkip(p) ==
    /\ At(p, "exit_turn")
    /\ \/ idx[p] > MAX_THREADS /\ Goto(p, "exit_own") /\ Forget(p)
       \/ /\ idx[p] <= MAX_THREADS /\ infants[fam[p]][idx[p]] = None
          /\ idx' = [idx EXCEPT ![p] = @ + 1]
          /\ UNCHANGED <<pc, np, fam>>
    /\ UNCHANGED <<fields, killed, family, switching, oncpu, wait_lock>>
    /\ UNCHANGED <<nextpid, left, panicked, crossed>>

ExitTurn(p) ==
    /\ At(p, "exit_turn")
    /\ idx[p] <= MAX_THREADS /\ infants[fam[p]][idx[p]] # None
    /\ crossed' = TRUE
    /\ LET infant == infants[fam[p]][idx[p]] IN
       \/ infant \notin cwd /\ Panic
       \/ /\ infant \in cwd
          /\ cwd' = cwd \ {infant}
          /\ np' = [np EXCEPT ![p] = infant]
          /\ Goto(p, "exit_infant")
          /\ UNCHANGED <<fields, killed, thread, infants, switching, oncpu, wait_lock, fam, idx>>
          /\ UNCHANGED <<nextpid, left, panicked>>

ExitInfant(p) ==
    /\ At(p, "exit_infant")
    /\ wait_lock = None /\ Unlocked(np[p])
    /\ state' = [state EXCEPT ![np[p]] = "ZOMBIE"]
    /\ idx' = [idx EXCEPT ![p] = @ + 1]
    /\ Goto(p, "exit_turn")
    /\ UNCHANGED <<parent, chan, pid, killed, family, switching, oncpu, wait_lock, np, fam>>
    /\ UNCHANGED <<nextpid, left, panicked, crossed>>

(* The rest of exit(), and all of thread_exit(), after the files are closed:    *)
(* the children go to init, init and the parent are woken, all under wait_lock; *)
(* then p is a zombie.                                                          *)
Exits(p) == \/ At(p, "exit") /\ p \notin thread
            \/ At(p, "exit_own") \/ At(p, "thread_exit")

ExitPanic(p) == /\ Exits(p) /\ (p = initproc \/ p \notin cwd)
                /\ Panic /\ UNCHANGED crossed

Children(p) == {q \in Slots : parent[q] = p}

(* Mutant: the children keep their parent. *)
reparent_not(p) == parent

reparent(p) == [q \in Slots |-> IF q \in Children(p) THEN initproc ELSE parent[q]]

ExitWakes(p) == Wakes(parent[p]) \cup (IF Children(p) = {} THEN {} ELSE Wakes(initproc))

ExitWake(p) ==
    /\ Exits(p) /\ p # initproc /\ p \in cwd
    /\ wait_lock = None
    /\ \A q \in ExitWakes(p) : Unlocked(q)
    /\ wait_lock' = p
    /\ parent' = reparent(p)
    /\ state' = Woken(ExitWakes(p))
    /\ cwd' = cwd \ {p}
    /\ Goto(p, "exit_zombie")
    /\ UNCHANGED <<chan, pid, killed, thread, infants, switching, oncpu, locals>>
    /\ UNCHANGED <<nextpid, left, panicked, crossed>>

(* p->lock stays held through sched(), so wait() cannot free a process that is  *)
(* still on its kernel stack.                                                   *)
ExitZombie(p) ==
    /\ At(p, "exit_zombie")
    /\ state' = [state EXCEPT ![p] = "ZOMBIE"]
    /\ wait_lock' = None
    /\ switching' = switching \cup {p}
    /\ UNCHANGED <<parent, chan, pid, killed, family, oncpu, pc, locals, nextpid, left>>
    /\ UNCHANGED <<panicked, crossed>>

--------------------------------------------------------------------------------
(* wait() *)

TakeLock(p, label, next) ==
    /\ At(p, label)
    /\ wait_lock = None
    /\ wait_lock' = p
    /\ Goto(p, next)
    /\ UNCHANGED <<fields, killed, family, switching, oncpu, locals, nextpid, left>>
    /\ UNCHANGED <<panicked, crossed>>

WaitLock(p) == TakeLock(p, "wait", "wait_scan")

Zombies(p) == {q \in Children(p) : state[q] = "ZOMBIE"}
(* Mutant: the lock of the zombie is not taken. *)
MayFree_at_once(q) == TRUE

MayFree(q) == Unlocked(q)

(* Mutant: when the status cannot be copied out, wait() starts over. *)
WaitReap_retries(p) ==
    /\ At(p, "wait_scan")
    /\ \E q \in Zombies(p) :
         /\ \A r \in Zombies(p) : q <= r
         /\ MayFree(q)
         /\ \/ Freed(q) /\ Return(p)
            \/ Goto(p, "wait") /\ UNCHANGED <<fields, killed>>
    /\ wait_lock' = None
    /\ UNCHANGED <<family, switching, oncpu, locals, nextpid, left, panicked, crossed>>

(* The first exited child is freed, or copying its status out fails.  A thread  *)
(* that was made a zombie while it runs has its memory and its trapframe taken  *)
(* away: what it does next is not modelled.                                     *)
WaitReap(p) ==
    /\ At(p, "wait_scan")
    /\ \E q \in Zombies(p) :
         /\ \A r \in Zombies(p) : q <= r
         /\ MayFree(q)
         /\ \/ Freed(q) /\ panicked' = (q \in oncpu /\ q \notin switching)
            \/ UNCHANGED <<fields, killed, panicked>>
    /\ wait_lock' = None
    /\ Return(p)
    /\ UNCHANGED <<family, switching, oncpu, locals, nextpid, left, crossed>>

(* No exited child: return if there is no child or p was killed, else sleep. *)
WaitNone(p) ==
    /\ At(p, "wait_scan")
    /\ Zombies(p) = {}
    /\ \/ /\ Children(p) = {} \/ p \in killed
          /\ wait_lock' = None
          /\ Return(p)
       \/ /\ Children(p) # {} /\ p \notin killed
          /\ Goto(p, "wait_sleep")
          /\ UNCHANGED wait_lock
    /\ UNCHANGED <<fields, killed, family, switching, oncpu, locals, nextpid, left>>
    /\ UNCHANGED <<panicked, crossed>>

(* sleep(c, &wait_lock): p->lock is taken before wait_lock is released. *)
sleep(p, label, c, next) ==
    /\ At(p, label)
    /\ wait_lock' = None
    /\ chan' = [chan EXCEPT ![p] = c]
    /\ state' = [state EXCEPT ![p] = "SLEEPING"]
    /\ switching' = switching \cup {p}
    /\ Goto(p, next)
    /\ UNCHANGED <<parent, pid, killed, family, oncpu, locals, nextpid, left>>
    /\ UNCHANGED <<panicked, crossed>>

WaitSleep(p) == sleep(p, "wait_sleep", p, "wait")

--------------------------------------------------------------------------------
(* join_thread(), of a thread for its process: it looks the thread up, waits    *)
(* until it is a zombie and clears the entry, and leaves it to wait() to free.  *)

JoinCall(p) ==
    /\ At(p, "join_thread")
    /\ fam' = [fam EXCEPT ![p] = IF p \in thread THEN parent[p] ELSE p]
    /\ Goto(p, "join_lock")
    /\ UNCHANGED <<fields, killed, family, switching, oncpu, wait_lock, np, idx>>
    /\ UNCHANGED <<nextpid, left, panicked, crossed>>

JoinFind(p, n) ==
    LET infant(i) == infants[fam[p]][i]
        found == {i \in Entries : infant(i) # None /\ pid[infant(i)] = n}
    IN /\ At(p, "join_lock")
       /\ wait_lock = None
       /\ \/ found = {} /\ Return(p) /\ Forget(p) /\ UNCHANGED wait_lock
          \/ \E i \in found : /\ \A j \in found : i <= j
                              /\ wait_lock' = p
                              /\ np' = [np EXCEPT ![p] = infant(i)]
                              /\ idx' = [idx EXCEPT ![p] = i]
                              /\ Goto(p, "join_scan")
                              /\ UNCHANGED fam
       /\ UNCHANGED <<fields, killed, family, switching, oncpu, nextpid, left>>
       /\ UNCHANGED <<panicked, crossed>>

JoinScan(p) ==
    LET zombie == state[np[p]] = "ZOMBIE" IN
    /\ At(p, "join_scan")
    /\ Unlocked(np[p])
    /\ \/ zombie /\ Goto(p, "join_clear") /\ wait_lock' = None /\ UNCHANGED locals
       \/ /\ zombie \/ (fam[p] \in killed /\ Unlocked(fam[p]))
          /\ Return(p) /\ wait_lock' = None /\ Forget(p)
       \/ /\ ~zombie /\ fam[p] \notin killed /\ Unlocked(fam[p])
          /\ Goto(p, "join_sleep") /\ UNCHANGED <<wait_lock, locals>>
    /\ UNCHANGED <<fields, killed, family, switching, oncpu, nextpid, left>>
    /\ UNCHANGED <<panicked, crossed>>

JoinSleep(p) == sleep(p, "join_sleep", fam[p], "join_wake")
JoinWake(p) == TakeLock(p, "join_wake", "join_scan")

JoinClear(p) ==
    /\ At(p, "join_clear")
    /\ infants' = [infants EXCEPT ![fam[p]][idx[p]] = None]
    /\ Return(p) /\ Forget(p)
    /\ UNCHANGED <<fields, killed, thread, cwd, switching, oncpu, wait_lock>>
    /\ UNCHANGED <<nextpid, left, panicked, crossed>>

--------------------------------------------------------------------------------
(* kill() of any pid: the victim is marked, and woken if it sleeps. *)
KillState(q) == IF state[q] = "SLEEPING" THEN "RUNNABLE" ELSE state[q]

kill(p, n) ==
    /\ At(p, "kill")
    /\ left.kills > 0
    /\ left' = [left EXCEPT !.kills = @ - 1]
    /\ \/ \E q \in Slots : /\ pid[q] = n /\ Unlocked(q)
                           /\ killed' = killed \cup {q}
                           /\ state' = [state EXCEPT ![q] = KillState(q)]
       \/ (\A q \in Slots : pid[q] # n) /\ UNCHANGED <<killed, state>>
    /\ Goto(p, IF p \in killed' THEN "exit" ELSE "user")
    /\ UNCHANGED <<parent, chan, pid, family, switching, oncpu, wait_lock, locals>>
    /\ UNCHANGED <<nextpid, panicked, crossed>>

(* The bounds: a call that would exceed one is not made. *)
NoCall(p) ==
    /\ \/ (At(p, "fork") \/ At(p, "create_thread")) /\ left.forks = 0
       \/ At(p, "kill") /\ left.kills = 0
    /\ Return(p)
    /\ UNCHANGED <<fields, killed, family, switching, oncpu, wait_lock, locals>>
    /\ UNCHANGED <<nextpid, left, panicked, crossed>>

panic == panicked /\ UNCHANGED vars

fork(p) == \/ \E q \in Slots : ForkAlloc(p, q)
           \/ ForkParent(p) \/ ForkRun(p) \/ NoSlot(p) \/ NoDirectory(p)
create_thread(p) == \/ \E q \in Slots : ThreadAlloc(p, q)
                    \/ ThreadParent(p) \/ ThreadRun(p)
exit(p) == \/ ExitFamily(p) \/ ExitSkip(p) \/ ExitTurn(p) \/ ExitInfant(p)
           \/ ExitPanic(p) \/ ExitWake(p) \/ ExitZombie(p)
wait(p) == WaitLock(p) \/ WaitReap(p) \/ WaitNone(p) \/ WaitSleep(p)
join_thread(p) == \/ JoinCall(p) \/ \E n \in 0..(nextpid - 1) : JoinFind(p, n)
                  \/ JoinScan(p) \/ JoinSleep(p) \/ JoinWake(p) \/ JoinClear(p)
Kernel(p) == /\ Executes(p)
             /\ \/ fork(p) \/ create_thread(p) \/ exit(p) \/ wait(p) \/ join_thread(p)
                \/ \E n \in 1..(nextpid - 1) : kill(p, n)
                \/ NoCall(p)

Next == \/ \E p \in Slots : Kernel(p) \/ Trap(p)
        \/ \E p \in Slots : Schedule(p) \/ yield(p) \/ Switched(p)
        \/ panic

Spec == Init /\ [][Next]_vars

(* The timer interrupts a process in user space, the scheduler goes round the   *)
(* table, a switch completes, and a process that is scheduled again and again   *)
(* goes on, spinning for a lock included.                                       *)
Leaves(p) == (pc[p] = "user" /\ yield(p)) \/ Switched(p)

FairSpec == /\ Spec
            /\ \A p \in Slots : /\ SF_vars(Kernel(p)) /\ WF_vars(Schedule(p))
                                /\ WF_vars(Leaves(p))

--------------------------------------------------------------------------------
RunsOnCpu(p) ==
    /\ state[p] = "RUNNING" <=> p \in oncpu /\ p \notin switching
    /\ state[p] \in {"UNUSED", "USED"} => p \notin oncpu
Live(p) == state[p] \in {"SLEEPING", "RUNNABLE", "RUNNING"}

(* A process is RUNNING exactly while a processor runs it and has not begun to  *)
(* leave it, and a slot is freed only when nobody is on its kernel stack: wait()*)
(* takes p->lock of the zombie, and so waits until its last switch is complete. *)
(* Excepted is what follows when a thread calls exit(), or is killed, while its *)
(* parent has entries in infant_threads: exit() makes a zombie of whatever they *)
(* name and are doing.                                                          *)
CpuMatchesState == ~crossed => \A p \in Slots : RunsOnCpu(p)

(* A process or thread has a parent that can still wait for it: fork() and      *)
(* create_thread() publish the new one after setting its parent, and exit() and *)
(* thread_exit() give the children to init before they turn into a zombie, so   *)
(* no zombie is left that nobody can reap.  The same case is excepted.          *)
ParentCanWait ==
    ~crossed => \A p \in Slots \ {initproc} :
        Live(p) \/ state[p] = "ZOMBIE" => parent[p] # None /\ Live(parent[p])

(* wait() returns once a child or thread has exited, unless the kernel panics.  *)
(* A zombie child is never left to a parent that sleeps on, with the same       *)
(* exception: exit() of a thread wakes nobody for its siblings.                 *)
WaitReturns ==
    \A p \in Slots :
        (pc[p] \in {"wait", "wait_scan", "wait_sleep"} /\ Zombies(p) # {})
            ~> (pc[p] \in {"user", "exit"} \/ panicked \/ crossed)
================================================================================
