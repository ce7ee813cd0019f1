----------------------------- MODULE ProcProofs -----------------------------
(* The process table is consistent with the processors and with the family    *)
(* tree, and wait() loses no wakeup, with any number of slots, processors and  *)
(* threads, as long as no thread in exit() finds an infant of its parent.     *)
EXTENDS Proc, TLAPS

(* How long a leaf may take: SMT first, then Zenon.                          *)
USE SMTT(20), ZenonT(30)

-----------------------------------------------------------------------------
(* The inductive invariant                                                    *)

States == {"UNUSED", "USED", "SLEEPING", "RUNNABLE", "RUNNING", "ZOMBIE"}

(* Where no lock is held over a step; where wait_lock is held; where fork() or *)
(* create_thread() owns a slot.  "exit_infant" is never reached.              *)
Plain == {"user", "fork", "exit", "wait", "kill", "create_thread", "join_thread",
          "thread_exit", "exit_turn", "exit_own", "join_lock", "join_wake", "join_clear"}
Locks == {"exit_zombie", "wait_scan", "wait_sleep", "join_scan", "join_sleep"}
Births == {"fork_parent", "fork_run", "thread_parent", "thread_run"}
Labels == Plain \cup Locks \cup Births

ProcType ==
  /\ state \in [Slots -> States]
  /\ parent \in [Slots -> Slots \cup {None}]
  /\ pc \in [Slots -> Labels]
  /\ DOMAIN chan = Slots /\ DOMAIN np = Slots /\ DOMAIN fam = Slots
  /\ switching \subseteq oncpu

OnCpu == \A p \in Slots : RunsOnCpu(p)

(* Whoever was published has a parent, and parents live.                      *)
Parented == \A p \in Slots \ {initproc} : Live(p) \/ state[p] = "ZOMBIE" => parent[p] # None
ParentsLive == \A p \in Slots : parent[p] # None => Live(parent[p])

(* init() runs for ever, unless its exit() panics, and is not a thread.       *)
InitLives == Live(initproc) /\ pc[initproc] # "exit_zombie" /\ initproc \notin thread

(* A slot nobody runs in was never used or was left in exit().                *)
Dead == \A p \in Slots : ~Live(p) => pc[p] \in {"exit_zombie", "user"}

(* Processes sleep in wait(), on themselves, and in join_thread().            *)
Sleeping ==
  \A p \in Slots : state[p] = "SLEEPING" => \/ pc[p] = "wait" /\ chan[p] = p
                                            \/ pc[p] = "join_wake"

(* Who holds wait_lock.                                                       *)
Locked == \A p \in Slots : Live(p) /\ pc[p] \in Locks => wait_lock = p /\ state[p] = "RUNNING"

(* fork() and create_thread() own the slot they allocated until they make it   *)
(* RUNNABLE; by then it has a parent.                                         *)
Forks(p) == pc[p] \in Births
Publishes(p) == pc[p] = "fork_run" \/ (pc[p] = "thread_run" /\ fam[p] # None)
Forking ==
  \A p \in Slots : Forks(p) =>
    /\ np[p] \in Slots /\ state[np[p]] = "USED"
    /\ Publishes(p) => parent[np[p]] # None
    /\ \A q \in Slots : Forks(q) /\ np[q] = np[p] => q = p

(* exit() has given its children away and woken its parent.                   *)
InWait(p) == state[p] = "SLEEPING" /\ pc[p] = "wait"
Exiting ==
  \A p \in Slots : Live(p) /\ pc[p] = "exit_zombie" => Children(p) = {} /\ ~InWait(parent[p])

(* A process that sleeps in wait(), or is about to, has no exited child: no    *)
(* child turns into a zombie between the scan of wait() and its sleep(), and   *)
(* exit() wakes the parent that will find the zombie.                         *)
NoZombieWaits == \A p \in Slots : InWait(p) \/ pc[p] = "wait_sleep" => Zombies(p) = {}

ProcInv ==
  /\ ProcType /\ OnCpu /\ Parented /\ ParentsLive /\ InitLives /\ Dead
  /\ Sleeping /\ Locked /\ Forking /\ Exiting /\ NoZombieWaits

-----------------------------------------------------------------------------
(* userinit has made the first process; no processor runs anything.        *)
LEMMA ProcInit == Init => ProcInv
  <1> SUFFICES ASSUME Init PROVE ProcInv
    OBVIOUS
  <1>1. ProcType
    BY ProcAssumption DEF Init, ProcType, States, Labels, Plain
  <1>2. \A p \in Slots : Children(p) = {}
    BY ProcAssumption DEF Init, Children
  <1>3. OnCpu /\ Parented /\ ParentsLive /\ InitLives /\ Dead /\ Sleeping
    BY ProcAssumption
       DEF Init, OnCpu, RunsOnCpu, Parented, ParentsLive, InitLives, Live, Dead, Sleeping
  <1>4. Locked /\ Forking /\ Exiting
    BY DEF Init, Locked, Locks, Forking, Forks, Births, Exiting
  <1>5. NoZombieWaits
    BY <1>2 DEF NoZombieWaits, Zombies
  <1> QED
    BY <1>1, <1>3, <1>4, <1>5 DEF ProcInv

(* A process that executes is RUNNING.                                        *)
LEMMA AtRuns ==
  ASSUME ProcInv, NEW p \in Slots, NEW l, At(p, l)
  PROVE  state[p] = "RUNNING" /\ Live(p) /\ pc[p] = l /\ p \in oncpu /\ p \notin switching
  BY DEF ProcInv, OnCpu, RunsOnCpu, At, Executes, Live

(* A process that was published has a living parent.                          *)
LEMMA HasParent ==
  ASSUME ProcInv, NEW p \in Slots \ {initproc}, Live(p) \/ state[p] = "ZOMBIE"
  PROVE  parent[p] \in Slots /\ parent[p] # None /\ Live(parent[p])
  BY DEF ProcInv, ProcType, Parented, ParentsLive

(* A process that exits has a parent.                                         *)
LEMMA ExitingParent ==
  ASSUME ProcInv, NEW p \in Slots, Live(p), pc[p] = "exit_zombie"
  PROVE  /\ p # initproc /\ parent[p] \in Slots /\ Children(p) = {}
         /\ ~InWait(parent[p])
  <1>1. p # initproc
    BY DEF ProcInv, InitLives
  <1> QED
    BY <1>1, HasParent DEF ProcInv, Exiting

(* A step leaves the fork() of r, and the slot it owns, as they are.          *)
KeepsFork(r) ==
  /\ Forks(r) /\ pc'[r] = pc[r] /\ np'[r] = np[r] /\ fam'[r] = fam[r]
  /\ state'[np[r]] = "USED"
  /\ parent[np[r]] # None => parent'[np[r]] # None

(* A step that leaves every unfinished fork() as it is keeps their slots apart. *)
LEMMA ForksKept ==
  ASSUME Forking, \A r \in Slots : Forks(r)' => KeepsFork(r)
  PROVE  Forking'
  <1> SUFFICES ASSUME NEW r \in Slots, Forks(r)'
               PROVE  /\ np'[r] \in Slots /\ state'[np'[r]] = "USED"
                      /\ Publishes(r)' => parent'[np'[r]] # None
                      /\ \A t \in Slots : Forks(t)' /\ np'[t] = np'[r] => t = r
    BY DEF Forking
  <1>1. \A t \in Slots : Forks(t)' => Forks(t) /\ np'[t] = np[t]
    BY DEF KeepsFork
  <1>2. KeepsFork(r) /\ Forks(r)
    BY DEF KeepsFork
  <1>3. /\ np[r] \in Slots
        /\ Publishes(r) => parent[np[r]] # None
        /\ \A t \in Slots : Forks(t) /\ np[t] = np[r] => t = r
    BY <1>2 DEF Forking
  <1>4. /\ np'[r] = np[r] /\ pc'[r] = pc[r] /\ fam'[r] = fam[r] /\ state'[np[r]] = "USED"
        /\ parent[np[r]] # None => parent'[np[r]] # None
    BY <1>2 DEF KeepsFork
  <1>5. \A t \in Slots : Forks(t)' /\ np'[t] = np'[r] => t = r
    BY <1>1, <1>3, <1>4
  <1>6. Publishes(r)' => Publishes(r)
    BY <1>4 DEF Publishes
  <1> QED
    BY <1>3, <1>4, <1>5, <1>6

(* Only p moves, and its locals change.                                       *)
OnlyMoves(p) ==
  /\ pc' \in [Slots -> Labels] /\ DOMAIN np' = Slots /\ DOMAIN fam' = Slots
  /\ \A r \in Slots : r # p => pc'[r] = pc[r] /\ np'[r] = np[r] /\ fam'[r] = fam[r]

(* A step of p that changes neither states nor the family keeps most of it.   *)
LEMMA Quiet ==
  ASSUME ProcInv, NEW p \in Slots, state[p] = "RUNNING",
         UNCHANGED <<state, parent, chan, thread, switching, oncpu>>,
         OnlyMoves(p), pc'[p] # "exit_zombie", pc'[p] \notin Births,
         pc'[p] = "wait_sleep" => Zombies(p) = {},
         Locked'
  PROVE  ProcInv'
  <1>1. \A q \in Slots : q # p => pc'[q] = pc[q] /\ np'[q] = np[q] /\ fam'[q] = fam[q]
    BY DEF OnlyMoves
  <1>2. ProcType'
    BY DEF ProcInv, ProcType, OnlyMoves
  <1>3. \A q \in Slots : /\ Live(q)' <=> Live(q)
                         /\ RunsOnCpu(q)' <=> RunsOnCpu(q)
                         /\ Children(q)' = Children(q)
                         /\ Zombies(q)' = Zombies(q)
    BY DEF Live, RunsOnCpu, Children, Zombies
  <1>4. OnCpu' /\ Parented' /\ ParentsLive'
    <2>1. OnCpu'
      BY <1>3 DEF ProcInv, OnCpu
    <2>2. Parented' /\ ParentsLive'
      BY <1>3 DEF ProcInv, ProcType, Parented, ParentsLive, Live
    <2> QED
      BY <2>1, <2>2
  <1>5. InitLives' /\ Dead' /\ Sleeping'
    BY <1>1, <1>3, ProcAssumption DEF ProcInv, InitLives, Dead, Sleeping, Live
  <1>6. Forking'
    <2> SUFFICES ASSUME NEW r \in Slots, Forks(r)'
                 PROVE  KeepsFork(r)
      BY ForksKept DEF ProcInv
    <2>1. r # p /\ Forks(r)
      BY <1>1 DEF Forks
    <2>2. np[r] \in Slots /\ state[np[r]] = "USED"
      BY <2>1 DEF ProcInv, Forking
    <2> QED
      BY <1>1, <2>1, <2>2 DEF KeepsFork
  <1>7. \A q \in Slots : InWait(q)' <=> InWait(q)
    BY <1>1 DEF InWait
  <1>8. Exiting'
    <2> SUFFICES ASSUME NEW r \in Slots, Live(r)', pc'[r] = "exit_zombie"
                 PROVE  Children(r)' = {} /\ ~InWait(parent[r])'
      BY DEF Exiting
    <2>1. r # p /\ Live(r) /\ pc[r] = "exit_zombie"
      BY <1>1, <1>3
    <2> QED
      BY <1>3, <1>7, <2>1, ExitingParent
  <1>9. NoZombieWaits'
    BY <1>1, <1>3, <1>7 DEF ProcInv, NoZombieWaits
  <1> QED
    BY <1>2, <1>4, <1>5, <1>6, <1>8, <1>9 DEF ProcInv

(* It moves on to a call, to user space or to exit(), and may release          *)
(* wait_lock.                                                                 *)
LEMMA Moves ==
  ASSUME ProcInv, NEW p \in Slots, state[p] = "RUNNING",
         UNCHANGED <<state, parent, chan, thread, switching, oncpu>>,
         OnlyMoves(p), pc'[p] \in Plain,
         wait_lock' = wait_lock \/ wait_lock = p
  PROVE  ProcInv'
  <1>1. pc'[p] \notin Locks /\ pc'[p] \notin Births
    BY DEF Plain, Locks, Births
  <1>2. Locked'
    BY <1>1 DEF ProcInv, Locked, OnlyMoves, Live
  <1> QED
    BY <1>1, <1>2, Quiet DEF Locks

(* It holds wait_lock, or takes it.                                           *)
LEMMA Holds ==
  ASSUME ProcInv, NEW p \in Slots, state[p] = "RUNNING",
         UNCHANGED <<state, parent, chan, thread, switching, oncpu>>,
         OnlyMoves(p), pc'[p] \in {"wait_scan", "wait_sleep", "join_scan", "join_sleep"},
         pc'[p] = "wait_sleep" => Zombies(p) = {},
         wait_lock \in {None, p}, wait_lock' = p
  PROVE  ProcInv'
  <1>1. pc'[p] # "exit_zombie" /\ pc'[p] \notin Births
    BY DEF Births
  <1>2. Locked'
    BY ProcAssumption DEF ProcInv, Locked, OnlyMoves, Live
  <1> QED
    BY <1>1, <1>2, Quiet

(* Goto(p, l) moves p only, and Forget(p) clears its locals.                  *)
LEMMA Gone ==
  ASSUME ProcInv, NEW p \in Slots, NEW l \in Labels, Goto(p, l),
         UNCHANGED <<np, fam>> \/ Forget(p)
  PROVE  OnlyMoves(p) /\ pc'[p] = l
  <1>1. pc' \in [Slots -> Labels] /\ pc'[p] = l /\ \A r \in Slots : r # p => pc'[r] = pc[r]
    BY DEF Goto, ProcInv, ProcType
  <1>2. /\ DOMAIN np' = Slots /\ DOMAIN fam' = Slots
        /\ \A r \in Slots : r # p => np'[r] = np[r] /\ fam'[r] = fam[r]
    BY DEF Forget, ProcInv, ProcType
  <1> QED
    BY <1>1, <1>2 DEF OnlyMoves

(* Return(p) goes to user space or to exit().                                 *)
LEMMA Returns ==
  ASSUME ProcInv, NEW p \in Slots, Return(p), UNCHANGED <<np, fam>> \/ Forget(p)
  PROVE  OnlyMoves(p) /\ pc'[p] \in {"user", "exit"} /\ pc'[p] \in Plain
  <1>1. PICK l \in {"user", "exit"} : Goto(p, l)
    BY DEF Return
  <1>2. l \in Labels /\ l \in Plain
    BY DEF Labels, Plain
  <1> QED
    BY <1>1, <1>2, Gone

(* A trap or a system call on the processor that runs the process.         *)
LEMMA TrapStep ==
  ASSUME ProcInv, NEW p \in Slots, Trap(p)
  PROVE  ProcInv'
  <1>1. state[p] = "RUNNING"
    BY AtRuns DEF Trap
  <1>2. PICK l \in AllCalls : Goto(p, l)
    BY DEF Trap, AllCalls
  <1>3. l \in Labels /\ l \in Plain
    BY DEF AllCalls, Labels, Plain
  <1>4. /\ UNCHANGED <<state, parent, chan, thread, switching, oncpu, wait_lock>>
        /\ UNCHANGED <<np, fam>>
    BY DEF Trap, fields, family, locals
  <1> QED
    BY <1>1, <1>2, <1>3, <1>4, Gone, Moves

(* There is no free slot, or the process makes no call.                    *)
LEMMA NoSlotStep ==
  ASSUME ProcInv, NEW p \in Slots, NoSlot(p) \/ NoCall(p)
  PROVE  ProcInv'
  <1>1. state[p] = "RUNNING"
    BY AtRuns DEF NoSlot, NoCall
  <1>2. /\ UNCHANGED <<state, parent, chan, thread, switching, oncpu, wait_lock>>
        /\ UNCHANGED <<np, fam>> /\ Return(p)
    BY DEF NoSlot, NoCall, fields, family, locals
  <1> QED
    BY <1>1, <1>2, Returns, Moves

(* A fault or a panic of the kernel: nothing changes any more.             *)
LEMMA PanicStep ==
  ASSUME ProcInv, Panic \/ UNCHANGED vars
  PROVE  ProcInv'
  <1>1. UNCHANGED <<state, parent, chan, thread, switching, oncpu, wait_lock, pc, np, fam>>
    BY DEF Panic, vars, fields, family, locals
  <1>2. \A p \in Slots : /\ Live(p)' <=> Live(p)
                         /\ RunsOnCpu(p)' <=> RunsOnCpu(p)
                         /\ Forks(p)' <=> Forks(p)
                         /\ Publishes(p)' <=> Publishes(p)
                         /\ InWait(p)' <=> InWait(p)
                         /\ Children(p)' = Children(p)
    BY <1>1 DEF Live, RunsOnCpu, Forks, Publishes, InWait, Children
  <1>3. \A p \in Slots : Zombies(p)' = Zombies(p)
    BY <1>1, <1>2 DEF Zombies
  <1>4. ProcType' /\ OnCpu'
    BY <1>1, <1>2 DEF ProcInv, ProcType, OnCpu
  <1>5. Parented' /\ ParentsLive'
    BY <1>1, <1>2 DEF ProcInv, ProcType, Parented, ParentsLive, Live
  <1>6. InitLives' /\ Dead' /\ Sleeping' /\ Locked'
    BY <1>1, <1>2, ProcAssumption DEF ProcInv, InitLives, Dead, Sleeping, Locked
  <1>7. Forking' /\ Exiting'
    BY <1>1, <1>2 DEF ProcInv, Forking, Exiting, InWait
  <1>8. NoZombieWaits'
    BY <1>1, <1>2, <1>3 DEF ProcInv, NoZombieWaits
  <1> QED
    BY <1>4, <1>5, <1>6, <1>7, <1>8 DEF ProcInv

-----------------------------------------------------------------------------
(* The scheduler                                                              *)

(* p changes between living states, without a word to anyone.                 *)
LEMMA Turns ==
  ASSUME ProcInv, NEW p \in Slots, Live(p), Live(p)',
         ~InWait(p)', state[p] # "RUNNING" \/ wait_lock # p,
         \A r \in Slots : r # p => state'[r] = state[r] /\ chan'[r] = chan[r],
         UNCHANGED <<parent, thread, wait_lock, pc, np, fam>>,
         ProcType', OnCpu', state'[p] # "SLEEPING"
  PROVE  ProcInv'
  <1>1. \A q \in Slots : Live(q)' <=> Live(q)
    BY DEF Live
  <1>2. Parented' /\ ParentsLive'
    <2>1. \A q \in Slots : state'[q] = "ZOMBIE" <=> state[q] = "ZOMBIE"
      BY DEF Live
    <2>2. Parented'
      BY <1>1, <2>1 DEF ProcInv, Parented
    <2>3. ParentsLive'
      BY <1>1 DEF ProcInv, ProcType, ParentsLive
    <2> QED
      BY <2>2, <2>3
  <1>3. InitLives' /\ Dead'
    BY <1>1, ProcAssumption DEF ProcInv, InitLives, Dead
  <1>4. Sleeping'
    BY DEF ProcInv, Sleeping
  <1>5. Locked'
    BY <1>1 DEF ProcInv, Locked
  <1>6. Forking'
    <2> SUFFICES ASSUME NEW r \in Slots, Forks(r)'
                 PROVE  KeepsFork(r)
      BY ForksKept DEF ProcInv
    <2>1. Forks(r)
      BY DEF Forks
    <2>2. np[r] \in Slots /\ state[np[r]] = "USED"
      BY <2>1 DEF ProcInv, Forking
    <2> QED
      BY <2>1, <2>2 DEF KeepsFork, Live
  <1>7. \A q \in Slots : InWait(q)' => InWait(q)
    BY DEF InWait
  <1>8. Exiting'
    BY <1>1, <1>7, ExitingParent DEF Exiting, Children
  <1>9. \A q \in Slots : Zombies(q)' = Zombies(q)
    BY DEF Zombies, Children, Live
  <1>10. NoZombieWaits'
    BY <1>7, <1>9 DEF ProcInv, NoZombieWaits
  <1> QED
    BY <1>2, <1>3, <1>4, <1>5, <1>6, <1>8, <1>10 DEF ProcInv

(* The scheduler takes a runnable process.                                 *)
LEMMA ScheduleStep ==
  ASSUME ProcInv, NEW p \in Slots, Schedule(p)
  PROVE  ProcInv'
  <1>1. /\ state[p] = "RUNNABLE" /\ p \notin switching
        /\ state' = [state EXCEPT ![p] = "RUNNING"] /\ chan' = [chan EXCEPT ![p] = None]
        /\ oncpu' = oncpu \cup {p}
        /\ UNCHANGED <<parent, thread, wait_lock, pc, np, fam, switching>>
    BY DEF Schedule, Runnable, Unlocked, family, locals
  <1>2. /\ state'[p] = "RUNNING"
        /\ \A q \in Slots : q # p => state'[q] = state[q] /\ chan'[q] = chan[q]
    BY <1>1 DEF ProcInv, ProcType
  <1>3. ProcType'
    BY <1>1 DEF ProcInv, ProcType, States
  <1>4. OnCpu'
    BY <1>1, <1>2 DEF ProcInv, OnCpu, RunsOnCpu
  <1>5. Live(p) /\ Live(p)' /\ ~InWait(p)'
    BY <1>1, <1>2 DEF Live, InWait
  <1> QED
    BY <1>1, <1>2, <1>3, <1>4, <1>5, Turns

(* The processor is back in the scheduler.                                 *)
LEMMA SwitchedStep ==
  ASSUME ProcInv, NEW p \in Slots, Switched(p)
  PROVE  ProcInv'
  <1>1. /\ UNCHANGED <<state, parent, chan, thread, wait_lock, pc, np, fam>>
        /\ p \in switching /\ switching' = switching \ {p} /\ oncpu' = oncpu \ {p}
    BY DEF Switched, fields, family, locals
  <1>2. ProcType'
    BY <1>1 DEF ProcInv, ProcType
  <1>3. OnCpu'
    BY <1>1 DEF ProcInv, ProcType, OnCpu, RunsOnCpu
  <1>4. \A q \in Slots : /\ Live(q)' <=> Live(q)
                         /\ Forks(q)' <=> Forks(q)
                         /\ Publishes(q)' <=> Publishes(q)
                         /\ InWait(q)' <=> InWait(q)
                         /\ Children(q)' = Children(q)
    BY <1>1 DEF Live, Forks, Publishes, InWait, Children
  <1>5. \A q \in Slots : Zombies(q)' = Zombies(q)
    BY <1>1, <1>4 DEF Zombies
  <1>6. Parented' /\ ParentsLive'
    BY <1>1, <1>4 DEF ProcInv, ProcType, Parented, ParentsLive, Live
  <1>7. InitLives' /\ Dead' /\ Sleeping' /\ Locked'
    BY <1>1, <1>4, ProcAssumption DEF ProcInv, InitLives, Dead, Sleeping, Locked
  <1>8. Forking' /\ Exiting'
    BY <1>1, <1>4 DEF ProcInv, Forking, Exiting, InWait
  <1>9. NoZombieWaits'
    BY <1>1, <1>4, <1>5 DEF ProcInv, NoZombieWaits
  <1> QED
    BY <1>2, <1>3, <1>6, <1>7, <1>8, <1>9 DEF ProcInv

(* yield gives the processor up.                                           *)
LEMMA YieldStep ==
  ASSUME ProcInv, NEW p \in Slots, yield(p)
  PROVE  ProcInv'
  <1>1. /\ state[p] = "RUNNING" /\ wait_lock # p /\ p \in oncpu /\ p \notin switching
        /\ state' = [state EXCEPT ![p] = "RUNNABLE"]
        /\ UNCHANGED <<parent, chan, thread, wait_lock, pc, np, fam, oncpu>>
        /\ switching' = switching \cup {p}
    BY DEF yield, Executes, ProcInv, OnCpu, RunsOnCpu, family, locals
  <1>2. /\ state'[p] = "RUNNABLE"
        /\ \A q \in Slots : q # p => state'[q] = state[q] /\ chan'[q] = chan[q]
    BY <1>1 DEF ProcInv, ProcType
  <1>3. ProcType'
    BY <1>1 DEF ProcInv, ProcType, States
  <1>4. OnCpu'
    BY <1>1, <1>2 DEF ProcInv, OnCpu, RunsOnCpu
  <1>5. Live(p) /\ Live(p)' /\ ~InWait(p)'
    BY <1>1, <1>2 DEF Live, InWait
  <1> QED
    BY <1>1, <1>2, <1>3, <1>4, <1>5, Turns

-----------------------------------------------------------------------------
(* freeproc() of a slot nobody runs in, by a process that then returns.       *)
LEMMA FreedStep ==
  ASSUME ProcInv, NEW p \in Slots, state[p] = "RUNNING",
         NEW q \in Slots, state[q] \in {"UNUSED", "ZOMBIE"}, Unlocked(q),
         Freed(q), Return(p), UNCHANGED <<thread, switching, oncpu, np, fam>>,
         wait_lock' = wait_lock \/ wait_lock = p
  PROVE  ProcInv'
  <1>1. OnlyMoves(p) /\ pc'[p] \in {"user", "exit"}
    BY Returns
  <1>2. \A r \in Slots : r # p => pc'[r] = pc[r]
    BY <1>1 DEF OnlyMoves
  <1>3. /\ state'[q] = "UNUSED" /\ parent'[q] = None
        /\ \A r \in Slots : r # q => /\ state'[r] = state[r] /\ parent'[r] = parent[r]
                                     /\ chan'[r] = chan[r]
        /\ p # q
    BY DEF Freed, ProcInv, ProcType
  <1>4. q \notin oncpu /\ q # initproc
    BY DEF ProcInv, OnCpu, RunsOnCpu, Unlocked, InitLives, Live
  <1>5. ProcType'
    BY <1>1, Zenon DEF Freed, OnlyMoves, ProcInv, ProcType, States
  <1>6. OnCpu'
    BY <1>3, <1>4 DEF ProcInv, OnCpu, RunsOnCpu
  <1>7. \A r \in Slots : Live(r)' <=> Live(r)
    BY <1>3 DEF Live
  <1>8. Parented' /\ ParentsLive'
    <2>1. Parented'
      BY <1>3, <1>7 DEF ProcInv, Parented, Live
    <2>2. \A r \in Slots : parent'[r] # None => parent'[r] = parent[r] /\ parent[r] \in Slots
      BY <1>3 DEF ProcInv, ProcType
    <2>3. ParentsLive'
      BY <1>7, <2>2 DEF ProcInv, ParentsLive
    <2> QED
      BY <2>1, <2>3
  <1>9. InitLives' /\ Dead'
    BY <1>1, <1>2, <1>3, <1>7, ProcAssumption DEF ProcInv, InitLives, Dead, Live
  <1>10. Sleeping'
    BY <1>2, <1>3 DEF ProcInv, Sleeping
  <1>11. Locked'
    BY <1>1, <1>2, <1>3, <1>7 DEF ProcInv, Locked, Locks, Live
  <1>12. Forking'
    <2> SUFFICES ASSUME NEW r \in Slots, Forks(r)'
                 PROVE  KeepsFork(r)
      BY ForksKept DEF ProcInv
    <2>1. r # p /\ pc'[r] = pc[r] /\ Forks(r)
      BY <1>1, <1>2 DEF Forks, Births
    <2>2. np[r] \in Slots /\ state[np[r]] = "USED" /\ np[r] # q
      BY <2>1 DEF ProcInv, Forking
    <2> QED
      BY <1>3, <2>1, <2>2, Zenon DEF KeepsFork
  <1>13. \A r \in Slots : Children(r)' \subseteq Children(r)
    BY <1>3, ProcAssumption, Zenon DEF Children
  <1>14. \A r \in Slots : InWait(r)' => InWait(r)
    BY <1>1, <1>2, <1>3 DEF InWait
  <1>15. Exiting'
    <2> SUFFICES ASSUME NEW r \in Slots, Live(r)', pc'[r] = "exit_zombie"
                 PROVE  Children(r)' = {} /\ ~InWait(parent[r])'
      BY DEF Exiting
    <2>1. r # p /\ r # q /\ Live(r) /\ pc[r] = "exit_zombie"
      BY <1>1, <1>2, <1>3, <1>7 DEF Live
    <2>2. PICK g \in Slots : g = parent[r]
      BY <2>1, ExitingParent
    <2>3. parent'[r] = g /\ ~InWait(g) /\ Children(r) = {}
      BY <1>3, <2>1, <2>2, ExitingParent
    <2>4. Children(r)' = {}
      BY <1>13, <2>3
    <2>5. ~InWait(g)'
      BY <1>14, <2>3
    <2> QED
      BY <2>3, <2>4, <2>5 DEF InWait
  <1>16. NoZombieWaits'
    <2> SUFFICES ASSUME NEW r \in Slots, InWait(r)' \/ pc'[r] = "wait_sleep"
                 PROVE  Zombies(r)' = {}
      BY DEF NoZombieWaits
    <2>1. Zombies(r) = {}
      BY <1>1, <1>2, <1>14 DEF ProcInv, NoZombieWaits
    <2> QED
      BY <1>3, <1>13, <2>1 DEF Zombies, Children
  <1> QED
    BY <1>5, <1>6, <1>8, <1>9, <1>10, <1>11, <1>12, <1>15, <1>16 DEF ProcInv

(* allocproc() takes an unused slot for fork() or create_thread().            *)
LEMMA AllocStep ==
  ASSUME ProcInv, NEW p \in Slots, NEW q \in Slots, NEW call,
         NEW next \in {"fork_parent", "thread_parent"}, Alloc(p, q, call, next)
  PROVE  ProcInv'
  <1>1. /\ state[p] = "RUNNING" /\ Live(p) /\ state[q] = "UNUSED" /\ Unlocked(q)
        /\ UNCHANGED <<thread, switching, oncpu, wait_lock, fam>>
    BY AtRuns DEF Alloc
  <1>2. CASE Freed(q) /\ Return(p) /\ UNCHANGED np
    BY <1>1, <1>2, FreedStep
  <1>3. ASSUME state' = [state EXCEPT ![q] = "USED"], np' = [np EXCEPT ![p] = q],
               Goto(p, next), UNCHANGED <<parent, chan>>
        PROVE  ProcInv'
    <2>1. /\ state'[q] = "USED" /\ np'[p] = q /\ pc'[p] = next /\ p # q
          /\ \A r \in Slots : /\ r # q => state'[r] = state[r]
                              /\ r # p => np'[r] = np[r] /\ pc'[r] = pc[r]
      BY <1>1, <1>3 DEF Goto, ProcInv, ProcType
    <2>2. next \notin Locks /\ next # "wait" /\ next # "join_wake" /\ next \in Labels
          /\ next \in Births
      BY DEF Locks, Labels, Births
    <2>3. ProcType'
      BY <1>1, <1>3, <2>2 DEF Goto, ProcInv, ProcType, States
    <2>4. OnCpu'
      BY <1>1, <2>1 DEF ProcInv, OnCpu, RunsOnCpu
    <2>5. Sleeping'
      BY <1>1, <1>3, <2>1 DEF ProcInv, Sleeping
    <2>6. \A r \in Slots : Live(r)' <=> Live(r)
      BY <1>1, <2>1 DEF Live
    <2>7. Parented' /\ ParentsLive'
      <3>1. Parented'
        BY <1>1, <1>3, <2>1, <2>6 DEF ProcInv, Parented
      <3>2. ParentsLive'
        BY <1>3, <2>6 DEF ProcInv, ProcType, ParentsLive
      <3> QED
        BY <3>1, <3>2
    <2>8. InitLives' /\ Dead'
      BY <1>1, <2>1, <2>2, <2>6, ProcAssumption DEF ProcInv, InitLives, Dead, Locks
    <2>9. Locked'
      BY <1>1, <2>1, <2>2, <2>6 DEF ProcInv, Locked, Live
    <2>10. ~Publishes(p)'
      BY <2>1 DEF Publishes
    <2>11. \A r \in Slots : r # p /\ Forks(r)' =>
             /\ Forks(r) /\ (Publishes(r)' => Publishes(r)) /\ np[r] \in Slots /\ np[r] # q
             /\ state[np[r]] = "USED"
      BY <1>1, <2>1 DEF ProcInv, Forking, Forks, Publishes
    <2>12. Forking'
      <3> SUFFICES ASSUME NEW r \in Slots, Forks(r)'
                   PROVE  /\ np'[r] \in Slots /\ state'[np'[r]] = "USED"
                          /\ Publishes(r)' => parent'[np'[r]] # None
                          /\ \A t \in Slots : Forks(t)' /\ np'[t] = np'[r] => t = r
        BY DEF Forking
      <3>1. CASE r = p
        BY <2>1, <2>10, <2>11, <3>1
      <3>2. CASE r # p
        <4>1. /\ Forks(r) /\ (Publishes(r)' => Publishes(r)) /\ np'[r] = np[r]
              /\ np[r] \in Slots /\ np[r] # q /\ state'[np[r]] = "USED"
          BY <2>1, <2>11, <3>2
        <4>2. Publishes(r) => parent[np[r]] # None
          BY <4>1 DEF ProcInv, Forking
        <4>3. \A t \in Slots : Forks(t)' /\ np'[t] = np'[r] => t = r
          BY <2>1, <2>11, <4>1 DEF ProcInv, Forking
        <4> QED
          BY <1>3, <4>1, <4>2, <4>3
      <3> QED
        BY <3>1, <3>2
    <2>13. \A r \in Slots : InWait(r)' => InWait(r)
      BY <1>1, <2>1, <2>2 DEF InWait
    <2>14. Exiting'
      <3> SUFFICES ASSUME NEW r \in Slots, Live(r)', pc'[r] = "exit_zombie"
                   PROVE  Children(r)' = {} /\ ~InWait(parent[r])'
        BY DEF Exiting
      <3>1. Live(r) /\ pc[r] = "exit_zombie"
        BY <2>1, <2>2, <2>6 DEF Locks
      <3> QED
        BY <1>3, <2>13, <3>1, ExitingParent DEF Children
    <2>15. NoZombieWaits'
      <3>1. \A r \in Slots : Zombies(r)' \subseteq Zombies(r)
        BY <1>3, <2>1 DEF Zombies, Children
      <3>2. \A r \in Slots : pc'[r] = "wait_sleep" => pc[r] = "wait_sleep"
        BY <2>1, <2>2 DEF Locks
      <3> QED
        BY <2>13, <3>1, <3>2 DEF ProcInv, NoZombieWaits
    <2> QED
      BY <2>3, <2>4, <2>5, <2>7, <2>8, <2>9, <2>12, <2>14, <2>15 DEF ProcInv
  <1> QED
    BY <1>2, <1>3 DEF Alloc

(* The new one gets a living parent under wait_lock, or none at all if the     *)
(* process of the thread that creates it is init.                             *)
LEMMA AdoptStep ==
  ASSUME ProcInv, NEW p \in Slots, NEW label \in {"fork_parent", "thread_parent"},
         NEW elder \in Slots \cup {None}, elder # None => Live(elder),
         NEW next \in {"fork_run", "thread_run"}, next = "fork_run" => elder = p,
         Adopt(p, label, elder, next)
  PROVE  ProcInv'
  <1> DEFINE q == np[p]
  <1>1. /\ state[p] = "RUNNING" /\ Live(p) /\ pc[p] = label /\ wait_lock = None
    BY AtRuns, Zenon DEF Adopt
  <1>2. Forks(p)
    BY <1>1 DEF Forks, Births
  <1>3. q \in Slots /\ state[q] = "USED" /\ q # p
    BY <1>1, <1>2 DEF ProcInv, Forking
  <1> HIDE DEF q
  <1>4. /\ UNCHANGED <<state, chan, thread, switching, oncpu, wait_lock, np>>
        /\ parent' = [parent EXCEPT ![q] = elder] /\ pc' = [pc EXCEPT ![p] = next]
        /\ fam' = [fam EXCEPT ![p] = elder]
    BY DEF Adopt, Goto, family, q
  <1>5. /\ parent'[q] = elder /\ pc'[p] = next /\ fam'[p] = elder
        /\ \A r \in Slots : /\ r # q => parent'[r] = parent[r]
                            /\ r # p => pc'[r] = pc[r] /\ fam'[r] = fam[r]
    BY <1>3, <1>4 DEF ProcInv, ProcType
  <1>6. next \in Births /\ next \in Labels /\ next \notin Locks
    BY DEF Births, Labels, Locks
  <1>7. ProcType'
    BY <1>4, <1>6, Zenon DEF ProcInv, ProcType
  <1>8. OnCpu' /\ Sleeping'
    <2>1. OnCpu'
      BY <1>4 DEF ProcInv, OnCpu, RunsOnCpu
    <2>2. Sleeping'
      BY <1>1, <1>4, <1>5 DEF ProcInv, Sleeping
    <2> QED
      BY <2>1, <2>2
  <1>9. Parented' /\ ParentsLive'
    <2>1. Parented'
      BY <1>3, <1>4, <1>5 DEF ProcInv, Parented, Live
    <2>2. ParentsLive'
      BY <1>4, <1>5 DEF ProcInv, ParentsLive, Live
    <2> QED
      BY <2>1, <2>2
  <1>10. InitLives' /\ Dead' /\ Locked'
    BY <1>1, <1>4, <1>5, <1>6, ProcAssumption DEF ProcInv, InitLives, Dead, Locked, Locks, Live
  <1>11. Forking'
    <2>1. \A r \in Slots : Forks(r)' => Forks(r)
      BY <1>2, <1>5 DEF Forks
    <2>2. \A r \in Slots : Forks(r)' => /\ np[r] \in Slots /\ state[np[r]] = "USED"
                                        /\ (Publishes(r) => parent[np[r]] # None)
                                        /\ \A t \in Slots : Forks(t) /\ np[t] = np[r] => t = r
      BY <2>1, Zenon DEF ProcInv, Forking
    <2>3. Publishes(p)' => elder # None
      BY <1>1, <1>5, ProcAssumption DEF Publishes
    <2>4. \A r \in Slots : r # p /\ Forks(r)' => /\ np[r] # q /\ parent'[np[r]] = parent[np[r]]
                                                 /\ (Publishes(r)' => Publishes(r))
      BY <1>2, <1>5, <2>2 DEF Publishes, q
    <2>5. \A r \in Slots : Forks(r)' => (Publishes(r)' => parent'[np[r]] # None)
      BY <1>5, <2>2, <2>3, <2>4, Zenon DEF q
    <2> QED
      BY <1>4, <2>1, <2>2, <2>5 DEF Forking
  <1>12. \A r \in Slots : ~(Live(r)' /\ pc'[r] = "exit_zombie")
    <2>1. \A r \in Slots : ~(Live(r) /\ pc[r] = "exit_zombie")
      BY <1>1, ProcAssumption DEF ProcInv, Locked, Locks
    <2> QED
      BY <1>4, <1>5, <1>6, <2>1 DEF Live, Locks
  <1>13. Exiting'
    BY <1>12 DEF Exiting
  <1>14. NoZombieWaits'
    <2>1. \A r \in Slots : Zombies(r)' \subseteq Zombies(r)
      BY <1>3, <1>4, <1>5 DEF Zombies, Children
    <2>2. \A r \in Slots : /\ pc'[r] = "wait_sleep" => pc[r] = "wait_sleep"
                           /\ InWait(r)' => InWait(r)
      BY <1>1, <1>4, <1>5, <1>6 DEF Locks, InWait
    <2> QED
      BY <2>1, <2>2 DEF ProcInv, NoZombieWaits
  <1> QED
    BY <1>7, <1>8, <1>9, <1>10, <1>11, <1>13, <1>14 DEF ProcInv

(* fork() gives the child to the process itself.                              *)
LEMMA ForkParentStep ==
  ASSUME ProcInv, NEW p \in Slots, ForkParent(p)
  PROVE  ProcInv'
  <1>1. Live(p)
    BY AtRuns DEF ForkParent, Adopt
  <1> QED
    BY <1>1, AdoptStep DEF ForkParent

(* create_thread() of a thread gives it to the parent of its process.         *)
LEMMA ThreadParentStep ==
  ASSUME ProcInv, NEW p \in Slots, ThreadParent(p)
  PROVE  ProcInv'
  <1>1. Live(p)
    BY AtRuns, Zenon DEF ThreadParent, Adopt
  <1>2. CASE p \notin thread
    BY <1>1, <1>2, AdoptStep DEF ThreadParent, Elder
  <1>3. CASE p \in thread
    <2>1. p # initproc
      BY <1>3 DEF ProcInv, InitLives
    <2>2. PICK g \in Slots : g = parent[p]
      BY <1>1, <2>1, HasParent
    <2>3. parent[g] \in Slots \cup {None} /\ (parent[g] # None => Live(parent[g]))
      BY DEF ProcInv, ProcType, ParentsLive
    <2> QED
      BY <1>3, <2>2, <2>3, AdoptStep DEF ThreadParent, Elder
  <1> QED
    BY <1>2, <1>3

(* The new process or thread becomes runnable.                                *)
LEMMA PublishStep ==
  ASSUME ProcInv, NEW p \in Slots, NEW label \in {"fork_run", "thread_run"},
         Publish(p, label), label = "thread_run" => fam[p] # None,
         thread' \in {thread \cup {np[p]}, thread \ {np[p]}}
  PROVE  ProcInv'
  <1> DEFINE q == np[p]
  <1>1. state[p] = "RUNNING" /\ Live(p) /\ pc[p] = label
    BY AtRuns DEF Publish
  <1>2. Forks(p) /\ Publishes(p)
    BY <1>1 DEF Forks, Births, Publishes
  <1>3. q \in Slots /\ state[q] = "USED" /\ q # p /\ parent[q] # None
    BY <1>1, <1>2 DEF ProcInv, Forking
  <1>4. q \notin switching /\ q # initproc
    BY <1>3 DEF Publish, Unlocked, ProcInv, InitLives, Live
  <1> HIDE DEF q
  <1>5. /\ UNCHANGED <<parent, chan, switching, oncpu, wait_lock>>
        /\ state' = [state EXCEPT ![q] = "RUNNABLE"] /\ np' = [np EXCEPT ![p] = None]
        /\ fam' = [fam EXCEPT ![p] = None]
        /\ pc' = [pc EXCEPT ![q] = "user", ![p] = IF p \in killed THEN "exit" ELSE "user"]
        /\ thread' \in {thread \cup {q}, thread \ {q}}
    BY DEF Publish, Forget, q
  <1>6. /\ state'[q] = "RUNNABLE" /\ pc'[q] = "user" /\ pc'[p] \in {"user", "exit"}
        /\ \A r \in Slots : /\ r # q => state'[r] = state[r]
                            /\ r # p => np'[r] = np[r] /\ fam'[r] = fam[r]
                            /\ r # p /\ r # q => pc'[r] = pc[r]
    BY <1>3, <1>5 DEF ProcInv, ProcType
  <1>7. ProcType'
    <2>1. pc' \in [Slots -> Labels]
      BY <1>5, Zenon DEF ProcInv, ProcType, Labels, Plain
    <2> QED
      BY <1>5, <2>1, Zenon DEF ProcInv, ProcType, States
  <1>8. OnCpu'
    BY <1>3, <1>4, <1>5, <1>6 DEF ProcInv, OnCpu, RunsOnCpu
  <1>9. \A r \in Slots : /\ r # q => (Live(r)' <=> Live(r))
                         /\ Live(r) => Live(r)'
    BY <1>3, <1>6 DEF Live
  <1>10. Parented' /\ ParentsLive'
    <2>1. Parented'
      BY <1>3, <1>5, <1>6, <1>9 DEF ProcInv, Parented
    <2>2. ParentsLive'
      BY <1>5, <1>9 DEF ProcInv, ProcType, ParentsLive
    <2> QED
      BY <2>1, <2>2
  <1>11. InitLives' /\ Dead'
    <2>1. pc'[initproc] # "exit_zombie"
      BY <1>4, <1>6, ProcAssumption DEF ProcInv, InitLives
    <2>2. Live(initproc)' /\ initproc \notin thread'
      BY <1>4, <1>5, <1>9, ProcAssumption DEF ProcInv, InitLives
    <2>3. Dead'
      BY <1>1, <1>6, <1>9 DEF ProcInv, Dead, Live
    <2> QED
      BY <2>1, <2>2, <2>3 DEF InitLives
  <1>12. \A r \in Slots : /\ state'[r] = "SLEEPING" => r # p /\ r # q
                          /\ pc'[r] \in Locks => r # p /\ r # q
                          /\ Forks(r)' => r # p /\ r # q
    BY <1>1, <1>3, <1>6 DEF Locks, Forks, Births
  <1>13. Sleeping'
    BY <1>5, <1>6, <1>12, Zenon DEF ProcInv, Sleeping
  <1>14. Locked'
    BY <1>5, <1>6, <1>9, <1>12, Zenon DEF ProcInv, Locked
  <1>15. Forking'
    <2> SUFFICES ASSUME NEW r \in Slots, Forks(r)'
                 PROVE  KeepsFork(r)
      BY ForksKept DEF ProcInv
    <2>1. r # p /\ r # q
      BY <1>12
    <2>2. Forks(r)
      BY <1>6, <2>1 DEF Forks
    <2>3. np[r] \in Slots /\ state[np[r]] = "USED" /\ np[r] # q
      BY <1>2, <2>1, <2>2 DEF ProcInv, Forking, q
    <2> QED
      BY <1>5, <1>6, <2>1, <2>2, <2>3, Zenon DEF KeepsFork
  <1>16. \A r \in Slots : InWait(r)' => InWait(r)
    BY <1>6, <1>12 DEF InWait
  <1>17. Exiting'
    <2> SUFFICES ASSUME NEW r \in Slots, Live(r)', pc'[r] = "exit_zombie"
                 PROVE  Children(r)' = {} /\ ~InWait(parent[r])'
      BY Zenon DEF Exiting
    <2>1. Live(r) /\ pc[r] = "exit_zombie"
      BY <1>6, <1>9
    <2> QED
      BY <1>5, <1>16, <2>1, ExitingParent, Zenon DEF Children
  <1>18. NoZombieWaits'
    <2>1. \A r \in Slots : Zombies(r)' \subseteq Zombies(r)
      BY <1>5, <1>6 DEF Zombies, Children
    <2>2. \A r \in Slots : pc'[r] = "wait_sleep" => pc[r] = "wait_sleep"
      BY <1>6
    <2> QED
      BY <1>16, <2>1, <2>2 DEF ProcInv, NoZombieWaits
  <1> QED
    BY <1>7, <1>8, <1>10, <1>11, <1>13, <1>14, <1>15, <1>17, <1>18 DEF ProcInv

(* fork() or create_thread() takes a step.                                    *)
LEMMA ForkStep ==
  ASSUME ProcInv, NEW p \in Slots, fork(p) \/ create_thread(p)
  PROVE  ProcInv'
  <1>1. ASSUME NEW q \in Slots, ForkAlloc(p, q) \/ ThreadAlloc(p, q) PROVE ProcInv'
    BY <1>1, AllocStep DEF ForkAlloc, ThreadAlloc
  <1>2. CASE ForkRun(p)
    BY <1>2, PublishStep DEF ForkRun
  <1>3. CASE ThreadRun(p)
    BY <1>3, PublishStep, PanicStep DEF ThreadRun
  <1>4. CASE NoDirectory(p)
    BY <1>4, PanicStep DEF NoDirectory
  <1> QED
    BY <1>1, <1>2, <1>3, <1>4, ForkParentStep, ThreadParentStep, NoSlotStep, Zenon
       DEF fork, create_thread

-----------------------------------------------------------------------------
(* exit() of a thread finds no entry of its parent, or starts to look.        *)
LEMMA ExitFamilyStep ==
  ASSUME ProcInv, NEW p \in Slots, ExitFamily(p) \/ ExitSkip(p)
  PROVE  ProcInv'
  <1>1. state[p] = "RUNNING" /\ p \in Slots
    BY AtRuns DEF ExitFamily, ExitSkip
  <1>2. UNCHANGED <<state, parent, chan, thread, switching, oncpu, wait_lock>>
    BY DEF ExitFamily, ExitSkip, fields, family
  <1>3. CASE Goto(p, "exit_own") /\ Forget(p)
    <2>1. "exit_own" \in Labels /\ "exit_own" \in Plain
      BY DEF Labels, Plain
    <2> QED
      BY <1>1, <1>2, <1>3, <2>1, Gone, Moves
  <1>4. CASE At(p, "exit_turn") /\ UNCHANGED <<pc, np, fam>>
    <2>1. OnlyMoves(p) /\ pc'[p] \in Plain
      BY <1>4, AtRuns DEF OnlyMoves, Plain, ProcInv, ProcType
    <2> QED
      BY <1>1, <1>2, <2>1, Moves
  <1>5. CASE ExitFamily(p)
    <2>1. OnlyMoves(p) /\ pc'[p] \in Plain
      BY <1>5 DEF ExitFamily, Goto, OnlyMoves, Labels, Plain, ProcInv, ProcType
    <2> QED
      BY <1>1, <1>2, <2>1, Moves
  <1> QED
    BY <1>3, <1>4, <1>5 DEF ExitSkip

(* Under wait_lock exit() gives its children to init, and wakes init and its   *)
(* parent.                                                                    *)
LEMMA ExitWakeStep ==
  ASSUME ProcInv, NEW p \in Slots, ExitWake(p)
  PROVE  ProcInv'
  <1>1. state[p] = "RUNNING" /\ Live(p) /\ wait_lock = None /\ p # initproc
    BY AtRuns, Zenon DEF ExitWake, Exits
  <1>2. /\ UNCHANGED <<chan, thread, switching, oncpu, np, fam>> /\ wait_lock' = p
        /\ state' = Woken(ExitWakes(p)) /\ parent' = reparent(p)
        /\ pc' = [pc EXCEPT ![p] = "exit_zombie"]
        /\ \A r \in ExitWakes(p) : r \notin switching
    BY DEF ExitWake, Goto, Unlocked, locals
  <1>3. \A r \in Slots :
          /\ r \in ExitWakes(p) => state[r] = "SLEEPING" /\ state'[r] = "RUNNABLE"
          /\ r \notin ExitWakes(p) => state'[r] = state[r]
          /\ parent[r] = p => parent'[r] = initproc
          /\ parent[r] # p => parent'[r] = parent[r]
          /\ r # p => pc'[r] = pc[r]
    BY <1>2 DEF Woken, ExitWakes, Wakes, reparent, Children, ProcInv, ProcType
  <1>4. pc'[p] = "exit_zombie" /\ state'[p] = "RUNNING"
    BY <1>1, <1>2, <1>3, Zenon DEF ProcInv, ProcType
  <1>5. \A r \in Slots : Live(r)' <=> Live(r)
    BY <1>3 DEF Live
  <1>6. ProcType'
    <2>1. state' \in [Slots -> States] /\ parent' \in [Slots -> Slots \cup {None}]
      BY <1>2, ProcAssumption DEF Woken, reparent, ProcInv, ProcType, States
    <2> QED
      BY <1>2, <2>1, Zenon DEF ProcInv, ProcType, Labels, Locks
  <1>7. OnCpu'
    BY <1>2, <1>3 DEF ProcInv, OnCpu, RunsOnCpu
  <1>8. Parented' /\ ParentsLive'
    <2>1. \A r \in Slots : state'[r] = "ZOMBIE" => state[r] = "ZOMBIE"
      BY <1>3
    <2>2. \A r \in Slots : parent[r] # None => parent'[r] # None
      BY <1>3, ProcAssumption
    <2>3. Parented'
      BY <1>5, <2>1, <2>2 DEF ProcInv, Parented
    <2>4. \A r \in Slots : parent'[r] # None => parent'[r] \in Slots /\ Live(parent'[r])
      BY <1>3, ProcAssumption DEF ProcInv, ProcType, InitLives, ParentsLive
    <2>5. ParentsLive'
      BY <1>5, <2>4 DEF ParentsLive, Live
    <2> QED
      BY <2>3, <2>5
  <1>9. InitLives' /\ Dead'
    BY <1>1, <1>2, <1>3, <1>5, ProcAssumption DEF ProcInv, InitLives, Dead
  <1>10. Sleeping'
    BY <1>2, <1>3, <1>4 DEF ProcInv, Sleeping
  <1>11. \A r \in Slots : Live(r) => pc[r] \notin Locks
    BY <1>1, ProcAssumption DEF ProcInv, Locked
  <1>12. Locked'
    BY <1>2, <1>3, <1>4, <1>5, <1>11 DEF Locked
  <1>13. Forking'
    <2> SUFFICES ASSUME NEW r \in Slots, Forks(r)'
                 PROVE  KeepsFork(r)
      BY ForksKept DEF ProcInv
    <2>1. r # p /\ Forks(r)
      BY <1>3, <1>4 DEF Forks, Births
    <2>2. np[r] \in Slots /\ state[np[r]] = "USED"
      BY <2>1 DEF ProcInv, Forking
    <2> QED
      BY <1>2, <1>3, <2>1, <2>2, ProcAssumption, Zenon DEF KeepsFork
  <1>14. \A r \in Slots : InWait(r)' => /\ InWait(r) /\ r # p /\ r \notin ExitWakes(p)
                                        /\ chan[r] = r /\ parent[p] # r
                                        /\ (r = initproc => Children(p) = {})
    <2> SUFFICES ASSUME NEW r \in Slots, InWait(r)'
                 PROVE  /\ InWait(r) /\ r # p /\ r \notin ExitWakes(p)
                        /\ chan[r] = r /\ parent[p] # r
                        /\ (r = initproc => Children(p) = {})
      OBVIOUS
    <2>1. InWait(r) /\ r # p /\ r \notin ExitWakes(p)
      BY <1>3, <1>4 DEF InWait
    <2>2. chan[r] = r
      BY <2>1 DEF ProcInv, Sleeping, InWait
    <2> QED
      BY <2>1, <2>2, Zenon DEF ExitWakes, Wakes, InWait
  <1>15. Exiting'
    <2> SUFFICES ASSUME NEW r \in Slots, Live(r)', pc'[r] = "exit_zombie"
                 PROVE  Children(r)' = {} /\ ~InWait(parent[r])'
      BY DEF Exiting
    <2>1. r = p
      BY <1>3, <1>5, <1>11 DEF Locks
    <2>2. Children(p)' = {}
      BY <1>1, <1>3 DEF Children
    <2>3. parent[p] \in Slots
      BY <1>1, HasParent
    <2>4. PICK g \in Slots : g = parent'[p]
      BY <1>3, <2>3, ProcAssumption, Zenon
    <2>5. ~InWait(g)'
      <3>1. CASE parent[p] = p
        <4>1. p \in Children(p) /\ g = initproc
          BY <1>3, <2>4, <3>1 DEF Children
        <4> QED
          BY <1>14, <4>1
      <3>2. CASE parent[p] # p
        BY <1>3, <1>14, <2>4, <3>2
      <3> QED
        BY <3>1, <3>2
    <2> QED
      BY <2>1, <2>2, <2>4, <2>5 DEF InWait
  <1>16. NoZombieWaits'
    <2> SUFFICES ASSUME NEW r \in Slots, InWait(r)' \/ pc'[r] = "wait_sleep"
                 PROVE  Zombies(r)' = {}
      BY DEF NoZombieWaits
    <2>1. InWait(r)'
      BY <1>3, <1>4, <1>11 DEF ProcInv, Dead, Locks
    <2>2. Zombies(r) = {}
      BY <1>14, <2>1 DEF ProcInv, NoZombieWaits
    <2>3. Children(r)' \subseteq Children(r)
      BY <1>3, <1>14, <2>1 DEF Children
    <2> QED
      BY <1>3, <2>2, <2>3 DEF Zombies, Children
  <1> QED
    BY <1>6, <1>7, <1>8, <1>9, <1>10, <1>12, <1>13, <1>15, <1>16 DEF ProcInv

(* exit ends: the process is a zombie and gives up wait_lock.              *)
LEMMA ExitZombieStep ==
  ASSUME ProcInv, NEW p \in Slots, ExitZombie(p)
  PROVE  ProcInv'
  <1>1. /\ state[p] = "RUNNING" /\ Live(p) /\ pc[p] = "exit_zombie" /\ p \in oncpu
        /\ p \notin switching
    BY AtRuns DEF ExitZombie
  <1>2. /\ UNCHANGED <<parent, chan, thread, oncpu, pc, np, fam>> /\ wait_lock' = None
        /\ state' = [state EXCEPT ![p] = "ZOMBIE"] /\ switching' = switching \cup {p}
    BY DEF ExitZombie, family, locals
  <1>3. state'[p] = "ZOMBIE" /\ \A r \in Slots : r # p => state'[r] = state[r]
    BY <1>2 DEF ProcInv, ProcType
  <1>4. /\ wait_lock = p /\ p # initproc /\ parent[p] \in Slots /\ parent[p] # p
        /\ Children(p) = {} /\ ~InWait(parent[p])
    BY <1>1, ExitingParent DEF ProcInv, Locked, Locks, Children
  <1>5. ProcType'
    BY <1>1, <1>2 DEF ProcInv, ProcType, States
  <1>6. OnCpu'
    BY <1>1, <1>2, <1>3, Zenon DEF ProcInv, OnCpu, RunsOnCpu
  <1>7. Parented' /\ ParentsLive'
    <2>1. Parented'
      BY <1>1, <1>2, <1>3 DEF ProcInv, Parented, Live
    <2>2. \A r \in Slots : parent[r] # p
      BY <1>4 DEF Children
    <2>3. ParentsLive'
      BY <1>2, <1>3, <2>2 DEF ProcInv, ProcType, ParentsLive, Live
    <2> QED
      BY <2>1, <2>3
  <1>8. InitLives' /\ Dead' /\ Sleeping'
    BY <1>1, <1>2, <1>3, <1>4, ProcAssumption DEF ProcInv, InitLives, Dead, Sleeping, Live
  <1>9. \A r \in Slots : ~(Live(r)' /\ pc[r] \in Locks)
    BY <1>3, <1>4, Zenon DEF ProcInv, Locked, Live
  <1>10. Locked' /\ Exiting'
    BY <1>2, <1>9 DEF Locked, Exiting, Locks
  <1>11. Forking'
    <2> SUFFICES ASSUME NEW r \in Slots, Forks(r)'
                 PROVE  KeepsFork(r)
      BY ForksKept DEF ProcInv
    <2>1. Forks(r)
      BY <1>2 DEF Forks
    <2>2. np[r] \in Slots /\ state[np[r]] = "USED"
      BY <2>1 DEF ProcInv, Forking
    <2> QED
      BY <1>1, <1>2, <1>3, <2>1, <2>2 DEF KeepsFork
  <1>12. NoZombieWaits'
    <2> SUFFICES ASSUME NEW r \in Slots, InWait(r)' \/ pc[r] = "wait_sleep"
                 PROVE  Zombies(r)' = {}
      BY <1>2 DEF NoZombieWaits
    <2>1. r # p /\ InWait(r)
      BY <1>1, <1>2, <1>3, <1>9 DEF ProcInv, Dead, Live, Locks, InWait
    <2>2. Zombies(r) = {} /\ parent[p] # r
      BY <1>4, <2>1 DEF ProcInv, NoZombieWaits
    <2> QED
      BY <1>2, <1>3, <2>2 DEF Zombies, Children
  <1> QED
    BY <1>5, <1>6, <1>7, <1>8, <1>10, <1>11, <1>12 DEF ProcInv

-----------------------------------------------------------------------------
(* wait() or join_thread() takes wait_lock.                                *)
LEMMA TakeLockStep ==
  ASSUME ProcInv, NEW p \in Slots, NEW label, NEW next \in {"wait_scan", "join_scan"},
         TakeLock(p, label, next)
  PROVE  ProcInv'
  <1>1. state[p] = "RUNNING" /\ wait_lock = None /\ wait_lock' = p
    BY AtRuns DEF TakeLock
  <1>2. /\ UNCHANGED <<state, parent, chan, thread, switching, oncpu, np, fam>>
        /\ Goto(p, next)
    BY DEF TakeLock, fields, family, locals
  <1>3. next \in Labels /\ next # "wait_sleep"
    BY DEF Labels, Locks
  <1>4. OnlyMoves(p) /\ pc'[p] = next
    BY <1>2, <1>3, Gone
  <1> QED
    BY <1>1, <1>2, <1>3, <1>4, Holds, Zenon

(* wait frees a zombie child.                                              *)
LEMMA WaitReapStep ==
  ASSUME ProcInv, NEW p \in Slots, WaitReap(p)
  PROVE  ProcInv'
  <1>1. state[p] = "RUNNING" /\ Live(p) /\ pc[p] = "wait_scan"
    BY AtRuns DEF WaitReap
  <1>2. wait_lock = p
    BY <1>1 DEF ProcInv, Locked, Locks
  <1>3. PICK q \in Slots : state[q] = "ZOMBIE" /\ Unlocked(q)
                          /\ (Freed(q) \/ UNCHANGED <<fields, killed>>)
    BY DEF WaitReap, Zombies, Children, MayFree
  <1>4. Return(p) /\ UNCHANGED <<thread, switching, oncpu, np, fam>>
    BY DEF WaitReap, family, locals
  <1>5. CASE Freed(q)
    BY <1>1, <1>2, <1>3, <1>4, <1>5, FreedStep
  <1>6. CASE UNCHANGED <<fields, killed>>
    BY <1>1, <1>2, <1>4, <1>6, Returns, Moves DEF fields
  <1> QED
    BY <1>3, <1>5, <1>6

(* wait returns -1: no children, or killed; or it is about to sleep.       *)
LEMMA WaitNoneStep ==
  ASSUME ProcInv, NEW p \in Slots, WaitNone(p)
  PROVE  ProcInv'
  <1>1. state[p] = "RUNNING" /\ Live(p) /\ pc[p] = "wait_scan" /\ Zombies(p) = {}
    BY AtRuns DEF WaitNone
  <1>2. wait_lock = p
    BY <1>1 DEF ProcInv, Locked, Locks
  <1>3. UNCHANGED <<state, parent, chan, thread, switching, oncpu, np, fam>>
    BY DEF WaitNone, fields, family, locals
  <1>4. CASE Return(p)
    BY <1>1, <1>2, <1>3, <1>4, Returns, Moves, Zenon
  <1>5. CASE Goto(p, "wait_sleep") /\ UNCHANGED wait_lock
    <2>1. "wait_sleep" \in Labels
      BY DEF Labels, Locks
    <2>2. OnlyMoves(p) /\ pc'[p] = "wait_sleep"
      BY <1>3, <1>5, <2>1, Gone
    <2> QED
      BY <1>1, <1>2, <1>3, <1>5, <2>2, Holds, Zenon
  <1> QED
    BY <1>4, <1>5 DEF WaitNone

(* sleep() takes p->lock before it releases wait_lock.                        *)
LEMMA SleepStep ==
  ASSUME ProcInv, NEW p \in Slots, NEW label, NEW c, NEW next, sleep(p, label, c, next),
         \/ label = "wait_sleep" /\ c = p /\ next = "wait"
         \/ label = "join_sleep" /\ next = "join_wake"
  PROVE  ProcInv'
  <1>1. /\ state[p] = "RUNNING" /\ Live(p) /\ pc[p] = label /\ p \in oncpu
        /\ p \notin switching
    BY AtRuns DEF sleep
  <1>2. wait_lock = p /\ (label = "wait_sleep" => Zombies(p) = {})
    BY <1>1 DEF ProcInv, Locked, Locks, NoZombieWaits
  <1>3. /\ UNCHANGED <<parent, thread, oncpu, np, fam>> /\ wait_lock' = None
        /\ state' = [state EXCEPT ![p] = "SLEEPING"] /\ chan' = [chan EXCEPT ![p] = c]
        /\ pc' = [pc EXCEPT ![p] = next] /\ switching' = switching \cup {p}
    BY DEF sleep, Goto, family, locals
  <1>4. /\ state'[p] = "SLEEPING" /\ chan'[p] = c /\ pc'[p] = next
        /\ \A r \in Slots : r # p => /\ state'[r] = state[r] /\ chan'[r] = chan[r]
                                     /\ pc'[r] = pc[r]
    BY <1>3 DEF ProcInv, ProcType
  <1>5. next \in Plain /\ next \in Labels /\ next \notin Locks /\ next \notin Births
    BY DEF Plain, Labels, Locks, Births
  <1>6. ProcType'
    BY <1>1, <1>3, <1>5 DEF ProcInv, ProcType, States
  <1>7. OnCpu'
    BY <1>1, <1>3, <1>4 DEF ProcInv, OnCpu, RunsOnCpu
  <1>8. \A r \in Slots : Live(r)' <=> Live(r)
    BY <1>1, <1>4 DEF Live
  <1>9. Parented' /\ ParentsLive'
    <2>1. Parented'
      BY <1>1, <1>3, <1>4, <1>8 DEF ProcInv, Parented
    <2>2. ParentsLive'
      BY <1>3, <1>8, Zenon DEF ProcInv, ProcType, ParentsLive
    <2> QED
      BY <2>1, <2>2
  <1>10. InitLives' /\ Dead' /\ Sleeping'
    BY <1>1, <1>3, <1>4, <1>8, ProcAssumption DEF ProcInv, InitLives, Dead, Sleeping
  <1>11. \A r \in Slots : ~(Live(r)' /\ pc'[r] \in Locks)
    BY <1>2, <1>4, <1>5, <1>8 DEF ProcInv, Locked
  <1>12. Locked' /\ Exiting'
    BY <1>11 DEF Locked, Exiting, Locks
  <1>13. Forking'
    <2> SUFFICES ASSUME NEW r \in Slots, Forks(r)'
                 PROVE  KeepsFork(r)
      BY ForksKept DEF ProcInv
    <2>1. r # p /\ Forks(r)
      BY <1>4, <1>5 DEF Forks
    <2>2. np[r] \in Slots /\ state[np[r]] = "USED"
      BY <2>1 DEF ProcInv, Forking
    <2> QED
      BY <1>1, <1>3, <1>4, <2>1, <2>2, Zenon DEF KeepsFork
  <1>14. \A r \in Slots : Zombies(r)' = Zombies(r)
    BY <1>1, <1>3, <1>4 DEF Zombies, Children
  <1>15. NoZombieWaits'
    BY <1>2, <1>4, <1>14 DEF ProcInv, NoZombieWaits, InWait
  <1> QED
    BY <1>6, <1>7, <1>9, <1>10, <1>12, <1>13, <1>15 DEF ProcInv

-----------------------------------------------------------------------------
(* join_thread() starts, or clears the entry and returns.                     *)
LEMMA JoinEndsStep ==
  ASSUME ProcInv, NEW p \in Slots, JoinCall(p) \/ JoinClear(p)
  PROVE  ProcInv'
  <1>1. state[p] = "RUNNING"
    BY AtRuns DEF JoinCall, JoinClear
  <1>2. UNCHANGED <<state, parent, chan, thread, switching, oncpu, wait_lock>>
    BY DEF JoinCall, JoinClear, fields, family
  <1>3. CASE JoinCall(p)
    <2>1. OnlyMoves(p) /\ pc'[p] \in Plain
      BY <1>3 DEF JoinCall, Goto, OnlyMoves, Labels, Plain, ProcInv, ProcType
    <2> QED
      BY <1>1, <1>2, <2>1, Moves
  <1>4. CASE JoinClear(p)
    <2>1. Return(p) /\ Forget(p)
      BY <1>4 DEF JoinClear
    <2> QED
      BY <1>1, <1>2, <2>1, Returns, Moves, Zenon
  <1> QED
    BY <1>3, <1>4

(* It looks for the thread.                                                   *)
LEMMA JoinFindStep ==
  ASSUME ProcInv, NEW p \in Slots, NEW n, JoinFind(p, n)
  PROVE  ProcInv'
  <1>1. state[p] = "RUNNING" /\ wait_lock = None
    BY AtRuns, Zenon DEF JoinFind
  <1>2. UNCHANGED <<state, parent, chan, thread, switching, oncpu>>
    BY Zenon DEF JoinFind, fields, family
  <1>3. CASE Return(p) /\ Forget(p) /\ UNCHANGED wait_lock
    BY <1>1, <1>2, <1>3, Returns, Moves
  <1>4. ASSUME NEW v, np' = [np EXCEPT ![p] = v], UNCHANGED fam, wait_lock' = p,
               Goto(p, "join_scan")
        PROVE  ProcInv'
    <2>1. OnlyMoves(p) /\ pc'[p] = "join_scan"
      BY <1>4 DEF Goto, OnlyMoves, Labels, Locks, ProcInv, ProcType
    <2> QED
      BY <1>1, <1>2, <1>4, <2>1, Holds
  <1> QED
    BY <1>3, <1>4, Zenon DEF JoinFind

(* It finds it a zombie, or returns or sleeps.                                *)
LEMMA JoinScanStep ==
  ASSUME ProcInv, NEW p \in Slots, JoinScan(p)
  PROVE  ProcInv'
  <1>1. state[p] = "RUNNING" /\ Live(p) /\ pc[p] = "join_scan"
    BY AtRuns DEF JoinScan
  <1>2. wait_lock = p
    BY <1>1 DEF ProcInv, Locked, Locks
  <1>3. UNCHANGED <<state, parent, chan, thread, switching, oncpu>>
    BY Zenon DEF JoinScan, fields, family
  <1>4. CASE Goto(p, "join_clear") /\ UNCHANGED locals
    <2>1. "join_clear" \in Labels /\ "join_clear" \in Plain
      BY DEF Labels, Plain
    <2> QED
      BY <1>1, <1>2, <1>3, <1>4, <2>1, Gone, Moves, Zenon DEF locals
  <1>5. CASE Return(p) /\ Forget(p)
    BY <1>1, <1>2, <1>3, <1>5, Returns, Moves, Zenon
  <1>6. CASE Goto(p, "join_sleep") /\ UNCHANGED <<wait_lock, locals>>
    <2>1. "join_sleep" \in Labels
      BY DEF Labels, Locks
    <2>2. OnlyMoves(p) /\ pc'[p] = "join_sleep"
      BY <1>6, <2>1, Gone DEF locals
    <2> QED
      BY <1>1, <1>2, <1>3, <1>6, <2>2, Holds
  <1> QED
    BY <1>4, <1>5, <1>6, Zenon DEF JoinScan

-----------------------------------------------------------------------------
(* kill wakes its victim up.                                               *)
LEMMA KillStep ==
  ASSUME ProcInv, NEW p \in Slots, NEW n, kill(p, n)
  PROVE  ProcInv'
  <1>1. state[p] = "RUNNING" /\ Live(p)
    BY AtRuns DEF kill
  <1>2. /\ UNCHANGED <<parent, chan, thread, switching, oncpu, wait_lock, np, fam>>
        /\ OnlyMoves(p) /\ pc'[p] \in {"user", "exit"}
    BY DEF kill, Goto, OnlyMoves, Labels, Plain, family, locals, ProcInv, ProcType
  <1>3. pc'[p] \in Plain
    BY <1>2 DEF Plain
  <1>4. CASE UNCHANGED state
    BY <1>1, <1>2, <1>3, <1>4, Moves
  <1>5. ASSUME NEW q \in Slots, Unlocked(q), state' = [state EXCEPT ![q] = KillState(q)]
        PROVE  ProcInv'
    <2>1. /\ state'[q] = IF state[q] = "SLEEPING" THEN "RUNNABLE" ELSE state[q]
          /\ \A r \in Slots : /\ r # q => state'[r] = state[r]
                              /\ r # p => pc'[r] = pc[r]
      BY <1>2, <1>5, Zenon DEF KillState, OnlyMoves, ProcInv, ProcType
    <2>2. CASE state[q] # "SLEEPING"
      <3>1. state' = state
        BY <1>5, <2>2 DEF KillState, ProcInv, ProcType
      <3> QED
        BY <1>1, <1>2, <1>3, <3>1, Moves
    <2>3. CASE state[q] = "SLEEPING"
      <3>1. state'[q] = "RUNNABLE" /\ q # p
        BY <1>1, <2>1, <2>3
      <3>2. ProcType'
        BY <1>2, <1>5 DEF KillState, OnlyMoves, ProcInv, ProcType, States
      <3>3. OnCpu'
        BY <1>2, <1>5, <2>1, <2>3, <3>1 DEF ProcInv, OnCpu, RunsOnCpu, Unlocked
      <3>4. \A r \in Slots : Live(r)' <=> Live(r)
        BY <2>1, <2>3 DEF Live
      <3>5. Parented' /\ ParentsLive'
        <4>1. Parented'
          BY <1>2, <2>1, <2>3, <3>4, Zenon DEF ProcInv, Parented
        <4>2. ParentsLive'
          BY <1>2, <3>4 DEF ProcInv, ProcType, ParentsLive
        <4> QED
          BY <4>1, <4>2
      <3>6. InitLives' /\ Dead'
        BY <1>1, <1>2, <2>1, <3>4, ProcAssumption DEF ProcInv, InitLives, Dead
      <3>7. Sleeping'
        BY <1>1, <1>2, <2>1, <3>1 DEF ProcInv, Sleeping
      <3>8. Locked'
        BY <1>2, <2>1, <2>3, <3>4 DEF ProcInv, Locked, Locks
      <3>9. Forking'
        <4> SUFFICES ASSUME NEW r \in Slots, Forks(r)'
                     PROVE  KeepsFork(r)
          BY ForksKept DEF ProcInv
        <4>1. pc'[r] = pc[r] /\ Forks(r)
          BY <1>2, <2>1 DEF Forks, Births
        <4>2. np[r] \in Slots /\ state[np[r]] = "USED"
          BY <4>1, Zenon DEF ProcInv, Forking
        <4> QED
          BY <1>2, <2>1, <2>3, <4>1, <4>2 DEF KeepsFork
      <3>10. \A r \in Slots : InWait(r)' => InWait(r)
        BY <1>1, <1>2, <2>1, <3>1 DEF InWait
      <3>11. Exiting'
        <4> SUFFICES ASSUME NEW r \in Slots, Live(r)', pc'[r] = "exit_zombie"
                     PROVE  Children(r)' = {} /\ ~InWait(parent[r])'
          BY Zenon DEF Exiting
        <4>1. Live(r) /\ pc[r] = "exit_zombie"
          BY <1>2, <2>1, <3>4
        <4> QED
          BY <1>2, <3>10, <4>1, ExitingParent, Zenon DEF Children
      <3>12. \A r \in Slots : Zombies(r)' = Zombies(r)
        BY <1>2, <2>1, <2>3 DEF Zombies, Children
      <3>13. NoZombieWaits'
        BY <1>2, <2>1, <3>10, <3>12 DEF ProcInv, NoZombieWaits
      <3> QED
        BY <3>2, <3>3, <3>5, <3>6, <3>7, <3>8, <3>9, <3>11, <3>13 DEF ProcInv
    <2> QED
      BY <2>2, <2>3
  <1> QED
    BY <1>4, <1>5 DEF kill

-----------------------------------------------------------------------------
(* exit(), unless a thread in it finds an infant: that crosses.               *)
LEMMA ExitStep ==
  ASSUME ProcInv, NEW p \in Slots, exit(p), ~crossed'
  PROVE  ProcInv'
  <1>1. ~ExitTurn(p)
    BY DEF ExitTurn
  <1>2. ~ExitInfant(p)
    <2>1. "exit_infant" \notin Labels
      BY DEF Labels, Plain, Locks, Births
    <2>2. pc[p] # "exit_infant"
      BY <2>1 DEF ProcInv, ProcType
    <2> QED
      BY <2>2, Zenon DEF ExitInfant, At
  <1>3. CASE ExitPanic(p)
    BY <1>3, PanicStep DEF ExitPanic
  <1> QED
    BY <1>1, <1>2, <1>3, ExitFamilyStep, ExitWakeStep, ExitZombieStep, Zenon DEF exit

(* join_thread() takes a step.                                                *)
LEMMA JoinStep ==
  ASSUME ProcInv, NEW p \in Slots, join_thread(p)
  PROVE  ProcInv'
  <1>1. CASE JoinSleep(p)
    BY <1>1, SleepStep DEF JoinSleep
  <1>2. CASE JoinWake(p)
    BY <1>2, TakeLockStep DEF JoinWake
  <1> QED
    BY <1>1, <1>2, JoinEndsStep, JoinFindStep, JoinScanStep, Zenon DEF join_thread

(* wait() takes a step.                                                       *)
LEMMA WaitStep ==
  ASSUME ProcInv, NEW p \in Slots, wait(p)
  PROVE  ProcInv'
  <1>1. CASE WaitSleep(p)
    BY <1>1, SleepStep DEF WaitSleep
  <1>2. CASE WaitLock(p)
    BY <1>2, TakeLockStep DEF WaitLock
  <1> QED
    BY <1>1, <1>2, WaitReapStep, WaitNoneStep, Zenon DEF wait

(* Every step that crosses nothing keeps the invariant.                    *)
LEMMA ProcStep ==
  ASSUME ProcInv, [Next]_vars, ~crossed'
  PROVE  ProcInv'
  <1>1. ASSUME NEW p \in Slots, Kernel(p) PROVE ProcInv'
    BY <1>1, ForkStep, ExitStep, WaitStep, JoinStep, KillStep, NoSlotStep, Zenon DEF Kernel
  <1>2. CASE UNCHANGED vars
    BY <1>2, PanicStep
  <1> QED
    BY <1>1, <1>2, TrapStep, ScheduleStep, YieldStep, SwitchedStep, Zenon DEF Next, panic

(* crossed is history: no step clears it.                                     *)
LEMMA CrossedStays ==
  ASSUME [Next]_vars, crossed
  PROVE  crossed'
  <1>1. ASSUME NEW p \in Slots, fork(p) \/ create_thread(p) PROVE crossed'
    BY <1>1, Zenon DEF fork, create_thread, ForkAlloc, ThreadAlloc, Alloc, ForkParent, ThreadParent,
       Adopt, ForkRun, ThreadRun, Publish, NoSlot, NoDirectory
  <1>2. ASSUME NEW p \in Slots, exit(p) PROVE crossed'
    BY <1>2, Zenon DEF exit, ExitFamily, ExitSkip, ExitTurn, ExitInfant, ExitPanic, ExitWake, ExitZombie
  <1>3. ASSUME NEW p \in Slots, wait(p) PROVE crossed'
    BY <1>3, Zenon DEF wait, WaitLock, TakeLock, WaitReap, WaitNone, WaitSleep, sleep
  <1>4. ASSUME NEW p \in Slots, join_thread(p) PROVE crossed'
    BY <1>4, Zenon DEF join_thread, JoinCall, JoinFind, JoinScan, JoinSleep, sleep, JoinWake, TakeLock,
       JoinClear
  <1>5. ASSUME NEW p \in Slots, Kernel(p) PROVE crossed'
    BY <1>1, <1>2, <1>3, <1>4, <1>5, Zenon DEF Kernel, kill, NoCall
  <1>6. ASSUME NEW p \in Slots, Trap(p) \/ Schedule(p) \/ yield(p) \/ Switched(p) PROVE crossed'
    BY <1>6, Zenon DEF Trap, Schedule, yield, Switched
  <1>7. CASE UNCHANGED vars
    BY <1>7 DEF vars
  <1> QED
    BY <1>5, <1>6, <1>7 DEF Next, panic

(* The invariant of the process table.                                        *)
THEOREM ProcInvariant == Spec => [](~crossed => ProcInv)
  <1>1. Init => (~crossed => ProcInv)
    BY ProcInit
  <1>2. (~crossed => ProcInv) /\ [Next]_vars => (~crossed => ProcInv)'
    BY ProcStep, CrossedStays
  <1> QED
    BY <1>1, <1>2, PTL DEF Spec

(* A process is RUNNING exactly while a processor runs it, and freeproc()      *)
(* never frees a slot whose kernel stack is in use, for any table size and    *)
(* number of processors and threads.                                          *)
THEOREM ProcCpuMatchesState == Spec => []CpuMatchesState
  <1>1. (~crossed => ProcInv) => CpuMatchesState
    BY DEF ProcInv, OnCpu, CpuMatchesState
  <1> QED
    BY <1>1, ProcInvariant, PTL

(* A process or thread has a live parent that can wait for it: fork(),         *)
(* create_thread(), exit() and thread_exit() keep the family tree whole at     *)
(* every step.                                                                *)
THEOREM ProcParentCanWait == Spec => []ParentCanWait
  <1>1. (~crossed => ProcInv) => ParentCanWait
    BY HasParent, Zenon DEF ParentCanWait
  <1> QED
    BY <1>1, ProcInvariant, PTL

(* wait() loses no wakeup: a process that sleeps in it, or is about to, has no *)
(* exited child or thread, until a thread in exit() finds an infant.          *)
THEOREM ProcNoZombieWaits == Spec => [](~crossed => NoZombieWaits)
  <1>1. (~crossed => ProcInv) => (~crossed => NoZombieWaits)
    BY DEF ProcInv
  <1> QED
    BY <1>1, ProcInvariant, PTL

=============================================================================
