---------------------------------- MODULE Log ----------------------------------
(* The write-ahead log of the file system (log.c) over the pinned part of the   *)
(* buffer cache: begin_op(), log_write(), end_op() with its commit, crashes at  *)
(* every disk write, and the recovery of fsinit().                              *)
(*                                                                              *)
(* A block's contents are a value.  One bwrite() is atomic, as the code assumes *)
(* ("this is the true point at which the current transaction commits"); a crash *)
(* keeps the three disk variables and forgets the rest.                         *)
EXTENDS Naturals, Sequences, FiniteSets

CONSTANTS
    Procs,
    InitProc,       \* the process whose first forkret() runs fsinit()
    Blocks,         \* home blocks outside the log
    Vals, InitVal,  \* contents of a block
    NoData,         \* the block is not in the buffer cache
    LOGSIZE,        \* slots of logheader.block
    SIZE,           \* log.size: blocks of the on-disk log, header included
    MAXOPBLOCKS     \* calls of log_write() one operation makes

ASSUME LogAssumption ==
    /\ InitProc \in Procs
    /\ InitVal \in Vals
    /\ NoData \notin Vals
    /\ LOGSIZE \in Nat /\ SIZE \in Nat /\ MAXOPBLOCKS \in Nat \ {0}

VARIABLES
    home,           \* disk: home blocks
    dlog,           \* disk: log blocks
    dhead,          \* disk: block numbers in the header block
    cache,          \* buffer cache
    pins,           \* bpin() references on a buffer
    lh,             \* log.lh: block numbers logged so far
    outstanding,    \* log.outstanding
    committing,     \* log.committing
    pc,             \* where a process is in begin_op/end_op/commit
    tail,           \* its loop index in write_log/install_trans
    left,           \* log_write() calls the operation may still make
    mode            \* "boot", "up" or "panicked"

disk == <<home, dlog, dhead>>
memory == <<cache, pins, lh, outstanding, committing>>
vars == <<disk, memory, pc, tail, left, mode>>

Init == /\ home = [b \in Blocks |-> InitVal]
        /\ dlog = [i \in 1..LOGSIZE |-> InitVal]
        /\ dhead = <<>>
        /\ cache = [b \in Blocks |-> NoData]
        /\ pins = [b \in Blocks |-> 0]
        /\ lh = <<>>
        /\ outstanding = 0
        /\ committing = FALSE
        /\ pc = [p \in Procs |-> IF p = InitProc THEN "read_head" ELSE "idle"]
        /\ tail = [p \in Procs |-> 1]
        /\ left = [p \in Procs |-> 0]
        /\ mode = "boot"

At(p, label) == pc[p] = label /\ mode # "panicked"
Goto(p, label) == pc' = [pc EXCEPT ![p] = label]

(* Mutant: wakeup() wakes nobody. *)
Woken_nobody(f) == f

(* wakeup(&log): every sleeper in begin_op() tests its condition again. *)
Woken(f) == [q \in Procs |-> IF f[q] = "asleep" THEN "begin" ELSE f[q]]

--------------------------------------------------------------------------------
(* begin_op() *)

Call(p) == /\ mode = "up"
           /\ At(p, "idle")
           /\ Goto(p, "begin")
           /\ UNCHANGED <<disk, memory, tail, left, mode>>

(* Mutant: the reservation forgets the operation that is being admitted. *)
MustWait_without_itself == \/ committing
                           \/ Len(lh) + outstanding * MAXOPBLOCKS > LOGSIZE

MustWait == \/ committing
            \/ Len(lh) + (outstanding + 1) * MAXOPBLOCKS > LOGSIZE

begin_op(p) ==
    /\ At(p, "begin")
    /\ IF MustWait
       THEN Goto(p, "asleep") /\ UNCHANGED <<outstanding, left>>
       ELSE /\ outstanding' = outstanding + 1
            /\ left' = [left EXCEPT ![p] = MAXOPBLOCKS]
            /\ Goto(p, "op")
    /\ UNCHANGED <<disk, cache, pins, lh, committing, tail, mode>>

(* The operation reads, modifies and logs one block under the buffer's lock:    *)
(* bread(), the assignment, log_write() and brelse().                           *)
Absorbed(b) == \E i \in DOMAIN lh : lh[i] = b
LogFull == Len(lh) >= LOGSIZE \/ Len(lh) + 1 >= SIZE

log_write(p, b, v) ==
    /\ At(p, "op")
    /\ left[p] > 0
    /\ cache' = [cache EXCEPT ![b] = v]
    /\ left' = [left EXCEPT ![p] = @ - 1]
    /\ IF LogFull
       THEN mode' = "panicked" /\ UNCHANGED <<lh, pins>>
       ELSE /\ UNCHANGED mode
            /\ IF Absorbed(b)
               THEN UNCHANGED <<lh, pins>>
               ELSE lh' = Append(lh, b) /\ pins' = [pins EXCEPT ![b] = @ + 1]
    /\ UNCHANGED <<disk, outstanding, committing, pc, tail>>

(* end_op() up to its release: the last operation starts the commit, any other  *)
(* one wakes the sleepers, since its reservation is gone.                       *)
end_op(p) ==
    /\ At(p, "op")
    /\ left' = [left EXCEPT ![p] = 0]
    /\ outstanding' = outstanding - 1
    /\ IF committing
       THEN mode' = "panicked" /\ UNCHANGED <<pc, tail, committing>>
       ELSE /\ UNCHANGED mode
            /\ IF outstanding = 1
               THEN /\ committing' = TRUE
                    /\ tail' = [tail EXCEPT ![p] = 1]
                    /\ Goto(p, IF lh = <<>> THEN "finish" ELSE "write_log")
               ELSE /\ pc' = Woken([pc EXCEPT ![p] = "idle"])
                    /\ UNCHANGED <<committing, tail>>
    /\ UNCHANGED <<disk, cache, pins, lh>>

--------------------------------------------------------------------------------
(* commit(), one disk write to a step *)

(* bread() of a block: its buffer, read from the disk if it is not cached. *)
Contents(b) == IF cache[b] = NoData THEN home[b] ELSE cache[b]

write_log(p) ==
    /\ At(p, "write_log")
    /\ dlog' = [dlog EXCEPT ![tail[p]] = Contents(lh[tail[p]])]
    /\ cache' = [cache EXCEPT ![lh[tail[p]]] = Contents(lh[tail[p]])]
    /\ tail' = [tail EXCEPT ![p] = @ + 1]
    /\ Goto(p, IF tail[p] = Len(lh) THEN "write_head" ELSE "write_log")
    /\ UNCHANGED <<home, dhead, pins, lh, outstanding, committing, left, mode>>

write_head(p) ==
    /\ At(p, "write_head")
    /\ dhead' = lh
    /\ tail' = [tail EXCEPT ![p] = 1]
    /\ Goto(p, "install")
    /\ UNCHANGED <<home, dlog, memory, left, mode>>

(* One turn of the loop of install_trans(): the log block goes to the buffer    *)
(* and to the home block, and the buffer is unpinned when not recovering.       *)
Install(p, unpin) ==
    LET b == lh[tail[p]] IN
    /\ home' = [home EXCEPT ![b] = dlog[tail[p]]]
    /\ cache' = [cache EXCEPT ![b] = dlog[tail[p]]]
    /\ pins' = IF unpin THEN [pins EXCEPT ![b] = @ - 1] ELSE pins
    /\ tail' = [tail EXCEPT ![p] = @ + 1]

install_trans(p) ==
    /\ At(p, "install")
    /\ Install(p, TRUE)
    /\ Goto(p, IF tail[p] = Len(lh) THEN "erase" ELSE "install")
    /\ UNCHANGED <<dlog, dhead, lh, outstanding, committing, left, mode>>

Erase(p) == /\ At(p, "erase")
            /\ lh' = <<>>
            /\ dhead' = <<>>
            /\ Goto(p, "finish")
            /\ UNCHANGED <<home, dlog, cache, pins, outstanding, committing>>
            /\ UNCHANGED <<tail, left, mode>>

Finish(p) == /\ At(p, "finish")
             /\ committing' = FALSE
             /\ pc' = Woken([pc EXCEPT ![p] = "idle"])
             /\ UNCHANGED <<disk, cache, pins, lh, outstanding, tail, left, mode>>

--------------------------------------------------------------------------------
(* initlog(): recover_from_log() in the first process *)

read_head(p) == /\ At(p, "read_head")
                /\ lh' = dhead
                /\ tail' = [tail EXCEPT ![p] = 1]
                /\ Goto(p, IF dhead = <<>> THEN "clear" ELSE "recover")
                /\ UNCHANGED <<disk, cache, pins, outstanding, committing>>
                /\ UNCHANGED <<left, mode>>

Recover(p) == /\ At(p, "recover")
              /\ Install(p, FALSE)
              /\ Goto(p, IF tail[p] = Len(lh) THEN "clear" ELSE "recover")
              /\ UNCHANGED <<dlog, dhead, lh, outstanding, committing, left, mode>>

Clear(p) == /\ At(p, "clear")
            /\ lh' = <<>>
            /\ dhead' = <<>>
            /\ mode' = "up"
            /\ Goto(p, "idle")
            /\ UNCHANGED <<home, dlog, cache, pins, outstanding, committing>>
            /\ UNCHANGED <<tail, left>>

--------------------------------------------------------------------------------
(* The rest of the kernel and the machine *)

(* Mutant: bget() takes any buffer. *)
Recyclable_always(b) == TRUE

(* bget() recycles a buffer without references. *)
Recyclable(b) == pins[b] = 0

Evict(b) == /\ mode = "up"
            /\ cache[b] # NoData
            /\ Recyclable(b)
            /\ cache' = [cache EXCEPT ![b] = NoData]
            /\ UNCHANGED <<disk, pins, lh, outstanding, committing>>
            /\ UNCHANGED <<pc, tail, left, mode>>

(* A reader outside any operation (fileread(), exec()) brings a block in. *)
Fetch(b) == /\ mode = "up"
            /\ cache[b] = NoData
            /\ cache' = [cache EXCEPT ![b] = home[b]]
            /\ UNCHANGED <<disk, pins, lh, outstanding, committing>>
            /\ UNCHANGED <<pc, tail, left, mode>>

(* Power failure, or a reset after a panic. *)
Crash == /\ cache' = [b \in Blocks |-> NoData]
         /\ pins' = [b \in Blocks |-> 0]
         /\ lh' = <<>>
         /\ outstanding' = 0
         /\ committing' = FALSE
         /\ pc' = [p \in Procs |-> IF p = InitProc THEN "read_head" ELSE "idle"]
         /\ tail' = [p \in Procs |-> 1]
         /\ left' = [p \in Procs |-> 0]
         /\ mode' = "boot"
         /\ UNCHANGED disk

commit(p) == write_log(p) \/ write_head(p) \/ install_trans(p) \/ Erase(p) \/ Finish(p)
recover_from_log(p) == read_head(p) \/ Recover(p) \/ Clear(p)

Step(p) == \/ begin_op(p)
           \/ end_op(p)
           \/ commit(p)
           \/ recover_from_log(p)

Next == \/ \E p \in Procs : Step(p) \/ Call(p)
        \/ \E p \in Procs, b \in Blocks, v \in Vals : log_write(p, b, v)
        \/ \E b \in Blocks : Evict(b) \/ Fetch(b)
        \/ Crash

Spec == Init /\ [][Next]_vars

(* The scheduler runs every runnable process, disk requests complete, and a     *)
(* file-system operation reaches its end_op().                                  *)
FairSpec == Spec /\ \A p \in Procs : WF_vars(Step(p))

--------------------------------------------------------------------------------
(* What recover_from_log() would leave in the home blocks if the machine        *)
(* crashed now: the logged copies over the home blocks.                         *)
Recovered == [b \in Blocks |-> IF \E i \in DOMAIN dhead : dhead[i] = b
                               THEN dlog[CHOOSE i \in DOMAIN dhead : dhead[i] = b]
                               ELSE home[b]]

(* What a reader of block b sees: the cached copy if there is one. *)
Visible == [b \in Blocks |-> IF cache[b] = NoData THEN Recovered[b] ELSE cache[b]]

Disk == INSTANCE AtomicDisk WITH durable <- Recovered, current <- Visible,
                                 active <- {p \in Procs : pc[p] = "op"}

(* The log implements an atomic disk: whatever disk write a crash interrupts,   *)
(* in a commit or in a recovery, the blocks come back with all updates of the   *)
(* operations of the last group that committed and none of a later one, no      *)
(* group commits while an operation is between begin_op() and end_op(), and     *)
(* recycling buffers (bget) never loses an update that is not yet installed.    *)
ImplementsAtomicDisk == Disk!Spec

(* The log_write() calls that the admitted operations may still make: call      *)
(* number i of process p.                                                       *)
Pending == {c \in Procs \X (1..MAXOPBLOCKS) : c[2] <= left[c[1]]}

(* The admission test of begin_op() leaves room for every log_write() the       *)
(* admitted operations may still make: log.lh.block never overflows.            *)
LogNeverOverflows == Len(lh) + Cardinality(Pending) <= LOGSIZE

(* A process asleep in begin_op() is woken, unless the kernel panics: end_op()  *)
(* and the commit never forget the sleepers.                                    *)
SleeperWakes ==
    \A p \in Procs : (pc[p] = "asleep") ~> (pc[p] # "asleep" \/ mode = "panicked")

===============================================================================
