-------------------------------- MODULE BlockIO --------------------------------
(* Disk blocks through the buffer cache (bio.c), the sleep-locks of the buffers *)
(* (sleeplock.c) and the virtio disk driver with its interrupt (virtio_disk.c). *)
(*                                                                              *)
(* A process reads a block, may overwrite it and write it back, and releases    *)
(* it.  A step is what runs under one spin-lock; the interrupt handler keeps    *)
(* vdisk_lock over several steps, as the device works on meanwhile.  The two    *)
(* rings are sequences: they have num slots and a request uses three of the num *)
(* descriptors, so they cannot overflow.  NUM is a set, so that one run covers  *)
(* queues that run out of descriptors and queues with several requests.         *)
EXTENDS Integers, Sequences, FiniteSets, Functions

CONSTANTS
    Procs,
    Nobody,         \* nobody holds the lock
    Blocks,
    NoBlock,        \* a buffer that was never used
    Vals, InitVal,  \* contents of a block
    NBUF,           \* buffers in the cache
    NUM,            \* the numbers of descriptors a queue may have
    MaxReads        \* bound: calls of bread()

ASSUME BlockAssumption ==
    /\ IsFiniteSet(Procs) /\ Nobody \notin Procs
    /\ NoBlock \notin Blocks
    /\ InitVal \in Vals
    /\ NBUF \in Nat \ {0} /\ NUM \subseteq Nat \ 0..2 /\ MaxReads \in Nat

Bufs == 1..NBUF

VARIABLES
    platter,    \* disk contents
    buf,        \* bcache.buf
    lru,        \* the list of buffers, most recently used first
    num,        \* descriptors of the queue, fixed when the kernel is built
    free,       \* free descriptors
    info,       \* disk.info[i].b and the chain that starts at descriptor i
    avail,      \* chain heads for the device, in order
    used,       \* chain heads the device has finished, not yet handled
    irq,        \* the device asks for an interrupt
    intr,       \* virtio_disk_intr() runs and holds vdisk_lock
    pc,         \* where a process is
    want,       \* the block it asked for
    mine,       \* its buffer
    write,      \* the argument of virtio_disk_rw()
    chain,      \* its three descriptors
    reads,      \* calls of bread() so far, for the bound
    panicked

cache == <<buf, lru>>
queue == <<num, free, info, avail, used, irq, intr>>
proc == <<pc, want, mine, write, chain>>
vars == <<platter, cache, queue, proc, reads, panicked>>

Desc == 1..num

Init == /\ platter = [b \in Blocks |-> InitVal]
        /\ buf = [k \in Bufs |-> [blockno |-> NoBlock, valid |-> FALSE, refcnt |-> 0,
                                  locked |-> Nobody, disk |-> FALSE, data |-> InitVal]]
        /\ lru = [k \in Bufs |-> NBUF + 1 - k]
        /\ num \in NUM
        /\ free = Desc
        /\ info = [d \in Desc |-> 0]
        /\ avail = <<>> /\ used = <<>>
        /\ irq = FALSE
        /\ intr = "out"
        /\ pc = [p \in Procs |-> "idle"]
        /\ want = [p \in Procs |-> NoBlock]
        /\ mine = [p \in Procs |-> 0]
        /\ write = [p \in Procs |-> FALSE]
        /\ chain = [p \in Procs |-> <<>>]
        /\ reads = 0
        /\ panicked = FALSE

At(p, label) == pc[p] = label /\ ~panicked
Goto(p, label) == pc' = [pc EXCEPT ![p] = label]

(* wakeup(): the processes that sleep at label for buffer k run again at next. *)
Woken(f, label, k, next) ==
    [q \in Procs |-> IF f[q] = label /\ mine[q] = k THEN next ELSE f[q]]

--------------------------------------------------------------------------------
(* bget() under bcache.lock *)

Cached(b) == {k \in Bufs : buf[k].blockno = b}
Unused == {i \in Bufs : buf[lru[i]].refcnt = 0}
Victim == lru[CHOOSE i \in Unused : \A j \in Unused : j <= i]

Referenced(k) == [buf EXCEPT ![k].refcnt = @ + 1]

Take(p, k) == /\ mine' = [mine EXCEPT ![p] = k]
              /\ Goto(p, "acquiresleep")

bget(p, b) ==
    /\ At(p, "idle")
    /\ reads < MaxReads
    /\ reads' = reads + 1
    /\ want' = [want EXCEPT ![p] = b]
    /\ \/ \E k \in Cached(b) :
            /\ buf' = Referenced(k)
            /\ Take(p, k)
            /\ UNCHANGED panicked
       \/ /\ Cached(b) = {} /\ Unused # {}
          /\ buf' = [buf EXCEPT ![Victim].blockno = b, ![Victim].valid = FALSE,
                                ![Victim].refcnt = 1]
          /\ Take(p, Victim)
          /\ UNCHANGED panicked
       \/ /\ Cached(b) = {} /\ Unused = {}
          /\ panicked' = TRUE
          /\ UNCHANGED <<buf, mine, pc>>
    /\ UNCHANGED <<platter, lru, queue, write, chain>>

(* Mutant: the lock is not tested. *)
Locked_never(k) == FALSE

(* acquiresleep() under the lock of the sleep-lock; then bread() looks at valid. *)
Locked(k) == buf[k].locked # Nobody

acquiresleep(p) ==
    LET k == mine[p] IN
    /\ At(p, "acquiresleep")
    /\ IF Locked(k)
       THEN Goto(p, "sleep_lock") /\ UNCHANGED <<buf, write>>
       ELSE /\ buf' = [buf EXCEPT ![k].locked = p]
            /\ write' = [write EXCEPT ![p] = FALSE]
            /\ Goto(p, IF buf[k].valid THEN "have" ELSE "rw")
    /\ UNCHANGED <<platter, lru, queue, want, mine, chain, reads, panicked>>

(* The holder overwrites the data and calls bwrite(), as log.c does at most once *)
(* before it releases the buffer.                                               *)
bwrite(p, v) ==
    /\ At(p, "have")
    /\ ~write[p]
    /\ buf' = [buf EXCEPT ![mine[p]].data = v]
    /\ write' = [write EXCEPT ![p] = TRUE]
    /\ Goto(p, "rw")
    /\ UNCHANGED <<platter, lru, queue, want, mine, chain, reads, panicked>>

releasesleep(p) ==
    LET k == mine[p] IN
    /\ At(p, "have")
    /\ buf' = [buf EXCEPT ![k].locked = Nobody]
    /\ pc' = Woken([pc EXCEPT ![p] = "brelse"], "sleep_lock", k, "acquiresleep")
    /\ UNCHANGED <<platter, lru, queue, want, mine, write, chain, reads, panicked>>

(* A buffer that nobody uses any more moves to the front of the list. *)
Place(k) == CHOOSE i \in Bufs : lru[i] = k
MovedFirst(k) == [i \in Bufs |-> IF i = 1 THEN k
                                ELSE IF i <= Place(k) THEN lru[i - 1] ELSE lru[i]]

brelse(p) ==
    LET k == mine[p] IN
    /\ At(p, "brelse")
    /\ buf' = [buf EXCEPT ![k].refcnt = @ - 1]
    /\ lru' = IF buf[k].refcnt = 1 THEN MovedFirst(k) ELSE lru
    /\ mine' = [mine EXCEPT ![p] = 0]
    /\ want' = [want EXCEPT ![p] = NoBlock]
    /\ write' = [write EXCEPT ![p] = FALSE]
    /\ Goto(p, "idle")
    /\ UNCHANGED <<platter, queue, chain, reads, panicked>>

--------------------------------------------------------------------------------
(* virtio_disk_rw() under vdisk_lock *)

(* alloc3_desc() takes the first three free descriptors, or gives back those it *)
(* got; free_desc() wakes the processes that wait for descriptors.              *)
First3 == CHOOSE s \in [1..3 -> free] : /\ s[1] < s[2] /\ s[2] < s[3]
                                        /\ \A d \in free : d >= s[3] \/ d \in {s[1], s[2]}
FreeDescWakes(f) == [q \in Procs |-> IF f[q] = "sleep_desc" THEN "rw" ELSE f[q]]

alloc3_fails(p) ==
    /\ At(p, "rw") /\ intr = "out"
    /\ Cardinality(free) < 3
    /\ pc' = [(IF free = {} THEN pc ELSE FreeDescWakes(pc)) EXCEPT ![p] = "sleep_desc"]
    /\ UNCHANGED <<platter, cache, queue, want, mine, write, chain, reads, panicked>>

Submit(p) ==
    /\ At(p, "rw") /\ intr = "out"
    /\ Cardinality(free) >= 3
    /\ chain' = [chain EXCEPT ![p] = First3]
    /\ free' = free \ Range(First3)
    /\ buf' = [buf EXCEPT ![mine[p]].disk = TRUE]
    /\ info' = [info EXCEPT ![First3[1]] = mine[p]]
    /\ avail' = Append(avail, First3[1])
    /\ Goto(p, "wait_io")
    /\ UNCHANGED <<platter, lru, num, used, irq, intr, want, mine, write, reads, panicked>>

(* while(b->disk == 1) sleep(b, &disk.vdisk_lock) *)
SleepIO(p) ==
    /\ At(p, "wait_io") /\ intr = "out"
    /\ buf[mine[p]].disk
    /\ Goto(p, "sleep_io")
    /\ UNCHANGED <<platter, cache, queue, want, mine, write, chain, reads, panicked>>

(* The rest of virtio_disk_rw(): free_chain(); bread() then sets valid. *)
FreeChain(p) == free \cup Range(chain[p])

Complete(p) ==
    /\ At(p, "wait_io") /\ intr = "out"
    /\ ~buf[mine[p]].disk
    /\ info' = [info EXCEPT ![chain[p][1]] = 0]
    /\ free' = FreeChain(p)
    /\ chain' = [chain EXCEPT ![p] = <<>>]
    /\ buf' = [buf EXCEPT ![mine[p]].valid = TRUE]
    /\ pc' = FreeDescWakes([pc EXCEPT ![p] = "have"])
    /\ UNCHANGED <<platter, lru, num, avail, used, irq, intr, want, mine, write>>
    /\ UNCHANGED <<reads, panicked>>

--------------------------------------------------------------------------------
(* The device finishes requests in any order, and the interrupt handler *)

Requester(h) == CHOOSE p \in Procs : chain[p] # <<>> /\ chain[p][1] = h

Without(s, i) == SubSeq(s, 1, i - 1) \o SubSeq(s, i + 1, Len(s))

Device(i) ==
    LET h == avail[i]
        k == info[h]
        b == buf[k].blockno IN
    /\ IF write[Requester(h)]
       THEN platter' = [platter EXCEPT ![b] = buf[k].data] /\ UNCHANGED buf
       ELSE buf' = [buf EXCEPT ![k].data = platter[b]] /\ UNCHANGED platter
    /\ avail' = Without(avail, i)
    /\ used' = Append(used, h)
    /\ irq' = TRUE
    /\ UNCHANGED <<lru, num, free, info, intr, proc, reads, panicked>>

(* acquire(vdisk_lock) and the write to INTERRUPT_ACK. *)
IntrAck ==
    /\ irq /\ intr = "out" /\ ~panicked
    /\ intr' = "loop"
    /\ irq' = FALSE
    /\ UNCHANGED <<platter, cache, num, free, info, avail, used, proc, reads, panicked>>

(* One turn of the loop over the used ring. *)
IntrLoop ==
    /\ intr = "loop" /\ used # <<>>
    /\ LET k == info[Head(used)] IN
       /\ buf' = [buf EXCEPT ![k].disk = FALSE]
       /\ pc' = Woken(pc, "sleep_io", k, "wait_io")
    /\ used' = Tail(used)
    /\ UNCHANGED <<platter, lru, num, free, info, avail, irq, intr>>
    /\ UNCHANGED <<want, mine, write, chain, reads, panicked>>

IntrLeave ==
    /\ intr = "loop" /\ used = <<>>
    /\ intr' = "leave"
    /\ UNCHANGED <<platter, cache, num, free, info, avail, used, irq, proc>>
    /\ UNCHANGED <<reads, panicked>>

(* Mutant: the interrupt is acknowledged at the end. *)
IntrReturn_acks ==
    /\ intr = "leave"
    /\ intr' = "out"
    /\ irq' = FALSE
    /\ UNCHANGED <<platter, cache, num, free, info, avail, used, proc, reads, panicked>>

(* release(vdisk_lock) *)
IntrReturn ==
    /\ intr = "leave"
    /\ intr' = "out"
    /\ UNCHANGED <<platter, cache, num, free, info, avail, used, irq, proc>>
    /\ UNCHANGED <<reads, panicked>>

(* panic() spins forever. *)
panic == panicked /\ UNCHANGED vars

(* The bound is reached and every process is done. *)
Done == /\ reads = MaxReads /\ ~panicked
        /\ \A p \in Procs : pc[p] = "idle"
        /\ UNCHANGED vars

virtio_disk_intr == IntrAck \/ IntrLoop \/ IntrLeave \/ IntrReturn
virtio_disk_rw(p) == alloc3_fails(p) \/ Submit(p) \/ SleepIO(p) \/ Complete(p)

Next == \/ \E p \in Procs, b \in Blocks : bget(p, b)
        \/ \E p \in Procs : acquiresleep(p) \/ releasesleep(p) \/ brelse(p)
        \/ \E p \in Procs, v \in Vals : bwrite(p, v)
        \/ \E p \in Procs : virtio_disk_rw(p)
        \/ \E i \in DOMAIN avail : Device(i)
        \/ virtio_disk_intr
        \/ panic
        \/ Done

Spec == Init /\ [][Next]_vars

--------------------------------------------------------------------------------
(* What bread() returns is the block that was asked for, valid, with the        *)
(* contents of the disk: no other request or recycling changed the buffer       *)
(* between bget(), the wait for the lock, the transfer and the return.          *)
BreadReturnsBlock ==
    \A p \in Procs : pc[p] = "have" =>
        /\ buf[mine[p]].blockno = want[p]
        /\ buf[mine[p]].valid
        /\ buf[mine[p]].locked = p
        /\ buf[mine[p]].data = platter[want[p]]

(* No interrupt and no wakeup is lost: what the device has finished is in sight *)
(* of the handler or of a pending interrupt, although the device goes on while  *)
(* the handler runs; and a process sleeps only while somebody owes it a wakeup: *)
(* a request that will free descriptors, the holder of its buffer, or the       *)
(* transfer of its buffer.                                                      *)
NoLostWakeup ==
    /\ used # <<>> => irq \/ intr = "loop"
    /\ \A p \in Procs :
         /\ pc[p] = "sleep_desc" => \E q \in Procs : chain[q] # <<>> \/ pc[q] = "rw"
         /\ pc[p] = "sleep_lock" => Locked(mine[p])
         /\ pc[p] = "sleep_io" => buf[mine[p]].disk
================================================================================
