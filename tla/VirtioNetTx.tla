---------------------------- MODULE VirtioNetTx ----------------------------
(***************************************************************************)
(* The transmit side of the network driver: transmit_packet, alloc_desc    *)
(* and free_desc of kernel/virtio_net.c, run by several kernel threads     *)
(* (processes in sendto, and the receive interrupt answering ARP) against  *)
(* the virtio device, which reads the available ring, the descriptors and  *)
(* the packet buffer concurrently.                                         *)
(*                                                                         *)
(* A frame is <<t, k>>: the k-th frame thread t transmits.  alloc_desc's   *)
(* scan of free[] is one step and its write another; free_desc runs        *)
(* without vnet_lock, as in the code, so it interleaves with everything    *)
(* the lock holder does.                                                   *)
(***************************************************************************)
EXTENDS Integers, Sequences, FiniteSets

CONSTANTS
  Threads,    \* kernel threads that call transmit_packet
  NoThread,   \* vnet_lock is free
  NUM,        \* descriptors per queue (virtio.h: 8)
  IdxMod,     \* the ring indices are uint16: 2^16, a multiple of NUM
  Pages,      \* pages kalloc can still hand out
  MaxSends    \* bound: calls of transmit_packet per thread

ASSUME TxConstants ==
  /\ NoThread \notin Threads
  /\ NUM \in Nat \ {0}
  /\ IdxMod \in Nat \ {0}
  /\ IdxMod % NUM = 0
  /\ Pages \in Nat
  /\ MaxSends \in Nat

Desc == 0 .. NUM - 1
Frames == Threads \X (1 .. MaxSends)
NoFrame == <<NoThread, 0>>     \* packet_buf before the first memmove
Garbage == <<NoThread, 1>>     \* what a cleared or half-built chain sends

VARIABLES
  lock,           \* net.vnet_lock
  free,           \* the descriptors i with net.txq.free[i] set
  desc,           \* net.txq.desc[]: which buffer it points to, and next
  ring, avail,    \* net.txq.driver_area->ring[], ->idx
  used,           \* net.txq.device_area->idx
  packet_buf,     \* the one packet buffer of the driver
  pages,          \* free pages left in the kernel allocator
  panicked,       \* the message the kernel panicked with, or "no"
  pc, hdr_desc, pkt_desc, prev_used_idx, sends,  \* locals of each thread
  last_avail, active, inflight,                  \* the device
  wire,           \* history: frames the device put on the wire, in order
  returned,       \* history: frames whose transmit_packet completed
  lost,           \* history: descriptors the early return kept
  alone           \* history: calls that met no other one; see Enter

kernelVars == <<lock, free, desc, ring, avail, packet_buf, pages, panicked>>
threadVars == <<pc, hdr_desc, pkt_desc, prev_used_idx, sends>>
deviceVars == <<used, last_avail, active, inflight, wire>>
history == <<returned, lost, alone>>
vars == <<kernelVars, threadVars, deviceVars, history>>

Buffers == {"none", "hdr", "packet_buf"}
Cleared == [buf |-> "none", next |-> 0]

TypeOK ==
  /\ lock \in Threads \cup {NoThread}
  /\ free \in SUBSET Desc
  /\ desc \in [Desc -> [buf : Buffers, next : Desc]]
  /\ ring \in [Desc -> Desc]
  /\ avail \in 0 .. IdxMod - 1
  /\ used \in 0 .. IdxMod - 1
  /\ packet_buf \in Frames \cup {NoFrame}
  /\ pages \in Nat
  /\ panicked \in {"no", "failed to allocate header", "free_desc 2"}
  /\ pc \in [Threads -> {"idle", "claim_hdr", "claim_pkt", "fill", 
                         "publish", "sample", "poll", "free_pkt"}]
  /\ hdr_desc \in [Threads -> Desc \cup {-1}]
  /\ pkt_desc \in [Threads -> Desc \cup {-1}]
  /\ prev_used_idx \in [Threads -> 0 .. IdxMod - 1]
  /\ sends \in [Threads -> 0 .. MaxSends]
  /\ last_avail \in 0 .. IdxMod - 1
  /\ active \in BOOLEAN
  /\ inflight \in {"none", "packet_buf", "garbage"}
  /\ wire \in Seq(Frames \cup {NoFrame, Garbage})
  /\ returned \in SUBSET Frames
  /\ lost \in SUBSET Desc
  /\ alone \in SUBSET Frames

(* virtio_net_init: every descriptor of the transmit queue is free.        *)
Init ==
  /\ lock = NoThread
  /\ free = Desc
  /\ desc = [i \in Desc |-> Cleared]
  /\ ring = [i \in Desc |-> 0]
  /\ avail = 0
  /\ used = 0
  /\ packet_buf = NoFrame
  /\ pages = Pages
  /\ panicked = "no"
  /\ pc = [t \in Threads |-> "idle"]
  /\ hdr_desc = [t \in Threads |-> -1]
  /\ pkt_desc = [t \in Threads |-> -1]
  /\ prev_used_idx = [t \in Threads |-> 0]
  /\ sends = [t \in Threads |-> 0]
  /\ last_avail = 0
  /\ active = FALSE
  /\ inflight = "none"
  /\ wire = <<>>
  /\ returned = {} /\ lost = {} /\ alone = {}

-----------------------------------------------------------------------------
(* The uint16 indices of the rings.                                        *)
NextIdx(i) == (i + 1) % IdxMod

(* The scan of alloc_desc: d is the first descriptor whose flag is set, -1 *)
(* when there is none.                                                     *)
FirstFree(flags, d) ==
  \/ /\ d \in flags
     /\ \A j \in flags : d <= j
  \/ /\ d = -1
     /\ flags = {}

(* free[i] = 0, the step of alloc_desc that follows the scan.              *)
Claim(d) == free \ {d}

(* free_desc: panics on a descriptor that is free already.                 *)
free_desc(i) ==
  IF i \in free
    THEN panicked' = "free_desc 2" /\ UNCHANGED <<free, desc>>
    ELSE /\ free' = free \cup {i}
         /\ desc' = [desc EXCEPT ![i] = Cleared]
         /\ UNCHANGED panicked

(* acquire(&net.vnet_lock).                                                *)
Acquire_not_exclusive(t) == lock' = t
Acquire(t) == lock = NoThread /\ lock' = t

(* The calls that overlap no other one: a call starts alone when no other  *)
(* thread is in transmit_packet and the device owes nothing, and is alone  *)
(* no longer once another thread enters.                                   *)
AloneAfter(t) ==
  LET running == {<<u, sends[u]>> : u \in {v \in Threads : pc[v] # "idle"}}
  IN  (alone \ running)
        \cup IF running = {} /\ used = avail THEN {<<t, sends[t] + 1>>} ELSE {}

KallocFails == pages = 0

(* transmit_packet, acquire to the scan of the first alloc_desc.  The      *)
(* header page is never freed.                                             *)
Enter(t) ==
  /\ pc[t] = "idle" /\ sends[t] < MaxSends
  /\ Acquire(t)
  /\ sends' = [sends EXCEPT ![t] = @ + 1]
  /\ \/ /\ KallocFails
        /\ panicked' = "failed to allocate header"
        /\ UNCHANGED <<pages, hdr_desc, pc>>
     \/ /\ ~KallocFails
        /\ pages' = pages - 1
        /\ \E d \in Desc \cup {-1} :
             FirstFree(free, d) /\ hdr_desc' = [hdr_desc EXCEPT ![t] = d]
        /\ pc' = [pc EXCEPT ![t] = "claim_hdr"]
        /\ UNCHANGED panicked
  /\ alone' = AloneAfter(t)
  /\ UNCHANGED <<free, desc, ring, avail, packet_buf, pkt_desc,
                 prev_used_idx, deviceVars, returned, lost>>

(* The first alloc_desc clears the flag it found; the second one scans.    *)
ClaimHdr(t) ==
  /\ pc[t] = "claim_hdr"
  /\ free' = Claim(hdr_desc[t])
  /\ \E d \in Desc \cup {-1} :
       FirstFree(free', d) /\ pkt_desc' = [pkt_desc EXCEPT ![t] = d]
  /\ pc' = [pc EXCEPT ![t] = "claim_pkt"]
  /\ UNCHANGED <<lock, desc, ring, avail, packet_buf, pages, panicked,
                 hdr_desc, prev_used_idx, sends, deviceVars, history>>

(* The second alloc_desc clears its flag; the early return when either one *)
(* failed gives nothing back.                                              *)
ClaimPkt(t) ==
  /\ pc[t] = "claim_pkt"
  /\ free' = Claim(pkt_desc[t])
  /\ \/ /\ hdr_desc[t] = -1 \/ pkt_desc[t] = -1
        /\ lost' = lost \cup ({hdr_desc[t], pkt_desc[t]} \ {-1})
        /\ lock' = NoThread
        /\ pc' = [pc EXCEPT ![t] = "idle"]
     \/ /\ hdr_desc[t] # -1 /\ pkt_desc[t] # -1
        /\ pc' = [pc EXCEPT ![t] = "fill"]
        /\ UNCHANGED <<lock, lost>>
  /\ UNCHANGED <<desc, ring, avail, packet_buf, pages, panicked, hdr_desc,
                 pkt_desc, prev_used_idx, sends, deviceVars, returned, alone>>

(* memmove into packet_buf, the two descriptors, the available ring entry. *)
Fill(t) ==
  /\ pc[t] = "fill"
  /\ packet_buf' = <<t, sends[t]>>
  /\ desc' = [desc EXCEPT
       ![hdr_desc[t]] = [buf |-> "hdr", next |-> pkt_desc[t]],
       ![pkt_desc[t]] = [@ EXCEPT !.buf = "packet_buf"]]
  /\ ring' = [ring EXCEPT ![avail % NUM] = hdr_desc[t]]
  /\ pc' = [pc EXCEPT ![t] = "publish"]
  /\ UNCHANGED <<lock, free, avail, pages, panicked, hdr_desc, pkt_desc,
                 prev_used_idx, sends, deviceVars, history>>

(* driver_area->idx++: from here the device may take the entry.            *)
Publish(t) ==
  /\ pc[t] = "publish"
  /\ avail' = NextIdx(avail)
  /\ pc' = [pc EXCEPT ![t] = "sample"]
  /\ UNCHANGED <<lock, free, desc, ring, packet_buf, pages, panicked,
                 hdr_desc, pkt_desc, prev_used_idx, sends, deviceVars,
                 history>>

(* prev_used_idx = device_area->idx, QUEUE_NOTIFY, release.                *)
Sample(t) ==
  /\ pc[t] = "sample"
  /\ prev_used_idx' = [prev_used_idx EXCEPT ![t] = used]
  /\ active' = TRUE
  /\ lock' = NoThread
  /\ pc' = [pc EXCEPT ![t] = "poll"]
  /\ UNCHANGED <<free, desc, ring, avail, packet_buf, pages, panicked,
                 hdr_desc, pkt_desc, sends, used, last_avail, inflight, wire,
                 history>>

(* The condition on which the polling loop is left.                        *)
Completed_always(t) == TRUE
Completed_decremented(t) == used < prev_used_idx[t]
Completed(t) == used # prev_used_idx[t]

(* The polling loop is left and the header descriptor freed.               *)
PollDone(t) ==
  /\ pc[t] = "poll"
  /\ Completed(t)
  /\ free_desc(hdr_desc[t])
  /\ pc' = [pc EXCEPT ![t] = "free_pkt"]
  /\ UNCHANGED <<lock, ring, avail, packet_buf, pages, hdr_desc, pkt_desc,
                 prev_used_idx, sends, deviceVars, history>>

(* The packet descriptor is freed and transmit_packet returns.             *)
Return(t) ==
  /\ pc[t] = "free_pkt"
  /\ free_desc(pkt_desc[t])
  /\ pc' = [pc EXCEPT ![t] = "idle"]
  /\ returned' = returned \cup {<<t, sends[t]>>}
  /\ UNCHANGED <<lock, ring, avail, packet_buf, pages, hdr_desc, pkt_desc,
                 prev_used_idx, sends, deviceVars, lost, alone>>

-----------------------------------------------------------------------------
(* The device.  Once notified it takes available entries until it finds    *)
(* none; it follows the chain when it takes the entry and reads the buffer *)
(* when it sends.                                                          *)
DeviceTake ==
  /\ active /\ inflight = "none"
  /\ last_avail # avail
  /\ LET head == ring[last_avail % NUM] IN
       inflight' = IF /\ desc[head].buf = "hdr"
                      /\ desc[desc[head].next].buf = "packet_buf"
                     THEN "packet_buf" ELSE "garbage"
  /\ last_avail' = NextIdx(last_avail)
  /\ UNCHANGED <<kernelVars, threadVars, used, active, wire, history>>

DeviceSend ==
  /\ inflight # "none"
  /\ wire' = Append(wire, IF inflight = "packet_buf" THEN packet_buf
                                                     ELSE Garbage)
  /\ used' = NextIdx(used)
  /\ inflight' = "none"
  /\ UNCHANGED <<kernelVars, threadVars, last_avail, active, history>>

DeviceIdle ==
  /\ active /\ inflight = "none"
  /\ last_avail = avail
  /\ active' = FALSE
  /\ UNCHANGED <<kernelVars, threadVars, used, last_avail, inflight, wire,
                 history>>

-----------------------------------------------------------------------------
transmit_packet(t) ==
  \/ Enter(t) \/ ClaimHdr(t) \/ ClaimPkt(t) \/ Fill(t) \/ Publish(t)
  \/ Sample(t) \/ PollDone(t) \/ Return(t)

Device == DeviceTake \/ DeviceSend \/ DeviceIdle

(* A panicked kernel runs no thread again; the device is left alone too.   *)
Next ==
  /\ panicked = "no"
  /\ \/ \E t \in Threads : transmit_packet(t)
     \/ Device

Spec == Init /\ [][Next]_vars

(* A thread inside transmit_packet keeps running (the scheduler preempts   *)
(* but resumes it), and a notified device keeps serving its queue.  Nothing *)
(* forces a thread to call transmit_packet, or hands it the lock.          *)
Finish(t) == panicked = "no" /\ (PollDone(t) \/ Return(t))
Prepare(t) == /\ panicked = "no"
              /\ \/ ClaimHdr(t) \/ ClaimPkt(t)
                 \/ Fill(t) \/ Publish(t) \/ Sample(t)
Fairness ==
  /\ \A t \in Threads : WF_vars(Prepare(t)) /\ WF_vars(Finish(t))
  /\ WF_vars(panicked = "no" /\ Device)

FairSpec == Spec /\ Fairness

-----------------------------------------------------------------------------
(* The descriptors a thread has claimed and will still free.               *)
Holds(t) ==
  CASE pc[t] = "claim_pkt" -> {hdr_desc[t]} \ {-1}
    [] pc[t] \in {"fill", "publish", "sample", "poll"}
         -> {hdr_desc[t], pkt_desc[t]}
    [] pc[t] = "free_pkt" -> {pkt_desc[t]}
    [] OTHER -> {}

(* free_desc never meets a descriptor that is free already, although it    *)
(* runs without vnet_lock and other threads allocate and free meanwhile:   *)
(* the panic "free_desc 2" is unreachable.                                 *)
NeverFreesFree == panicked # "free_desc 2"

(* At every moment a descriptor is held by at most one thread and a held   *)
(* one is not free, so that no two chains under construction or waiting    *)
(* share a descriptor, although alloc_desc's test and set are two steps.   *)
DescriptorsOwned ==
  \A t \in Threads :
    /\ \A i \in Holds(t) : i \in Desc \ free
    /\ pc[t] \in {"fill", "publish", "sample", "poll"}
         => hdr_desc[t] # pkt_desc[t]
    /\ \A u \in Threads \ {t} : Holds(t) \cap Holds(u) = {}

(* Every descriptor is free, held by a thread that will free it, or was    *)
(* kept by a call that returned early for want of a second one: exhaustion *)
(* is the only way to lose a descriptor, and it is lost for good.          *)
DescriptorsAccounted ==
  /\ \A i \in Desc \ free : i \in lost \/ \E t \in Threads : i \in Holds(t)
  /\ \A i \in lost : i \notin free /\ \A t \in Threads : i \notin Holds(t)

SentOnce(f) == \E k \in 1 .. Len(wire) : \A j \in 1 .. Len(wire) : wire[j] = f <=> j = k

(* When transmit_packet returns, the frame of a call that overlapped no    *)
(* other one has been sent, exactly once, whatever calls before and after  *)
(* it overlapped.                                                          *)
AloneIsSentOnce == \A f \in returned \cap alone : SentOnce(f)

(* A thread that polls while some entry is still with the device gets out  *)
(* of the loop and returns, unless the kernel panics.  Without such an     *)
(* entry (it completed between idx++ and the sampling of prev_used_idx)    *)
(* nothing ends the loop.                                                  *)
PollEndsIfPending ==
  \A t \in Threads :
    (pc[t] = "poll" /\ used # avail) ~> (pc[t] = "idle" \/ panicked # "no")
=============================================================================
