------------------------- MODULE VirtioNetTxProofs -------------------------
(***************************************************************************)
(* Proofs about VirtioNetTx for every number of threads, descriptors and   *)
(* sends.  DescriptorsOwned is not inductive: a descriptor found by the    *)
(* scan of alloc_desc stays free until it is claimed only because the      *)
(* other threads that could claim it are kept out by vnet_lock, while the  *)
(* unlocked free_desc can only set flags.  TxInv adds both facts.          *)
(***************************************************************************)
EXTENDS VirtioNetTx, TLAPS

(* How long a leaf may take: SMT first, then Zenon.                          *)
USE SMTT(20), ZenonT(30)

Locked == {"claim_hdr", "claim_pkt", "fill", "publish", "sample"}

(* A thread between acquire and release is the one vnet_lock names.        *)
LockHeld == \A t \in Threads : pc[t] \in Locked => lock = t

(* What the scan of alloc_desc found is still free when it is claimed.     *)
FoundStillFree ==
  \A t \in Threads :
    /\ pc[t] = "claim_hdr" => hdr_desc[t] \in free \cup {-1}
    /\ pc[t] = "claim_pkt" => pkt_desc[t] \in free \cup {-1}

(* A thread inside transmit_packet is sending one of its frames.           *)
Counted == \A t \in Threads : pc[t] # "idle" => sends[t] \in 1 .. MaxSends

TxInv == /\ TypeOK
         /\ LockHeld
         /\ FoundStillFree
         /\ Counted
         /\ DescriptorsOwned
         /\ DescriptorsAccounted
         /\ NeverFreesFree

(* A ring index stays a uint16 when it is advanced.                        *)
LEMMA NextIdxType ==
  ASSUME NEW i \in 0 .. IdxMod - 1
  PROVE  NextIdx(i) \in 0 .. IdxMod - 1
  BY TxConstants DEF NextIdx

(* The index taken modulo NUM is a slot of the ring.                       *)
LEMMA SlotType ==
  ASSUME NEW i \in 0 .. IdxMod - 1
  PROVE  i % NUM \in Desc
  BY TxConstants DEF Desc

(* free_desc called on a descriptor that is not free keeps the descriptors *)
(* well typed, sets that flag only, and does not panic.                    *)
LEMMA FreeDescEffect ==
  ASSUME TypeOK, NEW i \in Desc \ free, free_desc(i)
  PROVE  /\ desc' \in [Desc -> [buf : Buffers, next : Desc]]
         /\ free' = free \cup {i}
         /\ panicked' = panicked
  <1>1. Cleared \in [buf : Buffers, next : Desc]
    BY TxConstants DEF Cleared, Buffers, Desc
  <1>2. /\ free' = free \cup {i}
        /\ desc' = [desc EXCEPT ![i] = Cleared]
        /\ panicked' = panicked
    BY DEF free_desc
  <1> QED BY <1>1, <1>2, Zenon DEF TypeOK

(* Where a thread is in transmit_packet determines what it holds.          *)
LEMMA HoldsByPc ==
  ASSUME NEW t \in Threads
  PROVE  /\ pc[t] \in {"idle", "claim_hdr"} => Holds(t) = {}
         /\ pc[t] = "claim_pkt" => Holds(t) = {hdr_desc[t]} \ {-1}
         /\ pc[t] \in {"fill", "publish", "sample", "poll"}
              => Holds(t) = {hdr_desc[t], pkt_desc[t]}
         /\ pc[t] = "free_pkt" => Holds(t) = {pkt_desc[t]}
  BY DEF Holds

(* Initially the invariant holds: everything is free and nobody runs.      *)
LEMMA InitTxInv == Init => TxInv
  <1> SUFFICES ASSUME Init PROVE TxInv
    OBVIOUS
  <1>1. TypeOK
    <2>1. Cleared \in [buf : Buffers, next : Desc] /\ 0 \in Desc
      BY TxConstants DEF Cleared, Buffers, Desc
    <2>2. 0 \in 0 .. IdxMod - 1 /\ 0 \in 0 .. MaxSends
      BY TxConstants
    <2>3. <<>> \in Seq(Frames \cup {NoFrame, Garbage})
      OBVIOUS
    <2> QED BY <2>1, <2>2, <2>3, TxConstants, Zenon DEF Init, TypeOK
  <1>2. LockHeld /\ FoundStillFree /\ NeverFreesFree /\ Counted
    BY DEF Init, LockHeld, FoundStillFree, NeverFreesFree, Counted, Locked
  <1>3. DescriptorsOwned
    BY DEF Init, DescriptorsOwned, Holds
  <1>4. DescriptorsAccounted
    BY DEF Init, DescriptorsAccounted
  <1> QED BY <1>1, <1>2, <1>3, <1>4 DEF TxInv

(* A thread that has both descriptors, or only the packet's left to free,  *)
(* holds descriptors of the queue that are not free.                       *)
LEMMA HeldDescs ==
  ASSUME TxInv, NEW t \in Threads
  PROVE  /\ pc[t] \in {"fill", "publish", "sample", "poll"} =>
               /\ hdr_desc[t] \in Desc \ free /\ pkt_desc[t] \in Desc \ free
               /\ hdr_desc[t] # pkt_desc[t]
         /\ pc[t] = "free_pkt" => pkt_desc[t] \in Desc \ free
  BY HoldsByPc DEF TxInv, DescriptorsOwned

(* Each step keeps the state well typed.                                   *)
LEMMA TypeStep ==
  ASSUME TxInv, [Next]_vars
  PROVE  TypeOK'
  <1> USE TxConstants DEF TxInv
  <1>1. ASSUME NEW t \in Threads, Enter(t) PROVE TypeOK'
    <2>1. sends' \in [Threads -> 0 .. MaxSends]
      <3>1. sends[t] < MaxSends /\ sends' = [sends EXCEPT ![t] = sends[t] + 1]
        BY <1>1, Zenon DEF Enter
      <3>2. sends \in [Threads -> 0 .. MaxSends]
        BY Zenon DEF TypeOK
      <3> QED BY <3>1, <3>2
    <2>2. /\ lock' \in Threads \cup {NoThread}
          /\ UNCHANGED <<free, desc, ring, avail, packet_buf, pkt_desc,
                         prev_used_idx, deviceVars, returned, lost>>
      BY <1>1, Zenon DEF Enter, Acquire
    <2>3. /\ pages' \in Nat
          /\ panicked' \in {"no", "failed to allocate header", "free_desc 2"}
          /\ hdr_desc' \in [Threads -> Desc \cup {-1}]
      <3>1. /\ pages \in Nat
            /\ panicked \in {"no", "failed to allocate header", "free_desc 2"}
            /\ hdr_desc \in [Threads -> Desc \cup {-1}]
        BY Zenon DEF TypeOK
      <3>2. pages' = pages \/ (pages > 0 /\ pages' = pages - 1)
        <4>1. pages' = pages \/ (pages # 0 /\ pages' = pages - 1)
          BY <1>1, Zenon DEF Enter, KallocFails
        <4>2. pages \in Nat
          BY <3>1, Zenon
        <4> QED BY <4>1, <4>2
      <3>3. panicked' \in {panicked, "failed to allocate header"}
        BY <1>1, Zenon DEF Enter
      <3>4. \/ hdr_desc' = hdr_desc
            \/ \E d \in Desc \cup {-1} : hdr_desc' = [hdr_desc EXCEPT ![t] = d]
        BY <1>1, Zenon DEF Enter
      <3>5. pages' \in Nat
        <4>1. pages \in Nat
          BY <3>1, Zenon
        <4> QED BY <4>1, <3>2
      <3>6. hdr_desc' \in [Threads -> Desc \cup {-1}]
        BY <3>1, <3>4, Zenon
      <3> QED BY <3>1, <3>3, <3>5, <3>6, Zenon
    <2>4. pc' \in [Threads -> {"idle", "claim_hdr", "claim_pkt", "fill",
                              "publish", "sample", "poll", "free_pkt"}]
      <3>1. pc' = pc \/ pc' = [pc EXCEPT ![t] = "claim_hdr"]
        BY <1>1, Zenon DEF Enter
      <3> QED BY <3>1, Zenon DEF TypeOK
    <2>5. alone' \in SUBSET Frames
      <3>1. sends[t] + 1 \in 1 .. MaxSends
        <4>1. sends[t] < MaxSends /\ sends \in [Threads -> 0 .. MaxSends]
          BY <1>1, Zenon DEF Enter, TypeOK
        <4> QED BY <4>1
      <3>2. alone' \subseteq alone \cup {<<t, sends[t] + 1>>}
        <4>1. alone' = AloneAfter(t)
          BY <1>1, Zenon DEF Enter
        <4>2. AloneAfter(t) \subseteq alone \cup {<<t, sends[t] + 1>>}
          BY Zenon DEF AloneAfter
        <4> QED BY <4>1, <4>2
      <3>3. <<t, sends[t] + 1>> \in Frames
        BY <3>1 DEF Frames
      <3>4. alone \in SUBSET Frames
        BY Zenon DEF TypeOK
      <3> QED BY <3>2, <3>3, <3>4
    <2> QED BY <2>1, <2>2, <2>3, <2>4, <2>5, Zenon DEF TypeOK, deviceVars
  <1>2. ASSUME NEW t \in Threads, ClaimHdr(t) PROVE TypeOK'
    <2>1. free' \in SUBSET Desc
      BY <1>2, Zenon DEF TypeOK, ClaimHdr, Claim
    <2>2. pkt_desc' \in [Threads -> Desc \cup {-1}]
      BY <1>2, Zenon DEF TypeOK, ClaimHdr
    <2>3. pc' \in [Threads -> {"idle", "claim_hdr", "claim_pkt", "fill",
                              "publish", "sample", "poll", "free_pkt"}]
      BY <1>2, Zenon DEF TypeOK, ClaimHdr
    <2>4. UNCHANGED <<lock, desc, ring, avail, packet_buf, pages, panicked, hdr_desc,
                      prev_used_idx, sends, deviceVars, history>>
      BY <1>2 DEF ClaimHdr
    <2> QED BY <2>1, <2>2, <2>3, <2>4, Zenon DEF TypeOK, deviceVars, history
  <1>3. ASSUME NEW t \in Threads, ClaimPkt(t) PROVE TypeOK'
    <2>1. free' \in SUBSET Desc
      BY <1>3, Zenon DEF TypeOK, ClaimPkt, Claim
    <2>2. lock' \in Threads \cup {NoThread}
      BY <1>3, Zenon DEF TypeOK, ClaimPkt
    <2>3. pc' \in [Threads -> {"idle", "claim_hdr", "claim_pkt", "fill",
                              "publish", "sample", "poll", "free_pkt"}]
      <3>1. \E l \in {"idle", "fill"} : pc' = [pc EXCEPT ![t] = l]
        BY <1>3 DEF ClaimPkt
      <3> QED BY <3>1, Zenon DEF TypeOK
    <2>4. lost' \in SUBSET Desc
      <3>1. hdr_desc[t] \in Desc \cup {-1} /\ pkt_desc[t] \in Desc \cup {-1}
        BY Zenon DEF TypeOK
      <3>2. lost' \subseteq lost \cup ({hdr_desc[t], pkt_desc[t]} \ {-1})
        BY <1>3 DEF ClaimPkt
      <3> QED BY <3>1, <3>2, Zenon DEF TypeOK
    <2>5. UNCHANGED <<desc, ring, avail, packet_buf, pages, panicked, hdr_desc, pkt_desc,
                      prev_used_idx, sends, deviceVars, returned, alone>>
      BY <1>3 DEF ClaimPkt
    <2> QED BY <2>1, <2>2, <2>3, <2>4, <2>5, Zenon DEF TypeOK, deviceVars
  <1>4. ASSUME NEW t \in Threads, Fill(t) PROVE TypeOK'
    <2>1. hdr_desc[t] \in Desc /\ pkt_desc[t] \in Desc
      BY <1>4, HeldDescs DEF Fill
    <2>2. avail % NUM \in Desc
      BY SlotType, Zenon DEF TypeOK
    <2>3. packet_buf' \in Frames
      BY <1>4 DEF Fill, Counted, Frames
    <2>4. desc' \in [Desc -> [buf : Buffers, next : Desc]]
      <3>1. desc \in [Desc -> [buf : Buffers, next : Desc]]
        BY Zenon DEF TypeOK
      <3>2. desc' = [desc EXCEPT
                       ![hdr_desc[t]] = [buf |-> "hdr", next |-> pkt_desc[t]],
                       ![pkt_desc[t]] = [@ EXCEPT !.buf = "packet_buf"]]
        BY <1>4 DEF Fill
      <3> HIDE DEF TxInv
      <3> QED BY <2>1, <3>1, <3>2 DEF Buffers
    <2>5. ring' \in [Desc -> Desc]
      BY <1>4, <2>1, <2>2, Zenon DEF Fill, TypeOK
    <2> QED BY <1>4, <2>3, <2>4, <2>5, Zenon DEF TypeOK, Fill, deviceVars, history
  <1>5. ASSUME NEW t \in Threads, Publish(t) PROVE TypeOK'
    BY <1>5, NextIdxType, Zenon DEF TypeOK, Publish, deviceVars, history
  <1>6. ASSUME NEW t \in Threads, Sample(t) PROVE TypeOK'
    BY <1>6, Zenon DEF TypeOK, Sample, history
  <1>7. ASSUME NEW t \in Threads, PollDone(t) PROVE TypeOK'
    <2>1. hdr_desc[t] \in Desc \ free
      BY <1>7, HeldDescs DEF PollDone
    <2> QED BY <1>7, <2>1, FreeDescEffect, Zenon DEF TypeOK, PollDone, deviceVars, history
  <1>8. ASSUME NEW t \in Threads, Return(t) PROVE TypeOK'
    <2>1. pkt_desc[t] \in Desc \ free
      BY <1>8, HeldDescs DEF Return
    <2>2. <<t, sends[t]>> \in Frames
      BY <1>8 DEF Return, Counted, Frames
    <2>3. returned' \in SUBSET Frames
      BY <1>8, <2>2, Zenon DEF Return, TypeOK
    <2>4. pc' \in [Threads -> {"idle", "claim_hdr", "claim_pkt", "fill",
                              "publish", "sample", "poll", "free_pkt"}]
      BY <1>8, Zenon DEF Return, TypeOK
    <2>5. free_desc(pkt_desc[t]) /\ TypeOK
      BY <1>8 DEF Return
    <2>6. /\ desc' \in [Desc -> [buf : Buffers, next : Desc]]
          /\ free' = free \cup {pkt_desc[t]} /\ panicked' = panicked
      BY <2>1, <2>5, FreeDescEffect
    <2>7. free' \in SUBSET Desc
      BY <2>1, <2>6, Zenon DEF TypeOK
    <2> QED BY <1>8, <2>3, <2>4, <2>6, <2>7, Zenon DEF TypeOK, Return, deviceVars
  <1>9. ASSUME Device PROVE TypeOK'
    <2>1. CASE DeviceTake
      BY <2>1, NextIdxType, Zenon DEF DeviceTake, TypeOK, kernelVars, threadVars,
                         history
    <2>2. CASE DeviceSend
      <3>1. used' \in 0 .. IdxMod - 1
        BY <2>2, NextIdxType, Zenon DEF DeviceSend, TypeOK
      <3>2. wire' \in Seq(Frames \cup {NoFrame, Garbage})
        <4> DEFINE S == Frames \cup {NoFrame, Garbage}
        <4>1. PICK e \in S : wire' = Append(wire, e)
          BY <2>2, Zenon DEF DeviceSend, TypeOK
        <4>2. wire \in Seq(S)
          BY Zenon DEF TypeOK
        <4> HIDE DEF S
        <4>3. Append(wire, e) \in Seq(S)
          BY <4>2
        <4> QED BY <4>1, <4>3 DEF S
      <3> QED BY <2>2, <3>1, <3>2, Zenon DEF DeviceSend, TypeOK, kernelVars, threadVars,
                         history
    <2>3. CASE DeviceIdle
      BY <2>3, Zenon DEF DeviceIdle, TypeOK, kernelVars, threadVars,
                         history
    <2> QED BY <1>9, <2>1, <2>2, <2>3 DEF Device
  <1>10. CASE UNCHANGED vars
    BY <1>10, Zenon DEF TypeOK, vars, kernelVars, threadVars, deviceVars, history
  <1> QED
    BY <1>1, <1>2, <1>3, <1>4, <1>5, <1>6, <1>7, <1>8, <1>9, <1>10
       DEF Next, transmit_packet

(* The lock is held by whoever is between acquire and release.             *)
LEMMA LockStep ==
  ASSUME TxInv, [Next]_vars
  PROVE  LockHeld'
  <1> USE DEF LockHeld, Locked
  <1>1. LockHeld /\ TypeOK
    BY DEF TxInv
  <1>2. pc \in [Threads -> {"idle", "claim_hdr", "claim_pkt", "fill",
                            "publish", "sample", "poll", "free_pkt"}]
    BY <1>1, Zenon DEF TypeOK
  <1>3. ASSUME NEW t \in Threads, Enter(t) PROVE LockHeld'
    BY <1>1, <1>2, <1>3, TxConstants, Zenon DEF Enter, Acquire
  <1>4. ASSUME NEW t \in Threads,
               ClaimHdr(t) \/ Fill(t) \/ Publish(t) \/ PollDone(t) \/ Return(t)
        PROVE  LockHeld'
    BY <1>1, <1>2, <1>4 DEF ClaimHdr, Fill, Publish, PollDone, Return
  <1>5. ASSUME NEW t \in Threads, ClaimPkt(t) \/ Sample(t) PROVE LockHeld'
    BY <1>1, <1>2, <1>5 DEF ClaimPkt, Sample
  <1>6. CASE Device
    BY <1>1, <1>6 DEF Device, DeviceTake, DeviceSend, DeviceIdle, kernelVars,
                      threadVars
  <1>7. CASE UNCHANGED vars
    BY <1>1, <1>7 DEF vars, kernelVars, threadVars
  <1> QED BY <1>3, <1>4, <1>5, <1>6, <1>7 DEF Next, transmit_packet

(* Every call of transmit_packet is counted before it does anything.       *)
LEMMA CountedStep ==
  ASSUME TxInv, [Next]_vars
  PROVE  Counted'
  <1> USE DEF Counted
  <1>1. /\ Counted /\ TypeOK
        /\ pc \in [Threads -> {"idle", "claim_hdr", "claim_pkt", "fill",
                               "publish", "sample", "poll", "free_pkt"}]
        /\ sends \in [Threads -> 0 .. MaxSends]
    BY Zenon DEF TxInv, TypeOK
  <1>2. ASSUME NEW t \in Threads, Enter(t) PROVE Counted'
    <2>1. /\ sends[t] < MaxSends /\ sends' = [sends EXCEPT ![t] = sends[t] + 1]
          /\ pc' = pc \/ pc' = [pc EXCEPT ![t] = "claim_hdr"]
      BY <1>2, Zenon DEF Enter
    <2> QED BY <1>1, <2>1, TxConstants
  <1>3. ASSUME NEW t \in Threads,
               \/ ClaimHdr(t) \/ ClaimPkt(t) \/ Fill(t) \/ Publish(t)
               \/ Sample(t) \/ PollDone(t) \/ Return(t)
        PROVE  Counted'
    <2>1. /\ pc[t] # "idle" /\ UNCHANGED sends
          /\ \E v : pc' = [pc EXCEPT ![t] = v]
      BY <1>3 DEF ClaimHdr, ClaimPkt, Fill, Publish, Sample, PollDone, Return
    <2> QED BY <1>1, <2>1
  <1>4. CASE Device
    BY <1>1, <1>4 DEF Device, DeviceTake, DeviceSend, DeviceIdle, threadVars
  <1>5. CASE UNCHANGED vars
    BY <1>1, <1>5 DEF vars, threadVars
  <1> QED BY <1>2, <1>3, <1>4, <1>5 DEF Next, transmit_packet

(* free_desc is only ever called on a descriptor its caller holds.         *)
LEMMA NeverFreesFreeStep ==
  ASSUME TxInv, [Next]_vars
  PROVE  NeverFreesFree'
  <1> USE DEF NeverFreesFree
  <1>1. NeverFreesFree /\ TypeOK
    BY Zenon DEF TxInv
  <1>2. ASSUME NEW t \in Threads, PollDone(t) PROVE NeverFreesFree'
    <2>1. hdr_desc[t] \in Desc \ free
      BY <1>2, HeldDescs DEF PollDone
    <2> QED BY <1>1, <1>2, <2>1, FreeDescEffect, Zenon DEF PollDone
  <1>3. ASSUME NEW t \in Threads, Return(t) PROVE NeverFreesFree'
    <2>1. pkt_desc[t] \in Desc \ free
      BY <1>3, HeldDescs DEF Return
    <2> QED BY <1>1, <1>3, <2>1, FreeDescEffect, Zenon DEF Return
  <1>4. ASSUME NEW t \in Threads,
               \/ Enter(t) \/ ClaimHdr(t) \/ ClaimPkt(t)
               \/ Fill(t) \/ Publish(t) \/ Sample(t)
        PROVE  NeverFreesFree'
    BY <1>1, <1>4, Zenon DEF Enter, ClaimHdr, ClaimPkt, Fill, Publish, Sample
  <1>5. CASE Device
    BY <1>1, <1>5, Zenon DEF Device, DeviceTake, DeviceSend, DeviceIdle, kernelVars
  <1>6. CASE UNCHANGED vars
    BY <1>1, <1>6, Zenon DEF vars, kernelVars
  <1> QED BY <1>2, <1>3, <1>4, <1>5, <1>6, Zenon DEF Next, transmit_packet

(* Between the scan and the claim only vnet_lock's holder could claim, and *)
(* free_desc only adds free descriptors.                                   *)
LEMMA FoundStep ==
  ASSUME TxInv, [Next]_vars
  PROVE  FoundStillFree'
  <1> USE DEF FoundStillFree
  <1>1. /\ FoundStillFree /\ LockHeld /\ TypeOK
        /\ pc \in [Threads -> {"idle", "claim_hdr", "claim_pkt", "fill",
                               "publish", "sample", "poll", "free_pkt"}]
        /\ hdr_desc \in [Threads -> Desc \cup {-1}]
        /\ pkt_desc \in [Threads -> Desc \cup {-1}]
    BY Zenon DEF TxInv, TypeOK
  <1>2. ASSUME NEW t \in Threads, Enter(t) PROVE FoundStillFree'
    BY <1>1, <1>2, Zenon DEF Enter, FirstFree
  <1>3. ASSUME NEW t \in Threads, ClaimHdr(t) PROVE FoundStillFree'
    <2>1. \A u \in Threads \ {t} : pc[u] \notin {"claim_hdr", "claim_pkt"}
      BY <1>1, <1>3 DEF ClaimHdr, LockHeld, Locked
    <2>2. pkt_desc'[t] \in free' \cup {-1} /\ pc' = [pc EXCEPT ![t] = "claim_pkt"]
      BY <1>1, <1>3 DEF ClaimHdr, FirstFree
    <2> QED BY <1>1, <2>1, <2>2
  <1>4. ASSUME NEW t \in Threads, ClaimPkt(t) PROVE FoundStillFree'
    <2>1. \A u \in Threads \ {t} : pc[u] \notin {"claim_hdr", "claim_pkt"}
      BY <1>1, <1>4 DEF ClaimPkt, LockHeld, Locked
    <2> QED BY <1>1, <1>4, <2>1 DEF ClaimPkt
  <1>5. ASSUME NEW t \in Threads, Fill(t) \/ Publish(t) \/ Sample(t)
        PROVE  FoundStillFree'
    BY <1>1, <1>5 DEF Fill, Publish, Sample
  <1>6. ASSUME NEW t \in Threads, PollDone(t) PROVE FoundStillFree'
    <2>1. hdr_desc[t] \in Desc \ free
      BY <1>6, HeldDescs DEF PollDone
    <2>2. free' = free \cup {hdr_desc[t]}
      BY <1>1, <1>6, <2>1, FreeDescEffect DEF PollDone
    <2> QED BY <1>1, <1>6, <2>2 DEF PollDone
  <1>7. ASSUME NEW t \in Threads, Return(t) PROVE FoundStillFree'
    <2>1. pkt_desc[t] \in Desc \ free
      BY <1>7, HeldDescs DEF Return
    <2>2. free' = free \cup {pkt_desc[t]}
      BY <1>1, <1>7, <2>1, FreeDescEffect DEF Return
    <2> QED BY <1>1, <1>7, <2>2 DEF Return
  <1>8. CASE Device
    BY <1>1, <1>8 DEF Device, DeviceTake, DeviceSend, DeviceIdle, kernelVars,
                      threadVars
  <1>9. CASE UNCHANGED vars
    BY <1>1, <1>9 DEF vars, kernelVars, threadVars
  <1> QED
    BY <1>2, <1>3, <1>4, <1>5, <1>6, <1>7, <1>8, <1>9 DEF Next, transmit_packet

(* What the threads hold stays disjoint and not free.                      *)
LEMMA OwnedStep ==
  ASSUME TxInv, [Next]_vars
  PROVE  DescriptorsOwned'
  <1>1. /\ DescriptorsOwned /\ FoundStillFree /\ TypeOK
        /\ pc \in [Threads -> {"idle", "claim_hdr", "claim_pkt", "fill",
                               "publish", "sample", "poll", "free_pkt"}]
        /\ hdr_desc \in [Threads -> Desc \cup {-1}]
        /\ pkt_desc \in [Threads -> Desc \cup {-1}]
        /\ free \subseteq Desc
    BY Zenon DEF TxInv, TypeOK
  <1>2. ASSUME NEW t \in Threads, Enter(t) PROVE DescriptorsOwned'
    <2>1. /\ pc[t] = "idle"
          /\ pc' = pc \/ pc' = [pc EXCEPT ![t] = "claim_hdr"]
          /\ \A u \in Threads \ {t} : hdr_desc'[u] = hdr_desc[u]
          /\ UNCHANGED <<free, pkt_desc>>
      BY <1>1, <1>2, Zenon DEF Enter
    <2>2. Holds(t)' = {} /\ \A u \in Threads \ {t} : Holds(u)' = Holds(u)
      BY <1>1, <2>1 DEF Holds
    <2> QED BY <1>1, <2>1, <2>2 DEF DescriptorsOwned
  <1>3. ASSUME NEW t \in Threads, ClaimHdr(t) PROVE DescriptorsOwned'
    <2>1. /\ pc[t] = "claim_hdr" /\ pc' = [pc EXCEPT ![t] = "claim_pkt"]
          /\ hdr_desc' = hdr_desc
          /\ \A u \in Threads \ {t} : pkt_desc'[u] = pkt_desc[u]
          /\ free' = free \ {hdr_desc[t]}
      BY <1>1, <1>3 DEF ClaimHdr, Claim
    <2>2. /\ Holds(t)' = {hdr_desc[t]} \ {-1}
          /\ \A u \in Threads \ {t} : Holds(u)' = Holds(u)
      BY <1>1, <2>1 DEF Holds
    <2>3. hdr_desc[t] \in free \cup {-1}
      BY <1>1, <2>1 DEF FoundStillFree
    <2> QED BY <1>1, <2>1, <2>2, <2>3 DEF DescriptorsOwned
  <1>4. ASSUME NEW t \in Threads, ClaimPkt(t) PROVE DescriptorsOwned'
    <2>1. /\ pc[t] = "claim_pkt"
          /\ UNCHANGED <<hdr_desc, pkt_desc>>
          /\ free' = free \ {pkt_desc[t]}
          /\ \/ pc' = [pc EXCEPT ![t] = "idle"]
             \/ /\ hdr_desc[t] # -1 /\ pkt_desc[t] # -1
                /\ pc' = [pc EXCEPT ![t] = "fill"]
      BY <1>4 DEF ClaimPkt, Claim
    <2>2. \A u \in Threads \ {t} : Holds(u)' = Holds(u)
      BY <1>1, <2>1 DEF Holds
    <2>3. /\ pkt_desc[t] \in free \cup {-1}
          /\ Holds(t) = {hdr_desc[t]} \ {-1}
      BY <1>1, <2>1, HoldsByPc DEF FoundStillFree
    <2>4. CASE pc' = [pc EXCEPT ![t] = "idle"]
      <3>1. Holds(t)' = {}
        BY <1>1, <2>4 DEF Holds
      <3> QED BY <1>1, <2>1, <2>2, <2>4, <3>1 DEF DescriptorsOwned
    <2>5. CASE /\ hdr_desc[t] # -1 /\ pkt_desc[t] # -1
               /\ pc' = [pc EXCEPT ![t] = "fill"]
      <3>1. Holds(t)' = {hdr_desc[t], pkt_desc[t]}
        BY <1>1, <2>1, <2>5 DEF Holds
      <3>2. hdr_desc[t] \in Desc \ free /\ pkt_desc[t] \in free
        BY <1>1, <2>3, <2>5 DEF DescriptorsOwned
      <3> QED BY <1>1, <2>1, <2>2, <2>3, <2>5, <3>1, <3>2 DEF DescriptorsOwned
    <2> QED BY <2>1, <2>4, <2>5
  <1>5. ASSUME NEW t \in Threads, Fill(t) \/ Publish(t) \/ Sample(t)
        PROVE  DescriptorsOwned'
    <2>1. /\ pc[t] \in {"fill", "publish", "sample"}
          /\ \E v \in {"publish", "sample", "poll"} : pc' = [pc EXCEPT ![t] = v]
          /\ UNCHANGED <<free, hdr_desc, pkt_desc>>
      BY <1>5 DEF Fill, Publish, Sample
    <2>2. \A u \in Threads : Holds(u)' = Holds(u)
      BY <1>1, <2>1 DEF Holds
    <2> QED BY <1>1, <2>1, <2>2 DEF DescriptorsOwned
  <1>6. ASSUME NEW t \in Threads, PollDone(t) PROVE DescriptorsOwned'
    <2>1. /\ pc[t] = "poll" /\ pc' = [pc EXCEPT ![t] = "free_pkt"]
          /\ UNCHANGED <<hdr_desc, pkt_desc>>
      BY <1>6 DEF PollDone
    <2>2. hdr_desc[t] \in Desc \ free /\ hdr_desc[t] # pkt_desc[t]
      BY <2>1, HeldDescs
    <2>3. free' = free \cup {hdr_desc[t]}
      BY <1>1, <1>6, <2>2, FreeDescEffect DEF PollDone
    <2>4. /\ Holds(t)' = {pkt_desc[t]}
          /\ Holds(t) = {hdr_desc[t], pkt_desc[t]}
          /\ \A u \in Threads \ {t} : Holds(u)' = Holds(u)
      BY <1>1, <2>1 DEF Holds
    <2> QED BY <1>1, <2>1, <2>2, <2>3, <2>4 DEF DescriptorsOwned
  <1>7. ASSUME NEW t \in Threads, Return(t) PROVE DescriptorsOwned'
    <2>1. /\ pc[t] = "free_pkt" /\ pc' = [pc EXCEPT ![t] = "idle"]
          /\ UNCHANGED <<hdr_desc, pkt_desc>>
      BY <1>7 DEF Return
    <2>2. pkt_desc[t] \in Desc \ free
      BY <2>1, HeldDescs
    <2>3. free' = free \cup {pkt_desc[t]}
      BY <1>1, <1>7, <2>2, FreeDescEffect DEF Return
    <2>4. /\ Holds(t)' = {} /\ Holds(t) = {pkt_desc[t]}
          /\ \A u \in Threads \ {t} : Holds(u)' = Holds(u)
      BY <1>1, <2>1 DEF Holds
    <2> QED BY <1>1, <2>1, <2>2, <2>3, <2>4 DEF DescriptorsOwned
  <1>8. CASE Device \/ UNCHANGED vars
    <2>1. UNCHANGED <<pc, free, hdr_desc, pkt_desc>>
      BY <1>8 DEF Device, DeviceTake, DeviceSend, DeviceIdle, kernelVars,
                  threadVars, vars
    <2> QED BY <1>1, <2>1 DEF DescriptorsOwned, Holds
  <1> QED
    BY <1>2, <1>3, <1>4, <1>5, <1>6, <1>7, <1>8 DEF Next, transmit_packet

(* A descriptor leaves free, the hands of a thread or lost only for one of *)
(* the other two.                                                          *)
LEMMA AccountedStep ==
  ASSUME TxInv, [Next]_vars
  PROVE  DescriptorsAccounted'
  <1>1. /\ DescriptorsAccounted /\ DescriptorsOwned /\ FoundStillFree /\ TypeOK
        /\ pc \in [Threads -> {"idle", "claim_hdr", "claim_pkt", "fill",
                               "publish", "sample", "poll", "free_pkt"}]
        /\ hdr_desc \in [Threads -> Desc \cup {-1}]
        /\ pkt_desc \in [Threads -> Desc \cup {-1}]
        /\ free \subseteq Desc /\ lost \subseteq Desc
    BY Zenon DEF TxInv, TypeOK
  <1>2. ASSUME NEW t \in Threads, Enter(t) PROVE DescriptorsAccounted'
    <2>1. /\ pc[t] = "idle"
          /\ pc' = pc \/ pc' = [pc EXCEPT ![t] = "claim_hdr"]
          /\ \A u \in Threads \ {t} : hdr_desc'[u] = hdr_desc[u]
          /\ UNCHANGED <<free, lost, pkt_desc>>
      BY <1>1, <1>2, Zenon DEF Enter
    <2>2. \A u \in Threads : Holds(u)' = Holds(u)
      BY <1>1, <2>1, Zenon DEF Holds
    <2> QED BY <1>1, <2>1, <2>2 DEF DescriptorsAccounted
  <1>3. ASSUME NEW t \in Threads, ClaimHdr(t) PROVE DescriptorsAccounted'
    <2>1. /\ pc[t] = "claim_hdr" /\ pc' = [pc EXCEPT ![t] = "claim_pkt"]
          /\ UNCHANGED <<hdr_desc, lost>>
          /\ \A u \in Threads \ {t} : pkt_desc'[u] = pkt_desc[u]
          /\ free' = free \ {hdr_desc[t]}
      BY <1>1, <1>3 DEF ClaimHdr, Claim, history
    <2>2. /\ Holds(t)' = {hdr_desc[t]} \ {-1} /\ Holds(t) = {}
          /\ \A u \in Threads \ {t} : Holds(u)' = Holds(u)
      BY <1>1, <2>1 DEF Holds
    <2>3. hdr_desc[t] \in free \cup {-1} /\ -1 \notin Desc
      BY <1>1, <2>1 DEF FoundStillFree, Desc
    <2> QED BY <1>1, <2>1, <2>2, <2>3 DEF DescriptorsAccounted
  <1>4. ASSUME NEW t \in Threads, ClaimPkt(t) PROVE DescriptorsAccounted'
    <2>1. /\ pc[t] = "claim_pkt"
          /\ UNCHANGED <<hdr_desc, pkt_desc>>
          /\ free' = free \ {pkt_desc[t]}
          /\ \/ /\ pc' = [pc EXCEPT ![t] = "idle"]
                /\ lost' = lost \cup ({hdr_desc[t], pkt_desc[t]} \ {-1})
             \/ /\ hdr_desc[t] # -1 /\ pkt_desc[t] # -1
                /\ pc' = [pc EXCEPT ![t] = "fill"] /\ lost' = lost
      BY <1>4 DEF ClaimPkt, Claim
    <2>2. \A u \in Threads \ {t} : Holds(u)' = Holds(u)
      BY <1>1, <2>1 DEF Holds
    <2>3. /\ pkt_desc[t] \in free \cup {-1} /\ -1 \notin Desc
          /\ Holds(t) = {hdr_desc[t]} \ {-1}
          /\ \A u \in Threads : pkt_desc[t] \notin Holds(u)
      BY <1>1, <2>1, HoldsByPc DEF FoundStillFree, Desc, DescriptorsOwned
    <2>4. CASE /\ pc' = [pc EXCEPT ![t] = "idle"]
               /\ lost' = lost \cup ({hdr_desc[t], pkt_desc[t]} \ {-1})
      <3>1. Holds(t)' = {}
        BY <1>1, <2>4 DEF Holds
      <3>2. /\ \A i \in Holds(t) : i \notin free
            /\ \A u \in Threads \ {t} : Holds(t) \cap Holds(u) = {}
        BY <1>1 DEF DescriptorsOwned
      <3> QED BY <1>1, <2>1, <2>2, <2>3, <2>4, <3>1, <3>2 DEF DescriptorsAccounted
    <2>5. CASE /\ hdr_desc[t] # -1 /\ pkt_desc[t] # -1
               /\ pc' = [pc EXCEPT ![t] = "fill"] /\ lost' = lost
      <3>1. Holds(t)' = {hdr_desc[t], pkt_desc[t]}
        BY <1>1, <2>1, <2>5 DEF Holds
      <3> QED BY <1>1, <2>1, <2>2, <2>3, <2>5, <3>1 DEF DescriptorsAccounted
    <2> QED BY <2>1, <2>4, <2>5
  <1>5. ASSUME NEW t \in Threads, Fill(t) \/ Publish(t) \/ Sample(t)
        PROVE  DescriptorsAccounted'
    <2>1. /\ pc[t] \in {"fill", "publish", "sample"}
          /\ \E v \in {"publish", "sample", "poll"} : pc' = [pc EXCEPT ![t] = v]
          /\ UNCHANGED <<free, lost, hdr_desc, pkt_desc>>
      BY <1>5 DEF Fill, Publish, Sample, history
    <2>2. \A u \in Threads : Holds(u)' = Holds(u)
      BY <1>1, <2>1 DEF Holds
    <2> QED BY <1>1, <2>1, <2>2 DEF DescriptorsAccounted
  <1>6. ASSUME NEW t \in Threads, PollDone(t) PROVE DescriptorsAccounted'
    <2>1. /\ pc[t] = "poll" /\ pc' = [pc EXCEPT ![t] = "free_pkt"]
          /\ UNCHANGED <<lost, hdr_desc, pkt_desc>>
      BY <1>6 DEF PollDone, history
    <2>2. hdr_desc[t] \in Desc \ free /\ hdr_desc[t] # pkt_desc[t]
      BY <2>1, HeldDescs
    <2>3. free' = free \cup {hdr_desc[t]}
      BY <1>1, <1>6, <2>2, FreeDescEffect DEF PollDone
    <2>4. /\ Holds(t)' = {pkt_desc[t]}
          /\ Holds(t) = {hdr_desc[t], pkt_desc[t]}
          /\ \A u \in Threads \ {t} : Holds(u)' = Holds(u)
      BY <1>1, <2>1 DEF Holds
    <2> QED BY <1>1, <2>1, <2>2, <2>3, <2>4 DEF DescriptorsAccounted
  <1>7. ASSUME NEW t \in Threads, Return(t) PROVE DescriptorsAccounted'
    <2>1. /\ pc[t] = "free_pkt" /\ pc' = [pc EXCEPT ![t] = "idle"]
          /\ UNCHANGED <<lost, hdr_desc, pkt_desc>>
      BY <1>7 DEF Return
    <2>2. pkt_desc[t] \in Desc \ free
      BY <2>1, HeldDescs
    <2>3. free' = free \cup {pkt_desc[t]}
      BY <1>1, <1>7, <2>2, FreeDescEffect DEF Return
    <2>4. /\ Holds(t)' = {} /\ Holds(t) = {pkt_desc[t]}
          /\ \A u \in Threads \ {t} : Holds(u)' = Holds(u)
      BY <1>1, <2>1 DEF Holds
    <2> QED BY <1>1, <2>1, <2>2, <2>3, <2>4 DEF DescriptorsAccounted
  <1>8. CASE Device \/ UNCHANGED vars
    <2>1. UNCHANGED <<pc, free, lost, hdr_desc, pkt_desc>>
      BY <1>8 DEF Device, DeviceTake, DeviceSend, DeviceIdle, kernelVars,
                  threadVars, history, vars
    <2> QED BY <1>1, <2>1 DEF DescriptorsAccounted, Holds
  <1> QED
    BY <1>2, <1>3, <1>4, <1>5, <1>6, <1>7, <1>8 DEF Next, transmit_packet

(* The strengthened invariant holds in every reachable state.              *)
THEOREM TxInvariant == Spec => []TxInv
  <1>1. TxInv /\ [Next]_vars => TxInv'
    BY TypeStep, LockStep, FoundStep, CountedStep, OwnedStep, AccountedStep,
       NeverFreesFreeStep DEF TxInv
  <1> QED BY InitTxInv, <1>1, PTL DEF Spec

(* The driver's state stays well typed: rings hold descriptor numbers and  *)
(* the indices stay uint16.                                                *)
THEOREM TxTypeCorrect == Spec => []TypeOK
  <1>1. TxInv => TypeOK
    BY DEF TxInv
  <1> QED BY TxInvariant, <1>1, PTL

(* No descriptor is ever in two chains, for any number of transmitters.    *)
THEOREM TxDescriptorsOwned == Spec => []DescriptorsOwned
  <1>1. TxInv => DescriptorsOwned
    BY DEF TxInv
  <1> QED BY TxInvariant, <1>1, PTL

(* The unlocked free_desc never panics with "free_desc 2".                 *)
THEOREM TxNeverFreesFree == Spec => []NeverFreesFree
  <1>1. TxInv => NeverFreesFree
    BY DEF TxInv
  <1> QED BY TxInvariant, <1>1, PTL

(* Exhaustion is the only way to lose a descriptor.                        *)
THEOREM TxDescriptorsAccounted == Spec => []DescriptorsAccounted
  <1>1. TxInv => DescriptorsAccounted
    BY DEF TxInv
  <1> QED BY TxInvariant, <1>1, PTL

-----------------------------------------------------------------------------
(* A call that overlaps no other sends its frame exactly once.  Each call  *)
(* keeps its header page, so that no more entries are ever published than  *)
(* there were pages: the ring indices count the entries without wrapping.  *)
Frame(t) == <<t, sends[t]>>

Preparing == {"claim_hdr", "claim_pkt", "fill", "publish"}

Indices ==
  /\ used = Len(wire)
  /\ last_avail = IF inflight = "none" THEN used ELSE used + 1
  /\ last_avail <= avail
  /\ avail + pages <= Pages
  /\ \A t \in Threads : pc[t] \in Preparing => avail + pages < Pages

(* A frame that was put in packet_buf or on the wire belongs to a call     *)
(* that has begun, and has got as far.                                     *)
Written(f) ==
  f \in Frames => /\ f[2] <= sends[f[1]]
                  /\ pc[f[1]] \in {"claim_hdr", "claim_pkt", "fill"} => f[2] < sends[f[1]]
Ended(f) ==
  /\ f \in Frames /\ f[2] <= sends[f[1]]
  /\ pc[f[1]] # "idle" => f[2] < sends[f[1]]

Numbered ==
  /\ \A k \in 1 .. Len(wire) : Written(wire[k])
  /\ Written(packet_buf)
  /\ \A f \in returned : Ended(f)
  /\ \A f \in alone : f \in Frames /\ f[2] <= sends[f[1]]
  /\ \A t \in Threads : pc[t] = "publish" => packet_buf = Frame(t)

NotSent(f) == \A k \in 1 .. Len(wire) : wire[k] # f

(* The i-th entry of the ring is the chain of t.                           *)
Chained(t, i) ==
  /\ ring[i % NUM] = hdr_desc[t]
  /\ desc[hdr_desc[t]].buf = "hdr" /\ desc[hdr_desc[t]].next = pkt_desc[t]
  /\ desc[pkt_desc[t]].buf = "packet_buf"

(* How far a call that is alone has got, and the device with its entry.    *)
RunsAlone(t) ==
  /\ \A u \in Threads : u # t => pc[u] = "idle"
  /\ pc[t] \in Preparing => used = avail /\ NotSent(Frame(t))
  /\ pc[t] = "publish" => Chained(t, avail)
  /\ pc[t] \in {"publish", "sample", "poll", "free_pkt"} => packet_buf = Frame(t)
  /\ pc[t] \in {"sample", "poll"} /\ used # avail =>
       /\ used + 1 = avail /\ NotSent(Frame(t))
       /\ inflight # "garbage"
       /\ inflight = "none" => Chained(t, used)
  /\ pc[t] \in {"sample", "poll", "free_pkt"} /\ used = avail => SentOnce(Frame(t))
  /\ pc[t] = "poll" => prev_used_idx[t] <= used /\ avail <= prev_used_idx[t] + 1
  /\ pc[t] = "free_pkt" => used = avail

AloneRunning == \A t \in Threads : pc[t] # "idle" /\ Frame(t) \in alone => RunsAlone(t)

(* Its frame, still in packet_buf, is with no entry of the device.         *)
AloneDone == \A f \in returned \cap alone : SentOnce(f) /\ (packet_buf = f => used = avail)

AloneInv == Indices /\ Numbered /\ AloneRunning /\ AloneDone

(* What TypeOK says of the numbers and of the wire.                        *)
LEMMA Numbers ==
  ASSUME TxInv
  PROVE  /\ avail \in Nat /\ used \in Nat /\ last_avail \in Nat /\ pages \in Nat /\ Pages \in Nat
         /\ prev_used_idx \in [Threads -> Nat] /\ sends \in [Threads -> 0 .. MaxSends]
         /\ pc = [u \in Threads |-> pc[u]] /\ Len(wire) \in Nat
<1> DEFINE S == Frames \cup {NoFrame, Garbage}
<1>1. TypeOK
  BY DEF TxInv
<1>2. wire \in Seq(S)
  BY <1>1, Zenon DEF TypeOK
<1> HIDE DEF S
<1>3. Len(wire) \in Nat
  BY <1>2
<1>4. pc = [u \in Threads |-> pc[u]] /\ sends \in [Threads -> 0 .. MaxSends]
  BY <1>1, Zenon DEF TypeOK
<1>5. /\ avail \in 0 .. IdxMod - 1 /\ used \in 0 .. IdxMod - 1 /\ last_avail \in 0 .. IdxMod - 1
      /\ pages \in Nat /\ prev_used_idx \in [Threads -> 0 .. IdxMod - 1]
  BY <1>1, Zenon DEF TypeOK
<1>6. IdxMod \in Nat /\ Pages \in Nat /\ 0 .. IdxMod - 1 \subseteq Nat
  BY TxConstants
<1> QED BY <1>3, <1>4, <1>5, <1>6

(* A frame that is appended to the wire.                                   *)
LEMMA OnWire ==
  ASSUME TypeOK, NEW f, NEW w \in Frames \cup {NoFrame, Garbage}, wire' = Append(wire, w)
  PROVE  /\ Len(wire') = Len(wire) + 1 /\ wire'[Len(wire) + 1] = w
         /\ \A k \in 1 .. Len(wire) : wire'[k] = wire[k]
         /\ w # f /\ SentOnce(f) => SentOnce(f)'
         /\ w # f /\ NotSent(f) => NotSent(f)'
         /\ w = f /\ NotSent(f) => SentOnce(f)'
<1> DEFINE S == Frames \cup {NoFrame, Garbage}
<1>0. wire \in Seq(S) /\ w \in S
  BY Zenon DEF TypeOK
<1> HIDE DEF S
<1>1. Len(wire) \in Nat
  BY <1>0
<1>2. /\ Len(wire') = Len(wire) + 1 /\ wire'[Len(wire) + 1] = w
      /\ \A k \in 1 .. Len(wire) : wire'[k] = wire[k]
  BY <1>0
<1>3. \A k : k \in 1 .. Len(wire') <=> k \in 1 .. Len(wire) \/ k = Len(wire) + 1
  BY <1>1, <1>2
<1>4. Len(wire) + 1 \notin 1 .. Len(wire)
  BY <1>1
<1>5. ASSUME w # f, SentOnce(f) PROVE SentOnce(f)'
  <2>1. PICK k \in 1 .. Len(wire) : \A j \in 1 .. Len(wire) : wire[j] = f <=> j = k
    BY <1>5 DEF SentOnce
  <2>2. k \in 1 .. Len(wire') /\ k # Len(wire) + 1
    BY <1>3, <1>4
  <2>3. \A j \in 1 .. Len(wire') : wire'[j] = f <=> j = k
    BY <1>2, <1>3, <1>5, <2>1, <2>2
  <2> QED BY <2>2, <2>3, Zenon DEF SentOnce
<1>6. ASSUME w # f, NotSent(f) PROVE NotSent(f)'
  BY <1>2, <1>3, <1>6 DEF NotSent
<1>7. ASSUME w = f, NotSent(f) PROVE SentOnce(f)'
  <2>1. \A j \in 1 .. Len(wire') : wire'[j] = f <=> j = Len(wire) + 1
    BY <1>2, <1>3, <1>4, <1>7 DEF NotSent
  <2>2. Len(wire) + 1 \in 1 .. Len(wire')
    BY <1>3
  <2> QED BY <2>1, <2>2 DEF SentOnce
<1> QED BY <1>2, <1>5, <1>6, <1>7, Zenon

(* The indices of the ring do not wrap.                                    *)
LEMMA NoWrap ==
  ASSUME Pages < IdxMod, NEW i \in Nat, i < Pages
  PROVE  NextIdx(i) = i + 1
<1>1. i + 1 \in 0 .. IdxMod - 1 /\ IdxMod \in Nat \ {0}
  BY TxConstants
<1>2. \A n \in Nat \ {0} : \A a \in 0 .. n - 1 : a % n = a
  OBVIOUS
<1> QED BY <1>1, <1>2 DEF NextIdx

(* A frame that is begun is neither on the wire nor returned nor alone.    *)
LEMMA AloneEnter ==
  ASSUME TxInv, AloneInv, NEW t \in Threads, Enter(t)
  PROVE  AloneInv'
<1> DEFINE new == <<t, sends[t] + 1>>
           running == {<<u, sends[u]>> : u \in {v \in Threads : pc[v] # "idle"}}
<1>1. /\ pc[t] = "idle" /\ sends[t] \in 0 .. MaxSends /\ sends[t] < MaxSends
      /\ sends' = [sends EXCEPT ![t] = @ + 1] /\ lock = NoThread
      /\ UNCHANGED <<avail, used, last_avail, inflight, wire, packet_buf, returned>>
      /\ sends \in [Threads -> 0 .. MaxSends] /\ pc = [u \in Threads |-> pc[u]]
  BY Numbers, Zenon DEF Enter, Acquire, deviceVars
<1>2. /\ pc' \in {pc, [pc EXCEPT ![t] = "claim_hdr"]}
      /\ pages \in Nat
      /\ IF pc' = pc THEN pages' = pages ELSE pages' = pages - 1 /\ pages' \in Nat
  <2>1. \/ pc' = pc /\ pages' = pages
        \/ pages # 0 /\ pages' = pages - 1 /\ pc' = [pc EXCEPT ![t] = "claim_hdr"]
    BY Zenon DEF Enter, KallocFails
  <2>2. [pc EXCEPT ![t] = "claim_hdr"] # pc
    BY <1>1
  <2>3. pages \in Nat
    BY Numbers
  <2> QED BY <2>1, <2>2, <2>3
<1>3. /\ sends'[t] = sends[t] + 1 /\ \A u \in Threads : u # t => sends'[u] = sends[u] /\ pc'[u] = pc[u]
      /\ \A u \in Threads : sends[u] <= sends'[u] /\ sends[u] \in Nat /\ sends'[u] \in Nat
      /\ pc'[t] \in {"idle", "claim_hdr"}
  BY <1>1, <1>2
<1>4. \A u \in Threads : pc[u] \notin Preparing
  BY <1>1, TxConstants DEF TxInv, LockHeld, Preparing, Locked
<1>5. Indices'
  <2>1. avail \in Nat /\ Pages \in Nat
    BY Numbers
  <2>2. avail + pages' <= Pages /\ (pc' # pc => avail + pages' < Pages)
    BY <1>2, <2>1 DEF AloneInv, Indices
  <2>3. \A u \in Threads : pc'[u] \in Preparing => pc' # pc
    BY <1>4
  <2> QED BY <1>1, <2>2, <2>3 DEF AloneInv, Indices
<1>6. \A f : f \in Frames => f[1] \in Threads /\ f[2] \in 1 .. MaxSends
  BY DEF Frames
<1>7. \A f : (Written(f) => Written(f)') /\ (Ended(f) => Ended(f)')
  <2> SUFFICES ASSUME NEW f \in Frames PROVE (Written(f) => Written(f)') /\ (Ended(f) => Ended(f)')
    BY DEF Written, Ended
  <2>1. f[1] \in Threads /\ f[2] \in Nat
    BY <1>6
  <2>2. f[2] <= sends[f[1]] => f[2] <= sends'[f[1]]
    BY <1>3, <2>1
  <2>3. f[1] = t /\ f[2] <= sends[f[1]] => f[2] < sends'[f[1]]
    BY <1>3, <2>1
  <2> QED BY <1>3, <2>1, <2>2, <2>3 DEF Written, Ended
<1>8. new \in Frames /\ alone' \in {alone \ running, (alone \ running) \cup {new}}
  <2>1. alone' = AloneAfter(t)
    BY Zenon DEF Enter
  <2>2. new \in Frames
    BY <1>1, TxConstants DEF Frames
  <2> QED BY <2>1, <2>2 DEF AloneAfter
<1>9. new \in alone' => running = {} /\ used = avail
  <2>1. alone' = AloneAfter(t)
    BY Zenon DEF Enter
  <2>2. new \notin alone
    <3>1. new[1] = t /\ new[2] = sends[t] + 1
      OBVIOUS
    <3> QED BY <1>1, <3>1 DEF AloneInv, Numbered
  <2> QED BY <2>1, <2>2 DEF AloneAfter
<1>10. Numbered'
  <2>1. \A f \in alone' : f \in Frames /\ f[2] <= sends'[f[1]]
    <3>1. ASSUME NEW f \in alone PROVE f \in Frames /\ f[2] <= sends'[f[1]]
      BY <1>3, <1>6 DEF AloneInv, Numbered
    <3>2. new[1] = t /\ new[2] = sends[t] + 1
      OBVIOUS
    <3>3. new \in Frames /\ new[2] <= sends'[new[1]]
      BY <1>1, <1>3, <1>8, <3>2
    <3> QED BY <1>8, <3>1, <3>3
  <2>2. \A u \in Threads : pc'[u] # "publish"
    BY <1>3, <1>4 DEF Preparing
  <2>3. (\A k \in 1 .. Len(wire) : Written(wire[k]))' /\ Written(packet_buf)'
    BY <1>1, <1>7 DEF AloneInv, Numbered
  <2>4. \A f \in returned' : Ended(f)'
    BY <1>1, <1>7 DEF AloneInv, Numbered
  <2> QED BY <2>1, <2>2, <2>3, <2>4 DEF Numbered
<1>11. AloneRunning'
  <2> SUFFICES ASSUME NEW u \in Threads, pc'[u] # "idle", <<u, sends'[u]>> \in alone'
               PROVE  RunsAlone(u)'
    BY DEF AloneRunning, Frame
  <2>1. CASE u = t
    <3>1. <<u, sends'[u]>> = new /\ pc'[t] = "claim_hdr"
      BY <1>3, <2>1
    <3>2. running = {} /\ used = avail
      BY <1>9, <3>1
    <3>3. \A v \in Threads : v # t => pc'[v] = "idle"
      BY <1>3, <3>2, Zenon
    <3>4. ASSUME NEW k \in 1 .. Len(wire) PROVE wire[k] # new
      <4>1. Written(wire[k])
        BY DEF AloneInv, Numbered
      <4>2. new[1] = t /\ new[2] = sends[t] + 1
        OBVIOUS
      <4>3. ~ Written(new)
        <5> HIDE DEF new
        <5> QED BY <1>1, <1>8, <4>2 DEF Written
      <4> QED BY <4>1, <4>3
    <3>5. used' = avail' /\ \A k \in 1 .. Len(wire') : wire'[k] # <<u, sends'[u]>>
      BY <1>1, <3>1, <3>2, <3>4
    <3> QED BY <2>1, <3>1, <3>3, <3>5 DEF RunsAlone, NotSent, Frame
  <2>2. CASE u # t
    <3>1. pc[u] # "idle" /\ sends'[u] = sends[u]
      BY <1>3, <2>2
    <3>2. <<u, sends[u]>> \in running /\ <<u, sends[u]>> # new
      BY <2>2, <3>1
    <3> QED BY <1>8, <3>1, <3>2
  <2> QED BY <2>1, <2>2
<1>12. AloneDone'
  <2>1. ASSUME NEW f \in returned PROVE f # new
    <3>1. f[2] <= sends[f[1]]
      BY DEF AloneInv, Numbered, Ended
    <3>2. new[1] = t /\ new[2] = sends[t] + 1
      OBVIOUS
    <3> QED BY <1>1, <3>1, <3>2
  <2> QED BY <1>1, <1>8, <2>1 DEF AloneInv, AloneDone, SentOnce
<1> QED BY <1>5, <1>10, <1>11, <1>12 DEF AloneInv

(* Of a step of a thread inside transmit_packet only its own call can be   *)
(* alone.                                                                  *)
LEMMA AloneOthers ==
  ASSUME TxInv, AloneInv, NEW t \in Threads, pc[t] # "idle", NEW l,
         pc' = [pc EXCEPT ![t] = l], UNCHANGED <<sends, alone>>,
         l # "idle" /\ Frame(t) \in alone => RunsAlone(t)'
  PROVE  AloneRunning'
<1> SUFFICES ASSUME NEW u \in Threads, pc'[u] # "idle", <<u, sends'[u]>> \in alone'
             PROVE  RunsAlone(u)'
  BY DEF AloneRunning, Frame
<1>1. CASE u = t
  BY <1>1, Zenon DEF Frame, TxInv, TypeOK
<1>2. CASE u # t
  <2>1. pc[u] # "idle" /\ Frame(u) \in alone
    BY <1>2, Zenon DEF Frame, TxInv, TypeOK
  <2>2. RunsAlone(u)
    BY <2>1 DEF AloneInv, AloneRunning
  <2> QED BY <1>2, <2>2, Zenon DEF RunsAlone
<1> QED BY <1>1, <1>2

(* What a step keeps that writes neither packet_buf nor the wire.          *)
LEMMA AloneNumbered ==
  ASSUME TxInv, AloneInv, NEW t \in Threads, pc[t] # "idle", NEW l,
         pc' = [pc EXCEPT ![t] = l], UNCHANGED <<sends, wire, packet_buf, alone, returned>>,
         l \in {"claim_hdr", "claim_pkt", "fill"} => pc[t] \in {"claim_hdr", "claim_pkt", "fill"},
         l # "publish"
  PROVE  Numbered'
<1>1. \A u \in Threads : IF u = t THEN pc'[u] = l ELSE pc'[u] = pc[u]
  BY Zenon DEF TxInv, TypeOK
<1>2. \A f : f \in Frames => f[1] \in Threads
  BY DEF Frames
<1>3. \A f : (Written(f) => Written(f)') /\ (Ended(f) => Ended(f)')
  BY <1>1, <1>2 DEF Written, Ended
<1>4. (\A k \in 1 .. Len(wire) : Written(wire[k]))' /\ Written(packet_buf)'
  BY <1>3 DEF AloneInv, Numbered
<1>5. \A f \in returned' : Ended(f)'
  BY <1>3 DEF AloneInv, Numbered
<1>6. \A u \in Threads : pc'[u] = "publish" => packet_buf' = Frame(u)'
  BY <1>1 DEF AloneInv, Numbered, Frame
<1> QED BY <1>4, <1>5, <1>6 DEF AloneInv, Numbered

(* A thread that prepares its entry is alone in that: it has the lock.     *)
LEMMA OnePrepares ==
  ASSUME TxInv, NEW t \in Threads, pc[t] \in Locked
  PROVE  \A u \in Threads : u # t => pc[u] \notin Locked
  BY DEF TxInv, LockHeld

(* A descriptor that was found is claimed.                                 *)
LEMMA AloneClaim ==
  ASSUME TxInv, AloneInv, NEW t \in Threads, ClaimHdr(t) \/ ClaimPkt(t)
  PROVE  AloneInv'
<1>1. PICK l \in {"claim_pkt", "fill", "idle"} : pc' = [pc EXCEPT ![t] = l]
  BY DEF ClaimHdr, ClaimPkt
<1>2. /\ pc[t] \in {"claim_hdr", "claim_pkt"}
      /\ UNCHANGED <<avail, used, last_avail, inflight, wire, packet_buf, pages, returned,
                     alone, sends>>
  BY DEF ClaimHdr, ClaimPkt, deviceVars, history
<1>3. pc[t] # "idle" /\ pc'[t] = l /\ \A u \in Threads : u # t => pc'[u] = pc[u]
  BY <1>1, <1>2, Zenon DEF TxInv, TypeOK
<1>4. Indices'
  BY <1>2, <1>3, Zenon DEF AloneInv, Indices, Preparing
<1>5. Numbered'
  BY <1>1, <1>2, <1>3, AloneNumbered, Zenon
<1>6. ASSUME l # "idle", Frame(t) \in alone PROVE RunsAlone(t)'
  <2>1. RunsAlone(t)
    BY <1>3, <1>6 DEF AloneInv, AloneRunning
  <2>2. used = avail /\ NotSent(Frame(t)) /\ \A u \in Threads : u # t => pc[u] = "idle"
    BY <1>2, <2>1 DEF RunsAlone, Preparing
  <2>3. used' = avail' /\ NotSent(Frame(t))' /\ \A u \in Threads : u # t => pc'[u] = "idle"
    BY <1>2, <1>3, <2>2 DEF NotSent, Frame
  <2> QED BY <1>3, <1>6, <2>3, Zenon DEF RunsAlone
<1>7. AloneRunning'
  BY <1>1, <1>2, <1>3, <1>6, AloneOthers, Zenon
<1>8. AloneDone'
  BY <1>2 DEF AloneInv, AloneDone, SentOnce
<1> QED BY <1>4, <1>5, <1>7, <1>8 DEF AloneInv

(* packet_buf is overwritten only by a thread whose frame is not sent yet. *)
LEMMA AloneFill ==
  ASSUME TxInv, AloneInv, NEW t \in Threads, Fill(t)
  PROVE  AloneInv'
<1>1. /\ pc[t] = "fill" /\ pc' = [pc EXCEPT ![t] = "publish"] /\ packet_buf' = Frame(t)
      /\ UNCHANGED <<avail, used, last_avail, inflight, wire, pages, returned, alone, sends,
                     hdr_desc, pkt_desc>>
  BY DEF Fill, deviceVars, history, Frame
<1>2. pc'[t] = "publish" /\ \A u \in Threads : u # t => pc'[u] = pc[u] /\ pc'[u] \notin Locked
  BY <1>1, OnePrepares, Zenon DEF TxInv, TypeOK, Locked
<1>3. Indices'
  BY <1>1, <1>2 DEF AloneInv, Indices, Preparing
<1>4. \A f : f \in Frames => f[1] \in Threads
  BY DEF Frames
<1>5. Numbered'
  <2>1. \A f : (Written(f) => Written(f)') /\ (Ended(f) => Ended(f)')
    BY <1>1, <1>2, <1>4 DEF Written, Ended
  <2>2. Written(packet_buf)'
    <3>1. packet_buf'[1] = t /\ packet_buf'[2] = sends[t] /\ sends[t] \in Nat
      BY <1>1, Numbers DEF Frame
    <3> QED BY <1>1, <1>2, <3>1 DEF Written
  <2>3. (\A k \in 1 .. Len(wire) : Written(wire[k]))'
    BY <1>1, <2>1 DEF AloneInv, Numbered
  <2>4. \A f \in returned' : Ended(f)'
    BY <1>1, <2>1 DEF AloneInv, Numbered
  <2>5. \A u \in Threads : pc'[u] = "publish" => packet_buf' = Frame(u)'
    BY <1>1, <1>2 DEF Frame, Locked
  <2> QED BY <1>1, <2>2, <2>3, <2>4, <2>5 DEF AloneInv, Numbered
<1>6. Chained(t, avail)'
  <2>1. hdr_desc[t] \in Desc /\ pkt_desc[t] \in Desc /\ hdr_desc[t] # pkt_desc[t]
    BY <1>1, HoldsByPc DEF TxInv, DescriptorsOwned
  <2>2. avail % NUM \in Desc
    BY SlotType, Zenon DEF TxInv, TypeOK
  <2>3. ring'[avail % NUM] = hdr_desc[t]
    BY <2>2, Zenon DEF Fill, TxInv, TypeOK
  <2>4. desc'[hdr_desc[t]] = [buf |-> "hdr", next |-> pkt_desc[t]]
    BY <2>1, Zenon DEF Fill, TxInv, TypeOK
  <2>5. desc'[pkt_desc[t]] = [desc[pkt_desc[t]] EXCEPT !.buf = "packet_buf"]
    BY <2>1, Zenon DEF Fill, TxInv, TypeOK
  <2>6. desc'[pkt_desc[t]].buf = "packet_buf"
    <3>1. desc[pkt_desc[t]] \in [buf : Buffers, next : Desc]
      BY <2>1, Zenon DEF TxInv, TypeOK
    <3> QED BY <2>5, <3>1
  <2> QED BY <1>1, <2>3, <2>4, <2>6 DEF Chained
<1>7. ASSUME Frame(t) \in alone PROVE RunsAlone(t)'
  <2>1. RunsAlone(t)
    BY <1>1, <1>7 DEF AloneInv, AloneRunning
  <2>2. used = avail /\ NotSent(Frame(t)) /\ \A u \in Threads : u # t => pc[u] = "idle"
    BY <1>1, <2>1 DEF RunsAlone, Preparing
  <2>3. /\ used' = avail' /\ NotSent(Frame(t))' /\ packet_buf' = Frame(t)'
        /\ \A u \in Threads : u # t => pc'[u] = "idle"
    BY <1>1, <1>2, <2>2 DEF NotSent, Frame
  <2> QED BY <1>2, <1>6, <2>3 DEF RunsAlone
<1>8. AloneRunning'
  BY <1>1, <1>7, AloneOthers, Zenon
<1>9. AloneDone'
  <2>1. ASSUME NEW f \in returned PROVE f # Frame(t)
    <3>1. Ended(f)
      BY DEF AloneInv, Numbered
    <3>2. Frame(t)[1] = t /\ Frame(t)[2] = sends[t] /\ sends[t] \in Nat
      BY Numbers DEF Frame
    <3> QED BY <1>1, <3>1, <3>2 DEF Ended
  <2> QED BY <1>1, <2>1 DEF AloneInv, AloneDone, SentOnce
<1> QED BY <1>3, <1>5, <1>8, <1>9 DEF AloneInv

(* The entry is published behind those the device has finished.            *)
LEMMA AlonePublish ==
  ASSUME TxInv, AloneInv, Pages < IdxMod, NEW t \in Threads, Publish(t)
  PROVE  AloneInv'
<1>1. /\ pc[t] = "publish" /\ pc' = [pc EXCEPT ![t] = "sample"] /\ avail' = NextIdx(avail)
      /\ UNCHANGED <<used, last_avail, inflight, wire, pages, packet_buf, returned, alone, sends,
                     ring, desc, hdr_desc, pkt_desc>>
  BY DEF Publish, deviceVars, history
<1>2. pc'[t] = "sample" /\ \A u \in Threads : u # t => pc'[u] = pc[u] /\ pc'[u] \notin Locked
  BY <1>1, OnePrepares, Zenon DEF TxInv, TypeOK, Locked
<1>3. /\ avail \in Nat /\ used \in Nat /\ last_avail \in Nat /\ pages \in Nat /\ Pages \in Nat
      /\ avail + pages < Pages
  BY <1>1, Numbers DEF AloneInv, Indices, Preparing
<1>4. avail' = avail + 1
  BY <1>1, <1>3, NoWrap
<1>5. Indices'
  <2>1. avail' + pages' <= Pages /\ last_avail' <= avail'
    BY <1>1, <1>3, <1>4 DEF AloneInv, Indices
  <2>2. \A u \in Threads : pc'[u] \notin Preparing
    BY <1>2 DEF Preparing, Locked
  <2> QED BY <1>1, <2>1, <2>2 DEF AloneInv, Indices
<1>6. Numbered'
  BY <1>1, AloneNumbered, Zenon
<1>7. ASSUME Frame(t) \in alone PROVE RunsAlone(t)'
  <2>1. RunsAlone(t)
    BY <1>1, <1>7 DEF AloneInv, AloneRunning
  <2>2. /\ used = avail /\ NotSent(Frame(t)) /\ Chained(t, used) /\ packet_buf = Frame(t)
        /\ \A u \in Threads : u # t => pc[u] = "idle"
    BY <1>1, <2>1 DEF RunsAlone, Preparing
  <2>3. inflight = "none"
    BY <1>3, <2>2 DEF AloneInv, Indices
  <2>4. /\ used' + 1 = avail' /\ used' # avail' /\ NotSent(Frame(t))' /\ packet_buf' = Frame(t)'
        /\ inflight' = "none" /\ \A u \in Threads : u # t => pc'[u] = "idle"
    BY <1>1, <1>2, <1>3, <1>4, <2>2, <2>3 DEF NotSent, Frame
  <2>5. Chained(t, used)'
    BY <1>1, <2>2, Zenon DEF Chained
  <2> QED BY <1>2, <2>4, <2>5 DEF RunsAlone, Preparing
<1>8. AloneRunning'
  BY <1>1, <1>7, AloneOthers, Zenon
<1>9. AloneDone'
  <2>1. packet_buf = Frame(t)
    BY <1>1 DEF AloneInv, Numbered
  <2>2. ASSUME NEW f \in returned PROVE f # Frame(t)
    <3>1. Ended(f)
      BY DEF AloneInv, Numbered
    <3>2. Frame(t)[1] = t /\ Frame(t)[2] = sends[t] /\ sends[t] \in Nat
      BY Numbers DEF Frame
    <3> QED BY <1>1, <3>1, <3>2 DEF Ended
  <2> QED BY <1>1, <2>1, <2>2 DEF AloneInv, AloneDone, SentOnce
<1> QED BY <1>5, <1>6, <1>8, <1>9 DEF AloneInv

(* The poll loop starts with the used index it reads.                      *)
LEMMA AloneSample ==
  ASSUME TxInv, AloneInv, NEW t \in Threads, Sample(t)
  PROVE  AloneInv'
<1>1. /\ pc[t] = "sample" /\ pc' = [pc EXCEPT ![t] = "poll"]
      /\ prev_used_idx' = [prev_used_idx EXCEPT ![t] = used]
      /\ UNCHANGED <<used, last_avail, inflight, wire, pages, packet_buf, returned, alone, sends,
                     avail, ring, desc, hdr_desc, pkt_desc>>
  BY DEF Sample, history
<1>2. /\ pc'[t] = "poll" /\ \A u \in Threads : u # t => pc'[u] = pc[u]
      /\ prev_used_idx'[t] = used /\ used \in Nat /\ avail \in Nat
  BY <1>1, Numbers
<1>3. Indices'
  BY <1>1, <1>2 DEF AloneInv, Indices, Preparing
<1>4. Numbered'
  BY <1>1, AloneNumbered, Zenon
<1>5. ASSUME Frame(t) \in alone PROVE RunsAlone(t)'
  <2>1. RunsAlone(t)
    BY <1>1, <1>5 DEF AloneInv, AloneRunning
  <2>2. Frame(t)' = Frame(t) /\ (NotSent(Frame(t))' <=> NotSent(Frame(t)))
        /\ (SentOnce(Frame(t))' <=> SentOnce(Frame(t))) /\ (Chained(t, used)' <=> Chained(t, used))
    BY <1>1, Zenon DEF Frame, NotSent, SentOnce, Chained
  <2>3. prev_used_idx'[t] <= used' /\ avail' <= prev_used_idx'[t] + 1
    BY <1>1, <1>2, <2>1 DEF RunsAlone
  <2> QED BY <1>1, <1>2, <2>1, <2>2, <2>3 DEF RunsAlone, Preparing
<1>6. AloneRunning'
  BY <1>1, <1>5, AloneOthers, Zenon
<1>7. AloneDone'
  BY <1>1 DEF AloneInv, AloneDone, SentOnce
<1> QED BY <1>3, <1>4, <1>6, <1>7 DEF AloneInv

(* A poll of a call that is alone ends with its own completion.            *)
LEMMA AlonePollDone ==
  ASSUME TxInv, AloneInv, NEW t \in Threads, PollDone(t)
  PROVE  AloneInv'
<1>1. /\ pc[t] = "poll" /\ pc' = [pc EXCEPT ![t] = "free_pkt"] /\ used # prev_used_idx[t]
      /\ UNCHANGED <<used, last_avail, inflight, wire, pages, packet_buf, returned, alone, sends,
                     avail>>
  BY DEF PollDone, Completed, deviceVars, history
<1>2. /\ pc'[t] = "free_pkt" /\ \A u \in Threads : u # t => pc'[u] = pc[u]
      /\ used \in Nat /\ avail \in Nat /\ prev_used_idx[t] \in Nat
  BY <1>1, Numbers
<1>3. Indices'
  BY <1>1, <1>2 DEF AloneInv, Indices, Preparing
<1>4. Numbered'
  BY <1>1, AloneNumbered, Zenon
<1>5. ASSUME Frame(t) \in alone PROVE RunsAlone(t)'
  <2>1. RunsAlone(t)
    BY <1>1, <1>5 DEF AloneInv, AloneRunning
  <2>2. used = avail
    BY <1>1, <1>2, <2>1 DEF RunsAlone
  <2>3. SentOnce(Frame(t)) /\ packet_buf = Frame(t) /\ \A u \in Threads : u # t => pc[u] = "idle"
    BY <1>1, <2>1, <2>2 DEF RunsAlone
  <2>4. /\ used' = avail' /\ SentOnce(Frame(t))' /\ packet_buf' = Frame(t)'
        /\ \A u \in Threads : u # t => pc'[u] = "idle"
    BY <1>1, <1>2, <2>2, <2>3, Zenon DEF Frame, SentOnce
  <2> QED BY <1>2, <2>4 DEF RunsAlone, Preparing
<1>6. AloneRunning'
  BY <1>1, <1>5, AloneOthers, Zenon
<1>7. AloneDone'
  BY <1>1 DEF AloneInv, AloneDone, SentOnce
<1> QED BY <1>3, <1>4, <1>6, <1>7 DEF AloneInv

(* The call returns; its frame was sent.                                   *)
LEMMA AloneReturn ==
  ASSUME TxInv, AloneInv, NEW t \in Threads, Return(t)
  PROVE  AloneInv'
<1>1. /\ pc[t] = "free_pkt" /\ pc' = [pc EXCEPT ![t] = "idle"]
      /\ returned' = returned \cup {Frame(t)}
      /\ UNCHANGED <<used, last_avail, inflight, wire, pages, packet_buf, alone, sends, avail>>
  BY DEF Return, Frame, deviceVars
<1>2. /\ pc'[t] = "idle" /\ \A u \in Threads : u # t => pc'[u] = pc[u]
      /\ sends[t] \in 1 .. MaxSends
  BY <1>1, Zenon DEF TxInv, TypeOK, Counted
<1>3. Indices'
  BY <1>1, <1>2, Zenon DEF AloneInv, Indices, Preparing
<1>4. Numbered'
  <2>1. \A f : f \in Frames => f[1] \in Threads
    BY DEF Frames
  <2>2. \A f : (Written(f) => Written(f)') /\ (Ended(f) => Ended(f)')
    BY <1>1, <1>2, <2>1 DEF Written, Ended
  <2>3. ASSUME NEW f, f = Frame(t) PROVE Ended(f)'
    <3>1. f \in Frames /\ f[1] = t /\ f[2] = sends[t] /\ sends[t] \in Nat
      BY <1>2, <2>3 DEF Frame, Frames
    <3> QED BY <1>1, <1>2, <3>1 DEF Ended
  <2>4. (\A k \in 1 .. Len(wire) : Written(wire[k]))' /\ Written(packet_buf)'
    BY <1>1, <2>2 DEF AloneInv, Numbered
  <2>5. \A f \in returned' : Ended(f)'
    BY <1>1, <2>2, <2>3 DEF AloneInv, Numbered
  <2>6. \A u \in Threads : pc'[u] = "publish" => packet_buf' = Frame(u)'
    BY <1>1, <1>2 DEF AloneInv, Numbered, Frame
  <2> QED BY <1>1, <2>4, <2>5, <2>6 DEF AloneInv, Numbered
<1>5. AloneRunning'
  BY <1>1, AloneOthers, Zenon
<1>6. AloneDone'
  <2>1. ASSUME Frame(t) \in alone PROVE SentOnce(Frame(t)) /\ used = avail
    <3>1. RunsAlone(t)
      BY <1>1, <2>1 DEF AloneInv, AloneRunning
    <3> QED BY <1>1, <3>1 DEF RunsAlone
  <2> QED BY <1>1, <2>1 DEF AloneInv, AloneDone, SentOnce
<1> QED BY <1>3, <1>4, <1>5, <1>6 DEF AloneInv

(* The entry the device takes is the chain of the call that is alone.      *)
LEMMA AloneTake ==
  ASSUME TxInv, AloneInv, Pages < IdxMod, DeviceTake
  PROVE  AloneInv'
<1>1. /\ inflight = "none" /\ last_avail # avail /\ last_avail' = NextIdx(last_avail)
      /\ inflight' \in {"packet_buf", "garbage"}
      /\ UNCHANGED <<pc, sends, hdr_desc, pkt_desc, prev_used_idx, desc, ring, avail, used, wire,
                     packet_buf, pages, returned, alone>>
  BY DEF DeviceTake, kernelVars, threadVars, history
<1>2. /\ avail \in Nat /\ used \in Nat /\ last_avail \in Nat /\ pages \in Nat /\ Pages \in Nat
      /\ last_avail = used /\ used < avail /\ avail <= Pages
  BY <1>1, Numbers DEF AloneInv, Indices
<1>3. last_avail' = used + 1
  BY <1>1, <1>2, NoWrap
<1>4. Indices'
  <2>1. last_avail' = (IF inflight' = "none" THEN used' ELSE used' + 1) /\ last_avail' <= avail'
    BY <1>1, <1>2, <1>3
  <2> QED BY <1>1, <2>1 DEF AloneInv, Indices
<1>5. Numbered'
  BY <1>1 DEF AloneInv, Numbered, Written, Ended, Frame
<1>6. AloneRunning'
  <2> SUFFICES ASSUME NEW t \in Threads, pc[t] # "idle", Frame(t) \in alone
               PROVE  RunsAlone(t)'
    BY <1>1, Zenon DEF AloneRunning, Frame
  <2>1. RunsAlone(t) /\ used # avail
    BY <1>2 DEF AloneInv, AloneRunning
  <2>2. pc[t] \in {"sample", "poll"} => inflight' = "packet_buf"
    <3>1. ASSUME Chained(t, used) PROVE inflight' = "packet_buf"
      BY <1>2, <3>1 DEF Chained, DeviceTake
    <3> QED BY <1>1, <2>1, <3>1, Zenon DEF RunsAlone
  <2>3. Frame(t)' = Frame(t) /\ (NotSent(Frame(t))' <=> NotSent(Frame(t)))
        /\ (SentOnce(Frame(t))' <=> SentOnce(Frame(t))) /\ (Chained(t, used)' <=> Chained(t, used))
        /\ (Chained(t, avail)' <=> Chained(t, avail))
    BY <1>1, Zenon DEF Frame, NotSent, SentOnce, Chained
  <2> QED BY <1>1, <2>1, <2>2, <2>3, Zenon DEF RunsAlone
<1>7. AloneDone'
  BY <1>1 DEF AloneInv, AloneDone, SentOnce
<1> QED BY <1>4, <1>5, <1>6, <1>7 DEF AloneInv

(* What the device sends is the frame of the call that is alone, for the   *)
(* first time.                                                             *)
LEMMA AloneSend ==
  ASSUME TxInv, AloneInv, Pages < IdxMod, DeviceSend
  PROVE  AloneInv'
<1>1. /\ inflight # "none" /\ used' = NextIdx(used) /\ inflight' = "none"
      /\ UNCHANGED <<pc, sends, hdr_desc, pkt_desc, prev_used_idx, desc, ring, avail, last_avail,
                     packet_buf, pages, returned, alone>>
  BY DEF DeviceSend, kernelVars, threadVars, history
<1>2. PICK w \in Frames \cup {NoFrame, Garbage} :
        /\ wire' = Append(wire, w)
        /\ w = IF inflight = "packet_buf" THEN packet_buf ELSE Garbage
  BY Zenon DEF DeviceSend, TxInv, TypeOK
<1>3. /\ avail \in Nat /\ used \in Nat /\ last_avail \in Nat /\ pages \in Nat /\ Pages \in Nat
      /\ last_avail = used + 1 /\ used < avail /\ avail <= Pages
  BY <1>1, Numbers DEF AloneInv, Indices
<1>4. used' = used + 1
  BY <1>1, <1>3, NoWrap
<1>5. /\ Len(wire') = Len(wire) + 1 /\ wire'[Len(wire) + 1] = w
      /\ \A k \in 1 .. Len(wire) : wire'[k] = wire[k]
  BY <1>2, OnWire DEF TxInv
<1>6. Garbage \notin Frames
  BY TxConstants DEF Garbage, Frames
<1>7. Indices'
  BY <1>1, <1>3, <1>4, <1>5 DEF AloneInv, Indices
<1>8. Numbered'
  <2>1. \A f : (Written(f) => Written(f)') /\ (Ended(f) => Ended(f)')
    BY <1>1 DEF Written, Ended
  <2>2. Written(w)
    BY <1>2, <1>6 DEF AloneInv, Numbered, Written
  <2>3. ASSUME NEW k \in 1 .. Len(wire') PROVE Written(wire'[k])
    <3>1. k \in 1 .. Len(wire) \/ k = Len(wire) + 1
      BY <1>5, Numbers
    <3> QED BY <1>5, <2>2, <3>1 DEF AloneInv, Numbered
  <2>4. (\A f \in returned' : Ended(f)') /\ Written(packet_buf)'
    BY <1>1, <2>1 DEF AloneInv, Numbered
  <2>5. \A u \in Threads : pc'[u] = "publish" => packet_buf' = Frame(u)'
    BY <1>1, Zenon DEF AloneInv, Numbered, Frame
  <2>6. (\A k \in 1 .. Len(wire) : Written(wire[k]))'
    BY <2>1, <2>3
  <2> QED BY <1>1, <2>4, <2>5, <2>6 DEF AloneInv, Numbered
<1>9. AloneRunning'
  <2> SUFFICES ASSUME NEW t \in Threads, pc[t] # "idle", Frame(t) \in alone
               PROVE  RunsAlone(t)'
    BY <1>1, Zenon DEF AloneRunning, Frame
  <2>1. RunsAlone(t) /\ used # avail
    BY <1>3 DEF AloneInv, AloneRunning
  <2>2. /\ pc[t] \in {"sample", "poll"} /\ packet_buf = Frame(t) /\ used + 1 = avail
        /\ NotSent(Frame(t)) /\ inflight # "garbage"
    BY <2>1, Zenon DEF RunsAlone, Preparing, TxInv, TypeOK
  <2>3. w = Frame(t)
    BY <1>1, <1>2, <2>2, Zenon DEF TxInv, TypeOK
  <2>4. PICK f : f = Frame(t)
    OBVIOUS
  <2>5. SentOnce(f)'
    BY <1>2, <2>2, <2>3, <2>4, OnWire, Zenon DEF TxInv
  <2>6. Frame(t)' = f /\ Frame(t) = f
    BY <1>1, <2>4, Zenon DEF Frame
  <2>7. pc[t] = "poll" => prev_used_idx[t] <= used' /\ avail <= prev_used_idx[t] + 1
    <3>1. pc[t] = "poll" => prev_used_idx[t] <= used /\ avail <= prev_used_idx[t] + 1
      BY <2>1 DEF RunsAlone
    <3>2. PICK n \in Nat : n = prev_used_idx[t]
      BY Numbers
    <3>3. n <= used => n <= used + 1
      BY <1>3
    <3> QED BY <1>4, <3>1, <3>2, <3>3
  <2> QED BY <1>1, <1>4, <2>1, <2>2, <2>5, <2>6, <2>7, Zenon DEF RunsAlone, Preparing, SentOnce
<1>10. AloneDone'
  <2> SUFFICES ASSUME NEW f \in returned \cap alone
               PROVE  SentOnce(f)' /\ packet_buf # f
    BY <1>1 DEF AloneDone
  <2>1. SentOnce(f) /\ packet_buf # f
    BY <1>3 DEF AloneInv, AloneDone
  <2>2. w # f
    BY <1>2, <1>6, <2>1, Zenon DEF TxInv, TypeOK
  <2> QED BY <1>2, <2>1, <2>2, OnWire DEF TxInv
<1> QED BY <1>7, <1>8, <1>9, <1>10 DEF AloneInv

(* A step that changes nothing the invariant looks at.                     *)
LEMMA AloneUnchanged ==
  ASSUME AloneInv,
         UNCHANGED <<pc, sends, hdr_desc, pkt_desc, prev_used_idx, desc, ring, avail, used,
                     last_avail, inflight, wire, packet_buf, pages, returned, alone>>
  PROVE  AloneInv'
<1>1. Indices'
  BY DEF AloneInv, Indices
<1>2. Numbered'
  BY Zenon DEF AloneInv, Numbered, Written, Ended, Frame
<1>3. AloneRunning'
  <2>1. \A t : /\ Frame(t)' = Frame(t) /\ (NotSent(Frame(t))' <=> NotSent(Frame(t)))
              /\ (SentOnce(Frame(t))' <=> SentOnce(Frame(t)))
              /\ (Chained(t, used)' <=> Chained(t, used))
              /\ (Chained(t, avail)' <=> Chained(t, avail))
    BY DEF Frame, NotSent, SentOnce, Chained
  <2>2. \A t : RunsAlone(t) => RunsAlone(t)'
    BY <2>1, Zenon DEF RunsAlone
  <2> QED BY <2>1, <2>2 DEF AloneInv, AloneRunning
<1>4. AloneDone'
  BY DEF AloneInv, AloneDone, SentOnce
<1> QED BY <1>1, <1>2, <1>3, <1>4 DEF AloneInv

(* At boot there is no call and the rings are empty.                       *)
LEMMA AloneInitial == Init => AloneInv
<1> SUFFICES ASSUME Init PROVE AloneInv
  OBVIOUS
<1>1. NoFrame \notin Frames
  BY TxConstants DEF NoFrame, Frames
<1>2. Indices
  BY TxConstants DEF Init, Indices, Preparing
<1>3. Numbered
  BY <1>1 DEF Init, Numbered, Written
<1>4. AloneRunning /\ AloneDone
  BY DEF Init, AloneRunning, AloneDone
<1> QED BY <1>2, <1>3, <1>4 DEF AloneInv

(* Every step keeps AloneInv.                                              *)
LEMMA AloneStep ==
  ASSUME Pages < IdxMod, TxInv, AloneInv, [Next]_vars
  PROVE  AloneInv'
<1>1. ASSUME NEW t \in Threads, transmit_packet(t) PROVE AloneInv'
  BY <1>1, AloneEnter, AloneClaim, AloneFill, AlonePublish, AloneSample, AlonePollDone, AloneReturn
     DEF transmit_packet
<1>2. CASE DeviceIdle
  BY <1>2, AloneUnchanged DEF DeviceIdle, kernelVars, threadVars, history
<1>3. CASE UNCHANGED vars
  BY <1>3, AloneUnchanged DEF vars, kernelVars, threadVars, deviceVars, history
<1> QED BY <1>1, <1>2, <1>3, AloneTake, AloneSend DEF Next, Device

(* A call of transmit_packet that overlaps no other has sent its frame     *)
(* when it returns, and sent it once, whatever calls before and after it   *)
(* overlap.  Fewer pages than ring indices: the header pages are never     *)
(* freed, and the kernel has 32768 pages for 65536 indices.                *)
THEOREM TxAloneIsSentOnce ==
  ASSUME Pages < IdxMod
  PROVE  Spec => []AloneIsSentOnce
<1>1. AloneInv => AloneIsSentOnce
  BY DEF AloneInv, AloneDone, AloneIsSentOnce
<1>2. TxInv /\ AloneInv /\ [Next]_vars => AloneInv'
  BY AloneStep
<1> QED BY <1>1, <1>2, AloneInitial, TxInvariant, PTL DEF Spec
=============================================================================
