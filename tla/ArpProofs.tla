------------------------------ MODULE ArpProofs ------------------------------
(* A datagram goes to the MAC address of the host it is for, with any number   *)
(* of hosts and any cache size, although arp_lookup and arp_insert share       *)
(* arp_cache without a lock.                                                   *)
EXTENDS Arp, TLAPS

(* How long a leaf may take: SMT first, then Zenon.                          *)
USE SMTT(20), ZenonT(30)

-----------------------------------------------------------------------------
(* The inductive invariant                                                    *)

Frames == [oper : {"request", "reply"}, spa : Hosts, tpa : Addr, dst : Hosts]
Labels == {"user", "lookup", "spin", "mac", "transmit"}

ArpType ==
  /\ arp_cache \in [Hosts -> [Slots -> Entry]]
  /\ network \in SUBSET Frames
  /\ pc \in [Hosts -> Labels]
  /\ from \in [Hosts -> Slots \cup {NoSlot}]
  /\ target \in [Hosts -> Addr]
  /\ dst_mac \in [Hosts -> Addr \X Addr]
  /\ rx \in [Hosts -> SUBSET Frames]
  /\ slot \in [Hosts -> Slots \cup {NoSlot}]

(* The valid entries are right.                                               *)
CacheRight ==
  \A h \in Hosts : \A i \in Slots :
    arp_cache[h][i].valid => arp_cache[h][i].mac = Mac(arp_cache[h][i].ip)

(* arp_insert is half way through the entry for the frame in hand.            *)
Inserting ==
  \A h \in Hosts :
    /\ rx[h] = {} => slot[h] = NoSlot
    /\ \A f \in rx[h] : /\ rx[h] = {f}
                        /\ slot[h] # NoSlot =>
                             /\ arp_cache[h][slot[h]].ip = f.spa
                             /\ arp_cache[h][slot[h]].mac[1] = f.spa

(* arp_lookup is half way through a valid entry for the target.               *)
Copying ==
  \A h \in Hosts : pc[h] = "mac" =>
    /\ from[h] \in Slots
    /\ arp_cache[h][from[h]].valid
    /\ arp_cache[h][from[h]].ip = target[h]
    /\ dst_mac[h][1] = target[h]

ArpInv == ArpType /\ CacheRight /\ Inserting /\ Copying /\ SentToTarget

-----------------------------------------------------------------------------
(* At boot the caches are empty and nobody is in the middle of anything.   *)
LEMMA ArpInit == Init => ArpInv
  <1> SUFFICES ASSUME Init PROVE ArpInv
    OBVIOUS
  <1>1. Empty \in Entry /\ \A h \in Hosts : [ip |-> h, mac |-> Mac(h), valid |-> TRUE] \in Entry
    BY DEF Empty, Entry, Addr, Mac
  <1>2. ArpType
    BY <1>1 DEF Init, ArpType, Labels, Addr, Mac
  <1>3. CacheRight
    BY DEF Init, CacheRight, Empty, Mac
  <1> QED
    BY <1>2, <1>3 DEF Init, ArpInv, Inserting, Copying, SentToTarget

(* Writing one half of a MAC address leaves the other.                        *)
LEMMA FirstHalf ==
  ASSUME NEW m \in Addr \X Addr, NEW a \in Addr
  PROVE  [m EXCEPT ![1] = a] = <<a, m[2]>>
  OBVIOUS

(* An address of which the second half was read has both.                  *)
LEMMA SecondHalf ==
  ASSUME NEW m \in Addr \X Addr, NEW a \in Addr
  PROVE  [m EXCEPT ![2] = a] = <<m[1], a>>
  OBVIOUS

(* A step of udp_sendto leaves the cache alone, one of arp_recv the sender.    *)
LEMMA RecvKept ==
  ASSUME ArpInv, UNCHANGED recvVars
  PROVE  CacheRight' /\ Inserting'
  BY DEF ArpInv, CacheRight, Inserting, recvVars

(* udp_sendto is called for some target.                                   *)
LEMMA CallStep ==
  ASSUME ArpInv, NEW h \in Hosts, Call(h)
  PROVE  ArpInv'
  <1> USE DEF Call
  <1>1. UNCHANGED recvVars
    OBVIOUS
  <1>2. PICK d \in Hosts : target' = [target EXCEPT ![h] = d]
    BY Zenon
  <1>3. ArpType'
    BY <1>1, <1>2 DEF ArpInv, ArpType, Labels, Addr, recvVars
  <1>4. Copying' /\ SentToTarget'
    BY <1>1, <1>2 DEF ArpInv, ArpType, Copying, SentToTarget, recvVars
  <1> QED
    BY <1>1, <1>3, <1>4, RecvKept DEF ArpInv

(* A lookup finds a valid entry and reads the first half of its address.   *)
LEMMA LookupHitStep ==
  ASSUME ArpInv, NEW h \in Hosts, LookupHit(h)
  PROVE  ArpInv'
  <1> USE DEF LookupHit
  <1>1. UNCHANGED recvVars /\ UNCHANGED <<arp_cache, target, network, rx, slot>>
    BY DEF recvVars
  <1>2. PICK i \in Slots :
          /\ Hit(h, target[h], i)
          /\ from' = [from EXCEPT ![h] = i]
          /\ dst_mac' = [dst_mac EXCEPT ![h][1] = arp_cache[h][i].mac[1]]
    BY Zenon
  <1>3. /\ arp_cache[h][i] \in Entry /\ arp_cache[h][i].valid
        /\ arp_cache[h][i].ip = target[h]
    BY <1>2 DEF Hit, ArpInv, ArpType
  <1>4. arp_cache[h][i].mac = Mac(target[h]) /\ target[h] \in Addr
    BY <1>3 DEF ArpInv, CacheRight, ArpType
  <1>5. arp_cache[h][i].mac[1] = target[h]
    BY <1>4 DEF Mac
  <1>6. dst_mac' = [dst_mac EXCEPT ![h] = <<target[h], dst_mac[h][2]>>]
    <2>1. [dst_mac[h] EXCEPT ![1] = target[h]] = <<target[h], dst_mac[h][2]>>
      BY <1>4, FirstHalf DEF ArpInv, ArpType
    <2> QED
      BY <1>2, <1>5, <2>1, Zenon
  <1>7. ArpType'
    <2>1. dst_mac' \in [Hosts -> Addr \X Addr]
      BY <1>4, <1>6 DEF ArpInv, ArpType
    <2>2. from' \in [Hosts -> Slots \cup {NoSlot}] /\ pc' \in [Hosts -> Labels]
      BY <1>2 DEF ArpInv, ArpType, Labels
    <2> QED
      BY <1>1, <2>1, <2>2 DEF ArpInv, ArpType
  <1>8. Copying'
    BY <1>1, <1>2, <1>3, <1>6 DEF ArpInv, ArpType, Copying
  <1>9. SentToTarget'
    BY <1>1, <1>6 DEF ArpInv, ArpType, SentToTarget
  <1> QED
    BY <1>1, <1>7, <1>8, <1>9, RecvKept DEF ArpInv

(* A lookup reads the second half: the address is that of the target.      *)
LEMMA LookupCopyStep ==
  ASSUME ArpInv, NEW h \in Hosts, LookupCopy(h)
  PROVE  ArpInv'
  <1> USE DEF LookupCopy
  <1>1. UNCHANGED recvVars /\ UNCHANGED <<arp_cache, target, from, network, rx, slot>>
    BY DEF recvVars
  <1>2. /\ from[h] \in Slots /\ arp_cache[h][from[h]].valid
        /\ arp_cache[h][from[h]].ip = target[h] /\ dst_mac[h][1] = target[h]
    BY DEF ArpInv, Copying
  <1>3. arp_cache[h][from[h]].mac = Mac(target[h]) /\ target[h] \in Addr
    BY <1>2 DEF ArpInv, CacheRight, ArpType
  <1>4. arp_cache[h][from[h]].mac[2] = target[h]
    BY <1>3 DEF Mac
  <1>5. dst_mac' = [dst_mac EXCEPT ![h] = Mac(target[h])]
    <2>1. [dst_mac[h] EXCEPT ![2] = target[h]] = <<target[h], target[h]>>
      BY <1>2, <1>3, SecondHalf DEF ArpInv, ArpType
    <2> QED
      BY <1>4, <2>1, Zenon DEF Mac
  <1>6. ArpType'
    BY <1>1, <1>3, <1>5 DEF ArpInv, ArpType, Labels, Mac
  <1>7. Copying' /\ SentToTarget'
    BY <1>1, <1>5 DEF ArpInv, ArpType, Copying, SentToTarget
  <1> QED
    BY <1>1, <1>6, <1>7, RecvKept DEF ArpInv

(* A lookup finds nothing and a request goes out.                          *)
LEMMA LookupMissStep ==
  ASSUME ArpInv, NEW h \in Hosts, LookupMiss(h)
  PROVE  ArpInv'
  <1> USE DEF LookupMiss
  <1>1. UNCHANGED recvVars /\ UNCHANGED <<arp_cache, target, from, dst_mac, rx, slot>>
    BY DEF recvVars
  <1>2. Requests(h, target[h]) \subseteq Frames
    BY DEF Requests, Frames, ArpInv, ArpType
  <1>3. ArpType'
    BY <1>1, <1>2 DEF ArpInv, ArpType, Labels
  <1>4. Copying' /\ SentToTarget'
    BY <1>1 DEF ArpInv, ArpType, Copying, SentToTarget
  <1> QED
    BY <1>1, <1>3, <1>4, RecvKept DEF ArpInv

(* The frame leaves for the address that was looked up.                    *)
LEMMA TransmitStep ==
  ASSUME ArpInv, NEW h \in Hosts, Transmit(h)
  PROVE  ArpInv'
  <1> USE DEF Transmit
  <1>1. UNCHANGED recvVars /\ UNCHANGED <<arp_cache, network, rx, slot>>
    BY DEF recvVars
  <1>2. ArpType'
    BY <1>1 DEF ArpInv, ArpType, Labels, Mac, Addr
  <1>3. Copying' /\ SentToTarget'
    BY <1>1 DEF ArpInv, ArpType, Copying, SentToTarget
  <1> QED
    BY <1>1, <1>2, <1>3, RecvKept DEF ArpInv

-----------------------------------------------------------------------------
(* arp_insert changes one entry, and a valid one only if it was right before.  *)
LEMMA InsertStep ==
  ASSUME ArpInv, NEW h \in Hosts, RecvInsert(h)
  PROVE  ArpInv'
  <1> USE DEF RecvInsert
  <1>1. UNCHANGED <<pc, from, target, dst_mac>> /\ rx[h] = {}
    BY DEF sendVars
  <1>2. PICK f \in network :
          /\ network' = network \ {f}
          /\ rx' = [rx EXCEPT ![h] = {f}]
          /\ \/ \E i \in Slots :
                  /\ InsertAt(h, f.spa, i)
                  /\ slot' = [slot EXCEPT ![h] = i]
                  /\ arp_cache' = [arp_cache EXCEPT ![h][i] = Partial(@, f.spa)]
             \/ UNCHANGED <<slot, arp_cache>>
    BY Zenon
  <1>3. f \in Frames /\ f.spa \in Hosts /\ rx' \in [Hosts -> SUBSET Frames]
        /\ network' \in SUBSET Frames
    BY <1>2 DEF ArpInv, ArpType, Frames
  <1>4. CASE UNCHANGED <<slot, arp_cache>>
    <2>1. ArpType'
      BY <1>1, <1>3, <1>4 DEF ArpInv, ArpType
    <2>2. Inserting'
      BY <1>1, <1>2, <1>4 DEF ArpInv, ArpType, Inserting
    <2> QED
      BY <1>1, <1>4, <2>1, <2>2 DEF ArpInv, CacheRight, Copying, SentToTarget
  <1>5. ASSUME NEW i \in Slots, InsertAt(h, f.spa, i), slot' = [slot EXCEPT ![h] = i],
               arp_cache' = [arp_cache EXCEPT ![h][i] = Partial(@, f.spa)]
        PROVE  ArpInv'
    <2> DEFINE e == arp_cache[h][i]
               n == [ip |-> f.spa, mac |-> <<f.spa, e.mac[2]>>, valid |-> e.valid]
    <2>1. e \in Entry /\ (e.ip = f.spa \/ ~e.valid)
      BY <1>5 DEF InsertAt, ArpInv, ArpType
    <2>2. n \in Entry
      BY <1>3, <2>1 DEF Entry, Addr
    <2>3. arp_cache' = [arp_cache EXCEPT ![h] = [arp_cache[h] EXCEPT ![i] = n]]
      BY <1>5 DEF Partial
    <2>4. e.valid => n = e
      <3> SUFFICES ASSUME e.valid PROVE n = e
        OBVIOUS
      <3>1. e.mac = Mac(e.ip) /\ e.ip = f.spa
        BY <2>1 DEF ArpInv, CacheRight
      <3>2. e.mac = <<f.spa, e.mac[2]>>
        BY <3>1 DEF Mac
      <3> QED
        BY <2>1, <3>1, <3>2, Zenon DEF Entry
    <2> HIDE DEF n
    <2>5. /\ arp_cache' \in [Hosts -> [Slots -> Entry]]
          /\ arp_cache'[h][i] = n
          /\ \A g \in Hosts, j \in Slots : g # h \/ j # i => arp_cache'[g][j] = arp_cache[g][j]
      BY <2>2, <2>3 DEF ArpInv, ArpType
    <2>6. \A g \in Hosts, j \in Slots : arp_cache[g][j].valid => arp_cache'[g][j] = arp_cache[g][j]
      BY <2>4, <2>5
    <2>7. n.valid = e.valid /\ n.ip = f.spa /\ n.mac[1] = f.spa
      BY DEF n
    <2>8. ArpType'
      BY <1>1, <1>3, <1>5, <2>5 DEF ArpInv, ArpType
    <2>9. CacheRight'
      BY <2>5, <2>6, <2>7 DEF ArpInv, CacheRight
    <2>10. Inserting'
      <3>1. slot \in [Hosts -> Slots \cup {NoSlot}] /\ rx \in [Hosts -> SUBSET Frames]
        BY DEF ArpInv, ArpType
      <3>2. slot'[h] = i /\ rx'[h] = {f}
        BY <1>2, <1>5, <3>1
      <3>3. \A g \in Hosts \ {h} : /\ slot'[g] = slot[g] /\ rx'[g] = rx[g]
                                   /\ slot[g] # NoSlot => slot[g] \in Slots
        BY <1>2, <1>5, <3>1
      <3>4. \A g \in Hosts \ {h}, j \in Slots : arp_cache'[g][j] = arp_cache[g][j]
        BY <2>5
      <3>5. Inserting
        BY DEF ArpInv
      <3> SUFFICES ASSUME NEW g \in Hosts
                   PROVE  /\ rx'[g] = {} => slot'[g] = NoSlot
                          /\ \A k \in rx'[g] :
                               /\ rx'[g] = {k}
                               /\ slot'[g] # NoSlot =>
                                    /\ arp_cache'[g][slot'[g]].ip = k.spa
                                    /\ arp_cache'[g][slot'[g]].mac[1] = k.spa
        BY DEF Inserting
      <3>6. CASE g = h
        BY <2>5, <2>7, <3>2, <3>6
      <3>7. CASE g # h
        <4>1. /\ slot'[g] = slot[g] /\ rx'[g] = rx[g]
              /\ slot[g] # NoSlot => arp_cache'[g][slot[g]] = arp_cache[g][slot[g]]
          BY <3>3, <3>4, <3>7
        <4>2. /\ rx[g] = {} => slot[g] = NoSlot
              /\ \A k \in rx[g] :
                   /\ rx[g] = {k}
                   /\ slot[g] # NoSlot => /\ arp_cache[g][slot[g]].ip = k.spa
                                         /\ arp_cache[g][slot[g]].mac[1] = k.spa
          BY <3>5, Zenon DEF Inserting
        <4> QED
          BY <4>1, <4>2, Zenon
      <3> QED
        BY <3>6, <3>7
    <2>11. Copying' /\ SentToTarget'
      BY <1>1, <2>6 DEF ArpInv, Copying, SentToTarget
    <2> QED
      BY <2>8, <2>9, <2>10, <2>11 DEF ArpInv
  <1> QED
    BY <1>2, <1>4, <1>5

(* The rest of arp_insert completes the entry before it is valid.              *)
LEMMA FinishStep ==
  ASSUME ArpInv, NEW h \in Hosts, RecvFinish(h)
  PROVE  ArpInv'
  <1>1. /\ UNCHANGED <<pc, from, target, dst_mac>>
        /\ rx' = [rx EXCEPT ![h] = {}] /\ slot' = [slot EXCEPT ![h] = NoSlot]
    BY DEF RecvFinish, sendVars
  <1>2. PICK f \in rx[h] :
          /\ arp_cache' =
               IF slot[h] = NoSlot THEN arp_cache
               ELSE [arp_cache EXCEPT ![h][slot[h]] = Complete(@, f.spa)]
          /\ network' \subseteq network \cup {[oper |-> "reply", spa |-> h, tpa |-> f.spa, dst |-> f.spa]}
    BY Zenon DEF RecvFinish
  <1>3. f \in Frames /\ f.spa \in Hosts
    BY DEF ArpInv, ArpType, Frames
  <1>4. /\ network' \in SUBSET Frames /\ rx' \in [Hosts -> SUBSET Frames]
        /\ slot' \in [Hosts -> Slots \cup {NoSlot}]
    BY <1>1, <1>2, <1>3 DEF ArpInv, ArpType, Frames, Addr
  <1>5. CASE slot[h] = NoSlot
    BY <1>1, <1>2, <1>4, <1>5 DEF ArpInv, ArpType, CacheRight, Inserting, Copying, SentToTarget
  <1>6. CASE slot[h] # NoSlot
    <2> DEFINE i == slot[h]
               e == arp_cache[h][i]
               n == [ip |-> f.spa, mac |-> Mac(f.spa), valid |-> TRUE]
    <2>1. i \in Slots /\ e \in Entry /\ e.ip = f.spa /\ e.mac[1] = f.spa /\ e.mac \in Addr \X Addr
      BY <1>6 DEF ArpInv, ArpType, Inserting, Entry
    <2>2. n \in Entry
      BY <1>3 DEF Entry, Addr, Mac
    <2>3. Complete(e, f.spa) = n
      BY <2>1 DEF Complete, Mac
    <2>4. arp_cache' = [arp_cache EXCEPT ![h] = [arp_cache[h] EXCEPT ![i] = n]]
      BY <1>2, <1>6, <2>3
    <2> HIDE DEF n
    <2>5. /\ arp_cache' \in [Hosts -> [Slots -> Entry]]
          /\ arp_cache'[h][i] = n
          /\ \A g \in Hosts, j \in Slots : g # h \/ j # i => arp_cache'[g][j] = arp_cache[g][j]
      BY <2>1, <2>2, <2>4 DEF ArpInv, ArpType
    <2>6. n.valid /\ n.ip = f.spa /\ n.mac = Mac(f.spa)
      BY DEF n
    <2>7. ArpType'
      BY <1>1, <1>4, <2>5 DEF ArpInv, ArpType
    <2>8. CacheRight'
      <3> SUFFICES ASSUME NEW g \in Hosts, NEW j \in Slots, arp_cache'[g][j].valid
                   PROVE  arp_cache'[g][j].mac = Mac(arp_cache'[g][j].ip)
        BY DEF CacheRight
      <3>1. CASE g = h /\ j = i
        BY <2>5, <2>6, <3>1
      <3>2. CASE g # h \/ j # i
        BY <2>5, <3>2 DEF ArpInv, CacheRight
      <3> QED
        BY <3>1, <3>2
    <2>9. Inserting'
      BY <1>1, <2>5 DEF ArpInv, ArpType, Inserting
    <2>10. Copying' /\ SentToTarget'
      <3>1. \A g \in Hosts, j \in Slots : arp_cache[g][j].valid =>
              arp_cache'[g][j].valid /\ arp_cache'[g][j].ip = arp_cache[g][j].ip
        BY <2>1, <2>5, <2>6
      <3> QED
        BY <1>1, <3>1 DEF ArpInv, Copying, SentToTarget
    <2> QED
      BY <2>7, <2>8, <2>9, <2>10 DEF ArpInv
  <1> QED
    BY <1>5, <1>6

-----------------------------------------------------------------------------
(* Every step keeps the invariant.                                         *)
LEMMA ArpStep == ArpInv /\ [Next]_vars => ArpInv'
  <1> SUFFICES ASSUME ArpInv, [Next]_vars PROVE ArpInv'
    OBVIOUS
  <1>1. ASSUME NEW h \in Senders, Call(h) \/ udp_sendto(h) PROVE ArpInv'
    BY <1>1, ArpConstants, CallStep, LookupHitStep, LookupCopyStep, LookupMissStep, TransmitStep
       DEF udp_sendto
  <1>2. ASSUME NEW h \in Hosts, arp_recv(h) PROVE ArpInv'
    BY <1>2, InsertStep, FinishStep DEF arp_recv
  <1>3. CASE Lose
    <2>1. network' \subseteq network /\ UNCHANGED <<sendVars, recvVars>>
      BY <1>3 DEF Lose
    <2> QED
      BY <2>1 DEF ArpInv, ArpType, CacheRight, Inserting, Copying, SentToTarget, sendVars, recvVars
  <1>4. CASE UNCHANGED vars
    BY <1>4 DEF vars, ArpInv, ArpType, CacheRight, Inserting, Copying, SentToTarget, sendVars,
       recvVars
  <1> QED
    BY <1>1, <1>2, <1>3, <1>4, Zenon DEF Next

(* udp_sendto addresses a datagram to the MAC of its target, whatever arp_recv *)
(* does to the cache meanwhile: arp_insert makes an entry valid last, never    *)
(* changes the address of a valid one, and the half of the MAC it rewrites in  *)
(* a valid entry is what was there.                                            *)
THEOREM ArpSentToTarget == Spec => []SentToTarget
  <1>1. Spec => []ArpInv
    BY ArpInit, ArpStep, PTL DEF Spec
  <1>2. ArpInv => SentToTarget
    BY DEF ArpInv
  <1> QED
    BY <1>1, <1>2, PTL

=============================================================================
