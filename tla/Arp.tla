-------------------------------- MODULE Arp --------------------------------
(***************************************************************************)
(* Address resolution (kernel/sys/arp.c) as udp_sendto uses it: hosts that *)
(* all run this kernel, on a network that delivers in any order and may    *)
(* lose frames.  A host may have a sender (a process in udp_sendto) and    *)
(* has the receive interrupt running arp_recv; both touch arp_cache without a  *)
(* lock.  A host's IP address is the host itself and its MAC address is    *)
(* <<h, h>>, two halves, because arp_insert and arp_lookup copy it a byte  *)
(* at a time.                                                              *)
(***************************************************************************)
EXTENDS Integers, FiniteSets, Functions

CONSTANTS
  Hosts,            \* the hosts of the network
  Senders,          \* the hosts with a process that calls udp_sendto
  Nobody,           \* no host: the IP of an entry never filled, no target
  ARP_CACHE_SIZE,   \* arp.h: 16
  MaxSends,         \* bound: calls of udp_sendto per host
  MaxLoss           \* bound: frames the network loses

ASSUME ArpConstants ==
  /\ Nobody \notin Hosts /\ Senders \subseteq Hosts
  /\ ARP_CACHE_SIZE \in Nat \ {0}
  /\ MaxSends \in Nat /\ MaxLoss \in Nat

Slots == 1 .. ARP_CACHE_SIZE
Mac(h) == <<h, h>>
Addr == Hosts \cup {Nobody}
Entry == [ip : Addr, mac : Addr \X Addr, valid : BOOLEAN]
Empty == [ip |-> Nobody, mac |-> Mac(Nobody), valid |-> FALSE]

NoSlot == 0

VARIABLES
  arp_cache,   \* per host and slot
  network,     \* frames in flight
  losses,      \* frames lost so far
  pc,          \* udp_sendto: "user", "lookup", "spin", "mac", "transmit"
  from,        \* udp_sendto: where a hit continues the copy of the MAC
  target,      \* udp_sendto: dst_ip
  dst_mac,     \* udp_sendto: the MAC it copied
  sends,       \* calls so far
  rx,          \* arp_recv: the frame in hand, one at most
  slot         \* arp_recv: the slot arp_insert is writing, or NoSlot

sendVars == <<pc, from, target, dst_mac, sends>>
recvVars == <<arp_cache, rx, slot>>
vars == <<sendVars, recvVars, network, losses>>

(* net_init has inserted the host's own address.                           *)
Init ==
  /\ arp_cache = [h \in Hosts |-> [i \in Slots |->
       IF i = 1 THEN [ip |-> h, mac |-> Mac(h), valid |-> TRUE] ELSE Empty]]
  /\ network = {} /\ losses = 0
  /\ pc = [h \in Hosts |-> "user"]
  /\ from = [h \in Hosts |-> NoSlot]
  /\ target = [h \in Hosts |-> Nobody]
  /\ dst_mac = [h \in Hosts |-> Mac(Nobody)]
  /\ sends = [h \in Hosts |-> 0]
  /\ rx = [h \in Hosts |-> {}]
  /\ slot = [h \in Hosts |-> NoSlot]

-----------------------------------------------------------------------------
(* The entry arp_lookup stops at: the first valid one for ip.              *)
Hit_ignores_valid(h, ip, i) ==
  LET match(j) == arp_cache[h][j].ip = ip
  IN  match(i) /\ \A j \in 1 .. i - 1 : ~match(j)
Hit(h, ip, i) ==
  LET match(j) == arp_cache[h][j].valid /\ arp_cache[h][j].ip = ip
  IN  match(i) /\ \A j \in 1 .. i - 1 : ~match(j)
Miss(h, ip) == \A i \in Slots : ~Hit(h, ip, i)

(* The slot arp_insert writes: the first that holds ip, valid or not, or   *)
(* is not valid.  A full cache has none and the answer is dropped.         *)
InsertAt(h, ip, i) ==
  LET usable(j) == arp_cache[h][j].ip = ip \/ ~arp_cache[h][j].valid
  IN  usable(i) /\ \A j \in 1 .. i - 1 : ~usable(j)

-----------------------------------------------------------------------------
Call(h) ==
  /\ pc[h] = "user" /\ sends[h] < MaxSends
  /\ sends' = [sends EXCEPT ![h] = @ + 1]
  /\ \E d \in Hosts : target' = [target EXCEPT ![h] = d]
  /\ pc' = [pc EXCEPT ![h] = "lookup"]
  /\ UNCHANGED <<from, dst_mac, recvVars, network, losses>>

(* arp_lookup finds the entry and copies the first half of its MAC.        *)
LookupHit(h) ==
  /\ pc[h] \in {"lookup", "spin"}
  /\ \E i \in Slots :
       /\ Hit(h, target[h], i)
       /\ from' = [from EXCEPT ![h] = i]
       /\ dst_mac' = [dst_mac EXCEPT ![h][1] = arp_cache[h][i].mac[1]]
  /\ pc' = [pc EXCEPT ![h] = "mac"]
  /\ UNCHANGED <<target, sends, recvVars, network, losses>>

(* The second half of the copy.                                            *)
LookupCopy(h) ==
  /\ pc[h] = "mac"
  /\ dst_mac' = [dst_mac EXCEPT ![h][2] = arp_cache[h][from[h]].mac[2]]
  /\ pc' = [pc EXCEPT ![h] = "transmit"]
  /\ UNCHANGED <<from, target, sends, recvVars, network, losses>>

Requests(h, ip) ==
  {[oper |-> "request", spa |-> h, tpa |-> ip, dst |-> d] : d \in Hosts \ {h}}
LookupMiss(h) ==
  /\ pc[h] = "lookup"
  /\ Miss(h, target[h])
  /\ network' = network \cup Requests(h, target[h])
  /\ pc' = [pc EXCEPT ![h] = "spin"]
  /\ UNCHANGED <<from, target, dst_mac, sends, recvVars, losses>>

(* The datagram goes out to dst_mac and udp_sendto returns.                *)
Transmit(h) ==
  /\ pc[h] = "transmit"
  /\ pc' = [pc EXCEPT ![h] = "user"]
  /\ dst_mac' = [dst_mac EXCEPT ![h] = Mac(Nobody)]
  /\ target' = [target EXCEPT ![h] = Nobody]
  /\ from' = [from EXCEPT ![h] = NoSlot]
  /\ UNCHANGED <<sends, recvVars, network, losses>>

-----------------------------------------------------------------------------
Partial(e, spa) == [ip |-> spa, mac |-> <<spa, e.mac[2]>>, valid |-> e.valid]
Complete(e, spa) == [ip |-> e.ip, mac |-> <<e.mac[1], spa>>, valid |-> TRUE]

(* arp_recv takes a frame.  Whatever the target, a request teaches the     *)
(* sender's address; a full cache stores nothing.                          *)
RecvInsert(h) ==
  /\ rx[h] = {}
  /\ \E f \in network :
       /\ f.dst = h
       /\ network' = network \ {f}
       /\ rx' = [rx EXCEPT ![h] = {f}]
       /\ \/ \E i \in Slots :
               /\ InsertAt(h, f.spa, i)
               /\ slot' = [slot EXCEPT ![h] = i]
               /\ arp_cache' = [arp_cache EXCEPT ![h][i] = Partial(@, f.spa)]
          \/ /\ \A i \in Slots : ~InsertAt(h, f.spa, i)
             /\ UNCHANGED <<slot, arp_cache>>
  /\ UNCHANGED <<sendVars, losses>>

(* The rest of arp_insert, then the reply if the request was for this host. *)
MustReply_to_itself(h, f) == f.oper = "request" /\ f.spa = h
MustReply(h, f) == f.oper = "request" /\ f.tpa = h
RecvFinish(h) ==
  /\ \E f \in rx[h] :
       /\ arp_cache' =
            IF slot[h] = NoSlot THEN arp_cache
            ELSE [arp_cache EXCEPT ![h][slot[h]] = Complete(@, f.spa)]
       /\ \/ /\ MustReply(h, f)
             /\ network' = network \cup {[oper |-> "reply", spa |-> h,
                                          tpa |-> f.spa, dst |-> f.spa]}
          \/ /\ ~MustReply(h, f)
             /\ UNCHANGED network
  /\ rx' = [rx EXCEPT ![h] = {}]
  /\ slot' = [slot EXCEPT ![h] = NoSlot]
  /\ UNCHANGED <<sendVars, losses>>

Lose ==
  /\ losses < MaxLoss
  /\ losses' = losses + 1
  /\ \E f \in network : network' = network \ {f}
  /\ UNCHANGED <<sendVars, recvVars>>

-----------------------------------------------------------------------------
udp_sendto(h) == LookupHit(h) \/ LookupCopy(h) \/ LookupMiss(h) \/ Transmit(h)
arp_recv(h) == RecvInsert(h) \/ RecvFinish(h)

Next ==
  \/ \E h \in Senders : Call(h) \/ udp_sendto(h)
  \/ \E h \in Hosts : arp_recv(h)
  \/ Lose

Spec == Init /\ [][Next]_vars

(* A process in udp_sendto is scheduled again and again, and a frame the   *)
(* network keeps is delivered and handled.                                 *)
Fairness ==
  /\ \A h \in Senders : WF_vars(udp_sendto(h))
  /\ \A h \in Hosts : WF_vars(arp_recv(h))

FairSpec == Spec /\ Fairness

-----------------------------------------------------------------------------
(* A datagram is addressed to the MAC of the host it is for, although      *)
(* arp_lookup may read an entry while arp_insert writes it on another CPU: *)
(* the entry becomes valid last.                                           *)
SentToTarget ==
  \A h \in Hosts : pc[h] = "transmit" => dst_mac[h] = Mac(target[h])

(* sendto gets past address resolution and returns, unless a frame was     *)
(* lost or the cache of the host is full of other addresses: the request   *)
(* is sent once and the loop that waits for the answer has no timeout.     *)
SendtoReturnsUnlessLost ==
  \A h \in Hosts :
    pc[h] # "user"
      ~> \/ pc[h] = "user"
         \/ losses > 0
         \/ \A i \in Slots : arp_cache[h][i].valid
=============================================================================
