----------------------------- MODULE UdpSocket -----------------------------
(***************************************************************************)
(* UDP sockets: udp_bind, udp_recvfrom and the socket's receive queue      *)
(* (kernel/sys/udp.c, kernel/sys/socket.c), used by processes, and         *)
(* handle_udp_packet, run by the receive interrupt for each datagram that  *)
(* parsed.  A datagram is <<n, port>>: the n-th to arrive and its          *)
(* destination port; its frame is the page handle_ip4_packet allocated.    *)
(* What the n-th frame says of its lengths is Wire[n], which handle_packet *)
(* (Packets.tla) accepts or not.                                           *)
(*                                                                         *)
(* A section under sock->lock or port_binds_lock is one step.  What the    *)
(* code does between two sections is interleaved: the check of the port    *)
(* table in udp_bind is made without the lock, and the interrupt finds the *)
(* socket under one lock and queues under another.  Memory does not run    *)
(* out here: the failure of kalloc is not tested by handle_ip4_packet.     *)
(***************************************************************************)
EXTENDS Packets, Sequences, Functions

CONSTANTS
  Procs,              \* processes (or threads) using sockets
  Socks,              \* sockets made by sys_socket with IPPROTO_UDP
  SockOf,             \* the socket each process uses; forks share one
  NoSock,             \* an empty entry of udp_port_binds
  MAX_PORT_BINDINGS,  \* socket.h: 512
  Wire,               \* the frames that arrive
  MaxCalls            \* bound: recvfrom calls per process

ASSUME UdpConstants ==
  /\ SockOf \in [Procs -> Socks]
  /\ NoSock \notin Socks
  /\ MAX_PORT_BINDINGS \in Nat \ {0}
  /\ Wire \in Seq(Range(Wire))
  /\ MaxCalls \in Nat

MaxPkts == Len(Wire)

PortNumbers == 0 .. MAX_PORT_BINDINGS      \* the last one is out of range
Ports == 0 .. MAX_PORT_BINDINGS - 1        \* indices of udp_port_binds
Pkts == (1 .. MaxPkts) \X PortNumbers
NoPkt == <<0, 0>>                          \* a null pointer

VARIABLES
  udp_port_binds,   \* port |-> socket
  src_port, state,  \* sock->src_port, sock->state
  rx_head, rx_tail, \* of each socket: the ends of its list of frames
  next,             \* pkt->next of each frame
  pc, port, pkt,    \* each process: where it is, the port it binds, the
                    \* frame it dequeued
  calls, killed,    \* recvfrom calls so far; p->killed
  hpkt, hsock,      \* handle_udp_packet: its frame, the socket it found
  arrived,          \* datagrams so far
  live,             \* frames whose page is allocated
  undelivered,      \* history: frames that were dropped
  enqueued, taken   \* history: per socket, frames queued and dequeued

procVars == <<pc, port, pkt, calls, killed>>
sockVars == <<udp_port_binds, src_port, state>>
listVars == <<rx_head, rx_tail, next>>
vars == <<sockVars, procVars, listVars, hpkt, hsock, arrived, live, undelivered,
          enqueued, taken>>

Init ==
  /\ udp_port_binds = [q \in Ports |-> NoSock]
  /\ src_port = [s \in Socks |-> 0]
  /\ state = [s \in Socks |-> "CLOSED"]
  /\ rx_head = [s \in Socks |-> NoPkt]
  /\ rx_tail = [s \in Socks |-> NoPkt]
  /\ next = [d \in Pkts |-> NoPkt]             \* handle_ip4_packet clears the page
  /\ pc = [p \in Procs |-> "user"]
  /\ port = [p \in Procs |-> 0]
  /\ pkt = [p \in Procs |-> NoPkt]
  /\ calls = [p \in Procs |-> 0]
  /\ killed = [p \in Procs |-> FALSE]
  /\ hpkt = NoPkt /\ hsock = NoSock
  /\ arrived = 0
  /\ live = {} /\ undelivered = {}
  /\ enqueued = [s \in Socks |-> <<>>]
  /\ taken = [s \in Socks |-> <<>>]

-----------------------------------------------------------------------------
(* The checks of udp_bind on the port; the table is read without the lock. *)
PortIsFree(q) ==
  /\ q > 0 /\ q < MAX_PORT_BINDINGS
  /\ udp_port_binds[q] = NoSock

BindCheck(p) ==
  /\ pc[p] = "user" /\ ~killed[p]
  /\ \E q \in PortNumbers :
       /\ PortIsFree(q)
       /\ port' = [port EXCEPT ![p] = q]
  /\ pc' = [pc EXCEPT ![p] = "binding"]
  /\ UNCHANGED <<sockVars, pkt, calls, killed, listVars, hpkt, hsock, arrived,
                 live, undelivered, enqueued, taken>>

(* insert_port_binding overwrites the entry under port_binds_lock.         *)
BindInsert(p) ==
  /\ pc[p] = "binding"
  /\ udp_port_binds' = [udp_port_binds EXCEPT ![port[p]] = SockOf[p]]
  /\ pc' = [pc EXCEPT ![p] = "inserted"]
  /\ UNCHANGED <<src_port, state, port, pkt, calls, killed, listVars, hpkt, hsock,
                 arrived, live, undelivered, enqueued, taken>>

(* Then udp_bind records port and state in the socket and returns 0.  The  *)
(* port is kept in the order of the host: ntohs was applied to it before.  *)
BindRecord(p) ==
  /\ pc[p] = "inserted"
  /\ src_port' = [src_port EXCEPT ![SockOf[p]] = port[p]]
  /\ state' = [state EXCEPT ![SockOf[p]] = "BOUND"]
  /\ pc' = [pc EXCEPT ![p] = "user"]
  /\ UNCHANGED <<udp_port_binds, port, pkt, calls, killed, listVars, hpkt, hsock,
                 arrived, live, undelivered, enqueued, taken>>

-----------------------------------------------------------------------------
RecvCall(p) ==
  /\ pc[p] = "user" /\ ~killed[p] /\ calls[p] < MaxCalls
  /\ calls' = [calls EXCEPT ![p] = @ + 1]
  /\ pc' = [pc EXCEPT ![p] = "recv"]
  /\ UNCHANGED <<sockVars, port, pkt, killed, listVars, hpkt, hsock, arrived, live,
                 undelivered, enqueued, taken>>

(* udp_recvfrom under sock->lock: an empty queue puts the caller to sleep  *)
(* (killed or not, the loop only looks at rx_head), otherwise              *)
(* dequeue_udp_packet takes the first frame.                               *)
RecvSleep(p) ==
  /\ pc[p] = "recv"
  /\ rx_head[SockOf[p]] = NoPkt
  /\ pc' = [pc EXCEPT ![p] = "asleep"]
  /\ UNCHANGED <<sockVars, port, pkt, calls, killed, listVars, hpkt, hsock,
                 arrived, live, undelivered, enqueued, taken>>

(* Mutant: the frame stays where it is. *)
dequeue_udp_packet_keeps(s) == UNCHANGED <<rx_head, rx_tail>>

dequeue_udp_packet(s) ==
  LET rest == next[rx_head[s]] IN
  /\ rx_head' = [rx_head EXCEPT ![s] = rest]
  /\ rx_tail' = [rx_tail EXCEPT ![s] = IF rest = NoPkt THEN NoPkt ELSE @]

RecvDequeue(p) ==
  LET s == SockOf[p] IN
  /\ pc[p] = "recv"
  /\ rx_head[s] # NoPkt
  /\ dequeue_udp_packet(s)
  /\ pkt' = [pkt EXCEPT ![p] = rx_head[s]]
  /\ taken' = [taken EXCEPT ![s] = Append(@, rx_head[s])]
  /\ pc' = [pc EXCEPT ![p] = "copyout"]
  /\ UNCHANGED <<sockVars, port, calls, killed, next, hpkt, hsock, arrived,
                 live, undelivered, enqueued>>

(* copyout and kfree(pkt), on the error path as on the other one.          *)
RecvReturn(p) ==
  /\ pc[p] = "copyout"
  /\ live' = live \ {pkt[p]}
  /\ pkt' = [pkt EXCEPT ![p] = NoPkt]
  /\ pc' = [pc EXCEPT ![p] = "user"]
  /\ UNCHANGED <<sockVars, port, calls, killed, listVars, hpkt, hsock, arrived,
                 undelivered, enqueued, taken>>

(* kill(pid): sets killed and makes a sleeper runnable (proc.c).           *)
Kill(p) ==
  /\ ~killed[p] /\ pc[p] # "exited"
  /\ killed' = [killed EXCEPT ![p] = TRUE]
  /\ pc' = [pc EXCEPT ![p] = IF @ = "asleep" THEN "recv" ELSE @]
  /\ UNCHANGED <<sockVars, port, pkt, calls, listVars, hpkt, hsock, arrived, live,
                 undelivered, enqueued, taken>>

(* exit, by the process's choice or because usertrap finds it killed.  It  *)
(* closes the descriptor, and udp_close does nothing: the socket keeps its *)
(* port, its queue and its frames.                                         *)
Exit(p) ==
  /\ pc[p] = "user"
  /\ pc' = [pc EXCEPT ![p] = "exited"]
  /\ UNCHANGED <<sockVars, port, pkt, calls, killed, listVars, hpkt, hsock,
                 arrived, live, undelivered, enqueued, taken>>

-----------------------------------------------------------------------------
(* A datagram parsed: handle_udp_packet checks the port and finds the      *)
(* socket under port_binds_lock.  A frame nobody takes stays allocated.    *)
IsBound(q) == q < MAX_PORT_BINDINGS /\ udp_port_binds[q] # NoSock
HandleLookup ==
  /\ hpkt = NoPkt /\ arrived < MaxPkts
  /\ arrived' = arrived + 1
  /\ handle_packet(Wire[arrived']) # Failed
  /\ \E q \in PortNumbers :
       LET d == <<arrived', q>> IN
       /\ live' = live \cup {d}
       /\ \/ /\ ~IsBound(q)
             /\ undelivered' = undelivered \cup {d}
             /\ UNCHANGED <<hpkt, hsock>>
          \/ /\ IsBound(q)
             /\ hpkt' = d
             /\ hsock' = udp_port_binds[q]
             /\ UNCHANGED undelivered
  /\ UNCHANGED <<sockVars, procVars, listVars, enqueued, taken>>

(* A frame that does not parse or is no datagram; the page that            *)
(* handle_ip4_packet allocated for it is never freed.                      *)
HandleReject ==
  /\ hpkt = NoPkt /\ arrived < MaxPkts
  /\ arrived' = arrived + 1
  /\ handle_packet(Wire[arrived']) = Failed
  /\ LET kept == IF handle_ip4_packet(Wire[arrived']) THEN {<<arrived', 0>>} ELSE {}
     IN  live' = live \cup kept /\ undelivered' = undelivered \cup kept
  /\ UNCHANGED <<sockVars, procVars, listVars, hpkt, hsock, enqueued, taken>>

(* wakeup(&sock->rx_head) makes every sleeper on the queue runnable.       *)
Wakeup_nobody(s) == pc
Wakeup(s) ==
  [p \in Procs |-> IF pc[p] = "asleep" /\ SockOf[p] = s THEN "recv" ELSE pc[p]]

(* The list as enqueue_udp_packet leaves it.  Mutant: rx_tail is written    *)
(* before its next.                                                        *)
Link_swapped(s, d) ==
  IF rx_head[s] = NoPkt THEN [next EXCEPT ![d] = NoPkt] ELSE [next EXCEPT ![d] = d]

Link(s, d) ==
  IF rx_head[s] = NoPkt THEN [next EXCEPT ![d] = NoPkt]
  ELSE [next EXCEPT ![d] = NoPkt, ![rx_tail[s]] = d]

(* enqueue_udp_packet under sock->lock.                                    *)
HandleEnqueue ==
  /\ hpkt # NoPkt
  /\ next' = Link(hsock, hpkt)
  /\ rx_head' = [rx_head EXCEPT ![hsock] = IF @ = NoPkt THEN hpkt ELSE @]
  /\ rx_tail' = [rx_tail EXCEPT ![hsock] = hpkt]
  /\ enqueued' = [enqueued EXCEPT ![hsock] = Append(@, hpkt)]
  /\ pc' = Wakeup(hsock)
  /\ hpkt' = NoPkt /\ hsock' = NoSock
  /\ UNCHANGED <<sockVars, port, pkt, calls, killed, arrived, live,
                 undelivered, taken>>

-----------------------------------------------------------------------------
udp_bind(p) == BindCheck(p) \/ BindInsert(p) \/ BindRecord(p)
udp_recvfrom(p) == RecvSleep(p) \/ RecvDequeue(p) \/ RecvReturn(p)
handle_udp_packet == HandleLookup \/ HandleReject \/ HandleEnqueue

Next ==
  \/ \E p \in Procs :
       udp_bind(p) \/ RecvCall(p) \/ udp_recvfrom(p) \/ Kill(p) \/ Exit(p)
  \/ handle_udp_packet

Spec == Init /\ [][Next]_vars

(* A process in the kernel that can run does run, a killed one exits when  *)
(* it reaches usertrap, and the interrupt that took a frame queues it.     *)
(* Nobody has to make a call or to send anything.                          *)
Fairness ==
  /\ \A p \in Procs :
       /\ WF_vars(BindInsert(p) \/ BindRecord(p) \/ udp_recvfrom(p))
       /\ WF_vars(killed[p] /\ Exit(p))
  /\ WF_vars(HandleEnqueue)

FairSpec == Spec /\ Fairness

-----------------------------------------------------------------------------
(* The list of a socket, from rx_head through the pointers in the pages to *)
(* rx_tail, is what was queued and not yet taken.                          *)
Linked(s) ==
  LET n == Len(taken[s])
      last == Len(enqueued[s])
      q == enqueued[s]
  IN  /\ rx_head[s] = IF n = last THEN NoPkt ELSE q[n + 1]
      /\ \A i \in n + 1 .. last - 1 : next[q[i]] = q[i + 1]
      /\ n < last => rx_tail[s] = q[last] /\ next[q[last]] = NoPkt

(* The receivers of a socket take its datagrams in the order of arrival,   *)
(* none twice and none skipped, also when several processes share it and   *)
(* the queue runs empty in between: enqueue_udp_packet and                 *)
(* dequeue_udp_packet keep its list in one piece.                          *)
TakenInOrder ==
  \A s \in Socks :
    /\ Len(taken[s]) <= Len(enqueued[s])
    /\ \A i \in 1 .. Len(taken[s]) : taken[s][i] = enqueued[s][i]
    /\ Linked(s)

(* Where in enqueued the frames are that wait to be taken.                 *)
Waits(s) == Len(taken[s]) + 1 .. Len(enqueued[s])
Waiting(s) == {enqueued[s][i] : i \in Waits(s)}

(* Every page of the receive path is in one place: the interrupt, a queue  *)
(* or a process that copies from it, so that kfree frees it once and nobody *)
(* reads it afterwards.  The only pages never given back are those of      *)
(* frames that no queue was given: a datagram for a port nobody is bound   *)
(* to, and an IPv4 packet that is malformed or no UDP.                     *)
FramesAccounted ==
  LET inHand == {p \in Procs : pkt[p] # NoPkt}
      held == {pkt[p] : p \in inHand}
      queued == UNION {Waiting(s) : s \in Socks}
  IN  /\ live = undelivered \cup held \cup queued \cup ({hpkt} \ {NoPkt})
      /\ \A p, u \in inHand : pkt[p] = pkt[u] => p = u
      /\ \A s \in Socks : \A i, j \in Waits(s) :
           enqueued[s][i] = enqueued[s][j] => i = j
      /\ \A s, u \in Socks : s # u => Waiting(s) \cap Waiting(u) = {}
      /\ held \cap queued = {} /\ hpkt \notin held \cup queued

(* What a socket is given is what was sent: no datagram is cut short, and  *)
(* none is longer than it was unless the network had to pad its frame.     *)
(* The length of the Ethernet payload is kept in 8 bits, so that longer    *)
(* frames are taken for shorter ones.                                      *)
DeliveredWhole ==
  \A s \in Socks : \A d \in Range(enqueued[s]) :
    LET sent == Wire[d[1]].udp.payload_len
        got == handle_packet(Wire[d[1]])
    IN  IF sent < 18 THEN got \in {sent, 18} ELSE got = sent

(* A receiver that waits while its socket has data gets out of recvfrom,   *)
(* or another receiver of the socket took the data.                        *)
DataIsReceived ==
  \A p \in Procs :
    (pc[p] \in {"recv", "asleep"} /\ rx_head[SockOf[p]] # NoPkt)
      ~> (pc[p] = "user" \/ rx_head[SockOf[p]] = NoPkt)

=============================================================================
