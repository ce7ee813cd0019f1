--------------------------- MODULE UdpSocketProofs ---------------------------
(***************************************************************************)
(* What the receive path promises, for every number of processes, sockets, *)
(* ports and frames: datagrams are taken in order, every page is in one    *)
(* place, and a datagram is delivered whole; and, before that, what        *)
(* Packets says of lengths and checksums, for every length, port, address  *)
(* and payload.                                                            *)
(***************************************************************************)
EXTENDS UdpSocket, TLAPS

(* How long a leaf may take: SMT first, then Zenon.                          *)
USE SMTT(20), ZenonT(30)

(* The checksum chksum() and udp_checksum() put in a header makes the sum of    *)
(* the words, that field included, a multiple of 65535, which is what a         *)
(* receiver verifies: to add the carries twice is enough as long as the sum     *)
(* fits in 32 bits.                                                             *)
THEOREM ChecksumVerifies ==
    ASSUME NEW sum \in Nat, sum <= 4294967295
    PROVE  /\ chksum(sum) \in Nat /\ chksum(sum) <= 65535
           /\ \E k \in Nat : sum + chksum(sum) = 65535 * k
  <1> DEFINE f == fold(sum)
             c == f \div 65536
             q == sum \div 65536
  <1>1. f \in Nat /\ f <= 131070 /\ sum = f + 65535 * q /\ q \in Nat
    <2>1. /\ q \in Nat /\ sum % 65536 \in Nat /\ sum % 65536 <= 65535
          /\ sum = 65536 * q + (sum % 65536)
      BY SMT
    <2>2. f = q + (sum % 65536)
      BY SMT DEF fold
    <2> HIDE DEF f, q
    <2> QED BY SMT, <2>1, <2>2
  <1>2. chksum(sum) = 65535 - uint16(f + c)
    BY SMT DEF chksum
  <1> HIDE DEF f, q
  <1>3. c = 0 \/ c = 1
    BY SMT, <1>1
  <1>4. /\ uint16(f + c) = f + c - 65536 * c
        /\ uint16(f + c) \in Nat /\ uint16(f + c) <= 65535
    <2>1. CASE c = 0
      BY SMT, <1>1, <2>1 DEF uint16
    <2>2. CASE c = 1
      BY SMT, <1>1, <2>2 DEF uint16
    <2> QED BY SMT, <1>3, <2>1, <2>2
  <1>5. sum + chksum(sum) = 65535 * (q + c + 1) /\ q + c + 1 \in Nat
    BY SMT, <1>1, <1>2, <1>3, <1>4
  <1> QED BY SMT, <1>2, <1>4, <1>5

(* No parser makes up bytes: what it returns is a failure or a length that,     *)
(* with the header before it, fits in what it was given, so the memmove() of    *)
(* the payload stays inside the frame.                                          *)
THEOREM ParsedLengthsFit ==
    ASSUME NEW len \in Nat
    PROVE  /\ \A ihl, total_len \in Nat :
                LET n == parse_ip4_packet(len, [ihl |-> ihl, total_len |-> total_len])
                IN  n = Failed \/ (n \in Nat /\ n + Ip4Hdr <= len)
           /\ \A l \in Nat :
                LET n == parse_udp_packet(len, [len |-> l])
                IN  n = Failed \/ (n \in Nat /\ n + UdpHdr <= len)
           /\ \A off \in Nat :
                LET n == parse_tcp_packet(len, off)
                IN  n = Failed \/ (n \in Nat /\ n + TcpHdr <= len)
  BY SMT DEF parse_ip4_packet, parse_udp_packet, parse_tcp_packet, TooShort, Failed,
             Ip4Hdr, UdpHdr, TcpHdr

(* What a datagram sent by udp_sendto() comes to at a receiver that runs this   *)
(* stack, for a frame of l bytes.                                               *)
LEMMA HandledLength ==
    ASSUME NEW sport, NEW dport, NEW data, NEW src, NEW dst,
           NEW len \in Nat, len <= 1500, NEW l \in Nat, l >= 42, l <= 1542,
           NEW frame, frame = [udp_sendto(sport, dport, data, len, src, dst)
                                 EXCEPT !.len = l]
    PROVE  handle_packet(frame) =
             LET n == (l - 14) % 256 IN
             IF n < 20 \/ len + 28 > n THEN Failed ELSE n - 28
  <1> DEFINE n == (l - 14) % 256
  <1>1. /\ frame.len = l /\ frame.type = PROTO_IPV4
        /\ frame.ip.ihl = 5 /\ frame.ip.protocol = IPPROTO_UDP
        /\ frame.ip.total_len = uint16(len + 28)
        /\ frame.udp.len = uint16(len + 8)
    BY SMT DEF udp_sendto, build_ip4, build_udp, UdpHdr, Ip4Hdr
  <1>2. uint16(len + 28) = len + 28 /\ uint16(len + 8) = len + 8
    BY SMT DEF uint16
  <1>3. parse_eth_packet(frame.len) = n /\ n \in Nat
    BY SMT, <1>1 DEF parse_eth_packet, uint8, uint16, EthHdr
  <1> HIDE DEF n
  <1>4. IpLen(frame) = IF n < 20 \/ len + 28 > n THEN Failed ELSE n - 20
    BY SMT, <1>1, <1>2, <1>3 DEF IpLen, parse_ip4_packet, TooShort
  <1>5. CASE n < 20 \/ len + 28 > n
    BY SMT, <1>4, <1>5 DEF handle_packet, handle_ip4_packet, n
  <1>6. CASE ~(n < 20 \/ len + 28 > n)
    <2>1. IpLen(frame) = n - 20 /\ n - 20 # Failed
      BY SMT, <1>3, <1>4, <1>6 DEF Failed
    <2>2. handle_packet(frame) = parse_udp_packet(n - 20, frame.udp)
      BY SMT, <1>1, <2>1 DEF handle_packet, handle_ip4_packet
    <2>3. parse_udp_packet(n - 20, frame.udp) = n - 28
      BY SMT, <1>1, <1>2, <1>3, <1>6 DEF parse_udp_packet, TooShort, UdpHdr
    <2> QED BY SMT, <1>6, <2>2, <2>3 DEF n
  <1> QED BY SMT, <1>5, <1>6

(* Between two hosts that run this stack every datagram of at most 227 bytes    *)
(* arrives whole, and every longer one that udp_sendto() accepts is dropped by  *)
(* the receiver: the length of an Ethernet payload is kept in 8 bits, and a     *)
(* length that wrapped is always less than the headers say.  On a network with  *)
(* a shortest frame, a datagram of less than 18 bytes is delivered as 18.       *)
THEOREM DatagramsWholeOrDropped ==
    ASSUME NEW sport, NEW dport, NEW data, NEW src, NEW dst,
           NEW len \in Nat, ~TooLong(len)
    PROVE  LET sent == udp_sendto(sport, dport, data, len, src, dst) IN
           /\ handle_packet(sent) = IF len <= 227 THEN len ELSE Failed
           /\ handle_packet(Padded(sent)) =
                IF len > 227 THEN Failed ELSE IF len < 18 THEN 18 ELSE len
  <1> DEFINE sent == udp_sendto(sport, dport, data, len, src, dst)
             l == IF len + 42 < 60 THEN 60 ELSE len + 42
  <1>1. len <= 1500
    BY SMT DEF TooLong, MaxSend
  <1>2. sent.len = len + 42 /\ sent = [sent EXCEPT !.len = len + 42]
    BY SMT, <1>1 DEF udp_sendto, uint16, UdpHdr, Ip4Hdr, EthHdr
  <1>3. Padded(sent) = [sent EXCEPT !.len = l] /\ l \in Nat /\ l >= 42 /\ l <= 1542
    BY SMT, <1>1, <1>2 DEF Padded
  <1>4. handle_packet(sent) =
          LET n == (len + 42 - 14) % 256 IN
          IF n < 20 \/ len + 28 > n THEN Failed ELSE n - 28
    BY SMT, <1>1, <1>2, HandledLength
  <1>5. handle_packet(Padded(sent)) =
          LET n == (l - 14) % 256 IN
          IF n < 20 \/ len + 28 > n THEN Failed ELSE n - 28
    <2>1. PICK f : f = [sent EXCEPT !.len = l]
      BY Zenon
    <2>2. handle_packet(f) =
            LET n == (l - 14) % 256 IN
            IF n < 20 \/ len + 28 > n THEN Failed ELSE n - 28
      <3> HIDE DEF l
      <3> QED BY SMT, <1>1, <1>3, <2>1, HandledLength
    <2> QED BY <1>3, <2>1, <2>2
  <1> HIDE DEF sent
  <1> QED BY SMT, <1>1, <1>4, <1>5 DEF sent

(* The length a sender gives is the one its frame carries, padded or not.  *)
LEMMA SentLength ==
  ASSUME NEW sport, NEW dport, NEW data, NEW src, NEW dst, NEW len
  PROVE  LET sent == udp_sendto(sport, dport, data, len, src, dst) IN
         sent.udp.payload_len = len /\ Padded(sent).udp.payload_len = len
  BY DEF udp_sendto, Padded, build_udp

(* A frame that udp_sendto built, as it left or as the network padded it.  *)
SentBy(frame, sport, dport, data, len, src, dst) ==
  LET sent == udp_sendto(sport, dport, data, len, src, dst) IN
  frame \in {sent, Padded(sent)}

(* What handle_packet makes of such a frame, when it takes it.             *)
LEMMA SentIsTaken ==
  ASSUME NEW frame, NEW sport, NEW dport, NEW data, NEW len \in Nat, NEW src, NEW dst,
         ~TooLong(len), SentBy(frame, sport, dport, data, len, src, dst),
         handle_packet(frame) # Failed
  PROVE  /\ frame.udp.payload_len = len
         /\ IF len < 18 THEN handle_packet(frame) \in {len, 18}
            ELSE handle_packet(frame) = len
<1> DEFINE sent == udp_sendto(sport, dport, data, len, src, dst)
<1>1. /\ handle_packet(sent) = IF len <= 227 THEN len ELSE Failed
      /\ handle_packet(Padded(sent)) =
           IF len > 227 THEN Failed ELSE IF len < 18 THEN 18 ELSE len
  BY DatagramsWholeOrDropped
<1>2. sent.udp.payload_len = len /\ Padded(sent).udp.payload_len = len
  BY SentLength
<1>3. frame = sent \/ frame = Padded(sent)
  BY DEF SentBy
<1> HIDE DEF sent
<1> QED BY <1>1, <1>2, <1>3

-----------------------------------------------------------------------------
(* The receive path.  FramesAccounted is not inductive: that a page is in  *)
(* one place only is kept because a frame is numbered anew when it arrives *)
(* (Numbered) and because a process that takes one from the queue has none *)
(* (EmptyHanded); and a page that was dropped must not turn up elsewhere.  *)
(* TakenInOrder needs that: what enqueue_udp_packet writes in two pages is *)
(* in no other list, and no frame is twice in one.                         *)
Datagrams == Nat \X Nat

Labels == {"user", "binding", "inserted", "recv", "asleep", "copyout", "exited"}

UdpType ==
  /\ udp_port_binds \in [Ports -> Socks \cup {NoSock}]
  /\ pc \in [Procs -> Labels]
  /\ pkt \in [Procs -> Pkts \cup {NoPkt}]
  /\ rx_head \in [Socks -> Pkts \cup {NoPkt}]
  /\ rx_tail \in [Socks -> Pkts \cup {NoPkt}]
  /\ next \in [Pkts -> Datagrams]
  /\ enqueued \in [Socks -> Seq(Pkts)]
  /\ taken \in [Socks -> Seq(Pkts)]
  /\ hpkt \in Pkts \cup {NoPkt}
  /\ hpkt # NoPkt => hsock \in Socks
  /\ arrived \in Nat
  /\ live \subseteq Pkts

Numbered == \A d \in live : d[1] \in 1 .. arrived

EmptyHanded == \A p \in Procs : pc[p] # "copyout" => pkt[p] = NoPkt

(* Every page that is allocated is somewhere, ...                          *)
Somewhere ==
  \A d \in live : \/ d \in undelivered \/ d = hpkt
                  \/ \E p \in Procs : pkt[p] = d
                  \/ \E s \in Socks : d \in Waiting(s)

(* ... and nowhere else.  Once: a frame waits once in a queue.             *)
Once(s) == \A i, j \in Waits(s) : enqueued[s][i] = enqueued[s][j] => i = j

OnePlace ==
  /\ undelivered \subseteq live
  /\ hpkt # NoPkt => hpkt \in live \ undelivered
  /\ \A p \in Procs : pkt[p] # NoPkt => pkt[p] \in live \ undelivered /\ pkt[p] # hpkt
  /\ \A p, u \in Procs : pkt[p] = pkt[u] /\ p # u => pkt[p] = NoPkt
  /\ \A s \in Socks : /\ Waiting(s) \subseteq live \ undelivered
                      /\ hpkt \notin Waiting(s)
                      /\ Once(s)
                      /\ \A p \in Procs : pkt[p] \notin Waiting(s)
  /\ \A s, u \in Socks : s # u => Waiting(s) \cap Waiting(u) = {}

UdpInv == UdpType /\ Numbered /\ EmptyHanded /\ Somewhere /\ OnePlace /\ TakenInOrder

(* A frame is a pair, numbered from 1.                                     *)
LEMMA PktsAreFrames == Pkts \subseteq Datagrams /\ NoPkt \notin Pkts /\ NoPkt \in Datagrams
<1>1. MaxPkts \in Nat /\ PortNumbers \subseteq Nat
  BY UdpConstants DEF MaxPkts, PortNumbers
<1>2. ASSUME NEW d \in Pkts PROVE d[1] \in 1 .. MaxPkts /\ d \in Datagrams
  <2>1. PICK i \in 1 .. MaxPkts, j \in PortNumbers : d = <<i, j>>
    BY DEF Pkts
  <2> QED BY <1>1, <2>1 DEF Datagrams
<1>3. NoPkt[1] = 0 /\ NoPkt \in Datagrams
  BY DEF NoPkt, Datagrams
<1> QED BY <1>1, <1>2, <1>3

(* NoPkt is no frame that arrived.                                         *)
LEMMA NoPktNotLive == Numbered => NoPkt \notin live
  BY DEF Numbered, NoPkt

(* OnePlace and Somewhere say what FramesAccounted does.                   *)
LEMMA PlacesAccount == Numbered /\ Somewhere /\ OnePlace => FramesAccounted
<1> SUFFICES ASSUME Numbered, Somewhere, OnePlace PROVE FramesAccounted
  OBVIOUS
<1> DEFINE inHand == {p \in Procs : pkt[p] # NoPkt}
           held == {pkt[p] : p \in inHand}
           queued == UNION {Waiting(s) : s \in Socks}
<1>1. NoPkt \notin live
  BY NoPktNotLive
<1>2. \A d : d \in held <=> d # NoPkt /\ \E p \in Procs : pkt[p] = d
  BY Zenon
<1>3. \A d : d \in queued <=> \E s \in Socks : d \in Waiting(s)
  BY Zenon
<1> HIDE DEF held, queued
<1>4. live = undelivered \cup held \cup queued \cup ({hpkt} \ {NoPkt})
  <2>1. ASSUME NEW d \in live PROVE d \in undelivered \cup held \cup queued \cup ({hpkt} \ {NoPkt})
    BY <1>1, <1>2, <1>3, Zenon DEF Somewhere
  <2>2. held \subseteq live
    BY <1>2 DEF OnePlace
  <2>3. queued \subseteq live
    BY <1>3 DEF OnePlace
  <2> QED BY <2>1, <2>2, <2>3 DEF OnePlace
<1>5. held \cap queued = {} /\ hpkt \notin held \cup queued
  BY <1>2, <1>3 DEF OnePlace
<1>6. \A p, u \in inHand : pkt[p] = pkt[u] => p = u
  BY DEF OnePlace
<1> QED BY <1>4, <1>5, <1>6 DEF FramesAccounted, OnePlace, Once, held, queued

(* What was queued when a frame is put at the end, ...                     *)
LEMMA Appended ==
  ASSUME NEW S, NEW q \in Seq(S), NEW x \in S
  PROVE  /\ Append(q, x) \in Seq(S)
         /\ Len(q) \in Nat /\ Len(Append(q, x)) = Len(q) + 1
         /\ Append(q, x)[Len(q) + 1] = x
         /\ \A i \in 1 .. Len(q) : Append(q, x)[i] = q[i] /\ q[i] \in S
         /\ Range(Append(q, x)) = Range(q) \cup {x}
<1>1. /\ Append(q, x) \in Seq(S) /\ Len(q) \in Nat /\ DOMAIN q = 1 .. Len(q)
      /\ Len(Append(q, x)) = Len(q) + 1
      /\ DOMAIN Append(q, x) = 1 .. Len(q) + 1 /\ Append(q, x)[Len(q) + 1] = x
      /\ \A i \in 1 .. Len(q) : Append(q, x)[i] = q[i] /\ q[i] \in S
  OBVIOUS
<1>2. \A i : i \in 1 .. Len(q) + 1 <=> i \in 1 .. Len(q) \/ i = Len(q) + 1
  BY <1>1
<1>3. Range(Append(q, x)) = Range(q) \cup {x}
  BY <1>1, <1>2 DEF Range
<1> QED BY <1>1, <1>3

(* ... what then waits, ...                                                *)
LEMMA WaitsLonger ==
  ASSUME NEW s, NEW x, Len(taken[s]) \in Nat, Len(enqueued[s]) \in Nat,
         Len(taken[s]) <= Len(enqueued[s]), taken'[s] = taken[s],
         Len(enqueued'[s]) = Len(enqueued[s]) + 1,
         enqueued'[s][Len(enqueued[s]) + 1] = x,
         \A i \in 1 .. Len(enqueued[s]) : enqueued'[s][i] = enqueued[s][i]
  PROVE  /\ Waiting(s)' = Waiting(s) \cup {x}
         /\ Once(s) /\ x \notin Waiting(s) => Once(s)'
<1>1. /\ \A i : i \in Waits(s)' <=> i \in Waits(s) \/ i = Len(enqueued[s]) + 1
      /\ \A i \in Waits(s) : i \in 1 .. Len(enqueued[s])
  BY DEF Waits
<1>2. \A i \in Waits(s) : enqueued'[s][i] = enqueued[s][i]
  BY <1>1
<1>3. Waiting(s)' = Waiting(s) \cup {x}
  BY <1>1, <1>2 DEF Waiting
<1>4. Once(s) /\ x \notin Waiting(s) => Once(s)'
  BY <1>1, <1>2 DEF Once, Waiting
<1> QED BY <1>3, <1>4

(* ... and what waits when one is taken from the front.                    *)
LEMMA WaitsShorter ==
  ASSUME NEW s, Len(taken[s]) \in Nat, Len(enqueued[s]) \in Nat,
         Len(taken[s]) < Len(enqueued[s]), enqueued'[s] = enqueued[s],
         Len(taken'[s]) = Len(taken[s]) + 1
  PROVE  LET x == enqueued[s][Len(taken[s]) + 1] IN
         /\ Waiting(s) = Waiting(s)' \cup {x}
         /\ Once(s) => Once(s)' /\ x \notin Waiting(s)'
<1> DEFINE n == Len(taken[s]) + 1
<1>1. /\ \A i : i \in Waits(s) <=> i \in Waits(s)' \/ i = n
      /\ n \notin Waits(s)'
  BY DEF Waits
<1> HIDE DEF n
<1>2. Waiting(s) = Waiting(s)' \cup {enqueued[s][n]}
  BY <1>1 DEF Waiting
<1>3. Once(s) => Once(s)'
  BY <1>1 DEF Once
<1>4. Once(s) => enqueued[s][n] \notin Waiting(s)'
  BY <1>1 DEF Once, Waiting
<1> QED BY <1>2, <1>3, <1>4 DEF n

(* Nothing else changes what waits.                                        *)
LEMMA WaitsSame ==
  ASSUME NEW s, enqueued'[s] = enqueued[s], taken'[s] = taken[s]
  PROVE  Waiting(s)' = Waiting(s) /\ (Once(s) => Once(s)')
  BY DEF Waiting, Waits, Once

(* Nor does it move a list.                                                *)
LEMMA OrderSame ==
  ASSUME TakenInOrder, UNCHANGED <<listVars, enqueued, taken>>
  PROVE  TakenInOrder'
  BY DEF TakenInOrder, Linked, listVars

(* A step that moves no frame.                                             *)
LEMMA QuietStep ==
  ASSUME UdpInv,
         UNCHANGED <<pkt, listVars, enqueued, taken, hpkt, hsock, arrived, live, undelivered>>,
         udp_port_binds' \in [Ports -> Socks \cup {NoSock}],
         pc' \in [Procs -> Labels],
         \A p \in Procs : pc'[p] # "copyout" => pc[p] # "copyout"
  PROVE  UdpInv'
<1>1. UdpType' /\ Numbered' /\ EmptyHanded'
  BY DEF UdpInv, UdpType, Numbered, EmptyHanded, listVars
<1>2. \A s : Waiting(s)' = Waiting(s) /\ (Once(s) => Once(s)')
  BY WaitsSame
<1>3. Somewhere' /\ OnePlace'
  BY <1>2 DEF UdpInv, Somewhere, OnePlace
<1>4. TakenInOrder'
  BY OrderSame DEF UdpInv
<1> QED BY <1>1, <1>3, <1>4 DEF UdpInv

(* The calls of a process, but for the two that move a frame.              *)
LEMMA CallsStep ==
  ASSUME UdpInv, NEW p \in Procs,
         \/ udp_bind(p) \/ RecvCall(p) \/ RecvSleep(p) \/ Kill(p) \/ Exit(p)
  PROVE  UdpInv'
<1>1. UNCHANGED <<pkt, listVars, enqueued, taken, hpkt, hsock, arrived, live, undelivered>>
  BY DEF udp_bind, BindCheck, BindInsert, BindRecord, RecvCall, RecvSleep, Kill, Exit
<1>2. PICK l \in Labels : pc' = [pc EXCEPT ![p] = l] /\ (l # "copyout" => pc[p] # "copyout")
  <2>1. CASE Kill(p)
    BY <2>1, Zenon DEF Kill, UdpInv, UdpType, Labels
  <2>2. CASE ~ Kill(p)
    BY <2>2 DEF udp_bind, BindCheck, BindInsert, BindRecord, RecvCall, RecvSleep, Exit, Labels
  <2> QED BY <2>1, <2>2
<1>3. pc \in [Procs -> Labels] /\ udp_port_binds \in [Ports -> Socks \cup {NoSock}]
  BY DEF UdpInv, UdpType
<1>4. pc' \in [Procs -> Labels] /\ \A u \in Procs : pc'[u] # "copyout" => pc[u] # "copyout"
  BY <1>2, <1>3
<1>5. udp_port_binds' \in [Ports -> Socks \cup {NoSock}]
  <2>1. \/ udp_port_binds' = udp_port_binds
        \/ udp_port_binds' = [udp_port_binds EXCEPT ![port[p]] = SockOf[p]]
    BY DEF udp_bind, BindCheck, BindInsert, BindRecord, RecvCall, RecvSleep, Kill, Exit, sockVars
  <2> QED BY <1>3, <2>1, UdpConstants
<1> QED BY <1>1, <1>4, <1>5, QuietStep

(* A frame leaves the queue for the hands of one process.                  *)
LEMMA DequeueStep ==
  ASSUME UdpInv, NEW p \in Procs, RecvDequeue(p)
  PROVE  UdpInv'
<1> DEFINE s == SockOf[p]
           x == rx_head[s]
           q == enqueued[s]
           n == Len(taken[s])
<1>1. /\ pc[p] = "recv" /\ x # NoPkt
      /\ rx_head' = [rx_head EXCEPT ![s] = next[x]]
      /\ rx_tail' = [rx_tail EXCEPT ![s] = IF next[x] = NoPkt THEN NoPkt ELSE rx_tail[s]]
      /\ pkt' = [pkt EXCEPT ![p] = x]
      /\ taken' = [taken EXCEPT ![s] = Append(taken[s], x)]
      /\ pc' = [pc EXCEPT ![p] = "copyout"]
      /\ UNCHANGED <<udp_port_binds, next, enqueued, hpkt, hsock, arrived, live, undelivered>>
  BY DEF RecvDequeue, dequeue_udp_packet, sockVars
<1>2. s \in Socks /\ q \in Seq(Pkts) /\ taken[s] \in Seq(Pkts) /\ x \in Pkts
  BY <1>1, UdpConstants, Zenon DEF UdpInv, UdpType
<1>3. /\ Append(taken[s], x) \in Seq(Pkts) /\ n \in Nat
      /\ Len(Append(taken[s], x)) = n + 1 /\ Append(taken[s], x)[n + 1] = x
      /\ \A i \in 1 .. n : Append(taken[s], x)[i] = taken[s][i]
  BY <1>2, Appended
<1>4. /\ taken'[s] = Append(taken[s], x) /\ \A u \in Socks : u # s => taken'[u] = taken[u]
      /\ pkt'[p] = x /\ \A u \in Procs : u # p => pkt'[u] = pkt[u]
      /\ pc'[p] = "copyout" /\ \A u \in Procs : u # p => pc'[u] = pc[u]
      /\ rx_head'[s] = next[x] /\ \A u \in Socks : u # s => rx_head'[u] = rx_head[u]
      /\ rx_tail'[s] = (IF next[x] = NoPkt THEN NoPkt ELSE rx_tail[s])
      /\ \A u \in Socks : u # s => rx_tail'[u] = rx_tail[u]
  BY <1>1, <1>2 DEF UdpInv, UdpType
<1>5. pkt[p] = NoPkt
  BY <1>1 DEF UdpInv, EmptyHanded
<1>6. /\ Len(q) \in Nat /\ n < Len(q) /\ x = q[n + 1]
      /\ n + 1 < Len(q) => next[x] = q[n + 2] /\ rx_tail[s] = q[Len(q)]
      /\ n + 1 = Len(q) => next[x] = NoPkt
  <2>1. Len(q) \in Nat /\ n <= Len(q) /\ Linked(s)
    BY <1>2 DEF UdpInv, TakenInOrder
  <2>2. n # Len(q) /\ x = q[n + 1]
    BY <1>1, <2>1 DEF Linked
  <2>3. n < Len(q)
    BY <1>3, <2>1, <2>2
  <2>4. n + 1 < Len(q) => n + 1 \in n + 1 .. Len(q) - 1
    BY <1>3, <2>1
  <2>5. /\ n + 1 < Len(q) => next[q[n + 1]] = q[n + 1 + 1]
        /\ rx_tail[s] = q[Len(q)] /\ next[q[Len(q)]] = NoPkt
    BY <2>1, <2>3, <2>4, Zenon DEF Linked
  <2> QED BY <1>3, <2>1, <2>2, <2>3, <2>5
<1>7. NoPkt \notin Pkts /\ \A i \in 1 .. Len(q) : q[i] \in Pkts
  BY <1>2, PktsAreFrames
<1> HIDE DEF s, x, q, n
<1>8. next[x] \in Pkts \cup {NoPkt}
  BY <1>3, <1>6, <1>7
<1>9. /\ x \in live \ undelivered /\ x # hpkt /\ x \notin Waiting(s)'
      /\ \A u \in Procs : pkt[u] # x
      /\ \A u \in Socks : u # s => x \notin Waiting(u)
      /\ \A u \in Socks : Waiting(u)' \subseteq Waiting(u) /\ Once(u)'
      /\ Waiting(s) = Waiting(s)' \cup {x}
      /\ \A u \in Socks : u # s => Waiting(u)' = Waiting(u)
  <2>1. /\ Waiting(s) = Waiting(s)' \cup {x}
        /\ Once(s) => Once(s)' /\ x \notin Waiting(s)'
    BY <1>1, <1>3, <1>4, <1>6, WaitsShorter DEF q, n
  <2>2. \A u \in Socks : u # s => Waiting(u)' = Waiting(u) /\ (Once(u) => Once(u)')
    BY <1>1, <1>4, WaitsSame
  <2> QED BY <1>2, <2>1, <2>2, Zenon DEF UdpInv, OnePlace
<1>13. UdpType'
  BY <1>1, <1>2, <1>3, <1>8 DEF UdpInv, UdpType, Labels
<1>14. Numbered' /\ EmptyHanded'
  BY <1>1, <1>4 DEF UdpInv, Numbered, EmptyHanded
<1>12. TakenInOrder'
  <2> SUFFICES ASSUME NEW u \in Socks
               PROVE  /\ Len(taken'[u]) <= Len(enqueued'[u])
                      /\ \A i \in 1 .. Len(taken'[u]) : taken'[u][i] = enqueued'[u][i]
                      /\ Linked(u)'
    BY DEF TakenInOrder
  <2>1. CASE u # s
    <3>1. /\ taken'[u] = taken[u] /\ enqueued'[u] = enqueued[u]
          /\ rx_head'[u] = rx_head[u] /\ rx_tail'[u] = rx_tail[u] /\ next' = next
      BY <1>1, <1>4, <2>1
    <3> QED BY <3>1 DEF UdpInv, TakenInOrder, Linked
  <2>2. CASE u = s
    <3>1. /\ Len(taken'[s]) = n + 1 /\ enqueued'[s] = q /\ next' = next
          /\ rx_head'[s] = next[x] /\ taken'[s][n + 1] = x
          /\ rx_tail'[s] = (IF next[x] = NoPkt THEN NoPkt ELSE rx_tail[s])
          /\ \A i \in 1 .. n : taken'[s][i] = q[i]
      BY <1>1, <1>2, <1>3, <1>4 DEF q, n, UdpInv, TakenInOrder
    <3>2. \A i \in 1 .. n + 1 : taken'[s][i] = q[i]
      BY <1>3, <1>6, <3>1
    <3>3. /\ \A i \in n + 1 .. Len(q) - 1 : next[q[i]] = q[i + 1]
          /\ next[q[Len(q)]] = NoPkt
      BY <1>2, <1>6 DEF q, n, UdpInv, TakenInOrder, Linked
    <3>4. Linked(s)'
      BY <1>3, <1>6, <1>7, <3>1, <3>3 DEF Linked
    <3>5. n + 1 <= Len(q)
      BY <1>3, <1>6
    <3> QED BY <2>2, <3>1, <3>2, <3>4, <3>5
  <2> QED BY <2>1, <2>2
<1>10. Somewhere'
  <2> SUFFICES ASSUME NEW d \in live
               PROVE  \/ d \in undelivered \/ d = hpkt
                      \/ \E u \in Procs : pkt'[u] = d
                      \/ \E u \in Socks : d \in Waiting(u)'
    BY <1>1 DEF Somewhere
  <2>1. CASE d = x
    BY <1>4, <2>1
  <2>2. CASE d # x
    <3>1. d # NoPkt
      BY NoPktNotLive DEF UdpInv
    <3>2. \A u \in Procs : pkt[u] = d => pkt'[u] = d
      BY <1>4, <1>5, <3>1
    <3>3. \A u \in Socks : d \in Waiting(u) => d \in Waiting(u)'
      BY <1>9, <2>2
    <3> QED BY <3>2, <3>3 DEF UdpInv, Somewhere
  <2> QED BY <2>1, <2>2
<1>11. OnePlace'
  <2>1. \A u \in Procs : pkt'[u] # NoPkt => pkt'[u] \in live \ undelivered /\ pkt'[u] # hpkt
    BY <1>4, <1>9 DEF UdpInv, OnePlace
  <2>2. \A u, v \in Procs : pkt'[u] = pkt'[v] /\ u # v => pkt'[u] = NoPkt
    BY <1>4, <1>9 DEF UdpInv, OnePlace
  <2>3. ASSUME NEW u \in Socks, NEW v \in Procs PROVE pkt'[v] \notin Waiting(u)'
    <3>1. CASE v = p
      BY <1>4, <1>9, <3>1, Zenon
    <3>2. CASE v # p
      <4>1. pkt'[v] = pkt[v] /\ pkt[v] \notin Waiting(u)
        BY <1>4, <3>2 DEF UdpInv, OnePlace
      <4> QED BY <1>9, <4>1
    <3> QED BY <3>1, <3>2
  <2>4. \A u \in Socks : Waiting(u)' \subseteq live \ undelivered /\ hpkt \notin Waiting(u)'
    BY <1>9 DEF UdpInv, OnePlace
  <2>5. \A u, v \in Socks : u # v => Waiting(u)' \cap Waiting(v)' = {}
    BY <1>9 DEF UdpInv, OnePlace
  <2> QED BY <1>1, <1>9, <2>1, <2>2, <2>3, <2>4, <2>5 DEF UdpInv, OnePlace
<1> QED BY <1>10, <1>11, <1>12, <1>13, <1>14 DEF UdpInv

(* kfree(pkt): the page is in no other place.                              *)
LEMMA ReturnStep ==
  ASSUME UdpInv, NEW p \in Procs, RecvReturn(p)
  PROVE  UdpInv'
<1>1. /\ live' = live \ {pkt[p]} /\ pkt' = [pkt EXCEPT ![p] = NoPkt]
      /\ pc' = [pc EXCEPT ![p] = "user"] /\ pc[p] = "copyout"
      /\ UNCHANGED <<udp_port_binds, listVars, enqueued, taken, hpkt, hsock, arrived, undelivered>>
  BY DEF RecvReturn, sockVars
<1>2. \A s : Waiting(s)' = Waiting(s) /\ (Once(s) => Once(s)')
  BY <1>1, WaitsSame
<1>3. /\ pkt'[p] = NoPkt /\ \A u \in Procs : u # p => pkt'[u] = pkt[u]
      /\ pc'[p] = "user" /\ \A u \in Procs : u # p => pc'[u] = pc[u]
  BY <1>1 DEF UdpInv, UdpType
<1>4. UdpType'
  BY <1>1 DEF UdpInv, UdpType, Labels, listVars
<1>5. Numbered' /\ EmptyHanded'
  BY <1>1, <1>3, Zenon DEF UdpInv, Numbered, EmptyHanded
<1>9. TakenInOrder'
  BY <1>1, OrderSame DEF UdpInv
<1>6. NoPkt \notin live
  BY NoPktNotLive DEF UdpInv
<1>7. Somewhere'
  BY <1>1, <1>2, <1>3 DEF UdpInv, Somewhere
<1>8. OnePlace'
  <2>1. \A s \in Socks : Waiting(s)' \subseteq live' \ undelivered' /\ NoPkt \notin Waiting(s)'
    BY <1>1, <1>2, <1>6 DEF UdpInv, OnePlace
  <2>2. undelivered' \subseteq live' /\ (hpkt' # NoPkt => hpkt' \in live' \ undelivered')
    BY <1>1, <1>6 DEF UdpInv, OnePlace
  <2>3. \A u \in Procs : pkt'[u] # NoPkt => pkt'[u] \in live' \ undelivered' /\ pkt'[u] # hpkt'
    BY <1>1, <1>3 DEF UdpInv, OnePlace
  <2>4. \A u, v \in Procs : pkt'[u] = pkt'[v] /\ u # v => pkt'[u] = NoPkt
    BY <1>3 DEF UdpInv, OnePlace
  <2>5. \A s \in Socks : \A u \in Procs : pkt'[u] \notin Waiting(s)'
    BY <1>1, <1>2, <1>3, <2>1 DEF UdpInv, OnePlace
  <2> QED BY <1>1, <1>2, <2>1, <2>2, <2>3, <2>4, <2>5 DEF UdpInv, OnePlace
<1> QED BY <1>4, <1>5, <1>7, <1>8, <1>9 DEF UdpInv

(* Frames are numbered as they arrive, so the n-th is no frame of before.  *)
LEMMA Arrival ==
  ASSUME UdpInv, NEW d \in Pkts, d[1] = arrived + 1
  PROVE  /\ d \notin live /\ d \notin undelivered /\ d # NoPkt /\ d # hpkt
         /\ \A p \in Procs : pkt[p] # d
         /\ \A s \in Socks : d \notin Waiting(s)
<1>1. d \notin live /\ d # NoPkt
  BY PktsAreFrames DEF UdpInv, UdpType, Numbered, NoPkt
<1> QED BY <1>1 DEF UdpInv, OnePlace

(* It is one of those that the wire carries.                               *)
LEMMA NextFrame ==
  ASSUME arrived \in Nat, arrived < MaxPkts, NEW q \in PortNumbers
  PROVE  <<arrived + 1, q>> \in Pkts /\ 0 \in PortNumbers
<1>1. MaxPkts \in Nat /\ MAX_PORT_BINDINGS \in Nat
  BY UdpConstants DEF MaxPkts
<1> QED BY <1>1 DEF Pkts, PortNumbers

(* A page that is allocated and dropped at once.                           *)
LEMMA DropStep ==
  ASSUME UdpInv, NEW kept, kept \subseteq {d \in Pkts : d[1] = arrived + 1},
         arrived' = arrived + 1, live' = live \cup kept,
         undelivered' = undelivered \cup kept,
         UNCHANGED <<udp_port_binds, pc, pkt, listVars, enqueued, taken, hpkt, hsock>>
  PROVE  UdpInv'
<1>1. /\ \A d \in kept : d \in Pkts /\ d[1] = arrived + 1 /\ d \notin live /\ d # hpkt
      /\ \A d \in kept : \A p \in Procs : pkt[p] # d
      /\ \A d \in kept : \A s \in Socks : d \notin Waiting(s)
  BY Arrival
<1>2. UdpType' /\ EmptyHanded'
  BY <1>1 DEF UdpInv, UdpType, EmptyHanded, listVars
<1>6. TakenInOrder'
  BY OrderSame DEF UdpInv
<1>7. \A s : Waiting(s)' = Waiting(s) /\ (Once(s) => Once(s)')
  BY WaitsSame
<1>3. Numbered'
  BY <1>1 DEF UdpInv, UdpType, Numbered
<1>4. Somewhere'
  BY <1>7 DEF UdpInv, Somewhere
<1>5. OnePlace'
  BY <1>1, <1>7 DEF UdpInv, OnePlace
<1> QED BY <1>2, <1>3, <1>4, <1>5, <1>6 DEF UdpInv

(* A page that is allocated for a frame the interrupt keeps.               *)
LEMMA KeepStep ==
  ASSUME UdpInv, NEW d \in Pkts, d[1] = arrived + 1,
         hpkt = NoPkt, hpkt' = d, hsock' \in Socks,
         arrived' = arrived + 1, live' = live \cup {d},
         UNCHANGED <<udp_port_binds, pc, pkt, listVars, enqueued, taken, undelivered>>
  PROVE  UdpInv'
<1>1. /\ d \notin live /\ d \notin undelivered /\ d # NoPkt
      /\ \A p \in Procs : pkt[p] # d
      /\ \A s \in Socks : d \notin Waiting(s)
  BY Arrival
<1>2. UdpType' /\ EmptyHanded'
  BY <1>1 DEF UdpInv, UdpType, EmptyHanded, listVars
<1>6. TakenInOrder'
  BY OrderSame DEF UdpInv
<1>7. \A s : Waiting(s)' = Waiting(s) /\ (Once(s) => Once(s)')
  BY WaitsSame
<1>3. Numbered'
  BY <1>1 DEF UdpInv, UdpType, Numbered
<1>4. Somewhere'
  BY <1>7, NoPktNotLive DEF UdpInv, Somewhere
<1>5. OnePlace'
  BY <1>1, <1>7 DEF UdpInv, OnePlace
<1> QED BY <1>2, <1>3, <1>4, <1>5, <1>6 DEF UdpInv

(* handle_udp_packet finds a socket or drops the frame.                    *)
LEMMA LookupStep ==
  ASSUME UdpInv, HandleLookup
  PROVE  UdpInv'
<1>1. PICK q \in PortNumbers :
        /\ live' = live \cup {<<arrived + 1, q>>}
        /\ \/ undelivered' = undelivered \cup {<<arrived + 1, q>>} /\ UNCHANGED <<hpkt, hsock>>
           \/ /\ IsBound(q) /\ hpkt' = <<arrived + 1, q>> /\ hsock' = udp_port_binds[q]
              /\ UNCHANGED undelivered
  BY DEF HandleLookup
<1>2. /\ hpkt = NoPkt /\ arrived' = arrived + 1 /\ arrived < MaxPkts
      /\ UNCHANGED <<udp_port_binds, pc, pkt, listVars, enqueued, taken>>
  BY DEF HandleLookup, sockVars, procVars
<1>3. q \in Nat /\ (q < MAX_PORT_BINDINGS => q \in Ports)
  BY UdpConstants DEF PortNumbers, Ports
<1>4. PICK d : d = <<arrived + 1, q>>
  BY Zenon
<1>5. d \in Pkts /\ d[1] = arrived + 1
  BY <1>2, <1>4, NextFrame DEF UdpInv, UdpType
<1>6. CASE undelivered' = undelivered \cup {d} /\ UNCHANGED <<hpkt, hsock>>
  BY <1>1, <1>2, <1>4, <1>5, <1>6, DropStep, Zenon
<1>7. CASE IsBound(q) /\ hpkt' = d /\ hsock' = udp_port_binds[q] /\ UNCHANGED undelivered
  <2>1. udp_port_binds[q] \in Socks
    BY <1>3, <1>7 DEF IsBound, UdpInv, UdpType
  <2> QED BY <1>1, <1>2, <1>4, <1>5, <1>7, <2>1, KeepStep
<1> QED BY <1>1, <1>4, <1>6, <1>7

(* A frame that is refused.                                                *)
LEMMA RejectStep ==
  ASSUME UdpInv, HandleReject
  PROVE  UdpInv'
<1>1. PICK kept \in SUBSET {<<arrived + 1, 0>>} :
        live' = live \cup kept /\ undelivered' = undelivered \cup kept
  BY Zenon DEF HandleReject
<1>2. /\ arrived' = arrived + 1 /\ arrived < MaxPkts
      /\ UNCHANGED <<udp_port_binds, pc, pkt, listVars, enqueued, taken, hpkt, hsock>>
  BY DEF HandleReject, sockVars, procVars
<1>4. 0 \in PortNumbers
  BY UdpConstants DEF PortNumbers
<1>3. kept \subseteq {d \in Pkts : d[1] = arrived + 1}
  BY <1>2, <1>4, NextFrame DEF UdpInv, UdpType
<1> QED BY <1>1, <1>2, <1>3, DropStep

(* The frame goes from the interrupt to the end of the queue.              *)
LEMMA EnqueueStep ==
  ASSUME UdpInv, HandleEnqueue
  PROVE  UdpInv'
<1>17. hpkt # NoPkt /\ hsock \in Socks /\ hpkt \in Pkts
  BY DEF HandleEnqueue, UdpInv, UdpType
<1>18. PICK s \in Socks, x \in Pkts : s = hsock /\ x = hpkt
  BY <1>17
<1> DEFINE q == enqueued[s]
           n == Len(taken[s])
           t == rx_tail[s]
<1>1. /\ x # NoPkt /\ hpkt' = NoPkt
      /\ rx_head' = [rx_head EXCEPT ![s] = IF rx_head[s] = NoPkt THEN x ELSE rx_head[s]]
      /\ rx_tail' = [rx_tail EXCEPT ![s] = x]
      /\ next' = IF rx_head[s] = NoPkt THEN [next EXCEPT ![x] = NoPkt]
                 ELSE [next EXCEPT ![x] = NoPkt, ![t] = x]
      /\ enqueued' = [enqueued EXCEPT ![s] = Append(q, x)]
      /\ pc' = [p \in Procs |-> IF pc[p] = "asleep" /\ SockOf[p] = s THEN "recv" ELSE pc[p]]
      /\ UNCHANGED <<udp_port_binds, pkt, arrived, live, undelivered, taken>>
  BY <1>18 DEF HandleEnqueue, Link, Wakeup, sockVars
<1>2. /\ s \in Socks /\ q \in Seq(Pkts) /\ taken[s] \in Seq(Pkts) /\ x \in Pkts
      /\ next \in [Pkts -> Datagrams]
  BY <1>1 DEF UdpInv, UdpType
<1>3. /\ Append(q, x) \in Seq(Pkts) /\ Len(q) \in Nat /\ n \in Nat
      /\ Len(Append(q, x)) = Len(q) + 1 /\ Append(q, x)[Len(q) + 1] = x
      /\ \A i \in 1 .. Len(q) : Append(q, x)[i] = q[i] /\ q[i] \in Pkts
  BY <1>2, Appended
<1>4. /\ enqueued'[s] = Append(q, x) /\ \A u \in Socks : u # s => enqueued'[u] = enqueued[u]
      /\ rx_head'[s] = (IF rx_head[s] = NoPkt THEN x ELSE rx_head[s]) /\ rx_tail'[s] = x
      /\ \A u \in Socks : u # s => rx_head'[u] = rx_head[u] /\ rx_tail'[u] = rx_tail[u]
      /\ taken' = taken
  BY <1>1, <1>2 DEF UdpInv, UdpType
<1>5. NoPkt \notin live /\ Pkts \subseteq Datagrams /\ NoPkt \notin Pkts /\ NoPkt \in Datagrams
  BY NoPktNotLive, PktsAreFrames DEF UdpInv
<1>8. /\ n <= Len(q) /\ rx_head[s] = IF n = Len(q) THEN NoPkt ELSE q[n + 1]
      /\ \A i \in 1 .. n : taken[s][i] = q[i]
      /\ \A i \in n + 1 .. Len(q) - 1 : next[q[i]] = q[i + 1]
      /\ n < Len(q) => t = q[Len(q)] /\ next[t] = NoPkt
  BY <1>2 DEF UdpInv, TakenInOrder, Linked
<1>16. \A i \in n + 1 .. Len(q) : q[i] \in Waiting(s)
  BY DEF Waiting, Waits
<1> HIDE DEF q, n, t
<1>13. rx_head[s] # NoPkt => n < Len(q) /\ t \in Pkts /\ t \in Waiting(s)
  BY <1>3, <1>8, <1>16
<1>14. /\ next' \in [Pkts -> Datagrams] /\ (next'[x] = NoPkt \/ t = x)
       /\ rx_head[s] # NoPkt => next'[t] = x
       /\ \A d \in Pkts : d # x /\ (rx_head[s] = NoPkt \/ d # t) => next'[d] = next[d]
  <2>1. CASE rx_head[s] = NoPkt
    BY <1>1, <1>2, <1>5, <2>1
  <2>2. CASE rx_head[s] # NoPkt
    BY <1>1, <1>2, <1>5, <1>13, <2>2
  <2> QED BY <2>1, <2>2
<1>6. UdpType'
  <2>1. /\ rx_head' \in [Socks -> Pkts \cup {NoPkt}] /\ rx_tail' \in [Socks -> Pkts \cup {NoPkt}]
        /\ enqueued' \in [Socks -> Seq(Pkts)]
    BY <1>1, <1>2, <1>3 DEF UdpInv, UdpType
  <2>2. pc' \in [Procs -> Labels]
    BY <1>1 DEF UdpInv, UdpType, Labels
  <2> QED BY <1>1, <1>14, <2>1, <2>2, Zenon DEF UdpInv, UdpType
<1>7. Numbered' /\ EmptyHanded'
  BY <1>1 DEF UdpInv, Numbered, EmptyHanded
<1>9. /\ x \in live \ undelivered
      /\ \A u \in Socks : x \notin Waiting(u)
      /\ \A p \in Procs : pkt[p] # x
      /\ \A u \in Socks : NoPkt \notin Waiting(u)
      /\ \A u \in Socks : Once(u)
      /\ \A u, v \in Socks : u # v => Waiting(u) \cap Waiting(v) = {}
  BY <1>1, <1>5, <1>18 DEF UdpInv, OnePlace
<1>10. /\ \A u \in Socks : Waiting(u)' = IF u = s THEN Waiting(u) \cup {x} ELSE Waiting(u)
       /\ \A u \in Socks : Once(u)'
  <2>1. Waiting(s)' = Waiting(s) \cup {x} /\ Once(s)'
    <3>1. /\ Len(taken[s]) \in Nat /\ Len(enqueued[s]) \in Nat
          /\ Len(taken[s]) <= Len(enqueued[s]) /\ taken'[s] = taken[s]
          /\ Len(enqueued'[s]) = Len(enqueued[s]) + 1
          /\ enqueued'[s][Len(enqueued[s]) + 1] = x
          /\ \A i \in 1 .. Len(enqueued[s]) : enqueued'[s][i] = enqueued[s][i]
      BY <1>3, <1>4, <1>8 DEF q, n
    <3> QED BY <1>9, <3>1, WaitsLonger
  <2>2. \A u \in Socks : u # s => Waiting(u)' = Waiting(u) /\ Once(u)'
    BY <1>4, <1>9, WaitsSame
  <2> QED BY <2>1, <2>2, Zenon
<1>15. TakenInOrder'
  <2> SUFFICES ASSUME NEW u \in Socks
               PROVE  /\ Len(taken'[u]) <= Len(enqueued'[u])
                      /\ \A i \in 1 .. Len(taken'[u]) : taken'[u][i] = enqueued'[u][i]
                      /\ Linked(u)'
    BY DEF TakenInOrder
  <2>1. CASE u # s
    <3>1. /\ taken'[u] = taken[u] /\ enqueued'[u] = enqueued[u]
          /\ rx_head'[u] = rx_head[u] /\ rx_tail'[u] = rx_tail[u]
      BY <1>4, <2>1
    <3>2. /\ Len(taken[u]) \in Nat /\ Len(enqueued[u]) \in Nat
          /\ \A i \in Waits(u) : enqueued[u][i] \in Pkts /\ enqueued[u][i] \in Waiting(u)
      BY DEF UdpInv, UdpType, Waits, Waiting
    <3>3. \A i \in Waits(u) : next'[enqueued[u][i]] = next[enqueued[u][i]]
      BY <1>2, <1>9, <1>13, <1>14, <2>1, <3>2
    <3>4. /\ \A i \in Len(taken[u]) + 1 .. Len(enqueued[u]) - 1 : i \in Waits(u)
          /\ Len(taken[u]) < Len(enqueued[u]) => Len(enqueued[u]) \in Waits(u)
      BY <3>2 DEF Waits
    <3>5. Linked(u)'
      BY <3>1, <3>3, <3>4 DEF UdpInv, TakenInOrder, Linked
    <3> QED BY <3>1, <3>5 DEF UdpInv, TakenInOrder
  <2>2. CASE u = s
    <3>1. /\ Len(taken'[s]) = n /\ Len(enqueued'[s]) = Len(q) + 1
          /\ enqueued'[s][Len(q) + 1] = x /\ \A i \in 1 .. Len(q) : enqueued'[s][i] = q[i]
      BY <1>3, <1>4 DEF n
    <3>2. \A i \in 1 .. n : taken'[s][i] = enqueued'[s][i]
      BY <1>3, <1>4, <1>8, <3>1
    <3>3. next'[x] = NoPkt
      BY <1>1, <1>2, <1>9, <1>13, <1>14
    <3>4. \A i \in n + 1 .. Len(q) - 1 : next'[q[i]] = q[i + 1]
      <4> SUFFICES ASSUME NEW i \in n + 1 .. Len(q) - 1 PROVE next'[q[i]] = q[i + 1]
        OBVIOUS
      <4>1. /\ i \in 1 .. Len(q) /\ i \in n + 1 .. Len(q) /\ i # Len(q)
            /\ n < Len(q) /\ Len(q) \in n + 1 .. Len(q)
        BY <1>3
      <4>2. q[i] # q[Len(q)]
        BY <1>2, <1>9, <4>1 DEF Once, Waits, q, n
      <4>3. q[i] # x /\ q[i] # t /\ q[i] \in Pkts
        BY <1>2, <1>3, <1>8, <1>9, <1>16, <4>1, <4>2
      <4> QED BY <1>8, <1>14, <4>3
    <3>5. n < Len(q) => next'[q[Len(q)]] = x
      BY <1>3, <1>5, <1>8, <1>14
    <3>6. Linked(s)'
      <4>1. rx_head'[s] = enqueued'[s][n + 1] /\ rx_tail'[s] = x /\ n # Len(q) + 1
        <5>1. CASE n = Len(q)
          <6>1. rx_head[s] = NoPkt
            BY <1>8, <5>1, Zenon
          <6>2. rx_head'[s] = x /\ rx_tail'[s] = x
            BY <1>4, <6>1, Zenon
          <6>3. n # Len(q) + 1
            BY <1>3, <5>1
          <6> QED BY <3>1, <5>1, <6>2, <6>3, Zenon
        <5>2. CASE n < Len(q)
          <6>1. n + 1 \in 1 .. Len(q) /\ n # Len(q) /\ n # Len(q) + 1
            BY <1>3, <5>2
          <6>2. rx_head[s] = q[n + 1] /\ q[n + 1] # NoPkt
            BY <1>3, <1>5, <1>8, <6>1
          <6>3. rx_head'[s] = rx_head[s] /\ rx_tail'[s] = x
            BY <1>4, <6>2, Zenon
          <6> QED BY <3>1, <6>1, <6>2, <6>3, Zenon
        <5>3. n <= Len(q)
          BY <1>8
        <5> QED BY <1>3, <5>1, <5>2, <5>3
      <4>2. ASSUME NEW i \in n + 1 .. Len(q) PROVE next'[enqueued'[s][i]] = enqueued'[s][i + 1]
        <5>1. CASE i = Len(q)
          BY <1>3, <3>1, <3>5, <5>1
        <5>2. CASE i < Len(q)
          BY <1>3, <3>1, <3>4, <5>2
        <5> QED BY <1>3, <5>1, <5>2
      <4>3. Len(q) + 1 - 1 = Len(q)
        BY <1>3
      <4> QED BY <3>1, <3>3, <4>1, <4>2, <4>3 DEF Linked
    <3> QED BY <1>3, <1>8, <2>2, <3>1, <3>2, <3>6
  <2> QED BY <2>1, <2>2
<1>11. Somewhere'
  <2>1. \A u \in Socks : \A d \in Waiting(u) : d \in Waiting(u)'
    BY <1>10, Zenon
  <2>2. x \in Waiting(s)'
    BY <1>10, Zenon
  <2> QED BY <1>1, <1>18, <2>1, <2>2, Zenon DEF UdpInv, Somewhere
<1>12. OnePlace'
  <2>1. \A u \in Socks : Once(u)'
    BY <1>10
  <2>2. ASSUME NEW u \in Socks
        PROVE  /\ Waiting(u)' \subseteq live' \ undelivered'
               /\ hpkt' \notin Waiting(u)'
               /\ \A p \in Procs : pkt'[p] \notin Waiting(u)'
    <3>1. /\ Waiting(u) \subseteq live \ undelivered
          /\ \A p \in Procs : pkt[p] \notin Waiting(u)
      BY DEF UdpInv, OnePlace
    <3>2. Waiting(u)' \subseteq Waiting(u) \cup {x}
      BY <1>10, Zenon
    <3> QED BY <1>1, <1>9, <3>1, <3>2
  <2>3. ASSUME NEW u \in Socks, NEW v \in Socks, u # v
        PROVE  Waiting(u)' \cap Waiting(v)' = {}
    <3>1. Waiting(u) \cap Waiting(v) = {}
      BY <2>3 DEF UdpInv, OnePlace
    <3>2. x \notin Waiting(u) /\ x \notin Waiting(v)
      BY <1>9
    <3>3. \/ Waiting(u)' = Waiting(u) /\ Waiting(v)' \subseteq Waiting(v) \cup {x}
          \/ Waiting(v)' = Waiting(v) /\ Waiting(u)' \subseteq Waiting(u) \cup {x}
      BY <1>10, <2>3, Zenon
    <3> QED BY <3>1, <3>2, <3>3
  <2> QED BY <1>1, <2>1, <2>2, <2>3, Zenon DEF UdpInv, OnePlace
<1> QED BY <1>6, <1>7, <1>11, <1>12, <1>15 DEF UdpInv

(* At boot nothing has arrived.                                            *)
LEMMA UdpInitial == Init => UdpInv
<1> SUFFICES ASSUME Init PROVE UdpInv
  OBVIOUS
<1>1. \A s \in Socks : Waiting(s) = {} /\ Once(s)
  BY DEF Init, Waiting, Waits, Once
<1>2. UdpType
  BY DEF Init, UdpType, Datagrams, NoPkt, Labels
<1>3. Numbered /\ EmptyHanded /\ Somewhere
  BY DEF Init, Numbered, EmptyHanded, Somewhere
<1>4. OnePlace
  BY <1>1 DEF Init, OnePlace
<1>5. TakenInOrder
  BY DEF Init, TakenInOrder, Linked
<1> QED BY <1>2, <1>3, <1>4, <1>5 DEF UdpInv

(* Every step keeps the invariant.                                         *)
LEMMA UdpStep == UdpInv /\ [Next]_vars => UdpInv'
<1> SUFFICES ASSUME UdpInv, [Next]_vars PROVE UdpInv'
  OBVIOUS
<1>1. CASE UNCHANGED vars
  BY <1>1, QuietStep DEF vars, sockVars, procVars, UdpInv, UdpType
<1>2. ASSUME NEW p \in Procs, udp_bind(p) \/ RecvCall(p) \/ RecvSleep(p) \/ Kill(p) \/ Exit(p)
      PROVE  UdpInv'
  BY <1>2, CallsStep
<1>3. ASSUME NEW p \in Procs, RecvDequeue(p) \/ RecvReturn(p) PROVE UdpInv'
  BY <1>3, DequeueStep, ReturnStep
<1>4. CASE handle_udp_packet
  BY <1>4, LookupStep, RejectStep, EnqueueStep DEF handle_udp_packet
<1> QED BY <1>1, <1>2, <1>3, <1>4 DEF Next, udp_recvfrom

(* So it holds in every reachable state.                                   *)
LEMMA UdpInvariant == Spec => []UdpInv
  BY UdpInitial, UdpStep, PTL DEF Spec

(* The processes that share a socket take its datagrams in the order in    *)
(* which the interrupt queued them, none twice and none skipped, and the   *)
(* list between rx_head and rx_tail stays in one piece, for every number   *)
(* of processes, sockets, ports and frames (enqueue_udp_packet,            *)
(* dequeue_udp_packet).                                                    *)
THEOREM UdpTakenInOrder == Spec => []TakenInOrder
<1>1. UdpInv => TakenInOrder
  BY DEF UdpInv
<1> QED BY <1>1, UdpInvariant, PTL

(* Every page of the receive path is in one place, the interrupt, a queue  *)
(* or one process, until udp_recvfrom frees it, and what is never freed is *)
(* what no socket was bound for, for every number of them.                 *)
THEOREM UdpFramesAccounted == Spec => []FramesAccounted
<1>1. UdpInv => FramesAccounted
  BY PlacesAccount DEF UdpInv
<1> QED BY <1>1, UdpInvariant, PTL

(* What a socket is given is a frame of the wire that handle_packet took.  *)
Accepted(d) == d[1] \in 1 .. MaxPkts /\ handle_packet(Wire[d[1]]) # Failed

Parsed ==
  /\ hpkt # NoPkt => Accepted(hpkt)
  /\ \A s \in Socks : \A d \in Range(enqueued[s]) : Accepted(d)

(* Only HandleLookup takes a frame, and only one that parsed.              *)
LEMMA ParsedStep == UdpInv /\ Parsed /\ [Next]_vars => Parsed'
<1> SUFFICES ASSUME UdpInv, Parsed, [Next]_vars PROVE Parsed'
  OBVIOUS
<1>1. CASE UNCHANGED <<hpkt, enqueued>>
  BY <1>1 DEF Parsed
<1>2. CASE HandleLookup
  <2>1. MaxPkts \in Nat
    BY UdpConstants DEF MaxPkts
  <2>2. arrived \in Nat /\ arrived < MaxPkts /\ arrived' = arrived + 1
    BY <1>2 DEF HandleLookup, UdpInv, UdpType
  <2>3. arrived' \in 1 .. MaxPkts /\ handle_packet(Wire[arrived']) # Failed
    BY <1>2, <2>1, <2>2 DEF HandleLookup
  <2>4. hpkt' = hpkt \/ \E q \in PortNumbers : hpkt' = <<arrived', q>>
    BY <1>2 DEF HandleLookup
  <2>5. enqueued' = enqueued
    BY <1>2 DEF HandleLookup
  <2>6. hpkt' = hpkt \/ hpkt'[1] = arrived'
    BY <2>4
  <2> QED BY <2>3, <2>5, <2>6 DEF Parsed, Accepted
<1>3. CASE HandleEnqueue
  <2>1. /\ hpkt # NoPkt /\ hpkt' = NoPkt /\ hsock \in Socks /\ hpkt \in Pkts
        /\ enqueued' = [enqueued EXCEPT ![hsock] = Append(enqueued[hsock], hpkt)]
        /\ enqueued \in [Socks -> Seq(Pkts)]
    BY <1>3 DEF HandleEnqueue, UdpInv, UdpType
  <2>2. Range(Append(enqueued[hsock], hpkt)) = Range(enqueued[hsock]) \cup {hpkt}
    BY <2>1, Appended
  <2> QED BY <2>1, <2>2 DEF Parsed
<1>4. CASE HandleReject
  BY <1>1, <1>4 DEF HandleReject
<1>5. ASSUME NEW p \in Procs,
             udp_bind(p) \/ RecvCall(p) \/ udp_recvfrom(p) \/ Kill(p) \/ Exit(p)
      PROVE  UNCHANGED <<hpkt, enqueued>>
  BY <1>5, Zenon DEF udp_bind, BindCheck, BindInsert, BindRecord, RecvCall, udp_recvfrom,
              RecvSleep, RecvDequeue, RecvReturn, Kill, Exit
<1>6. CASE UNCHANGED vars
  BY <1>1, <1>6 DEF vars
<1> QED BY <1>1, <1>2, <1>3, <1>4, <1>5, <1>6 DEF Next, handle_udp_packet

(* At boot no frame was taken.                                             *)
LEMMA ParsedInitial == Init => Parsed
  BY DEF Init, Parsed, Range

(* So every frame that was queued had parsed.                              *)
LEMMA ParsedInvariant == Spec => []Parsed
  BY ParsedInitial, ParsedStep, UdpInvariant, PTL DEF Spec

(* When every datagram on the wire that handle_packet takes was sent by    *)
(* udp_sendto, from any ports and addresses and with any data and length   *)
(* that it accepts, then what a socket is given is what was sent, and only *)
(* a datagram of less than 18 bytes may have become longer, to 18: the     *)
(* lengths that are kept in 8 bits never make a datagram shorter.          *)
THEOREM UdpDeliveredWhole ==
  ASSUME \A n \in 1 .. MaxPkts : handle_packet(Wire[n]) # Failed =>
           \E sport, dport, data, src, dst : \E len \in Nat :
             ~TooLong(len) /\ SentBy(Wire[n], sport, dport, data, len, src, dst)
  PROVE  Spec => []DeliveredWhole
<1>1. ASSUME NEW d, Accepted(d)
      PROVE  LET sent == Wire[d[1]].udp.payload_len
                 got == handle_packet(Wire[d[1]])
             IN  IF sent < 18 THEN got \in {sent, 18} ELSE got = sent
  <2> DEFINE frame == Wire[d[1]]
             got == handle_packet(frame)
  <2>1. PICK sport, dport, data, src, dst : \E len \in Nat :
          ~TooLong(len) /\ SentBy(frame, sport, dport, data, len, src, dst)
    BY <1>1 DEF Accepted
  <2>2. PICK len \in Nat :
          ~TooLong(len) /\ SentBy(frame, sport, dport, data, len, src, dst)
    BY <2>1
  <2>3. got # Failed
    BY <1>1 DEF Accepted
  <2> HIDE DEF frame
  <2>4. frame.udp.payload_len = len /\ IF len < 18 THEN got \in {len, 18} ELSE got = len
    BY <2>2, <2>3, SentIsTaken
  <2> QED BY <2>4 DEF frame
<1>2. Parsed => DeliveredWhole
  BY <1>1, Zenon DEF Parsed, DeliveredWhole
<1> QED BY <1>2, ParsedInvariant, PTL
=============================================================================
