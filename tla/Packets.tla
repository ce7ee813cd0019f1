-------------------------------- MODULE Packets --------------------------------
(* The packets of the stack, as far as their lengths and checksums go: what     *)
(* udp_sendto builds (udp.c, ip4.c, eth.c, net.c) and what handle_packet        *)
(* (virtio_net.c) makes of a frame that arrives.  Lengths keep the widths of    *)
(* the fields they are stored in.                                               *)
EXTENDS Integers

EthHdr == 14
Ip4Hdr == 20
UdpHdr == 8
TcpHdr == 20
MaxSend == 1500

PROTO_IPV4 == 2048
IPPROTO_TCP == 6
IPPROTO_UDP == 17

uint8(n) == n % 256
uint16(n) == n % 65536

Failed == -1

--------------------------------------------------------------------------------
(* Checksums: the words are added up, the carries are added twice, and the      *)
(* complement is taken.                                                         *)

fold(sum) == (sum \div 65536) + (sum % 65536)
chksum(sum) == 65535 - uint16(fold(sum) + (fold(sum) \div 65536))

(* An address is its two 16-bit words.  Words are read in network order: the    *)
(* sum of the swapped ones is the swapped sum.                                  *)
Words(addr) == addr[1] + addr[2]

(* The sum of the words udp_checksum goes through: pseudo-header, header and    *)
(* payload (of which data is the sum).                                          *)
UdpWords(udp, src, dst) ==
    Words(src) + Words(dst) + IPPROTO_UDP + udp.len
      + udp.src_port + udp.dst_port + udp.len + udp.data
udp_checksum(udp, src, dst) == chksum(UdpWords(udp, src, dst))

Ip4Words(ip) ==
    (64 + ip.ihl) * 256 + ip.total_len + 64 * 256 + ip.protocol
      + Words(ip.src) + Words(ip.dst)

--------------------------------------------------------------------------------
(* Building *)

build_udp(src_port, dst_port, data, payload_len, src, dst) ==
    LET udp == [src_port |-> src_port, dst_port |-> dst_port, data |-> data,
                len |-> uint16(payload_len + UdpHdr), payload_len |-> payload_len,
                csum |-> 0]
    IN  [udp EXCEPT !.csum = udp_checksum(udp, src, dst)]

build_ip4(src, dst, proto, len) ==
    LET ip == [ihl |-> 5, total_len |-> uint16(len), protocol |-> proto, src |-> src,
               dst |-> dst, csum |-> 0]
    IN  [ip EXCEPT !.csum = chksum(Ip4Words(ip))]

(* udp_sendto: what it refuses to send, and the frame it sends otherwise.       *)
TooLong(len) == len > MaxSend

udp_sendto(src_port, dst_port, data, len, src, dst) ==
    [type |-> PROTO_IPV4,
     udp |-> build_udp(src_port, dst_port, data, len, src, dst),
     ip |-> build_ip4(src, dst, IPPROTO_UDP, len + UdpHdr + Ip4Hdr),
     len |-> uint16(len + UdpHdr + Ip4Hdr + EthHdr)]

(* The network carries no frame of less than 60 bytes. *)
Padded(frame) == [frame EXCEPT !.len = IF @ < 60 THEN 60 ELSE @]

--------------------------------------------------------------------------------
(* Parsing: the length of the payload, or Failed *)

(* The length is computed in 16 bits and kept in 8. *)
parse_eth_packet(len) == uint8(uint16(len - EthHdr))

(* Mutant: the length a header claims is not looked at. *)
TooShort_never(said, len) == FALSE

(* A header claims more than there is. *)
TooShort(said, len) == said > len

parse_ip4_packet(len, ip) ==
    LET hdr_len == ip.ihl * 4 IN
    IF hdr_len < 20 \/ hdr_len > len \/ TooShort(ip.total_len, len) THEN Failed
    ELSE len - hdr_len

parse_udp_packet(len, udp) ==
    IF len < 8 \/ udp.len < 8 \/ TooShort(udp.len, len) THEN Failed ELSE len - UdpHdr

parse_tcp_packet(len, data_offset) ==
    LET hdr_len == data_offset * 4 IN
    IF len < 20 \/ hdr_len < 20 \/ hdr_len > len THEN Failed ELSE len - hdr_len

(* handle_packet(), up to the call of handle_udp_packet(): the length of the    *)
(* datagram, or Failed. For a packet of a protocol it knows handle_ip4_packet() *)
(* allocates a page, which only handle_udp_packet() passes on.                  *)
IpLen(frame) == parse_ip4_packet(parse_eth_packet(frame.len), frame.ip)

handle_ip4_packet(frame) ==
    /\ frame.type = PROTO_IPV4
    /\ IpLen(frame) # Failed
    /\ frame.ip.protocol \in {IPPROTO_TCP, IPPROTO_UDP}

handle_packet(frame) ==
    IF handle_ip4_packet(frame) /\ frame.ip.protocol = IPPROTO_UDP
    THEN parse_udp_packet(IpLen(frame), frame.udp) ELSE Failed
================================================================================
