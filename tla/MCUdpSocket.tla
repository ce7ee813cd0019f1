---------------------------- MODULE MCUdpSocket ----------------------------
(* Processes and sockets for checking UdpSocket with TLC.                  *)
EXTENDS UdpSocket, TLC

CONSTANTS p1, p2, s1

TwoProcs == {p1, p2}
OneSock == {s1}

SharedSocket == p1 :> s1 @@ p2 :> s1

(* Frames with payloads of several lengths, the longest of which is not    *)
(* taken, one of TCP and one whose UDP length is more than the frame has.  *)
Sent(len) == Padded(udp_sendto(1, 1, 3 * len, len, <<49320, 1>>, <<49320, 2>>))
Frames == <<Sent(4), [Sent(20) EXCEPT !.ip.protocol = IPPROTO_TCP], Sent(300),
            Sent(227), [Sent(18) EXCEPT !.udp.len = 60], Sent(18)>>
=============================================================================
