------------------------------- MODULE MCSockets -------------------------------
EXTENDS Sockets, TLC

CONSTANTS p1, p2, g1, g2

TwoProcs == {p1, p2}
TwoPages == {g1, g2}

(* TCP by default, UDP by name, and a pair initsocket() refuses. *)
ThreeArgs == {<<SOCK_STREAM, 0>>, <<SOCK_DGRAM, IPPROTO_UDP>>, <<SOCK_STREAM, IPPROTO_UDP>>}

EitherPage == Permutations(TwoPages)

(* Pipes that are read and written, or calls on sockets, pipes and processes. *)
IoOrCalls == {[io |-> TRUE, calls |-> 0], [io |-> FALSE, calls |-> 5]}
================================================================================
