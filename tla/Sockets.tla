-------------------------------- MODULE Sockets --------------------------------
(* The socket calls (sysproc.c, socket.c), TCP (tcp.c) and the binding of ports, *)
(* on the open files, descriptors and pages that Pipe.tla has.                  *)
(*                                                                              *)
(* sock_list has no lock, and a port table is read without its own: a step ends *)
(* where another process can come between a read and the write it leads to.     *)
(* sock_list->size is never set to 0 (kalloc() fills a page with 5), so it is   *)
(* beyond every index: getsock() stops at a match or at an empty entry, which   *)
(* it dereferences, and the list is never found full by its size.               *)
(* A null or wild dereference and a panic end the run with a fault.             *)
EXTENDS Pipe, Packets

CONSTANTS
    MAX_SOCKET_CAPACITY, MAX_PORT_BINDINGS,
    Byte,        \* 256 in the code: a port is two bytes
    Ports,       \* ports given to bind(), and of segments that arrive
    SocketArgs,  \* <<type, protocol>> given to socket()
    Loads        \* bound: pipes are read and written (io), or so many calls are made

ASSUME SocketsAssumption ==
    /\ MAX_SOCKET_CAPACITY \in Nat /\ MAX_PORT_BINDINGS \in Nat /\ Byte \in Nat \ {0}
    /\ Ports \subseteq 0..(Byte * Byte - 1)
    /\ SocketArgs \subseteq Nat \X Nat

SOCK_STREAM == 1
SOCK_DGRAM == 2

VARIABLES
    socket,      \* struct socket in each page
    sock_list,   \* sock_list->socks
    binds,       \* tcp_port_binds and udp_port_binds, by protocol
    bound,       \* what a process works on: a socket, a slot of the list, a port
    fault,       \* what the kernel stopped with
    misuse,      \* history: a process did something the layer does not support
    maker,       \* history: the process that last made a socket
    astray,      \* history: a call worked on a socket that is not the descriptor's
    displaced,   \* history: sockets whose port another bind() took over
    load

sockVars == <<socket, sock_list, binds, bound, fault, misuse, maker, astray,
              displaced, load>>
allVars == <<vars, sockVars>>

Slots == 0..(MAX_SOCKET_CAPACITY - 1)
NoSocket == [proto |-> 0, type |-> 0, state |-> "none", src_port |-> 0, fd |-> 0]
NoWork == [sock |-> None, slot |-> 0, port |-> 0]

SInit ==
    /\ Init
    /\ socket = [g \in Pages |-> NoSocket]
    /\ sock_list = [i \in Slots |-> None]
    /\ binds = [t \in {IPPROTO_TCP, IPPROTO_UDP} |->
                  [q \in 0..(MAX_PORT_BINDINGS - 1) |-> None]]
    /\ bound = [p \in Procs |-> NoWork]
    /\ fault = "none" /\ misuse = FALSE /\ maker = None /\ astray = FALSE /\ displaced = {}
    /\ load \in Loads

(* Bound: the calls and segments of a run with sockets are counted. *)
Count == load.calls > 0 /\ load' = [load EXCEPT !.calls = @ - 1]
Counted == IF load.io THEN UNCHANGED load ELSE Count

(* A system call of the layer begins. *)
Calls(p) == Traps(p) /\ Count

(* The socket of an open descriptor, the test each call by descriptor makes.    *)
IsSocket(p, d) == ofile[p][d] # NoFile /\ file[ofile[p][d]].type = "socket"
SocketOf(p, d) == file[ofile[p][d]].sock

(* sock->ops is null until initsocket() has accepted its arguments, and a table *)
(* of operations has null entries.                                              *)
Supported(s, op) ==
    CASE socket[s].proto = IPPROTO_TCP -> op \in {"bind", "listen", "close"}
      [] socket[s].proto = IPPROTO_UDP -> op \in {"bind", "transfer", "close"}
      [] OTHER -> FALSE

Faults(what, why) == /\ fault' = what
                     /\ misuse' = (misuse \/ why)

--------------------------------------------------------------------------------
(* sys_socket() *)

(* The checks of initsocket(); 0 when it fails. *)
ProtocolOf(type, protocol) ==
    LET default == IF type = SOCK_STREAM THEN IPPROTO_TCP ELSE IPPROTO_UDP
        proto == IF protocol = 0 THEN default ELSE protocol
    IN  IF <<type, proto>> \in {<<SOCK_STREAM, IPPROTO_TCP>>, <<SOCK_DGRAM, IPPROTO_UDP>>}
        THEN proto ELSE 0

(* Mutant: an entry is taken without a look at what it holds. *)
FreeSlots_all == Slots

FreeSlots == {i \in Slots : sock_list[i] = None}

(* A page is cleared and filled in, and sock_list_insert() finds a free entry.  *)
initsocket(p, type, protocol) ==
    LET proto == ProtocolOf(type, protocol)
        lists == proto # 0 /\ FreeSlots # {}
    IN
    /\ Calls(p)
    /\ \E g \in Pages :
         /\ page[g] = "free"
         /\ page' = [page EXCEPT ![g] = "socket"]
         /\ socket' = [socket EXCEPT ![g] =
                         IF proto = 0 THEN NoSocket
                         ELSE [NoSocket EXCEPT !.proto = proto, !.type = type,
                                               !.state = "CLOSED"]]
         /\ bound' = [bound EXCEPT ![p] =
                        [NoWork EXCEPT !.sock = g,
                                       !.slot = IF lists THEN Lowest(FreeSlots) ELSE 0]]
    /\ Goto(p, IF lists THEN "sock_insert" ELSE "sock_file")
    /\ maker' = p
    /\ misuse' = (misuse \/ ~lists \/ maker \notin {None, p})
    /\ UNCHANGED <<file, ofile, pipe, call, killed, got, abandoned, sock_list, binds,
                   fault, astray, displaced>>

sock_list_insert(p) ==
    /\ At(p, "sock_insert")
    /\ sock_list' = [sock_list EXCEPT ![bound[p].slot] = bound[p].sock]
    /\ Goto(p, "sock_file")
    /\ UNCHANGED <<file, ofile, page, pipe, call, killed, got, abandoned, socket, binds,
                   bound, fault, misuse, maker, astray, displaced, load>>

(* A file and a descriptor, or the page is given back: the list keeps it. The   *)
(* file keeps the readable and writable of the one that had its entry before.   *)
SockFile(p) ==
    LET g == bound[p].sock
        made == FreeFiles # {} /\ FreeFds(p) # {}
        f == Lowest(FreeFiles)
        d == Lowest(FreeFds(p))
    IN
    /\ At(p, "sock_file")
    /\ Goto(p, "user")
    /\ bound' = [bound EXCEPT ![p] = NoWork]
    /\ \/ /\ made
          /\ file' = [file EXCEPT ![f].ref = 1, ![f].type = "socket", ![f].sock = g]
          /\ ofile' = [ofile EXCEPT ![p][d] = f]
          /\ socket' = [socket EXCEPT ![g].fd = d]
          /\ UNCHANGED <<page, misuse>>
       \/ /\ ~made
          /\ page' = [page EXCEPT ![g] = "free"]
          /\ misuse' = TRUE
          /\ UNCHANGED <<file, ofile, socket>>
    /\ UNCHANGED <<pipe, call, killed, got, abandoned, sock_list, binds, fault, maker,
                   astray, displaced, load>>

sys_socket(p) == \/ \E a \in SocketArgs : initsocket(p, a[1], a[2])
                 \/ sock_list_insert(p)
                 \/ SockFile(p)

--------------------------------------------------------------------------------
(* bind(). A binding is kept as the socket it leads to. *)

(* The bytes of a port in the order of the network. *)
htons(q) == (q % Byte) * Byte + q \div Byte

(* tcp_bind() tests the port before ntohs(), udp_bind() after it. *)
InRange(proto, q) ==
    IF proto = IPPROTO_TCP THEN htons(q) <= MAX_PORT_BINDINGS
                           ELSE q > 0 /\ q < MAX_PORT_BINDINGS

pipeOnly == <<file, ofile, page, pipe, call, killed, got, abandoned>>

(* A port out of range or in use is refused, and nothing has changed. *)
BindCheck(p, d, q) ==
    LET s == SocketOf(p, d)
        proto == socket[s].proto IN
    /\ Calls(p) /\ IsSocket(p, d)
    /\ \/ /\ ~Supported(s, "bind")
          /\ Faults("bind of null", FALSE)
          /\ UNCHANGED <<pc, bound>>
       \/ /\ Supported(s, "bind") /\ InRange(proto, q)
          /\ q >= MAX_PORT_BINDINGS
          /\ \/ Faults("outside the port table", FALSE)
             \/ UNCHANGED <<fault, misuse>>
          /\ UNCHANGED <<pc, bound>>
       \/ /\ Supported(s, "bind") /\ InRange(proto, q)
          /\ q < MAX_PORT_BINDINGS
          /\ binds[proto][q] = None
          /\ bound' = [bound EXCEPT ![p] = [NoWork EXCEPT !.sock = s, !.port = q]]
          /\ Goto(p, "bind_insert")
          /\ UNCHANGED <<fault, misuse>>
    /\ UNCHANGED <<pipeOnly, socket, sock_list, binds, maker, astray, displaced>>

(* insert_port_binding() overwrites what is there. *)
insert_port_binding(s, q) ==
    LET t == socket[s].proto IN
    /\ binds' = [binds EXCEPT ![t][q] = s]
    /\ displaced' = displaced \cup ({binds[t][q]} \ {None, s})

BindInsert(p) ==
    /\ At(p, "bind_insert")
    /\ insert_port_binding(bound[p].sock, bound[p].port)
    /\ Goto(p, "bind_record")
    /\ UNCHANGED <<pipeOnly, socket, sock_list, bound, fault, misuse, maker, astray, load>>

BindRecord(p) ==
    LET s == bound[p].sock IN
    /\ At(p, "bind_record")
    /\ socket' = [socket EXCEPT ![s].src_port = bound[p].port, ![s].state = "BOUND"]
    /\ bound' = [bound EXCEPT ![p] = NoWork]
    /\ Goto(p, "user")
    /\ UNCHANGED <<pipeOnly, sock_list, binds, fault, misuse, maker, astray, displaced, load>>

sys_bind(p) == \/ \E d \in Fds, q \in Ports : BindCheck(p, d, q)
               \/ BindInsert(p)
               \/ BindRecord(p)

--------------------------------------------------------------------------------
(* listen() and accept() look the socket up by number, in every process's       *)
(* sockets, and not in the descriptors of the caller.                           *)

Wild == "wild"

(* getsock(): the entries are read in order. An empty one is dereferenced; one  *)
(* whose page was given back holds the fill of kfree(), which is no number, or, *)
(* if it is a pipe now, bytes that may match.                                   *)
getsock(d) ==
    LET stops == {i \in Slots : \/ sock_list[i] = None
                               \/ /\ page[sock_list[i]] = "socket"
                                  /\ socket[sock_list[i]].fd = d}
        reused == {i \in Slots : sock_list[i] # None /\ page[sock_list[i]] = "pipe"}
        first == Lowest(stops)
    IN  (IF stops = {} \/ sock_list[first] = None THEN {Wild} ELSE {sock_list[first]})
        \cup (IF \E i \in reused : i \notin stops /\ (stops = {} \/ i < first)
              THEN {Wild} ELSE {})

(* The call is given the number that socket() returned to this process. *)
OwnNumber(p, d) == IsSocket(p, d) /\ socket[SocketOf(p, d)].fd = d
Unsupported(p, d, op) == IsSocket(p, d) /\ ~Supported(SocketOf(p, d), op)
GoesAstray(p, d, s) == astray' = (astray \/ ~IsSocket(p, d) \/ SocketOf(p, d) # s)

(* Only a bound socket can listen. *)
tcp_listen(s) ==
    socket' = IF socket[s].state = "BOUND"
              THEN [socket EXCEPT ![s].state = "LISTENING"] ELSE socket

(* The result of tcp_listen() is not looked at. *)
listen(p, d) ==
    /\ Calls(p)
    /\ \E s \in getsock(d) :
         \/ /\ s = Wild
            /\ Faults("wild socket", ~OwnNumber(p, d))
            /\ UNCHANGED <<socket, astray>>
         \/ /\ s # Wild
            /\ ~Supported(s, "listen")
            /\ Faults("listen of null", ~OwnNumber(p, d) \/ Unsupported(p, d, "listen"))
            /\ GoesAstray(p, d, s)
            /\ UNCHANGED socket
         \/ /\ s # Wild
            /\ Supported(s, "listen")
            /\ tcp_listen(s)
            /\ misuse' = (misuse \/ ~OwnNumber(p, d))
            /\ GoesAstray(p, d, s)
            /\ UNCHANGED fault
    /\ UNCHANGED <<pipeOnly, pc, sock_list, binds, bound, maker, displaced>>

(* accept(): sock->pending is never set, and its loop does not look at killed:  *)
(* who waits there stays there.                                                 *)
accept(p, d) ==
    /\ Calls(p)
    /\ \E s \in getsock(d) :
         \/ /\ s = Wild
            /\ Faults("wild socket", ~OwnNumber(p, d))
            /\ UNCHANGED <<pc, astray>>
         \/ /\ s # Wild
            /\ IF socket[s].proto = IPPROTO_TCP /\ socket[s].state = "LISTENING"
               THEN Goto(p, "accept") ELSE UNCHANGED pc
            /\ misuse' = (misuse \/ ~OwnNumber(p, d))
            /\ GoesAstray(p, d, s)
            /\ UNCHANGED fault
    /\ UNCHANGED <<pipeOnly, socket, sock_list, binds, bound, maker, displaced>>

sys_listen(p) == \E d \in Fds : listen(p, d)
sys_accept(p) == \E d \in Fds : accept(p, d)

--------------------------------------------------------------------------------
(* The other calls on a descriptor of a socket *)

(* fileread() and filewrite() have no case for a socket: they return -1 or      *)
(* panic, by what the entry of the file was used for before.                    *)
ReadWrite(p, d, writing) ==
    LET f == file[ofile[p][d]] IN
    /\ Calls(p) /\ IsSocket(p, d)
    /\ misuse' = TRUE
    /\ fault' = IF (IF writing THEN f.writable ELSE f.readable)
                THEN "fileread or filewrite" ELSE fault
    /\ UNCHANGED <<pipeOnly, pc, socket, sock_list, binds, bound, maker, astray, displaced>>

(* sys_sendto() and sys_recvfrom(), up to the call into the protocol. *)
Transfer(p, d) ==
    /\ Calls(p) /\ IsSocket(p, d)
    /\ ~Supported(SocketOf(p, d), "transfer")
    /\ Faults("transfer of null", TRUE)
    /\ UNCHANGED <<pipeOnly, pc, socket, sock_list, binds, bound, maker, astray, displaced>>

(* Mutant: the close gives the page of the socket back. *)
SockClosed_freed(s) == "free"

(* udp_close() and tcp_close() do nothing: the socket keeps its page, its entry *)
(* of the list and its port.                                                    *)
SockClosed(s) == page[s]

(* The close of a socket reads f->sock again, after the entry was released.     *)
CloseSock(p) ==
    LET s == file[call[p].i].sock IN
    /\ pc[p] \in {"close_sock", "exit_sock"}
    /\ Goto(p, IF pc[p] = "exit_sock" THEN "exit" ELSE "user")
    /\ call' = [call EXCEPT ![p] = NoCall]
    /\ fault' = IF Supported(s, "close") THEN fault ELSE "close of null"
    /\ page' = [page EXCEPT ![s] = SockClosed(s)]
    /\ UNCHANGED <<file, ofile, pipe, killed, got, abandoned, socket, sock_list, binds,
                   bound, misuse, maker, astray, displaced, load>>

(* handle_tcp_packet(), for a segment whose only flag is SYN: type is           *)
(* SOCK_STREAM or SOCK_DGRAM, and is compared with IPPROTO_TCP.  No other       *)
(* segment has an effect.  The port indexes the table unchecked.                *)
handle_tcp_packet(q) ==
    /\ Count
    /\ \/ /\ q >= MAX_PORT_BINDINGS
          /\ \/ Faults("outside the port table", FALSE)
             \/ UNCHANGED <<fault, misuse>>
          /\ UNCHANGED socket
       \/ /\ q < MAX_PORT_BINDINGS
          /\ socket' =
               [s \in Pages |->
                  IF /\ binds[IPPROTO_TCP][q] = s
                     /\ socket[s].type = IPPROTO_TCP
                     /\ socket[s].state = "LISTENING"
                  THEN [socket[s] EXCEPT !.state = "SYN_RECVD"] ELSE socket[s]]
          /\ UNCHANGED <<fault, misuse>>
    /\ UNCHANGED <<pipeOnly, pc, sock_list, binds, bound, maker, astray, displaced>>

--------------------------------------------------------------------------------
(* The steps of Pipe.tla. A process that made sockets and closes one may be     *)
(* given its number again.                                                      *)
Piping ==
    /\ \/ /\ \/ \E p \in Procs : sys_pipe(p) \/ ExitStart(p)
             \/ \E p \in Procs, d \in Fds : sys_dup(p, d) \/ sys_close(p, d)
             \/ \E p, q \in Procs : fork(p, q)
          /\ Counted
       \/ /\ load.io
          /\ \/ \E p \in Procs, d \in Fds, n \in Lens, w \in BOOLEAN : Enter(p, d, n, w)
             \/ \E q \in Procs : kill(q)
          /\ UNCHANGED load
       \/ /\ \E p \in Procs : \/ pipeclose(p) \/ pipewrite(p) \/ piperead(p)
                             \/ ExitClose(p) \/ ExitDone(p)
          /\ UNCHANGED load
    /\ misuse' = \/ misuse
                 \/ /\ maker # None
                    /\ \E d \in Fds : IsSocket(maker, d) /\ ofile'[maker][d] = NoFile
    /\ UNCHANGED <<socket, sock_list, binds, bound, fault, maker, astray, displaced>>

Socketing(p) ==
    \/ sys_socket(p) \/ sys_bind(p) \/ sys_listen(p) \/ sys_accept(p)
    \/ \E d \in Fds : Transfer(p, d)
    \/ \E d \in Fds, w \in BOOLEAN : ReadWrite(p, d, w)
    \/ CloseSock(p)

SNext == /\ fault = "none"
         /\ \/ Piping
            \/ \E p \in Procs : Socketing(p)
            \/ \E q \in Ports : handle_tcp_packet(q)

SSpec == SInit /\ [][SNext]_allVars

--------------------------------------------------------------------------------
(* What leads to a socket leads to a live one. The page of an open file's       *)
(* socket is allocated, as a socket and as that of one file only, whatever      *)
(* calls fail and whoever shares, duplicates and closes the descriptor: a       *)
(* close, which reads f->sock when the entry may have been given to another     *)
(* file, never takes the socket from under that file. An entry of a port table  *)
(* names an allocated socket of the table's protocol. And a socket that is      *)
(* bound or listens is the one its port leads to, unless two binds of the port  *)
(* ran at once: the table is read before the lock is taken.                     *)
SocketsReachable ==
    LET open == {f \in Files : file[f].ref > 0 /\ file[f].type = "socket"}
        ports == {<<t, q>> \in (DOMAIN binds) \X (0..(MAX_PORT_BINDINGS - 1)) :
                    binds[t][q] # None}
    IN
    /\ \A f \in open : page[file[f].sock] = "socket"
    /\ \A f, h \in open : file[f].sock = file[h].sock => f = h
    /\ \A b \in ports : LET s == binds[b[1]][b[2]] IN
                       page[s] = "socket" /\ socket[s].proto = b[1]
    /\ \A s \in Pages \ displaced :
         page[s] = "socket" /\ socket[s].state \in {"BOUND", "LISTENING"}
           => binds[socket[s].proto][socket[s].src_port] = s

(* As long as one process makes the sockets, all its socket() calls succeed, it *)
(* closes none and uses each by its own number and for what its protocol has,   *)
(* listen() and accept() work on the socket of their descriptor, and the kernel *)
(* stops for one reason only: a TCP port beyond the table, which needs no       *)
(* misuse.  tcp_bind() tests such a port before it swaps the bytes, and         *)
(* handle_tcp_packet() does not test it: a segment from the network is enough.  *)
FaultNeedsMisuse ==
    /\ astray => misuse
    /\ fault \notin {"none", "outside the port table"} => misuse

================================================================================
