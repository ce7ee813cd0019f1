--------------------------------- MODULE Console ---------------------------------
(* The console (console.c) and the driver of the UART below it (uart.c):        *)
(* processes in consoleread() and consolewrite(), the interrupt handler that    *)
(* edits the input line, echoes it and sends what waits, and the UART.          *)
(* A character written is its number in the order of uartputc().                *)
EXTENDS Integers, Sequences, FiniteSets, SequencesExt

CONSTANTS
    Readers, Writers,   \* processes
    INPUT_BUF_SIZE, UART_TX_BUF_SIZE,
    CtrMod,             \* the counters are unsigned numbers below it
    Loads,              \* bounds: which keys and how many are typed, characters
                        \* written, kills, panics
    ReadMax             \* bound: characters asked for by a read()

ASSUME ConsoleAssumption ==
    /\ {INPUT_BUF_SIZE, UART_TX_BUF_SIZE, ReadMax} \subseteq Nat \ {0}
    /\ CtrMod % INPUT_BUF_SIZE = 0 /\ CtrMod > INPUT_BUF_SIZE
    /\ Readers \cap Writers = {} /\ "intr" \notin Readers \cup Writers

Procs == Readers \cup Writers
Actors == Procs \cup {"intr"}
Editing == {"U", "H", "P"}
None == "none"

VARIABLES
    cons,           \* buf, r, w, e
    cons_lock, uart_tx_lock,    \* their holders
    tx,             \* uart_tx_buf, uart_tx_r, uart_tx_w
    pc,
    n,              \* characters a process has still to read or to write
    target,         \* characters a reader asked for
    killed,
    echo,           \* what the interrupt handler has still to echo, and its key
    rhr, thr,       \* the receiver and the transmitter of the UART
    pending,        \* its interrupt
    out,            \* numbers of the characters written that it was given
    left,           \* of a member of Loads
    panicked

input == <<cons, cons_lock, n, target, killed>>
output == <<tx, uart_tx_lock, out>>
uart == <<rhr, thr, pending>>
vars == <<input, output, uart, pc, echo, left, panicked>>

NoEcho == [key |-> "", left |-> 0]

Init == /\ cons = [buf |-> [i \in 0..(INPUT_BUF_SIZE - 1) |-> ""], r |-> 0, w |-> 0, e |-> 0]
        /\ cons_lock = None /\ uart_tx_lock = None
        /\ tx = [buf |-> [i \in 0..(UART_TX_BUF_SIZE - 1) |-> 0], r |-> 0, w |-> 0]
        /\ pc = [p \in Actors |-> "idle"]
        /\ n = [p \in Procs |-> 0] /\ target = [p \in Readers |-> 0]
        /\ killed = {}
        /\ echo = NoEcho
        /\ rhr = <<>> /\ thr = <<>> /\ pending = FALSE
        /\ out = <<>> /\ left \in Loads
        /\ panicked = FALSE

At(p, label) == pc[p] = label
Goto(p, label) == pc' = [pc EXCEPT ![p] = label]
Wakeup(S, from, to) == [q \in Actors |-> IF q \in S /\ pc[q] = from THEN to ELSE pc[q]]

Plus(a, b) == (a + b) % CtrMod
Minus(a, b) == (a + CtrMod - b) % CtrMod
Slot(i) == i % INPUT_BUF_SIZE

--------------------------------------------------------------------------------
(* The UART and the world.  Its interrupt is raised when a character arrives    *)
(* and when its transmitter has become empty.                                   *)

Typed(c) == /\ rhr = <<>> /\ left.keys > 0
            /\ left' = [left EXCEPT !.keys = @ - 1]
            /\ rhr' = <<c>> /\ pending' = TRUE
            /\ UNCHANGED <<input, output, thr, pc, echo, panicked>>

Transmitted == /\ thr # <<>>
               /\ thr' = Tail(thr)
               /\ pending' = (pending \/ Len(thr) = 1)
               /\ UNCHANGED <<input, output, rhr, pc, echo, left, panicked>>

(* LSR_TX_IDLE *)
TxIdle == thr = <<>>

kill(p) == /\ left.kills > 0 /\ left' = [left EXCEPT !.kills = @ - 1]
           /\ killed' = killed \cup {p}
           /\ pc' = Wakeup({p}, "r sleeps", "r lock")
           /\ UNCHANGED <<cons, cons_lock, n, target, output, uart, echo, panicked>>

(* panic() elsewhere in the kernel *)
panic == /\ left.panics > 0 /\ left' = [left EXCEPT !.panics = @ - 1]
         /\ panicked' = TRUE
         /\ UNCHANGED <<input, output, uart, pc, echo>>

--------------------------------------------------------------------------------
(* consoleread() *)

read(p, k) == /\ At(p, "idle") /\ p \notin killed
              /\ n' = [n EXCEPT ![p] = k] /\ target' = [target EXCEPT ![p] = k]
              /\ Goto(p, "r lock")
              /\ UNCHANGED <<cons, cons_lock, killed, output, uart, echo, left, panicked>>

readLock(p) == /\ At(p, "r lock") /\ cons_lock = None
               /\ cons_lock' = p
               /\ Goto(p, "r loop")
               /\ UNCHANGED <<cons, n, target, killed, output, uart, echo, left, panicked>>

Return(p) == /\ cons_lock' = None
             /\ n' = [n EXCEPT ![p] = 0] /\ target' = [target EXCEPT ![p] = 0]
             /\ Goto(p, "idle")

(* No input: killed(), and then sleep(). *)
readEmpty_unlocks(p) == /\ At(p, "r loop") /\ n[p] > 0 /\ cons.r = cons.w
                        /\ cons_lock' = None
                        /\ Goto(p, "r sleep")
                        /\ UNCHANGED <<cons, n, target, killed, output, uart, echo, left, panicked>>

readEmpty(p) == /\ At(p, "r loop") /\ n[p] > 0 /\ cons.r = cons.w
                /\ \/ p \in killed /\ Return(p)
                   \/ p \notin killed /\ Goto(p, "r sleep") /\ UNCHANGED <<cons_lock, n, target>>
                /\ UNCHANGED <<cons, killed, output, uart, echo, left, panicked>>

readSleep(p) == /\ At(p, "r sleep")
                /\ cons_lock' = None
                /\ Goto(p, "r sleeps")
                /\ UNCHANGED <<cons, n, target, killed, output, uart, echo, left, panicked>>

(* A character is taken and copied out.  The end of file stays for the next     *)
(* read() if this one has read something; the copy may fail.                    *)
TakeChar_drops(p, c) == cons' = [cons EXCEPT !.r = Plus(@, 1)]
TakeChar(p, c) == cons' = IF c = "D" /\ n[p] < target[p] THEN cons ELSE [cons EXCEPT !.r = Plus(@, 1)]

readChar(p) ==
    LET c == cons.buf[Slot(cons.r)]
        done == n' = n /\ Goto(p, "r done")
    IN /\ At(p, "r loop") /\ n[p] > 0 /\ cons.r # cons.w
       /\ TakeChar(p, c)
       /\ \/ done
          \/ /\ c # "D"
             /\ n' = [n EXCEPT ![p] = @ - 1]
             /\ Goto(p, IF c = "nl" THEN "r done" ELSE "r loop")
       /\ UNCHANGED <<cons_lock, target, killed, output, uart, echo, left, panicked>>

readDone(p) == /\ At(p, "r done") \/ (At(p, "r loop") /\ n[p] = 0)
               /\ Return(p)
               /\ UNCHANGED <<cons, killed, output, uart, echo, left, panicked>>

--------------------------------------------------------------------------------
(* uartintr(): consoleintr() for every character that waits, with the echo by   *)
(* uartputc_sync() under cons.lock, then uartstart().                           *)

(* The PLIC gives the interrupt to one processor until it is served. *)
uartintr == /\ At("intr", "idle") /\ pending
            /\ pending' = FALSE
            /\ Goto("intr", "getc")
            /\ UNCHANGED <<input, output, rhr, thr, echo, left, panicked>>

(* Characters echoed for key c; a backspace is three. *)
Echoes(c) ==
    CASE c = "U" -> 3 * Minus(cons.e, cons.w)
      [] c = "H" -> IF cons.e # cons.w THEN 3 ELSE 0
      [] c = "P" -> 0
      [] OTHER -> IF Minus(cons.e, cons.r) < INPUT_BUF_SIZE THEN 1 ELSE 0

uartgetc ==
    /\ At("intr", "getc")
    /\ \/ /\ rhr # <<>> /\ cons_lock = None
          /\ cons_lock' = "intr"
          /\ echo' = [key |-> Head(rhr), left |-> Echoes(Head(rhr))]
          /\ rhr' = Tail(rhr)
          /\ Goto("intr", "echo")
       \/ rhr = <<>> /\ Goto("intr", "tx lock") /\ UNCHANGED <<cons_lock, echo, rhr>>
    /\ UNCHANGED <<cons, n, target, killed, output, thr, pending, left, panicked>>

(* uartputc_sync(): it waits for the transmitter, and nothing keeps others from *)
(* doing so at the same time.                                                   *)
echoWait == /\ At("intr", "echo") /\ echo.left > 0 /\ TxIdle /\ ~panicked
            /\ Goto("intr", "echo put")
            /\ UNCHANGED <<input, output, uart, echo, left, panicked>>

echoPut == /\ At("intr", "echo put")
           /\ thr' = Append(thr, "echo")
           /\ echo' = [echo EXCEPT !.left = @ - 1]
           /\ Goto("intr", "echo")
           /\ UNCHANGED <<input, output, rhr, pending, left, panicked>>

Fits(c) == Minus(cons.e, cons.r) < INPUT_BUF_SIZE

Enters(c, e) == c \in {"nl", "D"} \/ Minus(e, cons.r) = INPUT_BUF_SIZE

(* The switch of consoleintr() *)
consoleintr ==
    LET c == echo.key
        e == Plus(cons.e, 1)
    IN /\ At("intr", "echo") /\ echo.left = 0
       /\ \/ c \notin Editing /\ Fits(c) /\ Enters(c, e)
             /\ cons' = [cons EXCEPT !.buf[Slot(cons.e)] = c, !.e = e, !.w = e]
             /\ pc' = [Wakeup(Readers, "r sleeps", "r lock") EXCEPT !["intr"] = "getc"]
          \/ c \notin Editing /\ Fits(c) /\ ~Enters(c, e)
             /\ cons' = [cons EXCEPT !.buf[Slot(cons.e)] = c, !.e = e]
             /\ Goto("intr", "getc")
          \/ c \notin Editing /\ ~Fits(c) /\ UNCHANGED cons /\ Goto("intr", "getc")
          \/ c = "U" /\ cons' = [cons EXCEPT !.e = cons.w] /\ Goto("intr", "getc")
          \/ /\ c = "H" /\ Goto("intr", "getc")
             /\ cons' = IF cons.e # cons.w THEN [cons EXCEPT !.e = Minus(@, 1)] ELSE cons
          \/ c = "P" /\ UNCHANGED cons /\ Goto("intr", "getc")
       /\ cons_lock' = None
       /\ echo' = NoEcho
       /\ UNCHANGED <<n, target, killed, output, uart, left, panicked>>

--------------------------------------------------------------------------------
(* consolewrite(): uartputc() for each character *)

write(p, k) == /\ At(p, "idle") /\ k <= left.bytes
               /\ left' = [left EXCEPT !.bytes = @ - k]
               /\ n' = [n EXCEPT ![p] = k]
               /\ Goto(p, "putc")
               /\ UNCHANGED <<cons, cons_lock, target, killed, output, uart, echo, panicked>>

TxFull_late == tx.w = tx.r + UART_TX_BUF_SIZE + 1
TxFull == tx.w = tx.r + UART_TX_BUF_SIZE

(* panicked is tested once, before the loop that waits for room. *)
uartputc(p) ==
    /\ pc[p] \in {"putc", "putc room"} /\ uart_tx_lock = None
    /\ \/ /\ At(p, "putc") /\ panicked
          /\ uart_tx_lock' = p /\ Goto(p, "spins") /\ UNCHANGED <<tx, n>>
       \/ /\ At(p, "putc") => ~panicked
          /\ TxFull
          /\ Goto(p, "w sleeps") /\ UNCHANGED <<tx, n, uart_tx_lock>>
       \/ /\ At(p, "putc") => ~panicked
          /\ ~TxFull
          /\ tx' = [tx EXCEPT !.buf[tx.w % UART_TX_BUF_SIZE] = tx.w, !.w = @ + 1]
          /\ n' = [n EXCEPT ![p] = @ - 1]
          /\ uart_tx_lock' = p
          /\ Goto(p, "start")
    /\ UNCHANGED <<cons, cons_lock, target, killed, out, uart, echo, left, panicked>>

txLock == /\ At("intr", "tx lock") /\ uart_tx_lock = None
          /\ uart_tx_lock' = "intr"
          /\ Goto("intr", "start")
          /\ UNCHANGED <<input, tx, out, uart, echo, left, panicked>>

(* uartstart(): a turn that takes a character, and the end of the loop.         *)
WakeWriters_none == pc
WakeWriters == Wakeup(Writers, "w sleeps", "putc room")

uartstart(a) ==
    /\ At(a, "start") /\ tx.r # tx.w /\ TxIdle
    /\ out' = Append(out, tx.buf[tx.r % UART_TX_BUF_SIZE])
    /\ tx' = [tx EXCEPT !.r = @ + 1]
    /\ pc' = [WakeWriters EXCEPT ![a] = "thr"]
    /\ UNCHANGED <<input, uart_tx_lock, uart, echo, left, panicked>>

writeThr(a) == /\ At(a, "thr")
               /\ thr' = Append(thr, "byte")
               /\ Goto(a, "start")
               /\ UNCHANGED <<input, output, rhr, pending, echo, left, panicked>>

started(a) == /\ At(a, "start") /\ (tx.r = tx.w \/ ~TxIdle)
              /\ uart_tx_lock' = None
              /\ Goto(a, IF a = "intr" \/ n[a] = 0 THEN "idle" ELSE "putc")
              /\ UNCHANGED <<input, tx, out, uart, echo, left, panicked>>

--------------------------------------------------------------------------------
Reader(p) == readLock(p) \/ readEmpty(p) \/ readSleep(p) \/ readChar(p) \/ readDone(p)
Start(a) == uartstart(a) \/ writeThr(a) \/ started(a)
Writer(p) == uartputc(p) \/ Start(p)
Handler == uartintr \/ uartgetc \/ echoWait \/ echoPut \/ consoleintr \/ txLock \/ Start("intr")

Next == \/ \E c \in left.set : Typed(c)
        \/ Transmitted \/ Handler \/ panic
        \/ \E p \in Readers : Reader(p) \/ kill(p) \/ \E k \in 1..ReadMax : read(p, k)
        \/ \E p \in Writers : Writer(p) \/ \E k \in 1..2 : write(p, k)

Spec == Init /\ [][Next]_vars

(* Processes and the handler go on, and get a lock that is released again and   *)
(* again; the UART sends.                                                       *)
FairSpec == /\ Spec
            /\ WF_vars(Transmitted) /\ SF_vars(Handler)
            /\ \A p \in Readers : SF_vars(Reader(p))
            /\ \A p \in Writers : SF_vars(Writer(p))

--------------------------------------------------------------------------------
(* The characters from one counter to another *)
Slice(from, to) == [i \in 1..Minus(to, from) |-> cons.buf[Slot(Plus(from, i - 1))]]

(* The ring with its three counters is a terminal that enters lines: a reader   *)
(* gets the characters of entered lines once, in order and as they were edited, *)
(* whatever wraps, whoever reads, and however full the ring is.  A ^D typed is  *)
(* the end of the file for one read() of its own, which returns 0.              *)
Tty == INSTANCE Terminal WITH Keys <- {"a", "nl", "D"}, Size <- INPUT_BUF_SIZE, ready <- Slice(cons.r, cons.w),
                              line <- Slice(cons.w, cons.e),
                              begun <- {p \in Readers : n[p] < target[p]}
ImplementsTerminal == Tty!Spec

(* What processes write reaches the transmitter in the order of uartputc(), all *)
(* of it and once, though the handler and the writers both run uartstart(); and *)
(* the echo, which takes no lock, meets at most one other character in it.      *)
OutputInOrder ==
    /\ out = [i \in 1..tx.r |-> i - 1]
    /\ tx.w - tx.r \in 0..UART_TX_BUF_SIZE
    /\ Len(thr) <= 2

(* A write() to the console ends, however small the ring of the driver is, and  *)
(* whether its room comes from the handler or from another writer.              *)
WriteEnds == \A p \in Writers : pc[p] # "idle" ~> (pc[p] = "idle" \/ panicked)

(* Entered input is read by a process that waits for it: the wakeup of the      *)
(* handler is not lost between the test of the counters and sleep().            *)
InputIsRead == (cons.r # cons.w /\ \E p \in Readers : pc[p] \in {"r lock", "r sleep", "r sleeps"})
               ~> (cons.r = cons.w \/ (\A p \in Readers : pc[p] = "idle") \/ panicked)
================================================================================
