---------------------------------- MODULE Pipe ----------------------------------
(* Pipes (pipe.c) behind the open-file table and the file descriptors (file.c,  *)
(* the descriptor calls of sysfile.c, the descriptor copies of fork() and the   *)
(* closes of exit()).                                                           *)
(*                                                                              *)
(* A byte written to a pipe is the number of bytes written to it before.  A     *)
(* step is what runs under one spin-lock; read and write keep pi->lock between  *)
(* their test of killed and the sleep, as kill() does not take that lock.       *)
(* A page holds a pipe, or what another part of the kernel put there (Sockets). *)
EXTENDS Naturals, Sequences, FiniteSets

CONSTANTS
    Procs, FirstProc,
    Pages, None,    \* pages a pipe may live in; a null pointer
    NFILE, NOFILE,  \* open files, descriptors of a process
    PIPESIZE,
    CtrMod,         \* 2^32 in the code: nread and nwrite wrap
    Lens,           \* lengths asked for in a read or a write
    MaxBytes        \* bound: bytes written to a pipe

ASSUME PipeAssumption ==
    /\ FirstProc \in Procs /\ None \notin Pages
    /\ NFILE \in Nat /\ NOFILE \in Nat /\ MaxBytes \in Nat
    /\ PIPESIZE \in Nat \ {0} /\ CtrMod \in Nat
    /\ CtrMod > PIPESIZE /\ CtrMod % PIPESIZE = 0
    /\ Lens \subseteq Nat \ {0}

Files == 1..NFILE
Fds == 0..(NOFILE - 1)
NoFile == 0

VARIABLES
    file,       \* ftable.file
    ofile,      \* p->ofile
    page,       \* what a page is allocated for
    pipe,       \* struct pipe in each page
    pc,         \* where a process is
    call,       \* the pipe, the length and the progress of its call
    killed,
    got,        \* bytes taken out of the pipe in a page
    abandoned   \* bytes were written to the pipe in a page and no reader woken

vars == <<file, ofile, page, pipe, pc, call, killed, got, abandoned>>

FreeFile == [type |-> "none", ref |-> 0, readable |-> FALSE, writable |-> FALSE,
             pipe |-> None, sock |-> None]
NoCall == [pipe |-> None, n |-> 0, i |-> 0]
NoPipe == [data |-> [k \in 0..(PIPESIZE - 1) |-> 0], nread |-> 0, nwrite |-> 0,
           readopen |-> FALSE, writeopen |-> FALSE, put |-> 0, lock |-> FALSE]

Init == /\ file = [f \in Files |-> FreeFile]
        /\ ofile = [p \in Procs |-> [d \in Fds |-> NoFile]]
        /\ page = [g \in Pages |-> "free"]
        /\ pipe = [g \in Pages |-> NoPipe]
        /\ pc = [p \in Procs |-> IF p = FirstProc THEN "user" ELSE "none"]
        /\ call = [p \in Procs |-> NoCall]
        /\ killed = {}
        /\ got = [g \in Pages |-> 0]
        /\ abandoned = {}

At(p, label) == pc[p] = label
Goto(p, label) == pc' = [pc EXCEPT ![p] = label]

(* usertrap() starts a system call unless the process was killed. *)
Traps(p) == At(p, "user") /\ p \notin killed

(* wakeup(): sleepers of pipe g at label test their condition again. *)
Woken(f, label, g, next) ==
    [q \in Procs |-> IF f[q] = label /\ call[q].pipe = g THEN next ELSE f[q]]

(* Mutant: the readers are not woken. *)
WakeReaders_none(f, g) == f

WakeReaders(f, g) == Woken(f, "read_asleep", g, "read")
WakeWriters(f, g) == Woken(f, "write_asleep", g, "write")

--------------------------------------------------------------------------------
(* Descriptors and the file table *)

FreeFds(p) == {d \in Fds : ofile[p][d] = NoFile}
Lowest(S) == CHOOSE x \in S : \A y \in S : x <= y
FreeFiles == {f \in Files : file[f].ref = 0}

PipeEnd(old, g, writing) ==
    [old EXCEPT !.type = "pipe", !.ref = 1, !.readable = ~writing,
                !.writable = writing, !.pipe = g]

(* sys_pipe() with pipealloc(); a failure gives everything back. *)
sys_pipe(p) ==
    /\ Traps(p)
    /\ Cardinality(FreeFiles) >= 2 /\ Cardinality(FreeFds(p)) >= 2
    /\ \E g \in Pages :
         LET rf == Lowest(FreeFiles)
             wf == Lowest(FreeFiles \ {rf})
             d0 == Lowest(FreeFds(p))
             d1 == Lowest(FreeFds(p) \ {d0})
         IN /\ page[g] = "free"
            /\ page' = [page EXCEPT ![g] = "pipe"]
            /\ pipe' = [pipe EXCEPT ![g] = [NoPipe EXCEPT !.readopen = TRUE,
                                                          !.writeopen = TRUE]]
            /\ file' = [file EXCEPT ![rf] = PipeEnd(@, g, FALSE),
                                    ![wf] = PipeEnd(@, g, TRUE)]
            /\ ofile' = [ofile EXCEPT ![p][d0] = rf, ![p][d1] = wf]
    /\ UNCHANGED <<pc, call, killed, got, abandoned>>

sys_dup(p, d) ==
    /\ Traps(p)
    /\ ofile[p][d] # NoFile /\ FreeFds(p) # {}
    /\ ofile' = [ofile EXCEPT ![p][Lowest(FreeFds(p))] = ofile[p][d]]
    /\ file' = [file EXCEPT ![ofile[p][d]].ref = @ + 1]
    /\ UNCHANGED <<page, pipe, pc, call, killed, got, abandoned>>

(* Mutant: no close is taken for the last one. *)
LastClose_never(f) == FALSE

(* fileclose() up to its release: the last close keeps a copy of the file, and  *)
(* leaves readable, writable and sock as they were.                             *)
LastClose(f) == file[f].ref = 1

Closing(f) == IF file[f].type = "socket" THEN "sock"
              ELSE IF file[f].writable THEN "w" ELSE "r"

fileclose(p, d, next) ==
    LET f == ofile[p][d] IN
    /\ ofile' = [ofile EXCEPT ![p][d] = NoFile]
    /\ IF LastClose(f)
       THEN /\ file' = [file EXCEPT ![f].ref = 0, ![f].type = "none",
                                    ![f].pipe = None]
            /\ call' = [call EXCEPT ![p].pipe = file[f].pipe, ![p].i = f]
            /\ Goto(p, next[Closing(f)])
       ELSE /\ file' = [file EXCEPT ![f].ref = @ - 1]
            /\ UNCHANGED <<pc, call>>
    /\ UNCHANGED <<page, pipe, killed, got, abandoned>>

sys_close(p, d) ==
    /\ Traps(p)
    /\ ofile[p][d] # NoFile
    /\ fileclose(p, d, [w |-> "close_w", r |-> "close_r", sock |-> "close_sock"])

(* pipeclose() *)
pipeclose(p) ==
    LET g == call[p].pipe
        writer == pc[p] \in {"close_w", "exit_w"}
        left == IF writer THEN pipe[g].readopen ELSE pipe[g].writeopen
        back == IF pc[p] \in {"exit_w", "exit_r"} THEN "exit" ELSE "user"
        here == [pc EXCEPT ![p] = back]
    IN
    /\ pc[p] \in {"close_w", "close_r", "exit_w", "exit_r"}
    /\ ~pipe[g].lock
    /\ pc' = IF writer THEN WakeReaders(here, g) ELSE WakeWriters(here, g)
    /\ pipe' = IF left
               THEN [pipe EXCEPT ![g].writeopen = @ /\ ~writer,
                                 ![g].readopen = @ /\ writer]
               ELSE [pipe EXCEPT ![g] = NoPipe]
    /\ page' = IF left THEN page ELSE [page EXCEPT ![g] = "free"]
    /\ call' = [call EXCEPT ![p] = NoCall]
    /\ abandoned' = IF writer \/ ~left THEN abandoned \ {g} ELSE abandoned
    /\ got' = IF left THEN got ELSE [got EXCEPT ![g] = 0]
    /\ UNCHANGED <<file, ofile, killed>>

(* fork() duplicates every descriptor. *)
Holders(p, f) == Cardinality({d \in Fds : ofile[p][d] = f})

fork(p, q) ==
    /\ Traps(p) /\ At(q, "none")
    /\ ofile' = [ofile EXCEPT ![q] = ofile[p]]
    /\ file' = [f \in Files |-> [file[f] EXCEPT !.ref = @ + Holders(p, f)]]
    /\ Goto(q, "user")
    /\ UNCHANGED <<page, pipe, call, killed, got, abandoned>>

(* exit() closes the descriptors in order. *)
ExitStart(p) == /\ At(p, "user")
                /\ Goto(p, "exit")
                /\ UNCHANGED <<file, ofile, page, pipe, call, killed, got, abandoned>>

ExitClose(p) ==
    LET open == Fds \ FreeFds(p) IN
    /\ At(p, "exit")
    /\ open # {}
    /\ fileclose(p, Lowest(open), [w |-> "exit_w", r |-> "exit_r", sock |-> "exit_sock"])

ExitDone(p) == /\ At(p, "exit")
               /\ FreeFds(p) = Fds
               /\ Goto(p, "none")
               /\ killed' = killed \ {p}
               /\ UNCHANGED <<file, ofile, page, pipe, call, got, abandoned>>

--------------------------------------------------------------------------------
(* read() and write() of a descriptor, up to the call into the pipe *)

Enter(p, d, n, writing) ==
    /\ Traps(p)
    /\ ofile[p][d] # NoFile
    /\ file[ofile[p][d]].type = "pipe"
    /\ file[ofile[p][d]].writable = writing
    /\ call' = [call EXCEPT ![p] = [pipe |-> file[ofile[p][d]].pipe, n |-> n, i |-> 0]]
    /\ Goto(p, IF writing THEN "write" ELSE "read")
    /\ UNCHANGED <<file, ofile, page, pipe, killed, got, abandoned>>

(* The call returns to user space, where a killed process exits. *)
Back(p) == IF p \in killed THEN "exit" ELSE "user"
Return(f, p) == [f EXCEPT ![p] = Back(p)]

(* nwrite - nread in the arithmetic of uint. *)
Used(g) == (pipe[g].nwrite + CtrMod - pipe[g].nread) % CtrMod
Full(g) == pipe[g].nwrite = (pipe[g].nread + PIPESIZE) % CtrMod
Empty(g) == pipe[g].nread = pipe[g].nwrite

(* The buffer after k more bytes. *)
Put(g, k) ==
    LET w == pipe[g].nwrite IN
    [pipe[g] EXCEPT
        !.nwrite = (w + k) % CtrMod,
        !.put = @ + k,
        !.data = [s \in DOMAIN @ |->
                    IF \E j \in 0..(k - 1) : s = (w + j) % PIPESIZE
                    THEN pipe[g].put + (CHOOSE j \in 0..(k - 1) : s = (w + j) % PIPESIZE)
                    ELSE @[s]]]

--------------------------------------------------------------------------------
(* pipewrite() *)

WriteFails(p) ==
    LET g == call[p].pipe IN
    /\ At(p, "write") /\ ~pipe[g].lock
    /\ ~pipe[g].readopen \/ p \in killed
    /\ pc' = Return(pc, p)
    /\ call' = [call EXCEPT ![p] = NoCall]
    /\ UNCHANGED <<file, ofile, page, pipe, killed, got, abandoned>>

(* Mutant: one byte more than the buffer holds. *)
Room_off_by_one(g) == PIPESIZE + 1 - Used(g)

Room(g) == PIPESIZE - Used(g)

(* k bytes go in before the buffer is full, all are written, or copyin() fails. *)
WriteBytes(p, k) ==
    LET g == call[p].pipe
        rest == call[p].n - call[p].i IN
    /\ At(p, "write") /\ ~pipe[g].lock
    /\ pipe[g].readopen /\ p \notin killed
    /\ k <= rest /\ k <= Room(g)
    /\ pipe[g].put + k <= MaxBytes
    /\ \/ /\ k < rest /\ k = Room(g)
          /\ pipe' = [pipe EXCEPT ![g] = [Put(g, k) EXCEPT !.lock = TRUE]]
          /\ pc' = WakeReaders([pc EXCEPT ![p] = "write_sleep"], g)
          /\ call' = [call EXCEPT ![p].i = @ + k]
       \/ /\ k = rest \/ k < Room(g)
          /\ pipe' = [pipe EXCEPT ![g] = Put(g, k)]
          /\ pc' = WakeReaders(Return(pc, p), g)
          /\ call' = [call EXCEPT ![p] = NoCall]
    /\ abandoned' = abandoned \ {g}
    /\ UNCHANGED <<file, ofile, page, killed, got>>

(* kill() does not take pi->lock: it may come between two turns of the loop, and *)
(* the next turn returns -1 without the wakeup at the end.                      *)
WriteKilled(p, k) ==
    LET g == call[p].pipe IN
    /\ At(p, "write") /\ ~pipe[g].lock
    /\ pipe[g].readopen /\ p \notin killed
    /\ 0 < k /\ k < call[p].n - call[p].i /\ k <= Room(g)
    /\ pipe[g].put + k <= MaxBytes
    /\ killed' = killed \cup {p}
    /\ pipe' = [pipe EXCEPT ![g] = Put(g, k)]
    /\ Goto(p, "exit")
    /\ call' = [call EXCEPT ![p] = NoCall]
    /\ abandoned' = abandoned \cup {g}
    /\ UNCHANGED <<file, ofile, page, got>>

(* sleep(chan, &pi->lock) *)
Sleep(p, label, next) ==
    /\ At(p, label)
    /\ pipe' = [pipe EXCEPT ![call[p].pipe].lock = FALSE]
    /\ Goto(p, next)
    /\ UNCHANGED <<file, ofile, page, call, killed, got, abandoned>>

WriteSleep(p) == Sleep(p, "write_sleep", "write_asleep")

pipewrite(p) == \/ WriteFails(p)
                \/ \E k \in 0..PIPESIZE : WriteBytes(p, k) \/ WriteKilled(p, k)
                \/ WriteSleep(p)

--------------------------------------------------------------------------------
(* piperead() *)

MustSleep(g) == Empty(g) /\ pipe[g].writeopen

ReadWait(p) ==
    LET g == call[p].pipe IN
    /\ At(p, "read") /\ ~pipe[g].lock
    /\ MustSleep(g)
    /\ \/ /\ p \in killed
          /\ pc' = Return(pc, p)
          /\ call' = [call EXCEPT ![p] = NoCall]
          /\ UNCHANGED pipe
       \/ /\ p \notin killed
          /\ pipe' = [pipe EXCEPT ![g].lock = TRUE]
          /\ Goto(p, "read_sleep")
          /\ UNCHANGED call
    /\ UNCHANGED <<file, ofile, page, killed, got, abandoned>>

ReadSleep(p) == Sleep(p, "read_sleep", "read_asleep")

(* k bytes come out: all that are there, all that were asked for, or fewer when *)
(* copyout() fails, which loses the byte it failed on.                          *)
Advance(g, k) == (pipe[g].nread + k) % CtrMod

ReadBytes(p, k) ==
    LET g == call[p].pipe IN
    /\ At(p, "read") /\ ~pipe[g].lock
    /\ ~MustSleep(g)
    /\ k <= Used(g) /\ k <= call[p].n
    /\ k = 0 => Empty(g)
    /\ pipe' = [pipe EXCEPT ![g].nread = Advance(g, k)]
    /\ got' = [got EXCEPT ![g] = @ + k]
    /\ pc' = WakeWriters(Return(pc, p), g)
    /\ call' = [call EXCEPT ![p] = NoCall]
    /\ UNCHANGED <<file, ofile, page, killed, abandoned>>

piperead(p) == ReadWait(p) \/ ReadSleep(p) \/ \E k \in 0..PIPESIZE : ReadBytes(p, k)

--------------------------------------------------------------------------------
(* kill(): a sleeper runs again and finds its flag; a process in user space     *)
(* exits at its next trap.                                                      *)
kill(q) ==
    /\ pc[q] \notin {"none", "exit", "exit_w", "exit_r", "exit_sock"} /\ q \notin killed
    /\ killed' = killed \cup {q}
    /\ pc' = [pc EXCEPT ![q] = CASE @ = "read_asleep" -> "read"
                                 [] @ = "write_asleep" -> "write"
                                 [] OTHER -> @]
    /\ UNCHANGED <<file, ofile, page, pipe, call, got, abandoned>>

--------------------------------------------------------------------------------
(* The bytes in the buffer are, in order, exactly those written and not yet     *)
(* read, across the wrap of the indices: no byte is lost, duplicated or         *)
(* reordered, however readers and writers sleep and wake.                       *)
FifoExact ==
    \A g \in Pages : page[g] = "pipe" =>
        /\ pipe[g].put - got[g] = Used(g)
        /\ \A j \in 0..(Used(g) - 1) :
             pipe[g].data[(pipe[g].nread + j) % PIPESIZE] = got[g] + j

(* A process works on a pipe only while its page is allocated, and an end of    *)
(* the pipe is open exactly while a file refers to it or its last close is      *)
(* under way: pipeclose() frees the page once, and nobody is left inside.       *)
EndClosing(g, writer) ==
    \E p \in Procs : call[p].pipe = g /\ pc[p] \in (IF writer THEN {"close_w", "exit_w"}
                                                             ELSE {"close_r", "exit_r"})
EndOpen(g, writer) ==
    \/ \E f \in Files : file[f].ref > 0 /\ file[f].pipe = g /\ file[f].writable = writer
    \/ EndClosing(g, writer)

PipeLives ==
    \A g \in Pages :
        /\ pipe[g].readopen <=> EndOpen(g, FALSE)
        /\ pipe[g].writeopen <=> EndOpen(g, TRUE)
        /\ (\E p \in Procs : call[p].pipe = g) => page[g] = "pipe"

(* A reader sleeps only on an empty pipe with a writer, a writer only on a full *)
(* pipe with a reader: pipeclose() and the other side never leave a sleeper     *)
(* that has nothing to wait for.  The one exception is a writer killed between  *)
(* two bytes, which leaves its bytes behind without waking the readers.         *)
SleepersHaveReason ==
    \A p \in Procs :
        LET g == call[p].pipe IN
        /\ pc[p] = "read_asleep" => pipe[g].writeopen /\ (Empty(g) \/ g \in abandoned)
        /\ pc[p] = "write_asleep" => Full(g) /\ pipe[g].readopen

================================================================================
