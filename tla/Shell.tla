---------------------------------- MODULE Shell ----------------------------------
(* The shell (user/sh.c) and init (user/init.c): the parser of command lines,   *)
(* and the processes, descriptors and pipes with which a parsed line is run.    *)
(*                                                                              *)
(* A line is a sequence of tokens.  A process carries the rest of its program   *)
(* as a sequence of steps, the functions of the parser that are still to be     *)
(* called included, and forks with the steps of the child.                      *)
EXTENDS Integers, Sequences, FiniteSets, FiniteSetsExt, SequencesExt

CONSTANTS
    Words,
    MAXARGS,
    NPROC,          \* processes, init included
    NOFILE,
    GrammarWords,   \* the grammar is checked for lines of these words
    MaxTokens,      \* and of so many tokens
    Loads           \* bounds: lines that are typed and how many of them, and how many
                    \* calls of fork(), exec(), open() and pipe() fail

ASSUME ShellAssumption ==
    /\ GrammarWords \subseteq Words /\ MaxTokens <= 4
    /\ {MAXARGS, NPROC, MaxTokens} \subseteq Nat \ {0} /\ NOFILE \in Nat /\ NOFILE > 4

Procs == 1..NPROC
initproc == 1
Arrows == {"<", ">", ">>"}
Tokens == Words \cup Arrows \cup {"|", "&", ";", "(", ")"}

EXEC(argv) == [type |-> "EXEC", argv |-> argv]
redircmd(c, r) == [type |-> "REDIR", cmd |-> c, file |-> r.file, mode |-> r.mode,
                   fd |-> IF r.mode = "<" THEN 0 ELSE 1]
pipecmd(l, r) == [type |-> "PIPE", left |-> l, right |-> r]
listcmd(l, r) == [type |-> "LIST", left |-> l, right |-> r]
backcmd(c) == [type |-> "BACK", cmd |-> c]

(* What a descriptor refers to *)
Closed == [kind |-> "closed"]
Tty == [kind |-> "tty"]
File(name, mode) == [kind |-> "file", name |-> name, mode |-> mode]
End(k, c, mode) == [kind |-> "pipe", pipe |-> k, cmd |-> c, mode |-> mode]
NoFds == [i \in 0..(NOFILE - 1) |-> Closed]
StdFds == [i \in 0..(NOFILE - 1) |-> IF i < 3 THEN Tty ELSE Closed]

(* Steps: an op, a command, and the steps of a child *)
Op(op) == <<[op |-> op]>>
Run(c) == <<[op |-> "run", cmd |-> c]>>
Fork(steps, bg) == <<[op |-> "fork", steps |-> steps, bg |-> bg]>>

VARIABLES
    proc, sh,       \* the processes, and the shell as init knows it
    tokens, vals,   \* what a parser has not read, and the commands it has built
    pipes,          \* how many pipes were made
    left,           \* of a load
    cut,            \* a fork() of a running line has failed
    panicked

vars == <<proc, sh, tokens, vals, pipes, left, cut, panicked>>

NoLine == <<"none">>
NoTree == [type |-> "none"]
Unused == [st |-> "unused", todo |-> <<>>, fd |-> NoFds, p |-> <<>>, parent |-> 0, bg |-> FALSE,
           line |-> NoLine, tree |-> NoTree]

Init == /\ proc = [p \in Procs |-> IF p = initproc
                                   THEN [Unused EXCEPT !.st = "runs", !.todo = Op("start sh"), !.fd = StdFds]
                                   ELSE Unused]
        /\ sh = 0
        /\ tokens = [p \in Procs |-> <<>>] /\ vals = [p \in Procs |-> <<>>]
        /\ pipes = 0
        /\ \E i \in DOMAIN Loads : left = [load |-> i, n |-> Loads[i].n, faults |-> Loads[i].faults]
        /\ cut = FALSE /\ panicked = FALSE

At(p, op) == ~panicked /\ proc[p].todo # <<>> /\ Head(proc[p].todo).op = op
Now(p) == Head(proc[p].todo)
Then(p, steps) == steps \o Tail(proc[p].todo)
Do(p, steps) == [proc EXCEPT ![p].todo = Then(p, steps)]

Faulty == left.faults > 0 /\ left' = [left EXCEPT !.faults = @ - 1]

(* exit(): the children go to init.  An exit of init stops the system. *)
exited(p) == [q \in Procs |-> CASE q = p -> [proc[p] EXCEPT !.st = "zombie", !.todo = <<>>, !.fd = NoFds]
                                [] proc[q].parent = p -> [proc[q] EXCEPT !.parent = initproc]
                                [] OTHER -> proc[q]]
Exit(p) == /\ proc' = exited(p)
           /\ panicked' = (p = initproc)
           /\ tokens' = [tokens EXCEPT ![p] = <<>>] /\ vals' = [vals EXCEPT ![p] = <<>>]

--------------------------------------------------------------------------------
(* The parser: a function that calls others is the steps it makes.  vals holds  *)
(* commands with the redirections to be put around them.                        *)

Val(c) == [c |-> c, rs |-> <<>>]
Top(p) == Last(vals[p])
peek(p, toks) == tokens[p] # <<>> /\ Head(tokens[p]) \in toks
Skip(p, n) == tokens' = [tokens EXCEPT ![p] = SubSeq(@, n + 1, Len(@))]
Push(p, v) == vals' = [vals EXCEPT ![p] = Append(@, v)]
SetTop(p, v) == vals' = [vals EXCEPT ![p] = Append(Front(@), v)]
Calls(p, steps) == proc' = Do(p, steps) /\ UNCHANGED panicked

(* A call with the redirections of its command in place *)
Redirected(v) == FoldLeft(redircmd, v.c, v.rs)

parsecmd(p) == /\ At(p, "parsecmd")
               /\ tokens' = [tokens EXCEPT ![p] = Now(p).line]
               /\ proc' = [Do(p, Op("parseline") \o Op("end")) EXCEPT ![p].line = Now(p).line]
               /\ UNCHANGED <<sh, vals, pipes, left, cut, panicked>>

(* leftovers are a syntax error; the tree is run. *)
parsed(p) == /\ At(p, "end")
             /\ IF tokens[p] # <<>> THEN Exit(p)
                ELSE /\ proc' = [proc EXCEPT ![p].todo = Run(Redirected(Top(p))),
                                             ![p].tree = Redirected(Top(p))]
                     /\ vals' = [vals EXCEPT ![p] = <<>>]
                     /\ UNCHANGED <<tokens, panicked>>
             /\ UNCHANGED <<sh, pipes, left, cut>>

parseline(p) == /\ At(p, "parseline")
                /\ Calls(p, Op("parsepipe") \o Op("backs"))
                /\ UNCHANGED <<sh, tokens, vals, pipes, left, cut>>

parsebacks(p) ==
    /\ At(p, "backs")
    /\ \/ /\ peek(p, {"&"}) /\ Skip(p, 1)
          /\ SetTop(p, Val(backcmd(Redirected(Top(p)))))
          /\ Calls(p, Op("backs"))
       \/ /\ peek(p, {";"}) /\ Skip(p, 1)
          /\ Calls(p, Op("parseline") \o Op("list"))
          /\ UNCHANGED vals
       \/ ~peek(p, {"&", ";"}) /\ Calls(p, <<>>) /\ UNCHANGED <<tokens, vals>>
    /\ UNCHANGED <<sh, pipes, left, cut>>

parsepipe(p) == /\ At(p, "parsepipe")
                /\ Calls(p, Op("parseexec") \o Op("pipes"))
                /\ UNCHANGED <<sh, tokens, vals, pipes, left, cut>>

parsepipes(p) ==
    /\ At(p, "pipes")
    /\ \/ peek(p, {"|"}) /\ Skip(p, 1) /\ Calls(p, Op("parsepipe") \o Op("pipe of"))
       \/ ~peek(p, {"|"}) /\ Calls(p, <<>>) /\ UNCHANGED tokens
    /\ UNCHANGED <<sh, vals, pipes, left, cut>>

(* pipecmd() or listcmd() of the two commands on top takes their place. *)
Under(p) == vals[p][Len(vals[p]) - 1]

Joined(p, cmd) ==
    /\ vals' = [vals EXCEPT ![p] = Append(SubSeq(@, 1, Len(@) - 2), Val(cmd))]
    /\ Calls(p, <<>>)
    /\ UNCHANGED <<sh, tokens, pipes, left, cut>>

parsedpipe(p) ==
    At(p, "pipe of") /\ Joined(p, pipecmd(Redirected(Under(p)), Redirected(Top(p))))
parsedlist(p) ==
    At(p, "list") /\ Joined(p, listcmd(Redirected(Under(p)), Redirected(Top(p))))

parseexec(p) ==
    /\ At(p, "parseexec")
    /\ \/ /\ peek(p, {"("}) /\ Skip(p, 1)
          /\ Calls(p, Op("parseline") \o Op("parseblock"))
          /\ UNCHANGED vals
       \/ /\ ~peek(p, {"("}) /\ Push(p, Val(EXEC(<<>>)))
          /\ Calls(p, Op("parseredirs") \o Op("args"))
          /\ UNCHANGED tokens
    /\ UNCHANGED <<sh, pipes, left, cut>>

(* The end of a block; the redirections that follow are those of its command. *)
parseblock(p) ==
    /\ At(p, "parseblock")
    /\ \/ /\ peek(p, {")"}) /\ Skip(p, 1)
          /\ SetTop(p, Val(Redirected(Top(p))))
          /\ Calls(p, Op("parseredirs"))
       \/ ~peek(p, {")"}) /\ Exit(p)
    /\ UNCHANGED <<sh, pipes, left, cut>>

parseredirs(p) ==
    LET r == [mode |-> Head(tokens[p]), file |-> tokens[p][2]]
        named == Len(tokens[p]) > 1 /\ tokens[p][2] \in Words
    IN /\ At(p, "parseredirs")
       /\ \/ /\ peek(p, Arrows) /\ named /\ Skip(p, 2)
             /\ SetTop(p, [Top(p) EXCEPT !.rs = Append(@, r)])
             /\ Calls(p, Op("parseredirs"))
          \/ peek(p, Arrows) /\ ~named /\ Exit(p)
          \/ ~peek(p, Arrows) /\ Calls(p, <<>>) /\ UNCHANGED <<tokens, vals>>
       /\ UNCHANGED <<sh, pipes, left, cut>>

(* The loop of parseexec() *)
TooMany_late(argc) == argc > MAXARGS
TooMany(argc) == argc >= MAXARGS

parseargs(p) ==
    LET argv == Append(Top(p).c.argv, Head(tokens[p]))
        stop == tokens[p] = <<>> \/ peek(p, {"|", ")", "&", ";"})
    IN /\ At(p, "args")
       /\ \/ stop /\ Calls(p, <<>>) /\ UNCHANGED <<tokens, vals>>
          \/ /\ peek(p, Words) /\ ~TooMany(Len(argv)) /\ Skip(p, 1)
             /\ SetTop(p, [Top(p) EXCEPT !.c = EXEC(argv)])
             /\ Calls(p, Op("parseredirs") \o Op("args"))
          \/ peek(p, Words) /\ TooMany(Len(argv)) /\ Exit(p)
          \/ ~stop /\ ~peek(p, Words) /\ Exit(p)
       /\ UNCHANGED <<sh, pipes, left, cut>>

--------------------------------------------------------------------------------
(* runcmd() *)

Lowest(fd) == Min({i \in DOMAIN fd : fd[i] = Closed})
Close(fd, S) == [i \in DOMAIN fd |-> IF i \in S THEN Closed ELSE fd[i]]
dup(fd, x) == [fd EXCEPT ![Lowest(fd)] = x]

WaitBoth_once == Op("wait")
WaitBoth == Op("wait") \o Op("wait")

Steps(c) ==
    CASE c.type = "EXEC" -> IF c.argv = <<>> THEN Op("exit") ELSE <<[op |-> "exec", argv |-> c.argv]>>
      [] c.type = "REDIR" -> <<[op |-> "redir", fd |-> c.fd, file |-> File(c.file, c.mode)]>> \o Run(c.cmd)
      [] c.type = "LIST" -> Fork(Run(c.left), FALSE) \o Op("wait") \o Run(c.right)
      [] c.type = "PIPE" -> <<[op |-> "pipe", cmd |-> c]>> \o
                            Fork(<<[op |-> "dup", fd |-> 1]>> \o Run(c.left), FALSE) \o
                            Fork(<<[op |-> "dup", fd |-> 0]>> \o Run(c.right), FALSE) \o
                            Op("close") \o WaitBoth \o Op("exit")
      [] c.type = "BACK" -> Fork(Run(c.cmd), TRUE) \o Op("exit")

runcmd(p) == /\ At(p, "run")
             /\ Calls(p, Steps(Now(p).cmd))
             /\ UNCHANGED <<sh, tokens, vals, pipes, left, cut>>

(* fork1() *)
Free == {q \in Procs : proc[q].st = "unused"}
NoFork == (Free = {} /\ UNCHANGED left) \/ Faulty
Child(p, steps, bg) == [proc[p] EXCEPT !.todo = steps, !.parent = p, !.bg = @ \/ bg]

fork1(p) ==
    LET np == Min(Free) IN
    /\ At(p, "fork")
    /\ \/ /\ Free # {}
          /\ proc' = [Do(p, <<>>) EXCEPT ![np] = Child(p, Now(p).steps, Now(p).bg)]
          /\ UNCHANGED <<left, cut, panicked, tokens, vals>>
       \/ /\ NoFork
          /\ Exit(p) /\ cut' = TRUE
    /\ UNCHANGED <<sh, pipes>>

(* A step of a process that changes its descriptors only *)
SetFd(p, fd) == /\ proc' = [Do(p, <<>>) EXCEPT ![p].fd = fd]
                /\ UNCHANGED <<tokens, vals, left, panicked>>

redirect(p) == /\ At(p, "redir")
               /\ \/ SetFd(p, dup(Close(proc[p].fd, {Now(p).fd}), Now(p).file))
                  \/ Faulty /\ Exit(p)
               /\ UNCHANGED <<sh, pipes, cut>>

pipe(p) ==
    LET fd == proc[p].fd
        r == Lowest(fd)
        w == Lowest(dup(fd, Tty))
    IN /\ At(p, "pipe")
       /\ \/ /\ proc' = [Do(p, <<>>) EXCEPT ![p].fd[r] = End(pipes, Now(p).cmd, "r"),
                                          ![p].fd[w] = End(pipes, Now(p).cmd, "w"), ![p].p = <<r, w>>]
             /\ UNCHANGED <<tokens, vals, left, panicked>>
          \/ Faulty /\ Exit(p)
       /\ pipes' = pipes + 1
       /\ UNCHANGED <<sh, cut>>

(* A child puts its end in the place of its output or its input and closes both *)
(* ends; the parent closes both.                                                *)
OwnEnd_open(q, k) == Close(dup(Close(q.fd, {k}), q.fd[q.p[k + 1]]), {q.p[k + 1]})
OwnEnd(q, k) == Close(dup(Close(q.fd, {k}), q.fd[q.p[k + 1]]), Range(q.p))

dupEnd(p) ==
    LET q == proc[p]
        k == Now(p).fd
    IN /\ At(p, "dup")
       /\ SetFd(p, OwnEnd(q, k))
       /\ UNCHANGED <<sh, pipes, cut>>

ClosedEnds_read(p) == Close(proc[p].fd, {proc[p].p[1]})
ClosedEnds(p) == Close(proc[p].fd, Range(proc[p].p))

closeEnds(p) == /\ At(p, "close")
                /\ SetFd(p, ClosedEnds(p))
                /\ UNCHANGED <<sh, pipes, cut>>

exec(p) == /\ At(p, "exec")
           /\ \/ proc' = [proc EXCEPT ![p].todo = <<[op |-> "prog", argv |-> Now(p).argv]>>]
                 /\ UNCHANGED <<tokens, vals, left, panicked>>
              \/ Faulty /\ Exit(p)
           /\ UNCHANGED <<sh, pipes, cut>>

exit(p) == At(p, "exit") /\ Exit(p) /\ UNCHANGED <<sh, pipes, left, cut>>

(* A program reads its input to the end before it exits: a pipe has no end as   *)
(* long as some process has it open for writing.                                *)
Eof(x) == x.kind = "pipe" => \A q \in Procs, i \in 0..(NOFILE - 1) :
              proc[q].fd[i].kind = "pipe" => ~(proc[q].fd[i].pipe = x.pipe /\ proc[q].fd[i].mode = "w")

program(p) == /\ At(p, "prog") /\ Eof(proc[p].fd[0])
              /\ Exit(p)
              /\ UNCHANGED <<sh, pipes, left, cut>>

(* wait(0) by a process that has children, as the callers below always have. *)
Children(p) == {q \in Procs : proc[q].parent = p}
Zombies(p) == {q \in Children(p) : proc[q].st = "zombie"}

wait(p) == /\ At(p, "wait")
           /\ \E z \in Zombies(p) : proc' = [Do(p, <<>>) EXCEPT ![z] = Unused]
           /\ UNCHANGED <<sh, tokens, vals, pipes, left, cut, panicked>>

--------------------------------------------------------------------------------
(* main() of the shell and of init.  Lines are also the end of the input and a  *)
(* change of directory, which the shell itself makes.                           *)

EOF == <<"EOF">>
CD == <<"cd">>
Job(line) == Fork(<<[op |-> "parsecmd", line |-> line]>>, FALSE) \o Op("wait") \o Op("prompt")

getcmd(p) ==
    /\ At(p, "prompt") /\ left.n > 0
    /\ left' = [left EXCEPT !.n = @ - 1]
    /\ \E line \in Loads[left.load].lines :
         IF line = EOF THEN Exit(p)
         ELSE /\ proc' = [proc EXCEPT ![p].todo = IF line = CD THEN Op("prompt") ELSE Job(line)]
              /\ UNCHANGED <<tokens, vals, panicked>>
    /\ UNCHANGED <<sh, pipes, cut>>

(* init starts a shell, and another one when it has exited. *)
startsh(p) ==
    LET np == Min(Free) IN
    /\ At(p, "start sh")
    /\ \/ /\ Free # {}
          /\ proc' = [Do(p, Op("wait sh")) EXCEPT ![np] = Child(p, Op("exec sh"), FALSE)]
          /\ sh' = np
          /\ UNCHANGED <<left, tokens, vals, panicked>>
       \/ /\ Faulty /\ Exit(p) /\ UNCHANGED sh
    /\ UNCHANGED <<pipes, cut>>

(* The shell opens the console until its first three descriptors are open. *)
execsh(p) ==
    /\ At(p, "exec sh")
    /\ \/ /\ proc' = [Do(p, Op("prompt")) EXCEPT ![p].fd = [i \in DOMAIN @ |-> IF i < 3 /\ @[i] = Closed
                                                                             THEN Tty ELSE @[i]]]
          /\ UNCHANGED <<left, tokens, vals, panicked>>
       \/ Faulty /\ Exit(p)
    /\ UNCHANGED <<sh, pipes, cut>>

waitsh(p) ==
    /\ At(p, "wait sh")
    /\ \E z \in Zombies(p) :
         proc' = [Do(p, Op(IF z = sh THEN "start sh" ELSE "wait sh")) EXCEPT ![z] = Unused]
    /\ UNCHANGED <<sh, tokens, vals, pipes, left, cut, panicked>>

Parser(p) == \/ parsecmd(p) \/ parseline(p) \/ parsebacks(p) \/ parsepipe(p) \/ parsepipes(p)
             \/ parsedpipe(p) \/ parsedlist(p) \/ parseexec(p) \/ parseblock(p) \/ parseredirs(p)
             \/ parseargs(p) \/ parsed(p)
Runner(p) == \/ runcmd(p) \/ fork1(p) \/ redirect(p) \/ pipe(p) \/ dupEnd(p) \/ closeEnds(p) \/ exec(p)
             \/ exit(p) \/ program(p) \/ wait(p)
Main(p) == startsh(p) \/ execsh(p) \/ waitsh(p)
Step(p) == Parser(p) \/ Runner(p) \/ Main(p)

Next == \E p \in Procs : Step(p) \/ getcmd(p)

Spec == Init /\ [][Next]_vars

(* Every process goes on when it can; nobody has to type. *)
FairSpec == Spec /\ \A p \in Procs : WF_vars(Step(p))

--------------------------------------------------------------------------------
(* The grammar: the lines of up to MaxTokens tokens, each with its command.     *)
(* Four tokens need no more rounds of a rule and no deeper blocks.              *)

Short(S) == {x \in S : Len(x.s) <= MaxTokens}
Closure(F(_), S) == LET S1 == S \cup Short(F(S))
                        S2 == S1 \cup Short(F(S1))
                        S3 == S2 \cup Short(F(S2))
                    IN S3 \cup Short(F(S3))

GrammarRedirs == [mode : Arrows, file : GrammarWords]
Text(r) == <<r.mode, r.file>>

Simple ==
    LET More(S) ==
            {[argv |-> Append(x.argv, w), rs |-> x.rs, s |-> Append(x.s, w)] :
                x \in {y \in S : Len(y.argv) + 1 < MAXARGS}, w \in GrammarWords} \cup
            {[x EXCEPT !.rs = Append(@, r), !.s = @ \o Text(r)] : x \in S, r \in GrammarRedirs}
    IN {[c |-> Redirected([c |-> EXEC(x.argv), rs |-> x.rs]), s |-> x.s] :
           x \in Closure(More, {[argv |-> <<>>, rs |-> <<>>, s |-> <<>>]})}

Pairs(A, tok, B, cmd(_, _)) == {[c |-> cmd(x[1].c, x[2].c), s |-> x[1].s \o <<tok>> \o x[2].s] : x \in A \X B}
Pipelines(C) == Closure(LAMBDA S : Pairs(C, "|", S, pipecmd), C)
Jobs(C) == Closure(LAMBDA S : {[c |-> backcmd(x.c), s |-> Append(x.s, "&")] : x \in S}, Pipelines(C))
Lists(J) == Closure(LAMBDA S : Pairs(J, ";", S, listcmd), J)
Blocks(C) == Closure(LAMBDA S : {[c |-> redircmd(x.c, r), s |-> x.s \o Text(r)] : x \in S, r \in GrammarRedirs},
                     Short({[x EXCEPT !.s = <<"(">> \o @ \o <<")">>] : x \in Lists(Jobs(C))}))
Grammar == Lists(Jobs(Simple \cup Blocks(Simple \cup Blocks(Simple))))

(* A line has one command. *)
ASSUME GrammarUnambiguous == Cardinality({x.s : x \in Grammar}) = Cardinality(Grammar)

(* The parser accepts the lines of the grammar, gives each the command that the *)
(* grammar gives it, and rejects all others: precedence, nesting, the place of  *)
(* redirections and the limit on arguments are as the recursive descent of      *)
(* parseline(), parsepipe(), parseexec() and parseblock() means them.           *)
ParsesTheGrammar ==
    \A p \in Procs :
        LET q == proc[p] IN
        Len(q.line) <= MaxTokens /\ Range(q.line) \subseteq (Tokens \ Words) \cup GrammarWords =>
            /\ q.tree # NoTree => [c |-> q.tree, s |-> q.line] \in Grammar
            /\ q.st = "zombie" /\ q.tree = NoTree => \A x \in Grammar : x.s # q.line

(* The meaning of a command: the programs it runs, with what their standard     *)
(* input and output are.                                                        *)
RECURSIVE Programs(_, _, _)
Programs(c, in, out) ==
    CASE c.type = "EXEC" -> IF c.argv = <<>> THEN {} ELSE {[argv |-> c.argv, in |-> in, out |-> out]}
      [] c.type = "REDIR" -> Programs(c.cmd, IF c.fd = 0 THEN File(c.file, c.mode) ELSE in,
                                      IF c.fd = 1 THEN File(c.file, c.mode) ELSE out)
      [] c.type = "PIPE" -> Programs(c.left, in, End(0, c, "w")) \cup Programs(c.right, End(0, c, "r"), out)
      [] c.type = "LIST" -> Programs(c.left, in, out) \cup Programs(c.right, in, out)
      [] c.type = "BACK" -> Programs(c.cmd, in, out)

Unnumbered(x) == IF x.kind = "pipe" THEN [x EXCEPT !.pipe = 0] ELSE x

(* A program starts with the input and the output that its place in the line    *)
(* gives it, through all the forks, closes and dups of runcmd(), and with no    *)
(* other descriptor open than these and the standard error.                     *)
FdsAsWritten ==
    \A p \in Procs : At(p, "prog") =>
        LET fd == proc[p].fd IN
        /\ [argv |-> Now(p).argv, in |-> Unnumbered(fd[0]), out |-> Unnumbered(fd[1])] \in Programs(proc[p].tree, Tty, Tty)
        /\ \A i \in 2..(NOFILE - 1) : fd[i] = IF i = 2 THEN Tty ELSE Closed

AtPrompt == sh # 0 /\ At(sh, "prompt")

(* When the shell asks for the next line, nothing of the lines before is still  *)
(* running but what was put in the background, unless a fork() has failed: the  *)
(* wait() of each process in the tree of a line finds its own children.         *)
PromptWaits ==
    AtPrompt /\ ~cut =>
        \A q \in Procs \ {initproc, sh} : proc[q].st = "runs" => proc[q].bg

(* The shell asks for a line again: no process of a pipeline is left waiting    *)
(* for the end of a pipe that some process still holds open, and init starts a  *)
(* new shell when the old one has gone.                                         *)
PromptReturns == (~AtPrompt) ~> (panicked \/ AtPrompt)
================================================================================
