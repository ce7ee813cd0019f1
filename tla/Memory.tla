--------------------------------- MODULE Memory ---------------------------------
(* Physical pages and their reference counts (kalloc.c), the page tables of     *)
(* processes and threads (vm.c), and the calls that build, share, grow and free *)
(* them (proc.c, exec.c).                                                       *)
(*                                                                              *)
(* A process in a call carries the rest of it as a sequence of steps, of which  *)
(* each allocates a page at most.  A step that fails puts the steps of the      *)
(* error path in the place of the rest.                                         *)
EXTENDS Integers, Sequences, FiniteSets, FiniteSetsExt, SequencesExt

CONSTANTS
    NPROC,
    END,            \* the first page after the kernel; pages count from KERNBASE
    NPAGES,         \* the last page before PHYSTOP
    PER, HOME,      \* reference counts in a page (512), and where those of page 0 are
    MaxSz,          \* pages of user memory
    SPAN,           \* pages that a last-level page of a table maps (512)
    MAX_THREADS,
    CLEARED,        \* entries of infant_threads that allocproc() clears
    Loads           \* where a behaviour starts: pages that the rest of the system has
                    \* taken from the list, whether the last of it too, calls to be
                    \* made, processes in a call at the same time

ASSUME MemoryAssumption ==
    /\ {NPROC, END, NPAGES, PER, HOME, MaxSz, SPAN, MAX_THREADS} \subseteq Nat \ {0}
    /\ CLEARED \in 0..MAX_THREADS
    /\ Loads \subseteq [kernel : Nat, low : BOOLEAN, calls : Nat, lanes : Nat]

Slots == 1..NPROC
initproc == 1
Pages == END..NPAGES
VAs == 0..(MaxSz - 1)

(* A table is that of a process, or the one its exec() builds. *)
Tables == 1..(2 * NPROC)
Building(p) == NPROC + p

(* Pages of a table: the root, two below it for the trampoline and the          *)
(* trapframe, one for the user's memory and below it one for each SPAN pages.   *)
LastIdx == 4 + (MaxSz - 1) \div SPAN
TableIdx == 0..LastIdx

VARIABLES
    free,       \* the free list, from kmem.freelist on
    count,      \* ref_counter
    tab, map,   \* the pages of each table, and the pages it maps
    proc,
    todo,       \* the steps a process has still to make
    page,       \* the page it holds in a local variable
    calls,      \* calls still to be made
    panic,
    lanes, kernel,
    ghost       \* shared: pages that threads map without counting them; lost: pages
                \* whose count says more than their use; crossed: a thread has called
                \* sbrk, exit or create_thread

vars == <<free, count, tab, map, proc, todo, page, calls, panic, lanes, kernel, ghost>>

NoProc == [state |-> "UNUSED", parent |-> 0, trapframe |-> 0, sz |-> 0, thread |-> FALSE,
           cwd |-> FALSE, infants |-> [i \in 1..MAX_THREADS |-> 0]]

--------------------------------------------------------------------------------
(* kalloc.c.  ref_counter has an entry for each page from KERNBASE on and is    *)
(* indexed by the page's address, so that the counts lie far behind it, in      *)
(* pages that are handed out like any other.  Filling such a page fills counts. *)
Home(pg) == HOME + pg \div PER
Junk == 9                               \* 0x0101... and 0x0505..., above every count
Fill(c, pg) == [q \in Pages |-> IF Home(q) = pg THEN Junk ELSE c[q]]
Less(n) == IF n = Junk THEN Junk ELSE n - 1

(* kfree() of one page; 0 is no page.                                           *)
Freed(m, pg) ==
    CASE pg = 0 -> m
      [] pg # 0 /\ m.count[pg] > 1 -> [m EXCEPT !.count[pg] = Less(@)]
      [] OTHER -> [free |-> <<pg>> \o m.free, count |-> Fill([m.count EXCEPT ![pg] = 0], pg)]

(* kinit(): freerange() frees the pages one after the other.                    *)
Boot == FoldLeft(Freed, [free |-> <<>>, count |-> [pg \in Pages |-> 0]],
                 [i \in 1..(NPAGES - END + 1) |-> END + i - 1])
BootLost == Pages \ Range(Boot.free)

(* Pages whose counts lie in a page that is on the list: its first ones in      *)
(* memory, which are at the bottom of the list.                                 *)
Low == {pg \in Range(Boot.free) : Home(pg) \in Range(Boot.free)}

(* userinit() has made the first process, after the rest of the system took its *)
(* pages; with low, user memory elsewhere holds also the bottom of the list.    *)
Init == \E load \in Loads :
    LET list == SelectSeq(Boot.free, LAMBDA pg : ~(load.low /\ pg \in Low))
        n == load.kernel
    IN
    /\ kernel = Range(SubSeq(list, 1, n)) \cup (IF load.low THEN Low ELSE {})
    /\ lanes = load.lanes
    /\ free = SubSeq(list, n + 8, Len(list))
    /\ count = [pg \in Pages |-> IF pg \in kernel \cup Range(SubSeq(list, n + 1, n + 7))
                                 THEN 1 ELSE Boot.count[pg]]
    /\ tab = [t \in Tables |-> [x \in TableIdx |->
                 IF t # initproc THEN 0
                 ELSE CASE x <= 2 -> list[n + 2 + x] [] x \in 3..4 -> list[n + 3 + x] [] OTHER -> 0]]
    /\ map = [t \in Tables |-> [va \in VAs |-> IF t = initproc /\ va = 0 THEN list[n + 5] ELSE 0]]
    /\ proc = [p \in Slots |-> IF p = initproc
                               THEN [NoProc EXCEPT !.state = "RUNNABLE", !.trapframe = list[n + 1],
                                                   !.sz = 1, !.cwd = TRUE]
                               ELSE NoProc]
    /\ todo = [p \in Slots |-> <<>>]
    /\ page = [p \in Slots |-> 0]
    /\ calls = load.calls
    /\ panic = ""
    /\ ghost = [shared |-> {}, lost |-> {}, crossed |-> FALSE]

--------------------------------------------------------------------------------
(* Writing the counts of these pages spoils a table or a trapframe: what the    *)
(* kernel does from there on is not modelled.                                   *)
KernelReads(pg) == \/ \E t \in Tables : \E x \in TableIdx : tab[t][x] = pg
                   \/ \E p \in Slots : proc[p].trapframe = pg
Outcome(pages) == IF \E pg \in pages \ {0} : Home(pg) # pg /\ KernelReads(Home(pg))
                  THEN "overwritten" ELSE ""

kalloc == Head(free)

Allocate(pg) == /\ free' = Tail(free)
                /\ count' = Fill([count EXCEPT ![pg] = 1], pg)
                /\ panic' = Outcome({pg})

(* What is read as a count from a page that is in use is up to its user.        *)
InUse(pg) == \/ pg \in kernel \/ KernelReads(pg)
             \/ \E t \in Tables : \E va \in VAs : map[t][va] = pg
             \/ \E p \in Slots : page[p] = pg
Misread(pages) == {pg \in pages \ {0} : InUse(Home(pg))}
Seen(few, many) == [pg \in Pages |-> IF pg \in many THEN Junk ELSE IF pg \in few THEN 1 ELSE count[pg]]


(* kfree() of pages one after the other.                                        *)
kfree(pages) ==
    LET misread == Misread(Range(pages)) IN
    \E many \in SUBSET misread :
        LET m == FoldLeft(Freed, [free |-> free, count |-> Seen(misread \ many, many)], pages)
        IN free' = m.free /\ count' = m.count

add_page_reference(pg) == count' = [count EXCEPT ![pg] = IF @ = Junk THEN Junk ELSE @ + 1]

--------------------------------------------------------------------------------
(* The steps that calls are made of.  fail is the error path of a step.         *)

Get(fail) == [op |-> "get", fail |-> fail]
Level(t, x, fail) == [op |-> "level", t |-> t, x |-> x, fail |-> fail]
Map(t, va) == [op |-> "map", t |-> t, va |-> va]
MapAll(t, va) == [op |-> "map all", t |-> t, va |-> va]
Share(from, t, va) == [op |-> "share", from |-> from, t |-> t, va |-> va]
Unmap(t, from, to, do_free) ==
    IF from = to THEN <<>>
    ELSE <<[op |-> "unmap", t |-> t, from |-> from, to |-> to, free |-> do_free]>>
Freewalk(t) == [op |-> "freewalk", t |-> t]
Size(p, sz) == [op |-> "size", p |-> p, sz |-> sz]
Do(op, np) == [op |-> op, np |-> np]

(* mappages() of the page at va: walk() allocates what is missing below the     *)
(* root.  A table that has no root is the null pointer.                         *)
Walk(t, va, fail) == <<Level(t, 3, fail), Level(t, 4 + va \div SPAN, fail)>>

NewPage(t, va, from, undo) ==
    LET fail == Unmap(t, from, va, TRUE) \o undo
    IN <<Get(fail)>> \o Walk(t, va, fail) \o <<Map(t, va)>>

NewPages(t, from, to, undo) == FlattenSeq([i \in 1..(to - from) |-> NewPage(t, from + i - 1, from, undo)])

(* uvmshare(): its error path unmaps without freeing. *)
SharePages(from, t, sz, undo) ==
    FlattenSeq([i \in 1..sz |->
        Walk(t, i - 1, Unmap(t, 0, i - 1, FALSE) \o undo) \o <<Share(from, t, i - 1)>>])

(* proc_pagetable(): the trampoline and the trapframe share their table pages,  *)
(* so that only the first of the two can fail.                                  *)
proc_pagetable(t, undo) ==
    <<Level(t, 0, undo), Level(t, 1, <<Freewalk(t)>> \o undo), Level(t, 2, <<Freewalk(t)>> \o undo)>>

proc_freepagetable(t, sz) == Unmap(t, 0, sz, TRUE) \o <<Freewalk(t)>>

freeproc(p, sz) == <<Do("free trapframe", p)>> \o proc_freepagetable(p, sz) \o <<Do("unused", p)>>

allocproc(np) ==
    <<Get(<<Do("unused", np)>>), Do("trapframe", np)>> \o
    proc_pagetable(np, <<Do("free trapframe", np), Do("unused", np)>>)

(* exec() of a program of n pages.  bad is where it finds that the file or the  *)
(* arguments will not do.                                                       *)
exec(p, n, bad) ==
    LET t == Building(p) IN
    proc_pagetable(t, <<>>) \o NewPages(t, 0, n, <<Freewalk(t)>>) \o
    (IF bad = "file" THEN proc_freepagetable(t, n)
     ELSE NewPages(t, n, n + 2, proc_freepagetable(t, n)) \o
          (IF bad = "args" THEN proc_freepagetable(t, n + 2)
           ELSE <<Do("image", n + 2)>> \o proc_freepagetable(t, proc[p].sz)))

(* growproc() by n pages, and of a thread by one: its process and what          *)
(* infant_threads of the process names map the new page, or lose theirs.        *)
Infants(p) == SelectSeq(proc[p].infants, LAMBDA c : c # 0)

uvmthreaded_alloc(p) ==
    LET P == proc[p].parent
        a == proc[p].sz
        all == Append(Infants(P), P)
    IN <<Get(<<>>)>> \o
       FlattenSeq([i \in DOMAIN all |-> Walk(all[i], a, <<>>) \o <<MapAll(all[i], a)>>]) \o
       <<Size(p, a + 1)>>

uvmthreaded_dealloc(p) ==
    LET P == proc[p].parent
        a == proc[p].sz - 1
        infants == Infants(P)
    IN FlattenSeq([i \in DOMAIN infants |-> Unmap(infants[i], a, a + 1, FALSE) \o <<Size(infants[i], a)>>]) \o
       Unmap(P, a, a + 1, TRUE) \o <<Size(P, a), Size(p, a)>>

Grow_early(p, n) == <<Size(p, proc[p].sz + n)>> \o NewPages(p, proc[p].sz, proc[p].sz + n, <<>>)
Grow(p, n) == NewPages(p, proc[p].sz, proc[p].sz + n, <<>>) \o <<Size(p, proc[p].sz + n)>>

growproc(p, n) ==
    LET sz == proc[p].sz IN
    CASE proc[p].thread -> IF n > 0 THEN uvmthreaded_alloc(p) ELSE uvmthreaded_dealloc(p)
      [] n > 0 -> Grow(p, n)
      [] OTHER -> Unmap(p, sz + n, sz, TRUE) \o <<Size(p, sz + n)>>

--------------------------------------------------------------------------------
(* The steps *)

Step(p, op) == panic = "" /\ todo[p] # <<>> /\ Head(todo[p]).op = op
Now(p) == Head(todo[p])
GoOn(p) == todo' = [todo EXCEPT ![p] = Tail(@)]
Fail(p) == todo' = [todo EXCEPT ![p] = Head(@).fail]

get(p) ==
    /\ Step(p, "get")
    /\ \/ /\ free # <<>> /\ Allocate(kalloc) /\ GoOn(p)
          /\ page' = [page EXCEPT ![p] = kalloc]
       \/ free = <<>> /\ Fail(p) /\ UNCHANGED <<free, count, page, panic>>
    /\ UNCHANGED <<tab, map, proc, calls, lanes, kernel, ghost>>

DropPage(p) == /\ kfree(<<page[p]>>) /\ panic' = Outcome({page[p]})
               /\ page' = [page EXCEPT ![p] = 0]

(* A level of walk(): what it has allocated before a failure stays in the table.*)
level(p) ==
    LET t == Now(p).t
        x == Now(p).x
    IN /\ Step(p, "level")
       /\ \/ /\ x # 0 /\ tab[t][0] = 0
             /\ panic' = "kerneltrap"
             /\ UNCHANGED <<free, count, tab, todo, page>>
          \/ /\ tab[t][0] # 0 /\ tab[t][x] # 0 /\ GoOn(p)
             /\ UNCHANGED <<free, count, tab, page, panic>>
          \/ /\ x = 0 \/ tab[t][0] # 0
             /\ tab[t][x] = 0 /\ free # <<>> /\ Allocate(kalloc) /\ GoOn(p)
             /\ tab' = [tab EXCEPT ![t][x] = kalloc]
             /\ UNCHANGED page
          \/ /\ x = 0 \/ tab[t][0] # 0
             /\ tab[t][x] = 0 /\ free = <<>> /\ DropPage(p) /\ Fail(p)
             /\ UNCHANGED tab
       /\ UNCHANGED <<map, proc, calls, lanes, kernel, ghost>>

(* mappages() once the walk is done, of the page the process holds or, to share *)
(* it, of a page of another table.                                              *)
SetPte(p, pg, counts) ==
    LET t == Now(p).t
        va == Now(p).va
    IN /\ map' = [map EXCEPT ![t][va] = IF @ = 0 THEN pg ELSE @]
       /\ panic' = IF map[t][va] # 0 THEN "mappages: remap" ELSE Outcome(counts)
       /\ GoOn(p)

mapNew(p) ==
    /\ Step(p, "map") /\ SetPte(p, page[p], {})
    /\ page' = [page EXCEPT ![p] = 0]
    /\ UNCHANGED <<free, count, tab, proc, calls, lanes, kernel, ghost>>

mapShared(p) ==
    /\ Step(p, "share")
    /\ LET pg == map[Now(p).from][Now(p).va] IN SetPte(p, pg, {pg}) /\ add_page_reference(pg)
    /\ UNCHANGED <<free, tab, proc, page, calls, lanes, kernel, ghost>>

mapAll(p) ==
    /\ Step(p, "map all") /\ SetPte(p, page[p], {})
    /\ proc' = [proc EXCEPT ![Now(p).t].sz = Now(p).va + 1]
    /\ ghost' = [ghost EXCEPT !.shared = @ \cup {page[p]}]
    /\ UNCHANGED <<free, count, tab, page, calls, lanes, kernel>>

uvmunmap(p) ==
    LET t == Now(p).t
        vas == Now(p).from..(Now(p).to - 1)
        pages == [i \in 1..(Now(p).to - Now(p).from) |-> map[t][Now(p).from + i - 1]]
        freed == IF Now(p).free THEN Range(pages) ELSE {}
    IN /\ Step(p, "unmap") /\ GoOn(p)
       /\ panic' = IF 0 \in Range(pages) THEN "uvmunmap: not mapped" ELSE Outcome(freed)
       /\ IF Now(p).free THEN kfree(pages) /\ UNCHANGED ghost
          ELSE /\ ghost' = [ghost EXCEPT !.lost = @ \cup Range(pages)]
               /\ UNCHANGED <<free, count>>
       /\ map' = [map EXCEPT ![t] = [va \in VAs |-> IF va \in vas THEN 0 ELSE @[va]]]
       /\ UNCHANGED <<tab, proc, page, calls, lanes, kernel>>

TablePages(t) == {tab[t][x] : x \in TableIdx} \ {0}

(* freewalk() frees a table after those it points to, in their order.           *)
freewalk(p) ==
    LET t == Now(p).t
        order == [i \in 1..(LastIdx - 3) |-> i + 3] \o <<3, 2, 1, 0>>
    IN
    /\ Step(p, "freewalk") /\ GoOn(p)
    /\ panic' = IF \E va \in VAs : map[t][va] # 0 THEN "freewalk: leaf"
                ELSE Outcome(TablePages(t))
    /\ kfree([i \in DOMAIN order |-> tab[t][order[i]]])
    /\ tab' = [tab EXCEPT ![t] = [x \in TableIdx |-> 0]]
    /\ UNCHANGED <<map, proc, page, calls, lanes, kernel, ghost>>

trapframe(p) ==
    /\ Step(p, "trapframe") /\ GoOn(p)
    /\ proc' = [proc EXCEPT ![Now(p).np].trapframe = page[p]]
    /\ page' = [page EXCEPT ![p] = 0]
    /\ UNCHANGED <<free, count, tab, map, calls, panic, lanes, kernel, ghost>>

freeTrapframe(p) ==
    /\ Step(p, "free trapframe") /\ GoOn(p)
    /\ kfree(<<proc[Now(p).np].trapframe>>)
    /\ panic' = Outcome({proc[Now(p).np].trapframe})
    /\ proc' = [proc EXCEPT ![Now(p).np].trapframe = 0]
    /\ UNCHANGED <<tab, map, page, calls, lanes, kernel, ghost>>

(* A step that only sets fields of processes *)
Set(p, op, pr) == /\ Step(p, op) /\ GoOn(p)
                  /\ proc' = pr
                  /\ UNCHANGED <<free, count, tab, map, calls, panic, lanes, kernel, ghost>>

(* The end of freeproc(): is_thread and infant_threads stay. *)
unused(p) ==
    /\ Set(p, "unused", [proc EXCEPT ![Now(p).np] = [NoProc EXCEPT !.thread = proc[Now(p).np].thread,
                                                                   !.infants = proc[Now(p).np].infants]])
    /\ UNCHANGED page

(* The end of growproc(): p->sz. *)
sized(p) == /\ Set(p, "size", [proc EXCEPT ![Now(p).p].sz = Now(p).sz])
            /\ page' = [page EXCEPT ![p] = 0]

Runs(np, p, parent, thread) ==
    [proc EXCEPT ![np].sz = proc[p].sz, ![np].parent = parent, ![np].thread = thread,
                 ![np].cwd = TRUE, ![np].state = "RUNNABLE"]

child(p) == Set(p, "child", Runs(Now(p).np, p, p, FALSE)) /\ UNCHANGED page

(* The end of create_thread().  A thread gives the new one to the parent of its *)
(* process; init has none.                                                      *)
thread(p) ==
    LET np == Now(p).np
        P == IF proc[p].thread THEN proc[proc[p].parent].parent ELSE p
    IN /\ Step(p, "thread") /\ GoOn(p)
       /\ \/ /\ P # 0
             /\ proc' = [Runs(np, p, P, TRUE) EXCEPT ![P].infants[Now(p).idx] = np]
             /\ UNCHANGED panic
          \/ P = 0 /\ panic' = "kerneltrap" /\ UNCHANGED proc
       /\ UNCHANGED <<free, count, tab, map, page, calls, lanes, kernel, ghost>>

(* exec() commits to the new image. *)
image(p) ==
    LET t == Building(p) IN
    /\ Step(p, "image") /\ GoOn(p)
    /\ tab' = [tab EXCEPT ![p] = tab[t], ![t] = tab[p]]
    /\ map' = [map EXCEPT ![p] = map[t], ![t] = map[p]]
    /\ proc' = [proc EXCEPT ![p].sz = Now(p).np]
    /\ UNCHANGED <<free, count, page, calls, panic, lanes, kernel, ghost>>

--------------------------------------------------------------------------------
(* The calls *)

Busy == Cardinality({q \in Slots : todo[q] # <<>>})

Enter(p) == /\ proc[p].state = "RUNNABLE" /\ todo[p] = <<>> /\ panic = ""
            /\ calls > 0 /\ Busy < lanes
            /\ calls' = calls - 1

Begin(p, steps) == /\ Enter(p)
                   /\ todo' = [todo EXCEPT ![p] = steps]
                   /\ UNCHANGED <<free, count, tab, map, page, panic, lanes, kernel>>

(* allocproc() finds a slot and clears infant_threads by its number of entries, *)
(* in bytes.                                                                    *)
Unused == {q \in Slots : proc[q].state = "UNUSED"}
Claimed(np) == [proc EXCEPT ![np].state = "USED",
                            ![np].infants = [i \in 1..MAX_THREADS |-> IF i <= CLEARED THEN 0 ELSE @[i]]]

fork(p) ==
    /\ Unused # {}
    /\ LET np == Min(Unused)
           undo == freeproc(np, 0)
       IN /\ Begin(p, allocproc(np) \o NewPages(np, 0, proc[p].sz, undo) \o <<Do("child", np)>>)
          /\ proc' = Claimed(np)
    /\ UNCHANGED ghost

create_thread(p) ==
    /\ Unused # {}
    /\ LET np == Min(Unused)
           empty == {i \in 1..MAX_THREADS : proc[p].infants[i] = 0}
           idx == IF empty = {} THEN 1 ELSE Min(empty)
       IN /\ Begin(p, allocproc(np) \o SharePages(p, np, proc[p].sz, freeproc(np, 0)) \o
                      <<[op |-> "thread", np |-> np, idx |-> idx]>>)
          /\ proc' = Claimed(np)
    /\ ghost' = [ghost EXCEPT !.crossed = @ \/ proc[p].thread]

sys_exec(p, n, bad) == Begin(p, exec(p, n, bad)) /\ UNCHANGED <<proc, ghost>>

sys_sbrk(p, n) ==
    /\ proc[p].sz + n \in 0..MaxSz
    /\ proc[p].thread => n \in {-1, 1}
    /\ Begin(p, growproc(p, n))
    /\ ghost' = [ghost EXCEPT !.crossed = @ \/ proc[p].thread]
    /\ UNCHANGED proc

wait(p, c) == /\ proc[c].parent = p /\ proc[c].state = "ZOMBIE"
              /\ Begin(p, freeproc(c, proc[c].sz))
              /\ UNCHANGED <<proc, ghost>>

(* join_thread() once the thread is a zombie leaves it to wait() to free it. *)
join_thread(p, i) ==
    LET P == IF proc[p].thread THEN proc[p].parent ELSE p IN
    /\ Begin(p, <<>>)
    /\ proc[P].infants[i] # 0 /\ proc[proc[P].infants[i]].state = "ZOMBIE"
    /\ proc' = [proc EXCEPT ![P].infants[i] = 0]
    /\ UNCHANGED ghost

reparent(pr, p) == [q \in Slots |-> IF pr[q].parent = p THEN [pr[q] EXCEPT !.parent = initproc] ELSE pr[q]]
Exited(pr, p) == [reparent(pr, p) EXCEPT ![p].state = "ZOMBIE", ![p].cwd = FALSE]

(* init must not exit; it does, when a fork() of its own fails. *)
InitExits(p) == p = initproc /\ panic' = "init exiting" /\ UNCHANGED <<proc, ghost>>

thread_exit(p) ==
    /\ Enter(p)
    /\ \/ InitExits(p)
       \/ p # initproc /\ proc' = Exited(proc, p) /\ UNCHANGED <<panic, ghost>>
    /\ UNCHANGED <<free, count, tab, map, todo, page, lanes, kernel>>

(* exit() of a thread makes zombies of all that infant_threads of its process   *)
(* names, and puts the directory of each of them, then its own; putting a null  *)
(* pointer is a fault in the kernel.                                            *)
exit(p) ==
    LET infants == IF proc[p].thread THEN Infants(proc[p].parent) ELSE <<>>
        all == Append(infants, p)
        twice == \E i, j \in DOMAIN all : i < j /\ all[i] = all[j]
        pr == [q \in Slots |-> IF q \in Range(infants)
                               THEN [proc[q] EXCEPT !.state = "ZOMBIE", !.cwd = FALSE] ELSE proc[q]]
        fault == twice \/ \E c \in Range(infants) : ~proc[c].cwd
    IN /\ Enter(p)
       /\ \/ InitExits(p)
          \/ /\ p # initproc
             /\ \/ fault /\ panic' = "kerneltrap" /\ UNCHANGED proc
                \/ ~fault /\ proc' = Exited(pr, p) /\ UNCHANGED panic
             /\ ghost' = [ghost EXCEPT !.crossed = @ \/ proc[p].thread]
       /\ UNCHANGED <<free, count, tab, map, todo, page, lanes, kernel>>

Halt == (panic # "" \/ calls = 0) /\ UNCHANGED vars

Calls(p) == \/ fork(p) \/ create_thread(p) \/ thread_exit(p) \/ exit(p)
            \/ \E n \in {-1, 1, 2} : sys_sbrk(p, n)
            \/ \E bad \in {"", "file", "args"} : sys_exec(p, 1, bad)
            \/ \E i \in 1..MAX_THREADS : join_thread(p, i)
            \/ \E c \in Slots : wait(p, c)
Steps(p) == \/ get(p) \/ level(p) \/ mapNew(p) \/ mapShared(p) \/ mapAll(p) \/ uvmunmap(p) \/ freewalk(p)
            \/ trapframe(p) \/ freeTrapframe(p) \/ unused(p) \/ sized(p) \/ child(p) \/ thread(p) \/ image(p)
Next == (\E p \in Slots : Calls(p) \/ Steps(p)) \/ Halt

Spec == Init /\ [][Next]_vars

--------------------------------------------------------------------------------
Mapped == UNION {{map[t][va] : va \in VAs} : t \in Tables} \ {0}
InTables == UNION {TablePages(t) : t \in Tables}
Held == UNION {{proc[p].trapframe, page[p]} : p \in Slots} \ {0}
Used == Mapped \cup InTables \cup Held

Mappings(pg) == Cardinality({x \in Tables \X VAs : map[x[1]][x[2]] = pg})



(* The kernel does not panic, out of memory or not, unless a thread has called  *)
(* sbrk(), exit() or create_thread(), which act on other page tables and on     *)
(* the entries of infant_threads; or init exits, as it does when its fork()     *)
(* finds no memory; or a count was written over a table.                        *)
NoPanic == ghost.crossed \/ panic \in {"", "init exiting", "overwritten"}

(* A call that has failed leaves a process its memory: outside a call, as many  *)
(* pages are mapped as its size says, from address 0, and exec() has left no    *)
(* table behind.  Excepted again is what threads do to the tables of others.    *)
ImageWhole ==
    panic = "" /\ ~ghost.crossed => \A p \in Slots : todo[p] = <<>> =>
        /\ proc[p].state \in {"RUNNABLE", "ZOMBIE"} /\ Busy = 0 =>
              \A va \in VAs : map[p][va] # 0 <=> va < proc[p].sz
        /\ TablePages(Building(p)) = {}
================================================================================
