------------------------------- MODULE FileSystem -------------------------------
(* Blocks, inodes, directories and names (fs.c) under the system calls that use *)
(* them (sysfile.c, and fileread(), filewrite(), fileclose() of file.c).        *)
(*                                                                              *)
(* fs is the file system as the buffer cache and the inode table show it.  The  *)
(* size of a file is counted in directory entries.  A process carries the rest  *)
(* of its call as a sequence of steps; a step runs from one lock to the next,   *)
(* and holds an inode's sleep-lock over its end only where lock says so.        *)
EXTENDS Integers, Sequences, FiniteSets, FiniteSetsExt, SequencesExt

CONSTANTS
    Procs, None,
    NINODES,        \* inodes on the disk, the root is the first
    NINODE,         \* entries of the inode table
    NBLOCKS,        \* data blocks
    NDIRECT, NINDIRECT,
    BSIZE,          \* entries of a block
    NOFILE,         \* open files of a process
    Calls,          \* the calls each process makes
    MaxCalls,       \* how many of them
    Files,          \* files that mkfs puts on the disk
    FirstCalls      \* how many calls are made on the disk of mkfs

ASSUME FileSystemAssumption ==
    /\ {NINODES, NINODE, NBLOCKS, NDIRECT, BSIZE} \subseteq Nat \ {0}
    /\ {NINDIRECT, NOFILE, MaxCalls, FirstCalls} \subseteq Nat /\ FirstCalls <= MaxCalls

Inums == 1..NINODES
ROOTINO == 1
Bns == 0..(NDIRECT + NINDIRECT - 1)

VARIABLES
    fs,     \* disk and mem (the inode on disk and in the table), ref, lock,
            \* ents (entries of a directory), free (blocks), panic, and stray:
            \* inodes whose links come from a removed directory, and late: inodes
            \* allocated again before the iput() that freed them gave up its reference
    todo,   \* the steps a process has still to make; none in user space
    reg,    \* its local variables: the inode of the path so far, the rest of the
            \* path, the last name, the other inode of link() and unlink()
    cwd,
    ofile,  \* open files: inode and offset
    made    \* calls made so far

vars == <<fs, todo, reg, cwd, ofile, made>>

NoInode == [type |-> "none", nlink |-> 0, size |-> 0, addrs |-> [b \in Bns |-> 0], ind |-> 0]
Invalid == [NoInode EXCEPT !.type = "invalid"]
Entry(name, inum) == [name |-> name, inum |-> inum]
NoReg == [at |-> 0, path |-> <<>>, parent |-> FALSE, name |-> "", ip |-> 0, stale |-> FALSE]

--------------------------------------------------------------------------------
(* Blocks and the content of an inode: operators on the inode d and the set of  *)
(* free blocks f.  balloc() takes the first free block, 0 if there is none.     *)

balloc(f) == IF f = {} THEN 0 ELSE Min(f)

(* A block behind the direct ones needs the indirect block, which stays         *)
(* allocated when the block itself cannot be had.                               *)
bmap_forgets(d, f, bn) ==
    LET ind == IF bn < NDIRECT \/ d.ind # 0 THEN d.ind ELSE balloc(f)
        addr == IF d.addrs[bn] # 0 THEN d.addrs[bn] ELSE balloc(f \ {ind})
    IN [d |-> IF addr = 0 THEN d ELSE [d EXCEPT !.ind = ind, !.addrs[bn] = addr],
        free |-> f \ {ind, addr}, addr |-> addr]

bmap(d, f, bn) ==
    LET ind == IF bn < NDIRECT \/ d.ind # 0 THEN d.ind ELSE balloc(f)
        addr == CASE d.addrs[bn] # 0 -> d.addrs[bn]
                  [] bn >= NDIRECT /\ ind = 0 -> 0
                  [] OTHER -> balloc(f \ {ind})
    IN [d |-> [d EXCEPT !.ind = ind, !.addrs[bn] = addr], free |-> f \ {ind, addr}, addr |-> addr]

BlocksOf(d) == ({d.addrs[b] : b \in Bns} \cup {d.ind}) \ {0}

itrunc(d) == [d EXCEPT !.addrs = [b \in Bns |-> 0], !.ind = 0, !.size = 0]

readi(d, off, n) == IF off > d.size THEN 0 ELSE Min({n, d.size - off})

(* The loop of writei(): it stops where no block can be had, or where copyin()  *)
(* fails, after fault units.                                                    *)
RECURSIVE writeLoop(_, _, _, _)
writeLoop(w, off, n, fault) ==
    LET b == bmap(w.d, w.free, off \div BSIZE)
        m == Min({n, BSIZE - (off % BSIZE)})
        got == [w EXCEPT !.d = b.d, !.free = b.free]
    IN IF n = 0 THEN w
       ELSE IF b.addr = 0 \/ fault < m THEN got
       ELSE writeLoop([got EXCEPT !.d.size = Max({@, off + m}), !.tot = @ + m],
                      off + m, n - m, fault - m)

writei(d, f, off, n, fault) ==
    IF off > d.size \/ off + n > (NDIRECT + NINDIRECT) * BSIZE
    THEN [d |-> d, free |-> f, tot |-> -1]
    ELSE writeLoop([d |-> d, free |-> f, tot |-> 0], off, n, fault)

(* mkfs (mkfs/mkfs.c) allocates inodes and blocks in order: iappend() of n units *)
(* to inode i of the image m takes blocks for the part of the file they reach.  *)
iappend(m, i, n) ==
    LET d == m.disk[i]
        new == {b \in Bns : b * BSIZE < d.size + n /\ d.addrs[b] = 0}
        direct == Cardinality({b \in new : b < NDIRECT})
        ind == IF d.ind = 0 /\ \E b \in new : b >= NDIRECT THEN 1 ELSE 0
        Addr(b) == m.freeblock + Cardinality({c \in new : c < b}) + (IF b < NDIRECT THEN 0 ELSE ind)
    IN [m EXCEPT !.disk[i] = [d EXCEPT !.size = @ + n,
                                       !.ind = IF ind = 1 THEN m.freeblock + direct ELSE @,
                                       !.addrs = [b \in Bns |-> IF b \in new THEN Addr(b) ELSE @[b]]],
                 !.freeblock = @ + Cardinality(new) + ind]

MkfsIalloc(m, type) == [m EXCEPT !.disk[m.freeinode] = [NoInode EXCEPT !.type = type, !.nlink = 1],
                                 !.freeinode = @ + 1]

AddFile(m, f) == iappend(iappend(MkfsIalloc(m, "FILE"), ROOTINO, 1), m.freeinode, f.size)

MkfsBalloc(used) == used..NBLOCKS

(* The root with its "." and ".." and a file after the other; at the end the    *)
(* size of the root goes to the end of a block.                                 *)
mkfs(files) ==
    LET blank == [disk |-> [i \in Inums |-> NoInode], freeinode |-> 1, freeblock |-> 1]
        m == FoldLeft(AddFile, iappend(MkfsIalloc(blank, "DIR"), ROOTINO, 2), files)
        size == (m.disk[ROOTINO].size \div BSIZE + 1) * BSIZE
        names == <<Entry(".", 1), Entry("..", 1)>> \o
                 [k \in DOMAIN files |-> Entry(files[k].name, k + 1)]
    IN [disk |-> [m.disk EXCEPT ![ROOTINO].size = size],
        ents |-> [i \in Inums |-> IF i # ROOTINO THEN <<>>
                                  ELSE [k \in 1..size |-> IF k <= Len(names) THEN names[k] ELSE Entry("", 0)]],
        free |-> MkfsBalloc(m.freeblock)]

(* The disk as an earlier session left it: /f, an empty file, and /d/e. *)
Used ==
    LET blank == [d |-> NoInode, free |-> 1..NBLOCKS, tot |-> 0]
        root == writeLoop(blank, 0, 4, 4)
        d == writeLoop([root EXCEPT !.d = NoInode], 0, 3, 3)
        e == writeLoop([d EXCEPT !.d = NoInode], 0, 2, 2)
    IN [disk |-> [i \in Inums |->
                    CASE i = 1 -> [root.d EXCEPT !.type = "DIR", !.nlink = 2]
                      [] i = 2 -> [NoInode EXCEPT !.type = "FILE", !.nlink = 1]
                      [] i = 3 -> [d.d EXCEPT !.type = "DIR", !.nlink = 2]
                      [] i = 4 -> [e.d EXCEPT !.type = "DIR", !.nlink = 1]
                      [] OTHER -> NoInode],
        ents |-> [i \in Inums |->
                    CASE i = 1 -> <<Entry(".", 1), Entry("..", 1), Entry("f", 2), Entry("d", 3)>>
                      [] i = 3 -> <<Entry(".", 3), Entry("..", 1), Entry("e", 4)>>
                      [] i = 4 -> <<Entry(".", 4), Entry("..", 3)>>
                      [] OTHER -> <<>>],
        free |-> e.free]

Init ==
    /\ \E x \in {[image |-> Used, made |-> 0], [image |-> mkfs(Files), made |-> MaxCalls - FirstCalls]} :
         /\ fs = [disk |-> x.image.disk, ents |-> x.image.ents, free |-> x.image.free,
                  mem |-> [i \in Inums |-> Invalid],
                  ref |-> [i \in Inums |-> IF i = ROOTINO THEN Cardinality(Procs) ELSE 0],
                  lock |-> [i \in Inums |-> None],
                  panic |-> "", stray |-> {}, late |-> {}]
         /\ made = x.made
    /\ todo = [p \in Procs |-> <<>>]
    /\ reg = [p \in Procs |-> NoReg]
    /\ cwd = [p \in Procs |-> ROOTINO]
    /\ ofile = [p \in Procs |-> <<>>]

--------------------------------------------------------------------------------
(* Inodes: operators on the file system s *)

Panic(s, why) == IF s.panic = "" THEN [s EXCEPT !.panic = why] ELSE s

(* iupdate() after a change of inode i. *)
iupdate(s, i, d) == [s EXCEPT !.mem[i] = d, !.disk[i] = d]

(* iget(), and idup() of an inode that is in the table. *)
iget(s, i) ==
    IF s.ref[i] = 0 /\ Cardinality({j \in Inums : s.ref[j] > 0}) >= NINODE
    THEN Panic(s, "iget: no inodes")
    ELSE [s EXCEPT !.ref[i] = @ + 1, !.mem[i] = IF s.ref[i] = 0 THEN Invalid ELSE @]

(* ilock() once the sleep-lock is free; stale is how the inode was found. *)
Load(s, i, stale) ==
    IF s.mem[i] # Invalid THEN s
    ELSE IF s.disk[i].type = "none"
         THEN Panic(s, IF stale THEN "ilock: dotdot of a removed directory" ELSE "ilock: no type")
         ELSE [s EXCEPT !.mem[i] = s.disk[i]]

(* bfree() of every block of inode i, and the new inode on disk. *)
Truncate(s, i) ==
    LET d == s.mem[i] IN
    [iupdate(IF BlocksOf(d) \cap s.free # {} THEN Panic(s, "freeing free block") ELSE s, i, itrunc(d))
        EXCEPT !.free = @ \cup BlocksOf(d), !.ents[i] = <<>>]

(* ialloc() takes the first inode without a type. *)
FreeInums(s) == {i \in Inums : s.disk[i].type = "none"}

ialloc(s, i, type) ==
    iget([s EXCEPT !.disk[i] = [NoInode EXCEPT !.type = type], !.ents[i] = <<>>,
                   !.stray = @ \ {i},
                   !.late = IF s.ref[i] > 0 THEN @ \cup {i} ELSE @ \ {i}], i)

dirlookup(s, i, name) ==
    LET hits == {k \in DOMAIN s.ents[i] : s.ents[i][k].inum # 0 /\ s.ents[i][k].name = name}
    IN IF hits = {} THEN 0 ELSE Min(hits)

EntryInum(s, i, name) == LET k == dirlookup(s, i, name)
                         IN IF k = 0 THEN 0 ELSE s.ents[i][k].inum

(* dirlink(): a new entry goes to the first empty place, else to the end. *)
dirlink(s, i, name, inum) ==
    LET holes == {k \in DOMAIN s.ents[i] : s.ents[i][k].inum = 0}
        k == IF holes = {} THEN Len(s.ents[i]) + 1 ELSE Min(holes)
        w == writei(s.mem[i], s.free, k - 1, 1, 1)
        wrote == [iupdate(s, i, w.d) EXCEPT !.free = w.free]
    IN CASE dirlookup(s, i, name) # 0 -> [s |-> s, ok |-> FALSE]
         [] w.tot = -1 -> [s |-> s, ok |-> FALSE]
         [] w.tot = 0 -> [s |-> wrote, ok |-> FALSE]
         [] OTHER -> [s |-> [wrote EXCEPT !.ents[i] = IF holes = {} THEN Append(@, Entry(name, inum))
                                                      ELSE [@ EXCEPT ![k] = Entry(name, inum)]],
                      ok |-> TRUE]

--------------------------------------------------------------------------------
(* Steps of a process.  A call is the sequence of its steps; a step may put     *)
(* others before the rest, or drop the rest when the call fails.                *)

Step(p, op) == todo[p] # <<>> /\ Head(todo[p]).op = op /\ fs.panic = ""
Rest(p) == Tail(todo[p])
Unlocked(i) == fs.lock[i] = None

Advance(p, s, steps, r) == /\ fs' = s
                           /\ todo' = [todo EXCEPT ![p] = steps]
                           /\ reg' = [reg EXCEPT ![p] = IF steps = <<>> THEN NoReg ELSE r]

Put(i) == [op |-> "put", i |-> i]
Do(op) == [op |-> op]

(* The steps of a call after the path it starts with. *)
Program(c) ==
    CASE c.op = "open" -> IF c.create THEN <<[op |-> "create", type |-> "FILE"], c>> ELSE <<c>>
      [] c.op = "make" -> <<[op |-> "create", type |-> c.type], Do("made")>>
      [] c.op = "link" -> <<Do("link"), [op |-> "walk", path |-> c.new], Do("enter")>>
      [] OTHER -> <<c>>

ForParent(c) == c.op \in {"make", "unlink"} \/ (c.op = "open" /\ c.create)

(* namex(): the start of the path, then one element a step.  A path that leads  *)
(* nowhere ends the call, but sys_link() has to take back its link.             *)
Nowhere_keeps_link(p) == <<>>

Nowhere(p) == IF reg[p].ip = 0 THEN <<>> ELSE <<Do("unlink count")>>

NamexStart(p, path, parent, steps) ==
    LET i == IF path.abs THEN ROOTINO ELSE cwd[p] IN
    Advance(p, iget(fs, i),
            IF path.elems # <<>> THEN <<Do("namex")>> \o steps
            ELSE IF parent THEN <<Put(i)>> \o Nowhere(p) ELSE steps,
            [reg[p] EXCEPT !.at = i, !.path = path.elems, !.parent = parent])

Start(p) == /\ todo[p] = <<>> /\ fs.panic = "" /\ made < MaxCalls
            /\ \E c \in Calls[p] : NamexStart(p, c.path, ForParent(c), Program(c))
            /\ made' = made + 1
            /\ UNCHANGED <<cwd, ofile>>

WalkNew(p) == /\ Step(p, "walk")
              /\ NamexStart(p, Head(todo[p]).path, TRUE, Rest(p))
              /\ UNCHANGED <<cwd, ofile, made>>

namex(p) ==
    LET r == reg[p]
        i == r.at
        s == Load(fs, i, r.stale)
        name == Head(r.path)
        next == EntryInum(s, i, name)
        removed == s.mem[i].nlink = 0 \/ i \in s.stray
        last == Len(r.path) = 1
    IN /\ Step(p, "namex")
       /\ Unlocked(i)
       /\ IF s.mem[i].type = "DIR" /\ r.parent /\ last
          THEN Advance(p, s, Rest(p), [r EXCEPT !.name = name, !.path = <<>>])
          ELSE IF s.mem[i].type # "DIR" \/ next = 0
          THEN Advance(p, s, <<Put(i)>> \o Nowhere(p), r)
          ELSE Advance(p, iget(s, next), <<Put(i)>> \o (IF last THEN Rest(p) ELSE todo[p]),
                       [r EXCEPT !.at = next, !.path = Tail(@),
                                 !.stale = name = ".." /\ removed])
       /\ UNCHANGED <<cwd, ofile, made>>

--------------------------------------------------------------------------------
(* iput(): the last reference to an inode without links frees it.  itable.lock  *)
(* is not held while it does, nor from there to the end of the reference.       *)

LastPut_shared(s, i) == s.mem[i] # Invalid /\ s.mem[i].nlink = 0

LastPut(s, i) == s.ref[i] = 1 /\ s.mem[i] # Invalid /\ s.mem[i].nlink = 0

iput(p) ==
    LET i == Head(todo[p]).i
        free == <<[op |-> "free", i |-> i], [op |-> "unlock", i |-> i], [op |-> "drop", i |-> i]>>
    IN /\ Step(p, "put")
       /\ IF LastPut(fs, i)
          THEN /\ Unlocked(i)
               /\ Advance(p, [fs EXCEPT !.lock[i] = p], free \o Rest(p), reg[p])
          ELSE Advance(p, [fs EXCEPT !.ref[i] = @ - 1], Rest(p), reg[p])
       /\ UNCHANGED <<cwd, ofile, made>>

IputFree(p) ==
    /\ Step(p, "free")
    /\ LET i == Head(todo[p]).i
           s == Truncate(fs, i) IN
       Advance(p, iupdate(s, i, [s.mem[i] EXCEPT !.type = "none"]), Rest(p), reg[p])
    /\ UNCHANGED <<cwd, ofile, made>>

IputUnlock_valid(p) ==
    /\ Step(p, "unlock")
    /\ Advance(p, [fs EXCEPT !.lock[Head(todo[p]).i] = None], Rest(p), reg[p])
    /\ UNCHANGED <<cwd, ofile, made>>

IputUnlock(p) ==
    /\ Step(p, "unlock")
    /\ LET i == Head(todo[p]).i IN
       Advance(p, [fs EXCEPT !.mem[i] = Invalid, !.lock[i] = None], Rest(p), reg[p])
    /\ UNCHANGED <<cwd, ofile, made>>

IputDrop(p) ==
    /\ Step(p, "drop")
    /\ Advance(p, [fs EXCEPT !.ref[Head(todo[p]).i] = @ - 1], Rest(p), reg[p])
    /\ UNCHANGED <<cwd, ofile, made>>

--------------------------------------------------------------------------------
(* create(): leaves the inode it found or made locked in reg.at, or ends the    *)
(* call.                                                                        *)

create(p) ==
    LET r == reg[p]
        dp == r.at
        type == Head(todo[p]).type
        s == Load(fs, dp, r.stale)
        ip == EntryInum(s, dp, r.name)
        new == Min(FreeInums(s))
    IN /\ Step(p, "create")
       /\ Unlocked(dp)
       /\ IF ip # 0
          THEN Advance(p, iget(s, ip), <<Put(dp), [op |-> "exists", type |-> type]>> \o Rest(p),
                       [r EXCEPT !.at = ip])
          ELSE IF FreeInums(s) = {}
          THEN Advance(p, s, <<Put(dp)>>, r)
          ELSE Advance(p, [ialloc(s, new, type) EXCEPT !.lock[dp] = p],
                       <<[op |-> "fill", type |-> type]>> \o Rest(p), [r EXCEPT !.ip = new])
       /\ UNCHANGED <<cwd, ofile, made>>

CreateExists(p) ==
    LET r == reg[p]
        s == Load(fs, r.at, r.stale)
        found == Head(todo[p]).type = "FILE" /\ s.mem[r.at].type \in {"FILE", "DEVICE"}
    IN /\ Step(p, "exists")
       /\ Unlocked(r.at)
       /\ IF found THEN Advance(p, [s EXCEPT !.lock[r.at] = p], Rest(p), r)
                   ELSE Advance(p, s, <<Put(r.at)>>, r)
       /\ UNCHANGED <<cwd, ofile, made>>

(* Links into a directory that is itself removed. *)
Stray(s, dp, ip) == IF s.mem[dp].nlink = 0 \/ dp \in s.stray THEN {dp, ip} ELSE {}

(* The new inode gets its link count and entries before the directory gets its  *)
(* name; any of them can fail for want of a block.                              *)
CreateFill(p) ==
    LET r == reg[p]
        dp == r.at
        ip == r.ip
        dir == Head(todo[p]).type = "DIR"
        s0 == Load(fs, ip, FALSE)
        s1 == iupdate(s0, ip, [s0.mem[ip] EXCEPT !.nlink = 1])
        dot == IF dir THEN dirlink(s1, ip, ".", ip) ELSE [s |-> s1, ok |-> TRUE]
        dots == IF dir /\ dot.ok THEN dirlink(dot.s, ip, "..", dp) ELSE dot
        named == IF dots.ok THEN dirlink(dots.s, dp, r.name, ip) ELSE dots
        s2 == [named.s EXCEPT !.lock[dp] = None]
        s3 == IF dir THEN iupdate(s2, dp, [s2.mem[dp] EXCEPT !.nlink = @ + 1]) ELSE s2
    IN /\ Step(p, "fill")
       /\ Unlocked(ip)
       /\ IF named.ok
          THEN Advance(p, [s3 EXCEPT !.lock[ip] = p, !.stray = @ \cup Stray(s2, dp, ip)],
                       <<Put(dp)>> \o Rest(p), [r EXCEPT !.at = ip, !.ip = 0])
          ELSE Advance(p, iupdate(s2, ip, [s2.mem[ip] EXCEPT !.nlink = 0]),
                       <<Put(ip), Put(dp)>>, r)
       /\ UNCHANGED <<cwd, ofile, made>>

--------------------------------------------------------------------------------
(* The system calls, from the inode their path led to *)

(* sys_open(): the inode of a create is locked already.  A device may have a    *)
(* major number out of range.                                                   *)
sys_open(p) ==
    LET c == Head(todo[p])
        r == reg[p]
        i == r.at
        s == [(IF c.create THEN fs ELSE Load(fs, i, r.stale)) EXCEPT !.lock[i] = None]
        d == s.mem[i]
    IN /\ Step(p, "open")
       /\ c.create \/ Unlocked(i)
       /\ \/ /\ \/ ~c.create /\ d.type = "DIR" /\ c.write
                \/ d.type = "DEVICE"
                \/ Len(ofile[p]) = NOFILE
             /\ Advance(p, s, <<Put(i)>>, r)
             /\ UNCHANGED ofile
          \/ /\ c.create \/ d.type # "DIR" \/ ~c.write
             /\ Len(ofile[p]) < NOFILE
             /\ ofile' = [ofile EXCEPT ![p] = Append(@, [ip |-> i, off |-> 0, write |-> c.write])]
             /\ Advance(p, IF c.trunc /\ d.type = "FILE" THEN Truncate(s, i) ELSE s, <<>>, r)
       /\ UNCHANGED <<cwd, made>>

(* The end of sys_mkdir() and sys_mknod(). *)
Made(p) ==
    /\ Step(p, "made")
    /\ Advance(p, [fs EXCEPT !.lock[reg[p].at] = None], <<Put(reg[p].at)>>, reg[p])
    /\ UNCHANGED <<cwd, ofile, made>>

(* sys_link() counts the link before it enters the name, and takes it back when *)
(* the name cannot be entered.                                                  *)
sys_link(p) ==
    LET r == reg[p]
        i == r.at
        s == Load(fs, i, r.stale)
    IN /\ Step(p, "link")
       /\ Unlocked(i)
       /\ IF s.mem[i].type \in {"DIR", "invalid"}
          THEN Advance(p, s, <<Put(i)>>, r)
          ELSE Advance(p, iupdate(s, i, [s.mem[i] EXCEPT !.nlink = @ + 1]), Rest(p),
                       [r EXCEPT !.ip = i])
       /\ UNCHANGED <<cwd, ofile, made>>

LinkEnter(p) ==
    LET r == reg[p]
        dp == r.at
        s == Load(fs, dp, r.stale)
        l == dirlink(s, dp, r.name, r.ip)
    IN /\ Step(p, "enter")
       /\ Unlocked(dp)
       /\ IF l.ok THEN Advance(p, [l.s EXCEPT !.stray = @ \cup Stray(s, dp, r.ip)],
                               <<Put(dp), Put(r.ip)>>, r)
                  ELSE Advance(p, l.s, <<Put(dp), Do("unlink count")>>, r)
       /\ UNCHANGED <<cwd, ofile, made>>

(* The last lock of a link that failed and of an unlink: one link less. *)
DropLink(p) ==
    LET i == reg[p].ip IN
    /\ Step(p, "unlink count")
    /\ fs.lock[i] \in {None, p}
    /\ Advance(p, [iupdate(fs, i, [fs.mem[i] EXCEPT !.nlink = @ - 1]) EXCEPT !.lock[i] = None],
               <<Put(i)>>, reg[p])
    /\ UNCHANGED <<cwd, ofile, made>>

isdirempty(s, i) == \A k \in DOMAIN s.ents[i] : k > 2 => s.ents[i][k].inum = 0

(* sys_unlink() locks the directory, then the inode. *)
sys_unlink(p) ==
    LET r == reg[p]
        dp == r.at
        s == Load(fs, dp, r.stale)
        ip == EntryInum(s, dp, r.name)
    IN /\ Step(p, "unlink")
       /\ Unlocked(dp)
       /\ IF r.name \in {".", ".."} \/ ip = 0
          THEN Advance(p, s, <<Put(dp)>>, r)
          ELSE Advance(p, [iget(s, ip) EXCEPT !.lock[dp] = p], <<Do("remove")>>,
                       [r EXCEPT !.ip = ip])
       /\ UNCHANGED <<cwd, ofile, made>>

UnlinkRemove(p) ==
    LET r == reg[p]
        dp == r.at
        ip == r.ip
        s0 == [Load(fs, ip, FALSE) EXCEPT !.lock[dp] = None]
        s == IF s0.mem[ip].nlink < 1 THEN Panic(s0, "unlink: nlink < 1") ELSE s0
        dir == s.mem[ip].type = "DIR"
        k == dirlookup(s, dp, r.name)
        gone == [s EXCEPT !.ents[dp][k] = Entry("", 0), !.lock[ip] = p]
    IN /\ Step(p, "remove")
       /\ Unlocked(ip)
       /\ IF dir /\ ~isdirempty(s, ip)
          THEN Advance(p, s, <<Put(ip), Put(dp)>>, r)
          ELSE Advance(p, IF dir THEN iupdate(gone, dp, [s.mem[dp] EXCEPT !.nlink = @ - 1]) ELSE gone,
                       <<Put(dp), Do("unlink count")>>, r)
       /\ UNCHANGED <<cwd, ofile, made>>

(* sys_chdir() puts the old directory in the transaction, and stores the new    *)
(* one after it.                                                                *)
sys_chdir(p) ==
    LET r == reg[p]
        s == Load(fs, r.at, r.stale)
    IN /\ Step(p, "chdir")
       /\ Unlocked(r.at)
       /\ IF s.mem[r.at].type # "DIR"
          THEN Advance(p, s, <<Put(r.at)>>, r)
          ELSE Advance(p, s, <<Put(cwd[p]), Do("cwd")>>, r)
       /\ UNCHANGED <<cwd, ofile, made>>

ChdirDone(p) == /\ Step(p, "cwd")
                /\ Advance(p, fs, <<>>, reg[p])
                /\ cwd' = [cwd EXCEPT ![p] = reg[p].at]
                /\ UNCHANGED <<ofile, made>>

--------------------------------------------------------------------------------
(* Calls on an open file *)

Opened(p, k) == todo[p] = <<>> /\ fs.panic = "" /\ k \in DOMAIN ofile[p]

fileread(p, k, n) ==
    /\ Opened(p, k)
    /\ LET f == ofile[p][k]
           s == Load(fs, f.ip, FALSE) IN
       /\ Unlocked(f.ip) /\ s.mem[f.ip].type # "DEVICE"
       /\ fs' = s
       /\ ofile' = [ofile EXCEPT ![p][k].off = @ + readi(s.mem[f.ip], f.off, n)]
    /\ UNCHANGED <<todo, reg, cwd, made>>

(* filestat() only loads the inode. *)
filestat(p, k) == /\ Opened(p, k) /\ Unlocked(ofile[p][k].ip)
                  /\ fs' = Load(fs, ofile[p][k].ip, FALSE)
                  /\ UNCHANGED <<todo, reg, cwd, ofile, made>>

(* filewrite(): a long write is a transaction for each part that fits the log.  *)
filewrite(p, k, n, fault) ==
    /\ Opened(p, k)
    /\ ofile[p][k].write
    /\ LET f == ofile[p][k]
           s == Load(fs, f.ip, FALSE)
           w == writei(s.mem[f.ip], s.free, f.off, n, fault) IN
       /\ Unlocked(f.ip) /\ s.mem[f.ip].type # "DEVICE"
       /\ fs' = [iupdate(s, f.ip, w.d) EXCEPT !.free = w.free]
       /\ ofile' = [ofile EXCEPT ![p][k].off = @ + Max({w.tot, 0})]
    /\ UNCHANGED <<todo, reg, cwd, made>>

(* fileclose() of the last reference to the file. *)
fileclose(p, k) ==
    /\ Opened(p, k)
    /\ todo' = [todo EXCEPT ![p] = <<Put(ofile[p][k].ip)>>]
    /\ ofile' = [ofile EXCEPT ![p] = SubSeq(@, 1, k - 1) \o SubSeq(@, k + 1, Len(@))]
    /\ UNCHANGED <<fs, reg, cwd, made>>

Halt == (fs.panic # "" \/ made = MaxCalls) /\ UNCHANGED vars

Names(p) == WalkNew(p) \/ namex(p)
Puts(p) == iput(p) \/ IputFree(p) \/ IputUnlock(p) \/ IputDrop(p)
Creates(p) == create(p) \/ CreateExists(p) \/ CreateFill(p)
Syscalls(p) == \/ sys_open(p) \/ Made(p) \/ sys_link(p) \/ LinkEnter(p) \/ DropLink(p)
               \/ sys_unlink(p) \/ UnlinkRemove(p) \/ sys_chdir(p) \/ ChdirDone(p)
Next == \/ \E p \in Procs : Start(p) \/ Names(p) \/ Puts(p) \/ Creates(p) \/ Syscalls(p)
        \/ \E p \in Procs, k \in 1..NOFILE : \/ fileclose(p, k) \/ filestat(p, k)
                                             \/ fileread(p, k, BSIZE)
                                             \/ \E t \in {0, BSIZE} : filewrite(p, k, BSIZE, t)
        \/ Halt

Spec == Init /\ [][Next]_vars

--------------------------------------------------------------------------------
Quiet == fs.panic = "" /\ \A p \in Procs : todo[p] = <<>>

Allocated(i) == fs.disk[i].type # "none"

(* Entries of directories that are in the tree, other than ".", that name i. *)
Links(i) == {x \in Inums \X (1..(NDIRECT + NINDIRECT) * BSIZE) :
                /\ fs.disk[x[1]].type = "DIR" /\ fs.disk[x[1]].nlink > 0 /\ x[1] \notin fs.stray
                /\ x[2] \in DOMAIN fs.ents[x[1]]
                /\ fs.ents[x[1]][x[2]].inum = i /\ fs.ents[x[1]][x[2]].name # "."}

(* Between transactions, which is what a crash leaves on the disk, the tree is  *)
(* consistent.  Link counts are the numbers of entries and every entry names an *)
(* allocated inode, except below a removed directory that is still in use,      *)
(* where create() and link() go on entering names.  An inode without a link is  *)
(* allocated only while somebody uses it, so that "the last reference to an     *)
(* inode" frees it (iput()), except when it was allocated again while an iput() *)
(* that had freed it was still to give up its reference (late): then neither of *)
(* two last references sees that it is the last.                                *)
TreeConsistent ==
    Quiet => /\ \A i \in Inums \ fs.stray :
                   /\ fs.disk[i].nlink = Cardinality(Links(i))
                   /\ Links(i) # {} => Allocated(i)
             /\ \A i \in Inums \ fs.late :
                   Allocated(i) /\ fs.disk[i].nlink = 0 => fs.ref[i] > 0

(* A block is free or belongs to exactly one allocated inode at any time        *)
(* outside a transaction, whichever step of a create, write or truncate failed  *)
(* for want of a block, and a file has no holes, so that reading never allocates.*)
BlocksOwned ==
    Quiet =>
        /\ \A i, j \in Inums : i # j => BlocksOf(fs.disk[i]) \cap BlocksOf(fs.disk[j]) = {}
        /\ fs.free = (1..NBLOCKS) \ UNION {BlocksOf(fs.disk[i]) : i \in Inums}
        /\ \A i \in Inums, b \in Bns : b * BSIZE < fs.disk[i].size => fs.disk[i].addrs[b] # 0

(* The kernel does not panic, with two exceptions: the inode table is full, and *)
(* the ".." of a removed directory names an inode that has been freed.          *)
(* "ilock: no type" is the assertion that no reference outlives its inode.      *)
NoPanic == fs.panic \in {"", "iget: no inodes", "ilock: dotdot of a removed directory"}

(* iput() finds the lock of an inode it is about to free free, as its comment   *)
(* says, and frees it once: nobody else has a reference.                        *)
IputNeverBlocks ==
    \A p \in Procs : Step(p, "put") /\ LastPut(fs, Head(todo[p]).i) => Unlocked(Head(todo[p]).i)
================================================================================
