------------------------------- MODULE LogProofs -------------------------------
(* The invariant of the write-ahead log, for any processes, blocks, contents    *)
(* and sizes: it is kept by operations, by commit(), at boot, by the buffer     *)
(* cache and by a crash.  From it: the log implements an atomic disk, and its   *)
(* header never overflows.                                                      *)
EXTENDS Log, TLAPS

(* How long a leaf may take: SMT first, then Zenon.                          *)
USE SMTT(20), ZenonT(30)

--------------------------------------------------------------------------------
(* The inductive invariant *)

Ops == {p \in Procs : pc[p] = "op"}

CommitLabels == {"write_log", "write_head", "install", "erase", "finish"}
BootLabels == {"read_head", "recover", "clear"}
Labels == {"idle", "begin", "asleep", "op", "write_log", "write_head", "install", "erase", "finish",
           "read_head", "recover", "clear"}

LogType ==
    /\ home \in [Blocks -> Vals]
    /\ dlog \in [1..LOGSIZE -> Vals]
    /\ dhead \in Seq(Blocks)
    /\ cache \in [Blocks -> Vals \cup {NoData}]
    /\ pins \in [Blocks -> Nat]
    /\ lh \in Seq(Blocks)
    /\ committing \in BOOLEAN
    /\ pc \in [Procs -> Labels]
    /\ tail \in [Procs -> Nat]
    /\ left \in [Procs -> Nat]
    /\ mode \in {"boot", "up", "panicked"}

(* Block numbers are logged once, and no more of them than there are slots. *)
Distinct(s) == /\ Len(s) <= LOGSIZE
               /\ \A i, j \in 1..Len(s) : s[i] = s[j] => i = j

InLog(b) == \E i \in 1..Len(lh) : lh[i] = b

(* Who is where: one process commits, and none is in an operation meanwhile. *)
Control ==
    /\ IsFiniteSet(Ops) /\ outstanding = Cardinality(Ops)
    /\ \A p, q \in Procs : pc[p] \in CommitLabels /\ pc[q] \in CommitLabels => p = q
    /\ \A p \in Procs : pc[p] \in CommitLabels => committing
    /\ committing => Ops = {}
    /\ \A p \in Procs : pc[p] \in BootLabels => mode = "boot" /\ p = InitProc
    /\ mode = "boot" => ~committing /\ \A p \in Procs : pc[p] \in BootLabels \cup {"idle"}

(* Until the header is written, a logged block is pinned in the cache and any   *)
(* other one is as on the disk.                                                 *)
Before ==
    mode = "up" /\ (\A p \in Procs : pc[p] \notin {"install", "erase"}) =>
        /\ dhead = <<>>
        /\ \A b \in Blocks : IF InLog(b) THEN pins[b] = 1 /\ cache[b] # NoData
                             ELSE pins[b] = 0 /\ cache[b] \in {NoData, home[b]}

Copied(n) == \A i \in 1..Len(lh) : i < n => dlog[i] = cache[lh[i]]

Writing ==
    \A p \in Procs :
        /\ pc[p] = "write_log" => tail[p] \in 1..Len(lh) /\ Copied(tail[p])
        /\ pc[p] = "write_head" => Len(lh) > 0 /\ Copied(Len(lh) + 1)

(* The first n - 1 blocks have been installed; the others are pinned, with the  *)
(* contents that are in the log.                                                *)
Installed(n, pin) ==
    /\ lh = dhead
    /\ \A i \in 1..Len(lh) :
         IF i < n THEN /\ home[lh[i]] = dlog[i]
                       /\ pins[lh[i]] = 0 /\ cache[lh[i]] \in {NoData, dlog[i]}
         ELSE pins[lh[i]] = pin /\ cache[lh[i]] = IF pin = 1 THEN dlog[i] ELSE NoData
    /\ \A b \in Blocks : ~InLog(b) => pins[b] = 0 /\ cache[b] \in {NoData, home[b]}

Installing ==
    \A p \in Procs :
        /\ pc[p] = "install" => tail[p] \in 1..Len(lh) /\ Installed(tail[p], 1)
        /\ pc[p] = "erase" => Installed(Len(lh) + 1, 1)
        /\ pc[p] = "recover" => tail[p] \in 1..Len(lh) /\ Installed(tail[p], 0)
        /\ pc[p] = "clear" => Installed(Len(lh) + 1, 0)
        /\ pc[p] = "read_head" => \A b \in Blocks : pins[b] = 0 /\ cache[b] = NoData

LogInv ==
    /\ LogType
    /\ Distinct(dhead) /\ Distinct(lh)
    /\ mode # "panicked" => Control /\ Before /\ Writing /\ Installing

--------------------------------------------------------------------------------
(* A step that changes nothing. *)
LEMMA StutterStep == ASSUME LogInv, UNCHANGED vars PROVE LogInv'
<1>1. UNCHANGED <<home, dlog, dhead, cache, pins, lh, outstanding, committing, pc, tail, left, mode>>
    BY DEF vars, disk, memory
<1>2. LogType' /\ Distinct(dhead)' /\ Distinct(lh)'
    BY <1>1 DEF LogInv, LogType, Distinct
<1>3. Control => Control'
    BY <1>1 DEF Control, Ops
<1>4. (Before => Before') /\ (Writing => Writing')
    BY <1>1 DEF Before, InLog, Writing, Copied
<1>5. Installing => Installing'
    BY <1>1 DEF Installing, Installed, InLog
<1> QED
    BY <1>1, <1>2, <1>3, <1>4, <1>5 DEF LogInv

--------------------------------------------------------------------------------
(* Every step keeps the invariant. *)

(* A step outside the commit and the recovery that leaves the data alone. *)
LEMMA DataKept ==
    ASSUME LogInv, mode # "panicked", UNCHANGED <<home, dlog, dhead, cache, pins, lh, tail, mode>>,
           \A q \in Procs : pc'[q] = pc[q] \/ {pc[q], pc'[q]} \subseteq {"idle", "begin", "asleep", "op", "finish"}
    PROVE  Before' /\ Writing' /\ Installing'
<1>1. Before'
    BY DEF LogInv, Before, InLog
<1>2. Writing'
    BY DEF LogInv, Writing, Copied
<1>3. Installing'
    BY DEF LogInv, Installing, Installed, InLog
<1> QED
    BY <1>1, <1>2, <1>3

(* A process calls begin_op.                                               *)
LEMMA CallStep ==
    ASSUME LogInv, NEW p \in Procs, Call(p)
    PROVE  LogInv'
<1> USE DEF Call, At, Goto, disk, memory
<1>1. LogType'
    BY DEF LogInv, LogType, Labels
<1>2. Distinct(dhead)' /\ Distinct(lh)'
    BY DEF LogInv, Distinct
<1>3. Ops' = Ops
    BY DEF LogInv, LogType, Ops
<1>4. Control'
    BY <1>3 DEF LogInv, LogType, Control, CommitLabels, BootLabels
<1>5. Before' /\ Writing' /\ Installing'
    BY DataKept DEF LogInv, LogType
<1> QED
    BY <1>1, <1>2, <1>4, <1>5 DEF LogInv

(* While a process is in an operation, nobody commits and nothing is installed. *)
LEMMA InOperation ==
    ASSUME LogInv, NEW p \in Procs, pc[p] = "op", mode # "panicked"
    PROVE  /\ mode = "up" /\ ~committing /\ p \in Ops
           /\ \A q \in Procs : pc[q] \in {"idle", "begin", "asleep", "op"}
<1>1. p \in Ops
    BY DEF Ops
<1> QED
    BY <1>1 DEF LogInv, LogType, Labels, Control, CommitLabels, BootLabels

(* log_write pins a block, or finds it in the log already.                 *)
LEMMA WriteStep ==
    ASSUME LogInv, NEW p \in Procs, NEW b \in Blocks, NEW v \in Vals, log_write(p, b, v)
    PROVE  LogInv'
<1> USE DEF log_write, At, disk
<1> lh \in Seq(Blocks) /\ dhead \in Seq(Blocks)
    BY DEF LogInv, LogType
<1>0. /\ Append(lh, b) \in Seq(Blocks) /\ Len(lh) \in Nat
      /\ Len(Append(lh, b)) = Len(lh) + 1
      /\ \A i \in 1..Len(lh) : Append(lh, b)[i] = lh[i]
      /\ Append(lh, b)[Len(lh) + 1] = b
    OBVIOUS
<1>1. LogType'
  <2>1. /\ cache' \in [Blocks -> Vals \cup {NoData}] /\ left' \in [Procs -> Nat]
        /\ mode' \in {"boot", "up", "panicked"}
    BY DEF LogInv, LogType
  <2>2. lh' \in Seq(Blocks)
    BY <1>0, Zenon DEF LogInv, LogType
  <2>3. pins' \in [Blocks -> Nat]
    BY DEF LogInv, LogType
  <2> QED
    BY <2>1, <2>2, <2>3 DEF LogInv, LogType
<1>2. Distinct(dhead)' /\ Distinct(lh)'
  <2>1. CASE LogFull \/ Absorbed(b)
    BY <2>1 DEF LogInv, Distinct
  <2>2. CASE ~LogFull /\ ~Absorbed(b)
    <3>1. lh' = Append(lh, b) /\ dhead' = dhead /\ Len(lh) < LOGSIZE
        BY <2>2, LogAssumption DEF LogFull, LogInv, LogType
    <3>2. \A i \in 1..Len(lh) : lh[i] # b
        BY <2>2 DEF Absorbed, LogInv, LogType
    <3> QED
      <4>1. \A i, j \in 1..(Len(lh) + 1) : Append(lh, b)[i] = Append(lh, b)[j] => i = j
        <5> SUFFICES ASSUME NEW i \in 1..(Len(lh) + 1), NEW j \in 1..(Len(lh) + 1),
                            Append(lh, b)[i] = Append(lh, b)[j]
                     PROVE  i = j
            OBVIOUS
        <5>1. (i \in 1..Len(lh) \/ i = Len(lh) + 1) /\ (j \in 1..Len(lh) \/ j = Len(lh) + 1)
            BY <1>0
        <5> QED
            BY <5>1, <1>0, <3>2 DEF LogInv, Distinct
      <4> QED
        BY <1>0, <3>1, <4>1, LogAssumption DEF LogInv, Distinct
  <2> QED
    BY <2>1, <2>2
<1>3. CASE LogFull
    BY <1>1, <1>2, <1>3 DEF LogInv
<1>4. CASE ~LogFull
  <2>1. mode = "up" /\ mode' = "up" /\ pc' = pc
        /\ \A q \in Procs : pc[q] \in {"idle", "begin", "asleep", "op"}
    BY <1>4, InOperation DEF LogInv
  <2>2. Ops' = Ops
    BY <2>1 DEF Ops
  <2>3. Control'
    BY <2>1, <2>2 DEF LogInv, Control
  <2>4. Writing' /\ Installing'
    BY <2>1 DEF Writing, Installing
  <2>5. \A c \in Blocks : InLog(c)' <=> InLog(c) \/ c = b
    <3>1. CASE Absorbed(b)
      <4>1. lh' = lh /\ \E i \in 1..Len(lh) : lh[i] = b
        BY <1>0, <1>4, <3>1 DEF Absorbed
      <4> QED
        BY <4>1 DEF InLog
    <3>2. CASE ~Absorbed(b)
      <4>1. lh' = Append(lh, b)
        BY <1>4, <3>2
      <4>2. \A i \in 1..Len(lh') : i \in 1..Len(lh) \/ i = Len(lh) + 1
        BY <1>0, <4>1
      <4> QED
        BY <1>0, <4>1, <4>2 DEF InLog
    <3> QED
        BY <3>1, <3>2
  <2>6. Absorbed(b) <=> InLog(b)
    BY DEF Absorbed, InLog, LogInv, LogType
  <2>7. Before'
    BY <1>4, <2>1, <2>5, <2>6, LogAssumption DEF LogInv, LogType, Before
  <2> QED
    BY <1>1, <1>2, <2>3, <2>4, <2>7 DEF LogInv
<1> QED
    BY <1>3, <1>4

(* The process that commits is alone: the others are outside operations. *)
LEMMA Committing ==
    ASSUME LogInv, NEW p \in Procs, pc[p] \in CommitLabels, mode # "panicked"
    PROVE  /\ mode = "up" /\ committing /\ Ops = {}
           /\ \A q \in Procs \ {p} : pc[q] \in {"idle", "begin", "asleep"}
<1>1. mode = "up" /\ committing /\ Ops = {}
    BY DEF LogInv, LogType, Control, CommitLabels, BootLabels
<1>2. \A q \in Procs : pc[q] # "op"
    BY <1>1 DEF Ops
<1> QED
    BY <1>1, <1>2 DEF LogInv, LogType, Labels, Control, CommitLabels, BootLabels

(* The control part of a step of the commit. *)
LEMMA CommitControl ==
    ASSUME LogInv, NEW p \in Procs, pc[p] \in CommitLabels, mode # "panicked",
           UNCHANGED <<outstanding, committing, mode>>,
           NEW l \in CommitLabels, pc' = [pc EXCEPT ![p] = l]
    PROVE  Control' /\ pc' \in [Procs -> Labels]
<1>1. Ops' = {} /\ Ops = {} /\ mode = "up" /\ committing
    BY Committing DEF Ops, LogInv, LogType, CommitLabels
<1> QED
    BY <1>1, Committing DEF LogInv, LogType, Labels, Control, CommitLabels, BootLabels

(* write_log copies the next block to the log.                             *)
LEMMA WriteLogStep ==
    ASSUME LogInv, NEW p \in Procs, write_log(p)
    PROVE  LogInv'
<1> USE DEF write_log, At, Goto
<1>1. /\ mode = "up" /\ committing /\ Ops = {}
      /\ \A q \in Procs \ {p} : pc[q] \in {"idle", "begin", "asleep"}
    BY Committing DEF CommitLabels
<1>2. Control' /\ pc' \in [Procs -> Labels]
    BY CommitControl, Zenon DEF CommitLabels
<1>3. /\ tail[p] \in 1..Len(lh) /\ Len(lh) \in Nat /\ Len(lh) <= LOGSIZE /\ tail[p] \in Nat
      /\ lh[tail[p]] \in Blocks /\ Copied(tail[p])
    BY DEF LogInv, LogType, Writing, Distinct
<1>4. cache[lh[tail[p]]] # NoData
    BY <1>1, <1>3 DEF LogInv, Before, InLog
<1>5. /\ cache' = cache
      /\ dlog' = [dlog EXCEPT ![tail[p]] = cache[lh[tail[p]]]]
    BY <1>3, <1>4 DEF Contents, LogInv, LogType
<1>6. LogType'
  <2>1. cache[lh[tail[p]]] \in Vals
    BY <1>3, <1>4 DEF LogInv, LogType
  <2>2. dlog' \in [1..LOGSIZE -> Vals]
    BY <1>5, <2>1, Zenon DEF LogInv, LogType
  <2>3. tail' \in [Procs -> Nat]
    BY <1>3 DEF LogInv, LogType
  <2> QED
    BY <1>2, <1>5, <2>2, <2>3, Zenon DEF LogInv, LogType
<1>7. Distinct(dhead)' /\ Distinct(lh)'
    BY DEF LogInv, Distinct
<1>8. Before'
    BY <1>1, <1>5 DEF LogInv, LogType, Before, InLog
<1>9. \A i \in 1..Len(lh) : i < tail[p] + 1 => dlog'[i] = cache[lh[i]]
  <2>1. /\ \A i \in 1..Len(lh) : i < tail[p] => dlog[i] = cache[lh[i]]
        /\ dlog \in [1..LOGSIZE -> Vals]
    BY <1>3 DEF Copied, LogInv, LogType
  <2> TAKE i \in 1..Len(lh)
  <2>2. i \in 1..LOGSIZE /\ tail[p] \in 1..LOGSIZE
    BY <1>3, LogAssumption
  <2>3. CASE i = tail[p]
    BY <1>5, <2>1, <2>2, <2>3
  <2>4. CASE i # tail[p]
    BY <1>3, <1>5, <2>1, <2>2, <2>4
  <2> QED
    BY <2>3, <2>4
<1>10. Writing'
  <2>1. /\ tail'[p] = tail[p] + 1 /\ lh' = lh /\ cache' = cache
        /\ pc'[p] = IF tail[p] = Len(lh) THEN "write_head" ELSE "write_log"
        /\ \A q \in Procs \ {p} : pc'[q] \in {"idle", "begin", "asleep"}
    BY <1>1, <1>5 DEF LogInv, LogType
  <2>2. \A i \in 1..Len(lh) : tail[p] = Len(lh) => i < tail[p] + 1
    BY <1>3
  <2>3. tail[p] # Len(lh) => tail[p] + 1 \in 1..Len(lh)
    BY <1>3
  <2> QED
    BY <1>3, <1>9, <2>1, <2>2, <2>3 DEF Writing, Copied
<1>11. Installing'
    BY <1>1, Zenon DEF LogInv, LogType, Installing
<1> QED
    BY <1>2, <1>6, <1>7, <1>8, <1>10, <1>11 DEF LogInv

(* write_head: the commit.                                                 *)
LEMMA WriteHeadStep ==
    ASSUME LogInv, NEW p \in Procs, write_head(p)
    PROVE  LogInv'
<1> USE DEF write_head, At, Goto, memory
<1>1. /\ mode = "up" /\ committing /\ Ops = {}
      /\ \A q \in Procs \ {p} : pc[q] \in {"idle", "begin", "asleep"}
    BY Committing DEF CommitLabels
<1>2. Control' /\ pc' \in [Procs -> Labels]
    BY CommitControl, Zenon DEF CommitLabels
<1>3. /\ pc'[p] = "install" /\ tail'[p] = 1 /\ tail' \in [Procs -> Nat]
      /\ \A q \in Procs \ {p} : pc'[q] \in {"idle", "begin", "asleep"}
    BY <1>1 DEF LogInv, LogType
<1>4. LogType'
    BY <1>2, <1>3 DEF LogInv, LogType
<1>5. Distinct(dhead)' /\ Distinct(lh)'
    BY DEF LogInv, Distinct
<1>6. Before' /\ Writing'
    BY <1>1, <1>3 DEF Before, Writing
<1>7. Installing'
  <2>1. /\ \A i \in 1..Len(lh) : dlog[i] = cache[lh[i]]
        /\ 1 \in 1..Len(lh)
    BY DEF LogInv, LogType, Writing, Copied
  <2>2. \A b \in Blocks : IF InLog(b) THEN pins[b] = 1 /\ cache[b] # NoData
                          ELSE pins[b] = 0 /\ cache[b] \in {NoData, home[b]}
    BY <1>1 DEF LogInv, Before
  <2>3. \A i \in 1..Len(lh) : pins[lh[i]] = 1
    BY <2>2 DEF LogInv, LogType, InLog
  <2>4. /\ lh' = lh /\ dhead' = lh /\ dlog' = dlog /\ cache' = cache /\ pins' = pins
        /\ home' = home
    OBVIOUS
  <2>5. \A i \in 1..Len(lh) : ~(i < 1)
    OBVIOUS
  <2>6. Installed(tail[p], 1)'
    BY <1>3, <2>1, <2>2, <2>3, <2>4, <2>5 DEF Installed, InLog
  <2> QED
    BY <1>3, <2>1, <2>4, <2>6 DEF Installing
<1> QED
    BY <1>2, <1>4, <1>5, <1>6, <1>7 DEF LogInv

--------------------------------------------------------------------------------
(* install_trans() and the end of commit() *)

(* What one turn of the loop of install_trans() leaves. *)
Turned(p, pin) ==
    /\ home' \in [Blocks -> Vals] /\ cache' \in [Blocks -> Vals \cup {NoData}]
    /\ pins' \in [Blocks -> Nat] /\ tail' \in [Procs -> Nat]
    /\ tail'[p] = tail[p] + 1
    /\ lh = dhead
    /\ \A i \in 1..Len(lh) :
         IF i < tail[p] + 1
         THEN /\ home'[lh[i]] = dlog[i]
              /\ pins'[lh[i]] = 0 /\ cache'[lh[i]] \in {NoData, dlog[i]}
         ELSE /\ pins'[lh[i]] = pin
              /\ cache'[lh[i]] = IF pin = 1 THEN dlog[i] ELSE NoData
    /\ \A b \in Blocks : ~InLog(b) => pins'[b] = 0 /\ cache'[b] \in {NoData, home'[b]}

(* One turn of the loop of install_trans(): the entries of the log name         *)
(* different blocks, so the other ones stay as they were.                       *)
LEMMA InstallTurn ==
    ASSUME LogType, Distinct(lh), NEW p \in Procs, NEW pin \in {0, 1},
           tail[p] \in 1..Len(lh), Installed(tail[p], pin),
           Install(p, pin = 1), UNCHANGED <<dlog, dhead, lh>>
    PROVE  Turned(p, pin)
<1> DEFINE n == tail[p]
           c == lh[tail[p]]
<1>1. /\ n \in Nat /\ n \in 1..LOGSIZE /\ Len(lh) \in Nat /\ c \in Blocks /\ dlog[n] \in Vals
    BY LogAssumption DEF LogType, Distinct
<1>2. /\ home' = [home EXCEPT ![c] = dlog[n]]
      /\ cache' = [cache EXCEPT ![c] = dlog[n]]
      /\ pins' = IF pin = 1 THEN [pins EXCEPT ![c] = @ - 1] ELSE pins
      /\ tail' = [tail EXCEPT ![p] = n + 1]
    BY DEF Install
<1>3. pins[c] = pin
    BY DEF Installed
<1>4. pins'[c] = 0 /\ pins' \in [Blocks -> Nat]
    BY <1>1, <1>2, <1>3 DEF LogType
<1>5. /\ home' \in [Blocks -> Vals] /\ cache' \in [Blocks -> Vals \cup {NoData}]
      /\ tail' \in [Procs -> Nat] /\ tail'[p] = n + 1
    BY <1>1, <1>2 DEF LogType
<1>6. \A b \in Blocks : b # c => home'[b] = home[b] /\ cache'[b] = cache[b] /\ pins'[b] = pins[b]
    BY <1>2 DEF LogType
<1>7. home'[c] = dlog[n] /\ cache'[c] = dlog[n]
    BY <1>1, <1>2 DEF LogType
<1>8. ASSUME NEW i \in 1..Len(lh)
      PROVE  IF i < n + 1
             THEN /\ home'[lh[i]] = dlog[i]
                  /\ pins'[lh[i]] = 0 /\ cache'[lh[i]] \in {NoData, dlog[i]}
             ELSE /\ pins'[lh[i]] = pin
                  /\ cache'[lh[i]] = IF pin = 1 THEN dlog[i] ELSE NoData
  <2>1. CASE i = n
    <3>1. i < n + 1 /\ lh[i] = c
      BY <1>1, <2>1
    <3> QED
      BY <1>4, <1>7, <2>1, <3>1
  <2>2. CASE i # n
    <3>1. lh[i] \in Blocks /\ lh[i] # c
      BY <2>2 DEF LogType, Distinct
    <3>2. i < n + 1 <=> i < n
      BY <1>1, <2>2
    <3>3. IF i < n THEN /\ home[lh[i]] = dlog[i]
                        /\ pins[lh[i]] = 0 /\ cache[lh[i]] \in {NoData, dlog[i]}
          ELSE pins[lh[i]] = pin /\ cache[lh[i]] = IF pin = 1 THEN dlog[i] ELSE NoData
      BY DEF Installed
    <3> QED
      BY <1>6, <3>1, <3>2, <3>3
  <2> QED
    BY <2>1, <2>2
<1>9. \A b \in Blocks : ~InLog(b) => pins'[b] = 0 /\ cache'[b] \in {NoData, home'[b]}
    BY <1>6 DEF Installed, InLog
<1>10. lh = dhead
    BY DEF Installed
<1> QED
    BY <1>4, <1>5, <1>8, <1>9, <1>10 DEF Turned

(* install_trans writes the next block home and unpins it.                 *)
LEMMA InstallStep ==
    ASSUME LogInv, NEW p \in Procs, install_trans(p)
    PROVE  LogInv'
<1> USE DEF install_trans, At, Goto
<1>1. /\ mode = "up" /\ committing /\ Ops = {}
      /\ \A q \in Procs \ {p} : pc[q] \in {"idle", "begin", "asleep"}
    BY Committing DEF CommitLabels
<1>2. Control' /\ pc' \in [Procs -> Labels]
    BY CommitControl, Zenon DEF CommitLabels
<1>3. tail[p] \in 1..Len(lh) /\ Installed(tail[p], 1)
    BY DEF LogInv, Installing
<1>4. /\ home' \in [Blocks -> Vals] /\ cache' \in [Blocks -> Vals \cup {NoData}]
      /\ pins' \in [Blocks -> Nat] /\ tail' \in [Procs -> Nat]
      /\ tail'[p] = tail[p] + 1
      /\ lh = dhead
      /\ \A i \in 1..Len(lh) :
            IF i < tail[p] + 1
            THEN /\ home'[lh[i]] = dlog[i]
                 /\ pins'[lh[i]] = 0 /\ cache'[lh[i]] \in {NoData, dlog[i]}
            ELSE /\ pins'[lh[i]] = 1
                 /\ cache'[lh[i]] = dlog[i]
      /\ \A b \in Blocks : ~InLog(b) => pins'[b] = 0 /\ cache'[b] \in {NoData, home'[b]}
  <2>1. Install(p, 1 = 1)
    BY DEF Install
  <2>2. Turned(p, 1)
    BY <1>3, <2>1, InstallTurn DEF LogInv
  <2> QED
    BY <2>2 DEF Turned
<1>5. LogType'
    BY <1>2, <1>4 DEF LogInv, LogType
<1>6. Distinct(dhead)' /\ Distinct(lh)'
    BY DEF LogInv, Distinct
<1>7. /\ pc'[p] = IF tail[p] = Len(lh) THEN "erase" ELSE "install"
      /\ \A q \in Procs \ {p} : pc'[q] \in {"idle", "begin", "asleep"}
    BY <1>1 DEF LogInv, LogType
<1>8. Before' /\ Writing'
    BY <1>1, <1>7 DEF Before, Writing
<1>9. Installing'
  <2>1. tail[p] \in Nat /\ Len(lh) \in Nat
    BY DEF LogInv, LogType
  <2>2. lh' = lh /\ dhead' = dhead /\ dlog' = dlog
    OBVIOUS
  <2>3. Installed(tail[p], 1)'
    BY <1>4, <2>2 DEF Installed, InLog
  <2>4. tail[p] = Len(lh) => Installed(Len(lh) + 1, 1)'
    BY <1>4, <2>2 DEF Installed, InLog
  <2>5. tail[p] # Len(lh) => tail'[p] \in 1..Len(lh)
    BY <1>3, <1>4, <2>1
  <2> QED
    BY <1>7, <2>2, <2>3, <2>4, <2>5 DEF Installing
<1> QED
    BY <1>2, <1>5, <1>6, <1>8, <1>9 DEF LogInv

(* When all blocks are installed, the log may be forgotten. *)
LEMMA AllInstalled ==
    ASSUME LogType, NEW pin, Installed(Len(lh) + 1, pin)
    PROVE  \A b \in Blocks : pins[b] = 0 /\ cache[b] \in {NoData, home[b]}
<1>1. \A i \in 1..Len(lh) : i < Len(lh) + 1
    BY DEF LogType
<1>2. \A i \in 1..Len(lh) : pins[lh[i]] = 0 /\ cache[lh[i]] \in {NoData, home[lh[i]]}
    BY <1>1 DEF Installed
<1> QED
    BY <1>2 DEF Installed, InLog

(* The header is cleared when all blocks are home.                         *)
LEMMA EraseStep ==
    ASSUME LogInv, NEW p \in Procs, Erase(p)
    PROVE  LogInv'
<1> USE DEF Erase, At, Goto
<1>1. /\ mode = "up" /\ committing /\ Ops = {}
      /\ \A q \in Procs \ {p} : pc[q] \in {"idle", "begin", "asleep"}
    BY Committing DEF CommitLabels
<1>2. Control' /\ pc' \in [Procs -> Labels]
    BY CommitControl, Zenon DEF CommitLabels
<1>3. /\ pc'[p] = "finish"
      /\ \A q \in Procs \ {p} : pc'[q] \in {"idle", "begin", "asleep"}
    BY <1>1 DEF LogInv, LogType
<1>4. <<>> \in Seq(Blocks) /\ Len(<<>>) = 0
    OBVIOUS
<1>5. LogType'
    BY <1>2, <1>4 DEF LogInv, LogType
<1>6. Distinct(dhead)' /\ Distinct(lh)'
    BY <1>4, LogAssumption DEF Distinct
<1>7. \A b \in Blocks : pins[b] = 0 /\ cache[b] \in {NoData, home[b]}
    BY AllInstalled DEF LogInv, Installing
<1>8. Before'
    BY <1>4, <1>7 DEF Before, InLog
<1>9. Writing' /\ Installing'
    BY <1>3 DEF Writing, Installing
<1> QED
    BY <1>2, <1>5, <1>6, <1>8, <1>9 DEF LogInv

(* The committer lets others in again.                                     *)
LEMMA FinishStep ==
    ASSUME LogInv, NEW p \in Procs, Finish(p)
    PROVE  LogInv'
<1> USE DEF Finish, At, disk
<1>1. /\ mode = "up" /\ committing /\ Ops = {}
      /\ \A q \in Procs \ {p} : pc[q] \in {"idle", "begin", "asleep"}
    BY Committing DEF CommitLabels
<1>2. \A q \in Procs : pc'[q] \in {"idle", "begin"}
    BY <1>1 DEF LogInv, LogType, Woken
<1>3. pc' \in [Procs -> Labels]
    BY DEF LogInv, LogType, Labels, Woken
<1>4. LogType'
    BY <1>3, Zenon DEF LogInv, LogType
<1>5. Distinct(dhead)' /\ Distinct(lh)'
    BY DEF LogInv, Distinct
<1>6. Ops' = {}
    BY <1>2, Zenon DEF Ops
<1>7. Control'
    BY <1>1, <1>2, <1>6, Zenon DEF LogInv, Control, CommitLabels, BootLabels
<1>8. Before'
    BY <1>1, Zenon DEF LogInv, Before, InLog
<1>9. Writing' /\ Installing'
    BY <1>2, Zenon DEF Writing, Installing
<1> QED
    BY <1>4, <1>5, <1>7, <1>8, <1>9 DEF LogInv

--------------------------------------------------------------------------------
(* Recovery: the first process is alone. *)
LEMMA Booting ==
    ASSUME LogInv, NEW p \in Procs, pc[p] \in BootLabels, mode # "panicked"
    PROVE  /\ mode = "boot" /\ ~committing /\ Ops = {} /\ p = InitProc
           /\ \A q \in Procs \ {p} : pc[q] = "idle"
<1>1. mode = "boot" /\ p = InitProc
    BY DEF LogInv, Control
<1>2. ~committing /\ \A q \in Procs : pc[q] \in BootLabels \cup {"idle"}
    BY <1>1 DEF LogInv, Control
<1>3. \A q \in Procs \ {p} : pc[q] = "idle"
    BY <1>1, <1>2 DEF LogInv, Control
<1> QED
    BY <1>1, <1>2, <1>3 DEF Ops, BootLabels

(* While the log is recovered nobody is in an operation.                   *)
LEMMA BootControl ==
    ASSUME LogInv, NEW p \in Procs, pc[p] \in BootLabels, mode # "panicked",
           UNCHANGED <<outstanding, committing>>, pc' = [pc EXCEPT ![p] = pc'[p]],
           \/ pc'[p] \in BootLabels /\ mode' = "boot"
           \/ pc'[p] = "idle" /\ mode' = "up"
    PROVE  /\ Control' /\ pc' \in [Procs -> Labels]
           /\ \A q \in Procs \ {p} : pc'[q] = "idle"
<1>1. /\ mode = "boot" /\ ~committing /\ Ops = {} /\ p = InitProc
      /\ \A q \in Procs \ {p} : pc[q] = "idle"
    BY Booting
<1>2. /\ pc' \in [Procs -> Labels]
      /\ \A q \in Procs \ {p} : pc'[q] = "idle"
    BY <1>1, Zenon DEF LogInv, LogType, Labels, BootLabels
<1>3. Ops' = {}
    BY <1>2 DEF Ops, BootLabels
<1> QED
    BY <1>1, <1>2, <1>3 DEF LogInv, Control, CommitLabels, BootLabels

(* Recovery reads the header.                                              *)
LEMMA ReadHeadStep ==
    ASSUME LogInv, NEW p \in Procs, read_head(p)
    PROVE  LogInv'
<1> USE DEF read_head, At, Goto, disk
<1>1. mode = "boot"
    BY Booting DEF BootLabels
<1>2. /\ Control' /\ pc' \in [Procs -> Labels] /\ pc'[p] = IF dhead = <<>> THEN "clear" ELSE "recover"
      /\ \A q \in Procs \ {p} : pc'[q] = "idle"
  <2>1. /\ pc'[p] = IF dhead = <<>> THEN "clear" ELSE "recover"
        /\ pc[p] \in BootLabels /\ pc'[p] \in BootLabels /\ mode' = "boot"
        /\ pc' = [pc EXCEPT ![p] = pc'[p]]
    BY <1>1 DEF BootLabels, LogInv, LogType
  <2> QED
    BY <2>1, BootControl, Zenon
<1>3. tail' \in [Procs -> Nat] /\ tail'[p] = 1
    BY DEF LogInv, LogType
<1>4. LogType'
    BY <1>2, <1>3 DEF LogInv, LogType
<1>5. Distinct(dhead)' /\ Distinct(lh)'
    BY DEF LogInv, Distinct
<1>6. Before' /\ Writing'
    BY <1>1, <1>2 DEF Before, Writing
<1>7. Installing'
  <2>1. /\ \A b \in Blocks : pins[b] = 0 /\ cache[b] = NoData
        /\ dhead \in Seq(Blocks)
    BY DEF LogInv, LogType, Installing
  <2>2. lh' = dhead /\ dhead' = dhead /\ dlog' = dlog /\ cache' = cache /\ pins' = pins
    OBVIOUS
  <2>3. \A i \in 1..Len(dhead) : dhead[i] \in Blocks /\ ~(i < 1)
    BY <2>1
  <2>4. Installed(1, 0)'
    BY <2>1, <2>2, <2>3 DEF Installed, InLog
  <2>5. CASE dhead = <<>>
    BY <1>2, <2>2, <2>4, <2>5 DEF Installing, Installed
  <2>6. CASE dhead # <<>>
    <3>1. 1 \in 1..Len(dhead)
      BY <2>1, <2>6
    <3> QED
      BY <1>2, <1>3, <2>2, <2>4, <2>6, <3>1, Zenon DEF Installing
  <2> QED
    BY <2>5, <2>6
<1> QED
    BY <1>2, <1>4, <1>5, <1>6, <1>7 DEF LogInv

(* Recovery writes the next block home.                                    *)
LEMMA RecoverStep ==
    ASSUME LogInv, NEW p \in Procs, Recover(p)
    PROVE  LogInv'
<1> USE DEF Recover, At, Goto
<1>1. mode = "boot"
    BY Booting DEF BootLabels
<1>2. /\ Control' /\ pc' \in [Procs -> Labels] /\ pc'[p] = IF tail[p] = Len(lh) THEN "clear" ELSE "recover"
      /\ \A q \in Procs \ {p} : pc'[q] = "idle"
  <2>1. /\ pc'[p] = IF tail[p] = Len(lh) THEN "clear" ELSE "recover"
        /\ pc[p] \in BootLabels /\ pc'[p] \in BootLabels /\ mode' = "boot"
        /\ pc' = [pc EXCEPT ![p] = pc'[p]]
    BY <1>1 DEF BootLabels, LogInv, LogType
  <2> QED
    BY <2>1, BootControl, Zenon
<1>3. tail[p] \in 1..Len(lh) /\ Installed(tail[p], 0)
    BY DEF LogInv, Installing
<1>4. /\ home' \in [Blocks -> Vals] /\ cache' \in [Blocks -> Vals \cup {NoData}]
      /\ pins' \in [Blocks -> Nat] /\ tail' \in [Procs -> Nat]
      /\ tail'[p] = tail[p] + 1
      /\ lh = dhead
      /\ \A i \in 1..Len(lh) :
            IF i < tail[p] + 1
            THEN /\ home'[lh[i]] = dlog[i]
                 /\ pins'[lh[i]] = 0 /\ cache'[lh[i]] \in {NoData, dlog[i]}
            ELSE /\ pins'[lh[i]] = 0
                 /\ cache'[lh[i]] = NoData
      /\ \A b \in Blocks : ~InLog(b) => pins'[b] = 0 /\ cache'[b] \in {NoData, home'[b]}
  <2>1. Install(p, 0 = 1)
    BY DEF Install
  <2>2. Turned(p, 0)
    BY <1>3, <2>1, InstallTurn DEF LogInv
  <2> QED
    BY <2>2 DEF Turned
<1>5. LogType'
    BY <1>2, <1>4, Zenon DEF LogInv, LogType
<1>6. Distinct(dhead)' /\ Distinct(lh)'
    BY DEF LogInv, Distinct
<1>7. Before' /\ Writing'
    BY <1>1, <1>2 DEF Before, Writing
<1>8. Installing'
  <2>1. tail[p] \in Nat /\ Len(lh) \in Nat
    BY DEF LogInv, LogType
  <2>2. lh' = lh /\ dhead' = dhead /\ dlog' = dlog
    OBVIOUS
  <2>3. Installed(tail[p], 0)'
    BY <1>4, <2>2 DEF Installed, InLog
  <2>4. tail[p] = Len(lh) => Installed(Len(lh) + 1, 0)'
    BY <1>4, <2>2 DEF Installed, InLog
  <2>5. tail[p] # Len(lh) => tail'[p] \in 1..Len(lh)
    BY <1>3, <1>4, <2>1
  <2> QED
    BY <1>2, <2>2, <2>3, <2>4, <2>5 DEF Installing
<1> QED
    BY <1>2, <1>5, <1>6, <1>7, <1>8 DEF LogInv

(* Recovery ends with an empty log.                                        *)
LEMMA ClearStep ==
    ASSUME LogInv, NEW p \in Procs, Clear(p)
    PROVE  LogInv'
<1> USE DEF Clear, At, Goto
<1>1. mode = "boot" /\ p = InitProc
    BY Booting DEF BootLabels
<1>2. /\ Control' /\ pc' \in [Procs -> Labels] /\ pc'[p] = "idle"
      /\ \A q \in Procs \ {p} : pc'[q] = "idle"
  <2>1. /\ pc[p] \in BootLabels /\ pc'[p] = "idle" /\ mode' = "up"
        /\ pc' = [pc EXCEPT ![p] = pc'[p]]
    BY DEF BootLabels, LogInv, LogType
  <2> QED
    BY <2>1, BootControl, Zenon
<1>3. <<>> \in Seq(Blocks) /\ Len(<<>>) = 0
    OBVIOUS
<1>4. LogType'
    BY <1>2, <1>3 DEF LogInv, LogType
<1>5. Distinct(dhead)' /\ Distinct(lh)'
    BY <1>3, LogAssumption DEF Distinct
<1>6. \A b \in Blocks : pins[b] = 0 /\ cache[b] \in {NoData, home[b]}
    BY AllInstalled DEF LogInv, Installing
<1>7. Before'
    BY <1>3, <1>6 DEF Before, InLog
<1>8. Writing' /\ Installing'
    BY <1>2 DEF Writing, Installing
<1> QED
    BY <1>2, <1>4, <1>5, <1>7, <1>8 DEF LogInv

--------------------------------------------------------------------------------
(* Buffers come and go, and the machine may crash. *)

(* A buffer that is not pinned is not in the part of the log that is not yet    *)
(* installed, so giving it up or reading it in changes nothing.                 *)
LEMMA CacheStep ==
    ASSUME LogInv, NEW b \in Blocks, Evict(b) \/ Fetch(b)
    PROVE  LogInv'
<1> USE DEF Evict, Fetch, Recyclable, disk
<1>1. /\ mode = "up" /\ UNCHANGED <<home, dlog, dhead, pins, lh, outstanding, committing>>
      /\ UNCHANGED <<pc, tail, left, mode>>
    OBVIOUS
<1>2. PICK v \in {NoData, home[b]} : cache' = [cache EXCEPT ![b] = v]
    OBVIOUS
<1>3. pins[b] = 0 \/ cache[b] = NoData
    OBVIOUS
<1> HIDE DEF Evict, Fetch, Recyclable, disk
<1>4. /\ cache'[b] = v /\ \A c \in Blocks : c # b => cache'[c] = cache[c]
      /\ cache' \in [Blocks -> Vals \cup {NoData}]
    BY <1>2 DEF LogInv, LogType
<1>5. LogType'
    BY <1>1, <1>4 DEF LogInv, LogType
<1>6. Distinct(dhead)' /\ Distinct(lh)'
    BY <1>1, Zenon DEF LogInv, Distinct
<1>7. Control'
    BY <1>1, Zenon DEF LogInv, Control, Ops
<1>8. Before'
  <2>1. ASSUME \A p \in Procs : pc[p] \notin {"install", "erase"}
        PROVE  ~InLog(b)
    <3>1. InLog(b) => pins[b] = 1 /\ cache[b] # NoData
      BY <1>1, <2>1, Zenon DEF LogInv, Before
    <3> QED
      BY <1>3, <3>1
  <2> QED
    BY <1>1, <1>4, <2>1, Zenon DEF LogInv, Before, InLog
<1>9. Writing'
  <2>1. ASSUME NEW p \in Procs, pc[p] \in {"write_log", "write_head"}
        PROVE  \A i \in 1..Len(lh) : cache'[lh[i]] = cache[lh[i]]
    <3>1. \A q \in Procs : pc[q] \notin {"install", "erase"}
      BY <2>1, Committing, <1>1 DEF CommitLabels
    <3>2. ~InLog(b)
      BY <1>1, <1>3, <3>1 DEF LogInv, Before
    <3> QED
      BY <1>4, <3>2 DEF InLog, LogInv, LogType
  <2> QED
    BY <1>1, <2>1 DEF LogInv, Writing, Copied
<1>10. ASSUME NEW n, Installed(n, 1) PROVE Installed(n, 1)'
  <2>1. \A i \in 1..Len(lh) : lh[i] \in Blocks
    BY DEF LogInv, LogType
  <2>2. \A i \in 1..Len(lh) : IF i < n THEN cache'[lh[i]] \in {NoData, dlog[i]}
                             ELSE cache'[lh[i]] = dlog[i]
    <3> TAKE i \in 1..Len(lh)
    <3>1. CASE lh[i] = b
      <4>1. i < n
        <5>1. dlog[i] # NoData
          BY LogAssumption DEF LogInv, LogType, Distinct
        <5> QED
          BY <1>3, <1>10, <3>1, <5>1 DEF Installed
      <4>2. home[b] = dlog[i]
        BY <1>10, <3>1, <4>1 DEF Installed
      <4> QED
        BY <1>2, <1>4, <3>1, <4>1, <4>2
    <3>2. CASE lh[i] # b
      BY <1>4, <1>10, <2>1, <3>2 DEF Installed
    <3> QED
      BY <3>1, <3>2
  <2>3. \A c \in Blocks : ~InLog(c) => cache'[c] \in {NoData, home[c]}
    BY <1>2, <1>4, <1>10 DEF Installed
  <2> QED
    BY <1>1, <1>10, <2>2, <2>3 DEF Installed, InLog
<1>11. Installing'
  <2>1. \A p \in Procs : pc[p] \notin BootLabels
    BY <1>1 DEF LogInv, Control
  <2> QED
    BY <1>1, <1>10, <2>1 DEF LogInv, Installing, BootLabels
<1> QED
    BY <1>1, <1>5, <1>6, <1>7, <1>8, <1>9, <1>11, Zenon DEF LogInv

--------------------------------------------------------------------------------
(* The refinement *)

(* The copies l of the blocks d over the home blocks h. *)
Over(h, d, l) == [b \in Blocks |-> IF \E i \in DOMAIN d : d[i] = b
                                  THEN l[CHOOSE i \in DOMAIN d : d[i] = b]
                                  ELSE h[b]]

(* What a recovery would leave on the disk, as a function of the disk.     *)
LEMMA RecoveredOver == Recovered = Over(home, dhead, dlog) /\ Recovered' = Over(home', dhead', dlog')
BY DEF Recovered, Over

(* The same, block by block, ...                                           *)
LEMMA OverAt ==
    ASSUME NEW h, NEW l, NEW d \in Seq(Blocks), Distinct(d)
    PROVE  /\ \A i \in 1..Len(d) : Over(h, d, l)[d[i]] = l[i]
           /\ \A b \in Blocks : (\A i \in 1..Len(d) : d[i] # b) => Over(h, d, l)[b] = h[b]
<1>1. DOMAIN d = 1..Len(d) /\ \A i \in 1..Len(d) : d[i] \in Blocks
    OBVIOUS
<1>2. ASSUME NEW i \in 1..Len(d) PROVE Over(h, d, l)[d[i]] = l[i]
  <2> DEFINE j == CHOOSE j \in DOMAIN d : d[j] = d[i]
  <2>1. j \in 1..Len(d) /\ d[j] = d[i]
    BY <1>1
  <2>2. j = i
    BY <2>1 DEF Distinct
  <2>3. Over(h, d, l)[d[i]] = l[j]
    BY <1>1 DEF Over
  <2> QED
    BY <2>2, <2>3, Zenon
<1>3. \A b \in Blocks : (\A i \in 1..Len(d) : d[i] # b) => Over(h, d, l)[b] = h[b]
    BY <1>1 DEF Over
<1> QED
    BY <1>2, <1>3

(* ... and of the state.                                                   *)
LEMMA RecoveredAt ==
    ASSUME LogInv
    PROVE  /\ \A i \in 1..Len(dhead) : Recovered[dhead[i]] = dlog[i]
           /\ \A b \in Blocks : (\A i \in 1..Len(dhead) : dhead[i] # b) => Recovered[b] = home[b]
<1>1. dhead \in Seq(Blocks) /\ Distinct(dhead)
    BY DEF LogInv, LogType
<1>2. /\ \A i \in 1..Len(dhead) : Over(home, dhead, dlog)[dhead[i]] = dlog[i]
      /\ \A b \in Blocks : (\A i \in 1..Len(dhead) : dhead[i] # b) =>
                              Over(home, dhead, dlog)[b] = home[b]
    BY <1>1, OverAt
<1> QED
    BY <1>2, RecoveredOver

(* Before the header is written, and after it is erased, the home blocks are    *)
(* what recovery would leave.                                                   *)
LEMMA RecoveredEmpty ==
    ASSUME NEW h, NEW l
    PROVE  Over(h, <<>>, l) = [b \in Blocks |-> h[b]]
BY DEF Over

(* What recovery leaves in a block that is not pinned, or not in the cache, is  *)
(* already in its home block.                                                   *)
LEMMA UnpinnedAtHome ==
    ASSUME LogInv, mode = "up", NEW b \in Blocks, pins[b] = 0 \/ cache[b] = NoData
    PROVE  Recovered[b] = home[b] /\ cache[b] \in {NoData, home[b]}
<1>1. CASE \A p \in Procs : pc[p] \notin {"install", "erase"}
  <2>1. dhead = <<>> /\ cache[b] \in {NoData, home[b]}
    BY <1>1 DEF LogInv, Before
  <2> QED
    BY <2>1, RecoveredEmpty DEF Recovered, Over
<1>2. ASSUME NEW n, Installed(n, 1)
      PROVE  Recovered[b] = home[b] /\ cache[b] \in {NoData, home[b]}
  <2>1. CASE InLog(b)
    <3>1. PICK i \in 1..Len(lh) : lh[i] = b
      BY <2>1 DEF InLog
    <3>2. dlog[i] # NoData
      BY LogAssumption DEF LogInv, LogType, Distinct
    <3>3. i < n
      BY <1>2, <3>1, <3>2 DEF Installed
    <3>4. home[b] = dlog[i] /\ cache[b] \in {NoData, dlog[i]} /\ dhead = lh
      BY <1>2, <3>1, <3>3 DEF Installed
    <3>5. Recovered[b] = dlog[i]
      BY <3>1, <3>4, RecoveredAt
    <3> QED
      BY <3>4, <3>5
  <2>2. CASE ~InLog(b)
    <3>1. cache[b] \in {NoData, home[b]} /\ dhead = lh
      BY <1>2, <2>2 DEF Installed
    <3>2. Recovered[b] = home[b]
      BY <2>2, <3>1, RecoveredAt DEF InLog
    <3> QED
      BY <3>1, <3>2
  <2> QED
    BY <2>1, <2>2
<1>3. CASE \E p \in Procs : pc[p] \in {"install", "erase"}
    BY <1>2, <1>3 DEF LogInv, Installing
<1> QED
    BY <1>1, <1>3

(* What a reader sees stays the same when the cached copies of the blocks that  *)
(* change are what recovery would leave.                                        *)
LEMMA VisibleKept ==
    ASSUME Recovered' = Recovered,
           \A b \in Blocks : \/ cache'[b] = cache[b]
                             \/ cache[b] \in {NoData, Recovered[b]} /\ cache'[b] \in {NoData, Recovered[b]}
    PROVE  Visible' = Visible
BY DEF Visible

(* A step that leaves the disk alone leaves what recovery makes of it.     *)
LEMMA DiskKept ==
    ASSUME UNCHANGED <<home, dlog, dhead>>
    PROVE  Recovered' = Recovered
BY DEF Recovered

(* The mapping of the steps that change nothing of the abstract disk. *)
LEMMA WriteLogMaps ==
    ASSUME LogInv, NEW p \in Procs, write_log(p)
    PROVE  Recovered' = Recovered /\ Visible' = Visible /\ Ops' = Ops
<1> USE DEF write_log, At, Goto
<1>1. /\ mode = "up" /\ \A q \in Procs \ {p} : pc[q] \in {"idle", "begin", "asleep"}
    BY Committing DEF CommitLabels
<1>2. dhead = <<>> /\ \A b \in Blocks : InLog(b) => cache[b] # NoData
    BY <1>1 DEF LogInv, Before
<1>3. Recovered' = Recovered
    BY <1>2, RecoveredOver, RecoveredEmpty
<1>4. lh[tail[p]] \in Blocks /\ cache[lh[tail[p]]] # NoData
    BY <1>2 DEF LogInv, LogType, Writing, InLog
<1>5. cache' = cache
    BY <1>4 DEF Contents, LogInv, LogType
<1>6. Ops' = Ops
    BY DEF Ops, LogInv, LogType
<1> QED
    BY <1>3, <1>5, <1>6 DEF Visible

(* Writing a block home changes nothing that a recovery would not.         *)
LEMMA InstallMaps ==
    ASSUME LogInv, NEW p \in Procs, install_trans(p) \/ Recover(p)
    PROVE  Recovered' = Recovered /\ Visible' = Visible /\ Ops' = Ops
<1>0. PICK n, c : /\ n = tail[p] /\ c = lh[n]
                  /\ home' = [home EXCEPT ![c] = dlog[n]] /\ cache' = [cache EXCEPT ![c] = dlog[n]]
                  /\ dhead' = dhead /\ dlog' = dlog /\ mode # "panicked" /\ pc[p] \in {"install", "recover"}
                  /\ \E l \in {"install", "recover", "erase", "clear"} : pc' = [pc EXCEPT ![p] = l]
    BY DEF install_trans, Recover, Install, At, Goto
<1>1. PICK pin \in {0, 1} : Installed(n, pin) /\ n \in 1..Len(lh)
    BY <1>0 DEF LogInv, Installing
<1>2. /\ c \in Blocks /\ c = dhead[n] /\ n \in 1..Len(dhead)
      /\ cache[c] \in {NoData, dlog[n]} /\ home \in [Blocks -> Vals]
    BY <1>0, <1>1 DEF Installed, LogInv, LogType
<1>3. Recovered[c] = dlog[n]
    BY <1>2, RecoveredAt
<1>5. ASSUME NEW b \in Blocks PROVE Over(home', dhead, dlog)[b] = Over(home, dhead, dlog)[b]
  <2>1. CASE b = c
    BY <1>2, <2>1 DEF Over
  <2>2. CASE b # c
    <3>1. home'[b] = home[b]
      BY <1>0, <1>2, <2>2
    <3> QED
      BY <3>1 DEF Over
  <2> QED
    BY <2>1, <2>2
<1>6. Recovered' = Recovered
  <2>1. Over(home', dhead, dlog) = Over(home, dhead, dlog)
    BY <1>5 DEF Over
  <2> QED
    BY <1>0, <2>1, RecoveredOver
<1>7. Visible' = Visible
  <2>1. ASSUME NEW b \in Blocks
        PROVE  \/ cache'[b] = cache[b]
               \/ cache[b] \in {NoData, Recovered[b]} /\ cache'[b] \in {NoData, Recovered[b]}
    BY <1>0, <1>2, <1>3 DEF LogInv, LogType
  <2> QED
    BY <1>6, <2>1, VisibleKept
<1>8. Ops' = Ops
    BY <1>0 DEF Ops, LogInv, LogType
<1> QED
    BY <1>6, <1>7, <1>8

(* When all blocks are home the header is no longer needed.                *)
LEMMA EraseMaps ==
    ASSUME LogInv, NEW p \in Procs, Erase(p) \/ Clear(p)
    PROVE  Recovered' = Recovered /\ Visible' = Visible /\ Ops' = Ops
<1>0. /\ mode # "panicked" /\ pc[p] \in {"erase", "clear"} /\ dhead' = <<>>
      /\ home' = home /\ cache' = cache
      /\ \E l \in {"finish", "idle"} : pc' = [pc EXCEPT ![p] = l]
    BY DEF Erase, Clear, At, Goto
<1>1. PICK pin \in {0, 1} : Installed(Len(lh) + 1, pin)
    BY <1>0 DEF LogInv, Installing
<1>2. \A i \in 1..Len(dhead) : home[dhead[i]] = dlog[i]
  <2>1. lh = dhead /\ \A i \in 1..Len(lh) : i < Len(lh) + 1 => home[lh[i]] = dlog[i]
    BY <1>1, Zenon DEF Installed
  <2>2. Len(lh) \in Nat
    BY DEF LogInv, LogType
  <2> QED
    BY <2>1, <2>2
<1>3. ASSUME NEW b \in Blocks PROVE Recovered[b] = home[b]
  <2>1. CASE \E i \in 1..Len(dhead) : dhead[i] = b
    <3>1. PICK i \in 1..Len(dhead) : dhead[i] = b
      BY <2>1
    <3>2. Recovered[dhead[i]] = dlog[i] /\ home[dhead[i]] = dlog[i]
      BY <1>2, RecoveredAt, Zenon
    <3> QED
      BY <3>1, <3>2, Zenon
  <2>2. CASE \A i \in 1..Len(dhead) : dhead[i] # b
    BY <2>2, RecoveredAt, Zenon
  <2> QED
    BY <2>1, <2>2, Zenon
<1>4. Recovered = [b \in Blocks |-> home[b]]
    BY <1>3, Zenon DEF Recovered
<1>5. Recovered' = Recovered
    BY <1>0, <1>4, RecoveredOver, RecoveredEmpty
<1>6. Ops' = Ops
    BY <1>0 DEF Ops, LogInv, LogType
<1> QED
    BY <1>0, <1>5, <1>6, VisibleKept

(* A block leaves the cache or is read again: it is the one at home.       *)
LEMMA CacheMaps ==
    ASSUME LogInv, NEW b \in Blocks, Evict(b) \/ Fetch(b)
    PROVE  Recovered' = Recovered /\ Visible' = Visible /\ Ops' = Ops
<1>0. /\ mode = "up" /\ (pins[b] = 0 \/ cache[b] = NoData) /\ UNCHANGED <<home, dlog, dhead, pc>>
      /\ \E v \in {NoData, home[b]} : cache' = [cache EXCEPT ![b] = v]
    BY Zenon DEF Evict, Fetch, Recyclable, disk
<1>1. Recovered' = Recovered /\ Ops' = Ops
    BY <1>0, DiskKept DEF Ops
<1>2. Recovered[b] = home[b] /\ cache[b] \in {NoData, home[b]}
    BY <1>0, UnpinnedAtHome
<1>3. cache'[b] \in {NoData, home[b]} /\ \A c \in Blocks : c # b => cache'[c] = cache[c]
    BY <1>0 DEF LogInv, LogType
<1>4. ASSUME NEW d \in Blocks
      PROVE  \/ cache'[d] = cache[d]
             \/ cache[d] \in {NoData, Recovered[d]} /\ cache'[d] \in {NoData, Recovered[d]}
    BY <1>2, <1>3, Zenon
<1> QED
    BY <1>1, <1>4, VisibleKept, Zenon

(* write_head() is the point of the commit: the copies of all logged blocks     *)
(* become what recovery leaves, in one disk write.                              *)
LEMMA WriteHeadMaps ==
    ASSUME LogInv, NEW p \in Procs, write_head(p)
    PROVE  Ops = {} /\ Ops' = {} /\ Recovered' = Visible /\ Visible' = Visible
<1>0. /\ pc[p] = "write_head" /\ mode # "panicked" /\ dhead' = lh /\ pc' = [pc EXCEPT ![p] = "install"]
      /\ UNCHANGED <<home, dlog, cache>>
    BY DEF write_head, At, Goto, memory
<1>1. /\ mode = "up" /\ Ops = {}
      /\ \A q \in Procs \ {p} : pc[q] \in {"idle", "begin", "asleep"}
    BY <1>0, Committing DEF CommitLabels
<1>2. Ops' = {}
    BY <1>0, <1>1 DEF Ops, LogInv, LogType
<1>3. /\ dhead = <<>>
      /\ \A b \in Blocks : IF InLog(b) THEN pins[b] = 1 /\ cache[b] # NoData
                           ELSE pins[b] = 0 /\ cache[b] \in {NoData, home[b]}
    BY <1>0, <1>1 DEF LogInv, Before
<1>4. \A i \in 1..Len(lh) : dlog[i] = cache[lh[i]]
    BY <1>0 DEF LogInv, LogType, Writing, Copied
<1>5. \A b \in Blocks : Recovered[b] = home[b]
    BY <1>3, RecoveredOver, RecoveredEmpty
<1>6. lh \in Seq(Blocks) /\ Distinct(lh)
    BY DEF LogInv, LogType
<1>7. /\ \A i \in 1..Len(lh) : Over(home, lh, dlog)[lh[i]] = dlog[i]
      /\ \A b \in Blocks : (\A i \in 1..Len(lh) : lh[i] # b) => Over(home, lh, dlog)[b] = home[b]
    BY <1>6, OverAt
<1>8. Recovered' = Over(home, lh, dlog)
    BY <1>0, RecoveredOver
<1>9. ASSUME NEW b \in Blocks PROVE Over(home, lh, dlog)[b] = Visible[b]
  <2>1. CASE InLog(b)
    BY <1>3, <1>4, <1>7, <2>1 DEF InLog, Visible
  <2>2. CASE ~InLog(b)
    BY <1>3, <1>5, <1>7, <2>2 DEF InLog, Visible
  <2> QED
    BY <2>1, <2>2
<1>10. Over(home, lh, dlog) = Visible
    BY <1>9 DEF Over, Visible
<1>11. ASSUME NEW b \in Blocks, cache[b] = NoData PROVE Over(home, lh, dlog)[b] = Recovered[b]
    BY <1>3, <1>5, <1>7, <1>11 DEF InLog
<1>12. Visible' = Visible
    BY <1>0, <1>8, <1>11 DEF Visible
<1> QED
    BY <1>1, <1>2, <1>8, <1>10, <1>12

(* The mapping of the calls and of a crash. *)
LEMMA OperationMaps ==
    ASSUME LogInv, NEW p \in Procs, Call(p) \/ begin_op(p) \/ end_op(p) \/ Finish(p) \/ read_head(p)
    PROVE  /\ Recovered' = Recovered /\ Visible' = Visible
           /\ \/ Ops' = Ops
              \/ p \notin Ops /\ Ops' = Ops \cup {p}
              \/ p \in Ops /\ Ops' = Ops \ {p}
<1>1. UNCHANGED <<home, dlog, dhead, cache>>
    BY DEF Call, begin_op, end_op, Finish, read_head, disk, memory
<1>2. Recovered' = Recovered /\ Visible' = Visible
    BY <1>1, DiskKept DEF Visible
<1>3. CASE Call(p) \/ Finish(p) \/ read_head(p)
    BY <1>2, <1>3, Zenon DEF Call, Finish, read_head, Woken, At, Goto, Ops, LogInv, LogType
<1>4. CASE begin_op(p)
    BY <1>2, <1>4 DEF begin_op, At, Goto, Ops, LogInv, LogType
<1>5. CASE end_op(p)
  <2>1. p \in Ops
    BY <1>5 DEF end_op, At, Ops
  <2>2. \/ pc' = pc
        \/ \E l \in {"finish", "write_log"} : pc' = [pc EXCEPT ![p] = l]
        \/ pc' = Woken([pc EXCEPT ![p] = "idle"])
    BY <1>5 DEF end_op, Goto
  <2>3. Ops' = Ops \/ Ops' = Ops \ {p}
    BY <2>2 DEF Ops, Woken, LogInv, LogType
  <2> QED
    BY <1>2, <2>1, <2>3
<1> QED
    BY <1>3, <1>4, <1>5

(* log_write is an update of the operation that makes it.                  *)
LEMMA LogWriteMaps ==
    ASSUME LogInv, NEW p \in Procs, NEW b \in Blocks, NEW v \in Vals, log_write(p, b, v)
    PROVE  /\ p \in Ops /\ Ops' = Ops /\ Recovered' = Recovered
           /\ Visible' = [Visible EXCEPT ![b] = v]
<1>0. pc[p] = "op" /\ cache' = [cache EXCEPT ![b] = v] /\ UNCHANGED <<home, dlog, dhead, pc>>
    BY Zenon DEF log_write, At, disk
<1>1. p \in Ops /\ Ops' = Ops
    BY <1>0 DEF Ops
<1>2. Recovered' = Recovered
    BY <1>0, DiskKept
<1>3. v # NoData /\ cache \in [Blocks -> Vals \cup {NoData}]
    BY LogAssumption DEF LogInv, LogType
<1>4. Visible' = [Visible EXCEPT ![b] = v]
    BY <1>0, <1>2, <1>3, Zenon DEF Visible
<1> QED
    BY <1>1, <1>2, <1>4, Zenon

(* A crash loses the operations that had not committed, as a whole.        *)
LEMMA CrashMaps ==
    ASSUME LogInv, Crash
    PROVE  Ops' = {} /\ Recovered' = Recovered /\ Visible' = Recovered
<1> USE DEF Crash, disk
<1>1. Ops' = {}
    BY DEF Ops
<1>2. Recovered' = Recovered
    BY DiskKept
<1>3. Visible' = Recovered
    BY <1>2 DEF Visible, Recovered
<1> QED
    BY <1>1, <1>2, <1>3

(* The initial states map to initial states, ...                           *)
LEMMA InitMaps == Init => Disk!Init
<1> SUFFICES ASSUME Init PROVE Disk!Init
    OBVIOUS
<1>1. Recovered = [b \in Blocks |-> InitVal]
    BY DEF Init, Recovered
<1>2. Visible = Recovered
    BY <1>1 DEF Init, Visible
<1>3. {p \in Procs : pc[p] = "op"} = {}
    BY DEF Init
<1> QED
    BY <1>1, <1>2, <1>3 DEF Disk!Init

(* ... and every step to a step or a stutter.                              *)
LEMMA StepMaps == LogInv /\ [Next]_vars => [Disk!Next]_(Disk!vars)
<1> SUFFICES ASSUME LogInv, [Next]_vars PROVE [Disk!Next]_(Disk!vars)
    OBVIOUS
<1>1. ASSUME Recovered' = Recovered, Visible' = Visible, Ops' = Ops
      PROVE  [Disk!Next]_(Disk!vars)
    BY <1>1 DEF Disk!vars, Ops
<1>2. ASSUME NEW p \in Procs, Call(p) \/ begin_op(p) \/ end_op(p) \/ Finish(p) \/ read_head(p)
      PROVE  [Disk!Next]_(Disk!vars)
  <2>1. /\ Recovered' = Recovered /\ Visible' = Visible
        /\ \/ Ops' = Ops
           \/ p \notin Ops /\ Ops' = Ops \cup {p}
           \/ p \in Ops /\ Ops' = Ops \ {p}
    BY <1>2, OperationMaps, Zenon
  <2>2. CASE Ops' = Ops
    BY <1>1, <2>1, <2>2, Zenon
  <2>3. CASE p \notin Ops /\ Ops' = Ops \cup {p}
    BY <2>1, <2>3 DEF Disk!Next, Disk!Begin, Ops
  <2>4. CASE p \in Ops /\ Ops' = Ops \ {p}
    BY <2>1, <2>4 DEF Disk!Next, Disk!End, Ops
  <2> QED
    BY <2>1, <2>2, <2>3, <2>4, Zenon
<1>3. ASSUME NEW p \in Procs, write_log(p) \/ install_trans(p) \/ Recover(p) \/ Erase(p) \/ Clear(p)
      PROVE  [Disk!Next]_(Disk!vars)
  <2>1. Recovered' = Recovered /\ Visible' = Visible /\ Ops' = Ops
    BY <1>3, WriteLogMaps, InstallMaps, EraseMaps, Zenon
  <2> QED
    BY <1>1, <2>1, Zenon
<1>4. ASSUME NEW p \in Procs, write_head(p) PROVE [Disk!Next]_(Disk!vars)
  <2>1. Ops = {} /\ Ops' = {} /\ Recovered' = Visible /\ Visible' = Visible
    BY <1>4, WriteHeadMaps
  <2> QED
    BY <2>1 DEF Disk!Next, Disk!Commit, Ops
<1>5. ASSUME NEW p \in Procs, NEW b \in Blocks, NEW v \in Vals, log_write(p, b, v)
      PROVE  [Disk!Next]_(Disk!vars)
  <2>1. /\ p \in Ops /\ Ops' = Ops /\ Recovered' = Recovered
        /\ Visible' = [Visible EXCEPT ![b] = v]
    BY <1>5, LogWriteMaps
  <2> QED
    BY <2>1, Zenon DEF Disk!Next, Disk!Write, Ops
<1>6. ASSUME NEW b \in Blocks, Evict(b) \/ Fetch(b) PROVE [Disk!Next]_(Disk!vars)
  <2>1. Recovered' = Recovered /\ Visible' = Visible /\ Ops' = Ops
    BY <1>6, CacheMaps, Zenon
  <2> QED
    BY <1>1, <2>1, Zenon
<1>7. CASE Crash
  <2>1. Ops' = {} /\ Recovered' = Recovered /\ Visible' = Recovered
    BY <1>7, CrashMaps
  <2> QED
    BY <2>1 DEF Disk!Next, Disk!Crash, Ops
<1>8. CASE UNCHANGED vars
  <2>1. UNCHANGED <<home, dlog, dhead, cache, pc>>
    BY <1>8 DEF vars, disk, memory
  <2> QED
    BY <1>1, <2>1, DiskKept DEF Visible, Ops
<1> QED
    BY <1>2, <1>3, <1>4, <1>5, <1>6, <1>7, <1>8, Zenon
       DEF Next, Step, commit, recover_from_log

--------------------------------------------------------------------------------
(* Counting the operations and the blocks.  The facts about finite sets that    *)
(* are needed are a hypothesis of these lemmas; the library, from which they    *)
(* follow, comes in with the theorems.                                          *)

Counting ==
    /\ IsFiniteSet({}) /\ Cardinality({}) = 0
    /\ \A S : IsFiniteSet(S) => Cardinality(S) \in Nat /\ (Cardinality(S) = 0 => S = {})
    /\ \A S, T : IsFiniteSet(S) /\ T \subseteq S =>
                    IsFiniteSet(T) /\ Cardinality(T) <= Cardinality(S)
    /\ \A S, x : IsFiniteSet(S) /\ x \notin S =>
                    IsFiniteSet(S \cup {x}) /\ Cardinality(S \cup {x}) = Cardinality(S) + 1
    /\ \A S, x : IsFiniteSet(S) /\ x \in S =>
                    IsFiniteSet(S \ {x}) /\ Cardinality(S \ {x}) = Cardinality(S) - 1
    /\ \A S, T : IsFiniteSet(S) /\ IsFiniteSet(T) =>
                    IsFiniteSet(S \X T) /\ Cardinality(S \X T) = Cardinality(S) * Cardinality(T)
    /\ \A n \in Nat : IsFiniteSet(1..n) /\ Cardinality(1..n) = n

(* The file system that mkfs made, before the first boot.                  *)
LEMMA LogInit ==
    ASSUME Counting, Init
    PROVE  LogInv
<1>1. LogType
  <2>1. <<>> \in Seq(Blocks)
    OBVIOUS
  <2> QED
    BY <2>1, LogAssumption, Zenon DEF Init, LogType, Labels
<1>2. Distinct(dhead) /\ Distinct(lh)
    BY LogAssumption DEF Init, Distinct
<1>3. Ops = {}
    BY DEF Init, Ops
<1>4. Control
    BY <1>3, SMT DEF Counting, Init, Control, CommitLabels, BootLabels
<1>5. Before /\ Writing /\ Installing
    BY SMT DEF Init, Before, Writing, Installing
<1> QED
    BY <1>1, <1>2, <1>4, <1>5 DEF LogInv

(* One more operation is counted when one begins, ...                      *)
LEMMA OpsEnter ==
    ASSUME Counting, NEW S, NEW p, IsFiniteSet(S), p \notin S
    PROVE  IsFiniteSet(S \cup {p}) /\ Cardinality(S \cup {p}) = Cardinality(S) + 1
BY DEF Counting

(* ... and one less when one ends.                                         *)
LEMMA OpsLeave ==
    ASSUME Counting, NEW S, NEW p, IsFiniteSet(S), p \in S
    PROVE  /\ IsFiniteSet(S \ {p}) /\ Cardinality(S \ {p}) = Cardinality(S) - 1
           /\ Cardinality(S) = 1 => S \ {p} = {}
<1>1. IsFiniteSet(S \ {p}) /\ Cardinality(S \ {p}) = Cardinality(S) - 1
    BY Zenon DEF Counting
<1>2. Cardinality(S \ {p}) = 0 => S \ {p} = {}
    BY <1>1, Zenon DEF Counting
<1> QED
    BY <1>1, <1>2

(* A part of a finite set is no larger.                                    *)
LEMMA PartCounted ==
    ASSUME Counting, NEW S, NEW T, IsFiniteSet(S), T \subseteq S
    PROVE  /\ IsFiniteSet(T) /\ Cardinality(T) <= Cardinality(S)
           /\ Cardinality(S) \in Nat /\ Cardinality(T) \in Nat
BY Zenon DEF Counting

(* The size of a product.                                                  *)
LEMMA ProductCounted ==
    ASSUME Counting, NEW S, NEW T, IsFiniteSet(S), IsFiniteSet(T)
    PROVE  IsFiniteSet(S \X T) /\ Cardinality(S \X T) = Cardinality(S) * Cardinality(T)
BY Zenon DEF Counting

(* begin_op, whether it waits or enters.                                   *)
LEMMA BeginStep ==
    ASSUME Counting, LogInv, NEW p \in Procs, begin_op(p)
    PROVE  LogInv'
<1>1. /\ pc[p] = "begin" /\ mode # "panicked"
      /\ UNCHANGED <<home, dlog, dhead, cache, pins, lh, committing, tail, mode>>
    BY DEF begin_op, At, disk
<1>2. \/ MustWait /\ pc' = [pc EXCEPT ![p] = "asleep"] /\ UNCHANGED <<outstanding, left>>
      \/ /\ ~MustWait /\ pc' = [pc EXCEPT ![p] = "op"] /\ outstanding' = outstanding + 1
         /\ left' = [left EXCEPT ![p] = MAXOPBLOCKS]
    BY DEF begin_op, Goto
<1>3. LogType'
  <2>0. pc \in [Procs -> Labels] /\ left \in [Procs -> Nat] /\ MAXOPBLOCKS \in Nat
    BY LogAssumption DEF LogInv, LogType
  <2>1. pc' \in [Procs -> Labels]
    <3>1. \E l \in Labels : pc' = [pc EXCEPT ![p] = l]
      BY <1>2, Zenon DEF Labels
    <3> QED
      BY <2>0, <3>1
  <2>2. left' \in [Procs -> Nat]
    BY <1>2, <2>0
  <2> QED
    BY <1>1, <2>1, <2>2 DEF LogInv, LogType
<1>4. Distinct(dhead)' /\ Distinct(lh)'
    BY <1>1, Zenon DEF LogInv, Distinct
<1>5. mode = "up" /\ Control
    BY <1>1, Zenon DEF LogInv, LogType, Control, BootLabels
<1>6. Control'
  <2>1. CASE MustWait
    <3>1. /\ UNCHANGED <<committing, mode, outstanding>> /\ pc'[p] = "asleep"
          /\ \A q \in Procs : q # p => pc'[q] = pc[q]
        BY <1>1, <1>2, <2>1 DEF LogInv, LogType
    <3>2. Ops' = Ops
        BY <1>1, <3>1 DEF Ops
    <3>3. \A q \in Procs : pc'[q] = pc[q] \/ pc'[q] \notin CommitLabels \cup BootLabels
        BY <3>1 DEF CommitLabels, BootLabels
    <3> QED
        BY <1>5, <3>1, <3>2, <3>3, Zenon DEF Control
  <2>2. CASE ~MustWait
    <3>1. /\ UNCHANGED <<committing, mode>> /\ outstanding' = outstanding + 1 /\ ~committing
          /\ pc'[p] = "op" /\ \A q \in Procs : q # p => pc'[q] = pc[q]
        BY <1>1, <1>2, <2>2 DEF LogInv, LogType, MustWait
    <3>2. Ops' = Ops \cup {p} /\ p \notin Ops
        BY <1>1, <3>1 DEF Ops
    <3>3. IsFiniteSet(Ops) /\ outstanding = Cardinality(Ops)
        BY <1>5 DEF Control
    <3>4. IsFiniteSet(Ops') /\ outstanding' = Cardinality(Ops')
        BY <3>1, <3>2, <3>3, OpsEnter
    <3>5. \A q \in Procs : pc'[q] = pc[q] \/ pc'[q] \notin CommitLabels \cup BootLabels
        BY <3>1 DEF CommitLabels, BootLabels
    <3> QED
        BY <1>5, <3>1, <3>4, <3>5, Zenon DEF Control
  <2> QED
    BY <2>1, <2>2
<1>7. Before' /\ Writing' /\ Installing'
  <2>1. \A q \in Procs : pc'[q] = pc[q] \/ {pc[q], pc'[q]} \subseteq {"idle", "begin", "asleep", "op", "finish"}
    BY <1>1, <1>2 DEF LogInv, LogType
  <2> QED
    BY <1>1, <1>5, <2>1, DataKept
<1> QED
    BY <1>3, <1>4, <1>6, <1>7 DEF LogInv

(* end_op: the last operation to end becomes the committer.                *)
LEMMA EndStep ==
    ASSUME Counting, LogInv, NEW p \in Procs, end_op(p)
    PROVE  LogInv'
<1>1. /\ mode = "up" /\ ~committing /\ p \in Ops
      /\ \A q \in Procs : pc[q] \in {"idle", "begin", "asleep", "op"}
    BY InOperation DEF end_op, At
<1>2. /\ left' = [left EXCEPT ![p] = 0] /\ outstanding' = outstanding - 1
      /\ UNCHANGED <<home, dlog, dhead, cache, pins, lh, mode>>
    BY <1>1 DEF end_op, disk
<1>3. IF outstanding = 1
      THEN /\ committing' = TRUE /\ tail' = [tail EXCEPT ![p] = 1]
           /\ pc' = [pc EXCEPT ![p] = IF lh = <<>> THEN "finish" ELSE "write_log"]
      ELSE pc' = Woken([pc EXCEPT ![p] = "idle"]) /\ UNCHANGED <<committing, tail>>
    BY <1>1 DEF end_op, Goto
<1>4. /\ IsFiniteSet(Ops \ {p}) /\ outstanding' = Cardinality(Ops \ {p})
      /\ outstanding = 1 => Ops \ {p} = {}
  <2>1. IsFiniteSet(Ops) /\ outstanding = Cardinality(Ops)
    BY <1>1 DEF LogInv, Control
  <2> QED
    BY <1>1, <1>2, <2>1, OpsLeave
<1>5. Distinct(dhead)' /\ Distinct(lh)'
    BY <1>2, Zenon DEF LogInv, Distinct
<1>6. LogType /\ left' \in [Procs -> Nat] /\ (lh # <<>> => 1 \in 1..Len(lh))
    BY <1>2 DEF LogInv, LogType
<1>7. CASE outstanding = 1
  <2>1. PICK l \in {"finish", "write_log"} :
            l = (IF lh = <<>> THEN "finish" ELSE "write_log") /\ pc' = [pc EXCEPT ![p] = l]
    BY <1>3, <1>7
  <2>2. /\ committing' = TRUE /\ pc' \in [Procs -> Labels] /\ pc'[p] = l
        /\ tail' \in [Procs -> Nat] /\ tail'[p] = 1
        /\ \A q \in Procs : q # p => pc'[q] = pc[q]
    <3>1. committing' = TRUE /\ tail' \in [Procs -> Nat] /\ tail'[p] = 1
      <4>1. committing' = TRUE /\ tail' = [tail EXCEPT ![p] = 1]
        BY <1>3, <1>7, Zenon
      <4>2. tail \in [Procs -> Nat]
        BY <1>6 DEF LogType
      <4> QED
        BY <4>1, <4>2
    <3>2. /\ pc' \in [Procs -> Labels] /\ pc'[p] = l
          /\ \A q \in Procs : q # p => pc'[q] = pc[q]
      BY <1>6, <2>1 DEF LogType, Labels
    <3> QED
      BY <3>1, <3>2
  <2>3. LogType'
    BY <1>2, <1>6, <2>2 DEF LogType
  <2>4. Ops' = Ops \ {p}
    BY <2>2 DEF Ops
  <2>5. Control'
    BY <1>1, <1>2, <1>4, <1>7, <2>2, <2>4 DEF Control, CommitLabels, BootLabels
  <2>6. Before'
    BY <1>1, <1>2, Zenon DEF LogInv, Before, InLog
  <2>7. Writing'
    <3>1. \A q \in Procs : pc'[q] \in {"write_log", "write_head"} =>
                             q = p /\ pc'[q] = "write_log" /\ lh # <<>>
      BY <1>1, <2>1, <2>2
    <3>2. lh # <<>> => tail'[p] \in 1..Len(lh')
      BY <1>2, <1>6, <2>2
    <3>3. Copied(1)'
      BY <2>3 DEF LogType, Copied
    <3> QED
      BY <2>2, <3>1, <3>2, <3>3 DEF Writing
  <2>8. Installing'
    BY <1>1, <2>2 DEF Installing
  <2> QED
    BY <1>5, <2>3, <2>5, <2>6, <2>7, <2>8 DEF LogInv
<1>8. CASE outstanding # 1
  <2>1. pc' = Woken([pc EXCEPT ![p] = "idle"]) /\ UNCHANGED <<committing, tail>>
    BY <1>3, <1>8
  <2>2. \A q \in Procs : /\ pc'[q] \in {"idle", "begin", "asleep", "op"}
                         /\ pc'[q] = "op" <=> pc[q] = "op" /\ q # p
    BY <1>1, <1>6, <2>1 DEF LogType, Woken
  <2>3. LogType'
    BY <1>2, <1>6, <2>1, <2>2 DEF LogType, Labels, Woken
  <2>4. Ops' = Ops \ {p}
    BY <2>2 DEF Ops
  <2>5. Control'
    BY <1>1, <1>2, <1>4, <2>1, <2>2, <2>4, Zenon DEF Control, CommitLabels, BootLabels
  <2>6. Before' /\ Writing' /\ Installing'
    BY <1>1, <1>2, <2>1, <2>2, DataKept, Zenon
  <2> QED
    BY <1>5, <2>3, <2>5, <2>6 DEF LogInv
<1> QED
    BY <1>7, <1>8

(* A crash at any point leaves what recovery needs on the disk.            *)
LEMMA CrashStep ==
    ASSUME Counting, LogInv, Crash
    PROVE  LogInv'
<1> USE DEF Crash, disk
<1>1. <<>> \in Seq(Blocks) /\ Len(<<>>) = 0
    OBVIOUS
<1>2. LogType'
    BY <1>1, Zenon DEF LogInv, LogType, Labels
<1>3. Distinct(dhead)' /\ Distinct(lh)'
    BY <1>1, LogAssumption DEF LogInv, Distinct
<1>4. Ops' = {}
    BY DEF Ops
<1>5. Control'
    BY <1>4 DEF Counting, Control, CommitLabels, BootLabels
<1>6. Before' /\ Writing' /\ Installing'
    BY DEF Before, Writing, Installing
<1> QED
    BY <1>2, <1>3, <1>5, <1>6 DEF LogInv

(* Every step keeps the invariant.                                         *)
LEMMA LogStep ==
    ASSUME Counting, LogInv, [Next]_vars
    PROVE  LogInv'
<1>1. ASSUME NEW p \in Procs, Step(p) PROVE LogInv'
    BY <1>1, BeginStep, EndStep, WriteLogStep, WriteHeadStep, InstallStep, EraseStep,
       FinishStep, ReadHeadStep, RecoverStep, ClearStep, Zenon
       DEF Step, commit, recover_from_log
<1>2. ASSUME NEW p \in Procs, Call(p) PROVE LogInv'
    BY <1>2, CallStep
<1>3. ASSUME NEW p \in Procs, NEW b \in Blocks, NEW v \in Vals, log_write(p, b, v) PROVE LogInv'
    BY <1>3, WriteStep
<1>4. ASSUME NEW b \in Blocks, Evict(b) \/ Fetch(b) PROVE LogInv'
    BY <1>4, CacheStep
<1>5. CASE Crash
    BY <1>5, CrashStep
<1>6. CASE UNCHANGED vars
    BY <1>6, StutterStep
<1> QED
    BY <1>1, <1>2, <1>3, <1>4, <1>5, <1>6, Zenon DEF Next

--------------------------------------------------------------------------------
(* The admission test *)

RoomInv ==
    /\ left \in [Procs -> 0..MAXOPBLOCKS]
    /\ \A p \in Procs : left[p] > 0 => pc[p] = "op"
    /\ IsFiniteSet(Pending)
    /\ LogNeverOverflows

(* At first nothing is logged and nothing is owed.                         *)
LEMMA RoomInit ==
    ASSUME Counting, Init
    PROVE  RoomInv
<1>1. Pending = {}
    BY DEF Init, Pending
<1> QED
  <2>1. IsFiniteSet(Pending) /\ Cardinality(Pending) = 0
    BY <1>1, Zenon DEF Counting
  <2> QED
    BY <2>1, LogAssumption DEF Init, RoomInv, LogNeverOverflows

(* Fewer calls to come and no more blocks in the log leave as much room. *)
LEMMA RoomKept ==
    ASSUME Counting, LogInv, LogInv', RoomInv, Pending' \subseteq Pending, Len(lh') <= Len(lh)
    PROVE  IsFiniteSet(Pending') /\ LogNeverOverflows'
<1>1. /\ IsFiniteSet(Pending') /\ Cardinality(Pending') <= Cardinality(Pending)
      /\ Cardinality(Pending) \in Nat /\ Cardinality(Pending') \in Nat
    BY PartCounted DEF RoomInv
<1>2. Len(lh) \in Nat /\ Len(lh') \in Nat
    BY DEF LogInv, LogType
<1>3. LogNeverOverflows'
    BY <1>1, <1>2, LogAssumption DEF RoomInv, LogNeverOverflows
<1> QED
    BY <1>1, <1>3

(* An operation that begin_op() admits may log MAXOPBLOCKS blocks, like the     *)
(* others that are outstanding.                                                 *)
LEMMA BeginRoom ==
    ASSUME Counting, LogInv, LogInv', RoomInv, NEW p \in Procs, begin_op(p)
    PROVE  RoomInv'
<1>1. /\ mode # "panicked" /\ UNCHANGED <<lh, mode>>
      /\ \/ MustWait /\ pc' = [pc EXCEPT ![p] = "asleep"] /\ left' = left /\ pc[p] = "begin"
         \/ /\ ~MustWait /\ pc' = [pc EXCEPT ![p] = "op"] /\ outstanding' = outstanding + 1
            /\ left' = [left EXCEPT ![p] = MAXOPBLOCKS]
    BY DEF begin_op, At, Goto
<1>2. /\ pc \in [Procs -> Labels] /\ left \in [Procs -> 0..MAXOPBLOCKS] /\ Len(lh) \in Nat
      /\ \A q \in Procs : left[q] > 0 => pc[q] = "op"
    BY DEF RoomInv, LogInv, LogType
<1>3. CASE MustWait
  <2>1. left' = left /\ \A q \in Procs : left'[q] > 0 => pc'[q] = "op"
    BY <1>1, <1>2, <1>3
  <2>2. Pending' = Pending
    BY <2>1 DEF Pending
  <2> QED
    BY <1>1, <2>1, <2>2 DEF RoomInv, LogNeverOverflows
<1>4. CASE ~MustWait
  <2>0. /\ pc' = [pc EXCEPT ![p] = "op"] /\ left' = [left EXCEPT ![p] = MAXOPBLOCKS]
        /\ outstanding' = outstanding + 1 /\ mode' # "panicked"
    BY <1>1, <1>4, Zenon
  <2>1. /\ \A q \in Procs : left'[q] > 0 => pc'[q] = "op"
        /\ left' \in [Procs -> 0..MAXOPBLOCKS] /\ MAXOPBLOCKS \in Nat
    <3>1. MAXOPBLOCKS \in 0..MAXOPBLOCKS /\ MAXOPBLOCKS \in Nat
      BY LogAssumption
    <3>2. left' \in [Procs -> 0..MAXOPBLOCKS]
      BY <1>2, <2>0, <3>1
    <3> QED
      BY <1>2, <2>0, <3>1, <3>2
  <2>2. /\ IsFiniteSet(Ops') /\ Cardinality(Ops') = outstanding + 1
        /\ outstanding \in Nat /\ MAXOPBLOCKS \in Nat
    <3>1. IsFiniteSet(Ops) /\ outstanding = Cardinality(Ops)
      BY <1>1, Zenon DEF LogInv, Control
    <3>2. IsFiniteSet(Ops') /\ outstanding' = Cardinality(Ops')
      BY <2>0, Zenon DEF LogInv, Control
    <3>3. outstanding \in Nat
      BY <3>1, PartCounted, Zenon
    <3> QED
      BY <2>0, <2>1, <3>2, <3>3, Zenon
  <2>3. IsFiniteSet(1..MAXOPBLOCKS) /\ Cardinality(1..MAXOPBLOCKS) = MAXOPBLOCKS
    BY <2>2, Zenon DEF Counting
  <2>4. /\ IsFiniteSet(Ops' \X (1..MAXOPBLOCKS))
        /\ Cardinality(Ops' \X (1..MAXOPBLOCKS)) = (outstanding + 1) * MAXOPBLOCKS
    <3>1. /\ IsFiniteSet(Ops' \X (1..MAXOPBLOCKS))
          /\ Cardinality(Ops' \X (1..MAXOPBLOCKS)) = Cardinality(Ops') * Cardinality(1..MAXOPBLOCKS)
      BY <2>2, <2>3, ProductCounted, Zenon
    <3> QED
      BY <2>2, <2>3, <3>1, Zenon
  <2>5. Pending' \subseteq Ops' \X (1..MAXOPBLOCKS)
    <3>1. ASSUME NEW c \in Procs \X (1..MAXOPBLOCKS), c[2] <= left'[c[1]]
          PROVE  c[1] \in Ops'
      <4>1. c[1] \in Procs /\ c[2] \in 1..MAXOPBLOCKS /\ left'[c[1]] \in Nat
        BY <2>1
      <4>2. left'[c[1]] > 0
        BY <3>1, <4>1
      <4> QED
        BY <2>1, <4>1, <4>2 DEF Ops
    <3> QED
      BY <3>1 DEF Pending
  <2>6. PICK k \in Nat : k = (outstanding + 1) * MAXOPBLOCKS
    BY <2>2
  <2>7. IsFiniteSet(Pending') /\ Cardinality(Pending') \in Nat /\ Cardinality(Pending') <= k
    BY <2>4, <2>5, <2>6, PartCounted
  <2>8. ~(Len(lh) + k > LOGSIZE)
    BY <1>4, <2>6 DEF MustWait
  <2>9. LogNeverOverflows'
    BY <1>1, <1>2, <2>7, <2>8, LogAssumption DEF LogNeverOverflows
  <2> QED
    BY <2>1, <2>7, <2>9 DEF RoomInv
<1> QED
    BY <1>3, <1>4

(* log_write uses a block that its operation had reserved.                 *)
LEMMA WriteRoom ==
    ASSUME Counting, LogInv, LogInv', RoomInv, NEW p \in Procs, NEW b \in Blocks, NEW v \in Vals,
           log_write(p, b, v)
    PROVE  RoomInv'
<1>1. /\ left' = [left EXCEPT ![p] = left[p] - 1] /\ left[p] \in 1..MAXOPBLOCKS
      /\ left \in [Procs -> 0..MAXOPBLOCKS] /\ MAXOPBLOCKS \in Nat
      /\ pc' = pc /\ pc[p] = "op" /\ (lh' = lh \/ lh' = Append(lh, b))
    BY LogAssumption DEF RoomInv, log_write, At
<1> DEFINE x == <<p, left[p]>>
<1>2. /\ \A q \in Procs : left'[q] > 0 => pc'[q] = "op"
      /\ left' \in [Procs -> 0..MAXOPBLOCKS]
    BY <1>1 DEF RoomInv
<1>3. Len(lh') <= Len(lh) + 1 /\ Len(lh) \in Nat /\ Len(lh') \in Nat
  <2>1. lh \in Seq(Blocks) /\ lh' \in Seq(Blocks)
    BY DEF LogInv, LogType
  <2>2. Len(Append(lh, b)) = Len(lh) + 1
    BY <2>1
  <2> QED
    BY <1>1, <2>1, <2>2
<1>4. x \in Pending
    BY <1>1 DEF Pending
<1>5. Pending' = Pending \ {x}
  <2>1. ASSUME NEW c \in Procs \X (1..MAXOPBLOCKS)
        PROVE  c[2] <= left'[c[1]] <=> c[2] <= left[c[1]] /\ c # x
    <3>1. c[1] \in Procs /\ c[2] \in 1..MAXOPBLOCKS /\ c = <<c[1], c[2]>>
      OBVIOUS
    <3>2. CASE c[1] = p
      BY <1>1, <3>1, <3>2
    <3>3. CASE c[1] # p
      BY <1>1, <3>1, <3>3
    <3> QED
      BY <3>2, <3>3
  <2> QED
    BY <2>1 DEF Pending
<1>6. /\ IsFiniteSet(Pending') /\ Cardinality(Pending') = Cardinality(Pending) - 1
      /\ Cardinality(Pending) \in Nat
  <2>1. IsFiniteSet(Pending)
    BY DEF RoomInv
  <2> HIDE DEF x
  <2> QED
    BY <1>4, <1>5, <2>1, Zenon DEF Counting
<1>7. LogNeverOverflows'
  <2>1. Len(lh) + Cardinality(Pending) <= LOGSIZE /\ LOGSIZE \in Nat
    BY LogAssumption DEF RoomInv, LogNeverOverflows
  <2> QED
    BY <1>3, <1>6, <2>1 DEF LogNeverOverflows
<1> QED
    BY <1>2, <1>6, <1>7, Zenon DEF RoomInv

(* The steps that only give room back. *)
LEMMA OtherRoom ==
    ASSUME Counting, LogInv, LogInv', RoomInv, NEW p \in Procs,
           Call(p) \/ end_op(p) \/ commit(p) \/ Recover(p) \/ Clear(p)
    PROVE  RoomInv'
<1>1. /\ left' = left \/ left' = [left EXCEPT ![p] = 0]
      /\ lh' = lh \/ lh' = <<>>
      /\ \/ At(p, "op") /\ left' = [left EXCEPT ![p] = 0]
         \/ pc[p] # "op" /\ left' = left
    BY Zenon DEF Call, end_op, commit, write_log, write_head, install_trans, Erase, Finish, Recover, Clear,
           memory, At
<1>2. \A q \in Procs : q # p /\ pc[q] = "op" => pc'[q] = "op"
    BY Zenon DEF Call, end_op, commit, write_log, write_head, install_trans, Erase, Finish, Recover, Clear,
           Woken, At, Goto, LogInv, LogType
<1>3. /\ left' \in [Procs -> 0..MAXOPBLOCKS]
      /\ \A q \in Procs : left'[q] > 0 => pc'[q] = "op"
  <2>1. left \in [Procs -> 0..MAXOPBLOCKS] /\ 0 \in 0..MAXOPBLOCKS
    BY LogAssumption DEF RoomInv
  <2>2. left' \in [Procs -> 0..MAXOPBLOCKS]
    BY <1>1, <2>1
  <2>3. ASSUME NEW q \in Procs, left'[q] > 0 PROVE q # p /\ pc[q] = "op"
    BY <1>1, <2>1, <2>3 DEF RoomInv
  <2> QED
    BY <1>2, <2>2, <2>3
<1>4. Pending' \subseteq Pending
  <2>1. \A q \in Procs : left'[q] <= left[q] /\ left[q] \in Nat /\ left'[q] \in Nat
    <3>1. left \in [Procs -> Nat] /\ left' \in [Procs -> Nat]
      BY DEF LogInv, LogType
    <3> QED
      BY <1>1, <3>1
  <2>2. ASSUME NEW c \in Procs \X (1..MAXOPBLOCKS), c[2] <= left'[c[1]]
        PROVE  c[2] <= left[c[1]]
    <3>1. c[1] \in Procs /\ c[2] \in 1..MAXOPBLOCKS
      OBVIOUS
    <3> QED
      BY <2>1, <2>2, <3>1
  <2> QED
    BY <2>2 DEF Pending
<1>5. Len(lh') <= Len(lh)
    BY <1>1 DEF LogInv, LogType
<1> QED
    BY <1>3, <1>4, <1>5, RoomKept DEF RoomInv

(* Every step keeps the room that was reserved.                            *)
LEMMA RoomStep ==
    ASSUME Counting, LogInv, LogInv', RoomInv, [Next]_vars
    PROVE  RoomInv'
<1>1. ASSUME NEW p \in Procs, read_head(p) PROVE RoomInv'
  <2>1. /\ Ops = {} /\ left' = left /\ lh' = dhead
        /\ \A q \in Procs : pc[q] # "op"
    BY <1>1, Booting DEF read_head, At, BootLabels, Ops
  <2>2. \A q \in Procs : ~(left'[q] > 0)
    BY <2>1 DEF RoomInv
  <2>3. Pending' = {}
    <3>1. ASSUME NEW c \in Procs \X (1..MAXOPBLOCKS) PROVE ~(c[2] <= left'[c[1]])
      <4>1. c[1] \in Procs /\ c[2] \in 1..MAXOPBLOCKS /\ left'[c[1]] \in Nat
        BY DEF LogInv, LogType
      <4> QED
        BY <2>2, <4>1
    <3> QED
      BY <3>1 DEF Pending
  <2>4. LogNeverOverflows' /\ IsFiniteSet(Pending')
    <3>1. IsFiniteSet(Pending') /\ Cardinality(Pending') = 0
      BY <2>3, Zenon DEF Counting
    <3>2. Len(lh') \in Nat /\ Len(lh') <= LOGSIZE
      BY <2>1 DEF LogInv, LogType, Distinct
    <3> QED
      BY <3>1, <3>2, LogAssumption DEF LogNeverOverflows
  <2> QED
    BY <2>1, <2>2, <2>4 DEF RoomInv
<1>2. ASSUME NEW p \in Procs, Step(p) \/ Call(p) PROVE RoomInv'
    BY <1>1, <1>2, BeginRoom, OtherRoom, Zenon DEF Step, recover_from_log
<1>3. ASSUME NEW p \in Procs, NEW b \in Blocks, NEW v \in Vals, log_write(p, b, v) PROVE RoomInv'
    BY <1>3, WriteRoom
<1>4. CASE (\E b \in Blocks : Evict(b) \/ Fetch(b)) \/ UNCHANGED vars
  <2>1. UNCHANGED <<left, pc, lh>>
    BY <1>4 DEF Evict, Fetch, vars, memory
  <2> QED
    BY <2>1 DEF RoomInv, LogNeverOverflows, Pending
<1>5. CASE Crash
  <2>1. Pending' = {}
    BY <1>5 DEF Crash, Pending
  <2>2. IsFiniteSet(Pending') /\ LogNeverOverflows'
    <3>1. IsFiniteSet(Pending') /\ Cardinality(Pending') = 0
      BY <2>1, Zenon DEF Counting
    <3> QED
      BY <1>5, <3>1, LogAssumption DEF Crash, LogNeverOverflows
  <2> QED
    BY <1>5, <2>2, LogAssumption DEF Crash, RoomInv
<1> QED
    BY <1>2, <1>3, <1>4, <1>5, Zenon DEF Next

--------------------------------------------------------------------------------
(* The theorems *)

INSTANCE FiniteSetTheorems

LEMMA Counts == Counting
<1>1. /\ IsFiniteSet({}) /\ Cardinality({}) = 0
      /\ \A S : IsFiniteSet(S) => Cardinality(S) \in Nat /\ (Cardinality(S) = 0 => S = {})
    BY FS_EmptySet, FS_CardinalityType
<1>2. \A S, T : IsFiniteSet(S) /\ T \subseteq S => IsFiniteSet(T) /\ Cardinality(T) <= Cardinality(S)
    BY FS_Subset
<1>3. \A S, x : IsFiniteSet(S) /\ x \notin S =>
                   IsFiniteSet(S \cup {x}) /\ Cardinality(S \cup {x}) = Cardinality(S) + 1
    BY FS_AddElement
<1>4. \A S, x : IsFiniteSet(S) /\ x \in S =>
                   IsFiniteSet(S \ {x}) /\ Cardinality(S \ {x}) = Cardinality(S) - 1
    BY FS_RemoveElement
<1>5. \A S, T : IsFiniteSet(S) /\ IsFiniteSet(T) =>
                   IsFiniteSet(S \X T) /\ Cardinality(S \X T) = Cardinality(S) * Cardinality(T)
    BY FS_Product
<1>6. \A n \in Nat : IsFiniteSet(1..n) /\ Cardinality(1..n) = n
    BY FS_Interval
<1> QED
    BY <1>1, <1>2, <1>3, <1>4, <1>5, <1>6, Zenon DEF Counting

(* The log is in one of the states LogInv describes, whatever disk write a      *)
(* crash interrupts: logged block numbers are distinct and fit (log_write       *)
(* absorbs), one process at most commits and none is in an operation meanwhile  *)
(* (begin_op, end_op), a logged block stays pinned in the cache until its copy  *)
(* is in its home block (bpin, install_trans), and the copies of the log are    *)
(* complete before the header is written (write_log, write_head).               *)
THEOREM LogInvariant == Spec => []LogInv
<1>1. Init => LogInv
    BY Counts, LogInit
<1>2. LogInv /\ [Next]_vars => LogInv'
    BY Counts, LogStep
<1> QED
    BY <1>1, <1>2, PTL DEF Spec

(* The log implements the atomic disk, for any number of processes and blocks   *)
(* and for any sizes: after a crash during any disk write of a commit or of a   *)
(* recovery the home blocks come back with all updates of the last group that   *)
(* committed and none of a later one, and a group commits only while no         *)
(* operation is between begin_op() and end_op().                                *)
THEOREM LogImplementsAtomicDisk == Spec => ImplementsAtomicDisk
<1> QED
    BY LogInvariant, InitMaps, StepMaps, PTL DEF Spec, ImplementsAtomicDisk, Disk!Spec

(* begin_op() admits an operation only when every block that it and the other   *)
(* operations may still log has a slot in log.lh.block, for any number of       *)
(* processes and any sizes: log_write() never finds the header full.            *)
THEOREM LogRoom == Spec => []LogNeverOverflows
<1>1. Init => RoomInv
    BY Counts, RoomInit
<1>2. LogInv /\ LogInv' /\ RoomInv /\ [Next]_vars => RoomInv'
    BY Counts, RoomStep
<1>3. RoomInv => LogNeverOverflows
    BY DEF RoomInv
<1> QED
    BY LogInvariant, <1>1, <1>2, <1>3, PTL DEF Spec

================================================================================
