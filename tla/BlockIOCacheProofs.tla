------------------------- MODULE BlockIOCacheProofs --------------------------
(***************************************************************************)
(* The inductive invariant of block I/O, for any number of processes,      *)
(* blocks, buffers and descriptors, and the proof that the buffer cache    *)
(* (bget, brelse, the sleep-locks of the buffers) keeps it.                *)
(***************************************************************************)
EXTENDS BlockIO, TLAPS

(* How long a leaf may take: SMT first, then Zenon.                          *)
USE SMTT(20), ZenonT(30)

Buf == [blockno : Blocks \cup {NoBlock}, valid : BOOLEAN, refcnt : Nat,
        locked : Procs \cup {Nobody}, disk : BOOLEAN, data : Vals]

IO == {"wait_io", "sleep_io"}                \* a request is with the device
Transfer == IO \cup {"rw", "sleep_desc"}     \* in virtio_disk_rw()
Holding == Transfer \cup {"have"}            \* has the lock of its buffer
Labels == Holding \cup {"idle", "acquiresleep", "sleep_lock", "brelse"}

BioType ==
  /\ platter \in [Blocks -> Vals]
  /\ buf \in [Bufs -> Buf]
  /\ lru \in [Bufs -> Bufs]
  /\ num \in NUM
  /\ free \subseteq Desc
  /\ info \in [Desc -> 0 .. NBUF]
  /\ avail \in Seq(Desc) /\ used \in Seq(Desc)
  /\ pc \in [Procs -> Labels]
  /\ want \in [Procs -> Blocks \cup {NoBlock}]
  /\ mine \in [Procs -> 0 .. NBUF]
  /\ write \in [Procs -> BOOLEAN]
  /\ chain \in [Procs -> {<<>>} \cup [1 .. 3 -> Desc]]

(* A buffer has as many references as there are processes that use it, so  *)
(* that bget() recycles none that is in use; ...                           *)
Users(k) == {p \in Procs : mine[p] = k}

InUse ==
  /\ \A p \in Procs : IF pc[p] = "idle" THEN mine[p] = 0
                      ELSE /\ mine[p] \in Bufs /\ want[p] \in Blocks
                           /\ buf[mine[p]].blockno = want[p]
  /\ \A k \in Bufs : buf[k].refcnt = Cardinality(Users(k))

(* ... a block is in one buffer at most; ...                               *)
OneBuffer ==
  \A j, k \in Bufs : buf[j].blockno = buf[k].blockno /\ j # k => buf[j].blockno = NoBlock

(* ... the lock of a buffer is held by one process that uses it; ...       *)
Holders ==
  /\ \A p \in Procs : pc[p] \in Holding => buf[mine[p]].locked = p
  /\ \A k \in Bufs : \A p \in Procs : buf[k].locked = p => pc[p] \in Holding /\ mine[p] = k

(* ... a valid buffer is as the disk but while its holder writes it; ...   *)
Contents ==
  /\ \A k \in Bufs : buf[k].valid =>
       /\ buf[k].blockno \in Blocks
       /\ \/ buf[k].data = platter[buf[k].blockno]
          \/ \E p \in Procs : buf[k].locked = p /\ pc[p] \in Transfer /\ write[p]
  /\ \A p \in Procs : pc[p] = "have" =>
       buf[mine[p]].valid /\ buf[mine[p]].data = platter[want[p]]
  /\ \A p \in Procs : pc[p] \in Transfer => (buf[mine[p]].valid <=> write[p])

(* ... descriptors are free or in the chain of one request; ...            *)
Chains ==
  /\ \A p \in Procs : chain[p] \in IF pc[p] \in IO THEN [1 .. 3 -> Desc] ELSE {<<>>}
  /\ \A p, q \in Procs : p # q => Range(chain[p]) \cap Range(chain[q]) = {}
  /\ \A d \in Desc : d \in free <=> \A p \in Procs : d \notin Range(chain[p])

(* ... and a request is with the device, or done and to be handled, or     *)
(* handled: from the second on the buffer is as the disk.                  *)
Requests ==
  /\ IsInjective(avail) /\ IsInjective(used) /\ Range(avail) \cap Range(used) = {}
  /\ \A h \in Range(avail) \cup Range(used) :
       \E p \in Procs : pc[p] \in IO /\ chain[p][1] = h
  /\ \A p \in Procs : pc[p] \in IO =>
       /\ info[chain[p][1]] = mine[p]
       /\ buf[mine[p]].disk <=> chain[p][1] \in Range(avail) \cup Range(used)
       /\ chain[p][1] \notin Range(avail) => buf[mine[p]].data = platter[want[p]]

BioInv == BioType /\ InUse /\ OneBuffer /\ Holders /\ Contents /\ Chains /\ Requests
          /\ NoLostWakeup

-----------------------------------------------------------------------------
(* Lemmas about the invariant.                                             *)

(* Two holders have two buffers, and a block that is held is in no other.  *)
LEMMA HoldersDiffer ==
  ASSUME BioInv, NEW p \in Procs, pc[p] \in Holding
  PROVE  /\ mine[p] \in Bufs /\ want[p] \in Blocks /\ buf[mine[p]].blockno = want[p]
         /\ buf[mine[p]].locked = p
         /\ \A q \in Procs : pc[q] \in Holding /\ q # p => mine[q] # mine[p] /\ want[q] # want[p]
         /\ \A k \in Bufs : k # mine[p] => buf[k].blockno # want[p]
<1>1. /\ mine[p] \in Bufs /\ want[p] \in Blocks /\ buf[mine[p]].blockno = want[p]
      /\ buf[mine[p]].locked = p
  BY DEF BioInv, InUse, Holders, Holding, Transfer, IO
<1>2. \A k \in Bufs : k # mine[p] => buf[k].blockno # want[p]
  BY <1>1, BlockAssumption DEF BioInv, OneBuffer
<1>3. ASSUME NEW q \in Procs, pc[q] \in Holding, q # p
      PROVE  mine[q] # mine[p] /\ want[q] # want[p]
  <2>1. mine[q] \in Bufs /\ buf[mine[q]].blockno = want[q] /\ buf[mine[q]].locked = q
    BY <1>3 DEF BioInv, InUse, Holders, Holding, Transfer, IO
  <2> QED BY <1>1, <1>2, <1>3, <2>1
<1> QED BY <1>1, <1>2, <1>3

(* The buffers of the requests under way are not the one p holds.          *)
LEMMA OthersKept ==
  ASSUME BioInv, NEW p \in Procs, pc[p] \in Holding, NEW k \in Bufs, k = mine[p],
         \A j \in Bufs : j # k => buf'[j] = buf[j],
         \A q \in Procs : pc[q] \in IO => q # p /\ pc[q] \in Holding
  PROVE  \A q \in Procs : pc[q] \in IO => buf'[mine[q]] = buf[mine[q]]
<1> SUFFICES ASSUME NEW q \in Procs, pc[q] \in IO PROVE buf'[mine[q]] = buf[mine[q]]
  OBVIOUS
<1>1. q # p /\ pc[q] \in Holding
  OBVIOUS
<1>2. mine[q] \in Bufs /\ mine[q] # mine[p]
  BY <1>1, HoldersDiffer, Zenon
<1> QED BY <1>2

(* The first descriptor of a request tells it from all others.             *)
LEMMA HeadsDiffer ==
  ASSUME BioInv, NEW p \in Procs, pc[p] \in IO
  PROVE  /\ chain[p][1] \in Desc /\ chain[p][1] \in Range(chain[p]) /\ chain[p] # <<>>
         /\ \A q \in Procs : chain[q] # <<>> /\ chain[q][1] = chain[p][1] => q = p
<1>1. ASSUME NEW q \in Procs, pc[q] \in IO
      PROVE  chain[q][1] \in Desc /\ chain[q][1] \in Range(chain[q]) /\ chain[q] # <<>>
  <2>1. PICK s \in [1 .. 3 -> Desc] : s = chain[q]
    BY <1>1 DEF BioInv, Chains
  <2>2. 1 \in DOMAIN s /\ s[1] \in Desc
    OBVIOUS
  <2>3. s # <<>>
    BY <2>2
  <2> QED BY <2>1, <2>2, <2>3 DEF Range
<1>2. ASSUME NEW q \in Procs, chain[q] # <<>> PROVE pc[q] \in IO
  BY <1>2 DEF BioInv, Chains
<1>3. ASSUME NEW q \in Procs, chain[q] # <<>>, chain[q][1] = chain[p][1] PROVE q = p
  <2>1. chain[q][1] \in Range(chain[q]) /\ chain[p][1] \in Range(chain[p])
    BY <1>1, <1>2, <1>3
  <2> QED BY <1>3, <2>1 DEF BioInv, Chains
<1> QED BY <1>1, <1>3

(* What a step may change of buffers and places without disturbing who     *)
(* uses which buffer, ...                                                  *)
LEMMA UsersKept ==
  ASSUME BioInv, UNCHANGED <<mine, want>>,
         \A q \in Procs : pc'[q] = "idle" <=> pc[q] = "idle",
         \A k \in Bufs : buf'[k].blockno = buf[k].blockno /\ buf'[k].refcnt = buf[k].refcnt
  PROVE  InUse' /\ OneBuffer'
<1>1. \A k : Users(k)' = Users(k)
  BY DEF Users
<1>2. InUse'
  <2>1. ASSUME NEW p \in Procs
        PROVE  IF pc'[p] = "idle" THEN mine'[p] = 0
               ELSE mine'[p] \in Bufs /\ want'[p] \in Blocks /\ buf'[mine'[p]].blockno = want'[p]
    BY DEF BioInv, InUse
  <2>2. \A k \in Bufs : buf'[k].refcnt = Cardinality(Users(k)')
    BY <1>1 DEF BioInv, InUse
  <2> QED BY <2>1, <2>2 DEF InUse
<1>3. OneBuffer'
  BY DEF BioInv, OneBuffer
<1> QED BY <1>2, <1>3

(* ... who holds which lock, ...                                           *)
LEMMA HoldersKept ==
  ASSUME BioInv,
         \A q \in Procs : /\ pc'[q] \in Holding <=> pc[q] \in Holding
                          /\ pc[q] \in Holding => mine'[q] = mine[q],
         \A q \in Procs : pc[q] \in Holding => mine[q] \in Bufs,
         \A k \in Bufs : buf'[k].locked = buf[k].locked
  PROVE  Holders'
  BY DEF BioInv, Holders

(* ... and which descriptors are whose.                                    *)
LEMMA ChainsKept ==
  ASSUME BioInv, UNCHANGED <<chain, free, num>>,
         \A q \in Procs : pc'[q] \in IO <=> pc[q] \in IO
  PROVE  Chains'
<1>1. Desc' = Desc
  BY DEF Desc
<1> QED BY <1>1, Zenon DEF BioInv, Chains

(* A request that a step does not change.                                  *)
LEMMA RequestsKept ==
  ASSUME BioInv, UNCHANGED <<avail, used, chain>>,
         \A q \in Procs : pc'[q] \in IO <=> pc[q] \in IO,
         \A q \in Procs : pc[q] \in IO =>
           /\ mine'[q] = mine[q] /\ want'[q] = want[q]
           /\ info'[chain[q][1]] = info[chain[q][1]]
           /\ buf'[mine[q]].disk <=> buf[mine[q]].disk
           /\ buf'[mine[q]].data = buf[mine[q]].data
           /\ platter'[want[q]] = platter[want[q]]
  PROVE  Requests'
<1>1. \A h \in Range(avail) \cup Range(used) : \E q \in Procs : pc'[q] \in IO /\ chain[q][1] = h
  BY DEF BioInv, Requests
<1>2. ASSUME NEW q \in Procs, pc'[q] \in IO
      PROVE  /\ info'[chain[q][1]] = mine'[q]
             /\ buf'[mine'[q]].disk <=> chain[q][1] \in Range(avail) \cup Range(used)
             /\ chain[q][1] \notin Range(avail) => buf'[mine'[q]].data = platter'[want'[q]]
  BY <1>2 DEF BioInv, Requests
<1>3. IsInjective(avail) /\ IsInjective(used) /\ Range(avail) \cap Range(used) = {}
  BY DEF BioInv, Requests
<1> QED BY <1>1, <1>2, <1>3 DEF Requests

-----------------------------------------------------------------------------
(* bget() and brelse(): a process comes to use a buffer, or leaves it.     *)

LEMMA SetRefcnt ==
  ASSUME BioType, NEW k \in Bufs, NEW n \in Nat, buf' = [buf EXCEPT ![k].refcnt = n]
  PROVE  /\ buf' \in [Bufs -> Buf] /\ \A j \in Bufs : j # k => buf'[j] = buf[j]
         /\ buf'[k].refcnt = n /\ buf'[k].blockno = buf[k].blockno /\ buf'[k].valid = buf[k].valid
         /\ buf'[k].locked = buf[k].locked /\ buf'[k].disk = buf[k].disk /\ buf'[k].data = buf[k].data
<1>1. buf \in [Bufs -> Buf]
  BY DEF BioType
<1>2. PICK r \in Buf : r = buf[k]
  BY <1>1
<1>3. PICK s \in Buf : s = [r EXCEPT !.refcnt = n]
  BY Zenon DEF Buf
<1>4. /\ s.refcnt = n /\ s.blockno = r.blockno /\ s.valid = r.valid
      /\ s.locked = r.locked /\ s.disk = r.disk /\ s.data = r.data
  BY <1>3 DEF Buf
<1>5. buf' = [buf EXCEPT ![k] = s]
  BY <1>1, <1>2, <1>3
<1> QED BY <1>1, <1>2, <1>4, <1>5

(* A step of p on a buffer whose lock it does not hold: it comes to use    *)
(* the buffer, or leaves it.                                               *)
Apart(p) ==
  /\ pc[p] \in {"idle", "brelse"} /\ pc'[p] \in {"idle", "acquiresleep"}
  /\ \A q \in Procs : q # p => /\ pc'[q] = pc[q] /\ mine'[q] = mine[q]
                               /\ want'[q] = want[q] /\ write'[q] = write[q]
  /\ \A j \in Bufs : /\ buf'[j].locked = buf[j].locked /\ buf'[j].disk = buf[j].disk
                     /\ buf'[j].data = buf[j].data
                     /\ buf'[j].valid => buf[j].valid /\ buf'[j].blockno = buf[j].blockno
  /\ \A q \in Procs : pc[q] \in Holding => buf'[mine[q]].valid = buf[mine[q]].valid
  /\ UNCHANGED <<platter, num, free, info, avail, used, chain, irq, intr>>

(* The locks, the requests and those who sleep are not concerned.          *)
LEMMA ApartStep ==
  ASSUME BioInv, NEW p \in Procs, Apart(p)
  PROVE  Holders' /\ Contents' /\ Chains' /\ Requests' /\ NoLostWakeup'
<1>1. \A q \in Procs : /\ pc'[q] \in Holding <=> pc[q] \in Holding
                       /\ pc'[q] \in Transfer <=> pc[q] \in Transfer
                       /\ pc'[q] \in IO <=> pc[q] \in IO
                       /\ pc'[q] = "have" <=> pc[q] = "have"
                       /\ pc[q] \in Holding => q # p
  BY DEF Apart, Holding, Transfer, IO
<1>2. \A q \in Procs : /\ pc[q] \in IO => pc[q] \in Holding
                       /\ pc[q] \in Transfer => pc[q] \in Holding
                       /\ pc[q] = "have" => pc[q] \in Holding
  BY DEF Holding, Transfer
<1>3. \A q \in Procs : pc[q] \in Holding => mine[q] \in Bufs
  BY HoldersDiffer
<1>4. \A q \in Procs : pc[q] \in Holding =>
        mine'[q] = mine[q] /\ want'[q] = want[q] /\ write'[q] = write[q]
  BY <1>1 DEF Apart
<1>5. Holders'
  BY <1>1, <1>3, <1>4, HoldersKept DEF Apart
<1>6. Contents'
  <2>1. ASSUME NEW j \in Bufs, buf'[j].valid
        PROVE  /\ buf'[j].blockno \in Blocks
               /\ \/ buf'[j].data = platter'[buf'[j].blockno]
                  \/ \E q \in Procs : buf'[j].locked = q /\ pc'[q] \in Transfer /\ write'[q]
    <3>1. /\ buf[j].valid /\ buf'[j].blockno = buf[j].blockno /\ platter' = platter
          /\ buf'[j].data = buf[j].data /\ buf'[j].locked = buf[j].locked
      BY <2>1 DEF Apart
    <3>2. /\ buf[j].blockno \in Blocks
          /\ \/ buf[j].data = platter[buf[j].blockno]
             \/ \E q \in Procs : buf[j].locked = q /\ pc[q] \in Transfer /\ write[q]
      BY <3>1 DEF BioInv, Contents
    <3> QED BY <1>1, <1>2, <1>4, <3>1, <3>2
  <2>2. ASSUME NEW q \in Procs, pc[q] \in Holding
        PROVE  /\ buf'[mine'[q]].valid = buf[mine[q]].valid
               /\ buf'[mine'[q]].data = buf[mine[q]].data /\ platter'[want'[q]] = platter[want[q]]
    BY <1>3, <1>4, <2>2 DEF Apart
  <2>3. ASSUME NEW q \in Procs
        PROVE  /\ pc'[q] = "have" => buf'[mine'[q]].valid /\ buf'[mine'[q]].data = platter'[want'[q]]
               /\ pc'[q] \in Transfer => (buf'[mine'[q]].valid <=> write'[q])
    <3>1. /\ pc[q] = "have" => buf[mine[q]].valid /\ buf[mine[q]].data = platter[want[q]]
          /\ pc[q] \in Transfer => (buf[mine[q]].valid <=> write[q])
      BY DEF BioInv, Contents
    <3> QED BY <1>1, <1>2, <1>4, <2>2, <3>1
  <2> QED BY <2>1, <2>3 DEF Contents
<1>7. Chains'
  <2>1. UNCHANGED <<chain, free, num>>
    BY DEF Apart
  <2> QED BY <1>1, <2>1, ChainsKept
<1>8. Requests'
  <2>1. \A q \in Procs : pc[q] \in IO =>
          /\ mine'[q] = mine[q] /\ want'[q] = want[q] /\ mine[q] \in Bufs
          /\ buf'[mine[q]].disk = buf[mine[q]].disk /\ buf'[mine[q]].data = buf[mine[q]].data
    BY <1>2, <1>3, <1>4 DEF Apart
  <2>2. UNCHANGED <<platter, info, avail, used, chain>>
    BY DEF Apart
  <2> QED BY <1>1, <2>1, <2>2, RequestsKept
<1>9. NoLostWakeup'
  <2>1. ASSUME NEW q \in Procs
        PROVE  /\ pc'[q] = "sleep_desc" => \E u \in Procs : chain'[u] # <<>> \/ pc'[u] = "rw"
               /\ pc'[q] = "sleep_lock" => buf'[mine'[q]].locked # Nobody
               /\ pc'[q] = "sleep_io" => buf'[mine'[q]].disk
    <3>1. CASE q = p
      BY <3>1 DEF Apart
    <3>2. CASE q # p
      <4>1. pc'[q] = pc[q] /\ mine'[q] = mine[q]
        BY <3>2 DEF Apart
      <4>2. /\ pc[q] = "sleep_lock" => buf[mine[q]].locked # Nobody /\ mine[q] \in Bufs
            /\ pc[q] = "sleep_io" => buf[mine[q]].disk /\ mine[q] \in Bufs
            /\ pc[q] = "sleep_desc" => \E u \in Procs : chain[u] # <<>> \/ pc[u] = "rw"
        BY DEF BioInv, NoLostWakeup, Locked, InUse
      <4>3. \A u \in Procs : chain'[u] = chain[u] /\ (pc[u] = "rw" => pc'[u] = "rw")
        BY DEF Apart
      <4> QED BY <4>1, <4>2, <4>3 DEF Apart
    <3> QED BY <3>1, <3>2
  <2>2. used' # <<>> => irq' \/ intr' = "loop"
    BY DEF Apart, BioInv, NoLostWakeup
  <2> QED BY <2>1, <2>2 DEF NoLostWakeup, Locked
<1> QED BY <1>5, <1>6, <1>7, <1>8, <1>9

(* p joins the processes that use the buffer k, or leaves them.            *)
Joined(k) ==
  /\ Cardinality(Users(k)') = Cardinality(Users(k)) + 1
  /\ \A j \in Bufs : j # k => Users(j)' = Users(j)
  /\ Cardinality(Users(k)) = 0 => Users(k) = {}

Left(k) ==
  /\ Cardinality(Users(k)') = Cardinality(Users(k)) - 1
  /\ Cardinality(Users(k)) \in Nat \ {0}
  /\ \A j \in Bufs : j # k => Users(j)' = Users(j)

(* bget() gives p the buffer k: it has the block, or nobody uses it and no *)
(* buffer has the block.                                                   *)
Gets(p, b, k) ==
  /\ pc[p] = "idle" /\ mine' = [mine EXCEPT ![p] = k] /\ want' = [want EXCEPT ![p] = b]
  /\ pc' = [pc EXCEPT ![p] = "acquiresleep"]
  /\ UNCHANGED <<platter, lru, num, free, info, avail, used, irq, intr, write, chain>>
  /\ buf' \in [Bufs -> Buf] /\ \A j \in Bufs : j # k => buf'[j] = buf[j]
  /\ buf'[k].locked = buf[k].locked /\ buf'[k].disk = buf[k].disk
  /\ buf'[k].data = buf[k].data /\ buf'[k].refcnt = buf[k].refcnt + 1
  /\ buf'[k].blockno = b
  /\ \/ buf[k].blockno = b /\ buf'[k].valid = buf[k].valid
     \/ /\ buf[k].refcnt = 0 /\ buf'[k].valid = FALSE
        /\ \A j \in Bufs : buf[j].blockno # b

LEMMA GetStep ==
  ASSUME BioInv, NEW p \in Procs, NEW b \in Blocks, NEW k \in Bufs, Joined(k), Gets(p, b, k)
  PROVE  BioInv'
<1>1. /\ mine[p] = 0 /\ mine'[p] = k /\ want'[p] = b /\ pc'[p] = "acquiresleep"
      /\ \A q \in Procs : q # p => mine'[q] = mine[q] /\ want'[q] = want[q] /\ pc'[q] = pc[q]
  BY DEF Gets, BioInv, BioType, InUse
<1>2. buf[k].blockno = b \/ \A q \in Procs : mine[q] # k
  <2>1. buf[k].refcnt = 0 => Users(k) = {}
    BY DEF Joined, BioInv, InUse
  <2> QED BY <2>1 DEF Gets, Users
<1>3. BioType'
  BY <1>1 DEF Gets, BioInv, BioType, Bufs, Desc, Labels
<1>4. InUse'
  <2>1. ASSUME NEW q \in Procs
        PROVE  IF pc'[q] = "idle" THEN mine'[q] = 0
               ELSE mine'[q] \in Bufs /\ want'[q] \in Blocks /\ buf'[mine'[q]].blockno = want'[q]
    <3>1. CASE q = p
      BY <1>1, <3>1 DEF Gets
    <3>2. CASE q # p
      <4>1. IF pc[q] = "idle" THEN mine[q] = 0
            ELSE mine[q] \in Bufs /\ want[q] \in Blocks /\ buf[mine[q]].blockno = want[q]
        BY DEF BioInv, InUse
      <4>2. \A j \in Bufs : (j = k => buf[k].blockno = b) => buf'[j].blockno = buf[j].blockno
        BY DEF Gets
      <4>3. mine[q] = k => buf[k].blockno = b
        BY <1>2
      <4> QED BY <1>1, <3>2, <4>1, <4>2, <4>3
    <3> QED BY <3>1, <3>2
  <2>2. ASSUME NEW j \in Bufs PROVE buf'[j].refcnt = Cardinality(Users(j)')
    <3>1. buf[j].refcnt = Cardinality(Users(j))
      BY DEF BioInv, InUse
    <3> QED BY <3>1 DEF Gets, Joined
  <2> QED BY <2>1, <2>2 DEF InUse
<1>5. OneBuffer'
  BY DEF Gets, BioInv, OneBuffer
<1>6. Apart(p)
  <2>1. \A j \in Bufs : /\ buf'[j].locked = buf[j].locked /\ buf'[j].disk = buf[j].disk
                        /\ buf'[j].data = buf[j].data
                        /\ buf'[j].valid => buf[j].valid /\ buf'[j].blockno = buf[j].blockno
    BY DEF Gets
  <2>2. \A q \in Procs : pc[q] \in Holding => buf'[mine[q]].valid = buf[mine[q]].valid
    <3>1. \A q \in Procs : pc[q] \in Holding => mine[q] \in Bufs
      BY HoldersDiffer
    <3>2. \A j \in Bufs : (j = k => buf[k].blockno = b) => buf'[j].valid = buf[j].valid
      BY DEF Gets
    <3> QED BY <1>2, <3>1, <3>2
  <2>3. /\ UNCHANGED <<platter, num, free, info, avail, used, chain, irq, intr, write>>
        /\ pc[p] = "idle"
    BY DEF Gets
  <2> QED BY <1>1, <2>1, <2>2, <2>3, Zenon DEF Apart
<1> QED BY <1>3, <1>4, <1>5, <1>6, ApartStep DEF BioInv

(* bget(): a buffer that has the block, one to recycle, or a panic.        *)
LEMMA BgetStep ==
  ASSUME BioInv, NEW p \in Procs, NEW b \in Blocks, bget(p, b),
         \A k \in Bufs : mine' = [mine EXCEPT ![p] = k] => Joined(k),
         Unused # {} => Victim \in Bufs /\ buf[Victim].refcnt = 0
  PROVE  BioInv'
<1>1. /\ pc[p] = "idle" /\ want' = [want EXCEPT ![p] = b]
      /\ UNCHANGED <<platter, lru, num, free, info, avail, used, irq, intr, write, chain>>
  BY DEF bget, At, queue
<1>2. buf \in [Bufs -> Buf] /\ mine[p] = 0
  BY <1>1 DEF BioInv, BioType, InUse
<1>3. ASSUME NEW k \in Bufs, buf[k].blockno = b, buf' = [buf EXCEPT ![k].refcnt = @ + 1], Take(p, k)
      PROVE  BioInv'
  <2>1. PICK n \in Nat : n = buf[k].refcnt + 1
    BY <1>2 DEF Buf
  <2>2. buf' = [buf EXCEPT ![k].refcnt = n]
    BY <1>2, <1>3, <2>1
  <2>3. /\ buf' \in [Bufs -> Buf] /\ \A j \in Bufs : j # k => buf'[j] = buf[j]
        /\ buf'[k].locked = buf[k].locked /\ buf'[k].disk = buf[k].disk
        /\ buf'[k].data = buf[k].data /\ buf'[k].refcnt = buf[k].refcnt + 1
        /\ buf'[k].blockno = b /\ buf'[k].valid = buf[k].valid
    BY <1>3, <2>1, <2>2, SetRefcnt, Zenon DEF BioInv
  <2>4. mine' = [mine EXCEPT ![p] = k] /\ pc' = [pc EXCEPT ![p] = "acquiresleep"]
    BY <1>3 DEF Take, Goto
  <2>5. Joined(k)
    BY <2>4, Zenon
  <2>6. Gets(p, b, k)
    BY <1>1, <1>3, <2>3, <2>4 DEF Gets
  <2> QED BY <2>5, <2>6, GetStep
<1>4. ASSUME NEW k \in Bufs, buf[k].refcnt = 0, Cached(b) = {}, Take(p, k),
             buf' = [buf EXCEPT ![k].blockno = b, ![k].valid = FALSE, ![k].refcnt = 1]
      PROVE  BioInv'
  <2>1. /\ \A j \in Bufs : j # k => buf'[j] = buf[j]
        /\ buf'[k] = [buf[k] EXCEPT !.blockno = b, !.valid = FALSE, !.refcnt = 1]
    BY <1>2, <1>4
  <2>2. PICK r \in Buf : r = buf[k]
    BY <1>2
  <2>3. PICK s \in Buf : s = [r EXCEPT !.blockno = b, !.valid = FALSE, !.refcnt = 1]
    BY Zenon DEF Buf
  <2>4. /\ s.locked = r.locked /\ s.disk = r.disk /\ s.data = r.data /\ s.refcnt = 1
        /\ s.blockno = b /\ s.valid = FALSE
    BY <2>3 DEF Buf
  <2>5. buf' \in [Bufs -> Buf]
    BY <1>2, <2>1, <2>2, <2>3, <1>4
  <2>6. \A j \in Bufs : buf[j].blockno # b
    BY <1>4 DEF Cached
  <2>7. mine' = [mine EXCEPT ![p] = k] /\ pc' = [pc EXCEPT ![p] = "acquiresleep"]
    BY <1>4 DEF Take, Goto
  <2>8. /\ buf'[k].locked = buf[k].locked /\ buf'[k].disk = buf[k].disk
        /\ buf'[k].data = buf[k].data /\ buf'[k].refcnt = buf[k].refcnt + 1
        /\ buf'[k].blockno = b /\ buf'[k].valid = FALSE
    <3>1. buf[k].refcnt = 0 /\ buf'[k] = s
      BY <1>4, <2>1, <2>2, <2>3
    <3> QED BY <2>2, <2>4, <3>1
  <2>9. Joined(k)
    BY <2>7, Zenon
  <2>10. Gets(p, b, k)
    BY <1>1, <1>4, <2>1, <2>5, <2>6, <2>7, <2>8, Zenon DEF Gets
  <2> QED BY <2>9, <2>10, GetStep
<1>5. CASE UNCHANGED <<buf, mine, pc>>
  <2>1. \A q \in Procs : pc[q] # "idle" => want'[q] = want[q]
    BY <1>1 DEF BioInv, BioType
  <2>2. BioType'
    BY <1>1, <1>5 DEF BioInv, BioType, Desc
  <2>3. InUse' /\ OneBuffer'
    <3>1. \A k : Users(k)' = Users(k)
      BY <1>5 DEF Users
    <3>2. InUse'
      BY <1>5, <2>1, <3>1 DEF BioInv, InUse
    <3> QED BY <1>5, <3>2 DEF BioInv, OneBuffer
  <2>4. Apart(p)
    <3>1. want'[p] = b /\ \A q \in Procs : q # p => want'[q] = want[q]
      BY <1>1 DEF BioInv, BioType
    <3> QED BY <1>1, <1>5, <3>1, Zenon DEF Apart
  <2> QED BY <2>2, <2>3, <2>4, ApartStep DEF BioInv
<1>6. CASE \E k \in Cached(b) : buf' = Referenced(k) /\ Take(p, k)
  BY <1>3, <1>6, Zenon DEF Cached, Referenced
<1>7. CASE /\ Cached(b) = {} /\ Unused # {} /\ Take(p, Victim)
           /\ buf' = [buf EXCEPT ![Victim].blockno = b, ![Victim].valid = FALSE,
                                 ![Victim].refcnt = 1]
  <2>1. PICK k \in Bufs : k = Victim /\ buf[k].refcnt = 0
    BY <1>7
  <2> QED BY <1>4, <1>7, <2>1, Zenon
<1> QED BY <1>5, <1>6, <1>7 DEF bget

(* brelse(): p gives its buffer back.                                      *)
LEMMA BrelseStep ==
  ASSUME BioInv, NEW p \in Procs, brelse(p),
         NEW k \in Bufs, k = mine[p], Left(k)
  PROVE  BioInv'
<1>1. k = mine[p]
  OBVIOUS
<1>2. /\ pc[p] = "brelse" /\ pc' = [pc EXCEPT ![p] = "idle"]
      /\ buf' = [buf EXCEPT ![k].refcnt = @ - 1]
      /\ lru' = (IF buf[k].refcnt = 1 THEN MovedFirst(k) ELSE lru)
      /\ mine' = [mine EXCEPT ![p] = 0] /\ want' = [want EXCEPT ![p] = NoBlock]
      /\ write' = [write EXCEPT ![p] = FALSE]
      /\ UNCHANGED <<platter, num, free, info, avail, used, chain, irq, intr>>
  BY <1>1 DEF brelse, At, Goto, queue
<1>3. /\ Cardinality(Users(k)') = Cardinality(Users(k)) - 1
      /\ Cardinality(Users(k)) \in Nat \ {0}
      /\ \A j \in Bufs : j # k => Users(j)' = Users(j)
  BY DEF Left
<1>4. /\ pc'[p] = "idle" /\ mine'[p] = 0
      /\ \A q \in Procs : q # p => /\ pc'[q] = pc[q] /\ mine'[q] = mine[q]
                                   /\ want'[q] = want[q] /\ write'[q] = write[q]
  BY <1>2 DEF BioInv, BioType
<1>5. buf[k].refcnt = Cardinality(Users(k))
  BY DEF BioInv, InUse
<1>6. /\ \A j \in Bufs : j # k => buf'[j] = buf[j]
      /\ buf' \in [Bufs -> Buf] /\ buf'[k].refcnt = buf[k].refcnt - 1
      /\ \A j \in Bufs : /\ buf'[j].locked = buf[j].locked /\ buf'[j].blockno = buf[j].blockno
                         /\ buf'[j].valid = buf[j].valid /\ buf'[j].disk = buf[j].disk
                         /\ buf'[j].data = buf[j].data
  <2>1. PICK n \in Nat : n = buf[k].refcnt - 1
    BY <1>3, <1>5
  <2>2. buf' = [buf EXCEPT ![k].refcnt = n]
    BY <1>2, <2>1 DEF BioInv, BioType
  <2>3. BioType
    BY DEF BioInv
  <2>4. /\ buf' \in [Bufs -> Buf] /\ \A j \in Bufs : j # k => buf'[j] = buf[j]
        /\ buf'[k].refcnt = n /\ buf'[k].blockno = buf[k].blockno /\ buf'[k].valid = buf[k].valid
        /\ buf'[k].locked = buf[k].locked /\ buf'[k].disk = buf[k].disk
        /\ buf'[k].data = buf[k].data
    BY <2>2, <2>3, SetRefcnt, Zenon
  <2> QED BY <2>1, <2>4
<1>7. BioType'
  <2>1. lru' \in [Bufs -> Bufs]
    <3>1. lru \in [Bufs -> Bufs]
      BY DEF BioInv, BioType
    <3>2. \A i \in Bufs : i = 1 \/ i - 1 \in Bufs
      BY BlockAssumption DEF Bufs
    <3>3. MovedFirst(k) \in [Bufs -> Bufs]
      BY <3>1, <3>2 DEF MovedFirst
    <3> QED BY <1>2, <3>1, <3>3
  <2>2. /\ pc' \in [Procs -> Labels] /\ write' \in [Procs -> BOOLEAN]
        /\ want' \in [Procs -> Blocks \cup {NoBlock}]
    BY <1>2 DEF BioInv, BioType, Labels
  <2>3. mine' \in [Procs -> 0 .. NBUF]
    BY <1>2, BlockAssumption DEF BioInv, BioType
  <2> QED BY <1>2, <1>6, <2>1, <2>2, <2>3 DEF BioInv, BioType, Desc
<1>8. InUse'
  <2>1. ASSUME NEW q \in Procs
        PROVE  IF pc'[q] = "idle" THEN mine'[q] = 0
               ELSE mine'[q] \in Bufs /\ want'[q] \in Blocks /\ buf'[mine'[q]].blockno = want'[q]
    BY <1>4, <1>6 DEF BioInv, InUse
  <2>2. ASSUME NEW j \in Bufs PROVE buf'[j].refcnt = Cardinality(Users(j)')
    BY <1>3, <1>5, <1>6, Zenon DEF BioInv, InUse
  <2> QED BY <2>1, <2>2 DEF InUse
<1>9. OneBuffer'
  BY <1>6 DEF BioInv, OneBuffer
<1>10. Apart(p)
  <2>1. \A q \in Procs : pc[q] \in Holding => mine[q] \in Bufs
    BY HoldersDiffer
  <2>2. /\ UNCHANGED <<platter, num, free, info, avail, used, chain, irq, intr>>
        /\ pc[p] = "brelse" /\ pc'[p] = "idle"
    BY <1>2, <1>4
  <2> QED BY <1>4, <1>6, <2>1, <2>2, Zenon DEF Apart
<1> QED BY <1>7, <1>8, <1>9, <1>10, ApartStep DEF BioInv

-----------------------------------------------------------------------------
(* The holder of a buffer changes it.                                      *)

(* Assignments to the fields of a buffer.                                  *)
LEMMA SetLocked ==
  ASSUME BioType, NEW k \in Bufs, NEW l \in Procs \cup {Nobody}, buf' = [buf EXCEPT ![k].locked = l]
  PROVE  /\ buf' \in [Bufs -> Buf] /\ \A j \in Bufs : j # k => buf'[j] = buf[j]
         /\ buf'[k].locked = l /\ buf'[k].blockno = buf[k].blockno /\ buf'[k].valid = buf[k].valid
         /\ buf'[k].refcnt = buf[k].refcnt /\ buf'[k].disk = buf[k].disk /\ buf'[k].data = buf[k].data
<1>1. buf \in [Bufs -> Buf]
  BY DEF BioType
<1>2. PICK r \in Buf : r = buf[k]
  BY <1>1
<1>3. PICK s \in Buf : s = [r EXCEPT !.locked = l]
  BY Zenon DEF Buf
<1>4. /\ s.locked = l /\ s.blockno = r.blockno /\ s.valid = r.valid
      /\ s.refcnt = r.refcnt /\ s.disk = r.disk /\ s.data = r.data
  BY <1>3 DEF Buf
<1>5. buf' = [buf EXCEPT ![k] = s]
  BY <1>1, <1>2, <1>3
<1> QED BY <1>1, <1>2, <1>4, <1>5

LEMMA SetData ==
  ASSUME BioType, NEW k \in Bufs, NEW v \in Vals, buf' = [buf EXCEPT ![k].data = v]
  PROVE  /\ buf' \in [Bufs -> Buf] /\ \A j \in Bufs : j # k => buf'[j] = buf[j]
         /\ buf'[k].data = v /\ buf'[k].blockno = buf[k].blockno /\ buf'[k].valid = buf[k].valid
         /\ buf'[k].refcnt = buf[k].refcnt /\ buf'[k].locked = buf[k].locked /\ buf'[k].disk = buf[k].disk
<1>1. buf \in [Bufs -> Buf]
  BY DEF BioType
<1>2. PICK r \in Buf : r = buf[k]
  BY <1>1
<1>3. PICK s \in Buf : s = [r EXCEPT !.data = v]
  BY Zenon DEF Buf
<1>4. /\ s.data = v /\ s.blockno = r.blockno /\ s.valid = r.valid
      /\ s.refcnt = r.refcnt /\ s.locked = r.locked /\ s.disk = r.disk
  BY <1>3 DEF Buf
<1>5. buf' = [buf EXCEPT ![k] = s]
  BY <1>1, <1>2, <1>3
<1> QED BY <1>1, <1>2, <1>4, <1>5

LEMMA SetDisk ==
  ASSUME BioType, NEW k \in Bufs, NEW d \in BOOLEAN, buf' = [buf EXCEPT ![k].disk = d]
  PROVE  /\ buf' \in [Bufs -> Buf] /\ \A j \in Bufs : j # k => buf'[j] = buf[j]
         /\ buf'[k].disk = d /\ buf'[k].blockno = buf[k].blockno /\ buf'[k].valid = buf[k].valid
         /\ buf'[k].refcnt = buf[k].refcnt /\ buf'[k].locked = buf[k].locked /\ buf'[k].data = buf[k].data
<1>1. buf \in [Bufs -> Buf]
  BY DEF BioType
<1>2. PICK r \in Buf : r = buf[k]
  BY <1>1
<1>3. PICK s \in Buf : s = [r EXCEPT !.disk = d]
  BY Zenon DEF Buf
<1>4. /\ s.disk = d /\ s.blockno = r.blockno /\ s.valid = r.valid
      /\ s.refcnt = r.refcnt /\ s.locked = r.locked /\ s.data = r.data
  BY <1>3 DEF Buf
<1>5. buf' = [buf EXCEPT ![k] = s]
  BY <1>1, <1>2, <1>3
<1> QED BY <1>1, <1>2, <1>4, <1>5

LEMMA SetValid ==
  ASSUME BioType, NEW k \in Bufs, buf' = [buf EXCEPT ![k].valid = TRUE]
  PROVE  /\ buf' \in [Bufs -> Buf] /\ \A j \in Bufs : j # k => buf'[j] = buf[j]
         /\ buf'[k].valid = TRUE /\ buf'[k].blockno = buf[k].blockno /\ buf'[k].refcnt = buf[k].refcnt
         /\ buf'[k].locked = buf[k].locked /\ buf'[k].disk = buf[k].disk /\ buf'[k].data = buf[k].data
<1>1. buf \in [Bufs -> Buf]
  BY DEF BioType
<1>2. PICK r \in Buf : r = buf[k]
  BY <1>1
<1>3. PICK s \in Buf : s = [r EXCEPT !.valid = TRUE]
  BY Zenon DEF Buf
<1>4. /\ s.valid = TRUE /\ s.blockno = r.blockno /\ s.refcnt = r.refcnt
      /\ s.locked = r.locked /\ s.disk = r.disk /\ s.data = r.data
  BY <1>3 DEF Buf
<1>5. buf' = [buf EXCEPT ![k] = s]
  BY <1>1, <1>2, <1>3
<1> QED BY <1>1, <1>2, <1>4, <1>5, Zenon

(* A step that only moves processes, each within what it is doing.         *)
Stays(q) ==
  /\ pc'[q] \in Labels
  /\ pc'[q] = "idle" <=> pc[q] = "idle"
  /\ pc'[q] = "have" <=> pc[q] = "have"
  /\ pc'[q] \in IO <=> pc[q] \in IO
  /\ pc'[q] \in Transfer <=> pc[q] \in Transfer

LEMMA Stages ==
  ASSUME NEW q \in Procs, Stays(q)
  PROVE  pc'[q] \in Holding <=> pc[q] \in Holding
  BY DEF Stays, Holding

Fixed == UNCHANGED <<platter, buf, lru, num, free, info, avail, used, want, mine, write, chain>>

LEMMA MoveStep ==
  ASSUME BioInv, pc' \in [Procs -> Labels], \A q \in Procs : Stays(q), NoLostWakeup', Fixed
  PROVE  BioInv'
<1>1. BioType'
  BY DEF Fixed, BioInv, BioType, Desc
<1>2. \A q \in Procs : /\ pc'[q] = "idle" <=> pc[q] = "idle"
                       /\ pc'[q] = "have" <=> pc[q] = "have"
                       /\ pc'[q] \in IO <=> pc[q] \in IO
                       /\ pc'[q] \in Transfer <=> pc[q] \in Transfer
                       /\ pc'[q] \in Holding <=> pc[q] \in Holding
  BY Stages DEF Stays
<1>3. InUse' /\ OneBuffer'
  BY <1>2, UsersKept DEF Fixed
<1>4. Holders'
  BY <1>2 DEF Fixed, BioInv, Holders
<1>5. Contents'
  BY <1>2 DEF Fixed, BioInv, Contents
<1>6. Chains'
  BY <1>2, ChainsKept DEF Fixed
<1>7. Requests'
  BY <1>2, RequestsKept DEF Fixed
<1> QED BY <1>1, <1>3, <1>4, <1>5, <1>6, <1>7 DEF BioInv

(* A step of p on its buffer k, which no other process holds: what the     *)
(* other processes have stays as it is.                                    *)
Own(p, k) ==
  /\ mine[p] = k /\ pc'[p] # "idle" /\ (pc[p] \in Holding \/ buf[k].locked = Nobody)
  /\ \A q \in Procs : q # p => Stays(q) /\ write'[q] = write[q]
  /\ \A b \in Blocks : b # want[p] => platter'[b] = platter[b]
  /\ \A j \in Bufs : j # k => buf'[j] = buf[j]
  /\ buf'[k].blockno = buf[k].blockno /\ buf'[k].refcnt = buf[k].refcnt
  /\ buf'[k].locked = IF pc'[p] \in Holding THEN p ELSE Nobody
  /\ pc'[p] = "have" => buf'[k].valid
  /\ pc'[p] \in Transfer => (buf'[k].valid <=> write'[p])
  /\ buf'[k].valid /\ pc'[p] \notin Transfer => buf'[k].data = platter'[want[p]]
  /\ UNCHANGED <<mine, want>>

LEMMA HeldStep ==
  ASSUME BioInv, NEW p \in Procs, NEW k \in Bufs, Own(p, k)
  PROVE  InUse' /\ OneBuffer' /\ Holders' /\ Contents'
<1>1. /\ mine[p] = k /\ pc'[p] # "idle" /\ (pc[p] \in Holding \/ buf[k].locked = Nobody)
      /\ UNCHANGED <<mine, want>>
  BY DEF Own
<1>2. /\ pc[p] # "idle" /\ want[p] \in Blocks /\ buf[k].blockno = want[p]
      /\ Nobody \notin Procs /\ 0 \notin Bufs /\ NoBlock \notin Blocks
  <2>1. pc[p] # "idle" /\ want[p] \in Blocks /\ buf[k].blockno = want[p]
    <3>1. 0 \notin Bufs
      BY DEF Bufs
    <3> QED BY <1>1, <3>1 DEF BioInv, InUse
  <2>2. Nobody \notin Procs /\ 0 \notin Bufs /\ NoBlock \notin Blocks
    BY BlockAssumption DEF Bufs
  <2> QED BY <2>1, <2>2
<1>3. \A q \in Procs : q # p => /\ pc'[q] = "have" <=> pc[q] = "have"
                                /\ pc'[q] \in Transfer <=> pc[q] \in Transfer
                                /\ pc'[q] \in Holding <=> pc[q] \in Holding
                                /\ pc'[q] = "idle" <=> pc[q] = "idle"
                                /\ write'[q] = write[q]
  BY DEF Own, Stays, Holding
<1>4. /\ \A j \in Bufs : j # k => buf'[j] = buf[j]
      /\ buf'[k].blockno = buf[k].blockno /\ buf'[k].refcnt = buf[k].refcnt
  BY DEF Own
<1>5. buf'[k].locked = IF pc'[p] \in Holding THEN p ELSE Nobody
  BY DEF Own
<1>6. \A b \in Blocks : b # want[p] => platter'[b] = platter[b]
  BY DEF Own
<1>7. /\ pc'[p] = "have" => buf'[k].valid
      /\ pc'[p] \in Transfer => (buf'[k].valid <=> write'[p])
      /\ buf'[k].valid /\ pc'[p] \notin Transfer => buf'[k].data = platter'[want[p]]
  BY DEF Own
<1>8. InUse' /\ OneBuffer'
  <2>1. \A q \in Procs : pc'[q] = "idle" <=> pc[q] = "idle"
    BY <1>1, <1>2, <1>3
  <2>2. \A j \in Bufs : buf'[j].blockno = buf[j].blockno /\ buf'[j].refcnt = buf[j].refcnt
    BY <1>4
  <2> QED BY <1>1, <2>1, <2>2, UsersKept
<1>9. \A q \in Procs : q # p /\ pc[q] \in Holding =>
        /\ mine[q] \in Bufs /\ mine[q] # k /\ buf'[mine[q]] = buf[mine[q]]
        /\ want[q] \in Blocks /\ want[q] # want[p]
  <2>1. ASSUME NEW q \in Procs, q # p, pc[q] \in Holding
        PROVE  mine[q] \in Bufs /\ mine[q] # k /\ want[q] \in Blocks /\ buf[mine[q]].blockno = want[q]
    <3>1. mine[q] \in Bufs /\ want[q] \in Blocks /\ buf[mine[q]].blockno = want[q] /\ buf[mine[q]].locked = q
      BY <2>1, HoldersDiffer
    <3>2. pc[p] \in Holding => mine[q] # k
      BY <1>1, <2>1, HoldersDiffer
    <3> QED BY <1>1, <1>2, <3>1, <3>2
  <2>2. \A j \in Bufs : j # k => buf[j].blockno # want[p]
    BY <1>2 DEF BioInv, OneBuffer
  <2> QED BY <1>4, <2>1, <2>2
<1>10. Holders'
  <2>1. ASSUME NEW q \in Procs, pc'[q] \in Holding PROVE buf'[mine[q]].locked = q
    <3>1. q # p => buf[mine[q]].locked = q
      BY <1>3, <2>1 DEF BioInv, Holders
    <3> QED BY <1>1, <1>3, <1>5, <1>9, <2>1, <3>1
  <2>2. ASSUME NEW j \in Bufs, NEW q \in Procs, buf'[j].locked = q
        PROVE  pc'[q] \in Holding /\ mine[q] = j
    <3>1. CASE j = k
      BY <1>1, <1>2, <1>5, <2>2, <3>1
    <3>2. CASE j # k
      <4>1. pc[q] \in Holding /\ mine[q] = j
        BY <1>4, <2>2, <3>2 DEF BioInv, Holders
      <4> QED BY <1>1, <1>3, <3>2, <4>1
    <3> QED BY <3>1, <3>2
  <2> QED BY <1>1, <2>1, <2>2 DEF Holders
<1>11. ASSUME NEW j \in Bufs, buf'[j].valid
      PROVE  /\ buf'[j].blockno \in Blocks
             /\ \/ buf'[j].data = platter'[buf'[j].blockno]
                \/ \E q \in Procs : buf'[j].locked = q /\ pc'[q] \in Transfer /\ write'[q]
  <2>1. CASE j = k
    <3>1. pc'[p] \in Transfer => pc'[p] \in Holding
      BY DEF Holding
    <3> QED BY <1>2, <1>4, <1>5, <1>7, <1>11, <2>1, <3>1
  <2>2. CASE j # k
    <3>1. buf[j].valid /\ buf'[j] = buf[j]
      BY <1>4, <1>11, <2>2
    <3>2. /\ buf[j].blockno \in Blocks
          /\ \/ buf[j].data = platter[buf[j].blockno]
             \/ \E q \in Procs : buf[j].locked = q /\ pc[q] \in Transfer /\ write[q]
      BY <3>1 DEF BioInv, Contents
    <3>3. buf[j].blockno # want[p]
      BY <1>2, <2>2 DEF BioInv, OneBuffer
    <3>4. buf[j].locked # p
      BY <1>1, <2>2 DEF BioInv, Holders
    <3>5. CASE buf[j].data = platter[buf[j].blockno]
      BY <1>6, <3>1, <3>2, <3>3, <3>5
    <3>6. CASE \E q \in Procs : buf[j].locked = q /\ pc[q] \in Transfer /\ write[q]
      BY <1>3, <3>1, <3>2, <3>4, <3>6
    <3> QED BY <3>2, <3>5, <3>6
  <2> QED BY <2>1, <2>2
<1>12. ASSUME NEW q \in Procs
      PROVE  /\ pc'[q] = "have" => buf'[mine[q]].valid /\ buf'[mine[q]].data = platter'[want[q]]
             /\ pc'[q] \in Transfer => (buf'[mine[q]].valid <=> write'[q])
  <2>1. CASE q = p
    <3>1. pc'[p] = "have" => pc'[p] \notin Transfer
      BY DEF Transfer, IO
    <3> QED BY <1>1, <1>7, <2>1, <3>1
  <2>2. CASE q # p
    <3>1. /\ pc[q] = "have" => buf[mine[q]].valid /\ buf[mine[q]].data = platter[want[q]]
          /\ pc[q] \in Transfer => (buf[mine[q]].valid <=> write[q])
      BY DEF BioInv, Contents
    <3>2. pc[q] = "have" \/ pc[q] \in Transfer => pc[q] \in Holding
      BY DEF Holding
    <3> QED BY <1>3, <1>6, <1>9, <2>2, <3>1, <3>2
  <2> QED BY <2>1, <2>2
<1>13. Contents'
  BY <1>1, <1>11, <1>12, Zenon DEF Contents
<1> QED BY <1>8, <1>10, <1>13

(* Whoever sleeps after such a step is still owed a wakeup.                *)
Awaited(k) ==
  /\ \A j \in Bufs : j # k => buf'[j] = buf[j]
  /\ \A q \in Procs :
       /\ pc'[q] = "sleep_lock" =>
            pc[q] = "sleep_lock" /\ (mine[q] = k => buf'[k].locked # Nobody)
       /\ pc'[q] = "sleep_io" => pc[q] = "sleep_io" /\ (mine[q] = k => buf'[k].disk)
       /\ pc'[q] = "sleep_desc" => \E u \in Procs : chain'[u] # <<>> \/ pc'[u] = "rw"
  /\ used' # <<>> => irq' \/ intr' = "loop"
  /\ UNCHANGED mine

LEMMA Wakeups ==
  ASSUME BioInv, NEW k \in Bufs, Awaited(k)
  PROVE  NoLostWakeup'
<1>1. ASSUME NEW q \in Procs
      PROVE  /\ pc'[q] = "sleep_lock" => buf'[mine[q]].locked # Nobody
             /\ pc'[q] = "sleep_io" => buf'[mine[q]].disk
  <2>1. pc[q] # "idle" => mine[q] \in Bufs
    BY DEF BioInv, InUse
  <2>2. /\ pc[q] = "sleep_lock" => buf[mine[q]].locked # Nobody
        /\ pc[q] = "sleep_io" => buf[mine[q]].disk
    BY DEF BioInv, NoLostWakeup, Locked
  <2> QED BY <2>1, <2>2 DEF Awaited
<1>2. /\ \A q \in Procs : pc'[q] = "sleep_desc" => \E u \in Procs : chain'[u] # <<>> \/ pc'[u] = "rw"
      /\ used' # <<>> => irq' \/ intr' = "loop"
      /\ mine' = mine
  BY DEF Awaited
<1> QED BY <1>1, <1>2 DEF NoLostWakeup, Locked

-----------------------------------------------------------------------------
(* The steps of the locks, and those that only move a process.             *)

(* Nothing that the invariant is about changes, or only the interrupt.     *)
LEMMA IntrStep ==
  ASSUME BioInv, IntrAck \/ IntrLeave \/ IntrReturn \/ UNCHANGED vars
  PROVE  BioInv'
<1>1. Fixed /\ UNCHANGED pc
  BY DEF Fixed, IntrAck, IntrLeave, IntrReturn, vars, cache, queue, proc
<1>2. pc' \in [Procs -> Labels] /\ \A q \in Procs : Stays(q)
  BY <1>1 DEF BioInv, BioType, Stays
<1>3. used' # <<>> => irq' \/ intr' = "loop"
  BY DEF IntrAck, IntrLeave, IntrReturn, vars, queue, BioInv, NoLostWakeup
<1>4. NoLostWakeup'
  BY <1>1, <1>3, Zenon DEF Fixed, BioInv, NoLostWakeup, Locked
<1> QED BY <1>1, <1>2, <1>4, MoveStep

(* virtio_disk_rw() sleeps until its buffer is done.                       *)
LEMMA SleepIOStep ==
  ASSUME BioInv, NEW p \in Procs, SleepIO(p)
  PROVE  BioInv'
<1>1. /\ pc[p] = "wait_io" /\ pc' = [pc EXCEPT ![p] = "sleep_io"] /\ buf[mine[p]].disk
      /\ Fixed /\ UNCHANGED <<irq, intr>>
  BY DEF Fixed, SleepIO, At, Goto, cache, queue
<1>2. pc' \in [Procs -> Labels] /\ \A q \in Procs : Stays(q)
  BY <1>1 DEF BioInv, BioType, Stays, Labels, Holding, Transfer, IO
<1>3. NoLostWakeup'
  BY <1>1 DEF Fixed, BioInv, BioType, NoLostWakeup, Locked
<1> QED BY <1>1, <1>2, <1>3, MoveStep

(* alloc3_desc() gives back what it got, which wakes up the others.        *)
LEMMA AllocFailsStep ==
  ASSUME BioInv, \E q \in Procs : chain[q] # <<>>, NEW p \in Procs, alloc3_fails(p)
  PROVE  BioInv'
<1>1. /\ pc[p] = "rw" /\ Cardinality(free) < 3 /\ pc'[p] = "sleep_desc"
      /\ \A q \in Procs : q # p => pc'[q] = pc[q] \/ (pc[q] = "sleep_desc" /\ pc'[q] = "rw")
      /\ Fixed /\ UNCHANGED <<irq, intr>>
  BY DEF Fixed, alloc3_fails, At, cache, queue, FreeDescWakes, BioInv, BioType
<1>2. pc' \in [Procs -> Labels]
  BY DEF alloc3_fails, FreeDescWakes, BioInv, BioType, Labels, Holding, Transfer
<1>3. \A q \in Procs : Stays(q)
  BY <1>1, <1>2 DEF Stays, Transfer, IO
<1>4. NoLostWakeup'
  <2>1. ASSUME NEW q \in Procs
        PROVE  /\ pc'[q] = "sleep_lock" => Locked(mine[q])
               /\ pc'[q] = "sleep_io" => buf[mine[q]].disk
    BY <1>1 DEF BioInv, NoLostWakeup
  <2>2. used # <<>> => irq \/ intr = "loop"
    BY DEF BioInv, NoLostWakeup
  <2> QED BY <1>1, <2>1, <2>2 DEF Fixed, NoLostWakeup, Locked
<1> QED BY <1>1, <1>2, <1>3, <1>4, MoveStep

(* acquiresleep() waits for the holder of the buffer, ...                  *)
LEMMA WaitLockStep ==
  ASSUME BioInv, NEW p \in Procs, acquiresleep(p), Locked(mine[p])
  PROVE  BioInv'
<1>1. /\ pc[p] = "acquiresleep" /\ pc' = [pc EXCEPT ![p] = "sleep_lock"]
      /\ Fixed /\ UNCHANGED <<irq, intr>>
  BY DEF Fixed, acquiresleep, At, Goto, queue
<1>2. pc' \in [Procs -> Labels] /\ \A q \in Procs : Stays(q)
  BY <1>1 DEF BioInv, BioType, Stays, Labels, Holding, Transfer, IO
<1>3. NoLostWakeup'
  BY <1>1 DEF Fixed, BioInv, BioType, NoLostWakeup, Locked
<1> QED BY <1>1, <1>2, <1>3, MoveStep

(* ... or gets the lock: the data is valid, or has to be read.             *)
LEMMA LockStep ==
  ASSUME BioInv, NEW p \in Procs, acquiresleep(p), ~Locked(mine[p])
  PROVE  BioInv'
<1>1. PICK k \in Bufs : k = mine[p] /\ want[p] \in Blocks /\ buf[k].blockno = want[p]
  BY DEF acquiresleep, At, BioInv, InUse
<1>2. PICK l \in {"have", "rw"} : l = IF buf[k].valid THEN "have" ELSE "rw"
  OBVIOUS
<1>3. /\ pc[p] = "acquiresleep" /\ pc' = [pc EXCEPT ![p] = l] /\ buf[k].locked = Nobody
      /\ buf' = [buf EXCEPT ![k].locked = p] /\ write' = [write EXCEPT ![p] = FALSE]
      /\ UNCHANGED <<platter, lru, num, free, info, avail, used, want, mine, chain, irq, intr>>
  BY <1>1, <1>2 DEF acquiresleep, At, Goto, queue, Locked
<1>4. /\ buf' \in [Bufs -> Buf] /\ \A j \in Bufs : j # k => buf'[j] = buf[j]
      /\ buf'[k].locked = p /\ buf'[k].blockno = buf[k].blockno /\ buf'[k].valid = buf[k].valid
      /\ buf'[k].refcnt = buf[k].refcnt /\ buf'[k].disk = buf[k].disk
      /\ buf'[k].data = buf[k].data
  BY <1>3, SetLocked, Zenon DEF BioInv
<1>5. /\ pc'[p] = l /\ write'[p] = FALSE /\ Nobody # p
      /\ \A q \in Procs : q # p => Stays(q) /\ pc'[q] = pc[q] /\ write'[q] = write[q]
      /\ \A q \in Procs : pc'[q] \in IO <=> pc[q] \in IO
  BY <1>3, BlockAssumption DEF BioInv, BioType, Stays, IO
<1>6. BioType'
  BY <1>3, <1>4 DEF BioInv, BioType, Desc, Labels, Holding, Transfer
<1>7. InUse' /\ OneBuffer' /\ Holders' /\ Contents'
  <2>1. buf[k].valid => buf[k].data = platter[want[p]]
    BY <1>1, <1>3, BlockAssumption DEF BioInv, Contents
  <2>2. /\ pc'[p] \in Holding /\ pc'[p] # "idle" /\ (pc'[p] = "have" => buf'[k].valid)
        /\ pc'[p] \in Transfer => (buf'[k].valid <=> write'[p])
    BY <1>2, <1>4, <1>5 DEF Holding, Transfer, IO
  <2>3. Own(p, k)
    BY <1>1, <1>3, <1>4, <1>5, <2>1, <2>2 DEF Own
  <2> QED BY <2>3, HeldStep
<1>8. Chains' /\ Requests'
  <2>1. \A q \in Procs : pc[q] \in IO => mine[q] \in Bufs
    BY HoldersDiffer DEF Holding, Transfer
  <2> QED BY <1>3, <1>4, <1>5, <2>1, ChainsKept, RequestsKept
<1>9. NoLostWakeup'
  <2>1. \A q \in Procs : pc'[q] = "sleep_desc" => \E u \in Procs : chain'[u] # <<>> \/ pc'[u] = "rw"
    BY <1>2, <1>3, <1>5 DEF BioInv, NoLostWakeup
  <2>2. used' # <<>> => irq' \/ intr' = "loop"
    BY <1>3 DEF BioInv, NoLostWakeup
  <2>3. Awaited(k)
    BY <1>2, <1>3, <1>4, <1>5, <2>1, <2>2 DEF BioInv, NoLostWakeup, Awaited
  <2> QED BY <2>3, Wakeups
<1> QED BY <1>6, <1>7, <1>8, <1>9 DEF BioInv

(* bwrite(): the holder of a buffer overwrites it and starts a transfer.   *)
LEMMA BwriteStep ==
  ASSUME BioInv, NEW p \in Procs, NEW v \in Vals, bwrite(p, v)
  PROVE  BioInv'
<1>1. PICK k \in Bufs : k = mine[p] /\ buf[k].locked = p /\ buf[k].valid
  BY HoldersDiffer DEF bwrite, At, BioInv, Contents, Holding
<1>2. /\ pc[p] = "have" /\ pc' = [pc EXCEPT ![p] = "rw"]
      /\ buf' = [buf EXCEPT ![k].data = v] /\ write' = [write EXCEPT ![p] = TRUE]
      /\ UNCHANGED <<platter, lru, num, free, info, avail, used, want, mine, chain, irq, intr>>
  BY <1>1 DEF bwrite, At, Goto, queue
<1>3. /\ buf' \in [Bufs -> Buf] /\ \A j \in Bufs : j # k => buf'[j] = buf[j]
      /\ buf'[k].locked = p /\ buf'[k].blockno = buf[k].blockno /\ buf'[k].valid
      /\ buf'[k].refcnt = buf[k].refcnt /\ buf'[k].disk = buf[k].disk
  BY <1>1, <1>2, SetData, Zenon DEF BioInv
<1>4. /\ pc'[p] = "rw" /\ write'[p] = TRUE
      /\ \A q \in Procs : q # p => Stays(q) /\ pc'[q] = pc[q] /\ write'[q] = write[q]
      /\ \A q \in Procs : /\ pc'[q] \in IO <=> pc[q] \in IO
                          /\ pc[q] \in IO => q # p /\ pc[q] \in Holding
      /\ pc[p] \in Holding /\ pc'[p] \in Holding /\ pc'[p] \in Transfer
  BY <1>2 DEF BioInv, BioType, Stays, IO, Holding, Transfer
<1>5. BioType'
  BY <1>2, <1>3 DEF BioInv, BioType, Desc, Labels, Holding, Transfer
<1>6. InUse' /\ OneBuffer' /\ Holders' /\ Contents'
  <2>1. Own(p, k)
    BY <1>1, <1>2, <1>3, <1>4 DEF Own
  <2> QED BY <2>1, HeldStep
<1>7. Chains' /\ Requests'
  <2>1. \A q \in Procs : pc[q] \in IO => buf'[mine[q]] = buf[mine[q]]
    <3>1. /\ pc[p] \in Holding /\ k = mine[p] /\ \A j \in Bufs : j # k => buf'[j] = buf[j]
          /\ \A q \in Procs : pc[q] \in IO => q # p /\ pc[q] \in Holding
      BY <1>1, <1>3, <1>4
    <3> QED BY <3>1, OthersKept
  <2> QED BY <1>2, <1>4, <2>1, ChainsKept, RequestsKept, Zenon
<1>8. NoLostWakeup'
  <2>1. Awaited(k)
    BY <1>1, <1>2, <1>3, <1>4 DEF BioInv, NoLostWakeup, Awaited, Locked
  <2> QED BY <2>1, Wakeups
<1> QED BY <1>5, <1>6, <1>7, <1>8 DEF BioInv

(* releasesleep(): the lock is free, and who waits for it runs again.      *)
LEMMA ReleaseStep ==
  ASSUME BioInv, NEW p \in Procs, releasesleep(p)
  PROVE  BioInv'
<1>1. PICK k \in Bufs : k = mine[p] /\ buf[k].data = platter[want[p]]
  BY HoldersDiffer DEF releasesleep, At, BioInv, Contents, Holding
<1>2. /\ pc[p] = "have" /\ buf' = [buf EXCEPT ![k].locked = Nobody]
      /\ pc' = Woken([pc EXCEPT ![p] = "brelse"], "sleep_lock", k, "acquiresleep")
      /\ UNCHANGED <<platter, lru, num, free, info, avail, used, want, mine, write, chain, irq, intr>>
  BY <1>1 DEF releasesleep, At, queue
<1>3. /\ buf' \in [Bufs -> Buf] /\ \A j \in Bufs : j # k => buf'[j] = buf[j]
      /\ buf'[k].locked = Nobody /\ buf'[k].blockno = buf[k].blockno
      /\ buf'[k].refcnt = buf[k].refcnt /\ buf'[k].disk = buf[k].disk
      /\ buf'[k].data = buf[k].data
  BY <1>2, SetLocked, Zenon DEF BioInv
<1>4. /\ pc'[p] = "brelse"
      /\ \A q \in Procs : q # p =>
           IF pc[q] = "sleep_lock" /\ mine[q] = k THEN pc'[q] = "acquiresleep" ELSE pc'[q] = pc[q]
  BY <1>2 DEF BioInv, BioType, Woken
<1>5. pc' \in [Procs -> Labels]
  BY <1>2 DEF BioInv, BioType, Labels, Woken
<1>6. /\ \A q \in Procs : q # p => Stays(q)
      /\ \A q \in Procs : /\ pc'[q] \in IO <=> pc[q] \in IO
                          /\ pc[q] \in IO => q # p /\ pc[q] \in Holding
      /\ pc[p] \in Holding /\ pc'[p] \notin Holding /\ pc'[p] \notin Transfer
  BY <1>2, <1>4, <1>5, Zenon DEF Stays, IO, Holding, Transfer
<1>7. BioType'
  BY <1>2, <1>3, <1>5, Zenon DEF BioInv, BioType, Desc
<1>8. InUse' /\ OneBuffer' /\ Holders' /\ Contents'
  <2>1. Own(p, k)
    BY <1>1, <1>2, <1>3, <1>4, <1>6 DEF Own
  <2> QED BY <2>1, HeldStep
<1>9. Chains' /\ Requests'
  <2>1. \A q \in Procs : pc[q] \in IO => buf'[mine[q]] = buf[mine[q]]
    <3>1. /\ pc[p] \in Holding /\ k = mine[p] /\ \A j \in Bufs : j # k => buf'[j] = buf[j]
          /\ \A q \in Procs : pc[q] \in IO => q # p /\ pc[q] \in Holding
      BY <1>1, <1>3, <1>6
    <3> QED BY <3>1, OthersKept
  <2> QED BY <1>2, <1>6, <2>1, ChainsKept, RequestsKept, Zenon
<1>10. NoLostWakeup'
  <2>1. \A q \in Procs : pc'[q] = "sleep_desc" => \E u \in Procs : chain'[u] # <<>> \/ pc'[u] = "rw"
    <3>1. \A u \in Procs : pc[u] = "rw" => pc'[u] = "rw"
      BY <1>2, <1>4, Zenon
    <3> QED BY <1>2, <1>4, <3>1, Zenon DEF BioInv, NoLostWakeup
  <2>2. used' # <<>> => irq' \/ intr' = "loop"
    BY <1>2 DEF BioInv, NoLostWakeup
  <2>3. \A q \in Procs : /\ pc'[q] = "sleep_lock" => pc[q] = "sleep_lock" /\ mine[q] # k
                         /\ pc'[q] = "sleep_io" => pc[q] = "sleep_io"
    BY <1>4
  <2>4. \A q \in Procs : pc[q] = "sleep_io" /\ mine[q] = k => buf'[k].disk
    BY <1>3 DEF BioInv, NoLostWakeup
  <2>5. Awaited(k)
    BY <1>2, <1>3, <2>1, <2>2, <2>3, <2>4, Zenon DEF Awaited
  <2> QED BY <2>5, Wakeups
<1> QED BY <1>7, <1>8, <1>9, <1>10 DEF BioInv

-----------------------------------------------------------------------------
(* Lemmas about sequences.                                                 *)

(* Rings: at the end, from the front, from the middle.                     *)
LEMMA Appended ==
  ASSUME NEW S, NEW q \in Seq(S), NEW x \in S
  PROVE  /\ Append(q, x) \in Seq(S)
         /\ Range(Append(q, x)) = Range(q) \cup {x}
         /\ IsInjective(q) /\ x \notin Range(q) => IsInjective(Append(q, x))
<1>1. /\ Append(q, x) \in Seq(S) /\ Len(q) \in Nat /\ DOMAIN q = 1 .. Len(q)
      /\ DOMAIN Append(q, x) = 1 .. Len(q) + 1 /\ Append(q, x)[Len(q) + 1] = x
      /\ \A i \in 1 .. Len(q) : Append(q, x)[i] = q[i]
  OBVIOUS
<1>2. \A i : i \in 1 .. Len(q) + 1 <=> i \in 1 .. Len(q) \/ i = Len(q) + 1
  BY <1>1
<1>3. Range(Append(q, x)) = Range(q) \cup {x}
  BY <1>1, <1>2 DEF Range
<1>4. IsInjective(q) /\ x \notin Range(q) => IsInjective(Append(q, x))
  BY <1>1, <1>2 DEF Range, IsInjective
<1> QED BY <1>1, <1>3, <1>4

(* r is the sequence q of length n without its element i.                  *)
Shorter(q, n, i, r) ==
  /\ n \in Nat /\ i \in 1 .. n /\ DOMAIN q = 1 .. n /\ DOMAIN r = 1 .. n - 1
  /\ \A j \in 1 .. n - 1 : (j < i => r[j] = q[j]) /\ (i <= j => r[j] = q[j + 1])

LEMMA Removed ==
  ASSUME NEW q, NEW n, NEW i, NEW r, Shorter(q, n, i, r), IsInjective(q)
  PROVE  IsInjective(r) /\ q[i] \in Range(q) /\ Range(r) = Range(q) \ {q[i]}
<1> /\ n \in Nat /\ i \in 1 .. n /\ DOMAIN q = 1 .. n /\ DOMAIN r = 1 .. n - 1
    /\ \A j \in 1 .. n - 1 : (j < i => r[j] = q[j]) /\ (i <= j => r[j] = q[j + 1])
  BY DEF Shorter
<1>1. \A a, b \in 1 .. n : q[a] = q[b] => a = b
  BY DEF IsInjective
<1>2. ASSUME NEW j \in 1 .. n - 1
      PROVE  \E a \in 1 .. n : /\ r[j] = q[a] /\ a # i
                               /\ (j < i => a = j) /\ (i <= j => a = j + 1)
  <2>1. CASE j < i
    BY <2>1
  <2>2. CASE i <= j
    <3>1. j + 1 \in 1 .. n /\ r[j] = q[j + 1]
      BY <2>2
    <3> QED BY <2>2, <3>1
  <2> QED BY <2>1, <2>2
<1>3. ASSUME NEW a \in 1 .. n, a # i PROVE \E j \in 1 .. n - 1 : r[j] = q[a]
  <2>1. CASE a < i
    BY <2>1
  <2>2. CASE a > i
    <3>1. a - 1 \in 1 .. n - 1 /\ i <= a - 1 /\ (a - 1) + 1 = a
      BY <2>2
    <3>2. r[a - 1] = q[a]
      BY <3>1
    <3> QED BY <3>1, <3>2
  <2> QED BY <1>3, <2>1, <2>2
<1>4. ASSUME NEW j \in 1 .. n - 1, NEW l \in 1 .. n - 1, r[j] = r[l] PROVE j = l
  <2>1. PICK a \in 1 .. n : r[j] = q[a] /\ (j < i => a = j) /\ (i <= j => a = j + 1)
    BY <1>2
  <2>2. PICK b \in 1 .. n : r[l] = q[b] /\ (l < i => b = l) /\ (i <= l => b = l + 1)
    BY <1>2
  <2>3. a = b
    BY <1>1, <1>4, <2>1, <2>2, Zenon
  <2> QED BY <2>1, <2>2, <2>3
<1>5. ASSUME NEW x \in Range(r) PROVE x \in Range(q) /\ x # q[i]
  <2>1. PICK j \in 1 .. n - 1 : x = r[j]
    BY DEF Range
  <2>2. PICK a \in 1 .. n : r[j] = q[a] /\ a # i
    BY <1>2, Zenon
  <2> QED BY <1>1, <2>1, <2>2 DEF Range
<1>6. ASSUME NEW x \in Range(q), x # q[i] PROVE x \in Range(r)
  <2>1. PICK a \in 1 .. n : x = q[a]
    BY DEF Range
  <2>2. PICK j \in 1 .. n - 1 : r[j] = q[a]
    BY <1>3, <1>6, <2>1, Zenon
  <2> QED BY <2>1, <2>2 DEF Range
<1>7. q[i] \in Range(q)
  BY DEF Range
<1>8. IsInjective(r)
  BY <1>4 DEF IsInjective
<1> QED BY <1>5, <1>6, <1>7, <1>8

LEMMA Taken ==
  ASSUME NEW S, NEW q \in Seq(S), IsInjective(q), Len(q) # 0
  PROVE  /\ Tail(q) \in Seq(S) /\ IsInjective(Tail(q))
         /\ Head(q) \in Range(q) /\ Range(Tail(q)) = Range(q) \ {Head(q)}
<1>1. PICK n, r : n = Len(q) /\ r = Tail(q)
  BY Zenon
<1>2. /\ r \in Seq(S) /\ n \in Nat \ {0} /\ DOMAIN q = 1 .. n /\ DOMAIN r = 1 .. n - 1
      /\ Head(q) = q[1] /\ \A j \in 1 .. n - 1 : r[j] = q[j + 1]
  BY <1>1
<1>3. Shorter(q, n, 1, r)
  BY <1>2 DEF Shorter
<1>4. IsInjective(r) /\ q[1] \in Range(q) /\ Range(r) = Range(q) \ {q[1]}
  BY <1>3, Removed
<1> QED BY <1>1, <1>2, <1>4

LEMMA TakenOut ==
  ASSUME NEW S, NEW q \in Seq(S), IsInjective(q), NEW i \in DOMAIN q
  PROVE  /\ Without(q, i) \in Seq(S) /\ IsInjective(Without(q, i))
         /\ q[i] \in Range(q) /\ Range(Without(q, i)) = Range(q) \ {q[i]}
<1>1. /\ Len(q) \in Nat /\ i \in 1 .. Len(q) /\ DOMAIN q = 1 .. Len(q)
      /\ i - 1 \in Nat /\ Len(q) - i \in Nat
  OBVIOUS
<1>2. PICK u, v : u = SubSeq(q, 1, i - 1) /\ v = SubSeq(q, i + 1, Len(q))
  BY Zenon
<1>3. u \in Seq(S) /\ Len(u) = i - 1 /\ \A j \in 1 .. i - 1 : u[j] = q[j]
  BY <1>1, <1>2
<1>4. v \in Seq(S) /\ Len(v) = Len(q) - i /\ \A j \in 1 .. Len(q) - i : v[j] = q[i + j]
  BY <1>1, <1>2
<1>5. /\ u \o v \in Seq(S) /\ DOMAIN (u \o v) = 1 .. Len(u) + Len(v)
      /\ \A j \in 1 .. Len(u) : (u \o v)[j] = u[j]
      /\ \A j \in 1 .. Len(u) + Len(v) : j > Len(u) => (u \o v)[j] = v[j - Len(u)]
  <2>1. u \in Seq(S) /\ v \in Seq(S)
    BY <1>3, <1>4
  <2> QED BY <2>1
<1>6. PICK n, r : n = Len(q) /\ r = u \o v
  BY Zenon
<1>7. /\ r \in Seq(S) /\ DOMAIN r = 1 .. n - 1 /\ n \in Nat /\ i \in 1 .. n
      /\ DOMAIN q = 1 .. n
      /\ \A j \in 1 .. i - 1 : r[j] = u[j]
      /\ \A j \in 1 .. n - 1 : j > i - 1 => r[j] = v[j - (i - 1)]
  <2>1. Len(u) + Len(v) = n - 1
    BY <1>1, <1>3, <1>4, <1>6
  <2> QED BY <1>1, <1>3, <1>5, <1>6, <2>1, Zenon
<1>8. \A j \in 1 .. n - 1 : (j < i => r[j] = q[j]) /\ (i <= j => r[j] = q[j + 1])
  <2> TAKE j \in 1 .. n - 1
  <2>1. CASE j < i
    BY <1>3, <1>7, <2>1
  <2>2. CASE i <= j
    <3>1. PICK m \in 1 .. n - i : m = j - (i - 1) /\ i + m = j + 1 /\ j > i - 1
      BY <1>7, <2>2
    <3>2. r[j] = v[m]
      BY <1>7, <3>1
    <3>3. v[m] = q[i + m]
      BY <1>4, <1>6
    <3> QED BY <1>7, <2>2, <3>1, <3>2, <3>3
  <2> QED BY <1>7, <2>1, <2>2
<1>9. Shorter(q, n, i, r)
  BY <1>7, <1>8 DEF Shorter
<1>10. IsInjective(r) /\ q[i] \in Range(q) /\ Range(r) = Range(q) \ {q[i]}
  BY <1>9, Removed
<1> QED BY <1>2, <1>6, <1>7, <1>10 DEF Without
=============================================================================
