---------------------------- MODULE BlockIOProofs ----------------------------
(***************************************************************************)
(* bread() returns the block that was asked for, and no wakeup or          *)
(* interrupt of the disk is lost, for any number of processes, blocks,     *)
(* buffers and descriptors: the driver, the device and the interrupt keep  *)
(* the invariant too.                                                      *)
(***************************************************************************)
EXTENDS BlockIOCacheProofs

(* How long a leaf may take: SMT first, then Zenon.                          *)
USE SMTT(20), ZenonT(30)

-----------------------------------------------------------------------------
(* The steps of the driver, the device and the interrupt.                  *)

(* virtio_disk_rw() takes three descriptors and gives the request to the   *)
(* device.                                                                 *)
LEMMA SubmitStep ==
  ASSUME BioInv, NEW p \in Procs, Submit(p), First3 \in [1 .. 3 -> free]
  PROVE  BioInv'
<1>1. PICK c \in [1 .. 3 -> free] : c = First3
  OBVIOUS
<1>2. PICK k \in Bufs : k = mine[p]
  BY DEF Submit, At, BioInv, InUse
<1>3. /\ pc[p] = "rw" /\ pc' = [pc EXCEPT ![p] = "wait_io"]
      /\ chain' = [chain EXCEPT ![p] = c] /\ free' = free \ Range(c)
      /\ buf' = [buf EXCEPT ![k].disk = TRUE] /\ info' = [info EXCEPT ![c[1]] = k]
      /\ avail' = Append(avail, c[1])
      /\ UNCHANGED <<platter, lru, num, used, want, mine, write, irq, intr>>
  BY <1>1, <1>2 DEF Submit, At, Goto
<1>4. /\ 1 \in 1 .. 3 /\ c[1] \in free /\ c[1] \in Range(c) /\ Range(c) \subseteq free
      /\ free \subseteq Desc /\ c \in [1 .. 3 -> Desc] /\ c # <<>>
  <2>1. 1 \in DOMAIN c /\ free \subseteq Desc
    BY DEF BioInv, BioType
  <2>2. 1 \in 1 .. 3 /\ c[1] \in free /\ c \in [1 .. 3 -> Desc]
    BY <2>1
  <2>3. c # <<>>
    BY <2>1
  <2>4. c[1] \in Range(c) /\ Range(c) \subseteq free
    BY <2>1 DEF Range
  <2> QED BY <2>1, <2>2, <2>3, <2>4
<1>5. /\ pc'[p] = "wait_io" /\ chain'[p] = c
      /\ \A q \in Procs : q # p => pc'[q] = pc[q] /\ chain'[q] = chain[q]
  BY <1>3 DEF BioInv, BioType
<1>6. /\ \A q \in Procs : q # p => Stays(q)
      /\ \A q \in Procs : /\ pc'[q] \in IO <=> pc[q] \in IO \/ q = p
                          /\ pc[q] \in IO => q # p /\ pc[q] \in Holding
      /\ pc[p] \in Transfer /\ pc[p] \in Holding /\ pc'[p] \in Transfer /\ pc'[p] \in Holding
  BY <1>3, <1>5 DEF Stays, IO, Holding, Transfer, BioInv, BioType
<1>7. /\ buf[k].locked = p /\ (buf[k].valid <=> write[p])
      /\ \A q \in Procs : pc[q] \in Holding => mine[q] \in Bufs /\ (q # p => mine[q] # k)
  BY <1>2, <1>6, HoldersDiffer, Zenon DEF BioInv, Contents
<1>8. /\ buf' \in [Bufs -> Buf] /\ \A j \in Bufs : j # k => buf'[j] = buf[j]
      /\ buf'[k].disk = TRUE /\ buf'[k].locked = buf[k].locked
      /\ buf'[k].blockno = buf[k].blockno /\ buf'[k].valid = buf[k].valid
      /\ buf'[k].refcnt = buf[k].refcnt
  BY <1>3, SetDisk, Zenon DEF BioInv
<1>9. /\ avail' \in Seq(Desc) /\ Range(avail') = Range(avail) \cup {c[1]}
      /\ IsInjective(avail) /\ c[1] \notin Range(avail) => IsInjective(avail')
  <2>1. PICK a \in Seq(Desc) : a = avail
    BY DEF BioInv, BioType
  <2>2. PICK h \in Desc : h = c[1]
    BY <1>4
  <2>3. avail' = Append(a, h)
    BY <1>3, <2>1, <2>2
  <2>4. /\ Append(a, h) \in Seq(Desc) /\ Range(Append(a, h)) = Range(a) \cup {h}
        /\ IsInjective(a) /\ h \notin Range(a) => IsInjective(Append(a, h))
    BY Appended
  <2> QED BY <2>1, <2>2, <2>3, <2>4
<1>10. BioType'
  <2>1. Desc' = Desc
    BY <1>3 DEF Desc
  <2>2. pc' \in [Procs -> Labels] /\ free' \subseteq Desc
    BY <1>3, <1>4 DEF BioInv, BioType, Labels, Holding, Transfer, IO
  <2>3. info' \in [Desc -> 0 .. NBUF]
    <3>1. k \in 0 .. NBUF
      BY BlockAssumption DEF Bufs
    <3> QED BY <1>3, <1>4, <3>1 DEF BioInv, BioType
  <2>4. chain' \in [Procs -> {<<>>} \cup [1 .. 3 -> Desc]]
    BY <1>3, <1>4 DEF BioInv, BioType
  <2>5. UNCHANGED <<platter, lru, num, used, want, mine, write>>
    BY <1>3
  <2> QED BY <1>8, <1>9, <2>1, <2>2, <2>3, <2>4, <2>5, Zenon DEF BioInv, BioType
<1>11. InUse' /\ OneBuffer' /\ Holders' /\ Contents'
  <2>1. Own(p, k)
    BY <1>2, <1>3, <1>5, <1>6, <1>7, <1>8 DEF Own
  <2> QED BY <2>1, HeldStep
<1>12. /\ chain[p] = <<>> /\ Range(chain[p]) = {}
       /\ \A q \in Procs : q # p => Range(chain[q]) \cap Range(c) = {}
  <2>1. chain[p] = <<>>
    BY <1>6, Zenon DEF BioInv, Chains
  <2>2. Range(chain[p]) = {}
    BY <2>1 DEF Range
  <2> QED BY <1>4, <2>1, <2>2, Zenon DEF BioInv, Chains
<1>13. Chains'
  <2>1. Desc' = Desc
    BY <1>3 DEF Desc
  <2>2. ASSUME NEW q \in Procs
        PROVE  chain'[q] \in IF pc'[q] \in IO THEN [1 .. 3 -> Desc] ELSE {<<>>}
    <3>1. CASE q = p
      BY <1>4, <1>5, <3>1 DEF IO
    <3>2. CASE q # p
      BY <1>5, <3>2 DEF BioInv, Chains
    <3> QED BY <3>1, <3>2
  <2>3. ASSUME NEW q \in Procs, NEW u \in Procs, q # u
        PROVE  Range(chain'[q]) \cap Range(chain'[u]) = {}
    BY <1>5, <1>12, <2>3, Zenon DEF BioInv, Chains
  <2>4. ASSUME NEW d \in Desc
        PROVE  d \in free' <=> \A q \in Procs : d \notin Range(chain'[q])
    <3>1. d \in free <=> \A q \in Procs : d \notin Range(chain[q])
      BY DEF BioInv, Chains
    <3>2. d \in free' <=> d \in free /\ d \notin Range(c)
      BY <1>3
    <3> QED BY <1>5, <1>12, <3>1, <3>2
  <2> QED BY <2>1, <2>2, <2>3, <2>4, Zenon DEF Chains
<1>14. Requests'
  <2>1. \A q \in Procs : pc[q] \in IO => chain[q][1] # c[1]
    BY <1>4, <1>6, <1>12, HeadsDiffer, Zenon
  <2>2. c[1] \notin Range(avail) \cup Range(used)
    BY <2>1 DEF BioInv, Requests
  <2>3. /\ IsInjective(avail') /\ IsInjective(used')
        /\ Range(avail') \cap Range(used') = {}
    BY <1>3, <1>9, <2>2 DEF BioInv, Requests
  <2>4. ASSUME NEW h \in Range(avail') \cup Range(used')
        PROVE  \E q \in Procs : pc'[q] \in IO /\ chain'[q][1] = h
    <3>1. CASE h = c[1]
      BY <1>5, <1>6, <3>1
    <3>2. CASE h # c[1]
      <4>1. h \in Range(avail) \cup Range(used)
        BY <1>3, <1>9, <3>2
      <4>2. PICK q \in Procs : pc[q] \in IO /\ chain[q][1] = h
        BY <4>1, Zenon DEF BioInv, Requests
      <4> QED BY <1>5, <1>6, <4>2
    <3> QED BY <3>1, <3>2
  <2>5. ASSUME NEW q \in Procs, pc'[q] \in IO
        PROVE  /\ info'[chain'[q][1]] = mine[q]
               /\ buf'[mine[q]].disk <=> chain'[q][1] \in Range(avail') \cup Range(used)
               /\ chain'[q][1] \notin Range(avail') => buf'[mine[q]].data = platter[want[q]]
    <3>1. CASE q = p
      <4>1. info'[c[1]] = k
        BY <1>3, <1>4 DEF BioInv, BioType
      <4> QED BY <1>2, <1>5, <1>8, <1>9, <3>1, <4>1
    <3>2. CASE q # p
      <4>1. pc[q] \in IO /\ mine[q] \in Bufs /\ mine[q] # k /\ chain'[q] = chain[q]
        BY <1>5, <1>6, <1>7, <2>5, <3>2, Zenon
      <4>2. chain[q][1] \in Desc /\ chain[q][1] # c[1]
        BY <2>1, <4>1, HeadsDiffer, Zenon
      <4>3. info'[chain[q][1]] = info[chain[q][1]]
        BY <1>3, <4>2 DEF BioInv, BioType
      <4>4. buf'[mine[q]] = buf[mine[q]]
        BY <1>8, <4>1
      <4>5. /\ info[chain[q][1]] = mine[q]
            /\ buf[mine[q]].disk <=> chain[q][1] \in Range(avail) \cup Range(used)
            /\ chain[q][1] \notin Range(avail) => buf[mine[q]].data = platter[want[q]]
        BY <4>1, Zenon DEF BioInv, Requests
      <4> QED BY <1>9, <4>1, <4>2, <4>3, <4>4, <4>5
    <3> QED BY <3>1, <3>2, Zenon
  <2>6. UNCHANGED <<platter, used, want, mine>>
    BY <1>3
  <2> QED BY <2>3, <2>4, <2>5, <2>6, Zenon DEF Requests
<1>15. NoLostWakeup'
  <2>1. used' # <<>> => irq' \/ intr' = "loop"
    BY <1>3 DEF BioInv, NoLostWakeup
  <2>2. \A q \in Procs : /\ pc'[q] = "sleep_lock" => pc[q] = "sleep_lock"
                         /\ pc'[q] = "sleep_io" => pc[q] = "sleep_io"
                         /\ pc[q] = "sleep_lock" /\ mine[q] = k => buf'[k].locked # Nobody
    BY <1>5, <1>7, <1>8, BlockAssumption
  <2>3. Awaited(k)
    BY <1>3, <1>4, <1>5, <1>8, <2>1, <2>2 DEF Awaited
  <2> QED BY <2>3, Wakeups
<1> QED BY <1>10, <1>11, <1>13, <1>14, <1>15 DEF BioInv

(* virtio_disk_rw() finds its request done: the descriptors are free again *)
(* and the buffer is valid.                                                *)
LEMMA CompleteStep ==
  ASSUME BioInv, NEW p \in Procs, Complete(p)
  PROVE  BioInv'
<1>1. pc[p] = "wait_io" /\ pc[p] \in IO /\ pc[p] \in Holding
  BY DEF Complete, At, IO, Transfer, Holding
<1>2. PICK k \in Bufs : k = mine[p]
  BY <1>1, HoldersDiffer
<1>3. PICK h \in Desc : h = chain[p][1]
  BY <1>1, HeadsDiffer
<1>4. /\ ~buf[k].disk /\ info' = [info EXCEPT ![h] = 0] /\ free' = free \cup Range(chain[p])
      /\ chain' = [chain EXCEPT ![p] = <<>>] /\ buf' = [buf EXCEPT ![k].valid = TRUE]
      /\ pc' = FreeDescWakes([pc EXCEPT ![p] = "have"])
      /\ UNCHANGED <<platter, lru, num, avail, used, irq, intr, want, mine, write>>
  BY <1>2, <1>3 DEF Complete, FreeChain
<1>5. /\ pc'[p] = "have" /\ chain'[p] = <<>>
      /\ \A q \in Procs : q # p =>
           /\ chain'[q] = chain[q]
           /\ pc'[q] = IF pc[q] = "sleep_desc" THEN "rw" ELSE pc[q]
  BY <1>4 DEF BioInv, BioType, FreeDescWakes
<1>6. /\ \A q \in Procs : q # p => Stays(q)
      /\ \A q \in Procs : /\ pc'[q] \in IO <=> pc[q] \in IO /\ q # p
                          /\ pc[q] \in IO => pc[q] \in Holding
      /\ pc'[p] \in Holding /\ pc'[p] \notin Transfer
  BY <1>1, <1>5 DEF Stays, IO, Holding, Transfer, BioInv, BioType, Labels
<1>7. /\ buf[k].locked = p
      /\ \A q \in Procs : pc[q] \in Holding => mine[q] \in Bufs
  BY <1>1, <1>2, HoldersDiffer
<1>8. h \notin Range(avail) \cup Range(used) /\ buf[k].data = platter[want[p]]
  BY <1>1, <1>2, <1>3, <1>4 DEF BioInv, Requests
<1>9. /\ buf' \in [Bufs -> Buf] /\ \A j \in Bufs : j # k => buf'[j] = buf[j]
      /\ buf'[k].valid = TRUE /\ buf'[k].locked = buf[k].locked
      /\ buf'[k].blockno = buf[k].blockno /\ buf'[k].disk = buf[k].disk
      /\ buf'[k].refcnt = buf[k].refcnt /\ buf'[k].data = buf[k].data
  BY <1>4, SetValid, Zenon DEF BioInv
<1>10. Desc' = Desc
  BY <1>4 DEF Desc
<1>11. Range(chain[p]) \subseteq Desc
  <2>1. PICK c \in [1 .. 3 -> Desc] : c = chain[p]
    BY <1>1 DEF BioInv, Chains
  <2>2. Range(c) \subseteq Desc
    BY DEF Range
  <2> QED BY <2>1, <2>2
<1>12. BioType'
  <2>1. pc' \in [Procs -> Labels] /\ free' \subseteq Desc
    BY <1>4, <1>11 DEF BioInv, BioType, Labels, Holding, Transfer, FreeDescWakes
  <2>2. info' \in [Desc -> 0 .. NBUF]
    <3>1. 0 \in 0 .. NBUF
      BY BlockAssumption
    <3> QED BY <1>4, <3>1 DEF BioInv, BioType
  <2>3. chain' \in [Procs -> {<<>>} \cup [1 .. 3 -> Desc]]
    BY <1>4 DEF BioInv, BioType
  <2>4. UNCHANGED <<platter, lru, num, avail, used, want, mine, write>>
    BY <1>4
  <2> QED BY <1>9, <1>10, <2>1, <2>2, <2>3, <2>4 DEF BioInv, BioType
<1>13. InUse' /\ OneBuffer' /\ Holders' /\ Contents'
  <2>1. Own(p, k)
    BY <1>1, <1>2, <1>4, <1>5, <1>6, <1>7, <1>8, <1>9 DEF Own
  <2> QED BY <2>1, HeldStep
<1>14. Range(chain'[p]) = {}
  BY <1>5 DEF Range
<1>15. Chains'
  <2>1. ASSUME NEW q \in Procs
        PROVE  chain'[q] \in IF pc'[q] \in IO THEN [1 .. 3 -> Desc] ELSE {<<>>}
    <3>1. CASE q = p
      BY <1>5, <1>6, <3>1
    <3>2. CASE q # p
      BY <1>5, <1>6, <3>2, Zenon DEF BioInv, Chains
    <3> QED BY <3>1, <3>2
  <2>2. ASSUME NEW q \in Procs, NEW u \in Procs, q # u
        PROVE  Range(chain'[q]) \cap Range(chain'[u]) = {}
    BY <1>5, <1>14, <2>2, Zenon DEF BioInv, Chains
  <2>3. ASSUME NEW d \in Desc
        PROVE  d \in free' <=> \A q \in Procs : d \notin Range(chain'[q])
    <3>1. d \in free <=> \A q \in Procs : d \notin Range(chain[q])
      BY DEF BioInv, Chains
    <3>2. d \in free' <=> d \in free \/ d \in Range(chain[p])
      BY <1>4
    <3>3. d \in Range(chain[p]) => \A q \in Procs : q # p => d \notin Range(chain[q])
      BY DEF BioInv, Chains
    <3> QED BY <1>5, <1>14, <3>1, <3>2, <3>3
  <2> QED BY <1>10, <2>1, <2>2, <2>3, Zenon DEF Chains
<1>16. Requests'
  <2>1. ASSUME NEW g \in Range(avail) \cup Range(used)
        PROVE  \E q \in Procs : pc'[q] \in IO /\ chain'[q][1] = g
    <3>1. PICK q \in Procs : pc[q] \in IO /\ chain[q][1] = g
      BY <2>1 DEF BioInv, Requests
    <3>2. q # p
      BY <1>3, <1>8, <2>1, <3>1
    <3> QED BY <1>5, <1>6, <3>1, <3>2, Zenon
  <2>2. ASSUME NEW q \in Procs, pc'[q] \in IO
        PROVE  /\ info'[chain'[q][1]] = mine[q]
               /\ buf'[mine[q]].disk <=> chain'[q][1] \in Range(avail) \cup Range(used)
               /\ chain'[q][1] \notin Range(avail) => buf'[mine[q]].data = platter[want[q]]
    <3>1. q # p /\ pc[q] \in IO /\ mine[q] \in Bufs /\ chain'[q] = chain[q]
      BY <1>5, <1>6, <1>7, <2>2, Zenon
    <3>2. chain[q][1] \in Desc /\ chain[q][1] # h
      BY <1>1, <1>3, <3>1, HeadsDiffer
    <3>3. info'[chain[q][1]] = info[chain[q][1]]
      BY <1>4, <3>2 DEF BioInv, BioType
    <3>4. buf'[mine[q]].disk = buf[mine[q]].disk /\ buf'[mine[q]].data = buf[mine[q]].data
      BY <1>9, <3>1
    <3> QED BY <3>1, <3>3, <3>4, Zenon DEF BioInv, Requests
  <2>3. UNCHANGED <<platter, avail, used, want, mine>>
    BY <1>4
  <2>4. IsInjective(avail) /\ IsInjective(used) /\ Range(avail) \cap Range(used) = {}
    BY DEF BioInv, Requests
  <2> QED BY <2>1, <2>2, <2>3, <2>4 DEF Requests
<1>17. NoLostWakeup'
  <2>1. used' # <<>> => irq' \/ intr' = "loop"
    BY <1>4 DEF BioInv, NoLostWakeup
  <2>2. \A q \in Procs : /\ pc'[q] = "sleep_lock" => pc[q] = "sleep_lock"
                         /\ pc'[q] = "sleep_io" => pc[q] = "sleep_io"
                         /\ pc'[q] # "sleep_desc"
    BY <1>5
  <2>3. \A q \in Procs : /\ pc[q] = "sleep_lock" /\ mine[q] = k => buf'[k].locked # Nobody
                         /\ pc[q] = "sleep_io" /\ mine[q] = k => buf'[k].disk
    BY <1>7, <1>9, BlockAssumption, Zenon DEF BioInv, NoLostWakeup
  <2>4. Awaited(k)
    BY <1>4, <1>9, <2>1, <2>2, <2>3, Zenon DEF Awaited
  <2> QED BY <2>4, Wakeups
<1> QED BY <1>12, <1>13, <1>15, <1>16, <1>17 DEF BioInv

(* The request that a chain head of the rings stands for.                  *)
LEMMA Owner ==
  ASSUME BioInv, NEW h \in Range(avail) \cup Range(used)
  PROVE  \E p \in Procs : /\ pc[p] \in IO /\ pc[p] \in Transfer /\ pc[p] \in Holding
                          /\ chain[p][1] = h /\ info[h] = mine[p] /\ Requester(h) = p
                          /\ \A q \in Procs : pc[q] \in IO /\ q # p => chain[q][1] # h
<1>1. PICK p \in Procs : pc[p] \in IO /\ chain[p][1] = h
  BY DEF BioInv, Requests
<1>2. chain[p] # <<>> /\ \A q \in Procs : chain[q] # <<>> /\ chain[q][1] = h => q = p
  BY <1>1, HeadsDiffer
<1>3. Requester(h) = p
  BY <1>1, <1>2 DEF Requester
<1>4. \A q \in Procs : pc[q] \in IO => chain[q] # <<>>
  BY HeadsDiffer
<1>5. info[h] = mine[p]
  BY <1>1 DEF BioInv, Requests
<1>6. pc[p] \in Transfer /\ pc[p] \in Holding
  BY <1>1 DEF Transfer, Holding
<1> QED BY <1>1, <1>2, <1>3, <1>4, <1>5, <1>6, Zenon

(* The device does a request: buffer and disk are the same from then on.   *)
LEMMA DeviceStep ==
  ASSUME BioInv, NEW i \in DOMAIN avail, Device(i)
  PROVE  BioInv'
<1>1. PICK a \in Seq(Desc) : a = avail
  BY DEF BioInv, BioType
<1>2. PICK u \in Seq(Desc) : u = used
  BY DEF BioInv, BioType
<1>3. IsInjective(a) /\ IsInjective(u) /\ Range(a) \cap Range(u) = {}
  BY <1>1, <1>2 DEF BioInv, Requests
<1>4. /\ Without(a, i) \in Seq(Desc) /\ IsInjective(Without(a, i))
      /\ a[i] \in Range(a) /\ Range(Without(a, i)) = Range(a) \ {a[i]}
  BY <1>1, <1>3, TakenOut
<1>5. PICK h \in Desc : h = a[i]
  BY <1>1
<1>6. /\ Append(u, h) \in Seq(Desc) /\ Range(Append(u, h)) = Range(u) \cup {h}
      /\ IsInjective(Append(u, h))
  BY <1>3, <1>4, <1>5, Appended
<1>7. PICK p \in Procs : /\ pc[p] \in IO /\ pc[p] \in Transfer /\ pc[p] \in Holding
                         /\ chain[p][1] = h /\ info[h] = mine[p] /\ Requester(h) = p
                         /\ \A q \in Procs : pc[q] \in IO /\ q # p => chain[q][1] # h
  BY <1>1, <1>4, <1>5, Owner
<1>8. PICK k \in Bufs : k = mine[p]
  BY <1>7, HoldersDiffer, Zenon
<1>9. /\ want[p] \in Blocks /\ buf[k].blockno = want[p] /\ buf[k].locked = p
      /\ \A q \in Procs : pc[q] \in Holding => mine[q] \in Bufs /\ want[q] \in Blocks
      /\ \A q \in Procs : pc[q] \in Holding /\ q # p => mine[q] # k /\ want[q] # want[p]
      /\ \A q \in Procs : pc[q] \in IO => pc[q] \in Holding
      /\ buf[k].valid <=> write[p]
  <2>1. \A q \in Procs : pc[q] \in IO => pc[q] \in Holding
    BY DEF Holding, Transfer
  <2>2. buf[k].valid <=> write[p]
    BY <1>7, <1>8, Zenon DEF BioInv, Contents
  <2> QED BY <1>7, <1>8, <2>1, <2>2, HoldersDiffer
<1>10. /\ IF write[p] THEN platter' = [platter EXCEPT ![want[p]] = buf[k].data] /\ UNCHANGED buf
          ELSE buf' = [buf EXCEPT ![k].data = platter[want[p]]] /\ UNCHANGED platter
       /\ avail' = Without(a, i) /\ used' = Append(u, h) /\ irq' = TRUE
       /\ UNCHANGED <<lru, num, free, info, intr, pc, want, mine, write, chain>>
  BY <1>1, <1>2, <1>5, <1>7, <1>8, <1>9 DEF Device, proc
<1>11. /\ platter' \in [Blocks -> Vals] /\ buf' \in [Bufs -> Buf]
       /\ \A b \in Blocks : b # want[p] => platter'[b] = platter[b]
       /\ \A j \in Bufs : j # k => buf'[j] = buf[j]
       /\ buf'[k].locked = buf[k].locked /\ buf'[k].blockno = buf[k].blockno
       /\ buf'[k].valid = buf[k].valid /\ buf'[k].disk = buf[k].disk
       /\ buf'[k].refcnt = buf[k].refcnt /\ buf'[k].data = platter'[want[p]]
  <2>1. buf \in [Bufs -> Buf] /\ platter \in [Blocks -> Vals]
    BY DEF BioInv, BioType
  <2>2. CASE write[p]
    <3>1. buf[k].data \in Vals
      BY <2>1 DEF Buf
    <3> QED BY <1>9, <1>10, <2>1, <2>2, <3>1
  <2>3. CASE ~write[p]
    <3>1. PICK d \in Vals : d = platter[want[p]]
      BY <1>9, <2>1
    <3>2. buf' = [buf EXCEPT ![k].data = d] /\ platter' = platter
      BY <1>10, <2>3, <3>1
    <3> QED BY <2>1, <3>1, <3>2, SetData, Zenon DEF BioInv
  <2> QED BY <2>2, <2>3, Zenon
<1>12. BioType'
  <2>1. Desc' = Desc
    BY <1>10 DEF Desc
  <2>2. UNCHANGED <<lru, num, free, info, pc, want, mine, write, chain>>
    BY <1>10
  <2>3. avail' \in Seq(Desc) /\ used' \in Seq(Desc)
    BY <1>4, <1>6, <1>10
  <2> QED BY <1>11, <2>1, <2>2, <2>3 DEF BioInv, BioType
<1>13. UNCHANGED <<free, num, info, pc, want, mine, write, chain>>
  BY <1>10
<1>14. InUse' /\ OneBuffer' /\ Holders' /\ Contents'
  <2>1. pc'[p] # "idle" /\ pc'[p] # "have" /\ \A q \in Procs : Stays(q)
    BY <1>7, <1>13 DEF Stays, BioInv, BioType, IO, Transfer
  <2>2. Own(p, k)
    BY <1>7, <1>8, <1>9, <1>11, <1>13, <2>1, Zenon DEF Own
  <2> QED BY <2>2, HeldStep
<1>15. Chains'
  BY <1>13, ChainsKept
<1>16. Requests'
  <2>1. /\ Range(avail') = Range(avail) \ {h} /\ Range(used') = Range(used) \cup {h}
        /\ h \in Range(avail) /\ IsInjective(avail') /\ IsInjective(used')
        /\ Range(avail') \cap Range(used') = {}
    <3>1. /\ Range(avail') = Range(avail) \ {h} /\ Range(used') = Range(used) \cup {h}
          /\ h \in Range(avail) /\ IsInjective(avail') /\ IsInjective(used')
      BY <1>1, <1>2, <1>4, <1>5, <1>6, <1>10
    <3> QED BY <1>1, <1>2, <1>3, <3>1
  <2>2. \A g \in Range(avail') \cup Range(used') : \E q \in Procs : pc[q] \in IO /\ chain[q][1] = g
    BY <2>1 DEF BioInv, Requests
  <2>3. ASSUME NEW q \in Procs, pc[q] \in IO
        PROVE  /\ info[chain[q][1]] = mine[q]
               /\ buf'[mine[q]].disk <=> chain[q][1] \in Range(avail') \cup Range(used')
               /\ chain[q][1] \notin Range(avail') => buf'[mine[q]].data = platter'[want[q]]
    <3>1. /\ info[chain[q][1]] = mine[q]
          /\ buf[mine[q]].disk <=> chain[q][1] \in Range(avail) \cup Range(used)
          /\ chain[q][1] \notin Range(avail) => buf[mine[q]].data = platter[want[q]]
      BY <2>3, Zenon DEF BioInv, Requests
    <3>3. buf'[mine[q]].disk <=> chain[q][1] \in Range(avail') \cup Range(used')
      BY <1>9, <1>11, <2>1, <2>3, <3>1, Zenon
    <3>4. CASE q = p
      BY <1>8, <1>11, <3>1, <3>3, <3>4, Zenon
    <3>5. CASE q # p
      <4>1. chain[q][1] # h /\ buf'[mine[q]] = buf[mine[q]] /\ platter'[want[q]] = platter[want[q]]
        BY <1>7, <1>9, <1>11, <2>3, <3>5, Zenon
      <4> QED BY <2>1, <3>1, <3>3, <4>1
    <3> QED BY <3>4, <3>5, Zenon
  <2> QED BY <1>13, <2>1, <2>2, <2>3, Zenon DEF Requests
<1>17. NoLostWakeup'
  <2>1. Awaited(k)
    BY <1>10, <1>11, <1>13 DEF Awaited, BioInv, NoLostWakeup, Locked
  <2> QED BY <2>1, Wakeups
<1> QED BY <1>12, <1>14, <1>15, <1>16, <1>17 DEF BioInv

(* A turn of virtio_disk_intr(): the buffer of a finished request is the   *)
(* driver's again, and who waits for it runs again.                        *)
LEMMA IntrLoopStep ==
  ASSUME BioInv, IntrLoop
  PROVE  BioInv'
<1>1. PICK u \in Seq(Desc) : u = used
  BY DEF BioInv, BioType
<1>2. IsInjective(u) /\ Len(u) # 0 /\ u # <<>>
  BY <1>1 DEF BioInv, Requests, IntrLoop
<1>3. /\ Tail(u) \in Seq(Desc) /\ IsInjective(Tail(u))
      /\ Head(u) \in Range(u) /\ Range(Tail(u)) = Range(u) \ {Head(u)}
  BY <1>2, Taken
<1>4. PICK h \in Desc : h = Head(u)
  BY <1>2
<1>5. PICK p \in Procs : /\ pc[p] \in IO /\ pc[p] \in Transfer /\ pc[p] \in Holding
                         /\ chain[p][1] = h /\ info[h] = mine[p] /\ Requester(h) = p
                         /\ \A q \in Procs : pc[q] \in IO /\ q # p => chain[q][1] # h
  BY <1>1, <1>3, <1>4, Owner
<1>6. PICK k \in Bufs : k = mine[p]
  BY <1>5, HoldersDiffer
<1>7. /\ buf[k].locked = p /\ (buf[k].valid <=> write[p])
      /\ \A q \in Procs : pc[q] \in Holding => mine[q] \in Bufs
      /\ \A q \in Procs : pc[q] \in Holding /\ q # p => mine[q] # k
  BY <1>5, <1>6, HoldersDiffer, Zenon DEF BioInv, Contents
<1>8. /\ buf' = [buf EXCEPT ![k].disk = FALSE] /\ pc' = Woken(pc, "sleep_io", k, "wait_io")
      /\ used' = Tail(u) /\ intr = "loop"
      /\ UNCHANGED <<platter, lru, num, free, info, avail, irq, intr, want, mine, write, chain>>
  BY <1>1, <1>4, <1>5, <1>6 DEF IntrLoop
<1>9. /\ buf' \in [Bufs -> Buf] /\ \A j \in Bufs : j # k => buf'[j] = buf[j]
      /\ buf'[k].disk = FALSE /\ buf'[k].locked = buf[k].locked
      /\ buf'[k].blockno = buf[k].blockno /\ buf'[k].valid = buf[k].valid
      /\ buf'[k].refcnt = buf[k].refcnt /\ buf'[k].data = buf[k].data
  BY <1>8, SetDisk, Zenon DEF BioInv
<1>10. \A q \in Procs : IF pc[q] = "sleep_io" /\ mine[q] = k THEN pc'[q] = "wait_io"
                        ELSE pc'[q] = pc[q]
  BY <1>8 DEF Woken
<1>11. /\ \A q \in Procs : Stays(q)
       /\ \A q \in Procs : /\ pc'[q] \in IO <=> pc[q] \in IO
                           /\ pc[q] \in IO => pc[q] \in Holding
       /\ pc'[p] \in Transfer /\ pc'[p] \in Holding /\ pc'[p] # "have" /\ pc'[p] # "idle"
  BY <1>5, <1>10 DEF Stays, IO, Transfer, Holding, BioInv, BioType, Labels
<1>12. UNCHANGED <<platter, lru, num, free, info, avail, irq, intr, want, mine, write, chain>>
  BY <1>8
<1>13. BioType'
  <2>1. Desc' = Desc
    BY <1>12 DEF Desc
  <2>2. pc' \in [Procs -> Labels]
    BY <1>8 DEF BioInv, BioType, Woken, Labels, Holding, Transfer, IO
  <2>3. used' \in Seq(Desc)
    BY <1>3, <1>8
  <2> QED BY <1>9, <1>12, <2>1, <2>2, <2>3 DEF BioInv, BioType
<1>14. InUse' /\ OneBuffer' /\ Holders' /\ Contents'
  <2>1. Own(p, k)
    BY <1>5, <1>6, <1>7, <1>9, <1>11, <1>12, Zenon DEF Own
  <2> QED BY <2>1, HeldStep
<1>15. Chains'
  BY <1>11, <1>12, ChainsKept, Zenon
<1>16. Requests'
  <2>1. /\ Range(used') = Range(used) \ {h} /\ h \in Range(used) /\ h \notin Range(avail)
        /\ IsInjective(avail) /\ IsInjective(used') /\ Range(avail) \cap Range(used') = {}
    <3>1. Range(used') = Range(used) \ {h} /\ h \in Range(used) /\ IsInjective(used')
      BY <1>1, <1>3, <1>4, <1>8
    <3> QED BY <3>1, Zenon DEF BioInv, Requests
  <2>2. \A g \in Range(avail) \cup Range(used') : \E q \in Procs : pc'[q] \in IO /\ chain[q][1] = g
    BY <1>11, <2>1, Zenon DEF BioInv, Requests
  <2>3. ASSUME NEW q \in Procs, pc'[q] \in IO
        PROVE  /\ info[chain[q][1]] = mine[q]
               /\ buf'[mine[q]].disk <=> chain[q][1] \in Range(avail) \cup Range(used')
               /\ chain[q][1] \notin Range(avail) => buf'[mine[q]].data = platter[want[q]]
    <3>1. pc[q] \in IO /\ mine[q] \in Bufs /\ (q # p => mine[q] # k)
      BY <1>7, <1>11, <2>3, Zenon
    <3>2. /\ info[chain[q][1]] = mine[q]
          /\ buf[mine[q]].disk <=> chain[q][1] \in Range(avail) \cup Range(used)
          /\ chain[q][1] \notin Range(avail) => buf[mine[q]].data = platter[want[q]]
      BY <3>1, Zenon DEF BioInv, Requests
    <3>3. buf'[mine[q]].data = buf[mine[q]].data
      BY <1>9, <3>1
    <3>4. CASE q = p
      BY <1>5, <1>6, <1>9, <2>1, <3>2, <3>3, <3>4, Zenon
    <3>5. CASE q # p
      <4>1. chain[q][1] # h /\ buf'[mine[q]] = buf[mine[q]]
        BY <1>5, <1>9, <3>1, <3>5
      <4> QED BY <2>1, <3>2, <3>3, <4>1, Zenon
    <3> QED BY <3>4, <3>5, Zenon
  <2> QED BY <1>12, <2>1, <2>2, <2>3, Zenon DEF Requests
<1>17. NoLostWakeup'
  <2>1. \A q \in Procs : pc'[q] = "sleep_desc" => \E v \in Procs : chain'[v] # <<>> \/ pc'[v] = "rw"
    <3>1. \A v \in Procs : pc[v] = "rw" => pc'[v] = "rw"
      BY <1>10, Zenon
    <3> QED BY <1>10, <1>12, <3>1, Zenon DEF BioInv, NoLostWakeup
  <2>2. \A q \in Procs : /\ pc'[q] = "sleep_lock" => pc[q] = "sleep_lock"
                         /\ pc'[q] = "sleep_io" => pc[q] = "sleep_io" /\ mine[q] # k
    BY <1>10
  <2>3. buf'[k].locked # Nobody /\ intr' = "loop"
    BY <1>7, <1>8, <1>9, BlockAssumption
  <2>4. Awaited(k)
    BY <1>9, <1>12, <2>1, <2>2, <2>3 DEF Awaited
  <2> QED BY <2>4, Wakeups
<1> QED BY <1>13, <1>14, <1>15, <1>16, <1>17 DEF BioInv

LEMMA BioInitial ==
  ASSUME Init, Cardinality({}) = 0
  PROVE  BioInv
<1>1. /\ platter = [b \in Blocks |-> InitVal] /\ free = Desc /\ avail = <<>> /\ used = <<>>
      /\ lru = [k \in Bufs |-> NBUF + 1 - k] /\ num \in NUM /\ info = [d \in Desc |-> 0]
      /\ pc = [p \in Procs |-> "idle"] /\ want = [p \in Procs |-> NoBlock]
      /\ mine = [p \in Procs |-> 0] /\ write = [p \in Procs |-> FALSE]
      /\ chain = [p \in Procs |-> <<>>]
  BY DEF Init
<1>2. /\ buf \in [Bufs -> Buf]
      /\ \A k \in Bufs : /\ buf[k].blockno = NoBlock /\ ~buf[k].valid /\ buf[k].refcnt = 0
                         /\ buf[k].locked = Nobody
  <2>1. buf = [k \in Bufs |-> [blockno |-> NoBlock, valid |-> FALSE, refcnt |-> 0,
                               locked |-> Nobody, disk |-> FALSE, data |-> InitVal]]
    BY DEF Init
  <2> QED BY <2>1, BlockAssumption DEF Buf
<1>3. BioType
  <2>1. lru \in [Bufs -> Bufs] /\ info \in [Desc -> 0 .. NBUF] /\ mine \in [Procs -> 0 .. NBUF]
    BY <1>1, BlockAssumption DEF Bufs
  <2>2. platter \in [Blocks -> Vals] /\ want \in [Procs -> Blocks \cup {NoBlock}]
    BY <1>1, BlockAssumption
  <2>3. /\ pc \in [Procs -> Labels] /\ write \in [Procs -> BOOLEAN]
        /\ chain \in [Procs -> {<<>>} \cup [1 .. 3 -> Desc]]
    BY <1>1 DEF Labels
  <2>4. num \in NUM /\ free \subseteq Desc /\ avail \in Seq(Desc) /\ used \in Seq(Desc)
    BY <1>1
  <2> QED BY <1>2, <2>1, <2>2, <2>3, <2>4 DEF BioType
<1>4. InUse /\ OneBuffer
  <2>1. \A k \in Bufs : Users(k) = {}
    BY <1>1, BlockAssumption DEF Users, Bufs
  <2> QED BY <1>1, <1>2, <2>1, Zenon DEF InUse, OneBuffer
<1>5. \A p \in Procs : pc[p] = "idle" /\ pc[p] \notin Holding /\ pc[p] \notin Transfer /\ pc[p] \notin IO
  BY <1>1 DEF Holding, Transfer, IO
<1>6. Holders /\ Contents
  BY <1>2, <1>5, BlockAssumption, Zenon DEF Holders, Contents
<1>7. Range(<<>>) = {} /\ IsInjective(<<>>)
  BY DEF Range, IsInjective
<1>8. Chains
  BY <1>1, <1>5, <1>7 DEF Chains
<1>9. Requests
  BY <1>1, <1>5, <1>7 DEF Requests
<1>10. NoLostWakeup
  BY <1>1, <1>5 DEF NoLostWakeup
<1> QED BY <1>3, <1>4, <1>6, <1>8, <1>9, <1>10 DEF BioInv

-----------------------------------------------------------------------------
(* Counting descriptors and the users of a buffer.                         *)
INSTANCE FiniteSetTheorems
INSTANCE WellFoundedInduction

(* A set of numbers that is not empty has a least element.                 *)
LEMMA Least ==
  ASSUME NEW S \in SUBSET Nat, S # {}
  PROVE  \E n \in S : \A m \in S : n <= m
<1> DEFINE R == OpToRel(<, Nat)
<1>1. \A x, y \in Nat : <<x, y>> \in R <=> x < y
  BY DEF OpToRel
<1>2. IsWellFoundedOn(OpToRel(<, Nat), Nat)
  BY NatLessThanWellFounded, Zenon
<1> HIDE DEF R
<1>3. IsWellFoundedOn(R, Nat)
  BY <1>2, Zenon DEF R
<1>4. \E x \in S : \A y \in S : ~(<<y, x>> \in R)
  BY <1>3, WFMin, Zenon
<1>5. PICK x \in S : \A y \in S : ~(<<y, x>> \in R)
  BY <1>4
<1>6. ASSUME NEW y \in S PROVE x <= y
  <2>1. x \in Nat /\ y \in Nat /\ ~(<<y, x>> \in R)
    BY <1>5
  <2>2. ~(y < x)
    BY <1>1, <2>1
  <2> QED BY <2>1, <2>2
<1> QED BY <1>6

LEMMA LeastOf ==
  ASSUME NEW S \in SUBSET Nat, IsFiniteSet(S), Cardinality(S) \in Nat \ {0}
  PROVE  \E x \in S : /\ \A y \in S : x <= y
                      /\ IsFiniteSet(S \ {x}) /\ Cardinality(S \ {x}) = Cardinality(S) - 1
<1>1. S # {}
  BY FS_EmptySet
<1>2. PICK x \in S : \A y \in S : x <= y
  BY <1>1, Least
<1>3. IsFiniteSet(S \ {x}) /\ Cardinality(S \ {x}) = Cardinality(S) - 1
  BY FS_RemoveElement
<1> QED BY <1>2, <1>3, Zenon

(* Descriptors are numbers, and finitely many.                             *)
LEMMA FreeFinite ==
  ASSUME BioType
  PROVE  free \in SUBSET Nat /\ IsFiniteSet(free) /\ Cardinality(free) \in Nat
<1>1. num \in Nat /\ free \subseteq 1 .. num
  BY BlockAssumption DEF BioType, Desc
<1>2. IsFiniteSet(1 .. num)
  BY <1>1, FS_Interval
<1>3. IsFiniteSet(free)
  BY <1>1, <1>2, FS_Subset, Zenon
<1>4. Cardinality(free) \in Nat
  BY <1>3, FS_CardinalityType
<1> QED BY <1>1, <1>3, <1>4

(* alloc3_desc() finds three descriptors when there are three.             *)
LEMMA Three ==
  ASSUME BioType, Cardinality(free) >= 3
  PROVE  First3 \in [1 .. 3 -> free]
<1>3. free \in SUBSET Nat /\ IsFiniteSet(free) /\ Cardinality(free) \in Nat
  BY FreeFinite
<1>4. PICK F \in SUBSET Nat : F = free
  BY <1>3
<1>5. PICK a \in F : /\ \A y \in F : a <= y
                     /\ IsFiniteSet(F \ {a}) /\ Cardinality(F \ {a}) = Cardinality(F) - 1
  BY <1>3, <1>4, LeastOf
<1>6. PICK A \in SUBSET Nat : A = F \ {a}
  BY Zenon
<1>7. IsFiniteSet(A) /\ Cardinality(A) >= 2 /\ Cardinality(A) \in Nat \ {0}
  BY <1>3, <1>4, <1>5, <1>6
<1>8. PICK b \in A : /\ \A y \in A : b <= y
                     /\ IsFiniteSet(A \ {b}) /\ Cardinality(A \ {b}) = Cardinality(A) - 1
  BY <1>7, LeastOf
<1>9. PICK B \in SUBSET Nat : B = A \ {b}
  BY Zenon
<1>10. IsFiniteSet(B) /\ Cardinality(B) \in Nat \ {0}
  BY <1>7, <1>8, <1>9
<1>11. PICK c \in B : \A y \in B : c <= y
  BY <1>10, LeastOf, Zenon
<1> DEFINE s == [i \in 1 .. 3 |-> IF i = 1 THEN a ELSE IF i = 2 THEN b ELSE c]
<1>12. s \in [1 .. 3 -> free] /\ s[1] = a /\ s[2] = b /\ s[3] = c
  BY <1>4, <1>5, <1>6, <1>8, <1>9, <1>11
<1>13. a < b /\ b < c /\ \A d \in free : d >= c \/ d \in {a, b}
  BY <1>4, <1>5, <1>6, <1>8, <1>9, <1>11
<1> HIDE DEF s
<1>14. \E t \in [1 .. 3 -> free] : /\ t[1] < t[2] /\ t[2] < t[3]
                                   /\ \A d \in free : d >= t[3] \/ d \in {t[1], t[2]}
  BY <1>12, <1>13
<1> QED BY <1>14, Zenon DEF First3

(* bget() recycles a buffer that exists and that nobody refers to.         *)
LEMMA Recycled ==
  ASSUME BioType, Unused # {}
  PROVE  Victim \in Bufs /\ buf[Victim].refcnt = 0
<1>1. Unused \subseteq 1 .. NBUF /\ NBUF \in Nat
  BY BlockAssumption DEF Unused, Bufs
<1> DEFINE S == {n \in Nat : NBUF - n \in Unused}
<1>2. S \in SUBSET Nat
  OBVIOUS
<1>3. S # {}
  <2>1. PICK i : i \in Unused
    OBVIOUS
  <2>2. NBUF - i \in Nat /\ NBUF - (NBUF - i) = i
    BY <1>1, <2>1
  <2> QED BY <2>1, <2>2
<1>4. PICK n \in S : \A m \in S : n <= m
  <2> HIDE DEF S
  <2> QED BY <1>2, <1>3, Least
<1>5. NBUF - n \in Unused /\ n \in Nat
  BY <1>4
<1>6. ASSUME NEW j \in Unused PROVE j <= NBUF - n
  <2>1. j \in 1 .. NBUF /\ NBUF - j \in Nat /\ NBUF - (NBUF - j) = j
    BY <1>1
  <2>2. NBUF - j \in S
    BY <2>1
  <2>3. n <= NBUF - j
    BY <1>4, <2>2
  <2> QED BY <1>1, <1>5, <2>1, <2>3
<1>7. \E i \in Unused : \A j \in Unused : j <= i
  BY <1>5, <1>6
<1>8. PICK i \in Unused : Victim = lru[i]
  BY <1>7, Zenon DEF Victim
<1> QED BY <1>8 DEF Unused, BioType

(* Without requests under way all descriptors are free, and they are three *)
(* at least.                                                               *)
LEMMA SomeChain ==
  ASSUME BioInv, Cardinality(free) < 3
  PROVE  \E q \in Procs : chain[q] # <<>>
<1> SUFFICES ASSUME \A q \in Procs : chain[q] = <<>> PROVE FALSE
  OBVIOUS
<1>1. \A q \in Procs : Range(chain[q]) = {}
  BY DEF Range
<1>2. free = Desc
  BY <1>1, Zenon DEF BioInv, BioType, Chains
<1>3. num \in Nat /\ num >= 3
  BY BlockAssumption DEF BioInv, BioType
<1>4. Cardinality(1 .. num) = num
  BY <1>3, FS_Interval
<1> QED BY <1>2, <1>3, <1>4 DEF Desc

(* A process more, or a process less, that uses a buffer.                  *)
LEMMA Joins ==
  ASSUME BioInv, NEW p \in Procs, NEW k \in Bufs, mine[p] = 0, mine' = [mine EXCEPT ![p] = k]
  PROVE  Joined(k)
<1>1. 0 \notin Bufs /\ mine'[p] = k /\ \A q \in Procs : q # p => mine'[q] = mine[q]
  BY BlockAssumption DEF BioInv, BioType, Bufs
<1>2. Users(k)' = Users(k) \cup {p} /\ p \notin Users(k)
  BY <1>1 DEF Users
<1>3. \A j \in Bufs : j # k => Users(j)' = Users(j)
  BY <1>1 DEF Users
<1>4. Users(k) \in SUBSET Procs /\ IsFiniteSet(Procs)
  BY BlockAssumption DEF Users
<1>5. IsFiniteSet(Users(k))
  BY <1>4, FS_Subset
<1>6. Cardinality(Users(k) \cup {p}) = Cardinality(Users(k)) + 1
  BY <1>2, <1>5, FS_AddElement, Zenon
<1>7. Cardinality(Users(k)) = 0 => Users(k) = {}
  BY <1>5, FS_EmptySet
<1> QED BY <1>2, <1>3, <1>6, <1>7 DEF Joined

LEMMA Leaves ==
  ASSUME BioInv, NEW p \in Procs, NEW k \in Bufs, mine[p] = k, mine' = [mine EXCEPT ![p] = 0]
  PROVE  Left(k)
<1>1. 0 \notin Bufs /\ mine'[p] = 0 /\ \A q \in Procs : q # p => mine'[q] = mine[q]
  BY BlockAssumption DEF BioInv, BioType, Bufs
<1>2. Users(k)' = Users(k) \ {p} /\ p \in Users(k)
  BY <1>1 DEF Users
<1>3. \A j \in Bufs : j # k => Users(j)' = Users(j)
  BY <1>1 DEF Users
<1>4. Users(k) \in SUBSET Procs /\ IsFiniteSet(Procs)
  BY BlockAssumption DEF Users
<1>5. IsFiniteSet(Users(k))
  BY <1>4, FS_Subset
<1>6. Cardinality(Users(k) \ {p}) = Cardinality(Users(k)) - 1
  BY <1>2, <1>5, FS_RemoveElement, Zenon
<1>7. Cardinality(Users(k)) \in Nat /\ Cardinality(Users(k)) # 0
  BY <1>2, <1>5, FS_CardinalityType, FS_EmptySet
<1> QED BY <1>2, <1>3, <1>6, <1>7 DEF Left

(* Every step keeps the invariant.                                         *)
LEMMA BioStep ==
  ASSUME BioInv, [Next]_vars
  PROVE  BioInv'
<1>1. ASSUME NEW p \in Procs, acquiresleep(p) PROVE BioInv'
  BY <1>1, WaitLockStep, LockStep
<1>2. ASSUME NEW p \in Procs, virtio_disk_rw(p) PROVE BioInv'
  <2>1. ASSUME alloc3_fails(p) PROVE BioInv'
    <3>1. \E q \in Procs : chain[q] # <<>>
      BY <2>1, SomeChain DEF alloc3_fails
    <3> QED BY <2>1, <3>1, AllocFailsStep
  <2>2. ASSUME Submit(p) PROVE BioInv'
    <3>1. BioType /\ Cardinality(free) >= 3
      BY <2>2 DEF Submit, BioInv
    <3>2. First3 \in [1 .. 3 -> free]
      BY <3>1, Three
    <3> QED BY <2>2, <3>2, SubmitStep
  <2> QED BY <1>2, <2>1, <2>2, SleepIOStep, CompleteStep DEF virtio_disk_rw
<1>3. ASSUME virtio_disk_intr PROVE BioInv'
  BY <1>3, IntrStep, IntrLoopStep DEF virtio_disk_intr
<1>4. ASSUME panic \/ Done \/ UNCHANGED vars PROVE BioInv'
  BY <1>4, IntrStep DEF panic, Done
<1>5. ASSUME NEW p \in Procs, brelse(p) PROVE BioInv'
  <2>1. PICK k \in Bufs : k = mine[p]
    BY <1>5 DEF brelse, At, BioInv, InUse
  <2>2. mine' = [mine EXCEPT ![p] = 0]
    BY <1>5 DEF brelse
  <2>3. Left(k)
    BY <2>1, <2>2, Leaves, Zenon
  <2> QED BY <1>5, <2>1, <2>3, BrelseStep
<1>6. ASSUME NEW p \in Procs, NEW b \in Blocks, bget(p, b) PROVE BioInv'
  <2>1. mine[p] = 0
    BY <1>6 DEF bget, At, BioInv, InUse
  <2>2. \A k \in Bufs : mine' = [mine EXCEPT ![p] = k] => Joined(k)
    BY <2>1, Joins, Zenon
  <2>3. Unused # {} => Victim \in Bufs /\ buf[Victim].refcnt = 0
    BY Recycled DEF BioInv
  <2> QED BY <1>6, <2>2, <2>3, BgetStep
<1> QED BY <1>1, <1>2, <1>3, <1>4, <1>5, <1>6, BwriteStep, ReleaseStep, DeviceStep
        DEF Next

LEMMA BioInvariant == Spec => []BioInv
<1>1. Init => BioInv
  BY BioInitial, FS_EmptySet
<1>2. BioInv /\ [Next]_vars => BioInv'
  BY BioStep
<1> QED BY <1>1, <1>2, PTL DEF Spec

(* For any processes, blocks and contents, any number of buffers and any   *)
(* queue of three descriptors or more: what bread() returns is the block   *)
(* that was asked for, valid, locked by its caller and as it is on disk.   *)
THEOREM BlockBreadReturnsBlock == Spec => []BreadReturnsBlock
<1>1. BioInv => BreadReturnsBlock
  BY HoldersDiffer, Zenon DEF BioInv, Contents, BreadReturnsBlock, Holding
<1> QED BY <1>1, BioInvariant, PTL

(* And no interrupt of the disk and no wakeup of a process that waits for  *)
(* descriptors, for the lock of a buffer or for its transfer is lost.      *)
THEOREM BlockNoLostWakeup == Spec => []NoLostWakeup
<1>1. BioInv => NoLostWakeup
  BY DEF BioInv
<1> QED BY <1>1, BioInvariant, PTL
=============================================================================
