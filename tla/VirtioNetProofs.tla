-------------------------- MODULE VirtioNetProofs --------------------------
(***************************************************************************)
(* The invariants of the transmit side hold in the whole driver, for every *)
(* number of threads, descriptors and frames, with the interrupt handler   *)
(* taking vnet_lock for the receive ring and transmitting itself.  The     *)
(* handler's steps change nothing of the transmit side but the lock: what  *)
(* has to be shown is that it gives back only a lock that is its own, and  *)
(* that it never has it while it transmits (acquire() would panic).        *)
(* The second half is about the receive ring: frames are handled once and  *)
(* in order, for any number of chains.                                     *)
(***************************************************************************)
EXTENDS VirtioNet, VirtioNetTxProofs

(* How long a leaf may take: SMT first, then Zenon.                          *)
USE SMTT(20), ZenonT(30)

(* In its loop the handler has the lock, and it is in transmit_packet only *)
(* while a frame is with handle_packet.                                    *)
HandlerLock == /\ rxpc = "loop" => lock = Intr
               /\ pc[Intr] # "idle" => rxpc = "repost"

NetInv == TxInv /\ HandlerLock

(* A change of the lock alone keeps TxInv if whoever needs the lock keeps  *)
(* it.                                                                     *)
LEMMA LockOnly ==
  ASSUME TxInv, UNCHANGED txRest, LockHeld', lock' \in Threads \cup {NoThread}
  PROVE  TxInv'
  <1> USE DEF txRest, threadVars, deviceVars, history
  <1>1. TypeOK'
    BY Zenon DEF TxInv, TypeOK
  <1>2. FoundStillFree' /\ Counted' /\ NeverFreesFree'
    BY Zenon DEF TxInv, FoundStillFree, Counted, NeverFreesFree
  <1>3. DescriptorsOwned'
    BY DEF TxInv, DescriptorsOwned, Holds
  <1>4. DescriptorsAccounted'
    BY DEF TxInv, DescriptorsAccounted, Holds
  <1> QED BY <1>1, <1>2, <1>3, <1>4 DEF TxInv

(* A step of the handler keeps both.                                       *)
LEMMA HandlerStep ==
  ASSUME NetInv, Handler
  PROVE  NetInv'
  <1> USE NetConstants, TxConstants
  <1>1. CASE Interrupt \/ Repost
    <2>1. lock = NoThread /\ lock' = Intr /\ UNCHANGED txRest
      BY <1>1 DEF Interrupt, Repost, Acquire
    <2>2. pc' = pc /\ pc[Intr] = "idle"
      BY <1>1, <2>1 DEF txRest, threadVars, NetInv, HandlerLock, Interrupt,
                        Rx!Interrupt, Repost, Reacquire
    <2>3. LockHeld'
      BY <2>1, <2>2 DEF NetInv, TxInv, LockHeld
    <2>4. HandlerLock'
      BY <2>1, <2>2 DEF HandlerLock
    <2> QED BY <2>1, <2>3, <2>4, LockOnly DEF NetInv
  <1>2. CASE Fetch \/ Complete
    <2>1. rxpc = "loop" /\ rxpc' # "loop" /\ lock' = NoThread /\ UNCHANGED txRest
      BY <1>2 DEF Fetch, Complete, Rx!Fetch, Rx!Complete
    <2>2. lock = Intr /\ pc[Intr] = "idle" /\ pc' = pc
      BY <2>1 DEF NetInv, HandlerLock, txRest, threadVars
    <2>3. LockHeld'
      BY <2>2 DEF NetInv, TxInv, LockHeld, Locked
    <2> QED BY <2>1, <2>2, <2>3, LockOnly DEF NetInv, HandlerLock
  <1>3. CASE Handle
    <2>1. UNCHANGED <<lock, txRest>> /\ rxpc = "handle" /\ rxpc' # "loop"
      BY <1>3 DEF Handle, Rx!Handle, vars, kernelVars, txRest
    <2>2. LockHeld' /\ lock' \in Threads \cup {NoThread}
      BY <2>1, Zenon DEF NetInv, TxInv, TypeOK, LockHeld, txRest, threadVars
    <2> QED BY <2>1, <2>2, LockOnly DEF NetInv, HandlerLock, txRest, threadVars
  <1> QED BY <1>1, <1>2, <1>3 DEF Handler

(* A step of the transmit side is one of VirtioNetTx, and one of the       *)
(* handler's only when it answers.                                         *)
LEMMA TransmitStep ==
  ASSUME NetInv, panicked = "no", NEW t \in Threads, Transmit(t)
  PROVE  NetInv'
  <1> USE NetConstants, TxConstants
  <1>1. Next
    BY DEF Transmit, Next
  <1>2. TxInv'
    BY <1>1, TypeStep, LockStep, CountedStep, NeverFreesFreeStep, FoundStep,
       OwnedStep, AccountedStep DEF NetInv, TxInv
  <1>3. rxpc' = rxpc
    BY DEF Transmit, rxVars
  <1>4. pc'[Intr] # "idle" => rxpc = "repost"
    <2>1. CASE t = Intr
      BY <2>1 DEF NetInv, HandlerLock, Transmit, MustAnswer
    <2>2. CASE t # Intr
      <3>1. pc'[Intr] = pc[Intr]
        BY <2>2, Zenon DEF Transmit, transmit_packet, NetInv, TxInv, TypeOK, Enter, ClaimHdr,
                    ClaimPkt, Fill, Publish, Sample, PollDone, Return
      <3> QED BY <3>1 DEF NetInv, HandlerLock
    <2> QED BY <2>1, <2>2
  <1>5. rxpc = "loop" => lock' = Intr
    <2> SUFFICES ASSUME rxpc = "loop" PROVE lock' = Intr
      OBVIOUS
    <2>1. lock = Intr /\ pc[Intr] = "idle"
      BY DEF NetInv, HandlerLock
    <2>2. pc[t] \notin Locked
      BY <2>1 DEF NetInv, TxInv, LockHeld, Locked
    <2>3. lock # NoThread
      BY <2>1
    <2> QED BY <2>1, <2>2, <2>3, Zenon
            DEF Locked, Transmit, transmit_packet, Enter, Acquire, ClaimHdr, ClaimPkt,
                Fill, Publish, Sample, PollDone, Return
  <1> QED BY <1>2, <1>3, <1>4, <1>5 DEF NetInv, HandlerLock

(* The whole driver keeps the invariant of the transmit side.              *)
THEOREM NetInvariant == NetSpec => []NetInv
  <1>1. NetInit => NetInv
    BY InitTxInv, NetConstants DEF NetInit, NetInv, HandlerLock, Init, Rx!Init
  <1>2. NetInv /\ [NetNext]_netVars => NetInv'
    <2> SUFFICES ASSUME NetInv, [NetNext]_netVars PROVE NetInv'
      OBVIOUS
    <2>1. ASSUME panicked = "no", NEW t \in Threads, Transmit(t) PROVE NetInv'
      BY <2>1, TransmitStep
    <2>2. ASSUME panicked = "no", Device, UNCHANGED rxVars PROVE NetInv'
      <3>1. Next
        BY <2>2 DEF Next
      <3>2. TxInv'
        BY <3>1, TypeStep, LockStep, CountedStep, NeverFreesFreeStep, FoundStep,
           OwnedStep, AccountedStep DEF NetInv, TxInv
      <3>3. UNCHANGED <<lock, pc, rxpc>>
        BY <2>2 DEF Device, DeviceTake, DeviceSend, DeviceIdle, kernelVars, threadVars,
                    rxVars
      <3> QED BY <3>2, <3>3 DEF NetInv, HandlerLock
    <2>3. ASSUME Rx!DeviceReceive, UNCHANGED vars PROVE NetInv'
      <3>1. UNCHANGED <<lock, txRest>> /\ rxpc' = rxpc
        BY <2>3 DEF Rx!DeviceReceive, vars, kernelVars, txRest
      <3>2. LockHeld' /\ lock' \in Threads \cup {NoThread}
        BY <3>1, Zenon DEF NetInv, TxInv, TypeOK, LockHeld, txRest, threadVars
      <3> QED BY <3>1, <3>2, LockOnly DEF NetInv, HandlerLock, txRest, threadVars
    <2>4. CASE Handler
      BY <2>4, HandlerStep
    <2>5. CASE UNCHANGED netVars
      <3>1. UNCHANGED <<lock, txRest, rxpc>>
        BY <2>5 DEF netVars, rxVars, vars, kernelVars, txRest
      <3>2. LockHeld' /\ lock' \in Threads \cup {NoThread}
        BY <3>1, Zenon DEF NetInv, TxInv, TypeOK, LockHeld, txRest, threadVars
      <3> QED BY <3>1, <3>2, LockOnly DEF NetInv, HandlerLock, txRest, threadVars
    <2> QED BY <2>1, <2>2, <2>3, <2>4, <2>5 DEF NetNext
  <1> QED BY <1>1, <1>2, PTL DEF NetSpec

(* No descriptor is claimed by two threads, the handler among them, and    *)
(* none that a request uses is free: the receive interrupt, which takes    *)
(* and gives back vnet_lock between any two steps of a sender, does not    *)
(* disturb alloc_desc.                                                     *)
THEOREM NetDescriptorsOwned == NetSpec => []DescriptorsOwned
  BY NetInvariant, PTL DEF NetInv, TxInv

(* The handler never transmits with vnet_lock in hand, which acquire()     *)
(* would answer with a panic, and nobody releases it in the handler's loop. *)
THEOREM NetHandlerLock == NetSpec => []HandlerLock
  BY NetInvariant, PTL DEF NetInv

(* A call of transmit_packet that overlaps no other, the answers of the    *)
(* interrupt handler among them, has sent its frame when it returns, and   *)
(* sent it once: the handler's work on the receive ring between any two of *)
(* its steps does not count as an overlap.  As in TxAloneIsSentOnce there  *)
(* are fewer pages than ring indices.                                      *)
THEOREM NetAloneIsSentOnce ==
  ASSUME Pages < IdxMod
  PROVE  NetSpec => []AloneIsSentOnce
<1>1. NetInit => AloneInv
  BY AloneInitial DEF NetInit
<1>2. NetInv /\ AloneInv /\ [NetNext]_netVars => AloneInv'
  <2> SUFFICES ASSUME NetInv, AloneInv, [NetNext]_netVars PROVE AloneInv'
    OBVIOUS
  <2>1. Next \/ UNCHANGED txRest
    BY DEF NetNext, Next, Transmit, Handler, Interrupt, Fetch, Complete, Handle, Repost,
           netVars, vars, kernelVars, txRest
  <2>2. CASE Next
    BY <2>2, AloneStep DEF NetInv
  <2>3. CASE UNCHANGED txRest
    BY <2>3, AloneUnchanged DEF txRest, threadVars, deviceVars, history
  <2> QED BY <2>1, <2>2, <2>3
<1>3. AloneInv => AloneIsSentOnce
  BY DEF AloneInv, AloneDone, AloneIsSentOnce
<1> QED BY <1>1, <1>2, <1>3, NetInvariant, PTL DEF NetSpec

-----------------------------------------------------------------------------
(* Arithmetic of the ring indices: NUM and IdxMod are constants, so that   *)
(* remainders have to be taken apart by hand.                              *)

(* Quotient and remainder.                                                *)
LEMMA Division ==
  ASSUME NEW a \in Int, NEW n \in Nat \ {0}
  PROVE  \E q \in Int, r \in 0 .. n - 1 : a % n = r /\ a = n * q + r
<1>1. a \div n \in Int
  OBVIOUS
<1>2. a % n \in 0 .. n - 1
  OBVIOUS
<1>3. a = n * (a \div n) + (a % n)
  OBVIOUS
<1> WITNESS a \div n \in Int, a % n \in 0 .. n - 1
<1> QED BY <1>3

(* The only multiple of n between -n and n.                                *)
LEMMA MulZero ==
  ASSUME NEW n \in Nat \ {0}, NEW q \in Int, n * q > 0 - n, n * q < n
  PROVE  q = 0
  OBVIOUS

(* Multiplication distributes.                                             *)
LEMMA Distribute ==
  ASSUME NEW n \in Int, NEW p \in Int, NEW q \in Int
  PROVE  n * (p + q) = n * p + n * q /\ n * (p - q) = n * p - n * q
  OBVIOUS

(* There is one remainder.                                                 *)
LEMMA ModUnique ==
  ASSUME NEW a \in Int, NEW n \in Nat \ {0}, NEW q \in Int, NEW r \in 0 .. n - 1,
         a = n * q + r
  PROVE  a % n = r
<1>1. PICK p \in Int, s \in 0 .. n - 1 : a % n = s /\ a = n * p + s
  BY Division, Zenon
<1>2. n * (q - p) = s - r
  BY <1>1, Distribute
<1>3. PICK d \in Int : d = q - p
  OBVIOUS
<1>4. n * d = s - r
  BY <1>2, <1>3
<1>5. d = 0
  BY <1>4, MulZero
<1> QED BY <1>1, <1>4, <1>5

(* A number below n is its own remainder.                                  *)
LEMMA ModSmall ==
  ASSUME NEW n \in Nat \ {0}, NEW a \in 0 .. n - 1
  PROVE  a % n = a
  OBVIOUS

(* Adding a multiple of n keeps the remainder.                             *)
LEMMA ModPlus ==
  ASSUME NEW a \in Int, NEW n \in Nat \ {0}, NEW b \in Int, b % n = 0
  PROVE  (a + b) % n = a % n
<1>1. PICK p \in Int, r \in 0 .. n - 1 : a % n = r /\ a = n * p + r
  BY Division, Zenon
<1>2. PICK q \in Int : b = n * q
  <2>1. PICK q \in Int, s \in 0 .. n - 1 : b % n = s /\ b = n * q + s
    BY Division, Zenon
  <2>2. s = 0
    BY <2>1
  <2> QED BY <2>1, <2>2
<1>3. PICK c \in Int, d \in Int : c = a + b /\ d = p + q
  OBVIOUS
<1>4. n * d = n * p + n * q
  BY <1>3, Distribute
<1>5. c = n * d + r
  BY <1>1, <1>2, <1>3, <1>4
<1>6. c % n = r
  BY <1>5, ModUnique
<1> QED BY <1>1, <1>3, <1>6

(* Numbers less than n apart have different remainders.                    *)
LEMMA ModDistinct ==
  ASSUME NEW n \in Nat \ {0}, NEW a \in Int, NEW b \in Int, a < b, b < a + n
  PROVE  a % n # b % n
<1> SUFFICES ASSUME a % n = b % n PROVE FALSE
  OBVIOUS
<1>1. PICK p \in Int, r \in 0 .. n - 1 : a % n = r /\ a = n * p + r
  BY Division, Zenon
<1>2. PICK q \in Int, s \in 0 .. n - 1 : b % n = s /\ b = n * q + s
  BY Division, Zenon
<1>3. PICK d \in Int : d = q - p
  OBVIOUS
<1>4. n * d = b - a
  <2>1. n * d = n * q - n * p
    BY <1>3, Distribute
  <2> QED BY <1>1, <1>2, <2>1
<1>5. d = 0
  BY <1>4, MulZero
<1> QED BY <1>4, <1>5

(* A 16-bit index that has wrapped at most once.                           *)
LEMMA Wrapped ==
  ASSUME NEW m \in Nat \ {0}, NEW a \in 0 .. 2 * m - 1
  PROVE  a % m = IF a < m THEN a ELSE a - m
<1>1. CASE a < m
  <2>1. a = m * 0 + a /\ a \in 0 .. m - 1
    BY <1>1
  <2> QED BY <1>1, <2>1, ModUnique
<1>2. CASE ~(a < m)
  <2>1. PICK r \in 0 .. m - 1 : r = a - m
    BY <1>2
  <2>2. a = m * 1 + r
    BY <2>1
  <2>3. a % m = r
    BY <2>2, ModUnique
  <2> QED BY <1>2, <2>1, <2>3
<1> QED BY <1>1, <1>2

-----------------------------------------------------------------------------
(* The receive ring.  The chain of the k-th entry that is made available,  *)
(* and of the k-th that is used, counted from 0 and for ever.              *)
Half == RxNUM \div 2
Chain(k) == 2 * (k % Half)

RxType ==
  /\ rxring \in [Rx!Slots -> Rx!Heads]
  /\ uring \in [Rx!Slots -> Rx!Heads]
  /\ buf \in [Rx!Heads -> Nat]
  /\ used_idx \in Nat
  /\ id \in Rx!Heads
  /\ rxpc \in {"out", "loop", "handle", "repost"}
  /\ arrived \in 0 .. MaxRx
  /\ delivered \in Seq(Nat) /\ handled \in Seq(Nat)

(* The device is ahead of the driver by no more entries than there are     *)
(* chains.                                                                 *)
Ahead ==
  /\ Len(delivered) <= arrived
  /\ uidx = Len(delivered) /\ rxlast = Len(delivered)
  /\ used_idx <= Len(delivered) /\ Len(delivered) <= used_idx + Half
  /\ rxavail = (used_idx + Half) % IdxMod

(* The chains the device may still fill are in the available ring, and the *)
(* chains it has filled are in the used ring with their frames.            *)
Posted ==
  \A k \in Nat : Len(delivered) <= k /\ k < used_idx + Half =>
    rxring[k % RxNUM] = Chain(k)
Filled ==
  \A k \in Nat : used_idx <= k /\ k < Len(delivered) =>
    uring[k % RxNUM] = Chain(k) /\ buf[Chain(k)] = delivered[k + 1]

(* The chain in hand is the first one that was filled and not yet posted   *)
(* again.                                                                  *)
InHand ==
  /\ rxpc \in {"handle", "repost"} => used_idx < Len(delivered) /\ id = Chain(used_idx)
  /\ Len(handled) = IF rxpc = "repost" THEN used_idx + 1 ELSE used_idx

RxInv == RxType /\ Ahead /\ Posted /\ Filled /\ InHand /\ HandledInOrder

(* The sizes: half as many chains as descriptors, and indices that count   *)
(* at least as far as there are descriptors.                               *)
LEMMA RxSizes ==
  /\ Half \in Nat \ {0} /\ RxNUM = 2 * Half /\ RxNUM \in Nat \ {0}
  /\ IdxMod \in Nat \ {0} /\ RxNUM <= IdxMod
<1>1. Half \in Nat \ {0} /\ RxNUM = 2 * Half
  BY NetConstants DEF Half
<1>2. IdxMod \in Nat \ {0}
  BY TxConstants
<1>3. RxNUM <= IdxMod
  <2> SUFFICES ASSUME IdxMod < RxNUM PROVE FALSE
    BY <1>2, NetConstants
  <2>1. IdxMod \in 0 .. RxNUM - 1
    BY <1>2, NetConstants
  <2>2. IdxMod % RxNUM = IdxMod
    BY <2>1, NetConstants, ModSmall
  <2> QED BY <1>2, <2>2, NetConstants
<1> QED BY <1>1, <1>2, <1>3, NetConstants

(* The places of the k-th entry, and the chain that comes round again.     *)
LEMMA Places ==
  ASSUME NEW k \in Nat
  PROVE  /\ k % RxNUM \in Rx!Slots /\ Chain(k) \in Rx!Heads
         /\ Chain(k + Half) = Chain(k)
<1>1. k % RxNUM \in Rx!Slots
  BY RxSizes DEF Rx!Slots
<1>2. k % Half \in 0 .. Half - 1
  BY RxSizes
<1>3. Chain(k) \in Rx!Heads
  BY <1>2 DEF Chain, Half, Rx!Heads
<1>4. (k + Half) % Half = k % Half
  <2>1. Half % Half = 0
    <3>1. Half = Half * 1 + 0 /\ 0 \in 0 .. Half - 1
      BY RxSizes
    <3> QED BY <3>1, RxSizes, ModUnique
  <2>2. k \in Int /\ Half \in Int
    BY RxSizes
  <2> QED BY <2>1, <2>2, RxSizes, ModPlus, Zenon
<1> QED BY <1>1, <1>3, <1>4 DEF Chain

(* Different entries of the last round are in different places.            *)
LEMMA Apart ==
  ASSUME NEW a \in Nat, NEW b \in Nat, a < b
  PROVE  /\ b <= a + Half => a % RxNUM # b % RxNUM
         /\ b < a + Half => Chain(a) # Chain(b)
<1>0. a \in Int /\ b \in Int
  OBVIOUS
<1>1. ASSUME b <= a + Half PROVE a % RxNUM # b % RxNUM
  <2>1. b < a + RxNUM
    BY <1>1, RxSizes
  <2> QED BY <1>0, <2>1, RxSizes, ModDistinct, Zenon
<1>2. ASSUME b < a + Half PROVE a % Half # b % Half
  BY <1>0, <1>2, RxSizes, ModDistinct, Zenon
<1>3. a % Half \in Int /\ b % Half \in Int
  BY RxSizes
<1> QED BY <1>1, <1>2, <1>3 DEF Chain

(* The available index is found again in its ring, wrapped or not.         *)
LEMMA AvailPlace ==
  ASSUME NEW a \in Nat, a < 2 * IdxMod - 1
  PROVE  /\ (a % IdxMod) % RxNUM = a % RxNUM
         /\ ((a % IdxMod) + 1) % IdxMod = (a + 1) % IdxMod
<1>1. a % IdxMod = IF a < IdxMod THEN a ELSE a - IdxMod
  <2>1. a \in 0 .. 2 * IdxMod - 1
    BY RxSizes
  <2> QED BY <2>1, RxSizes, Wrapped, Zenon
<1>2. (a + 1) % IdxMod = IF a + 1 < IdxMod THEN a + 1 ELSE a + 1 - IdxMod
  <2>1. PICK b \in 0 .. 2 * IdxMod - 1 : b = a + 1
    BY RxSizes
  <2>2. b % IdxMod = IF b < IdxMod THEN b ELSE b - IdxMod
    BY RxSizes, Wrapped, Zenon
  <2>3. (a + 1) % IdxMod = b % IdxMod
    BY <2>1
  <2>4. (IF a + 1 < IdxMod THEN a + 1 ELSE a + 1 - IdxMod) = IF b < IdxMod THEN b ELSE b - IdxMod
    BY <2>1, RxSizes
  <2> QED BY <2>2, <2>3, <2>4
<1>3. CASE a < IdxMod
  BY <1>1, <1>3
<1>4. CASE ~(a < IdxMod)
  <2>1. PICK c \in Nat : c = a - IdxMod
    BY <1>4, RxSizes
  <2>2. (c + IdxMod) % RxNUM = c % RxNUM
    <3>1. c \in Int /\ IdxMod \in Int /\ IdxMod % RxNUM = 0
      BY RxSizes, NetConstants
    <3> QED BY <3>1, RxSizes, ModPlus, Zenon
  <2>3. c + IdxMod = a
    BY <2>1, RxSizes
  <2>4. (c + 1) % IdxMod = c + 1
    <3>1. c + 1 \in 0 .. IdxMod - 1
      BY <2>1, RxSizes
    <3> QED BY <3>1, RxSizes, ModSmall
  <2>5. a + 1 - IdxMod = c + 1 /\ ~(a + 1 < IdxMod)
    BY <1>4, <2>1, RxSizes
  <2> QED BY <1>1, <1>2, <1>4, <2>1, <2>2, <2>3, <2>4, <2>5
<1> QED BY <1>3, <1>4

-----------------------------------------------------------------------------
(* Every step keeps the invariant of the receive ring.                     *)
LEMMA RxInitial ==
  ASSUME Rx!Init
  PROVE  RxInv
<1> USE RxSizes DEF Rx!Init
<1>1. 0 \in Rx!Heads
  <2>1. Chain(0) \in Rx!Heads /\ Chain(0) = 0
    BY Places, ModSmall DEF Chain
  <2> QED BY <2>1
<1>2. ASSUME NEW k \in Nat, k < Half
      PROVE  rxring[k % RxNUM] = Chain(k) /\ rxring[k] = Chain(k) /\ Chain(k) \in Rx!Heads
  <2>1. k \in 0 .. RxNUM - 1 /\ k \in 0 .. Half - 1
    BY <1>2
  <2>2. k % RxNUM = k /\ k % Half = k
    BY <2>1, ModSmall
  <2>3. k \in Rx!Slots /\ k < RxNUM \div 2
    BY <1>2, <2>1 DEF Rx!Slots, Half
  <2>4. rxring[k] = 2 * k
    BY <2>3
  <2> QED BY <2>2, <2>4, Places, Zenon DEF Chain
<1>3. rxring \in [Rx!Slots -> Rx!Heads]
  <2>1. ASSUME NEW s \in Rx!Slots PROVE rxring[s] \in Rx!Heads
    <3>1. s \in Nat
      BY DEF Rx!Slots
    <3>2. CASE s < Half
      <4>1. \A k \in Nat : k < Half => rxring[k] = Chain(k) /\ Chain(k) \in Rx!Heads
        BY <1>2, Zenon
      <4> QED BY <3>1, <3>2, <4>1, Zenon
    <3>3. CASE ~(s < Half)
      BY <1>1, <3>3 DEF Half
    <3> QED BY <3>2, <3>3
  <2>2. rxring = [s \in Rx!Slots |-> rxring[s]]
    OBVIOUS
  <2> QED BY <2>1, <2>2
<1>4. RxType
  <2>1. delivered = <<>> /\ handled = <<>> /\ <<>> \in Seq(Nat)
    OBVIOUS
  <2> QED BY <1>1, <1>3, <2>1, NetConstants DEF RxType
<1>5. Len(delivered) = 0 /\ Len(handled) = 0
  OBVIOUS
<1>6. Ahead
  BY <1>5 DEF Ahead, Half
<1>7. Posted /\ Filled
  <2>1. \A k \in Nat : k < used_idx + Half => k < Half
    OBVIOUS
  <2>2. \A k \in Nat : ~(k < Len(delivered))
    BY <1>5
  <2>3. \A k \in Nat : k < Half => rxring[k % RxNUM] = Chain(k)
    BY <1>2, Zenon
  <2> QED BY <2>1, <2>2, <2>3, Zenon DEF Posted, Filled
<1>8. InHand /\ HandledInOrder
  BY <1>5 DEF InHand, HandledInOrder, Rx!HandledInOrder
<1> QED BY <1>4, <1>6, <1>7, <1>8 DEF RxInv

(* A frame is written into the chain that comes next, which no frame still *)
(* waits in, and its entry goes where no entry still waits.                *)
LEMMA RxDeviceStep ==
  ASSUME RxInv, Rx!DeviceReceive
  PROVE  RxInv'
<1> DEFINE n == Len(delivered)
<1>1. /\ n \in Nat /\ used_idx \in Nat /\ arrived \in Nat /\ n <= arrived
      /\ used_idx <= n /\ n <= used_idx + Half
      /\ arrived < MaxRx /\ arrived' = arrived + 1 /\ MaxRx < IdxMod /\ MaxRx \in Nat
      /\ uidx = n /\ rxlast = n
      /\ UNCHANGED <<rxring, rxavail, used_idx, rxpc, id, handled>>
  BY NetConstants DEF RxInv, RxType, Ahead, Rx!DeviceReceive
<1>2. CASE rxlast = rxavail
  <2>1. UNCHANGED <<buf, uring, uidx, rxlast, pending, delivered>>
    BY <1>2 DEF Rx!DeviceReceive
  <2>2. RxType'
    BY <1>1, <2>1, NetConstants DEF RxInv, RxType
  <2>3. Ahead'
    BY <1>1, <2>1 DEF RxInv, Ahead
  <2>4. Posted' /\ Filled' /\ InHand'
    BY <1>1, <2>1 DEF RxInv, Posted, Filled, InHand
  <2>5. HandledInOrder'
    BY <1>1, <2>1 DEF RxInv, HandledInOrder, Rx!HandledInOrder
  <2> QED BY <2>2, <2>3, <2>4, <2>5 DEF RxInv
<1>3. CASE rxlast # rxavail
  <2>1. n < used_idx + Half
    <3> SUFFICES ASSUME n = used_idx + Half PROVE FALSE
      BY <1>1, RxSizes
    <3>1. n \in 0 .. IdxMod - 1
      BY <1>1, RxSizes
    <3>2. n % IdxMod = n
      BY <3>1, RxSizes, ModSmall
    <3> QED BY <1>1, <1>3, <3>2 DEF RxInv, Ahead
  <2>2. rxring[n % RxNUM] = Chain(n) /\ Chain(n) \in Rx!Heads /\ n % RxNUM \in Rx!Slots
    BY <1>1, <2>1, Places DEF RxInv, Posted
  <2>3. /\ buf' = [buf EXCEPT ![Chain(n)] = arrived + 1]
        /\ uring' = [uring EXCEPT ![n % RxNUM] = Chain(n)]
        /\ uidx' = (n + 1) % IdxMod /\ rxlast' = (n + 1) % IdxMod
        /\ delivered' = Append(delivered, arrived + 1)
    BY <1>1, <1>3, <2>2 DEF Rx!DeviceReceive, Rx!NextIdx
  <2>4. /\ delivered' \in Seq(Nat) /\ Len(delivered') = n + 1 /\ delivered'[n + 1] = arrived + 1
        /\ \A k \in 1 .. n : delivered'[k] = delivered[k]
    BY <1>1, <2>3 DEF RxInv, RxType
  <2>5. (n + 1) % IdxMod = n + 1
    <3>1. n + 1 \in 0 .. IdxMod - 1
      BY <1>1, RxSizes
    <3> QED BY <3>1, RxSizes, ModSmall
  <2>6. RxType'
    <3>1. arrived' \in 0 .. MaxRx /\ arrived' \in Nat
      BY <1>1
    <3>2. buf' \in [Rx!Heads -> Nat] /\ uring' \in [Rx!Slots -> Rx!Heads]
      BY <1>1, <2>2, <2>3, <3>1 DEF RxInv, RxType
    <3> QED BY <1>1, <2>4, <3>1, <3>2 DEF RxInv, RxType
  <2>7. Ahead'
    <3>1. n + 1 <= arrived + 1 /\ used_idx <= n + 1 /\ n + 1 <= used_idx + Half
      BY <1>1, <2>1, RxSizes
    <3>2. rxavail' = (used_idx' + Half) % IdxMod
      BY <1>1 DEF RxInv, Ahead
    <3> QED BY <1>1, <2>3, <2>4, <2>5, <3>1, <3>2 DEF Ahead
  <2>8. Posted'
    BY <1>1, <2>4 DEF RxInv, Posted
  <2>9. Filled'
    <3> SUFFICES ASSUME NEW k \in Nat, used_idx <= k, k < n + 1
                 PROVE  uring'[k % RxNUM] = Chain(k) /\ buf'[Chain(k)] = delivered'[k + 1]
      BY <1>1, <2>4 DEF Filled
    <3>1. CASE k = n
      BY <2>2, <2>3, <2>4, <3>1 DEF RxInv, RxType
    <3>2. CASE k # n
      <4>1. k < n /\ n < k + Half /\ n <= k + Half
        BY <1>1, <2>1, <3>2, RxSizes
      <4>2. k % RxNUM # n % RxNUM /\ Chain(k) # Chain(n)
        BY <1>1, <4>1, Apart
      <4>3. k % RxNUM \in Rx!Slots /\ Chain(k) \in Rx!Heads
        BY Places
      <4>4. uring'[k % RxNUM] = uring[k % RxNUM] /\ buf'[Chain(k)] = buf[Chain(k)]
        BY <2>3, <4>2, <4>3 DEF RxInv, RxType
      <4>5. k + 1 \in 1 .. n
        BY <1>1, <4>1
      <4> QED BY <2>4, <4>1, <4>4, <4>5 DEF RxInv, Filled
    <3> QED BY <3>1, <3>2
  <2>10. InHand'
    BY <1>1, <2>4 DEF RxInv, InHand
  <2>11. HandledInOrder'
    <3>1. Len(handled) \in Nat /\ Len(handled) <= n /\ handled' = handled
      BY <1>1 DEF RxInv, RxType, HandledInOrder, Rx!HandledInOrder
    <3>2. \A k \in 1 .. Len(handled) : k \in 1 .. n
      BY <1>1, <3>1
    <3> QED BY <1>1, <2>4, <3>1, <3>2 DEF RxInv, HandledInOrder, Rx!HandledInOrder
  <2> QED BY <2>6, <2>7, <2>8, <2>9, <2>10, <2>11 DEF RxInv
<1> QED BY <1>2, <1>3


(* Steps of receive_packet that move no entry.                             *)
LEMMA RxQuietStep ==
  ASSUME RxInv, UNCHANGED <<rxring, rxavail, uring, uidx, used_idx, buf, rxlast,
                            arrived, delivered>>
  PROVE  Ahead' /\ Posted' /\ Filled'
<1>1. Ahead'
  BY DEF RxInv, Ahead
<1>2. Posted' /\ Filled'
  BY DEF RxInv, Posted, Filled
<1> QED BY <1>1, <1>2

(* The interrupt and the end of the loop.                                  *)
LEMMA RxInterruptStep ==
  ASSUME RxInv, Rx!Interrupt \/ Rx!Complete \/ UNCHANGED rxVars
  PROVE  RxInv'
<1> USE DEF Rx!Interrupt, Rx!Complete, rxVars
<1>1. Ahead' /\ Posted' /\ Filled'
  BY RxQuietStep
<1>2. RxType' /\ InHand'
  BY DEF RxInv, RxType, InHand
<1>3. HandledInOrder'
  BY DEF RxInv, HandledInOrder, Rx!HandledInOrder
<1> QED BY <1>1, <1>2, <1>3 DEF RxInv

(* The used entry at used_idx is that of the chain that comes next.        *)
LEMMA RxFetchStep ==
  ASSUME RxInv, Rx!Fetch
  PROVE  RxInv'
<1> USE DEF Rx!Fetch
<1>1. Ahead' /\ Posted' /\ Filled'
  BY RxQuietStep
<1>2. used_idx \in Nat /\ used_idx < Len(delivered)
  BY DEF RxInv, RxType, Ahead, Rx!MorePackets
<1>3. id' = Chain(used_idx) /\ id' \in Rx!Heads
  BY <1>2, Places DEF RxInv, Filled
<1>4. RxType'
  BY <1>3 DEF RxInv, RxType
<1>5. InHand'
  BY <1>2, <1>3 DEF RxInv, InHand
<1>6. HandledInOrder'
  BY DEF RxInv, HandledInOrder, Rx!HandledInOrder
<1> QED BY <1>1, <1>4, <1>5, <1>6 DEF RxInv

(* handle_packet finds the frame that comes next in the buffer.            *)
LEMMA RxHandleStep ==
  ASSUME RxInv, Rx!Handle
  PROVE  RxInv'
<1> USE DEF Rx!Handle
<1>1. Ahead' /\ Posted' /\ Filled'
  BY RxQuietStep
<1>2. /\ used_idx \in Nat /\ used_idx < Len(delivered) /\ id = Chain(used_idx)
      /\ Len(handled) = used_idx /\ rxpc' = "repost" /\ Len(delivered) \in Nat
      /\ handled \in Seq(Nat)
  BY DEF RxInv, RxType, InHand
<1>3. buf[id] = delivered[used_idx + 1] /\ buf[id] \in Nat
  <2>1. Chain(used_idx) \in Rx!Heads
    BY <1>2, Places
  <2>2. buf[Chain(used_idx)] = delivered[used_idx + 1]
    <3>1. used_idx <= used_idx
      BY <1>2
    <3> QED BY <1>2, <3>1 DEF RxInv, Filled
  <2> QED BY <1>2, <2>1, <2>2 DEF RxInv, RxType
<1>4. /\ handled' \in Seq(Nat) /\ Len(handled') = used_idx + 1
      /\ handled'[used_idx + 1] = delivered[used_idx + 1]
      /\ \A k \in 1 .. used_idx : handled'[k] = handled[k]
  BY <1>2, <1>3
<1>5. RxType'
  BY <1>4 DEF RxInv, RxType
<1>6. InHand'
  BY <1>2, <1>4 DEF InHand
<1>7. HandledInOrder'
  <2>1. used_idx + 1 <= Len(delivered) /\ delivered' = delivered
    BY <1>2
  <2>2. ASSUME NEW k \in 1 .. used_idx + 1 PROVE handled'[k] = delivered[k]
    <3>1. k = used_idx + 1 \/ k \in 1 .. used_idx
      BY <1>2
    <3> QED BY <1>2, <1>4, <3>1 DEF RxInv, HandledInOrder, Rx!HandledInOrder
  <2> QED BY <1>4, <2>1, <2>2 DEF HandledInOrder, Rx!HandledInOrder
<1> QED BY <1>1, <1>5, <1>6, <1>7 DEF RxInv

(* The chain is posted behind the others, where no entry still waits for   *)
(* the device.                                                             *)
LEMMA RxRepostStep ==
  ASSUME RxInv, Rx!Repost
  PROVE  RxInv'
<1> DEFINE a == used_idx + Half
<1>1. /\ used_idx \in Nat /\ Len(delivered) \in Nat /\ used_idx < Len(delivered)
      /\ Len(delivered) <= a /\ id = Chain(used_idx) /\ Len(delivered) < IdxMod
      /\ rxavail = a % IdxMod /\ used_idx' = used_idx + 1 /\ a \in Nat
      /\ UNCHANGED <<uring, uidx, buf, rxlast, id, arrived, delivered, handled>>
      /\ rxpc = "repost" /\ rxpc' = "loop"
  <2>1. /\ used_idx \in Nat /\ Len(delivered) \in Nat /\ used_idx < Len(delivered)
        /\ id = Chain(used_idx)
    BY DEF RxInv, RxType, InHand, Rx!Repost
  <2>2. Len(delivered) <= a /\ rxavail = a % IdxMod
    BY DEF RxInv, Ahead
  <2>3. Len(delivered) < IdxMod
    BY <2>1, NetConstants, RxSizes DEF RxInv, RxType, Ahead
  <2> QED BY <2>1, <2>2, <2>3, RxSizes DEF Rx!Repost
<1>2. a < 2 * IdxMod - 1
  BY <1>1, RxSizes
<1>3. rxavail % RxNUM = a % RxNUM /\ (rxavail + 1) % IdxMod = (a + 1) % IdxMod
  <2>1. PICK b \in Nat : b = a
    BY <1>1
  <2>2. (b % IdxMod) % RxNUM = b % RxNUM /\ ((b % IdxMod) + 1) % IdxMod = (b + 1) % IdxMod
    BY <1>2, <2>1, AvailPlace
  <2> QED BY <1>1, <2>1, <2>2
<1>4. id = Chain(a) /\ a % RxNUM \in Rx!Slots /\ id \in Rx!Heads
  BY <1>1, Places
<1>5. rxring' = [rxring EXCEPT ![a % RxNUM] = Chain(a)] /\ rxavail' = (a + 1) % IdxMod
  BY <1>3, <1>4, Zenon DEF Rx!Repost, Rx!RepostSlot, Rx!NextIdx
<1>6. RxType'
  BY <1>1, <1>4, <1>5 DEF RxInv, RxType
<1>7. Ahead'
  <2>1. used_idx + 1 <= Len(delivered) /\ Len(delivered) <= used_idx + 1 + Half
    BY <1>1, RxSizes
  <2>2. a + 1 = used_idx + 1 + Half
    BY <1>1, RxSizes
  <2> QED BY <1>1, <1>5, <2>1, <2>2 DEF RxInv, Ahead
<1>8. Posted'
  <2> SUFFICES ASSUME NEW k \in Nat, Len(delivered) <= k, k < a + 1
               PROVE  rxring'[k % RxNUM] = Chain(k)
    <3>1. \A k \in Nat : k < used_idx + 1 + Half => k < a + 1
      BY <1>1, RxSizes
    <3> QED BY <1>1, <3>1 DEF Posted
  <2>1. CASE k = a
    BY <1>4, <1>5, <2>1 DEF RxInv, RxType
  <2>2. CASE k # a
    <3>1. k < a /\ a <= k + Half
      BY <1>1, <2>2, RxSizes
    <3>2. k % RxNUM # a % RxNUM
      BY <1>1, <3>1, Apart
    <3>3. k % RxNUM \in Rx!Slots
      BY Places
    <3>4. rxring'[k % RxNUM] = rxring[k % RxNUM]
      BY <1>5, <3>2, <3>3 DEF RxInv, RxType
    <3> QED BY <3>1, <3>4 DEF RxInv, Posted
  <2> QED BY <2>1, <2>2
<1>9. Filled'
  <2>1. \A k \in Nat : used_idx + 1 <= k => used_idx <= k
    BY <1>1
  <2> QED BY <1>1, <2>1 DEF RxInv, Filled
<1>10. InHand'
  BY <1>1 DEF RxInv, InHand
<1>11. HandledInOrder'
  BY <1>1 DEF RxInv, HandledInOrder, Rx!HandledInOrder
<1> QED BY <1>6, <1>7, <1>8, <1>9, <1>10, <1>11 DEF RxInv

(* Until the 16-bit used index wraps (MaxRx < IdxMod; past it rx_wrap      *)
(* shows what happens), handle_packet is given every frame the device      *)
(* delivered, once and in order, for any number of chains and frames,      *)
(* however the device runs ahead of the handler and whatever the handler   *)
(* transmits meanwhile: receive_packet posts a chain again only when its   *)
(* frame has been handled, and in a place no posted chain is in.           *)
THEOREM NetHandledInOrder == NetSpec => []HandledInOrder
<1>1. NetInit => RxInv
  BY RxInitial DEF NetInit
<1>2. RxInv /\ [NetNext]_netVars => RxInv'
  <2> SUFFICES ASSUME RxInv, [NetNext]_netVars PROVE RxInv'
    OBVIOUS
  <2>1. \/ Rx!DeviceReceive \/ Rx!Fetch \/ Rx!Handle \/ Rx!Repost
        \/ Rx!Interrupt \/ Rx!Complete \/ UNCHANGED rxVars
    BY DEF NetNext, Transmit, Handler, Interrupt, Fetch, Complete, Handle, Repost, netVars
  <2> QED BY <2>1, RxDeviceStep, RxFetchStep, RxHandleStep, RxRepostStep, RxInterruptStep
<1>3. RxInv => HandledInOrder
  BY DEF RxInv
<1> QED BY <1>1, <1>2, <1>3, PTL DEF NetSpec
============================================================================
