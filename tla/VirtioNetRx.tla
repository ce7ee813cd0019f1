---------------------------- MODULE VirtioNetRx ----------------------------
(***************************************************************************)
(* The receive side of the network driver: the chains virtio_net_init      *)
(* posts, the device that fills them, the interrupt, and receive_packet of *)
(* kernel/virtio_net.c, which hands each frame to handle_packet with       *)
(* vnet_lock released and posts the chain again.                           *)
(*                                                                         *)
(* A chain is named by its head descriptor; its buffer holds the number of *)
(* the frame the device wrote last.  Only receive_packet touches rxq after *)
(* initialisation, and the PLIC lets one CPU at a time serve the interrupt *)
(* (devintr claims and completes it), so vnet_lock guards nothing here.    *)
(***************************************************************************)
EXTENDS Integers, Sequences

CONSTANTS
  NUM,         \* descriptors per queue (virtio.h: 8), even
  IdxMod,      \* the ring indices of the device are uint16: 2^16, a multiple of NUM
  MaxRx,       \* bound: frames that arrive from the network
  MaxUsedIdx   \* bound: how far the driver's int used_idx may count

Slots == 0 .. NUM - 1
Heads == {2 * i : i \in 0 .. (NUM \div 2) - 1}

VARIABLES
  ring, avail,     \* rxq.driver_area->ring[], ->idx
  uring, uidx,     \* rxq.device_area->ring[].id, ->idx (uint16)
  used_idx,        \* rxq.used_idx, an int
  buf,             \* the frame in the buffer of each chain
  last_avail,      \* the device's position in the available ring
  pending,         \* the PLIC has an interrupt of the device to deliver
  pc, id,          \* receive_packet: where it is, the chain in hand
  arrived,         \* frames that came from the network so far
  delivered,       \* history: frames the device wrote into a chain
  handled          \* history: frames handle_packet was given

vars == <<ring, avail, uring, uidx, used_idx, buf, last_avail, pending, pc,
          id, arrived, delivered, handled>>

(* The fill loop of virtio_net_init posts every chain; the notify and      *)
(* DRIVER_OK that end it let the device start.                             *)
Init ==
  /\ ring = [s \in Slots |-> IF s < NUM \div 2 THEN 2 * s ELSE 0]
  /\ avail = (NUM \div 2) % IdxMod
  /\ uring = [s \in Slots |-> 0]
  /\ uidx = 0 /\ used_idx = 0 /\ last_avail = 0
  /\ buf = [h \in Heads |-> 0]
  /\ pending = FALSE
  /\ pc = "out" /\ id = 0
  /\ arrived = 0
  /\ delivered = <<>> /\ handled = <<>>

NextIdx(i) == (i + 1) % IdxMod

-----------------------------------------------------------------------------
(* The device.  A frame that finds no chain available is dropped.          *)
DeviceReceive ==
  /\ arrived < MaxRx
  /\ arrived' = arrived + 1
  /\ IF last_avail = avail
       THEN UNCHANGED <<buf, uring, uidx, last_avail, pending, delivered>>
       ELSE LET head == ring[last_avail % NUM] IN
            /\ buf' = [buf EXCEPT ![head] = arrived']
            /\ uring' = [uring EXCEPT ![uidx % NUM] = head]
            /\ uidx' = NextIdx(uidx)
            /\ last_avail' = NextIdx(last_avail)
            /\ pending' = TRUE
            /\ delivered' = Append(delivered, arrived')
  /\ UNCHANGED <<ring, avail, used_idx, pc, id, handled>>

-----------------------------------------------------------------------------
(* devintr: plic_claim, then receive_packet acquires the lock.             *)
Interrupt ==
  /\ pc = "out" /\ pending
  /\ pending' = FALSE
  /\ pc' = "loop"
  /\ UNCHANGED <<ring, avail, uring, uidx, used_idx, buf, last_avail, id,
                 arrived, delivered, handled>>

(* The loop condition compares the int used_idx with the uint16 idx.       *)
MorePackets_ahead == used_idx < uidx - 1
MorePackets == used_idx # uidx

(* The place of the available ring for the next chain.                     *)
RepostSlot == avail % NUM

(* Mutant: the chain is given back to the device before it is handled.     *)
Fetch_posts ==
  /\ pc = "loop"
  /\ MorePackets
  /\ id' = uring[used_idx % NUM]
  /\ ring' = [ring EXCEPT ![RepostSlot] = id']
  /\ avail' = NextIdx(avail)
  /\ pc' = "handle"
  /\ UNCHANGED <<uring, uidx, used_idx, buf, last_avail, pending,
                 arrived, delivered, handled>>

(* The body of the loop up to the release of the lock.                     *)
Fetch ==
  /\ pc = "loop"
  /\ MorePackets
  /\ id' = uring[used_idx % NUM]
  /\ pc' = "handle"
  /\ UNCHANGED <<ring, avail, uring, uidx, used_idx, buf, last_avail, pending,
                 arrived, delivered, handled>>

(* handle_packet reads the frame out of the buffer of the chain.           *)
Handle ==
  /\ pc = "handle"
  /\ handled' = Append(handled, buf[id])
  /\ pc' = "repost"
  /\ UNCHANGED <<ring, avail, uring, uidx, used_idx, buf, last_avail, pending,
                 id, arrived, delivered>>

(* used_idx++, the chain goes back to the available ring, notify.          *)
Repost ==
  /\ pc = "repost"
  /\ used_idx < MaxUsedIdx
  /\ used_idx' = used_idx + 1
  /\ ring' = [ring EXCEPT ![RepostSlot] = id]
  /\ avail' = NextIdx(avail)
  /\ pc' = "loop"
  /\ UNCHANGED <<uring, uidx, buf, last_avail, pending, id, arrived,
                 delivered, handled>>

(* The loop ends, the lock is released and devintr completes the interrupt. *)
Complete ==
  /\ pc = "loop"
  /\ ~MorePackets
  /\ pc' = "out"
  /\ UNCHANGED <<ring, avail, uring, uidx, used_idx, buf, last_avail, pending,
                 id, arrived, delivered, handled>>

receive_packet == Fetch \/ Handle \/ Repost \/ Complete

Next == DeviceReceive \/ Interrupt \/ receive_packet

Spec == Init /\ [][Next]_vars

-----------------------------------------------------------------------------
(* handle_packet is given the frames the device delivered, each exactly    *)
(* once and in order, whatever the rings did in between: no buffer is      *)
(* written while it waits to be handled, no used entry is read twice.      *)
HandledInOrder ==
  /\ Len(handled) <= Len(delivered)
  /\ \A k \in 1 .. Len(handled) : handled[k] = delivered[k]

=============================================================================
