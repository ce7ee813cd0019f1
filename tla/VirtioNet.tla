----------------------------- MODULE VirtioNet -----------------------------
(***************************************************************************)
(* The network driver as a whole: the transmit side (VirtioNetTx) and the  *)
(* receive side (VirtioNetRx) with the two things they share.              *)
(*                                                                         *)
(*  - vnet_lock: receive_packet holds it but for the time a frame is with  *)
(*    handle_packet, transmit_packet until it polls.                       *)
(*  - the interrupt handler: a frame that is an ARP request is answered    *)
(*    from within handle_packet (arp_recv), so the handler itself runs     *)
(*    transmit_packet, as the thread Intr, and polls there.                *)
(***************************************************************************)
EXTENDS VirtioNetTx, Sequences

CONSTANTS
  RxNUM,       \* descriptors of the receive queue: NUM in the code
  Intr,        \* the interrupt handler, one of Threads
  MaxRx,       \* bound: frames that arrive from the network
  MaxUsedIdx,  \* bound: how far the driver's int used_idx may count
  Requests     \* the frames, by number, that are ARP requests for this host

ASSUME NetConstants ==
  /\ Intr \in Threads
  /\ RxNUM \in Nat \ {0} /\ RxNUM % 2 = 0 /\ IdxMod % RxNUM = 0
  /\ MaxRx \in Nat /\ MaxUsedIdx \in Nat /\ MaxRx < IdxMod
  /\ Requests \subseteq 1 .. MaxRx

VARIABLES
  rxring, rxavail, uring, uidx, used_idx, buf, rxlast, pending, rxpc, id,
  arrived, delivered, handled      \* those of VirtioNetRx

rxVars == <<rxring, rxavail, uring, uidx, used_idx, buf, rxlast, pending, rxpc,
            id, arrived, delivered, handled>>
netVars == <<vars, rxVars>>

Rx == INSTANCE VirtioNetRx
        WITH NUM <- RxNUM, ring <- rxring, avail <- rxavail,
             last_avail <- rxlast, pc <- rxpc

(* Everything of the transmit side but the lock. *)
txRest == <<free, desc, ring, avail, packet_buf, pages, panicked,
            threadVars, deviceVars, history>>

NetInit == Init /\ Rx!Init

-----------------------------------------------------------------------------
(* The handler takes the interrupt and the lock, and gives the lock back   *)
(* before handle_packet and at the end of its loop.                        *)
Interrupt == Rx!Interrupt /\ Acquire(Intr) /\ UNCHANGED txRest
Fetch == Rx!Fetch /\ lock' = NoThread /\ UNCHANGED txRest
Complete == Rx!Complete /\ lock' = NoThread /\ UNCHANGED txRest

Handle == Rx!Handle /\ UNCHANGED vars

(* An ARP request handed to handle_packet that has no answer yet.          *)
Asked == Len(SelectSeq(handled, LAMBDA f : f \in Requests))
MustAnswer == rxpc = "repost" /\ sends[Intr] < Asked

(* handle_packet returned: the lock again, and the chain is posted.        *)
Reacquire == ~MustAnswer /\ pc[Intr] = "idle"
Repost == Rx!Repost /\ Reacquire /\ Acquire(Intr) /\ UNCHANGED txRest

Handler == Interrupt \/ Fetch \/ Complete \/ Handle \/ Repost

(* A thread transmits at any time, the handler to answer.                  *)
Transmit(t) ==
  /\ t = Intr /\ pc[t] = "idle" => MustAnswer
  /\ transmit_packet(t)
  /\ UNCHANGED rxVars

NetNext ==
  /\ panicked = "no"
  /\ \/ \E t \in Threads : Transmit(t)
     \/ Device /\ UNCHANGED rxVars
     \/ Rx!DeviceReceive /\ UNCHANGED vars
     \/ Handler

NetSpec == NetInit /\ [][NetNext]_netVars

(* A thread that has the lock, or needs none, runs on, and the device       *)
(* serves its queue; the handler, with interrupts off, goes on as soon as  *)
(* the lock is free, and it is free again and again: acquire() spins, and  *)
(* every holder releases it after a few steps.                             *)
Runs(t) == panicked = "no" /\ pc[t] # "idle" /\ Transmit(t)
NetFairness ==
  /\ \A t \in Threads : WF_netVars(Runs(t))
  /\ WF_netVars(panicked = "no" /\ Device /\ UNCHANGED rxVars)
  /\ SF_netVars(panicked = "no" /\ (Handler \/ Transmit(Intr)))

NetFairSpec == NetSpec /\ NetFairness

-----------------------------------------------------------------------------
(* handle_packet is given the frames the device delivered, each exactly    *)
(* once and in order, whatever the rings did in between and however long   *)
(* the answers of the handler took.                                        *)
HandledInOrder == Rx!HandledInOrder

(* Every frame the device delivered is handled in the end, unless the      *)
(* kernel panics or the handler is caught in the poll of transmit_packet   *)
(* with nothing left that could end it.  An interrupt is never lost, but   *)
(* one answer whose completion came before the sampling of prev_used_idx   *)
(* ends reception for good.                                                *)
Caught == pc[Intr] = "poll" /\ used = prev_used_idx[Intr] /\ used = avail
DeliveredIsHandled ==
  \A k \in 1 .. MaxRx :
    Len(delivered) >= k ~> Len(handled) >= k \/ panicked # "no" \/ Caught
=============================================================================
