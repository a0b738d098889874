----------------------------- MODULE FrameQueue -----------------------------
(***************************************************************************)
(* What both rings of the Ethernet driver promise, without descriptors,    *)
(* indices or registers: a bounded first-in first-out channel.  Items are  *)
(* accepted in batches that fit, and delivered one at a time, each exactly *)
(* once and in the order they were accepted.                               *)
(*                                                                         *)
(* EthTx implements it with accepted = what software handed to the MAC and *)
(* delivered = what the MAC sent; EthRx with accepted = what the MAC       *)
(* published and delivered = what software processed.                      *)
(***************************************************************************)
EXTENDS Integers, Sequences

CONSTANTS
  Item,      \* what travels through the channel
  Capacity   \* how many accepted items may wait for delivery

VARIABLES
  accepted,  \* every item accepted so far, in order
  delivered  \* every item delivered so far, in order

queueVars == <<accepted, delivered>>

Init ==
  /\ accepted  = << >>
  /\ delivered = << >>

Accept ==
  /\ accepted' \in Seq(Item)
  /\ Len(accepted') \in (Len(accepted) + 1) .. (Len(delivered) + Capacity)
  /\ \A k \in 1 .. Len(accepted) : accepted'[k] = accepted[k]
  /\ UNCHANGED delivered

Deliver ==
  /\ Len(delivered) < Len(accepted)
  /\ delivered' = Append(delivered, accepted[Len(delivered) + 1])
  /\ UNCHANGED accepted

Next == Accept \/ Deliver

Spec == Init /\ [][Next]_queueVars
=============================================================================
