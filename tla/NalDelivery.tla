---------------------------- MODULE NalDelivery ----------------------------
(***************************************************************************)
(* What send_video_nal() promises a peer that loses nothing: a NAL handed  *)
(* over for sending arrives whole, before the next one is handed over.     *)
(***************************************************************************)
EXTENDS Integers

CONSTANT Lengths  \* lengths of NALs

Nal == [len : Lengths, last : BOOLEAN]  \* last: the marker ends a frame
None == [len |-> 0, last |-> FALSE]

VARIABLES pending, delivered

deliveryVars == <<pending, delivered>>

DeliveryInit == pending = None /\ delivered = None

HandOver(nal) == pending = None /\ pending' = nal /\ UNCHANGED delivered
Deliver == pending # None /\ delivered' = pending /\ pending' = None

DeliveryNext == Deliver \/ \E nal \in Nal : HandOver(nal)

DeliverySpec == DeliveryInit /\ [][DeliveryNext]_deliveryVars
=============================================================================
