------------------------------ MODULE FuProofs ------------------------------
(***************************************************************************)
(* The fragments of every NAL fit their packets and join to the NAL again, *)
(* for every limit on the payload and every length.  The argument: between *)
(* two turns of the loop the peer has joined the bytes below off, and some *)
(* bytes are left.                                                         *)
(***************************************************************************)
EXTENDS FuPacketizer, TLAPS

FuInv ==
    /\ pc \in {"idle", "send"} /\ off \in Nat /\ first \in BOOLEAN
    /\ peer \in Joining
    /\ pc = "send" =>
          /\ nal \in NalUnit
          /\ \/ first /\ off = 1
             \/ /\ ~first /\ nal.len > MaxPayload
                /\ 1 < off /\ off < nal.len
                /\ peer.open /\ peer.next = off
    /\ PayloadFits

-----------------------------------------------------------------------------
(* A NAL's length is a positive number.                                    *)
LEMMA NalLen ==
    ASSUME NEW n \in NalUnit
    PROVE  /\ n.len \in Nat /\ n.len > 0 /\ n.last \in BOOLEAN /\ n # NoNal
           /\ n = [len |-> n.len, last |-> n.last]
<1>1. n.len \in Lengths /\ n.last \in BOOLEAN
  BY DEF NalUnit
<1>2. n = [len |-> n.len, last |-> n.last]
  BY DEF NalUnit
<1>3. n.len \in Nat /\ n.len > 0
  <2>1. n.len \in Nat \ {0}
    BY <1>1, FuAssumption, Zenon
  <2> QED
    BY <2>1
<1>4. n # NoNal
  BY <1>3 DEF NoNal
<1> QED
  BY <1>1, <1>2, <1>3, <1>4

(* The invariant holds before anything is pushed.                          *)
LEMMA FuInitInv == FuInit => FuInv
<1> SUFFICES ASSUME FuInit PROVE FuInv
  OBVIOUS
<1>1. peer \in Joining
  BY DEF FuInit, Joining, NothingJoined
<1>2. PayloadFits
  BY DEF FuInit, PayloadFits
<1> QED
  BY <1>1, <1>2 DEF FuInit, FuInv

(* A NAL that fits is complete at once.                                    *)
LEMMA SingleSends ==
    ASSUME FuInv, Single
    PROVE  /\ FuInv'
           /\ pc = "send" /\ pc' = "idle" /\ nal \in NalUnit /\ nal' = nal
           /\ peer'.whole = nal
<1>1. nal \in NalUnit /\ nal' = nal /\ pc = "send" /\ pc' = "idle" /\ off' = off /\ first' = first
  BY DEF Single, FuInv
<1>2. nal.len \in Nat /\ nal.len > 0 /\ nal.last \in BOOLEAN /\ nal.len <= MaxPayload
      /\ nal = [len |-> nal.len, last |-> nal.last]
  BY <1>1, NalLen DEF Single, FitsPacket
<1>3. pkt' = [fu |-> FALSE, start |-> FALSE, end |-> FALSE, from |-> 0, size |-> nal.len,
              marker |-> nal.last]
  BY DEF Single, Send
<1>4. peer' = [open |-> FALSE, next |-> 0, whole |-> nal]
  BY <1>2, <1>3 DEF Single, Send, Receive, Completed
<1>5. peer' \in Joining
  BY <1>1, <1>4 DEF Joining
<1>6. PayloadFits'
  BY <1>2, <1>3 DEF PayloadFits
<1> QED
  BY <1>1, <1>4, <1>5, <1>6 DEF FuInv

(* A fragment leaves the peer with all the bytes up to its end: the whole  *)
(* NAL when it is the last one, and only then.                             *)
LEMMA FragmentSends ==
    ASSUME FuInv, Fragment
    PROVE  /\ FuInv'
           /\ pc = "send" /\ nal \in NalUnit /\ nal' = nal
           /\ \/ pc' = "send" /\ peer'.whole = peer.whole
              \/ pc' = "idle" /\ peer'.whole = nal
<1>1. /\ pc = "send" /\ nal \in NalUnit /\ nal' = nal /\ off \in Nat /\ peer \in Joining
      /\ first' = FALSE /\ off' = off + FuData /\ first \in BOOLEAN
  BY DEF Fragment, FuInv
<1>2. /\ nal.len \in Nat /\ nal.len > MaxPayload /\ nal.last \in BOOLEAN
      /\ nal = [len |-> nal.len, last |-> nal.last]
  BY <1>1, NalLen, FuAssumption DEF Fragment, FitsPacket
<1>3. FuData \in Nat /\ FuData > 0 /\ FuData = MaxPayload - 2 /\ MaxPayload \in Nat
  BY FuAssumption DEF FuData
<1>4. pkt' = [fu |-> TRUE, start |-> first, end |-> Ends(off), from |-> off,
              size |-> Chunk(off), marker |-> nal.last /\ Ends(off)]
      /\ peer' = Receive(peer, pkt')
  BY DEF Fragment, Send
<1>5. pc' = IF off + FuData < nal.len THEN "send" ELSE "idle"
  BY DEF Fragment
<1>6. 1 <= off /\ off < nal.len /\ (first => off = 1) /\ (~first => peer.open /\ peer.next = off)
  BY <1>1, <1>2, <1>3 DEF FuInv
<1>7. Chunk(off) \in Nat /\ Chunk(off) > 0 /\ Chunk(off) <= FuData
  BY <1>1, <1>2, <1>3, <1>6 DEF Chunk
<1>8. /\ Ends(off) => nal.len <= off + FuData
      /\ ~Ends(off) => off + FuData < nal.len
  <2>1. off + Chunk(off) = nal.len => nal.len <= off + FuData
    BY <1>1, <1>2, <1>3, <1>7
  <2>2. off + Chunk(off) # nal.len => off + FuData < nal.len
    BY <1>1, <1>2, <1>3, <1>6 DEF Chunk
  <2> QED
    BY <2>1, <2>2 DEF Ends
<1>9. ~(first /\ Ends(off))
  <2>1. off = 1 => ~(nal.len <= off + FuData)
    BY <1>2, <1>3
  <2> QED
    BY <1>6, <1>8, <2>1
<1>10. PayloadFits'
  <2>1. pkt'.size > 0 /\ pkt'.size + 2 <= MaxPayload /\ pkt'.fu
    BY <1>3, <1>4, <1>7
  <2>2. ~(pkt'.start /\ pkt'.end)
    BY <1>4, <1>9
  <2> QED
    BY <2>1, <2>2 DEF PayloadFits
<1>11. Fits(peer, pkt')
  <2>1. pkt'.start = first /\ pkt'.from = off
    BY <1>4
  <2> QED
    BY <1>6, <2>1 DEF Fits
<1>12. pkt'.fu /\ pkt'.start = first /\ pkt'.end = Ends(off) /\ pkt'.from = off
       /\ pkt'.size = Chunk(off) /\ pkt'.marker = (nal.last /\ Ends(off))
  BY <1>4
<1>13. CASE Ends(off)
  <2>1. off + Chunk(off) = nal.len /\ nal.len <= off + FuData
    BY <1>8, <1>13 DEF Ends
  <2>2. pc' = "idle"
    BY <1>1, <1>2, <1>3, <1>5, <2>1
  <2>3. peer' = Completed(pkt'.from + pkt'.size, pkt'.marker)
    BY <1>4, <1>9, <1>11, <1>12, <1>13, Zenon DEF Receive
  <2>4. pkt'.from + pkt'.size = nal.len
    BY <1>12, <2>1
  <2>5. pkt'.marker = nal.last
    BY <1>2, <1>12, <1>13
  <2>6. peer' = [open |-> FALSE, next |-> 0, whole |-> nal]
    BY <1>2, <2>3, <2>4, <2>5 DEF Completed
  <2>7. peer' \in Joining /\ peer'.whole = nal
    BY <1>1, <2>6 DEF Joining
  <2>8. off' \in Nat
    BY <1>1, <1>3
  <2> QED
    BY <1>1, <1>10, <2>2, <2>7, <2>8 DEF FuInv
<1>14. CASE ~Ends(off)
  <2>1. off + FuData < nal.len
    BY <1>8, <1>14
  <2>2. pc' = "send"
    BY <1>5, <2>1
  <2>3. Chunk(off) = FuData
    BY <1>1, <1>2, <1>3, <2>1 DEF Chunk
  <2>4. peer' = [peer EXCEPT !.open = TRUE, !.next = pkt'.from + pkt'.size]
    BY <1>4, <1>11, <1>12, <1>14, Zenon DEF Receive
  <2>5. pkt'.from + pkt'.size = off'
    BY <1>1, <1>12, <2>3
  <2>6. off' \in Nat /\ ~first' /\ nal'.len > MaxPayload /\ 1 < off' /\ off' < nal'.len
    BY <1>1, <1>2, <1>3, <1>6, <2>1
  <2>7. peer' \in Joining /\ peer'.open /\ peer'.next = off' /\ peer'.whole = peer.whole
    BY <1>1, <2>4, <2>5, <2>6 DEF Joining
  <2> QED
    BY <1>1, <1>10, <2>2, <2>6, <2>7 DEF FuInv
<1> QED
  BY <1>13, <1>14

(* Pushing a NAL begins at its first byte.                                 *)
LEMMA PushBegins ==
    ASSUME FuInv, NEW n \in NalUnit, Push(n)
    PROVE  FuInv' /\ pc = "idle" /\ pc' = "send" /\ nal' = n /\ peer' = peer
<1>1. pc = "idle" /\ pc' = "send" /\ nal' = n /\ off' = 1 /\ first' = TRUE
      /\ pkt' = NoPacket /\ peer' = peer
  BY DEF Push
<1>2. PayloadFits'
  BY <1>1 DEF PayloadFits, NoPacket
<1> QED
  BY <1>1, <1>2 DEF FuInv

(* Every step keeps the invariant.                                         *)
LEMMA FuStep ==
    ASSUME FuInv, [FuNext]_fuVars
    PROVE  FuInv'
<1>1. CASE UNCHANGED fuVars
  BY <1>1 DEF fuVars, FuInv, PayloadFits
<1> QED
  BY <1>1, PushBegins, SingleSends, FragmentSends DEF FuNext

(* The invariant holds for ever.                                           *)
LEMMA FuInductive == FuSpec => []FuInv
<1>1. FuInit => FuInv
  BY FuInitInv
<1>2. FuInv /\ [FuNext]_fuVars => FuInv'
  BY FuStep
<1> QED
  BY <1>1, <1>2, PTL DEF FuSpec

(***************************************************************************)
(* No packet of send_video_nal() overruns rtp_send()'s buffer, is empty,   *)
(* or is a fragment with both start and end bit, at any length.            *)
(***************************************************************************)
THEOREM FragmentsFit == FuSpec => []PayloadFits
<1>1. FuInv => PayloadFits
  BY DEF FuInv
<1> QED
  BY <1>1, FuInductive, PTL

(***************************************************************************)
(* Fragmenting and joining implement the delivery of whole NALs.           *)
(***************************************************************************)
THEOREM FuImplementsDelivery == FuSpec => NalsArrive
<1>1. FuInit => Delivery!DeliveryInit
  BY DEF FuInit, Delivery!DeliveryInit, Delivery!None, NoNal, NothingJoined
<1>2. FuInv /\ [FuNext]_fuVars => [Delivery!DeliveryNext]_Delivery!deliveryVars
  <2> SUFFICES ASSUME FuInv, [FuNext]_fuVars
               PROVE  [Delivery!DeliveryNext]_Delivery!deliveryVars
    OBVIOUS
  <2> USE DEF Delivery!DeliveryNext, Delivery!deliveryVars, Delivery!HandOver, Delivery!Deliver,
              Delivery!None, Delivery!Nal
  <2>1. CASE UNCHANGED fuVars
    BY <2>1 DEF fuVars
  <2>2. ASSUME NEW n \in NalUnit, Push(n)
        PROVE  Delivery!DeliveryNext
    BY <2>2, PushBegins DEF NoNal, NalUnit
  <2>3. CASE Single
    <3>1. pc = "send" /\ pc' = "idle" /\ nal \in NalUnit /\ peer'.whole = nal
      BY <2>3, SingleSends
    <3> QED
      BY <3>1, NalLen DEF NoNal
  <2>4. CASE Fragment
    <3>1. /\ pc = "send" /\ nal \in NalUnit /\ nal' = nal
          /\ \/ pc' = "send" /\ peer'.whole = peer.whole
             \/ pc' = "idle" /\ peer'.whole = nal
      BY <2>4, FragmentSends
    <3> QED
      BY <3>1, NalLen DEF NoNal
  <2> QED
    BY <2>1, <2>2, <2>3, <2>4 DEF FuNext
<1> QED
  BY <1>1, <1>2, FuInductive, PTL DEF FuSpec, NalsArrive, Delivery!DeliverySpec
=============================================================================
