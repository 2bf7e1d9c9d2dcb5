---------------------------- MODULE FuPacketizer ----------------------------
(***************************************************************************)
(* send_video_nal() of src/majestic/rtsp_server.c for one client: a NAL    *)
(* that fits goes out in one RTP packet, a larger one in FU-A fragments;   *)
(* and a peer that joins the fragments by the rules of RFC 6184.  Bytes    *)
(* are numbered from 0 (the NAL header), a payload is a range of them.     *)
(***************************************************************************)
EXTENDS Integers

CONSTANTS
    MaxPayload,  \* RTP_MAX_PAYLOAD
    Lengths      \* lengths of the NALs to send

FuData == MaxPayload - 2  \* FU_A_DATA

ASSUME FuAssumption ==
    /\ MaxPayload \in Nat /\ MaxPayload > 2
    /\ Lengths \subseteq Nat \ {0}

NalUnit == [len : Lengths, last : BOOLEAN]
NoNal == [len |-> 0, last |-> FALSE]

VARIABLES
    pc,     \* "idle", or "send" within send_video_nal
    nal,    \* its arguments len and last
    off,    \* the loop's offset
    first,  \* the start bit in fu[1]
    pkt,    \* the packet sent last
    peer    \* what the peer has of the NAL it is joining, and the last whole one

fuVars == <<pc, nal, off, first, pkt, peer>>

Packet == [fu : BOOLEAN, start : BOOLEAN, end : BOOLEAN, from : Nat, size : Nat,
           marker : BOOLEAN]
NoPacket == [fu |-> FALSE, start |-> FALSE, end |-> FALSE, from |-> 0, size |-> 0,
             marker |-> FALSE]

-----------------------------------------------------------------------------
(* The peer: a fragment without start continues what is there, and one     *)
(* that does not fit throws it away.  Fragments carry no header byte.      *)

Joining == [open : BOOLEAN, next : Nat, whole : NalUnit \cup {NoNal}]
NothingJoined == [open |-> FALSE, next |-> 0, whole |-> NoNal]

Fits(p, k) == IF k.start THEN k.from = 1 ELSE p.open /\ k.from = p.next

Completed(len, marker) == [open |-> FALSE, next |-> 0, whole |-> [len |-> len, last |-> marker]]

Receive(p, k) ==
    IF ~k.fu THEN Completed(k.size, k.marker)
    ELSE IF ~Fits(p, k) \/ (k.start /\ k.end) \/ (k.marker /\ ~k.end)
         THEN NothingJoined
    ELSE IF k.end THEN Completed(k.from + k.size, k.marker)
    ELSE [p EXCEPT !.open = TRUE, !.next = k.from + k.size]

-----------------------------------------------------------------------------
FuInit ==
    /\ pc = "idle" /\ nal = NoNal /\ off = 1 /\ first = FALSE
    /\ pkt = NoPacket /\ peer = NothingJoined

Push(n) ==
    /\ pc = "idle" /\ pc' = "send"
    /\ nal' = n /\ off' = 1 /\ first' = TRUE
    /\ pkt' = NoPacket /\ UNCHANGED peer

Send(k) == pkt' = k /\ peer' = Receive(peer, k)

(* Variant: the limit is that of a fragment. *)
FitsPacket_Data(len) == len <= MaxPayload + 2
FitsPacket(len) == len <= MaxPayload

Single ==
    /\ pc = "send" /\ FitsPacket(nal.len) /\ pc' = "idle"
    /\ Send([fu |-> FALSE, start |-> FALSE, end |-> FALSE, from |-> 0, size |-> nal.len,
             marker |-> nal.last])
    /\ UNCHANGED <<nal, off, first>>

Chunk(o) == IF nal.len - o < FuData THEN nal.len - o ELSE FuData

(* Variant: the end is where less than a full fragment is left. *)
Ends_Short(o) == Chunk(o) < FuData
Ends(o) == o + Chunk(o) = nal.len

(* One turn of the loop. *)
Fragment ==
    /\ pc = "send" /\ ~FitsPacket(nal.len)
    /\ Send([fu |-> TRUE, start |-> first, end |-> Ends(off), from |-> off,
             size |-> Chunk(off), marker |-> nal.last /\ Ends(off)])
    /\ first' = FALSE
    /\ off' = off + FuData
    /\ pc' = IF off + FuData < nal.len THEN "send" ELSE "idle"
    /\ UNCHANGED nal

FuNext == (\E n \in NalUnit : Push(n)) \/ Single \/ Fragment

FuSpec == FuInit /\ [][FuNext]_fuVars

-----------------------------------------------------------------------------
(* Properties. *)

(***************************************************************************)
(* The payload of every packet fits the buffer pkt[12 + RTP_MAX_PAYLOAD]   *)
(* of rtp_send(), the fragment's two bytes of header included, none is     *)
(* empty, and no fragment has both start and end bit (RFC 6184, 5.8).      *)
(***************************************************************************)
PayloadFits ==
    pkt # NoPacket =>
       /\ pkt.size > 0
       /\ pkt.size + (IF pkt.fu THEN 2 ELSE 0) <= MaxPayload
       /\ ~(pkt.start /\ pkt.end)

(***************************************************************************)
(* Each NAL arrives whole, with its marker, before the next one is begun:  *)
(* packets and peer together implement NalDelivery.                        *)
(***************************************************************************)
Delivery == INSTANCE NalDelivery WITH
    pending <- IF pc = "send" THEN nal ELSE NoNal,
    delivered <- peer.whole

NalsArrive == Delivery!DeliverySpec
=============================================================================
